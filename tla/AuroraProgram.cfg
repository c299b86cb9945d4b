SPECIFICATION ProgramSpec
CONSTANTS
  alice = alice
  bob = bob
  h0 = h0
  h1 = h1
  s64 = s64
  s128 = s128
  s129 = s129
  s256 = s256
  s257 = s257
  Keys = {alice, bob}
  Hashes = {h0, h1}
  ZeroHash = h0
  Strings = {s64, s128, s129, s256, s257}
  Bytes <- MCBytes
  NoArticle = NoArticle
  MaxClock = 1
INVARIANTS
  ProgramTypeOK
  RecordMatchesAddress
  FitsItsSpace
PROPERTIES
  RecordIsPermanent
