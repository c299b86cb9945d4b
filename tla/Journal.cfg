SPECIFICATION Spec
CONSTANTS
  alice = alice
  h0 = h0
  h1 = h1
  i1 = i1
  i2 = i2
  first = first
  second = second
  title = title
  Keys = {alice}
  Hashes = {h0, h1, i1, i2}
  ZeroHash = h0
  Strings = {first, second, title}
  Bytes <- MCBytes
  NoArticle = NoArticle
  MaxClock = 0
  NGateways = 2
  MaxRetries = 1
  Uploads = {first, second}
  Body <- MCBody
  ListLimit = 2
  aiScope = title
  MaxToasts = 1
  Messages = {"success", "error"}
  Checks = {1}
  Nobody = Nobody
  Closed = Closed
  Idle = Idle
  Intuitions = {i1, i2}
  Loading = Loading
  LoadFailed = LoadFailed
  MaxRetry = 1
INVARIANTS
  JournalTypeOK
  VerifiedIsRecorded
  OnlyTurningBreaksIt
  GivesUpAfterAll
PROPERTIES
  LoadingEnds
  VerdictReachesReader
  ToastsGoAway
CHECK_DEADLOCK FALSE
