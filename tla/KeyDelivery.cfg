SPECIFICATION Spec
CONSTANTS
  a1 = a1
  author = author
  reader = reader
  r1 = r1
  r2 = r2
  Articles = {a1}
  Wallets = {author, reader}
  Readers = {reader}
  Owner <- MCOwner
  Keyed = {a1}
  Nobody = Nobody
  Requests <- MCRequests
  Terms <- MCTerms
  Duration <- MCDuration
  ChallengeTTL = 1
  MaxTime = 2
  MaxNonces = 2
INVARIANTS
  TypeOK
  NonceServesOneClaim
PROPERTIES
  ClaimAnswersLatestChallenge
  OwnerControlsGrants
  Promise
SYMMETRY Slots
