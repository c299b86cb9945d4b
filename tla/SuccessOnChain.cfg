SPECIFICATION PublishSpec
CONSTANTS
  alice = alice
  h0 = h0
  h1 = h1
  h2 = h2
  t1 = t1
  t2 = t2
  id1 = id1
  id2 = id2
  short = short
  accented = accented
  scope = scope
  Keys = {alice}
  Hashes = {h0, h1, h2}
  ZeroHash = h0
  Strings = {short, accented, scope, id1, id2}
  Bytes <- MCBytes
  NoArticle = NoArticle
  MaxClock = 0
  Tabs = {t1, t2}
  Author <- MCAuthor
  Titles = {short, accented}
  Contents = {h1, h2}
  Attempts = {1, 2}
  NoAttempt = 0
  intuition = h1
  ArweaveId <- MCArweaveId
  aiScope = scope
  Balance <- RentForOne
INVARIANTS
  SuccessMeansOnChain
CHECK_DEADLOCK FALSE
