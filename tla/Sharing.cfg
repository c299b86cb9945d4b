SPECIFICATION SharingSpec
CONSTANTS
  Parts = {"links", "modal", "lists", "reader"}
  LinkArticles = {a1}
  Tokens = {t1, t2}
  Lives <- OneTick
  Callers = {c1, c2}
  Unlimited = Unlimited
  NoRow = NoRow
  NoCall = NoCall
  MaxNow = 2
  MyArticles = {a1, a2}
  Granted = {a1}
  Viewers = {v1, v2}
  ListMax = 1
  ListCalls = {l1, l2}
  None = None
  DashWallets = {w1, w2}
  Loads = {e1, e2}
  NoOne = NoOne
  MaxAccounts = 3
  Readers = {w1, w2}
  TheAuthor = w2
  ReaderRuns = {r1, r2}
  Nobody = Nobody
  Stale = Stale
  MaxSwitches = 3
INVARIANTS
  SharingTypeOK
  NoRevokedLinkOpens
  ShownIsStored
  ListedIsTheWallets
  VerdictIsForThisAccount
  HonestClaimPasses
PROPERTIES
  LinksReopenByRenewal
  SharingSettles
CHECK_DEADLOCK FALSE
