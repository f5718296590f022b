\* Two requests, which may be unable to use some accounts, fail and succeed in any order.
CONSTANTS
  a1 = a1
  a2 = a2
  m1 = m1
  r1 = r1
  r2 = r2
  NoAccount = NoAccount
  NoList = NoList
  Slots <- PlainTwo
  Models = {m1}
  Requests = {r1, r2}
  Barred = {{}, {a1}, {a1, a2}}
  Records <- NoEdits
  Expiring = {a1}
  ModelLists = {}
  OverUsage = {FALSE}
  ErrorCooldown = 1
  QuotaCooldown = 2
  Failures = {"plain", "quota", "cap"}
  CapResets = {2}
  MaxTime = 2
  IndexBound = 2
SPECIFICATION FairSpec
PROPERTIES RestAfterThreeFailures CoolingIsLastResort NoStarvation
CHECK_DEADLOCK FALSE
