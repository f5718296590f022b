\* Weights two and one; quotas, the leave to exceed them, catalogs and rejections change.
CONSTANTS
  a1 = a1
  a2 = a2
  m1 = m1
  r1 = r1
  r2 = r2
  NoAccount = NoAccount
  NoList = NoList
  Slots <- WeightedTwo
  Models = {m1}
  Requests = {r1, r2}
  Barred = {{}}
  Records <- QuotaEdits
  Expiring = {}
  ModelLists = {{}, {m1}}
  OverUsage = {FALSE, TRUE}
  ErrorCooldown = 1
  QuotaCooldown = 2
  Failures = {"model"}
  CapResets = {}
  MaxTime = 1
  IndexBound = 6
SYMMETRY RequestSymmetry
VIEW WithoutStrikes
SPECIFICATION Spec
INVARIANTS EachRoundIsFair
PROPERTIES OverQuotaNeedsLeave RejectionLasts
CHECK_DEADLOCK FALSE
