\* A request, an operator and warmup runs on one account, a Kiro account or not.
CONSTANTS
  a1 = a1
  r1 = r1
  o1 = o1
  Accounts = {a1}
  KiroChoices = {{}, {a1}}
  Requests = {r1}
  Operators = {o1}
  Changes = {"on", "off", "edit", "delete", "refresh", "batchRefresh"}
  ManualIds <- SelectA1
  WarmupProbe = TRUE
  Recovers = {TRUE, FALSE}
  Gone = Gone
SPECIFICATION FairSpec
INVARIANTS NoStuckBan PoolFollowsConfig
PROPERTIES DeletedStaysDeleted AutoBannedRecovers
CHECK_DEADLOCK FALSE
