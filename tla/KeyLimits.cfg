\* Two requests on one key whose limits are edited; the key is deleted, the switch toggled, time passes.
CONSTANTS
  k1 = k1
  k2 = k2
  s1 = s1
  s2 = s2
  r1 = r1
  r2 = r2
  r3 = r3
  a1 = a1
  NoSecret = NoSecret
  NoEntry = NoEntry
  Admins = {a1}
  Window = 2
  KeyIds = {k1}
  LimitedIds = {k1}
  Secrets = {s1}
  EditFields = {"concurrencyLimit"}
  TokenLimits = {0}
  RpmLimits = {0, 2}
  ConcurrencyLimits = {1, 2}
  RequireValues = {TRUE, FALSE}
  LegacyKeys = {NoSecret}
  Requests = {r1, r2}
  Costs = {0}
  MaxCost = 0
  MaxTime = 2
  MaxUsed = 0
SPECIFICATION FairSpec
INVARIANTS InflightExact RefusalsNotCharged
PROPERTIES ConcurrencyRespected RpmRespected DeletedKeyDrains
CHECK_DEADLOCK FALSE
