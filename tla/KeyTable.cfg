\* Two requests and an operator over two keys: values rotated, keys disabled, deleted, reset; the legacy key.
CONSTANTS
  k1 = k1
  k2 = k2
  s1 = s1
  s2 = s2
  r1 = r1
  r2 = r2
  r3 = r3
  a1 = a1
  NoSecret = NoSecret
  NoEntry = NoEntry
  Admins = {a1}
  Window = 2
  KeyIds = {k1, k2}
  LimitedIds = {k1, k2}
  Secrets = {s1, s2}
  EditFields = {"secret", "enabled"}
  TokenLimits = {1}
  RpmLimits = {0}
  ConcurrencyLimits = {0}
  RequireValues = {TRUE}
  LegacyKeys = {NoSecret, s2}
  Requests = {r1, r2}
  Costs = {1}
  MaxCost = 1
  MaxTime = 0
  MaxUsed = 3
SYMMETRY RequestSymmetry
SPECIFICATION Spec
INVARIANTS AdmissionJustified SecretsUnique QuotaOvershootBounded
PROPERTIES DeletedStaysDeleted EditsKeepUsage
CHECK_DEADLOCK FALSE
