\* An operator switches an account off while warmup works on it.
CONSTANTS
  a1 = a1
  r1 = r1
  o1 = o1
  Accounts = {a1}
  KiroChoices = {{}}
  Requests = {r1}
  Operators = {o1}
  Changes = {"on", "off", "edit"}
  ManualIds <- NoManual
  WarmupProbe = TRUE
  Recovers = {TRUE}
  Gone = Gone
SPECIFICATION Spec
PROPERTIES ManualDecisionStands
CHECK_DEADLOCK FALSE
