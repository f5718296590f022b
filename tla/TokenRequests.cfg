\* Three requests refresh the tokens of an account whose refresh tokens rotate.
CONSTANTS
  r1 = r1
  r2 = r2
  r3 = r3
  w1 = w1
  a1 = a1
  e1 = e1
  Requests = {r1, r2, r3}
  Warmups = {}
  Admins = {}
  Editors = {}
  Edits = {}
  Rotates = TRUE
  MaxIssued = 2
  Gone = Gone
  Nobody = Nobody
SPECIFICATION FairSpec
INVARIANTS SendsCurrentToken RecordIsCurrent
PROPERTIES WaitersGetThrough
CHECK_DEADLOCK FALSE
