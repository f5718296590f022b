\* Warmup refreshes the tokens beside a request, and they rotate.
CONSTANTS
  r1 = r1
  r2 = r2
  r3 = r3
  w1 = w1
  a1 = a1
  e1 = e1
  Requests = {r1, r2}
  Warmups = {w1}
  Admins = {}
  Editors = {}
  Edits = {}
  Rotates = TRUE
  MaxIssued = 3
  Gone = Gone
  Nobody = Nobody
SPECIFICATION Spec
SYMMETRY RequestSymmetry
PROPERTIES BannedOnlyIfRefused
CHECK_DEADLOCK FALSE
