\* Every party refreshes or rewrites the record of an account whose refresh token stays the same.
CONSTANTS
  r1 = r1
  r2 = r2
  r3 = r3
  w1 = w1
  a1 = a1
  e1 = e1
  Requests = {r1}
  Warmups = {w1}
  Admins = {a1}
  Editors = {e1}
  Edits = {"this"}
  Rotates = FALSE
  MaxIssued = 1
  Gone = Gone
  Nobody = Nobody
SPECIFICATION Spec
INVARIANTS RecordIsCurrent
PROPERTIES BannedOnlyIfRefused
