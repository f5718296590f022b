\* The limit is what it was, or is changed and lifted under way.
CONSTANTS
  r1 = r1
  r2 = r2
  r3 = r3
  Requests = {r1, r2, r3}
  Caps = {0, 1, 2}
  MaxChans = 3
  NoChan = NoChan
SPECIFICATION FairSpec
INVARIANTS SlotsExact CapHolds
PROPERTIES WaitersServed
CHECK_DEADLOCK FALSE
