\* A tab and a second browser, on a gateway that may still have to be set up.
CONSTANTS
  tab1 = tab1
  guest1 = guest1
  p1 = p1
  p2 = p2
  Tabs = {tab1}
  Guests = {guest1}
  Callers <- AllCallers
  MaxTokens = 2
  Remembers = {FALSE}
  Passwords = {p1, p2}
  NoPassword = NoPassword
  MaxUpsets = 1
  MaxChanges = 1
SPECIFICATION Spec
INVARIANTS LogoutEnds
PROPERTIES OnlyTheSignedInChange DeadTabNotices TokensLiveOnce
CHECK_DEADLOCK FALSE
