--------------------------- MODULE MCConsoleSessions ---------------------------
(* Instances of ConsoleSessions for TLC. *)
EXTENDS ConsoleSessions

CONSTANTS tab1, guest1, p1, p2
=============================================================================
