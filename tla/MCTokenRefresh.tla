--------------------------- MODULE MCTokenRefresh ---------------------------
(* Instances of TokenRefresh for TLC. *)
EXTENDS TokenRefresh, TLC

\* Requests are interchangeable (not used where liveness is checked).
RequestSymmetry == Permutations(Requests)
=============================================================================
