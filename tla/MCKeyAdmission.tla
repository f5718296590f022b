--------------------------- MODULE MCKeyAdmission ---------------------------
(* Instances of KeyAdmission for TLC. *)
EXTENDS KeyAdmission, TLC

\* Requests are interchangeable (not used where liveness is checked).
RequestSymmetry == Permutations(Requests)
=============================================================================
