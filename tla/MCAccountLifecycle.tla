------------------------- MODULE MCAccountLifecycle -------------------------
(* Instances of AccountLifecycle for TLC. *)
EXTENDS AccountLifecycle, TLC

CONSTANT a1

NoManual == {}
SelectA1 == {{a1}}
=============================================================================
