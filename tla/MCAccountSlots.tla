--------------------------- MODULE MCAccountSlots ---------------------------
(* Instances of AccountSlots for TLC. *)
EXTENDS AccountSlots, TLC
=============================================================================
