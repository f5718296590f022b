---------------------------- MODULE MCAccountPool ----------------------------
(* Instances of AccountPool for TLC. *)
EXTENDS AccountPool, TLC

CONSTANTS a1, a2

\* Account orders: with a1 of weight two, and without weights.
WeightedTwo == <<a1, a1, a2>>
PlainTwo    == <<a1, a2>>

\* The record an account starts with, and the same past its quota.
On   == [enabled |-> TRUE, overLimit |-> FALSE, enabledModels |-> NoList]
Over == [On EXCEPT !.overLimit = TRUE]

\* What operators and usage checks make of the records: nothing, or a1 goes past
\* its quota and back.
NoEdits    == [a \in Accounts |-> {}]
QuotaEdits == [NoEdits EXCEPT ![a1] = {On, Over}]

\* lastStrike is history that the run's properties do not read.
WithoutStrikes == <<confVars, listVars, modelVars, cooldowns, errorCounts, currentIndex,
                    stale, now, req, turns>>

\* Requests are interchangeable (not used where liveness is checked).
RequestSymmetry == Permutations(Requests)
=============================================================================
