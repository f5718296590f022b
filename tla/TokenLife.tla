------------------------------- MODULE TokenLife -------------------------------
(***************************************************************************)
(* What the gateway promises of admin session tokens, whatever the         *)
(* interleaving of logins, logouts and password changes: a token opens the *)
(* admin API for one stretch of time at most.                              *)
(***************************************************************************)
CONSTANT Tokens

VARIABLES
    live,  \* tokens that open the admin API
    over   \* tokens that never will again

Init == live = {} /\ over = {}

Fresh == Tokens \ (live \cup over)

Grant == \E t \in Fresh : live' = live \cup {t} /\ over' = over

\* A login that was overtaken by a change of the password.
Waste == \E t \in Fresh : live' = live /\ over' = over \cup {t}

End == \E S \in (SUBSET live) \ {{}} : live' = live \ S /\ over' = over \cup S

Next == Grant \/ Waste \/ End

Spec == Init /\ [][Next]_<<live, over>>
=============================================================================
