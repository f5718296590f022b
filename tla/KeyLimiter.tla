----------------------------- MODULE KeyLimiter -----------------------------
(***************************************************************************)
(* keyLimiter (proxy/ratelimit.go): per key, the times of the requests     *)
(* admitted in the last minute and the number in flight.  Acquire and      *)
(* Release hold one mutex, so each is one step.  The limits come from the  *)
(* copy of the entry the caller authenticated with.                        *)
(***************************************************************************)
EXTENDS Integers, Sequences, FiniteSets

CONSTANTS
    LimitedIds,  \* the key ids the limiter may see
    Window       \* one minute, in clock ticks

ASSUME WindowAssumption == Window \in Nat \ {0}

VARIABLES windows, inflight, now

limiterVars == <<windows, inflight>>

LimiterInit ==
    /\ windows = [k \in LimitedIds |-> <<>>]
    /\ inflight = [k \in LimitedIds |-> 0]

\* What Acquire drops from the front of a window: the entries a minute old.
\* They are a prefix, for the window is filled in time order under the mutex.
Stale(w) == {i \in DOMAIN w : w[i] <= now - Window}

Without(w, dropped) == SubSeq(w, Cardinality(dropped) + 1, Len(w))

\* The window forgets a request one tick early.
Recent_Short(w) == Without(w, {i \in DOMAIN w : w[i] <= now - Window + 1})

Recent(w) == Without(w, Stale(w))

Unlimited(e) == e.rpmLimit <= 0 /\ e.concurrencyLimit <= 0

\* Off by one at the limit.
Saturated_OffByOne(e) == e.concurrencyLimit > 0 /\ inflight[e.id] > e.concurrencyLimit

Saturated(e) == e.concurrencyLimit > 0 /\ inflight[e.id] >= e.concurrencyLimit

OverRpm(e) == e.rpmLimit > 0 /\ Len(Recent(windows[e.id])) >= e.rpmLimit

CountsInflight(e) == e.concurrencyLimit > 0

\* Acquire, admitted.
Grant(e) ==
    \/ /\ Unlimited(e)
       /\ UNCHANGED limiterVars
    \/ /\ ~Unlimited(e) /\ ~Saturated(e) /\ ~OverRpm(e)
       /\ windows' = IF e.rpmLimit > 0
                       THEN [windows EXCEPT ![e.id] = Append(Recent(@), now)]
                       ELSE windows
       /\ inflight' = IF CountsInflight(e)
                        THEN [inflight EXCEPT ![e.id] = @ + 1]
                        ELSE inflight

\* The window is charged before the in-flight limit is looked at.
Refuse_ChargedFirst(e) ==
    /\ ~Unlimited(e)
    /\ Saturated(e) \/ OverRpm(e)
    /\ windows' = IF e.rpmLimit > 0 /\ ~OverRpm(e)
                    THEN [windows EXCEPT ![e.id] = Append(Recent(@), now)]
                    ELSE windows
    /\ UNCHANGED inflight

\* Acquire, refused with 429: too many in flight, or too many this minute.
Refuse(e) ==
    /\ ~Unlimited(e)
    /\ \/ /\ Saturated(e)
          /\ UNCHANGED limiterVars
       \/ /\ ~Saturated(e) /\ OverRpm(e)
          /\ windows' = [windows EXCEPT ![e.id] = Recent(@)]
          /\ UNCHANGED inflight

\* Release: the caller may or may not have been counted.
Release(id) ==
    /\ inflight' = [inflight EXCEPT ![id] = IF @ > 0 THEN @ - 1 ELSE @]
    /\ UNCHANGED windows

LimiterTypeOK ==
    /\ windows \in [LimitedIds -> Seq(Nat)]
    /\ inflight \in [LimitedIds -> Nat]
=============================================================================
