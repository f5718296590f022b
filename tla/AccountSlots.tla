----------------------------- MODULE AccountSlots -----------------------------
(***************************************************************************)
(* The concurrency limit of one upstream account (proxy/upstream.go): a    *)
(* semaphore made of a buffered channel, replaced by a fresh one whenever  *)
(* it is asked for with another capacity.  Accounts do not interact here.  *)
(*                                                                         *)
(* A request works with the limit of the copy of the account it was given, *)
(* which an operator may have changed since.  Even looking whether a slot  *)
(* is free (accountHasFreeSlot) may replace the channel.                   *)
(***************************************************************************)
EXTENDS Integers, Sequences, FiniteSets, SequencesExt

CONSTANTS
    Requests,
    Caps,      \* values of MaxConcurrency, 0 for no limit
    MaxChans,  \* bound on the channels ever made
    NoChan     \* the map has no entry

ASSUME SlotsAssumption ==
    /\ IsFiniteSet(Requests)
    /\ Caps \subseteq Nat
    /\ MaxChans \in Nat
    /\ NoChan \notin 1..MaxChans

VARIABLES
    maxConcurrency,  \* the account's limit, in the configuration
    chans,           \* the channels made: [cap, len, queue of blocked senders]
    current,         \* accountSlots.m[account.ID]
    req,             \* [pc, cap: the limit of its copy, chan: the one it looked up]
    edited           \* history: the limit has been changed

vars == <<maxConcurrency, chans, current, req, edited>>

Idle == [pc |-> "idle", cap |-> 0, chan |-> NoChan]

Room(c) == chans[c].len < chans[c].cap

-----------------------------------------------------------------------------
(* accountSlotChan, under its mutex. *)

CurrentCap == IF current = NoChan THEN 0 ELSE chans[current].cap

\* The limit is compared with what the channel holds.
SlotChan_ByLen(cap, c) ==
    IF current # NoChan /\ cap = chans[current].len
      THEN c = current /\ UNCHANGED <<chans, current>>
      ELSE /\ Len(chans) < MaxChans
           /\ c = Len(chans) + 1
           /\ chans' = Append(chans, [cap |-> cap, len |-> 0, queue |-> <<>>])
           /\ current' = c

\* c is the channel for this capacity, and becomes the current one.
SlotChan(cap, c) ==
    IF cap = CurrentCap
      THEN c = current /\ UNCHANGED <<chans, current>>
      ELSE /\ Len(chans) < MaxChans
           /\ c = Len(chans) + 1
           /\ chans' = Append(chans, [cap |-> cap, len |-> 0, queue |-> <<>>])
           /\ current' = c

-----------------------------------------------------------------------------

\* The operator changes the limit.
SetMaxConcurrency(n) ==
    /\ n # maxConcurrency
    /\ maxConcurrency' = n
    /\ edited' = TRUE
    /\ UNCHANGED <<chans, current, req>>

\* pickAccount hands out a copy, after a look at its free slots: with one account
\* it is picked whether or not there is one.
PickAccount(r) ==
    /\ req[r].pc = "idle"
    /\ IF maxConcurrency = 0 THEN UNCHANGED <<chans, current>>
       ELSE \E c \in 1..MaxChans : SlotChan(maxConcurrency, c)
    /\ req' = [req EXCEPT ![r] = [Idle EXCEPT !.pc = "picked", !.cap = maxConcurrency]]
    /\ UNCHANGED <<maxConcurrency, edited>>

\* acquireAccountSlot: no limit, no slot.
RunUnlimited(r) ==
    /\ req[r].pc = "picked" /\ req[r].cap = 0
    /\ req' = [req EXCEPT ![r].pc = "running"]
    /\ UNCHANGED <<maxConcurrency, chans, current, edited>>

LookUp(r) ==
    /\ req[r].pc = "picked" /\ req[r].cap > 0
    /\ \E c \in 1..MaxChans :
         /\ SlotChan(req[r].cap, c)
         /\ req' = [req EXCEPT ![r].pc = "found", ![r].chan = c]
    /\ UNCHANGED <<maxConcurrency, edited>>

\* ch <- struct{}{}: into the buffer if there is room, else in line.  A blocked
\* sender leaves the line only when a receive makes room, or the timer fires.
TrySend(r) ==
    LET c == req[r].chan
    IN  /\ req[r].pc = "found"
        /\ IF Room(c)
             THEN /\ chans' = [chans EXCEPT ![c].len = @ + 1]
                  /\ req' = [req EXCEPT ![r].pc = "running"]
             ELSE /\ chans' = [chans EXCEPT ![c].queue = Append(@, r)]
                  /\ req' = [req EXCEPT ![r].pc = "waiting"]
        /\ UNCHANGED <<maxConcurrency, current, edited>>

\* accountSlotWait is over: the request fails with "busy".
Timeout(r) ==
    LET c == req[r].chan
    IN  /\ req[r].pc = "waiting"
        /\ \E i \in DOMAIN chans[c].queue :
             /\ chans[c].queue[i] = r
             /\ chans' = [chans EXCEPT ![c].queue = RemoveAt(@, i)]
        /\ req' = [req EXCEPT ![r] = Idle]
        /\ UNCHANGED <<maxConcurrency, current, edited>>

\* <-ch: the head of the line gets the place at once.
Receive(c, r) ==
    IF chans[c].queue = <<>>
      THEN /\ chans' = [chans EXCEPT ![c].len = @ - 1]
           /\ req' = [req EXCEPT ![r] = Idle]
      ELSE /\ chans' = [chans EXCEPT ![c].queue = Tail(@)]
           /\ req' = [req EXCEPT ![r] = Idle, ![Head(chans[c].queue)].pc = "running"]

\* The release looks the channel up again.
Finish_LooksUp(r) ==
    /\ req[r].pc = "running"
    /\ IF req[r].chan = NoChan
         THEN req' = [req EXCEPT ![r] = Idle] /\ UNCHANGED chans
         ELSE chans[current].len > 0 /\ Receive(current, r)
    /\ UNCHANGED <<maxConcurrency, current, edited>>

\* The upstream call is over; the release has kept the channel it sent to.
Finish(r) ==
    /\ req[r].pc = "running"
    /\ IF req[r].chan = NoChan
         THEN req' = [req EXCEPT ![r] = Idle] /\ UNCHANGED chans
         ELSE Receive(req[r].chan, r)
    /\ UNCHANGED <<maxConcurrency, current, edited>>

-----------------------------------------------------------------------------

Init ==
    /\ maxConcurrency \in Caps
    /\ chans = <<>>
    /\ current = NoChan
    /\ req = [r \in Requests |-> Idle]
    /\ edited = FALSE

Next ==
    \/ \E n \in Caps : SetMaxConcurrency(n)
    \/ \E r \in Requests : \/ PickAccount(r) \/ RunUnlimited(r) \/ LookUp(r) \/ TrySend(r)
                           \/ Timeout(r) \/ Finish(r)

Spec == Init /\ [][Next]_vars

\* Upstream calls end (every adapter's client has a timeout).  Nothing is assumed
\* of the timer of a waiting request.
FairSpec == Spec /\ \A r \in Requests : WF_vars(Finish(r))

-----------------------------------------------------------------------------
(* Properties. *)

Holders(c) == {r \in Requests : req[r].pc = "running" /\ req[r].chan = c}

\* The state has the shape the code gives it.
TypeOK ==
    /\ maxConcurrency \in Caps /\ edited \in BOOLEAN
    /\ chans \in Seq([cap : Nat \ {0}, len : Nat, queue : Seq(Requests)])
    /\ Len(chans) <= MaxChans
    /\ current \in DOMAIN chans \cup {NoChan}
    /\ req \in [Requests -> [pc : {"idle", "picked", "found", "waiting", "running"},
                             cap : Nat, chan : (1..MaxChans) \cup {NoChan}]]
    /\ \A r \in Requests : req[r].pc \in {"found", "waiting"} => req[r].chan \in DOMAIN chans

\* Every channel, replaced or not, holds one token for each request that runs on it
\* and no more than its capacity; whoever is in line waits, and nobody waits for a
\* channel that has room (upstream.go:45-65).
SlotsExact ==
    \A c \in DOMAIN chans :
        /\ chans[c].len = Cardinality(Holders(c))
        /\ chans[c].len <= chans[c].cap
        /\ ToSet(chans[c].queue) = {r \in Requests : req[r].pc = "waiting" /\ req[r].chan = c}
        /\ chans[c].queue # <<>> => ~Room(c)

\* A request in line gets its slot or gives up, also on a channel that was replaced
\* while it waited.
WaitersServed == \A r \in Requests : req[r].pc = "waiting" ~> req[r].pc # "waiting"

\* MaxConcurrency caps the requests in flight on the account (config.go:84), as long
\* as nobody changes it.  After a change it does not: the holders of the old channel
\* are not counted, and a copy with the old limit changes the channel back.
CapHolds ==
    ~edited /\ maxConcurrency > 0 =>
        Cardinality({r \in Requests : req[r].pc = "running"}) <= maxConcurrency
=============================================================================
