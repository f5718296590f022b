-------------------------- MODULE AccountSlotsProofs --------------------------
(***************************************************************************)
(* SlotsExact and CapHolds are invariants of AccountSlots, for any number  *)
(* of requests, limits and replaced channels.  What SlotsExact needs to be *)
(* inductive is that no request is in a line twice, and that a request     *)
(* that waits or runs on a channel has one that was made.                  *)
(***************************************************************************)
EXTENDS AccountSlots, FiniteSetTheorems, SequenceTheorems, TLAPS

Queue == Seq(Requests)
Chan == [cap : Nat \ {0}, len : Nat, queue : Queue]

OnceEach(q) == \A i, j \in DOMAIN q : q[i] = q[j] => i = j

-----------------------------------------------------------------------------
(* Lines. *)

LEMMA QueueShape ==
    ASSUME NEW q \in Queue
    PROVE  /\ Len(q) \in Nat /\ DOMAIN q = 1..Len(q)
           /\ \A i \in 1..Len(q) : q[i] \in Requests
  BY LenProperties, ElementOfSeq DEF Queue

\* A newcomer goes to the end of the line.
LEMMA JoinLine ==
    ASSUME NEW q \in Queue, OnceEach(q), NEW r \in Requests, r \notin ToSet(q)
    PROVE  /\ Append(q, r) \in Queue /\ Append(q, r) # <<>>
           /\ OnceEach(Append(q, r))
           /\ ToSet(Append(q, r)) = ToSet(q) \cup {r}
  <1>1. /\ Append(q, r) \in Queue /\ Append(q, r) # <<>>
        /\ Len(Append(q, r)) = Len(q) + 1
        /\ \A i \in 1..Len(q) : Append(q, r)[i] = q[i]
        /\ Append(q, r)[Len(q) + 1] = r
    BY AppendProperties DEF Queue
  <1>2. /\ Len(q) \in Nat /\ DOMAIN q = 1..Len(q)
        /\ DOMAIN Append(q, r) = 1..(Len(q) + 1)
    BY <1>1, QueueShape
  <1>3. /\ \A i \in 1..(Len(q) + 1) : i \in 1..Len(q) \/ i = Len(q) + 1
        /\ 1..Len(q) \subseteq 1..(Len(q) + 1) /\ Len(q) + 1 \in 1..(Len(q) + 1)
    BY <1>2
  <1>4. \A i \in 1..Len(q) : q[i] # r
    BY <1>2 DEF ToSet
  <1>5. OnceEach(Append(q, r))
    BY <1>1, <1>2, <1>3, <1>4 DEF OnceEach
  <1>6. ToSet(Append(q, r)) = ToSet(q) \cup {r}
    BY <1>1, <1>2, <1>3 DEF ToSet
  <1> QED BY <1>1, <1>5, <1>6

\* The head of the line is served.
LEMMA ServeHead ==
    ASSUME NEW q \in Queue, OnceEach(q), q # <<>>
    PROVE  /\ Tail(q) \in Queue /\ Head(q) \in ToSet(q) /\ Head(q) \in Requests
           /\ OnceEach(Tail(q))
           /\ ToSet(Tail(q)) = ToSet(q) \ {Head(q)}
  <1>1. /\ Tail(q) \in Queue /\ Head(q) = q[1] /\ Len(Tail(q)) = Len(q) - 1
        /\ \A i \in 1..Len(Tail(q)) : Tail(q)[i] = q[i + 1]
    BY HeadTailProperties DEF Queue
  <1>2. /\ Len(q) \in Nat \ {0} /\ DOMAIN q = 1..Len(q)
        /\ DOMAIN Tail(q) = 1..(Len(q) - 1)
    BY <1>1, QueueShape, EmptySeq DEF Queue
  <1>3. Head(q) \in ToSet(q) /\ Head(q) \in Requests
    BY <1>1, <1>2, QueueShape DEF ToSet
  <1>4. \A i \in 1..(Len(q) - 1) : i + 1 \in 1..Len(q) /\ i + 1 # 1 /\ Tail(q)[i] = q[i + 1]
    BY <1>1, <1>2
  <1>5. OnceEach(Tail(q))
    <2>1. ASSUME NEW i \in 1..(Len(q) - 1), NEW j \in 1..(Len(q) - 1), Tail(q)[i] = Tail(q)[j]
          PROVE  i = j
      <3>1. i + 1 = j + 1
        BY <1>2, <1>4, <2>1 DEF OnceEach
      <3> QED BY <1>2, <3>1
    <2> QED BY <1>2, <2>1 DEF OnceEach
  <1>6. ToSet(Tail(q)) = ToSet(q) \ {Head(q)}
    <2>1. ASSUME NEW x \in ToSet(Tail(q))
          PROVE  x \in ToSet(q) /\ x # Head(q)
      <3>1. PICK i \in 1..(Len(q) - 1) : x = q[i + 1]
        BY <1>2, <1>4 DEF ToSet
      <3>2. i + 1 \in 1..Len(q) /\ i + 1 # 1 /\ 1 \in 1..Len(q)
        BY <1>2, <1>4
      <3> QED BY <1>1, <1>2, <3>1, <3>2 DEF ToSet, OnceEach
    <2>2. ASSUME NEW x \in ToSet(q), x # Head(q)
          PROVE  x \in ToSet(Tail(q))
      <3>1. PICK i \in 1..Len(q) : x = q[i]
        BY <1>2 DEF ToSet
      <3>2. i - 1 \in 1..(Len(q) - 1) /\ (i - 1) + 1 = i
        BY <1>1, <1>2, <2>2, <3>1
      <3>3. Tail(q)[i - 1] = x
        BY <1>4, <3>1, <3>2
      <3> QED BY <1>2, <3>2, <3>3 DEF ToSet
    <2> QED BY <2>1, <2>2
  <1> QED BY <1>1, <1>3, <1>5, <1>6

\* Somebody leaves the line.
LEMMA LeaveLine ==
    ASSUME NEW q \in Queue, OnceEach(q), NEW k \in DOMAIN q
    PROVE  /\ RemoveAt(q, k) \in Queue
           /\ OnceEach(RemoveAt(q, k))
           /\ ToSet(RemoveAt(q, k)) = ToSet(q) \ {q[k]}
  <1> DEFINE n == Len(q)
             a == SubSeq(q, 1, k - 1)
             b == SubSeq(q, k + 1, n)
             t == RemoveAt(q, k)
  <1>1. n \in Nat /\ DOMAIN q = 1..n /\ k \in 1..n /\ \A i \in 1..n : q[i] \in Requests
    BY QueueShape
  <1>2. /\ a \in Queue /\ Len(a) = k - 1
        /\ \A i \in 1..(k - 1) : a[i] = q[i]
    <2>1. \A i \in 1..(k - 1) : q[i] \in Requests
      BY <1>1
    <2> QED BY <1>1, <2>1, SubSeqProperties DEF Queue
  <1>3. /\ b \in Queue /\ Len(b) = n - k
        /\ \A i \in 1..(n - k) : b[i] = q[k + i]
    <2>1. \A i \in (k + 1)..n : q[i] \in Requests
      BY <1>1
    <2>2. /\ b \in Queue
          /\ Len(b) = IF k + 1 <= n THEN n - (k + 1) + 1 ELSE 0
          /\ \A i \in 1..(n - (k + 1) + 1) : b[i] = q[k + 1 + i - 1]
      BY <1>1, <2>1, SubSeqProperties DEF Queue
    <2>3. Len(b) = n - k
      BY <1>1, <2>2
    <2>4. \A i \in 1..(n - k) : i \in 1..(n - (k + 1) + 1) /\ k + 1 + i - 1 = k + i
      BY <1>1
    <2> QED BY <2>2, <2>3, <2>4
  <1>4. t = a \o b
    BY DEF RemoveAt
  <1> HIDE DEF a, b, t, n
  <1>5. /\ t \in Queue /\ Len(t) = n - 1 /\ DOMAIN t = 1..(n - 1)
    <2>1. t \in Queue /\ Len(t) = Len(a) + Len(b)
      BY <1>2, <1>3, <1>4, ConcatProperties DEF Queue
    <2>2. Len(t) = n - 1
      BY <1>1, <1>2, <1>3, <2>1
    <2> QED BY <2>1, <2>2, QueueShape
  <1>6. ASSUME NEW i \in 1..(n - 1)
        PROVE  t[i] = IF i < k THEN q[i] ELSE q[i + 1]
    <2>1. t[i] = IF i <= Len(a) THEN a[i] ELSE b[i - Len(a)]
      <3>1. i \in 1..(Len(a) + Len(b))
        BY <1>1, <1>2, <1>3
      <3> QED BY <1>2, <1>3, <1>4, <3>1, ConcatProperties DEF Queue
    <2>2. CASE i < k
      <3>1. i <= Len(a) /\ i \in 1..(k - 1)
        BY <1>1, <1>2, <2>2
      <3> QED BY <1>2, <2>1, <2>2, <3>1
    <2>3. CASE ~(i < k)
      <3>1. ~(i <= Len(a)) /\ i - Len(a) \in 1..(n - k) /\ k + (i - Len(a)) = i + 1
        BY <1>1, <1>2, <2>3
      <3> QED BY <1>3, <2>1, <2>3, <3>1
    <2> QED BY <2>2, <2>3
  <1>7. \A i \in 1..(n - 1) : i \in 1..n /\ i + 1 \in 1..n
    BY <1>1
  <1>8. OnceEach(t)
    <2>1. ASSUME NEW i \in 1..(n - 1), NEW j \in 1..(n - 1), t[i] = t[j]
          PROVE  i = j
      <3>1. (IF i < k THEN i ELSE i + 1) = (IF j < k THEN j ELSE j + 1)
        BY <1>1, <1>6, <1>7, <2>1 DEF OnceEach
      <3> QED BY <1>1, <3>1
    <2> QED BY <1>5, <2>1 DEF OnceEach
  <1>9. ToSet(t) = ToSet(q) \ {q[k]}
    <2>1. ASSUME NEW x \in ToSet(t)
          PROVE  x \in ToSet(q) /\ x # q[k]
      <3>1. PICK i \in 1..(n - 1) : x = t[i]
        BY <1>5 DEF ToSet
      <3>2. \E j \in 1..n : x = q[j] /\ j # k
        BY <1>1, <1>6, <1>7, <3>1
      <3> QED BY <1>1, <3>2 DEF ToSet, OnceEach
    <2>2. ASSUME NEW x \in ToSet(q), x # q[k]
          PROVE  x \in ToSet(t)
      <3>1. PICK j \in 1..n : x = q[j]
        BY <1>1 DEF ToSet
      <3>2. CASE j < k
        <4>1. j \in 1..(n - 1) /\ t[j] = x
          BY <1>1, <1>6, <3>1, <3>2
        <4> QED BY <1>5, <4>1 DEF ToSet
      <3>3. CASE j > k
        <4>1. j - 1 \in 1..(n - 1) /\ ~(j - 1 < k) /\ (j - 1) + 1 = j
          BY <1>1, <3>3
        <4>2. t[j - 1] = x
          BY <1>6, <3>1, <4>1
        <4> QED BY <1>5, <4>1, <4>2 DEF ToSet
      <3> QED BY <1>1, <2>2, <3>1, <3>2, <3>3
    <2> QED BY <2>1, <2>2
  <1> QED BY <1>5, <1>8, <1>9 DEF t

-----------------------------------------------------------------------------
(* The invariant. *)

Waiters(c) == {r \in Requests : req[r].pc = "waiting" /\ req[r].chan = c}

Request == [pc : {"idle", "picked", "found", "waiting", "running"},
            cap : Nat, chan : (1..MaxChans) \cup {NoChan}]

\* A request has a channel from its look-up to its end, and it was made.
Placed(q) ==
    /\ q.pc \in {"idle", "picked"} => q.chan = NoChan
    /\ q.pc \in {"found", "waiting"} => q.chan \in DOMAIN chans
    /\ q.pc = "running" => q.chan \in DOMAIN chans \cup {NoChan}

\* A channel with these requests on it and these in line.
Exact(ch, holders, waiters) ==
    /\ ch.len = Cardinality(holders)
    /\ ch.len <= ch.cap
    /\ ToSet(ch.queue) = waiters
    /\ OnceEach(ch.queue)
    /\ ch.queue # <<>> => ~(ch.len < ch.cap)

RequestInv == req \in [Requests -> Request] /\ \A r \in Requests : Placed(req[r])

ChanInv ==
    /\ chans \in Seq(Chan) /\ Len(chans) <= MaxChans
    /\ current \in DOMAIN chans \cup {NoChan}
    /\ \A c \in DOMAIN chans : Exact(chans[c], Holders(c), Waiters(c))

Inv == maxConcurrency \in Caps /\ edited \in BOOLEAN /\ RequestInv /\ ChanInv

LEMMA InvImplies == Inv => TypeOK /\ SlotsExact
  BY DEF Inv, RequestInv, ChanInv, Placed, Exact, Request, Chan, Queue, TypeOK, SlotsExact,
         Waiters, Room

LEMMA ChanShape ==
    ASSUME ChanInv
    PROVE  /\ Len(chans) \in Nat /\ DOMAIN chans = 1..Len(chans)
           /\ DOMAIN chans \subseteq 1..MaxChans /\ NoChan \notin DOMAIN chans
           /\ \A c \in DOMAIN chans : /\ chans[c] \in Chan
                                      /\ Exact(chans[c], Holders(c), Waiters(c))
  <1>1. Len(chans) \in Nat /\ DOMAIN chans = 1..Len(chans)
    BY LenProperties DEF ChanInv
  <1>2. \A c \in DOMAIN chans : chans[c] \in Chan
    BY <1>1, ElementOfSeq DEF ChanInv
  <1>3. DOMAIN chans \subseteq 1..MaxChans
    BY <1>1, SlotsAssumption DEF ChanInv
  <1> QED BY <1>1, <1>2, <1>3, SlotsAssumption DEF ChanInv

LEMMA IdleIsRequest == Idle \in Request /\ Idle.pc = "idle" /\ Idle.chan = NoChan
  BY DEF Idle, Request

\* The requests on a channel and those in line for it, after one request moved.
LEMMA OneRequestMoves ==
    ASSUME req \in [Requests -> Request], NEW r \in Requests, NEW q \in Request,
           req' = [req EXCEPT ![r] = q]
    PROVE  /\ req' \in [Requests -> Request]
           /\ \A s \in Requests : req'[s] = IF s = r THEN q ELSE req[s]
           /\ \A c : Holders(c)' = (Holders(c) \ {r})
                        \cup (IF q.pc = "running" /\ q.chan = c THEN {r} ELSE {})
           /\ \A c : Waiters(c)' = (Waiters(c) \ {r})
                        \cup (IF q.pc = "waiting" /\ q.chan = c THEN {r} ELSE {})
  <1>1. \A s \in Requests : req'[s] = IF s = r THEN q ELSE req[s]
    OBVIOUS
  <1> QED BY <1>1 DEF Holders, Waiters

\* One channel changes, the others have the requests they had.
LEMMA OneChannelMoves ==
    ASSUME ChanInv, UNCHANGED current, NEW c \in DOMAIN chans, NEW ch \in Chan,
           chans' = [chans EXCEPT ![c] = ch],
           Exact(ch, Holders(c)', Waiters(c)'),
           \A d \in DOMAIN chans : d # c => Holders(d)' = Holders(d) /\ Waiters(d)' = Waiters(d)
    PROVE  ChanInv' /\ DOMAIN chans' = DOMAIN chans
  <1>1. /\ Len(chans) \in Nat /\ DOMAIN chans = 1..Len(chans) /\ chans \in Seq(Chan)
        /\ \A d \in DOMAIN chans : Exact(chans[d], Holders(d), Waiters(d))
    BY ChanShape DEF ChanInv
  <1>2. chans' \in Seq(Chan) /\ Len(chans') = Len(chans) /\ DOMAIN chans' = DOMAIN chans
    BY <1>1, ExceptSeq
  <1>3. ASSUME NEW d \in DOMAIN chans
        PROVE  Exact(chans'[d], Holders(d)', Waiters(d)')
    <2>1. CASE d = c
      BY <2>1
    <2>2. CASE d # c
      <3>1. chans'[d] = chans[d]
        BY <2>2
      <3> QED BY <1>1, <2>2, <3>1
    <2> QED BY <2>1, <2>2
  <1>4. \A d \in DOMAIN chans' : Exact(chans[d], Holders(d), Waiters(d))'
    BY <1>2, <1>3 DEF Exact, OnceEach
  <1> QED BY <1>2, <1>4 DEF ChanInv

\* Looking for a channel finds the current one or makes one that nobody is on.
LEMMA SlotChanKeeps ==
    ASSUME RequestInv, ChanInv, NEW cap \in Nat \ {0}, NEW c \in 1..MaxChans, SlotChan(cap, c),
           \A d : d # NoChan => Holders(d)' = Holders(d) /\ Waiters(d)' = Waiters(d)
    PROVE  ChanInv' /\ c \in DOMAIN chans' /\ DOMAIN chans \subseteq DOMAIN chans'
  <1>1. /\ Len(chans) \in Nat /\ DOMAIN chans = 1..Len(chans) /\ chans \in Seq(Chan)
        /\ \A d \in DOMAIN chans : Exact(chans[d], Holders(d), Waiters(d)) /\ d # NoChan
    BY ChanShape DEF ChanInv
  <1>2. CASE c = current /\ UNCHANGED <<chans, current>>
    <2>1. current \in DOMAIN chans
      BY <1>2, SlotsAssumption DEF ChanInv
    <2>2. \A d \in DOMAIN chans' : Exact(chans[d], Holders(d), Waiters(d))'
      BY <1>1, <1>2 DEF Exact, OnceEach
    <2> QED BY <1>2, <2>1, <2>2 DEF ChanInv
  <1> DEFINE new == [cap |-> cap, len |-> 0, queue |-> <<>>]
  <1>3. CASE /\ Len(chans) < MaxChans /\ c = Len(chans) + 1
             /\ chans' = Append(chans, new) /\ current' = c
    <2>1. new \in Chan
      BY EmptySeq DEF Chan, Queue
    <2>2. /\ chans' \in Seq(Chan) /\ Len(chans') = Len(chans) + 1
          /\ chans'[Len(chans) + 1] = new
          /\ \A i \in 1..Len(chans) : chans'[i] = chans[i]
      BY <1>1, <1>3, <2>1, AppendProperties
    <2>3. DOMAIN chans' = 1..(Len(chans) + 1)
      BY <2>2, LenProperties
    <2>4. Holders(c)' = {} /\ Waiters(c)' = {}
      <3>1. c \notin DOMAIN chans /\ c # NoChan
        BY <1>1, <1>3, SlotsAssumption
      <3>2. Holders(c) = {} /\ Waiters(c) = {}
        BY <3>1 DEF Holders, Waiters, RequestInv, Placed
      <3> QED BY <3>1, <3>2
    <2>5. Exact(new, {}, {})
      BY FS_EmptySet DEF Exact, ToSet, OnceEach
    <2>6. ASSUME NEW d \in DOMAIN chans'
          PROVE  Exact(chans'[d], Holders(d)', Waiters(d)')
      <3>1. CASE d = Len(chans) + 1
        BY <1>3, <2>2, <2>4, <2>5, <3>1
      <3>2. CASE d \in 1..Len(chans)
        BY <1>1, <2>2, <3>2
      <3> QED BY <1>1, <2>3, <3>1, <3>2
    <2>7. \A d \in DOMAIN chans' : Exact(chans[d], Holders(d), Waiters(d))'
      BY <2>6 DEF Exact, OnceEach
    <2>8. Len(chans') <= MaxChans /\ c \in DOMAIN chans' /\ DOMAIN chans \subseteq DOMAIN chans'
      BY <1>1, <1>3, <2>2, <2>3, SlotsAssumption
    <2> QED BY <1>3, <2>2, <2>7, <2>8 DEF ChanInv
  <1> QED BY <1>2, <1>3 DEF SlotChan

\* Channels are never unmade, so the other requests keep theirs.
LEMMA RequestsKeep ==
    ASSUME RequestInv, NEW r \in Requests, NEW q \in Request, req' = [req EXCEPT ![r] = q],
           DOMAIN chans \subseteq DOMAIN chans',
           q.pc \in {"idle", "picked"} => q.chan = NoChan,
           q.pc \in {"found", "waiting"} => q.chan \in DOMAIN chans',
           q.pc = "running" => q.chan \in DOMAIN chans' \cup {NoChan}
    PROVE  RequestInv'
  <1>1. req' \in [Requests -> Request] /\ \A s \in Requests : req'[s] = IF s = r THEN q ELSE req[s]
    BY OneRequestMoves DEF RequestInv
  <1>2. ASSUME NEW s \in Requests
        PROVE  /\ req'[s].pc \in {"idle", "picked"} => req'[s].chan = NoChan
               /\ req'[s].pc \in {"found", "waiting"} => req'[s].chan \in DOMAIN chans'
               /\ req'[s].pc = "running" => req'[s].chan \in DOMAIN chans' \cup {NoChan}
    <2>1. CASE s = r
      BY <1>1, <2>1
    <2>2. CASE s # r
      BY <1>1, <2>2 DEF RequestInv, Placed
    <2> QED BY <2>1, <2>2
  <1> QED BY <1>1, <1>2 DEF RequestInv, Placed

LEMMA HoldersFinite ==
    \A c : IsFiniteSet(Holders(c)) /\ Cardinality(Holders(c)) \in Nat
  BY SlotsAssumption, FS_Subset, FS_CardinalityType DEF Holders

\* A request that neither runs on a channel nor is in line moves to where it still does not.
LEMMA AsideMoves ==
    ASSUME RequestInv, NEW r \in Requests, NEW q \in Request, req' = [req EXCEPT ![r] = q],
           req[r].pc \notin {"running", "waiting"} \/ (req[r].pc = "running" /\ req[r].chan = NoChan),
           q.pc \notin {"running", "waiting"} \/ (q.pc = "running" /\ q.chan = NoChan)
    PROVE  \A d : d # NoChan => Holders(d)' = Holders(d) /\ Waiters(d)' = Waiters(d)
  <1>1. \A d : /\ Holders(d)' = (Holders(d) \ {r}) \cup (IF q.pc = "running" /\ q.chan = d THEN {r} ELSE {})
               /\ Waiters(d)' = (Waiters(d) \ {r}) \cup (IF q.pc = "waiting" /\ q.chan = d THEN {r} ELSE {})
    BY OneRequestMoves DEF RequestInv
  <1>2. \A d : d # NoChan => r \notin Holders(d) /\ r \notin Waiters(d)
    BY DEF Holders, Waiters
  <1> QED BY <1>1, <1>2

LEMMA ChannelsStay ==
    ASSUME ChanInv, UNCHANGED <<chans, current>>,
           \A d : d # NoChan => Holders(d)' = Holders(d) /\ Waiters(d)' = Waiters(d)
    PROVE  ChanInv'
  <1>1. \A d \in DOMAIN chans : Exact(chans[d], Holders(d), Waiters(d)) /\ d # NoChan
    BY ChanShape
  <1>2. \A d \in DOMAIN chans' : Exact(chans[d], Holders(d), Waiters(d))'
    BY <1>1 DEF Exact, OnceEach
  <1> QED BY <1>2 DEF ChanInv

-----------------------------------------------------------------------------
(* Every step keeps the invariant. *)

LEMMA PickKeeps ==
    ASSUME Inv, NEW r \in Requests, PickAccount(r)
    PROVE  RequestInv' /\ ChanInv'
  <1> DEFINE q == [Idle EXCEPT !.pc = "picked", !.cap = maxConcurrency]
  <1>1. maxConcurrency \in Nat
    BY SlotsAssumption DEF Inv
  <1>2. q \in Request /\ q.pc = "picked" /\ q.chan = NoChan
    BY <1>1 DEF Idle, Request
  <1>3. req' = [req EXCEPT ![r] = q] /\ req[r].pc = "idle"
    BY DEF PickAccount
  <1> HIDE DEF q
  <1>4. \A d : d # NoChan => Holders(d)' = Holders(d) /\ Waiters(d)' = Waiters(d)
    BY <1>2, <1>3, AsideMoves DEF Inv
  <1>5. ChanInv' /\ DOMAIN chans \subseteq DOMAIN chans'
    <2>1. CASE UNCHANGED <<chans, current>>
      BY <1>4, <2>1, ChannelsStay DEF Inv
    <2>2. CASE maxConcurrency # 0 /\ \E c \in 1..MaxChans : SlotChan(maxConcurrency, c)
      BY <1>1, <1>4, <2>2, SlotChanKeeps DEF Inv
    <2> QED BY <2>1, <2>2 DEF PickAccount
  <1> QED BY <1>2, <1>3, <1>5, RequestsKeep DEF Inv

LEMMA LookUpKeeps ==
    ASSUME Inv, NEW r \in Requests, LookUp(r)
    PROVE  RequestInv' /\ ChanInv'
  <1>1. req[r] \in Request /\ req[r].cap \in Nat \ {0} /\ req[r].pc = "picked"
    BY DEF LookUp, Inv, RequestInv, Request
  <1>2. PICK c \in 1..MaxChans :
            /\ SlotChan(req[r].cap, c)
            /\ req' = [req EXCEPT ![r].pc = "found", ![r].chan = c]
    BY DEF LookUp
  <1> DEFINE q == [req[r] EXCEPT !.pc = "found", !.chan = c]
  <1>3. q \in Request /\ q.pc = "found" /\ q.chan = c /\ req' = [req EXCEPT ![r] = q]
    BY <1>1, <1>2 DEF Request
  <1> HIDE DEF q
  <1>4. \A d : d # NoChan => Holders(d)' = Holders(d) /\ Waiters(d)' = Waiters(d)
    BY <1>1, <1>3, AsideMoves DEF Inv
  <1>5. ChanInv' /\ c \in DOMAIN chans' /\ DOMAIN chans \subseteq DOMAIN chans'
    BY <1>1, <1>2, <1>4, SlotChanKeeps DEF Inv
  <1> QED BY <1>3, <1>5, RequestsKeep DEF Inv

LEMMA UnlimitedKeeps ==
    ASSUME Inv, NEW r \in Requests, RunUnlimited(r)
    PROVE  RequestInv' /\ ChanInv'
  <1> DEFINE q == [req[r] EXCEPT !.pc = "running"]
  <1>1. req[r] \in Request /\ req[r].chan = NoChan
    BY DEF RunUnlimited, Inv, RequestInv, Placed
  <1>2. q \in Request /\ q.pc = "running" /\ q.chan = NoChan
    BY <1>1 DEF Request
  <1>3. req' = [req EXCEPT ![r] = q] /\ req[r].pc = "picked" /\ UNCHANGED <<chans, current>>
    BY DEF RunUnlimited
  <1> HIDE DEF q
  <1>4. \A d : d # NoChan => Holders(d)' = Holders(d) /\ Waiters(d)' = Waiters(d)
    BY <1>2, <1>3, AsideMoves DEF Inv
  <1> QED BY <1>2, <1>3, <1>4, ChannelsStay, RequestsKeep DEF Inv

LEMMA TrySendKeeps ==
    ASSUME Inv, NEW r \in Requests, TrySend(r)
    PROVE  RequestInv' /\ ChanInv'
  <1>0. PICK c \in DOMAIN chans : c = req[r].chan
    BY DEF TrySend, Inv, RequestInv, Placed
  <1>1. /\ req[r] \in Request /\ c = req[r].chan /\ req[r].pc = "found" /\ c # NoChan
        /\ UNCHANGED current
    BY <1>0, ChanShape DEF TrySend, Inv, RequestInv
  <1>2. chans[c] \in Chan /\ Exact(chans[c], Holders(c), Waiters(c))
    BY <1>1, ChanShape DEF Inv
  <1>3. r \notin Holders(c) /\ r \notin Waiters(c)
    BY <1>1 DEF Holders, Waiters
  <1>4. CASE /\ Room(c)
             /\ chans' = [chans EXCEPT ![c].len = @ + 1]
             /\ req' = [req EXCEPT ![r].pc = "running"]
    <2> DEFINE q == [req[r] EXCEPT !.pc = "running"]
               ch == [chans[c] EXCEPT !.len = @ + 1]
    <2>1. /\ q \in Request /\ q.pc = "running" /\ q.chan = c
          /\ req' = [req EXCEPT ![r] = q] /\ chans' = [chans EXCEPT ![c] = ch]
      BY <1>1, <1>4 DEF Request
    <2>2. ch \in Chan /\ ch.len = chans[c].len + 1 /\ ch.cap = chans[c].cap /\ ch.queue = chans[c].queue
      BY <1>2 DEF Chan
    <2> HIDE DEF q, ch
    <2>3. /\ Holders(c)' = Holders(c) \cup {r} /\ Waiters(c)' = Waiters(c)
          /\ \A d \in DOMAIN chans : d # c => Holders(d)' = Holders(d) /\ Waiters(d)' = Waiters(d)
      <3>1. \A d : d # c => r \notin Holders(d) /\ r \notin Waiters(d)
        BY <1>1 DEF Holders, Waiters
      <3>2. \A d : /\ Holders(d)' = (Holders(d) \ {r}) \cup (IF q.pc = "running" /\ q.chan = d THEN {r} ELSE {})
                  /\ Waiters(d)' = (Waiters(d) \ {r}) \cup (IF q.pc = "waiting" /\ q.chan = d THEN {r} ELSE {})
        BY <2>1, OneRequestMoves DEF Inv, RequestInv
      <3> QED BY <1>3, <2>1, <3>1, <3>2
    <2>4. Cardinality(Holders(c)') = Cardinality(Holders(c)) + 1
      BY <1>3, <2>3, HoldersFinite, FS_AddElement
    <2>5. chans[c].len < chans[c].cap /\ chans[c].len \in Nat /\ chans[c].cap \in Nat
      BY <1>2, <1>4 DEF Room, Chan
    <2>6. chans[c].queue = <<>>
      BY <1>2, <2>5 DEF Exact
    <2>7. Exact(ch, Holders(c)', Waiters(c)')
      BY <1>2, <2>2, <2>3, <2>4, <2>5, <2>6 DEF Exact
    <2>8. ChanInv' /\ DOMAIN chans' = DOMAIN chans
      BY <1>1, <2>1, <2>2, <2>3, <2>7, OneChannelMoves DEF Inv
    <2> QED BY <1>1, <2>1, <2>8, RequestsKeep DEF Inv
  <1>5. CASE /\ ~Room(c)
             /\ chans' = [chans EXCEPT ![c].queue = Append(@, r)]
             /\ req' = [req EXCEPT ![r].pc = "waiting"]
    <2> DEFINE q == [req[r] EXCEPT !.pc = "waiting"]
               line == Append(chans[c].queue, r)
               ch == [chans[c] EXCEPT !.queue = line]
    <2>1. /\ q \in Request /\ q.pc = "waiting" /\ q.chan = c
          /\ req' = [req EXCEPT ![r] = q] /\ chans' = [chans EXCEPT ![c] = ch]
      BY <1>1, <1>5 DEF Request
    <2>2. /\ line \in Queue /\ OnceEach(line) /\ ToSet(line) = Waiters(c) \cup {r}
      BY <1>2, <1>3, JoinLine DEF Exact, Chan
    <2> HIDE DEF line
    <2>3. ch \in Chan /\ ch.len = chans[c].len /\ ch.cap = chans[c].cap /\ ch.queue = line
      BY <1>2, <2>2 DEF Chan
    <2> HIDE DEF q, ch
    <2>4. /\ Waiters(c)' = Waiters(c) \cup {r} /\ Holders(c)' = Holders(c)
          /\ \A d \in DOMAIN chans : d # c => Holders(d)' = Holders(d) /\ Waiters(d)' = Waiters(d)
      <3>1. \A d : d # c => r \notin Holders(d) /\ r \notin Waiters(d)
        BY <1>1 DEF Holders, Waiters
      <3>2. \A d : /\ Holders(d)' = (Holders(d) \ {r}) \cup (IF q.pc = "running" /\ q.chan = d THEN {r} ELSE {})
                  /\ Waiters(d)' = (Waiters(d) \ {r}) \cup (IF q.pc = "waiting" /\ q.chan = d THEN {r} ELSE {})
        BY <2>1, OneRequestMoves DEF Inv, RequestInv
      <3> QED BY <1>3, <2>1, <3>1, <3>2
    <2>5. Exact(ch, Holders(c)', Waiters(c)')
      BY <1>2, <1>5, <2>2, <2>3, <2>4 DEF Exact, Room
    <2>6. ChanInv' /\ DOMAIN chans' = DOMAIN chans
      BY <1>1, <2>1, <2>3, <2>4, <2>5, OneChannelMoves DEF Inv
    <2> QED BY <1>1, <2>1, <2>6, RequestsKeep DEF Inv
  <1> QED BY <1>0, <1>4, <1>5 DEF TrySend

LEMMA TimeoutKeeps ==
    ASSUME Inv, NEW r \in Requests, Timeout(r)
    PROVE  RequestInv' /\ ChanInv'
  <1>0. PICK c \in DOMAIN chans : c = req[r].chan
    BY DEF Timeout, Inv, RequestInv, Placed
  <1>1. /\ req[r] \in Request /\ c = req[r].chan /\ req[r].pc = "waiting" /\ c # NoChan
        /\ UNCHANGED current /\ req' = [req EXCEPT ![r] = Idle]
    BY <1>0, ChanShape DEF Timeout, Inv, RequestInv
  <1>2. chans[c] \in Chan /\ Exact(chans[c], Holders(c), Waiters(c))
    BY <1>1, ChanShape DEF Inv
  <1>3. PICK i \in DOMAIN chans[c].queue :
            /\ chans[c].queue[i] = r
            /\ chans' = [chans EXCEPT ![c].queue = RemoveAt(@, i)]
    BY <1>0 DEF Timeout
  <1> DEFINE line == RemoveAt(chans[c].queue, i)
             ch == [chans[c] EXCEPT !.queue = line]
  <1>4. chans' = [chans EXCEPT ![c] = ch]
    BY <1>3
  <1>5. line \in Queue /\ OnceEach(line) /\ ToSet(line) = Waiters(c) \ {r}
    BY <1>2, <1>3, LeaveLine DEF Exact, Chan
  <1> HIDE DEF line
  <1>6. ch \in Chan /\ ch.len = chans[c].len /\ ch.cap = chans[c].cap /\ ch.queue = line
    BY <1>2, <1>5 DEF Chan
  <1>7. chans[c].queue # <<>>
    BY <1>2, <1>3, QueueShape, EmptySeq DEF Chan
  <1> HIDE DEF ch
  <1>8. /\ Waiters(c)' = Waiters(c) \ {r} /\ Holders(c)' = Holders(c)
        /\ \A d \in DOMAIN chans : d # c => Holders(d)' = Holders(d) /\ Waiters(d)' = Waiters(d)
    <2>1. \A d : r \notin Holders(d) /\ (d # c => r \notin Waiters(d))
      BY <1>1 DEF Holders, Waiters
    <2>2. \A d : /\ Holders(d)' = (Holders(d) \ {r}) \cup (IF Idle.pc = "running" /\ Idle.chan = d THEN {r} ELSE {})
                /\ Waiters(d)' = (Waiters(d) \ {r}) \cup (IF Idle.pc = "waiting" /\ Idle.chan = d THEN {r} ELSE {})
      BY <1>1, IdleIsRequest, OneRequestMoves DEF Inv, RequestInv
    <2> QED BY <1>1, <2>1, <2>2, IdleIsRequest
  <1>9. Exact(ch, Holders(c)', Waiters(c)')
    BY <1>2, <1>5, <1>6, <1>7, <1>8 DEF Exact
  <1>10. ChanInv' /\ DOMAIN chans' = DOMAIN chans
    BY <1>1, <1>4, <1>6, <1>8, <1>9, OneChannelMoves DEF Inv
  <1> QED BY <1>1, <1>10, IdleIsRequest, RequestsKeep DEF Inv

\* The holder's place goes to the head of the line, or back to the buffer.
LEMMA ReceiveKeeps ==
    ASSUME Inv, NEW r \in Requests, req[r].pc = "running", req[r].chan # NoChan,
           Receive(req[r].chan, r), UNCHANGED current
    PROVE  RequestInv' /\ ChanInv'
  <1>0. PICK c \in DOMAIN chans : c = req[r].chan
    BY DEF Inv, RequestInv, Placed
  <1>1. req \in [Requests -> Request] /\ req[r] \in Request /\ c = req[r].chan /\ c # NoChan
    BY <1>0 DEF Inv, RequestInv
  <1>2. chans[c] \in Chan /\ Exact(chans[c], Holders(c), Waiters(c))
    BY <1>1, ChanShape DEF Inv
  <1>3. r \in Holders(c) /\ r \notin Waiters(c)
        /\ \A d : d # c => r \notin Holders(d) /\ r \notin Waiters(d)
    BY <1>1 DEF Holders, Waiters
  <1>4. Cardinality(Holders(c) \ {r}) = Cardinality(Holders(c)) - 1
    BY <1>3, HoldersFinite, FS_RemoveElement
  <1>5. chans[c].len \in Nat \ {0} /\ chans[c].cap \in Nat /\ chans[c].len <= chans[c].cap
        /\ chans[c].len - 1 = Cardinality(Holders(c) \ {r})
    <2>1. Cardinality(Holders(c) \ {r}) \in Nat
      BY HoldersFinite, FS_RemoveElement, FS_CardinalityType
    <2> QED BY <1>2, <1>4, <2>1, HoldersFinite DEF Exact, Chan
  <1>6. CASE /\ chans[c].queue = <<>>
             /\ chans' = [chans EXCEPT ![c].len = @ - 1]
             /\ req' = [req EXCEPT ![r] = Idle]
    <2> DEFINE ch == [chans[c] EXCEPT !.len = @ - 1]
    <2>1. chans' = [chans EXCEPT ![c] = ch]
      BY <1>6
    <2>2. ch \in Chan /\ ch.len = chans[c].len - 1 /\ ch.cap = chans[c].cap /\ ch.queue = <<>>
      BY <1>2, <1>5, <1>6 DEF Chan
    <2> HIDE DEF ch
    <2>3. /\ Holders(c)' = Holders(c) \ {r} /\ Waiters(c)' = Waiters(c)
          /\ \A d \in DOMAIN chans : d # c => Holders(d)' = Holders(d) /\ Waiters(d)' = Waiters(d)
      <3>1. \A d : /\ Holders(d)' = (Holders(d) \ {r}) \cup (IF Idle.pc = "running" /\ Idle.chan = d THEN {r} ELSE {})
                  /\ Waiters(d)' = (Waiters(d) \ {r}) \cup (IF Idle.pc = "waiting" /\ Idle.chan = d THEN {r} ELSE {})
        BY <1>1, <1>6, IdleIsRequest, OneRequestMoves
      <3> QED BY <1>3, <3>1, IdleIsRequest
    <2>4. Exact(ch, Holders(c)', Waiters(c)')
      BY <1>2, <1>5, <1>6, <2>2, <2>3 DEF Exact
    <2>5. ChanInv' /\ DOMAIN chans' = DOMAIN chans
      BY <1>1, <2>1, <2>2, <2>3, <2>4, OneChannelMoves DEF Inv
    <2> QED BY <1>6, <2>5, IdleIsRequest, RequestsKeep DEF Inv
  <1>7. CASE /\ chans[c].queue # <<>>
             /\ chans' = [chans EXCEPT ![c].queue = Tail(@)]
             /\ req' = [req EXCEPT ![r] = Idle, ![Head(chans[c].queue)].pc = "running"]
    <2> DEFINE h == Head(chans[c].queue)
               line == Tail(chans[c].queue)
               ch == [chans[c] EXCEPT !.queue = line]
               q == [req[h] EXCEPT !.pc = "running"]
    <2>1. /\ line \in Queue /\ OnceEach(line) /\ ToSet(line) = Waiters(c) \ {h}
          /\ h \in Waiters(c)
      BY <1>2, <1>7, ServeHead DEF Exact, Chan
    <2>2. h \in Requests /\ req[h].pc = "waiting" /\ req[h].chan = c /\ h # r
      BY <1>3, <2>1 DEF Waiters
    <2>3. chans' = [chans EXCEPT ![c] = ch]
      BY <1>7
    <2> HIDE DEF line
    <2>4. ch \in Chan /\ ch.len = chans[c].len /\ ch.cap = chans[c].cap /\ ch.queue = line
      BY <1>2, <2>1 DEF Chan
    <2>5. req' = [[req EXCEPT ![r] = Idle] EXCEPT ![h] = q]
      BY <1>1, <1>7, <2>2
    <2>6. q \in Request /\ q.pc = "running" /\ q.chan = c
      BY <1>1, <2>2 DEF Request
    <2> HIDE DEF ch, q, h
    <2>7. \A s \in Requests : req'[s] = IF s = h THEN q ELSE IF s = r THEN Idle ELSE req[s]
      BY <1>1, <2>2, <2>5
    <2>8. req' \in [Requests -> Request]
      BY <1>1, <2>5, <2>6, IdleIsRequest
    <2>9. /\ Holders(c)' = (Holders(c) \ {r}) \cup {h}
          /\ Waiters(c)' = Waiters(c) \ {h}
          /\ \A d \in DOMAIN chans : d # c => Holders(d)' = Holders(d) /\ Waiters(d)' = Waiters(d)
      <3>1. \A d : d # c => h \notin Holders(d) /\ h \notin Waiters(d)
        BY <2>2 DEF Holders, Waiters
      <3> QED BY <1>3, <2>2, <2>6, <2>7, <3>1, IdleIsRequest DEF Holders, Waiters
    <2>10. Cardinality(Holders(c)') = chans[c].len
      <3>0. h \notin Holders(c)
        BY <2>2 DEF Holders
      <3>1. h \notin Holders(c) \ {r} /\ IsFiniteSet(Holders(c) \ {r})
        <4>1. IsFiniteSet(Holders(c) \ {r})
          BY HoldersFinite, FS_RemoveElement
        <4> QED BY <3>0, <4>1
      <3>2. Cardinality((Holders(c) \ {r}) \cup {h}) = Cardinality(Holders(c) \ {r}) + 1
        BY <3>1, FS_AddElement
      <3> QED BY <1>5, <2>9, <3>2
    <2>11. Exact(ch, Holders(c)', Waiters(c)')
      BY <1>2, <1>7, <2>1, <2>4, <2>9, <2>10 DEF Exact
    <2>12. ChanInv' /\ DOMAIN chans' = DOMAIN chans
      BY <1>1, <2>3, <2>4, <2>9, <2>11, OneChannelMoves DEF Inv
    <2>13. ASSUME NEW s \in Requests
           PROVE  /\ req'[s].pc \in {"idle", "picked"} => req'[s].chan = NoChan
                  /\ req'[s].pc \in {"found", "waiting"} => req'[s].chan \in DOMAIN chans'
                  /\ req'[s].pc = "running" => req'[s].chan \in DOMAIN chans' \cup {NoChan}
      <3>1. Placed(req[s])
        BY DEF Inv, RequestInv
      <3> QED BY <1>1, <2>6, <2>7, <2>12, <3>1, IdleIsRequest DEF Placed
    <2> QED BY <2>8, <2>12, <2>13 DEF RequestInv, Placed
  <1> QED BY <1>0, <1>6, <1>7 DEF Receive

LEMMA FinishKeeps ==
    ASSUME Inv, NEW r \in Requests, Finish(r)
    PROVE  RequestInv' /\ ChanInv'
  <1>1. CASE req[r].chan # NoChan
    BY <1>1, ReceiveKeeps DEF Finish
  <1>2. CASE req[r].chan = NoChan
    <2>1. /\ req' = [req EXCEPT ![r] = Idle] /\ UNCHANGED <<chans, current>>
          /\ req[r].pc = "running"
      BY <1>2 DEF Finish
    <2>2. \A d : d # NoChan => Holders(d)' = Holders(d) /\ Waiters(d)' = Waiters(d)
      BY <1>2, <2>1, IdleIsRequest, AsideMoves DEF Inv
    <2> QED BY <2>1, <2>2, IdleIsRequest, ChannelsStay, RequestsKeep DEF Inv
  <1> QED BY <1>1, <1>2

LEMMA StepKeepsInv ==
    ASSUME Inv, [Next]_vars
    PROVE  Inv'
  <1>1. ASSUME NEW r \in Requests,
               \/ PickAccount(r) \/ RunUnlimited(r) \/ LookUp(r) \/ TrySend(r)
               \/ Timeout(r) \/ Finish(r)
        PROVE  Inv'
    <2>1. UNCHANGED <<maxConcurrency, edited>>
      BY <1>1 DEF PickAccount, RunUnlimited, LookUp, TrySend, Timeout, Finish
    <2>2. RequestInv' /\ ChanInv'
      BY <1>1, PickKeeps, UnlimitedKeeps, LookUpKeeps, TrySendKeeps, TimeoutKeeps, FinishKeeps
    <2> QED BY <2>1, <2>2 DEF Inv
  <1>2. ASSUME maxConcurrency' \in Caps, edited' \in BOOLEAN, UNCHANGED <<chans, current, req>>
        PROVE  Inv'
    <2>1. RequestInv'
      BY <1>2 DEF Inv, RequestInv, Placed
    <2>2. ChanInv'
      <3>1. \A d : Holders(d)' = Holders(d) /\ Waiters(d)' = Waiters(d)
        BY <1>2 DEF Holders, Waiters
      <3> QED BY <1>2, <3>1, ChannelsStay DEF Inv
    <2> QED BY <1>2, <2>1, <2>2 DEF Inv
  <1>3. ASSUME NEW n \in Caps, SetMaxConcurrency(n)
        PROVE  Inv'
    BY <1>2, <1>3 DEF SetMaxConcurrency
  <1>4. CASE UNCHANGED vars
    BY <1>2, <1>4 DEF vars, Inv
  <1> QED BY <1>1, <1>3, <1>4 DEF Next

LEMMA Invariance == Spec => []Inv
  <1>1. Init => Inv
    <2> SUFFICES ASSUME Init PROVE Inv
      OBVIOUS
    <2>1. RequestInv
      BY IdleIsRequest DEF Init, RequestInv, Placed
    <2>2. DOMAIN chans = {} /\ Len(chans) = 0 /\ chans \in Seq(Chan)
      BY EmptySeq, LenProperties DEF Init
    <2>3. ChanInv
      BY <2>2, SlotsAssumption DEF Init, ChanInv
    <2> QED BY <2>1, <2>3 DEF Init, Inv
  <1> QED BY <1>1, StepKeepsInv, PTL DEF Spec

\* Every reachable state has the shape the code gives it.
THEOREM TypeCorrect == Spec => []TypeOK
  BY Invariance, InvImplies, PTL

\* Every channel, replaced or not, counts exactly the requests that run on it, within
\* its capacity, and nobody waits for a place that is free.
THEOREM SlotsAreExact == Spec => []SlotsExact
  BY Invariance, InvImplies, PTL

-----------------------------------------------------------------------------
(* The limit. *)

\* As long as the limit is what it was, there is at most one channel, which has it,
\* and every request works with it and runs on a channel.
ChanCap ==
    /\ current = NoChan => Len(chans) = 0
    /\ \A c \in DOMAIN chans : c = current /\ chans[c].cap = maxConcurrency

RequestCap ==
    \A r \in Requests : /\ req[r].pc # "idle" => req[r].cap = maxConcurrency
                        /\ req[r].pc = "running" => req[r].chan # NoChan

CapInv == ~edited /\ maxConcurrency > 0 => ChanCap /\ RequestCap

LEMMA RequestCapKept ==
    ASSUME RequestInv, RequestCap, UNCHANGED maxConcurrency, NEW r \in Requests, NEW q \in Request,
           req' = [req EXCEPT ![r] = q],
           q.pc # "idle" => q.cap = maxConcurrency,
           q.pc = "running" => q.chan # NoChan
    PROVE  RequestCap'
  <1>1. \A s \in Requests : req'[s] = IF s = r THEN q ELSE req[s]
    BY DEF RequestInv
  <1> QED BY <1>1 DEF RequestCap

LEMMA ChanCapKept ==
    ASSUME ChanInv, ChanCap, UNCHANGED <<maxConcurrency, current>>, NEW c \in DOMAIN chans,
           NEW ch \in Chan, ch.cap = chans[c].cap, chans' = [chans EXCEPT ![c] = ch]
    PROVE  ChanCap'
  <1>1. Len(chans) \in Nat /\ DOMAIN chans = 1..Len(chans) /\ chans \in Seq(Chan)
    BY ChanShape DEF ChanInv
  <1>2. Len(chans') = Len(chans) /\ DOMAIN chans' = DOMAIN chans
        /\ \A d \in DOMAIN chans : chans'[d] = IF d = c THEN ch ELSE chans[d]
    BY <1>1, ExceptSeq
  <1> QED BY <1>2 DEF ChanCap

\* The channel for the limit is the one there is, or the first.
LEMMA SlotChanCap ==
    ASSUME ChanInv, ChanCap, maxConcurrency \in Nat \ {0}, UNCHANGED maxConcurrency,
           NEW c \in 1..MaxChans, SlotChan(maxConcurrency, c)
    PROVE  ChanCap'
  <1>1. /\ Len(chans) \in Nat /\ DOMAIN chans = 1..Len(chans) /\ chans \in Seq(Chan)
        /\ current \in DOMAIN chans \cup {NoChan}
    BY ChanShape DEF ChanInv
  <1>2. CASE UNCHANGED <<chans, current>>
    BY <1>2 DEF ChanCap
  <1> DEFINE new == [cap |-> maxConcurrency, len |-> 0, queue |-> <<>>]
  <1>3. CASE /\ maxConcurrency # CurrentCap /\ c = Len(chans) + 1
             /\ chans' = Append(chans, new) /\ current' = c
    <2>1. current = NoChan
      BY <1>1, <1>3 DEF CurrentCap, ChanCap
    <2>2. Len(chans) = 0
      BY <2>1 DEF ChanCap
    <2>3. new \in Chan /\ new.cap = maxConcurrency
      BY EmptySeq DEF Chan, Queue
    <2>4. Len(chans') = 1 /\ chans'[1] = new /\ DOMAIN chans' = 1..1
      <3>1. /\ chans' \in Seq(Chan) /\ Len(chans') = Len(chans) + 1
            /\ chans'[Len(chans) + 1] = new
        BY <1>1, <1>3, <2>3, AppendProperties
      <3> QED BY <2>2, <3>1, LenProperties
    <2>5. current' = 1 /\ current' # NoChan
      BY <1>3, <2>2, SlotsAssumption
    <2> HIDE DEF new
    <2> QED BY <2>3, <2>4, <2>5 DEF ChanCap
  <1> QED BY <1>2, <1>3 DEF SlotChan

LEMMA StepKeepsCap ==
    ASSUME Inv, CapInv, [Next]_vars
    PROVE  CapInv'
  <1> SUFFICES ASSUME ~edited', maxConcurrency' > 0
               PROVE  ChanCap' /\ RequestCap'
    BY DEF CapInv
  <1>1. /\ ~edited /\ UNCHANGED maxConcurrency /\ maxConcurrency \in Nat \ {0}
        /\ ChanCap /\ RequestCap /\ RequestInv /\ ChanInv
        /\ req \in [Requests -> Request]
    <2>1. ~edited /\ UNCHANGED maxConcurrency
      <3>1. ASSUME NEW n \in Caps, SetMaxConcurrency(n)
            PROVE  FALSE
        BY <3>1 DEF SetMaxConcurrency
      <3>2. ASSUME NEW r \in Requests,
                   \/ PickAccount(r) \/ RunUnlimited(r) \/ LookUp(r)
                   \/ TrySend(r) \/ Timeout(r) \/ Finish(r)
            PROVE  UNCHANGED <<edited, maxConcurrency>>
        <4>1. CASE PickAccount(r)
          BY <4>1 DEF PickAccount
        <4>2. CASE RunUnlimited(r)
          BY <4>2 DEF RunUnlimited
        <4>3. CASE LookUp(r)
          BY <4>3 DEF LookUp
        <4>4. CASE TrySend(r)
          BY <4>4 DEF TrySend
        <4>5. CASE Timeout(r)
          BY <4>5 DEF Timeout
        <4>6. CASE Finish(r)
          BY <4>6 DEF Finish
        <4> QED BY <3>2, <4>1, <4>2, <4>3, <4>4, <4>5, <4>6
      <3>3. CASE UNCHANGED vars
        BY <3>3 DEF vars
      <3> QED BY <3>1, <3>2, <3>3 DEF Next
    <2> QED BY <2>1, SlotsAssumption DEF Inv, CapInv, RequestInv
  <1>2. ASSUME NEW r \in Requests, PickAccount(r)
        PROVE  ChanCap' /\ RequestCap'
    <2> DEFINE q == [Idle EXCEPT !.pc = "picked", !.cap = maxConcurrency]
    <2>1. q \in Request /\ q.pc = "picked" /\ q.cap = maxConcurrency
      BY <1>1 DEF Idle, Request
    <2>2. req' = [req EXCEPT ![r] = q]
      BY <1>2 DEF PickAccount
    <2> HIDE DEF q
    <2>3. RequestCap'
      BY <1>1, <2>1, <2>2, RequestCapKept
    <2>4. \E c \in 1..MaxChans : SlotChan(maxConcurrency, c)
      BY <1>1, <1>2 DEF PickAccount
    <2> QED BY <1>1, <2>3, <2>4, SlotChanCap
  <1>3. ASSUME NEW r \in Requests, LookUp(r)
        PROVE  ChanCap' /\ RequestCap'
    <2>1. PICK c \in 1..MaxChans :
              /\ SlotChan(req[r].cap, c)
              /\ req' = [req EXCEPT ![r].pc = "found", ![r].chan = c]
      BY <1>3 DEF LookUp
    <2> DEFINE q == [req[r] EXCEPT !.pc = "found", !.chan = c]
    <2>2. req[r].cap = maxConcurrency
      BY <1>1, <1>3 DEF LookUp, RequestCap
    <2>3. q \in Request /\ q.pc = "found" /\ q.cap = maxConcurrency
      BY <1>1, <2>2 DEF Request
    <2>4. req' = [req EXCEPT ![r] = q]
      BY <2>1
    <2> HIDE DEF q
    <2> QED BY <1>1, <2>1, <2>2, <2>3, <2>4, RequestCapKept, SlotChanCap
  <1>4. ASSUME NEW r \in Requests, RunUnlimited(r)
        PROVE  FALSE
    BY <1>1, <1>4 DEF RunUnlimited, RequestCap
  <1>5. ASSUME NEW r \in Requests, TrySend(r)
        PROVE  ChanCap' /\ RequestCap'
    <2>0. PICK c \in DOMAIN chans : c = req[r].chan
      BY <1>5 DEF TrySend, Inv, RequestInv, Placed
    <2>1. c # NoChan /\ chans[c] \in Chan /\ req[r] \in Request /\ req[r].cap = maxConcurrency
      BY <1>1, <1>5, ChanShape DEF TrySend, RequestCap
    <2>2. \E pc \in {"running", "waiting"} : req' = [req EXCEPT ![r].pc = pc]
      BY <1>5 DEF TrySend
    <2>3. RequestCap'
      <3>1. PICK pc \in {"running", "waiting"} : req' = [req EXCEPT ![r].pc = pc]
        BY <2>2
      <3> DEFINE q == [req[r] EXCEPT !.pc = pc]
      <3>2. q \in Request /\ q.cap = maxConcurrency /\ q.chan = c /\ req' = [req EXCEPT ![r] = q]
        BY <2>0, <2>1, <3>1 DEF Request
      <3> HIDE DEF q
      <3> QED BY <1>1, <2>1, <3>2, RequestCapKept
    <2>4. \E ch \in Chan : ch.cap = chans[c].cap /\ chans' = [chans EXCEPT ![c] = ch]
      <3> DEFINE more == [chans[c] EXCEPT !.len = @ + 1]
                 line == Append(chans[c].queue, r)
                 longer == [chans[c] EXCEPT !.queue = line]
      <3>1. more \in Chan /\ more.cap = chans[c].cap
        BY <2>1 DEF Chan
      <3>2. line \in Queue
        BY <2>1, AppendProperties DEF Chan, Queue
      <3>3. longer \in Chan /\ longer.cap = chans[c].cap
        BY <2>1, <3>2 DEF Chan
      <3>4. chans' = [chans EXCEPT ![c] = more] \/ chans' = [chans EXCEPT ![c] = longer]
        BY <1>5, <2>0 DEF TrySend
      <3> QED BY <3>1, <3>3, <3>4
    <2>5. UNCHANGED current
      BY <1>5 DEF TrySend
    <2> QED BY <1>1, <2>3, <2>4, <2>5, ChanCapKept
  <1>6. ASSUME NEW r \in Requests, Timeout(r)
        PROVE  ChanCap' /\ RequestCap'
    <2>0. PICK c \in DOMAIN chans : c = req[r].chan
      BY <1>6 DEF Timeout, Inv, RequestInv, Placed
    <2>1. chans[c] \in Chan /\ Exact(chans[c], Holders(c), Waiters(c))
      BY <1>1, ChanShape
    <2>2. PICK i \in DOMAIN chans[c].queue : chans' = [chans EXCEPT ![c].queue = RemoveAt(@, i)]
      BY <1>6, <2>0 DEF Timeout
    <2> DEFINE line == RemoveAt(chans[c].queue, i)
               ch == [chans[c] EXCEPT !.queue = line]
    <2>3. line \in Queue
      BY <2>1, LeaveLine DEF Exact, Chan
    <2>4. ch \in Chan /\ ch.cap = chans[c].cap /\ chans' = [chans EXCEPT ![c] = ch]
      BY <2>1, <2>2, <2>3 DEF Chan
    <2>5. RequestCap'
      BY <1>1, <1>6, IdleIsRequest, RequestCapKept DEF Timeout
    <2>6. UNCHANGED current
      BY <1>6 DEF Timeout
    <2> HIDE DEF ch
    <2> QED BY <1>1, <2>4, <2>5, <2>6, ChanCapKept
  <1>7. ASSUME NEW r \in Requests, Finish(r)
        PROVE  ChanCap' /\ RequestCap'
    <2>0. PICK c \in DOMAIN chans : c = req[r].chan
      BY <1>1, <1>7 DEF Finish, RequestInv, Placed, RequestCap
    <2>1. c # NoChan /\ chans[c] \in Chan /\ Exact(chans[c], Holders(c), Waiters(c))
      BY <1>1, ChanShape
    <2>2. Receive(c, r) /\ UNCHANGED current /\ req[r].pc = "running"
      BY <1>7, <2>0, <2>1 DEF Finish
    <2>3. CASE /\ chans[c].queue = <<>>
               /\ chans' = [chans EXCEPT ![c].len = @ - 1]
               /\ req' = [req EXCEPT ![r] = Idle]
      <3> DEFINE ch == [chans[c] EXCEPT !.len = @ - 1]
      <3>1. chans[c].len \in Nat \ {0}
        <4>1. r \in Holders(c)
          BY <2>0, <2>2 DEF Holders
        <4>2. Cardinality(Holders(c)) # 0
          BY <4>1, HoldersFinite, FS_EmptySet
        <4> QED BY <2>1, <4>2 DEF Exact, Chan
      <3>2. ch \in Chan /\ ch.cap = chans[c].cap /\ chans' = [chans EXCEPT ![c] = ch]
        BY <2>1, <2>3, <3>1 DEF Chan
      <3>3. RequestCap'
        BY <1>1, <2>3, IdleIsRequest, RequestCapKept
      <3> HIDE DEF ch
      <3> QED BY <1>1, <2>2, <3>2, <3>3, ChanCapKept
    <2>4. CASE /\ chans[c].queue # <<>>
               /\ chans' = [chans EXCEPT ![c].queue = Tail(@)]
               /\ req' = [req EXCEPT ![r] = Idle, ![Head(chans[c].queue)].pc = "running"]
      <3>1. PICK h \in Waiters(c) : h = Head(chans[c].queue)
        BY <2>1, <2>4, ServeHead DEF Exact, Chan
      <3>2. h \in Requests /\ req[h].pc = "waiting" /\ req[h].chan = c /\ h # r
        BY <2>2, <3>1 DEF Waiters
      <3> DEFINE line == Tail(chans[c].queue)
                 ch == [chans[c] EXCEPT !.queue = line]
                 q == [req[h] EXCEPT !.pc = "running"]
      <3>3. line \in Queue
        BY <2>1, <2>4, ServeHead DEF Exact, Chan
      <3>4. ch \in Chan /\ ch.cap = chans[c].cap /\ chans' = [chans EXCEPT ![c] = ch]
        BY <2>1, <2>4, <3>3 DEF Chan
      <3>5. q \in Request /\ q.pc = "running" /\ q.chan = c /\ q.cap = maxConcurrency
        BY <1>1, <3>2 DEF Request, RequestCap
      <3>6. req' = [[req EXCEPT ![r] = Idle] EXCEPT ![h] = q]
        BY <1>1, <2>4, <3>1, <3>2
      <3> HIDE DEF ch, q
      <3>7. \A s \in Requests : req'[s] = IF s = h THEN q ELSE IF s = r THEN Idle ELSE req[s]
        BY <1>1, <3>2, <3>6
      <3>8. RequestCap'
        BY <1>1, <2>1, <3>5, <3>7, IdleIsRequest DEF RequestCap
      <3> QED BY <1>1, <2>2, <3>4, <3>8, ChanCapKept
    <2> QED BY <2>2, <2>3, <2>4 DEF Receive
  <1>8. CASE UNCHANGED vars \/ \E n \in Caps : SetMaxConcurrency(n)
    <2>1. UNCHANGED <<maxConcurrency, chans, current, req>>
      BY <1>1, <1>8 DEF vars, SetMaxConcurrency
    <2> QED BY <1>1, <2>1 DEF ChanCap, RequestCap
  <1> QED BY <1>2, <1>3, <1>4, <1>5, <1>6, <1>7, <1>8 DEF Next

\* The account never has more requests in flight than MaxConcurrency, as long as
\* nobody changes it.
THEOREM CapIsKept == Spec => []CapHolds
  <1>1. Init => CapInv
    <2> SUFFICES ASSUME Init PROVE ChanCap /\ RequestCap
      BY DEF CapInv
    <2>1. DOMAIN chans = {} /\ Len(chans) = 0
      BY EmptySeq DEF Init
    <2> QED BY <2>1, IdleIsRequest DEF Init, ChanCap, RequestCap
  <1>2. Inv /\ CapInv => CapHolds
    <2> SUFFICES ASSUME Inv, CapInv, ~edited, maxConcurrency > 0
                 PROVE  Cardinality({r \in Requests : req[r].pc = "running"}) <= maxConcurrency
      BY DEF CapHolds
    <2> DEFINE running == {r \in Requests : req[r].pc = "running"}
    <2>1. ChanCap /\ RequestCap /\ maxConcurrency \in Nat
      BY SlotsAssumption DEF CapInv, Inv
    <2>2. \A r \in running : req[r].chan \in DOMAIN chans /\ req[r].chan = current
      BY <2>1 DEF Inv, RequestInv, Placed, RequestCap, ChanCap
    <2>3. running = {} \/ (current \in DOMAIN chans /\ running = Holders(current))
      BY <2>2 DEF Holders
    <2>4. CASE running = {}
      BY <2>1, <2>4, FS_EmptySet
    <2>5. CASE current \in DOMAIN chans /\ running = Holders(current)
      <3>1. Exact(chans[current], Holders(current), Waiters(current)) /\ chans[current] \in Chan
        BY <2>5, ChanShape DEF Inv
      <3>2. chans[current].cap = maxConcurrency
        BY <2>1, <2>5 DEF ChanCap
      <3> QED BY <2>5, <3>1, <3>2 DEF Exact
    <2> QED BY <2>3, <2>4, <2>5
  <1> QED BY <1>1, <1>2, StepKeepsCap, Invariance, PTL DEF Spec
=============================================================================
