-------------------------- MODULE AccountPoolProofs --------------------------
(***************************************************************************)
(* What AccountPool guarantees for any accounts, weights, models, requests *)
(* and cooldowns: the types; that no account is taken past its quota       *)
(* without leave, nor a cooling one while another would do, nor one that   *)
(* failed three times before its rest is over, except by the fallback;     *)
(* that rejections outlive refreshes; and that every round is fair.        *)
(*                                                                         *)
(* The list that Reload builds is a recursive function of the number of    *)
(* slots looked at; that there is one, and what it holds, is shown on the  *)
(* smallest number for which it would fail.                                *)
(***************************************************************************)
EXTENDS AccountPool, FiniteSetTheorems, SequenceTheorems, WellFoundedInduction, TLAPS

-----------------------------------------------------------------------------
(* Natural numbers: every non-empty set of them has a smallest member.  It   *)
(* stands in for induction, below.                                           *)

LEMMA Smallest ==
    ASSUME NEW T, T \subseteq Nat, T # {}
    PROVE  \E x \in T : \A y \in T : x <= y
  <1>1. IsWellFoundedOn(OpToRel(<, Nat), Nat)
    BY NatLessThanWellFounded
  <1>2. PICK x \in T : \A y \in T : ~(<<y, x>> \in OpToRel(<, Nat))
    BY <1>1, WFMin
  <1>3. \A y \in T : ~(y < x)
    BY <1>2 DEF OpToRel
  <1> QED BY <1>3

-----------------------------------------------------------------------------
(* The list that Reload builds. *)

Entry == [id : Accounts, overLimit : BOOLEAN]

\* f is the list as built from the first n slots, for every n up to m.
Builds(f, m) ==
    f = [n \in 0..m |->
            IF n = 0 THEN <<>>
            ELSE IF InList(Slots[n])
                   THEN Append(f[n - 1], [id |-> Slots[n], overLimit |-> conf[Slots[n]].overLimit])
                   ELSE f[n - 1]]

LEMMA BuildsExists ==
    ASSUME NEW m \in Nat
    PROVE  \E f : Builds(f, m)
  <1> DEFINE Bad == {n \in Nat : ~\E f : Builds(f, n)}
  <1>1. SUFFICES ASSUME Bad # {} PROVE FALSE
    BY DEF Bad
  <1>2. PICK n \in Bad : \A y \in Bad : n <= y
    BY <1>1, Smallest
  <1>3. n # 0
    <2>1. Builds([i \in 0..0 |-> <<>>], 0)
      BY DEF Builds
    <2> QED BY <2>1
  <1>4. n \in Nat /\ n - 1 \in Nat /\ n - 1 \notin Bad
    BY <1>2, <1>3
  <1>5. PICK f : Builds(f, n - 1)
    BY <1>4
  <1> DEFINE last == IF InList(Slots[n])
                       THEN Append(f[n - 1], [id |-> Slots[n], overLimit |-> conf[Slots[n]].overLimit])
                       ELSE f[n - 1]
             g == [i \in 0..n |-> IF i <= n - 1 THEN f[i] ELSE last]
  <1>6. Builds(g, n)
    <2>1. ASSUME NEW i \in 0..n
          PROVE  g[i] = IF i = 0 THEN <<>>
                        ELSE IF InList(Slots[i])
                               THEN Append(g[i - 1], [id |-> Slots[i], overLimit |-> conf[Slots[i]].overLimit])
                               ELSE g[i - 1]
      <3>1. CASE i <= n - 1
        <4>1. i \in 0..(n - 1) /\ (i # 0 => i - 1 \in 0..(n - 1) /\ i - 1 <= n - 1)
          BY <1>4, <3>1
        <4>2. g[i] = f[i] /\ (i # 0 => g[i - 1] = f[i - 1])
          BY <3>1, <4>1
        <4> HIDE DEF g
        <4> QED BY <1>5, <4>1, <4>2 DEF Builds
      <3>2. CASE ~(i <= n - 1)
        <4>1. i = n /\ i # 0 /\ i - 1 \in 0..n /\ i - 1 <= n - 1
          BY <1>3, <1>4, <3>2
        <4>2. g[i] = last /\ g[i - 1] = f[n - 1]
          BY <3>2, <4>1
        <4> HIDE DEF g
        <4> QED BY <4>1, <4>2
      <3> QED BY <3>1, <3>2
    <2>2. g = [i \in 0..n |-> g[i]]
      OBVIOUS
    <2> HIDE DEF g
    <2> QED BY <2>1, <2>2 DEF Builds
  <1> QED BY <1>2, <1>6

LEMMA WeightedType ==
    ASSUME conf \in [Accounts -> AccountRecord]
    PROVE  Weighted \in Seq(Entry)
  <1> DEFINE m == Len(Slots)
  <1>1. m \in Nat /\ \A i \in 1..m : Slots[i] \in Accounts
    BY PoolAssumption, LenProperties, ElementOfSeq
  <1>2. Builds(ListedUpTo, m)
    <2>1. \E f : Builds(f, m)
      BY <1>1, BuildsExists
    <2> QED BY <2>1 DEF ListedUpTo, Builds
  <1> DEFINE Bad == {n \in 0..m : ListedUpTo[n] \notin Seq(Entry)}
  <1>3. Bad = {}
    <2>1. SUFFICES ASSUME Bad # {} PROVE FALSE
      OBVIOUS
    <2>2. PICK n \in Bad : \A y \in Bad : n <= y
      <3>1. Bad \subseteq Nat
        BY <1>1
      <3> HIDE DEF Bad
      <3> QED BY <2>1, <3>1, Smallest
    <2>3. ListedUpTo[n] = IF n = 0 THEN <<>>
                          ELSE IF InList(Slots[n])
                                 THEN Append(ListedUpTo[n - 1], [id |-> Slots[n], overLimit |-> conf[Slots[n]].overLimit])
                                 ELSE ListedUpTo[n - 1]
      BY <1>2 DEF Builds
    <2>4. n # 0
      BY <2>3, EmptySeq
    <2>5. n \in 1..m /\ n - 1 \in 0..m /\ n - 1 \notin Bad
      BY <1>1, <2>2, <2>4
    <2>6. ListedUpTo[n - 1] \in Seq(Entry)
      BY <2>5
    <2>7. [id |-> Slots[n], overLimit |-> conf[Slots[n]].overLimit] \in Entry
      BY <1>1, <2>5 DEF Entry, AccountRecord
    <2>8. ListedUpTo[n] \in Seq(Entry)
      BY <2>3, <2>4, <2>6, <2>7, AppendProperties
    <2> QED BY <2>8
  <1>4. m \in 0..m
    BY <1>1
  <1> QED BY <1>3, <1>4 DEF Weighted

-----------------------------------------------------------------------------
(* Types. *)

\* Only requests that walk the list hold the read lock, and they began on a list
\* that was not empty.
ProbingInv == \A r \in Requests : req[r].pc = "probing" => accounts # <<>>

Inv == TypeOK /\ ProbingInv

LEMMA IdleIsRequest ==
    /\ Idle \in Request /\ Idle.pc = "idle" /\ Idle.got = NoAccount
    /\ \A m \in Models, a \in Accounts :
          /\ Holding(a, m) \in Request /\ Holding(a, m).pc = "picked" /\ Holding(a, m).got = a
  <1>1. (CHOOSE m \in Models : TRUE) \in Models
    BY PoolAssumption
  <1> QED BY <1>1 DEF Idle, Request, Holding

HasAccount(q) == q.pc \in {"picked", "capped", "rejected"} <=> q.got # NoAccount

LEMMA OneRequestMoves ==
    ASSUME Inv, NEW r \in Requests, NEW q \in Request, HasAccount(q),
           req' = [req EXCEPT ![r] = q], UNCHANGED accounts,
           q.pc = "probing" => accounts # <<>>
    PROVE  /\ req' \in [Requests -> Request]
           /\ \A s \in Requests : HasAccount(req'[s])
           /\ ProbingInv'
  <1>1. req = [s \in Requests |-> req[s]] /\ req \in [Requests -> Request]
    BY DEF Inv, TypeOK
  <1>2. \A s \in Requests : req'[s] = IF s = r THEN q ELSE req[s]
    BY <1>1
  <1>3. \A s \in Requests : HasAccount(req[s])
    BY DEF Inv, TypeOK, HasAccount
  <1> QED BY <1>1, <1>2, <1>3 DEF Inv, ProbingInv

\* A request that holds an account holds one of Accounts.
LEMMA HeldType ==
    ASSUME Inv, NEW r \in Requests, req[r].pc \in {"picked", "capped", "rejected"}
    PROVE  req[r].got \in Accounts
  BY DEF Inv, TypeOK, Request

LEMMA EntryType ==
    ASSUME Inv, NEW i \in DOMAIN accounts
    PROVE  accounts[i] \in Entry /\ accounts[i].id \in Accounts
  <1>1. accounts[i] \in Entry
    <2>1. accounts \in Seq(Entry)
      BY DEF Inv, TypeOK, Entry
    <2> HIDE DEF Entry
    <2> QED BY <2>1, ElementOfSeq, LenProperties
  <1> QED BY <1>1 DEF Entry

\* The shared counter points into the list.
LEMMA ProbedEntry ==
    ASSUME Inv, accounts # <<>>, NEW idx \in Nat
    PROVE  (idx % Len(accounts)) + 1 \in DOMAIN accounts
  <1>1. Len(accounts) \in Nat /\ DOMAIN accounts = 1..Len(accounts) /\ Len(accounts) # 0
    BY LenProperties, EmptySeq DEF Inv, TypeOK
  <1>2. idx % Len(accounts) \in 0..(Len(accounts) - 1)
    BY <1>1
  <1> QED BY <1>1, <1>2

\* The fallback picks from the list, if from anything.
LEMMA FallbackFrom ==
    ASSUME Inv, NEW r \in Requests, FallbackChoice(r) # NoAccount
    PROVE  \E i \in DOMAIN accounts :
              /\ FallbackChoice(r) = accounts[i].id
              /\ Usable(r, accounts[i])
              /\ \/ cooldowns[accounts[i].id] = 0
                 \/ \A j \in DOMAIN accounts : Usable(r, accounts[j]) =>
                       /\ cooldowns[accounts[j].id] # 0
                       /\ cooldowns[accounts[i].id] <= cooldowns[accounts[j].id]
  <1> DEFINE usable == {i \in DOMAIN accounts : Usable(r, accounts[i])}
             free   == {i \in usable : cooldowns[accounts[i].id] = 0}
             soonest == {i \in usable : \A j \in usable :
                            cooldowns[accounts[i].id] <= cooldowns[accounts[j].id]}
             from == IF free # {} THEN free ELSE soonest
             first == CHOOSE i \in from : \A j \in from : i <= j
  <1>1. usable # {}
    BY DEF FallbackChoice
  <1>2. FallbackChoice(r) = accounts[first].id
    BY <1>1 DEF FallbackChoice
  <1>3. DOMAIN accounts \subseteq Nat
    BY LenProperties DEF Inv, TypeOK
  <1>4. \A i \in usable : cooldowns[accounts[i].id] \in Nat
    BY EntryType DEF Inv, TypeOK
  <1>5. soonest # {}
    <2> DEFINE ends == {cooldowns[accounts[i].id] : i \in usable}
    <2>1. ends \subseteq Nat /\ ends # {}
      BY <1>1, <1>4
    <2>2. \E x \in ends : \A y \in ends : x <= y
      <3> HIDE DEF ends
      <3> QED BY <2>1, Smallest
    <2> QED BY <2>2
  <1>6. from \subseteq usable /\ from # {}
    BY <1>5
  <1>7. from \subseteq Nat
    BY <1>3, <1>6
  <1>8. first \in from
    <2> HIDE DEF from
    <2>1. \E i \in from : \A j \in from : i <= j
      BY <1>6, <1>7, Smallest
    <2> QED BY <2>1
  <1> HIDE DEF first
  <1>9. first \in usable /\ (cooldowns[accounts[first].id] = 0
                              \/ (free = {} /\ first \in soonest))
    BY <1>6, <1>8
  <1>10. first \in DOMAIN accounts /\ Usable(r, accounts[first])
    BY <1>9
  <1>11. ASSUME free = {}, first \in soonest, NEW j \in DOMAIN accounts, Usable(r, accounts[j])
         PROVE  /\ cooldowns[accounts[j].id] # 0
                /\ cooldowns[accounts[first].id] <= cooldowns[accounts[j].id]
    BY <1>11
  <1> QED BY <1>2, <1>9, <1>10, <1>11

\* The parts of TypeOK that change together.
ListTypes ==
    /\ conf \in [Accounts -> AccountRecord]
    /\ allowOverUsage \in BOOLEAN
    /\ accounts \in Seq(Entry)
    /\ enabledModels \in [Accounts -> (SUBSET Models) \cup {NoList}]
    /\ modelLists \in [Accounts -> SUBSET Models]
    /\ modelDenies \in [Accounts -> SUBSET Models]

ErrorTypes ==
    /\ cooldowns \in [Accounts -> Nat]
    /\ errorCounts \in [Accounts -> 0..3]
    /\ lastStrike \in [Accounts -> Nat]

RequestTypes ==
    /\ req \in [Requests -> Request]
    /\ \A r \in Requests : HasAccount(req[r])
    /\ ProbingInv

OtherTypes ==
    /\ currentIndex \in 0..(IndexBound - 1)
    /\ stale \subseteq Accounts
    /\ now \in Nat
    /\ turns \in [Accounts -> Nat]

LEMMA Parts ==
    /\ Inv <=> ListTypes /\ ErrorTypes /\ RequestTypes /\ OtherTypes
    /\ Inv' <=> ListTypes' /\ ErrorTypes' /\ RequestTypes' /\ OtherTypes'
  <1>1. Inv <=> ListTypes /\ ErrorTypes /\ RequestTypes /\ OtherTypes
    BY DEF Inv, TypeOK, Entry, HasAccount, ListTypes, ErrorTypes, RequestTypes, OtherTypes
  <1>2. Inv' <=> ListTypes' /\ ErrorTypes' /\ RequestTypes' /\ OtherTypes'
    BY DEF Inv, TypeOK, Entry, HasAccount, ListTypes, ErrorTypes, RequestTypes, OtherTypes
  <1> QED BY <1>1, <1>2

LEMMA ListFrame ==
    ASSUME Inv, UNCHANGED <<confVars, listVars, modelVars>>
    PROVE  ListTypes'
  <1>1. ListTypes
    BY Parts
  <1> QED BY <1>1 DEF ListTypes, confVars, listVars, modelVars

LEMMA ErrorFrame ==
    ASSUME Inv, UNCHANGED errorVars
    PROVE  ErrorTypes'
  <1>1. ErrorTypes
    BY Parts
  <1> QED BY <1>1 DEF ErrorTypes, errorVars

LEMMA RequestFrame ==
    ASSUME Inv, UNCHANGED <<accounts, req>>
    PROVE  RequestTypes'
  <1>1. RequestTypes
    BY Parts
  <1> QED BY <1>1 DEF RequestTypes, ProbingInv, HasAccount

LEMMA OtherFrame ==
    ASSUME Inv, UNCHANGED <<currentIndex, stale, now>>, turns' \in [Accounts -> Nat] \/ turns' = turns
    PROVE  OtherTypes'
  <1>1. OtherTypes
    BY Parts
  <1> QED BY <1>1 DEF OtherTypes

LEMMA NoTurnsType == NoTurns \in [Accounts -> Nat]
  BY DEF NoTurns

LEMMA TurnType ==
    ASSUME turns \in [Accounts -> Nat], NEW a \in Accounts, Turn(a)
    PROVE  turns' \in [Accounts -> Nat]
  <1> DEFINE next == [turns EXCEPT ![a] = @ + 1]
  <1>1. next \in [Accounts -> Nat]
    OBVIOUS
  <1>2. [NoTurns EXCEPT ![a] = 1] \in [Accounts -> Nat]
    BY NoTurnsType
  <1> QED BY <1>1, <1>2 DEF Turn

LEMMA MovesTypes ==
    ASSUME Inv, NEW r \in Requests, NEW q \in Request, HasAccount(q),
           req' = [req EXCEPT ![r] = q], UNCHANGED accounts,
           q.pc = "probing" => accounts # <<>>
    PROVE  RequestTypes'
  BY OneRequestMoves DEF RequestTypes, HasAccount

LEMMA GoesIdle ==
    ASSUME Inv, NEW r \in Requests, req' = [req EXCEPT ![r] = Idle], UNCHANGED accounts
    PROVE  RequestTypes'
  BY IdleIsRequest, MovesTypes DEF HasAccount

LEMMA GetsAccount ==
    ASSUME Inv, NEW r \in Requests, NEW a \in Accounts, NEW m \in Models,
           req' = [req EXCEPT ![r] = Holding(a, m)], UNCHANGED accounts
    PROVE  RequestTypes'
  <1>1. Holding(a, m) \in Request /\ Holding(a, m).pc = "picked" /\ Holding(a, m).got = a
    BY IdleIsRequest
  <1>2. a # NoAccount
    BY PoolAssumption
  <1> HIDE DEF HasAccount
  <1>3. HasAccount(Holding(a, m))
    BY <1>1, <1>2 DEF HasAccount
  <1> QED BY <1>1, <1>3, MovesTypes

LEMMA SelectKeeps ==
    ASSUME Inv, NEW r \in Requests, Select(r)
    PROVE  Inv'
  <1>0. req[r] \in Request /\ HasAccount(req[r]) /\ now \in Nat
    BY DEF Inv, TypeOK, HasAccount
  <1>1. ASSUME NEW m \in Models, NEW barred \in Barred, Begin(r, m, barred)
        PROVE  Inv'
    <2> DEFINE q == [Idle EXCEPT !.pc = "probing", !.model = m, !.barred = barred,
                                 !.left = Len(accounts), !.at = now, !.allow = allowOverUsage]
    <2>1. Len(accounts) \in Nat /\ allowOverUsage \in BOOLEAN
      BY LenProperties DEF Inv, TypeOK
    <2>2. q \in Request /\ q.pc = "probing" /\ q.got = NoAccount
      BY <1>0, <2>1, IdleIsRequest DEF Idle, Request
    <2>3. req' = [req EXCEPT ![r] = q] /\ accounts # <<>> /\ UNCHANGED accounts
      BY <1>1 DEF Begin, listVars
    <2> HIDE DEF q
    <2>4. RequestTypes'
      BY <2>2, <2>3, MovesTypes DEF HasAccount
    <2>5. UNCHANGED <<confVars, listVars, modelVars, errorVars, currentIndex, stale, now, turns>>
      BY <1>1 DEF Begin
    <2> QED BY <2>4, <2>5, Parts, ListFrame, ErrorFrame, OtherFrame
  <1>2. ASSUME NEW m \in Models, NEW barred \in Barred, NEW a \in Accounts,
               PickPinned(r, m, barred, a)
        PROVE  Inv'
    <2>1. RequestTypes'
      BY <1>2, GetsAccount DEF PickPinned, listVars
    <2>2. UNCHANGED <<confVars, listVars, modelVars, errorVars, currentIndex, stale, now, turns>>
      BY <1>2 DEF PickPinned
    <2> QED BY <2>1, <2>2, Parts, ListFrame, ErrorFrame, OtherFrame
  <1>3. CASE Probe(r)
    <2> DEFINE idx == (currentIndex + 1) % IndexBound
               acc == accounts[(idx % Len(accounts)) + 1]
               later == [req[r] EXCEPT !.seen = @ \cup {acc.id}, !.left = @ - 1]
    <2>1. idx \in 0..(IndexBound - 1)
      BY PoolAssumption DEF Inv, TypeOK
    <2>2. accounts # <<>> /\ req[r].left \in Nat \ {0} /\ req[r].model \in Models
      BY <1>0, <1>3 DEF Probe, Inv, ProbingInv, Request
    <2>3. acc.id \in Accounts
      <3>1. idx \in Nat
        BY <2>1
      <3>2. (idx % Len(accounts)) + 1 \in DOMAIN accounts
        BY <2>2, <3>1, ProbedEntry
      <3> QED BY <3>2, EntryType
    <2>4. CASE req' = [req EXCEPT ![r] = Holding(acc.id, req[r].model)] /\ Turn(acc.id)
      <3> HIDE DEF acc
      <3>1. RequestTypes'
        BY <1>3, <2>2, <2>3, <2>4, GetsAccount DEF Probe, listVars
      <3>2. turns' \in [Accounts -> Nat]
        BY <2>3, <2>4, TurnType DEF Inv, TypeOK
      <3>3. currentIndex' \in 0..(IndexBound - 1)
        BY <1>3, <2>1 DEF Probe
      <3>4. UNCHANGED <<confVars, listVars, modelVars, errorVars, stale, now>>
        BY <1>3 DEF Probe
      <3> QED BY <3>1, <3>2, <3>3, <3>4, Parts, ListFrame, ErrorFrame DEF OtherTypes
    <2>5. CASE req' = [req EXCEPT ![r] = later] /\ turns' = NoTurns
      <3> HIDE DEF acc
      <3>1. /\ later \in Request /\ later.pc = req[r].pc /\ later.got = req[r].got
        <4>1. req[r].seen \cup {acc.id} \in SUBSET Accounts /\ req[r].left - 1 \in Nat
          BY <1>0, <2>2, <2>3 DEF Request
        <4> QED BY <1>0, <4>1 DEF Request
      <3> HIDE DEF later
      <3>2. HasAccount(later)
        BY <1>0, <3>1 DEF HasAccount
      <3>3. RequestTypes'
        BY <1>3, <2>2, <2>5, <3>1, <3>2, MovesTypes DEF Probe, listVars
      <3>4. currentIndex' \in 0..(IndexBound - 1)
        BY <1>3, <2>1 DEF Probe
      <3>5. UNCHANGED <<confVars, listVars, modelVars, errorVars, stale, now>>
        BY <1>3 DEF Probe
      <3> QED BY <2>5, <3>3, <3>4, <3>5, NoTurnsType, Parts, ListFrame, ErrorFrame DEF OtherTypes
    <2> QED BY <1>3, <2>4, <2>5 DEF Probe
  <1>4. CASE Fallback(r)
    <2>1. RequestTypes'
      <3>1. CASE FallbackChoice(r) = NoAccount
        BY <1>4, <3>1, GoesIdle DEF Fallback, listVars
      <3>2. CASE FallbackChoice(r) # NoAccount
        <4>1. FallbackChoice(r) \in Accounts
          BY <3>2, FallbackFrom, EntryType
        <4>2. req[r].model \in Models
          BY <1>0 DEF Request
        <4> QED BY <1>4, <3>2, <4>1, <4>2, GetsAccount DEF Fallback, listVars
      <3> QED BY <3>1, <3>2
    <2>2. UNCHANGED <<confVars, listVars, modelVars, errorVars, currentIndex, stale, now, turns>>
      BY <1>4 DEF Fallback
    <2> QED BY <2>1, <2>2, Parts, ListFrame, ErrorFrame, OtherFrame
  <1> QED BY <1>1, <1>2, <1>3, <1>4 DEF Select

\* What an outcome writes of an account's errors.
LEMMA ErrorWrites ==
    ASSUME Inv, NEW a \in Accounts, NEW quota \in BOOLEAN, RecordError(a, quota)
    PROVE  ErrorTypes'
  <1>1. CooldownAfter(a, quota) \in Nat
    <2>1. QuotaCooldown \in Nat /\ ErrorCooldown \in Nat /\ now \in Nat /\ cooldowns[a] \in Nat
      BY PoolAssumption DEF Inv, TypeOK
    <2> QED BY <2>1 DEF CooldownAfter
  <1>2. (IF errorCounts[a] < 3 THEN errorCounts[a] + 1 ELSE errorCounts[a]) \in 0..3
    BY DEF Inv, TypeOK
  <1> QED BY <1>1, <1>2 DEF RecordError, ErrorTypes, Inv, TypeOK

LEMMA OutcomeKeeps ==
    ASSUME Inv, NEW r \in Requests, Outcome(r)
    PROVE  Inv'
  <1> DEFINE a == req[r].got
  <1>0. req[r] \in Request /\ HasAccount(req[r]) /\ now \in Nat
    BY DEF Inv, TypeOK, HasAccount
  <1>1. a \in Accounts
    BY HeldType DEF Outcome, RecordSuccess, FailPlain, FailQuota, FailCap, SetCooldown, DenyModel
  <1>2. UNCHANGED <<confVars, listVars, modelLists, currentIndex, stale, now>>
    BY DEF Outcome, RecordSuccess, FailPlain, FailQuota, FailCap, SetCooldown, DenyModel,
           RecordError, modelVars
  <1>3. ASSUME RequestTypes', ErrorTypes', UNCHANGED <<modelDenies, turns>>
        PROVE  Inv'
    BY <1>2, <1>3, Parts, ListFrame, OtherFrame DEF modelVars
  <1>4. CASE RecordSuccess(r)
    <2>1. ErrorTypes'
      BY <1>1, <1>4 DEF RecordSuccess, ErrorTypes, Inv, TypeOK
    <2>2. RequestTypes'
      BY <1>2, <1>4, GoesIdle DEF RecordSuccess, Done, listVars
    <2> QED BY <1>3, <1>4, <2>1, <2>2 DEF RecordSuccess, modelVars
  <1>5. CASE FailPlain(r) \/ FailQuota(r)
    <2>1. ErrorTypes' /\ UNCHANGED <<modelVars, turns>>
      <3> HIDE DEF a
      <3>1. \E quota \in BOOLEAN : RecordError(a, quota)
        BY <1>5 DEF FailPlain, FailQuota, a
      <3> QED BY <1>1, <3>1, ErrorWrites DEF RecordError
    <2>2. RequestTypes'
      BY <1>2, <1>5, GoesIdle DEF FailPlain, FailQuota, Done, listVars
    <2> QED BY <1>3, <2>1, <2>2 DEF modelVars
  <1>6. CASE FailCap(r)
    <2> DEFINE q == [req[r] EXCEPT !.pc = "capped"]
    <2>1. ErrorTypes' /\ UNCHANGED <<modelVars, turns>>
      BY <1>1, <1>6, ErrorWrites DEF FailCap, RecordError
    <2>2. q \in Request /\ q.pc = "capped" /\ q.got = req[r].got
      BY <1>0 DEF Request
    <2>3. req' = [req EXCEPT ![r] = q] /\ HasAccount(q)
      BY <1>0, <1>6, <2>2 DEF FailCap, HasAccount
    <2> HIDE DEF q
    <2>4. RequestTypes'
      BY <1>2, <2>2, <2>3, MovesTypes DEF listVars
    <2> QED BY <1>3, <2>1, <2>4 DEF modelVars
  <1>7. ASSUME NEW ahead \in CapResets, SetCooldown(r, ahead)
        PROVE  Inv'
    <2>1. now + ahead \in Nat
      BY <1>0, PoolAssumption
    <2>2. ErrorTypes'
      BY <1>1, <1>7, <2>1 DEF SetCooldown, ErrorTypes, Inv, TypeOK
    <2>3. RequestTypes'
      BY <1>2, <1>7, GoesIdle DEF SetCooldown, Done, listVars
    <2> QED BY <1>3, <1>7, <2>2, <2>3 DEF SetCooldown, modelVars
  <1>8. CASE DenyModel(r)
    <2> DEFINE q == [req[r] EXCEPT !.pc = "rejected"]
    <2>1. q \in Request /\ q.pc = "rejected" /\ q.got = req[r].got
      BY <1>0 DEF Request
    <2>2. req' = [req EXCEPT ![r] = q] /\ HasAccount(q)
      BY <1>0, <1>8, <2>1 DEF DenyModel, HasAccount
    <2> HIDE DEF q
    <2>3. RequestTypes'
      BY <1>2, <2>1, <2>2, MovesTypes DEF listVars
    <2>4. modelDenies' \in [Accounts -> SUBSET Models]
      <3>1. req[r].model \in Models
        BY <1>0 DEF Request
      <3> QED BY <1>1, <1>8, <3>1 DEF DenyModel, Inv, TypeOK
    <2>5. turns' \in [Accounts -> Nat]
      BY <1>8, NoTurnsType DEF DenyModel
    <2>6. UNCHANGED errorVars
      BY <1>8 DEF DenyModel
    <2>7. ListTypes'
      <3>1. ListTypes
        BY Parts
      <3> QED BY <1>2, <2>4, <3>1 DEF ListTypes, confVars, listVars
    <2> QED BY <1>2, <2>3, <2>5, <2>6, <2>7, Parts, ErrorFrame, OtherFrame
  <1> QED BY <1>4, <1>5, <1>6, <1>7, <1>8 DEF Outcome

\* Nothing else moves a request, and only Reload changes the list, while no one
\* walks it.
LEMMA EnvironmentKeeps ==
    ASSUME Inv, Environment \/ Tick
    PROVE  Inv'
  <1>1. ListTypes /\ OtherTypes /\ NoTurns \in [Accounts -> Nat]
    BY Parts, NoTurnsType
  <1>2. ASSUME NEW a \in Accounts, NEW list \in ModelLists, SetModelList(a, list)
        PROVE  Inv'
    <2>1. list \in SUBSET Models
      BY PoolAssumption
    <2>2. ListTypes'
      BY <1>1, <1>2, <2>1 DEF SetModelList, ListTypes, confVars, listVars
    <2>3. RequestTypes' /\ ErrorTypes' /\ OtherTypes'
      BY <1>1, <1>2, RequestFrame, ErrorFrame, OtherFrame DEF SetModelList, listVars
    <2> QED BY <2>2, <2>3, Parts
  <1>3. ASSUME NEW a \in Accounts, ClearModelDenies(a) \/ UpdateToken(a) \/ TokenAges(a)
        PROVE  Inv'
    <2>1. RequestTypes' /\ ErrorTypes'
      BY <1>3, RequestFrame, ErrorFrame DEF ClearModelDenies, UpdateToken, TokenAges, listVars
    <2>2. CASE ClearModelDenies(a)
      <3>1. ListTypes' /\ OtherTypes'
        BY <1>1, <2>2, OtherFrame DEF ClearModelDenies, ListTypes, confVars, listVars
      <3> QED BY <2>1, <3>1, Parts
    <2>3. CASE UpdateToken(a) \/ TokenAges(a)
      <3>1. ListTypes'
        BY <2>3, ListFrame DEF UpdateToken, TokenAges
      <3>2. OtherTypes'
        BY <1>1, <2>3 DEF UpdateToken, TokenAges, OtherTypes
      <3> QED BY <2>1, <3>1, <3>2, Parts
    <2> QED BY <1>3, <2>2, <2>3
  <1>4. ASSUME NEW a \in Accounts, NEW record \in Records[a], Configure(a, record)
        PROVE  Inv'
    <2>1. record \in AccountRecord
      BY PoolAssumption
    <2>2. ListTypes'
      BY <1>1, <1>4, <2>1 DEF Configure, ListTypes, listVars, modelVars
    <2>3. RequestTypes' /\ ErrorTypes' /\ OtherTypes'
      BY <1>4, RequestFrame, ErrorFrame, OtherFrame DEF Configure, listVars
    <2> QED BY <2>2, <2>3, Parts
  <1>5. ASSUME NEW b \in OverUsage, SetAllowOverUsage(b)
        PROVE  Inv'
    <2>1. b \in BOOLEAN
      BY PoolAssumption
    <2>2. ListTypes'
      BY <1>1, <1>5, <2>1 DEF SetAllowOverUsage, ListTypes, listVars, modelVars
    <2>3. RequestTypes' /\ ErrorTypes' /\ OtherTypes'
      BY <1>5, RequestFrame, ErrorFrame, OtherFrame DEF SetAllowOverUsage, listVars
    <2> QED BY <2>2, <2>3, Parts
  <1>6. CASE Reload
    <2>1. accounts' \in Seq(Entry)
      BY <1>1, <1>6, WeightedType DEF Reload, ListTypes
    <2>2. enabledModels' \in [Accounts -> (SUBSET Models) \cup {NoList}]
      BY <1>1, <1>6 DEF Reload, EnabledModelsOf, ListTypes, AccountRecord
    <2>3. ListTypes'
      BY <1>1, <1>6, <2>1, <2>2 DEF Reload, ListTypes, confVars, modelVars
    <2>4. RequestTypes'
      <3>1. RequestTypes
        BY Parts
      <3> QED BY <1>6, <3>1 DEF Reload, Locked, RequestTypes, ProbingInv, HasAccount
    <2>5. ErrorTypes' /\ OtherTypes'
      BY <1>1, <1>6, ErrorFrame, OtherFrame DEF Reload
    <2> QED BY <2>3, <2>4, <2>5, Parts
  <1>7. CASE Tick
    <2>1. RequestTypes' /\ ListTypes' /\ ErrorTypes'
      BY <1>7, RequestFrame, ListFrame, ErrorFrame DEF Tick, listVars
    <2>2. OtherTypes'
      BY <1>1, <1>7 DEF Tick, OtherTypes
    <2> QED BY <2>1, <2>2, Parts
  <1> QED BY <1>2, <1>3, <1>4, <1>5, <1>6, <1>7, PoolAssumption DEF Environment

LEMMA InitInv == Init => Inv
  <1> SUFFICES ASSUME Init PROVE Inv
    OBVIOUS
  <1>1. conf \in [Accounts -> AccountRecord]
    BY DEF Init, AccountRecord
  <1>2. ListTypes
    BY <1>1, WeightedType, PoolAssumption DEF Init, ListTypes
  <1>3. ErrorTypes
    BY DEF Init, ErrorTypes
  <1>4. RequestTypes
    BY IdleIsRequest DEF Init, RequestTypes, ProbingInv, HasAccount
  <1>5. OtherTypes
    BY PoolAssumption, NoTurnsType DEF Init, OtherTypes
  <1> QED BY <1>2, <1>3, <1>4, <1>5, Parts

LEMMA Invariance == Spec => []Inv
  <1>1. Inv /\ [Next]_vars => Inv'
    <2>1. CASE UNCHANGED vars
      BY <2>1, Parts, ListFrame, ErrorFrame, RequestFrame, OtherFrame DEF vars, listVars
    <2> QED BY <2>1, SelectKeeps, OutcomeKeeps, EnvironmentKeeps DEF Next
  <1> QED BY <1>1, InitInv, PTL DEF Spec

\* Every reachable state has the shape the code gives it: whatever the lists hold, and
\* whichever reloads come between selection and outcome.
THEOREM TypeCorrect == Spec => []TypeOK
  <1>1. Inv => TypeOK
    BY DEF Inv
  <1> QED BY <1>1, Invariance, PTL

-----------------------------------------------------------------------------
(* How a request comes to hold an account. *)

LEMMA HowPicked ==
    ASSUME Inv, Next, NEW r \in Requests, Picks(r)
    PROVE  \/ /\ req[r].pc = "probing"
              /\ \E i \in DOMAIN accounts : /\ req'[r].got = accounts[i].id
                                            /\ Routable(r, accounts[i], req[r].at)
           \/ /\ req[r].pc = "idle"
              /\ \E m \in Models, barred \in Barred, a \in Accounts :
                    PickPinned(r, m, barred, a) /\ req'[r].got = a
           \/ /\ req[r].pc = "probing" /\ Fallback(r)
              /\ FallbackChoice(r) # NoAccount /\ req'[r].got = FallbackChoice(r)
  <1>0. req = [s \in Requests |-> req[s]] /\ (\A s \in Requests : req[s] \in Request)
        /\ req[r].pc # "picked" /\ req'[r].pc = "picked"
    BY DEF Inv, TypeOK, Picks
  <1>1. ASSUME NEW s \in Requests, NEW q, req' = [req EXCEPT ![s] = q]
        PROVE  s = r /\ req'[r] = q /\ q.pc = "picked"
    BY <1>0, <1>1
  <1>2. ASSUME req' = req
        PROVE  FALSE
    BY <1>0, <1>2
  <1>3. ASSUME NEW s \in Requests, req' = [req EXCEPT ![s] = Idle]
        PROVE  FALSE
    BY <1>1, <1>3, IdleIsRequest
  <1>4. ASSUME NEW s \in Requests, NEW pc, pc # "picked", req' = [req EXCEPT ![s].pc = pc]
        PROVE  FALSE
    <2>1. [req[s] EXCEPT !.pc = pc].pc = pc
      BY <1>0 DEF Request
    <2> QED BY <1>1, <1>4, <2>1
  <1>5. ASSUME Environment \/ Tick
        PROVE  FALSE
    BY <1>2, <1>5 DEF Environment, Tick, SetModelList, ClearModelDenies, UpdateToken, TokenAges,
                      Configure, SetAllowOverUsage, Reload
  <1>6. ASSUME NEW s \in Requests, Outcome(s)
        PROVE  FALSE
    BY <1>3, <1>4, <1>6 DEF Outcome, RecordSuccess, FailPlain, FailQuota, FailCap, SetCooldown,
                            DenyModel, Done
  <1>7. ASSUME NEW s \in Requests, NEW m \in Models, NEW barred \in Barred, Begin(s, m, barred)
        PROVE  FALSE
    <2> DEFINE q == [Idle EXCEPT !.pc = "probing", !.model = m, !.barred = barred,
                                 !.left = Len(accounts), !.at = now, !.allow = allowOverUsage]
    <2>1. q.pc = "probing"
      BY DEF Idle
    <2> HIDE DEF q
    <2>2. req' = [req EXCEPT ![s] = q]
      BY <1>7 DEF Begin, q
    <2> QED BY <1>1, <2>1, <2>2
  <1>8. ASSUME NEW s \in Requests, NEW m \in Models, NEW barred \in Barred, NEW a \in Accounts,
               PickPinned(s, m, barred, a)
        PROVE  s = r /\ req[r].pc = "idle" /\ req'[r].got = a
    <2>1. req' = [req EXCEPT ![s] = Holding(a, m)] /\ req[s].pc = "idle"
      BY <1>8 DEF PickPinned
    <2>2. s = r /\ req'[r] = Holding(a, m)
      BY <1>1, <2>1
    <2>3. Holding(a, m).got = a
      BY IdleIsRequest
    <2> QED BY <2>1, <2>2, <2>3
  <1>9. ASSUME NEW s \in Requests, Probe(s)
        PROVE  /\ req[r].pc = "probing"
               /\ \E i \in DOMAIN accounts : /\ req'[r].got = accounts[i].id
                                             /\ Routable(r, accounts[i], req[r].at)
    <2> DEFINE idx == (currentIndex + 1) % IndexBound
               i == (idx % Len(accounts)) + 1
               acc == accounts[i]
               later == [req[s] EXCEPT !.seen = @ \cup {acc.id}, !.left = @ - 1]
    <2>1. idx \in Nat /\ accounts # <<>> /\ req[s].model \in Models /\ req[s].pc = "probing"
      <3>1. idx \in Nat
        BY PoolAssumption DEF Inv, TypeOK
      <3> HIDE DEF idx
      <3> QED BY <1>0, <1>9, <3>1 DEF Probe, Inv, ProbingInv, Request
    <2>2. i \in DOMAIN accounts
      <3> HIDE DEF idx
      <3> QED BY <2>1, ProbedEntry
    <2>3. acc.id \in Accounts
      <3> HIDE DEF i
      <3> QED BY <2>2, EntryType
    <2>4. \/ /\ Routable(s, acc, req[s].at)
             /\ req' = [req EXCEPT ![s] = Holding(acc.id, req[s].model)]
          \/ req' = [req EXCEPT ![s] = later]
      BY <1>9 DEF Probe
    <2>5. later.pc = "probing"
      BY <1>0, <2>1 DEF Request
    <2> HIDE DEF i, later
    <2>6. req' # [req EXCEPT ![s] = later]
      BY <1>1, <2>5
    <2>7. /\ Routable(s, acc, req[s].at)
          /\ req' = [req EXCEPT ![s] = Holding(acc.id, req[s].model)]
      BY <2>4, <2>6
    <2>8. s = r /\ req'[r] = Holding(acc.id, req[s].model)
      BY <1>1, <2>7
    <2>9. req'[r].got = acc.id
      BY <2>1, <2>3, <2>8, IdleIsRequest
    <2> QED BY <2>1, <2>2, <2>7, <2>8, <2>9
  <1>10. ASSUME NEW s \in Requests, Fallback(s)
         PROVE  /\ req[r].pc = "probing" /\ Fallback(r)
                /\ FallbackChoice(r) # NoAccount /\ req'[r].got = FallbackChoice(r)
    <2>1. FallbackChoice(s) # NoAccount
      BY <1>3, <1>10 DEF Fallback
    <2>2. req' = [req EXCEPT ![s] = Holding(FallbackChoice(s), req[s].model)]
      BY <1>10, <2>1 DEF Fallback
    <2>3. s = r /\ req'[r] = Holding(FallbackChoice(s), req[s].model)
      BY <1>1, <2>2
    <2>4. FallbackChoice(s) \in Accounts /\ req[s].model \in Models
      BY <1>0, <2>1, FallbackFrom, EntryType DEF Request
    <2>5. req'[r].got = FallbackChoice(r)
      BY <2>3, <2>4, IdleIsRequest
    <2> QED BY <1>10, <2>1, <2>3, <2>5 DEF Fallback
  <1> QED BY <1>5, <1>6, <1>7, <1>8, <1>9, <1>10 DEF Next, Select

\* Taking the leave back works at once, on any list.
THEOREM QuotaIsKept == Spec => OverQuotaNeedsLeave
  <1> DEFINE Kept ==
        \A r \in Requests :
            LET allow == IF req[r].pc = "probing" THEN req[r].allow ELSE allowOverUsage
            IN  Picks(r) /\ ~allow =>
                  \E i \in DOMAIN accounts : accounts[i].id = req'[r].got /\ ~accounts[i].overLimit
  <1>1. ASSUME Inv, Next
        PROVE  Kept
    <2> SUFFICES ASSUME NEW r \in Requests, Picks(r),
                        ~(IF req[r].pc = "probing" THEN req[r].allow ELSE allowOverUsage)
                 PROVE  \E i \in DOMAIN accounts :
                            accounts[i].id = req'[r].got /\ ~accounts[i].overLimit
      OBVIOUS
    <2>1. CASE /\ req[r].pc = "probing"
               /\ \E i \in DOMAIN accounts : /\ req'[r].got = accounts[i].id
                                             /\ Routable(r, accounts[i], req[r].at)
      BY <2>1 DEF Routable, Usable, QuotaBlocked
    <2>2. CASE /\ req[r].pc = "idle"
               /\ \E m \in Models, barred \in Barred, a \in Accounts :
                     PickPinned(r, m, barred, a) /\ req'[r].got = a
      BY <2>2 DEF PickPinned, QuotaBlocked
    <2>3. CASE /\ req[r].pc = "probing" /\ Fallback(r)
               /\ FallbackChoice(r) # NoAccount /\ req'[r].got = FallbackChoice(r)
      <3>1. \E i \in DOMAIN accounts : FallbackChoice(r) = accounts[i].id /\ Usable(r, accounts[i])
        BY <1>1, <2>3, FallbackFrom
      <3> QED BY <2>3, <3>1 DEF Usable, QuotaBlocked
    <2> QED BY <1>1, <2>1, <2>2, <2>3, HowPicked
  <1>2. Inv /\ [Next]_vars => [Kept]_vars
    BY <1>1
  <1> QED BY <1>2, Invariance, PTL DEF Spec, OverQuotaNeedsLeave

\* The fallback takes a cooling account only if there is no other.
THEOREM CoolingComesLast == Spec => CoolingIsLastResort
  <1> DEFINE Last ==
        \A r \in Requests : Picks(r) =>
            LET at == TimeOf(r)
            IN  Cooling(req'[r].got, at) =>
                  \A i \in DOMAIN accounts : Usable(r, accounts[i]) => Cooling(accounts[i].id, at)
  <1>1. ASSUME Inv, Next
        PROVE  Last
    <2> SUFFICES ASSUME NEW r \in Requests, Picks(r), Cooling(req'[r].got, TimeOf(r)),
                        NEW j \in DOMAIN accounts, Usable(r, accounts[j])
                 PROVE  Cooling(accounts[j].id, TimeOf(r))
      OBVIOUS
    <2>1. CASE /\ req[r].pc = "probing"
               /\ \E i \in DOMAIN accounts : /\ req'[r].got = accounts[i].id
                                             /\ Routable(r, accounts[i], req[r].at)
      BY <2>1 DEF Routable, TimeOf
    <2>2. CASE /\ req[r].pc = "idle"
               /\ \E m \in Models, barred \in Barred, a \in Accounts :
                     PickPinned(r, m, barred, a) /\ req'[r].got = a
      BY <2>2 DEF PickPinned, TimeOf
    <2>3. CASE /\ req[r].pc = "probing" /\ Fallback(r)
               /\ FallbackChoice(r) # NoAccount /\ req'[r].got = FallbackChoice(r)
      <3>1. PICK i \in DOMAIN accounts :
                /\ FallbackChoice(r) = accounts[i].id
                /\ \/ cooldowns[accounts[i].id] = 0
                   \/ /\ cooldowns[accounts[j].id] # 0
                      /\ cooldowns[accounts[i].id] <= cooldowns[accounts[j].id]
        BY <1>1, <2>3, FallbackFrom
      <3>2. /\ cooldowns[accounts[i].id] \in Nat /\ cooldowns[accounts[j].id] \in Nat
            /\ TimeOf(r) \in Nat
        BY <1>1, EntryType DEF TimeOf, Inv, TypeOK, Request
      <3> QED BY <2>3, <3>1, <3>2 DEF Cooling
    <2> QED BY <1>1, <2>1, <2>2, <2>3, HowPicked
  <1>2. Inv /\ [Next]_vars => [Last]_vars
    BY <1>1
  <1> QED BY <1>2, Invariance, PTL DEF Spec, CoolingIsLastResort

-----------------------------------------------------------------------------
(* Three failures. *)

\* Whatever shortens or lengthens a cooldown leaves that of an account that failed
\* three times running at ErrorCooldown or more from the last failure.
RestInv ==
    \A a \in Accounts :
        /\ lastStrike[a] <= now
        /\ errorCounts[a] = 3 => cooldowns[a] >= lastStrike[a] + ErrorCooldown

LEMMA StepKeepsRest ==
    ASSUME Inv, RestInv, [Next]_vars
    PROVE  RestInv'
  <1>0. /\ now \in Nat /\ lastStrike \in [Accounts -> Nat] /\ cooldowns \in [Accounts -> Nat]
        /\ errorCounts \in [Accounts -> 0..3]
        /\ ErrorCooldown \in Nat /\ QuotaCooldown \in Nat /\ QuotaCooldown > ErrorCooldown
    BY PoolAssumption DEF Inv, TypeOK
  <1>1. ASSUME UNCHANGED errorVars, now' = now \/ now' = now + 1
        PROVE  RestInv'
    BY <1>0, <1>1 DEF RestInv, errorVars
  <1>2. ASSUME NEW b \in Accounts, NEW quota \in BOOLEAN, RecordError(b, quota)
        PROVE  RestInv'
    <2>1. UNCHANGED now
      BY <1>2 DEF RecordError
    <2>2. ASSUME NEW a \in Accounts
          PROVE  /\ lastStrike'[a] <= now
                 /\ errorCounts'[a] = 3 => cooldowns'[a] >= lastStrike'[a] + ErrorCooldown
      <3>1. CASE a # b
        BY <1>0, <1>2, <3>1 DEF RecordError, RestInv
      <3>2. CASE a = b
        <4>1. lastStrike'[a] = now /\ cooldowns'[a] = CooldownAfter(a, quota)
          BY <1>0, <1>2, <3>2 DEF RecordError
        <4>2. errorCounts'[a] = 3 => errorCounts[a] + 1 >= 3
          BY <1>0, <1>2, <3>2 DEF RecordError
        <4> QED BY <1>0, <4>1, <4>2 DEF CooldownAfter
      <3> QED BY <3>1, <3>2
    <2> QED BY <2>1, <2>2 DEF RestInv
  <1>3. ASSUME NEW r \in Requests, RecordSuccess(r)
        PROVE  RestInv'
    <2>1. req[r].got \in Accounts /\ UNCHANGED now
      BY <1>3, HeldType DEF RecordSuccess
    <2> QED BY <1>0, <1>3, <2>1 DEF RecordSuccess, RestInv
  <1>4. ASSUME NEW r \in Requests, NEW ahead \in CapResets, SetCooldown(r, ahead)
        PROVE  RestInv'
    <2>1. req[r].got \in Accounts /\ UNCHANGED now
      BY <1>4, HeldType DEF SetCooldown
    <2>2. ahead \in Nat /\ ahead > ErrorCooldown
      BY PoolAssumption
    <2> QED BY <1>0, <1>4, <2>1, <2>2 DEF SetCooldown, RestInv
  <1>5. ASSUME NEW r \in Requests, FailPlain(r) \/ FailQuota(r) \/ FailCap(r)
        PROVE  RestInv'
    <2>1. req[r].got \in Accounts
      BY <1>5, HeldType DEF FailPlain, FailQuota, FailCap
    <2>2. \E quota \in BOOLEAN : RecordError(req[r].got, quota)
      BY <1>5 DEF FailPlain, FailQuota, FailCap
    <2> QED BY <1>2, <2>1, <2>2
  <1>6. ASSUME NEW r \in Requests, DenyModel(r) \/ Select(r)
        PROVE  RestInv'
    BY <1>1, <1>6 DEF DenyModel, Select, Begin, PickPinned, Probe, Fallback
  <1>7. ASSUME Environment \/ Tick \/ UNCHANGED vars
        PROVE  RestInv'
    BY <1>1, <1>7 DEF Environment, Tick, vars, SetModelList, ClearModelDenies, UpdateToken,
                      TokenAges, Configure, SetAllowOverUsage, Reload
  <1> QED BY <1>3, <1>4, <1>5, <1>6, <1>7 DEF Next, Outcome

\* An account that failed three times running is left alone for ErrorCooldown, but
\* for the fallback, with any number of requests failing and succeeding on it.
THEOREM ThreeFailuresRest == Spec => RestAfterThreeFailures
  <1> DEFINE Rested ==
        \A r \in Requests : Picks(r) /\ ~Fallback(r) =>
            LET a == req'[r].got
            IN  errorCounts[a] = 3 => TimeOf(r) >= lastStrike[a] + ErrorCooldown
  <1>1. ASSUME Inv, RestInv, Next
        PROVE  Rested
    <2> SUFFICES ASSUME NEW r \in Requests, Picks(r), ~Fallback(r), errorCounts[req'[r].got] = 3
                 PROVE  TimeOf(r) >= lastStrike[req'[r].got] + ErrorCooldown
      OBVIOUS
    <2>1. req'[r].got \in Accounts /\ ~Cooling(req'[r].got, TimeOf(r))
      <3>1. CASE /\ req[r].pc = "probing"
                 /\ \E i \in DOMAIN accounts : /\ req'[r].got = accounts[i].id
                                               /\ Routable(r, accounts[i], req[r].at)
        BY <1>1, <3>1, EntryType DEF Routable, TimeOf
      <3>2. CASE /\ req[r].pc = "idle"
                 /\ \E m \in Models, barred \in Barred, a \in Accounts :
                       PickPinned(r, m, barred, a) /\ req'[r].got = a
        BY <3>2 DEF PickPinned, TimeOf
      <3> QED BY <1>1, <3>1, <3>2, HowPicked
    <2> DEFINE a == req'[r].got
    <2>2. /\ TimeOf(r) \in Nat /\ cooldowns[a] \in Nat /\ lastStrike[a] \in Nat
          /\ ErrorCooldown \in Nat \ {0}
      BY <1>1, <2>1, PoolAssumption DEF TimeOf, Inv, TypeOK, Request
    <2>3. cooldowns[a] >= lastStrike[a] + ErrorCooldown
      BY <1>1, <2>1 DEF RestInv
    <2> QED BY <2>1, <2>2, <2>3 DEF Cooling
  <1>2. Inv /\ RestInv /\ [Next]_vars => [Rested]_vars
    BY <1>1
  <1>3. Init => RestInv
    BY PoolAssumption DEF Init, RestInv
  <1> QED BY <1>2, <1>3, StepKeepsRest, Invariance, PTL DEF Spec, RestAfterThreeFailures

-----------------------------------------------------------------------------
(* Rejected models. *)

\* A rejection outlives every refresh of the catalog that returns one.
THEOREM RejectionsLast == Spec => RejectionLasts
  <1> DEFINE Lasts ==
        \A a \in Accounts : \A m \in modelDenies[a] : m \notin modelDenies'[a] =>
            /\ modelDenies'[a] = {}
            /\ modelLists'[a] # {} => modelLists' = modelLists
  <1>1. ASSUME Inv, Next
        PROVE  Lasts
    <2>0. /\ modelDenies = [a \in Accounts |-> modelDenies[a]]
          /\ modelLists = [a \in Accounts |-> modelLists[a]]
      BY <1>1 DEF Inv, TypeOK
    <2>1. ASSUME UNCHANGED modelDenies
          PROVE  Lasts
      BY <2>1
    <2>2. ASSUME NEW r \in Requests, DenyModel(r)
          PROVE  Lasts
      <3>1. \A a \in Accounts : modelDenies[a] \subseteq modelDenies'[a]
        BY <2>0, <2>2 DEF DenyModel
      <3> QED BY <3>1
    <2>3. ASSUME NEW b \in Accounts, NEW list \in ModelLists, SetModelList(b, list)
          PROVE  Lasts
      BY <2>0, <2>3 DEF SetModelList
    <2>4. ASSUME NEW b \in Accounts, ClearModelDenies(b)
          PROVE  Lasts
      BY <2>0, <2>4 DEF ClearModelDenies
    <2>5. ASSUME NEW r \in Requests, Select(r)
          PROVE  Lasts
      BY <2>1, <2>5 DEF Select, Begin, PickPinned, Probe, Fallback, modelVars
    <2>6. ASSUME NEW r \in Requests, Outcome(r), ~DenyModel(r)
          PROVE  Lasts
      BY <2>1, <2>6 DEF Outcome, RecordSuccess, FailPlain, FailQuota, FailCap, SetCooldown,
                        RecordError, modelVars
    <2>7. ASSUME \/ \E a \in Accounts : UpdateToken(a) \/ (\E record \in Records[a] : Configure(a, record))
                 \/ \E a \in Expiring : TokenAges(a)
                 \/ \E b \in OverUsage : SetAllowOverUsage(b)
                 \/ Reload \/ Tick
          PROVE  Lasts
      BY <2>1, <2>7 DEF UpdateToken, Configure, TokenAges, SetAllowOverUsage, Reload, Tick,
                        modelVars
    <2> HIDE DEF Lasts
    <2> QED BY <1>1, <2>2, <2>3, <2>4, <2>5, <2>6, <2>7 DEF Next, Environment
  <1>2. Inv /\ [Next]_vars => [Lasts]_vars
    BY <1>1
  <1> QED BY <1>2, Invariance, PTL DEF Spec, RejectionLasts

-----------------------------------------------------------------------------
(* Rounds. *)

\* Where the counter stands in the list.
Pos == currentIndex % Len(accounts)

\* The entries the counter went by in its last n steps.
Passed(n) ==
    {i \in DOMAIN accounts : \/ Pos - n < i - 1 /\ i - 1 <= Pos
                             \/ Pos + Len(accounts) - n < i - 1}

\* The entries of an account.
Places(a) == {i \in DOMAIN accounts : accounts[i].id = a}

\* A list holds the accounts that are on it with their full weight.
WeightInv ==
    /\ Len(accounts) <= Len(Slots)
    /\ \A a \in Accounts : Places(a) # {} => Cardinality(Places(a)) = Weight(a)

\* The picks of a round are the entries the counter went by, each once.
TurnInv ==
    /\ Dealt(turns) <= Len(accounts)
    /\ \A a \in Accounts : turns[a] = Cardinality(Places(a) \cap Passed(Dealt(turns)))

RoundInv == WeightInv /\ TurnInv

\* Quotient and remainder.
LEMMA DivMod ==
    ASSUME NEW n \in Nat \ {0}, NEW x \in Nat
    PROVE  /\ x \div n \in Nat /\ x % n \in 0..(n - 1)
           /\ x = n * (x \div n) + (x % n)
  OBVIOUS

LEMMA Remainder ==
    ASSUME NEW n \in Nat \ {0}, NEW q \in Int, NEW r \in 0..(n - 1), (n * q) + r \in Nat
    PROVE  ((n * q) + r) % n = r
  OBVIOUS

\* A counter that wraps at a multiple of n goes round n places without a jump.
LEMMA NextPlace ==
    ASSUME NEW n \in Nat \ {0}, NEW m \in Nat \ {0}, m % n = 0, NEW x \in 0..(m - 1)
    PROVE  ((x + 1) % m) % n = IF x % n = n - 1 THEN 0 ELSE (x % n) + 1
  <1> DEFINE q == x \div n
             r == x % n
  <1>1. q \in Nat /\ r \in 0..(n - 1) /\ x = (n * q) + r
    <2>1. x \in Nat
      OBVIOUS
    <2> QED BY <2>1, DivMod
  <1> HIDE DEF q, r
  <1>2. (x + 1) % n = IF r = n - 1 THEN 0 ELSE r + 1
    <2>1. CASE r = n - 1
      <3>1. x + 1 = (n * (q + 1)) + 0
        BY <1>1, <2>1
      <3> QED BY <1>1, <2>1, <3>1, Remainder
    <2>2. CASE r # n - 1
      <3>1. x + 1 = (n * q) + (r + 1) /\ r + 1 \in 0..(n - 1)
        BY <1>1, <2>2
      <3> QED BY <1>1, <2>2, <3>1, Remainder
    <2> QED BY <2>1, <2>2
  <1>3. CASE x + 1 < m
    <2>1. (x + 1) % m = x + 1
      BY <1>3
    <2> QED BY <1>2, <2>1 DEF r
  <1>4. CASE x + 1 = m
    <2>1. (x + 1) % m = 0 /\ 0 % n = 0
      BY <1>4
    <2> QED BY <1>2, <1>4, <2>1 DEF r
  <1> QED BY <1>3, <1>4

\* The slots of an account among the first n.
SlotsOf(a, n) == {i \in 1..n : Slots[i] = a}

\* What the list that is built from the slots holds of each account.
LEMMA WeightedHolds ==
    ASSUME conf \in [Accounts -> AccountRecord]
    PROVE  /\ Len(Weighted) <= Len(Slots)
           /\ \A a \in Accounts :
                 LET P == {i \in DOMAIN Weighted : Weighted[i].id = a}
                 IN  P # {} => Cardinality(P) = Weight(a)
  <1> DEFINE m == Len(Slots)
             W(n) == ListedUpTo[n]
             P(n, a) == {i \in DOMAIN W(n) : W(n)[i].id = a}
             Holds(n) == /\ W(n) \in Seq(Entry)
                         /\ Len(W(n)) <= n
                         /\ \A a \in Accounts :
                               /\ IsFiniteSet(P(n, a)) /\ IsFiniteSet(SlotsOf(a, n))
                               /\ Cardinality(P(n, a)) = IF InList(a) THEN Cardinality(SlotsOf(a, n)) ELSE 0
             Bad == {n \in 0..m : ~Holds(n)}
  <1>1. m \in Nat /\ \A i \in 1..m : Slots[i] \in Accounts
    BY PoolAssumption, LenProperties, ElementOfSeq
  <1>2. Builds(ListedUpTo, m)
    <2>1. \E f : Builds(f, m)
      BY <1>1, BuildsExists
    <2> QED BY <2>1 DEF ListedUpTo, Builds
  <1>3. Bad = {}
    <2>1. SUFFICES ASSUME Bad # {} PROVE FALSE
      OBVIOUS
    <2>2. PICK n \in Bad : \A y \in Bad : n <= y
      <3>1. Bad \subseteq Nat
        BY <1>1
      <3> HIDE DEF Bad
      <3> QED BY <2>1, <3>1, Smallest
    <2>3. n \in 0..m /\ ~Holds(n)
      BY <2>2
    <2> HIDE DEF Holds
    <2>4. W(n) = IF n = 0 THEN <<>>
                 ELSE IF InList(Slots[n])
                        THEN Append(W(n - 1), [id |-> Slots[n], overLimit |-> conf[Slots[n]].overLimit])
                        ELSE W(n - 1)
      BY <1>2, <2>3 DEF Builds
    <2>5. CASE n = 0
      <3>1. W(n) = <<>> /\ W(n) \in Seq(Entry) /\ Len(W(n)) = 0 /\ DOMAIN W(n) = {}
        BY <2>4, <2>5, EmptySeq
      <3>2. \A a \in Accounts : P(n, a) = {} /\ SlotsOf(a, n) = {}
        BY <2>5, <3>1 DEF SlotsOf
      <3> HIDE DEF W, P
      <3>3. ASSUME NEW a \in Accounts
            PROVE  /\ IsFiniteSet(P(n, a)) /\ IsFiniteSet(SlotsOf(a, n))
                   /\ Cardinality(P(n, a)) = IF InList(a) THEN Cardinality(SlotsOf(a, n)) ELSE 0
        <4>1. P(n, a) = {} /\ SlotsOf(a, n) = {}
          BY <3>2
        <4> QED BY <4>1, FS_EmptySet
      <3>4. Len(W(n)) <= n
        BY <2>5, <3>1
      <3>5. Holds(n)
        BY <3>1, <3>3, <3>4 DEF Holds
      <3> QED BY <2>3, <3>5
    <2>6. CASE n # 0
      <3>1. n \in 1..m /\ n - 1 \in 0..m /\ n - 1 \notin Bad
        BY <1>1, <2>2, <2>3, <2>6
      <3>2. Holds(n - 1)
        BY <3>1
      <3> DEFINE e == [id |-> Slots[n], overLimit |-> conf[Slots[n]].overLimit]
                 s == W(n - 1)
      <3>3. e \in Entry /\ e.id = Slots[n] /\ Slots[n] \in Accounts
        BY <1>1, <3>1 DEF Entry, AccountRecord
      <3>4. s \in Seq(Entry) /\ Len(s) \in Nat /\ Len(s) <= n - 1 /\ DOMAIN s = 1..Len(s)
        <4>1. s \in Seq(Entry) /\ Len(s) <= n - 1
          BY <3>2 DEF Holds
        <4> HIDE DEF s
        <4> QED BY <4>1, LenProperties
      <3>5. ASSUME NEW a \in Accounts
            PROVE  /\ IsFiniteSet(SlotsOf(a, n))
                   /\ a # Slots[n] => SlotsOf(a, n) = SlotsOf(a, n - 1)
                   /\ a = Slots[n] => Cardinality(SlotsOf(a, n)) = Cardinality(SlotsOf(a, n - 1)) + 1
        <4>1. IsFiniteSet(SlotsOf(a, n - 1))
          BY <3>2 DEF Holds
        <4>2. a # Slots[n] => SlotsOf(a, n) = SlotsOf(a, n - 1)
          BY <3>1 DEF SlotsOf
        <4>3. CASE a = Slots[n]
          <5>1. SlotsOf(a, n) = SlotsOf(a, n - 1) \cup {n} /\ n \notin SlotsOf(a, n - 1)
            BY <3>1, <4>3 DEF SlotsOf
          <5> HIDE DEF SlotsOf
          <5> QED BY <4>1, <4>3, <5>1, FS_AddElement
        <4> QED BY <4>1, <4>2, <4>3
      <3>6. CASE InList(Slots[n])
        <4>1. W(n) = Append(s, e)
          BY <2>4, <2>6, <3>6
        <4>2. /\ W(n) \in Seq(Entry) /\ Len(W(n)) = Len(s) + 1
              /\ \A i \in 1..Len(s) : W(n)[i] = s[i]
              /\ W(n)[Len(s) + 1] = e /\ DOMAIN W(n) = 1..(Len(s) + 1)
          <5> HIDE DEF s, e, W
          <5>1. Append(s, e) \in Seq(Entry)
            BY <3>3, <3>4, AppendProperties
          <5> QED BY <3>3, <3>4, <4>1, <5>1, AppendProperties, LenProperties
        <4>3. ASSUME NEW a \in Accounts
              PROVE  /\ IsFiniteSet(P(n, a))
                     /\ Cardinality(P(n, a)) = IF InList(a) THEN Cardinality(SlotsOf(a, n)) ELSE 0
          <5>1. /\ IsFiniteSet(P(n - 1, a)) /\ IsFiniteSet(SlotsOf(a, n - 1))
                /\ Cardinality(P(n - 1, a)) = IF InList(a) THEN Cardinality(SlotsOf(a, n - 1)) ELSE 0
            BY <3>2 DEF Holds
          <5>2. P(n - 1, a) = {i \in 1..Len(s) : s[i].id = a}
            BY <3>4
          <5>3. P(n, a) = {i \in 1..(Len(s) + 1) : W(n)[i].id = a}
            BY <4>2
          <5>4. Len(s) + 1 \notin P(n - 1, a)
            BY <3>4, <5>2
          <5> HIDE DEF P, W, s, e
          <5>5. CASE a # Slots[n]
            <6>1. P(n, a) = P(n - 1, a)
              BY <3>3, <3>4, <4>2, <5>2, <5>3, <5>5
            <6> QED BY <3>5, <5>1, <5>5, <6>1
          <5>6. CASE a = Slots[n]
            <6>1. P(n, a) = P(n - 1, a) \cup {Len(s) + 1}
              BY <3>3, <3>4, <4>2, <5>2, <5>3, <5>6
            <6>2. IsFiniteSet(P(n, a)) /\ Cardinality(P(n, a)) = Cardinality(P(n - 1, a)) + 1
              BY <5>1, <5>4, <6>1, FS_AddElement
            <6> QED BY <3>5, <3>6, <5>1, <5>6, <6>2
          <5> QED BY <5>5, <5>6
        <4> HIDE DEF P, W, s, e
        <4>4. Holds(n)
          BY <3>1, <3>4, <3>5, <4>2, <4>3 DEF Holds
        <4> QED BY <2>3, <4>4
      <3>7. CASE ~InList(Slots[n])
        <4>1. W(n) = s
          BY <2>4, <2>6, <3>7
        <4>2. \A a \in Accounts : P(n, a) = P(n - 1, a)
          BY <4>1
        <4>3. \A a \in Accounts :
                 /\ IsFiniteSet(P(n - 1, a))
                 /\ Cardinality(P(n - 1, a)) = IF InList(a) THEN Cardinality(SlotsOf(a, n - 1)) ELSE 0
          BY <3>2 DEF Holds
        <4> HIDE DEF P, W, s, e
        <4>4. Holds(n)
          BY <3>1, <3>4, <3>5, <3>7, <4>1, <4>2, <4>3 DEF Holds
        <4> QED BY <2>3, <4>4
      <3> QED BY <3>6, <3>7
    <2> QED BY <2>5, <2>6
  <1>4. Holds(m)
    <2>1. m \in 0..m
      BY <1>1
    <2> HIDE DEF Holds, m
    <2> QED BY <1>3, <2>1
  <1>5. ASSUME NEW a \in Accounts, P(m, a) # {}
        PROVE  Cardinality(P(m, a)) = Weight(a)
    <2>1. IsFiniteSet(P(m, a)) /\ Cardinality(P(m, a)) = IF InList(a) THEN Cardinality(SlotsOf(a, m)) ELSE 0
      BY <1>4
    <2>2. SlotsOf(a, m) = {i \in DOMAIN Slots : Slots[i] = a}
      BY PoolAssumption, LenProperties DEF SlotsOf
    <2> HIDE DEF P
    <2> QED BY <1>5, <2>1, <2>2, FS_EmptySet DEF Weight
  <1> QED BY <1>4, <1>5 DEF Weighted

\* A pick is one more of its round.
LEMMA DealtMore ==
    ASSUME NEW t \in [Accounts -> Nat], NEW a \in Accounts, t[a] <= Len(Slots)
    PROVE  Dealt(t) \in Nat /\ Dealt([t EXCEPT ![a] = @ + 1]) = Dealt(t) + 1
  <1> DEFINE Pairs == Accounts \X (1..(Len(Slots) + 1))
             u == [t EXCEPT ![a] = @ + 1]
             S == {p \in Pairs : p[2] <= t[p[1]]}
             T == {p \in Pairs : p[2] <= u[p[1]]}
  <1>1. Len(Slots) \in Nat /\ DOMAIN Slots = 1..Len(Slots)
    BY PoolAssumption, LenProperties
  <1>2. IsFiniteSet(S)
    <2>1. IsFiniteSet(Accounts)
      <3>1. IsFiniteSet(DOMAIN Slots)
        BY <1>1, FS_Interval
      <3>2. Slots \in Surjection(DOMAIN Slots, Accounts)
        BY PoolAssumption, <1>1, LenProperties DEF Surjection, Accounts
      <3> QED BY <3>1, <3>2, FS_Surjection
    <2>2. IsFiniteSet(Pairs)
      <3>1. IsFiniteSet(1..(Len(Slots) + 1))
        BY <1>1, FS_Interval
      <3> QED BY <2>1, <3>1, FS_Product
    <2> HIDE DEF Pairs
    <2> QED BY <2>2, FS_Subset
  <1>3. T = S \cup {<<a, t[a] + 1>>} /\ <<a, t[a] + 1>> \notin S
    <2>1. /\ <<a, t[a] + 1>> \in Pairs
          /\ \A p \in Pairs : p = <<p[1], p[2]>> /\ p[1] \in Accounts /\ p[2] \in Nat
          /\ \A b \in Accounts : t[b] \in Nat /\ u[b] = IF b = a THEN t[b] + 1 ELSE t[b]
      BY <1>1
    <2> HIDE DEF Pairs, u
    <2>2. \A p \in Pairs : p \in T <=> (p \in S \/ p = <<a, t[a] + 1>>)
      BY <2>1
    <2>3. <<a, t[a] + 1>>[1] = a /\ <<a, t[a] + 1>>[2] = t[a] + 1 /\ t[a] \in Nat
      BY <2>1
    <2> QED BY <2>1, <2>2, <2>3
  <1>4. Dealt(t) = Cardinality(S) /\ Dealt(u) = Cardinality(T)
    BY DEF Dealt
  <1> HIDE DEF S, T
  <1> QED BY <1>2, <1>3, <1>4, FS_AddElement, FS_CardinalityType

\* A round that begins has had no pick.
LEMMA NoneDealt ==
    /\ Dealt(NoTurns) = 0
    /\ \A a \in Accounts : Dealt([NoTurns EXCEPT ![a] = 1]) = 1
  <1>1. Len(Slots) \in Nat
    BY PoolAssumption, LenProperties
  <1>2. {p \in Accounts \X (1..(Len(Slots) + 1)) : p[2] <= NoTurns[p[1]]} = {}
    <2>1. \A p \in Accounts \X (1..(Len(Slots) + 1)) : p[1] \in Accounts /\ p[2] \in 1..(Len(Slots) + 1)
      OBVIOUS
    <2> QED BY <1>1, <2>1 DEF NoTurns
  <1>3. Dealt(NoTurns) = 0
    BY <1>2, FS_EmptySet DEF Dealt
  <1>4. ASSUME NEW a \in Accounts
        PROVE  Dealt([NoTurns EXCEPT ![a] = 1]) = 1
    <2>1. [NoTurns EXCEPT ![a] = 1] = [NoTurns EXCEPT ![a] = @ + 1] /\ NoTurns[a] = 0
      BY DEF NoTurns
    <2>2. NoTurns[a] <= Len(Slots)
      BY <1>1, <2>1
    <2>3. Dealt([NoTurns EXCEPT ![a] = @ + 1]) = 0 + 1
      BY <1>3, <2>2, DealtMore, NoTurnsType
    <2> QED BY <2>1, <2>3
  <1> QED BY <1>3, <1>4

\* Where no step was taken no entry was passed.
LEMMA NonePassed ==
    ASSUME Inv
    PROVE  Passed(0) = {} /\ IsFiniteSet(DOMAIN accounts)
  <1>1. Len(accounts) \in Nat /\ DOMAIN accounts = 1..Len(accounts) /\ currentIndex \in Nat
    BY PoolAssumption, LenProperties DEF Inv, TypeOK
  <1>2. CASE Len(accounts) = 0
    BY <1>1, <1>2, FS_EmptySet DEF Passed
  <1>3. CASE Len(accounts) # 0
    <2>1. Pos \in 0..(Len(accounts) - 1)
      <3>1. Len(accounts) \in Nat \ {0}
        BY <1>1, <1>3
      <3> QED BY <1>1, <3>1, DivMod DEF Pos
    <2>2. IsFiniteSet(DOMAIN accounts)
      BY <1>1, FS_Interval
    <2>3. Passed(0) = {}
      BY <1>1, <1>3, <2>1 DEF Passed
    <2> QED BY <2>2, <2>3
  <1> QED BY <1>2, <1>3

\* A round that begins is fair so far.
LEMMA FreshRound == Inv /\ turns = NoTurns => TurnInv
  <1> SUFFICES ASSUME Inv, turns = NoTurns PROVE TurnInv
    OBVIOUS
  <1>1. Dealt(turns) = 0 /\ Passed(0) = {} /\ Len(accounts) \in Nat
    BY NoneDealt, NonePassed, LenProperties DEF Inv, TypeOK
  <1>2. \A a \in Accounts : turns[a] = 0 /\ Cardinality(Places(a) \cap Passed(0)) = 0
    BY <1>1, FS_EmptySet DEF NoTurns
  <1> QED BY <1>1, <1>2 DEF TurnInv

\* A pick in turn: the counter goes on by one entry, and that is the account's.
LEMMA PickInTurn ==
    ASSUME Inv, RoundInv, NEW idx, idx = (currentIndex + 1) % IndexBound, currentIndex' = idx,
           accounts # <<>>, UNCHANGED accounts,
           Turn(accounts[(idx % Len(accounts)) + 1].id)
    PROVE  RoundInv'
  <1> DEFINE L == Len(accounts)
             next(a) == [turns EXCEPT ![a] = @ + 1]
  <1>0. PICK n, i, a : n = Dealt(turns) /\ i = Pos' + 1 /\ a = accounts[i].id
    OBVIOUS
  <1>1. L \in Nat \ {0} /\ DOMAIN accounts = 1..L /\ L <= Len(Slots) /\ Len(Slots) \in Nat
    BY PoolAssumption, LenProperties, EmptySeq DEF Inv, TypeOK, RoundInv, WeightInv
  <1>2. Pos' = IF Pos = L - 1 THEN 0 ELSE Pos + 1
    <2>1. IndexBound % L = 0 /\ IndexBound \in Nat \ {0} /\ currentIndex \in 0..(IndexBound - 1)
      BY <1>1, PoolAssumption DEF Inv, TypeOK
    <2>2. Pos' = ((currentIndex + 1) % IndexBound) % L
      BY DEF Pos
    <2> HIDE DEF L
    <2>3. Pos' = IF currentIndex % L = L - 1 THEN 0 ELSE (currentIndex % L) + 1
      BY <1>1, <2>1, <2>2, NextPlace
    <2> QED BY <2>3 DEF Pos, L
  <1>3. Pos \in 0..(L - 1) /\ Pos' \in 0..(L - 1) /\ i \in 1..L
    <2>1. Pos \in 0..(L - 1)
      <3>1. currentIndex \in Nat
        BY PoolAssumption DEF Inv, TypeOK
      <3> QED BY <1>1, <3>1, DivMod DEF Pos
    <2> HIDE DEF L
    <2> QED BY <1>0, <1>1, <1>2, <2>1
  <1>4. a \in Accounts /\ Turn(a)
    <2>1. a \in Accounts
      BY <1>0, <1>1, <1>3, EntryType
    <2> QED BY <1>0, <2>1 DEF Pos
  <1>5. turns \in [Accounts -> Nat] /\ WeightInv'
    BY DEF Inv, TypeOK, RoundInv, WeightInv, Places
  <1>6. \A b \in Accounts : turns[b] = Cardinality(Places(b) \cap Passed(n))
    BY <1>0 DEF RoundInv, TurnInv
  <1>7. turns[a] <= Len(Slots)
    <2>1. IsFiniteSet(1..L) /\ Cardinality(1..L) = L
      <3> HIDE DEF L
      <3>1. Cardinality(1..L) = IF 1 > L THEN 0 ELSE L - 1 + 1
        BY <1>1, FS_Interval
      <3> QED BY <1>1, <3>1, FS_Interval
    <2>2. Places(a) \cap Passed(n) \in SUBSET (1..L)
      BY <1>1 DEF Places
    <2>3. turns[a] <= L /\ turns[a] \in Nat
      <3> HIDE DEF L
      <3> QED BY <1>4, <1>5, <1>6, <2>1, <2>2, FS_Subset
    <2> QED BY <1>1, <2>3
  <1>8. n \in Nat /\ n <= L /\ Dealt(next(a)) = n + 1
    <2>1. n <= L
      BY <1>0 DEF RoundInv, TurnInv
    <2> QED BY <1>0, <1>4, <1>5, <1>7, <2>1, DealtMore
  <1>9. CASE n + 1 > L
    <2>1. turns' = [NoTurns EXCEPT ![a] = 1]
      BY <1>4, <1>8, <1>9 DEF Turn
    <2>2. Dealt(turns)' = 1
      <3>1. Dealt(turns') = 1
        BY <1>4, <2>1, NoneDealt
      <3> QED BY <3>1 DEF Dealt
    <2>3. Passed(1)' = {i}
      <3>1. Passed(1)' = {j \in 1..L : \/ Pos' - 1 < j - 1 /\ j - 1 <= Pos'
                                      \/ Pos' + L - 1 < j - 1}
        BY <1>1 DEF Passed
      <3> HIDE DEF L
      <3> QED BY <1>0, <1>1, <1>3, <3>1
    <2>4. ASSUME NEW b \in Accounts
          PROVE  turns'[b] = Cardinality(Places(b)' \cap Passed(1)')
      <3>1. turns'[b] = IF b = a THEN 1 ELSE 0
        BY <2>1 DEF NoTurns
      <3>2. Places(b)' \cap Passed(1)' = IF b = a THEN {i} ELSE {}
        BY <1>0, <1>1, <1>3, <2>3 DEF Places
      <3> QED BY <3>1, <3>2, FS_EmptySet, FS_Singleton
    <2>5. TurnInv'
      BY <1>1, <2>2, <2>4 DEF TurnInv
    <2> QED BY <1>5, <2>5 DEF RoundInv
  <1>10. CASE n + 1 <= L
    <2>1. turns' = next(a)
      <3>1. ~(Dealt(next(a)) > L)
        BY <1>1, <1>8, <1>10
      <3> QED BY <1>4, <3>1 DEF Turn
    <2>2. Dealt(turns)' = n + 1
      BY <1>8, <2>1 DEF Dealt
    <2>3. Passed(n + 1)' = Passed(n) \cup {i} /\ i \notin Passed(n)
      <3>1. Passed(n) = {j \in 1..L : \/ Pos - n < j - 1 /\ j - 1 <= Pos
                                      \/ Pos + L - n < j - 1}
        BY <1>1 DEF Passed
      <3>2. Passed(n + 1)' = {j \in 1..L : \/ Pos' - (n + 1) < j - 1 /\ j - 1 <= Pos'
                                           \/ Pos' + L - (n + 1) < j - 1}
        BY <1>1 DEF Passed
      <3> HIDE DEF L
      <3>3. ASSUME NEW j \in 1..L
            PROVE  j \in Passed(n + 1)' <=> j \in Passed(n) \/ j = i
        <4>1. j \in Passed(n) <=> (Pos - n < j - 1 /\ j - 1 <= Pos) \/ Pos + L - n < j - 1
          BY <3>1
        <4>2. j \in Passed(n + 1)' <=> \/ Pos' - (n + 1) < j - 1 /\ j - 1 <= Pos'
                                       \/ Pos' + L - (n + 1) < j - 1
          BY <3>2
        <4>3. CASE Pos = L - 1
          <5>1. Pos' = 0 /\ i = 1
            BY <1>0, <1>2, <4>3
          <5> QED BY <1>1, <1>8, <1>10, <4>1, <4>2, <4>3, <5>1
        <4>4. CASE Pos # L - 1
          <5>1. Pos' = Pos + 1 /\ i = Pos + 2 /\ Pos \in Nat /\ Pos < L - 1
            BY <1>0, <1>1, <1>2, <1>3, <4>4
          <5> QED BY <1>1, <1>8, <1>10, <4>1, <4>2, <5>1
        <4> QED BY <4>3, <4>4
      <3>4. i \notin Passed(n)
        <4>1. CASE Pos = L - 1
          BY <1>0, <1>1, <1>2, <1>3, <1>8, <1>10, <3>1, <4>1
        <4>2. CASE Pos # L - 1
          BY <1>0, <1>1, <1>2, <1>3, <1>8, <1>10, <3>1, <4>2
        <4> QED BY <4>1, <4>2
      <3> QED BY <1>3, <3>1, <3>2, <3>3, <3>4
    <2>4. ASSUME NEW b \in Accounts
          PROVE  turns'[b] = Cardinality(Places(b)' \cap Passed(n + 1)')
      <3>1. turns'[b] = IF b = a THEN turns[b] + 1 ELSE turns[b]
        BY <1>5, <2>1
      <3>2. Places(b)' = Places(b) /\ (i \in Places(b) <=> b = a)
        BY <1>0, <1>1, <1>3 DEF Places
      <3>3. IsFiniteSet(Places(b) \cap Passed(n))
        <4>1. IsFiniteSet(1..L) /\ Places(b) \cap Passed(n) \in SUBSET (1..L)
          BY <1>1, FS_Interval DEF Places
        <4> HIDE DEF L
        <4> QED BY <4>1, FS_Subset
      <3>4. CASE b = a
        <4>1. Places(b)' \cap Passed(n + 1)' = (Places(b) \cap Passed(n)) \cup {i}
          BY <2>3, <3>2, <3>4
        <4>2. Cardinality(Places(b)' \cap Passed(n + 1)') = Cardinality(Places(b) \cap Passed(n)) + 1
          BY <2>3, <3>3, <4>1, FS_AddElement
        <4> QED BY <1>6, <3>1, <3>4, <4>2
      <3>5. CASE b # a
        <4>1. Places(b)' \cap Passed(n + 1)' = Places(b) \cap Passed(n)
          BY <2>3, <3>2, <3>5
        <4> QED BY <1>6, <3>1, <3>5, <4>1
      <3> QED BY <3>4, <3>5
    <2>5. TurnInv'
      BY <1>10, <2>2, <2>4 DEF TurnInv
    <2> QED BY <1>5, <2>5 DEF RoundInv
  <1>11. n + 1 > L \/ n + 1 <= L
    BY <1>1, <1>8
  <1> QED BY <1>9, <1>10, <1>11

\* The list, the counter and the rounds go together.
LEMMA StepKeepsRound ==
    ASSUME Inv, Inv', RoundInv, [Next]_vars
    PROVE  RoundInv'
  <1>1. ASSUME UNCHANGED <<accounts, currentIndex, turns>>
        PROVE  RoundInv'
    BY <1>1 DEF RoundInv, WeightInv, TurnInv, Places, Passed, Pos
  <1>2. Inv' /\ turns' = NoTurns => TurnInv'
    <2>1. (Inv /\ turns = NoTurns => TurnInv)'
      BY FreshRound, PTL
    <2>2. NoTurns' = NoTurns
      BY DEF NoTurns
    <2> QED BY <2>1, <2>2
  <1>3. ASSUME UNCHANGED accounts, turns' = NoTurns
        PROVE  RoundInv'
    <2>1. WeightInv'
      BY <1>3 DEF RoundInv, WeightInv, Places
    <2> QED BY <1>2, <1>3, <2>1 DEF RoundInv
  <1>4. CASE Reload
    <2>1. accounts' = Weighted /\ turns' = NoTurns /\ conf \in [Accounts -> AccountRecord]
      BY <1>4 DEF Reload, Inv, TypeOK
    <2>2. WeightInv'
      BY <2>1, WeightedHolds DEF WeightInv, Places
    <2> QED BY <1>2, <2>1, <2>2 DEF RoundInv
  <1>5. ASSUME NEW r \in Requests, Probe(r)
        PROVE  RoundInv'
    <2> DEFINE idx == (currentIndex + 1) % IndexBound
               acc == accounts[(idx % Len(accounts)) + 1]
    <2>1. UNCHANGED accounts /\ currentIndex' = idx /\ accounts # <<>>
      BY <1>5 DEF Probe, listVars, Inv, ProbingInv
    <2>2. Turn(acc.id) \/ turns' = NoTurns
      BY <1>5 DEF Probe
    <2> HIDE DEF idx
    <2>3. CASE Turn(acc.id)
      <3>1. idx = (currentIndex + 1) % IndexBound
        BY DEF idx
      <3> QED BY <2>1, <2>3, <3>1, PickInTurn
    <2> QED BY <1>3, <2>1, <2>2, <2>3
  <1>6. ASSUME NEW r \in Requests, Select(r), ~Probe(r)
        PROVE  RoundInv'
    BY <1>1, <1>6 DEF Select, Begin, PickPinned, Fallback, listVars
  <1>7. ASSUME NEW r \in Requests, Outcome(r)
        PROVE  RoundInv'
    BY <1>1, <1>3, <1>7 DEF Outcome, RecordSuccess, FailPlain, FailQuota, FailCap, SetCooldown,
                            RecordError, DenyModel, listVars
  <1>8. CASE (Environment /\ ~Reload) \/ Tick \/ UNCHANGED vars
    BY <1>1, <1>3, <1>8 DEF Environment, Tick, vars, SetModelList, ClearModelDenies, UpdateToken,
                            TokenAges, Configure, SetAllowOverUsage, listVars
  <1> QED BY <1>4, <1>5, <1>6, <1>7, <1>8 DEF Next

\* A round that goes on undisturbed for as many picks as the list has entries gives every
\* account its share, with any number of requests stepping the shared counter, any
\* weights, and a counter that wraps (Reload and the first loop of GetNextForModelExcluding).
THEOREM RoundsAreFair == Spec => []EachRoundIsFair
  <1>1. ASSUME Inv, RoundInv
        PROVE  EachRoundIsFair
    <2> SUFFICES ASSUME Dealt(turns) = Len(accounts), NEW i \in DOMAIN accounts,
                        NEW j \in DOMAIN accounts
                 PROVE  turns[accounts[i].id] * Weight(accounts[j].id)
                          = turns[accounts[j].id] * Weight(accounts[i].id)
      BY DEF EachRoundIsFair
    <2>1. Len(accounts) \in Nat \ {0} /\ DOMAIN accounts = 1..Len(accounts)
      BY LenProperties, <1>1 DEF Inv, TypeOK
    <2>2. Pos \in 0..(Len(accounts) - 1)
      <3>1. currentIndex \in Nat
        BY <1>1, PoolAssumption DEF Inv, TypeOK
      <3> QED BY <2>1, <3>1, DivMod DEF Pos
    <2>3. Passed(Dealt(turns)) = DOMAIN accounts
      BY <2>1, <2>2 DEF Passed
    <2>4. ASSUME NEW k \in DOMAIN accounts
          PROVE  turns[accounts[k].id] = Weight(accounts[k].id)
      <3>1. accounts[k].id \in Accounts /\ k \in Places(accounts[k].id)
        BY <1>1, EntryType DEF Places
      <3>2. Places(accounts[k].id) \cap Passed(Dealt(turns)) = Places(accounts[k].id)
        BY <2>3 DEF Places
      <3> QED BY <1>1, <3>1, <3>2 DEF RoundInv, WeightInv, TurnInv
    <2>5. turns[accounts[i].id] = Weight(accounts[i].id) /\ turns[accounts[j].id] = Weight(accounts[j].id)
      BY <2>4
    <2>6. Weight(accounts[i].id) \in Nat /\ Weight(accounts[j].id) \in Nat
      <3>1. turns \in [Accounts -> Nat] /\ accounts[i].id \in Accounts /\ accounts[j].id \in Accounts
        BY <1>1, EntryType DEF Inv, TypeOK
      <3> QED BY <2>5, <3>1
    <2> QED BY <2>5, <2>6
  <1>2. Init => RoundInv
    <2> SUFFICES ASSUME Init PROVE RoundInv
      OBVIOUS
    <2>1. Inv
      BY InitInv
    <2>2. accounts = Weighted /\ turns = NoTurns /\ conf \in [Accounts -> AccountRecord]
      BY <2>1 DEF Init, Inv, TypeOK
    <2>3. WeightInv
      BY <2>2, WeightedHolds DEF WeightInv, Places
    <2> QED BY <2>1, <2>2, <2>3, FreshRound DEF RoundInv
  <1>3. Inv /\ Inv' /\ RoundInv /\ [Next]_vars => RoundInv'
    BY StepKeepsRound
  <1> QED BY <1>1, <1>2, <1>3, Invariance, PTL DEF Spec
=============================================================================
