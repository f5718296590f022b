--------------------------- MODULE TokenRefreshProofs ---------------------------
(***************************************************************************)
(* The tokens of an account, for any number of requests, refreshers and    *)
(* operators: what the mutex protects where refresh tokens rotate and only *)
(* requests refresh them, and what holds for every party where they do     *)
(* not.                                                                    *)
(***************************************************************************)
EXTENDS TokenRefresh, FiniteSetTheorems, TLAPS

AnyRefresh == Tokens \cup {Keep}

ReqRecord == [pc : {"idle", "check", "wait", "asking", "memory", "persist", "refused",
                    "reload", "serving"},
              slot : Slots, sent : AnyRefresh, got : [access : Tokens, refresh : AnyRefresh]]

WorkRecord == [pc : {"idle", "asking", "persist", "memory", "refused", "reload"},
               copy : Record, sent : AnyRefresh, got : [access : Tokens, refresh : AnyRefresh]]

EditRecord == [pc : {"idle", "write", "reload"}, copy : Record, what : {"this", "other"}]

Critical == {"asking", "memory", "persist"}

\* The parts of TypeOK.
Shapes ==
    /\ conf \in Record
    /\ list \in [Slots -> Record \cup {Gone}] /\ pool \in Slots
    /\ mutex \in Requests \cup {Nobody}
    /\ req \in [Requests -> ReqRecord]
    /\ work \in [Workers -> WorkRecord]
    /\ edit \in [Editors -> EditRecord]
    /\ issued \in Tokens /\ expired \in 0..issued /\ revoked \in BOOLEAN

Section == \A r \in Requests : req[r].pc \in Critical => mutex = r

Listed == \A r \in Requests : req[r].pc # "idle" => list[req[r].slot] # Gone

\* TypeOK is the conjunction of its parts.
LEMMA TypeParts ==
    /\ TypeOK <=> Shapes /\ Section /\ Listed
    /\ TypeOK' <=> Shapes' /\ Section' /\ Listed'
  BY DEF TypeOK, Shapes, Section, Listed, Critical, ReqRecord, WorkRecord, EditRecord, AnyRefresh

-----------------------------------------------------------------------------
(* Records and slots. *)

\* The numbers that are tokens.
LEMMA TokenFacts ==
    /\ MaxIssued \in Nat /\ 0 \in Tokens /\ 0 \in AnyRefresh /\ Keep \in AnyRefresh
    /\ Keep \notin Tokens /\ Tokens \subseteq AnyRefresh /\ Tokens \subseteq Nat
  BY TokenAssumption DEF TokenAssumption, Tokens, Keep, AnyRefresh

\* The records a place starts with have the shape of its records.
LEMMA Starts ==
    /\ Fresh \in Record
    /\ NoAnswer \in [access : Tokens, refresh : AnyRefresh]
    /\ NoRequest \in ReqRecord /\ NoWork \in WorkRecord /\ NoEdit \in EditRecord
  <1>1. 0 \in Slots
    <2>1. Cardinality(Requests) \in Nat
      BY TokenAssumption, FS_CardinalityType DEF TokenAssumption
    <2> QED BY <2>1 DEF Slots
  <1>2. Fresh \in Record /\ NoAnswer \in [access : Tokens, refresh : AnyRefresh]
    BY TokenFacts DEF Fresh, Record, NoAnswer, AnyRefresh
  <1> QED BY <1>1, <1>2, TokenFacts DEF NoRequest, NoWork, NoEdit, ReqRecord, WorkRecord, EditRecord

\* There is a slot for a new list or copy: a request points into one slot at most.
LEMMA SlotToSpare ==
    ASSUME Shapes
    PROVE  FreeSlot \in Slots /\ FreeSlot # pool /\ FreeSlot \notin Pointed
  <1> DEFINE R == {q \in Requests : req[q].pc # "idle"}
             slotOf == [r \in R |-> req[r].slot]
             n == Cardinality(Requests)
             Used == Pointed \cup {pool}
  <1>1. IsFiniteSet(Requests) /\ n \in Nat
    BY TokenAssumption, FS_CardinalityType DEF TokenAssumption
  <1>2. IsFiniteSet(R) /\ Cardinality(R) <= n /\ Cardinality(R) \in Nat
    BY <1>1, FS_Subset, FS_CardinalityType
  <1>3. Pointed = {slotOf[r] : r \in R}
    BY DEF Pointed
  <1>4. IsFiniteSet(Pointed) /\ Cardinality(Pointed) <= Cardinality(R)
    <2>1. slotOf \in [R -> Pointed] /\ \A s \in Pointed : \E r \in R : slotOf[r] = s
      BY <1>3
    <2>2. slotOf \in Surjection(R, Pointed)
      BY <2>1 DEF Surjection
    <2> HIDE DEF slotOf, R
    <2> QED BY <1>2, <2>2, FS_Surjection
  <1>5. IsFiniteSet(Used) /\ Cardinality(Used) <= n + 1
    <2>1. Cardinality(Pointed) \in Nat
      BY <1>4, FS_CardinalityType
    <2>2. Cardinality(Used) = IF pool \in Pointed THEN Cardinality(Pointed) ELSE Cardinality(Pointed) + 1
      BY <1>4, FS_AddElement
    <2> QED BY <1>1, <1>2, <1>4, <2>1, <2>2, FS_AddElement
  <1>6. IsFiniteSet(Slots) /\ Cardinality(Slots) = n + 2
    <2> HIDE DEF n
    <2>1. Slots = 0..(n + 1) /\ 0 \in Int /\ n + 1 \in Int /\ ~(0 > n + 1)
      BY <1>1 DEF Slots, n
    <2> QED BY <1>1, <2>1, FS_Interval
  <1>7. \E s \in Slots : s # pool /\ s \notin Pointed
    <2>1. SUFFICES ASSUME Slots \subseteq Used PROVE FALSE
      OBVIOUS
    <2> HIDE DEF Used, n
    <2>2. Cardinality(Slots) <= Cardinality(Used)
      BY <1>5, <2>1, FS_Subset
    <2>3. Cardinality(Used) \in Nat
      BY <1>5, FS_CardinalityType
    <2> QED BY <1>1, <1>5, <1>6, <2>2, <2>3
  <1> QED BY <1>7 DEF FreeSlot

\* A record into which a refresh is written stays a record.
LEMMA Updated ==
    ASSUME NEW acc \in Record, NEW got \in [access : Tokens, refresh : AnyRefresh]
    PROVE  /\ UpdateToken(acc, got) \in Record
           /\ UpdateToken(acc, got).enabled = acc.enabled
           /\ UpdateToken(acc, got).refresh = IF got.refresh = Keep THEN acc.refresh ELSE got.refresh
  BY DEF UpdateToken, Record, AnyRefresh

\* What the pool has of the account after a refresh.
LEMMA PoolUpdated ==
    ASSUME Shapes, NEW got \in [access : Tokens, refresh : AnyRefresh]
    PROVE  /\ PoolUpdateToken(got) \in [Slots -> Record \cup {Gone}]
           /\ \A s \in Slots : PoolUpdateToken(got)[s] =
                 IF s = pool /\ list[s] # Gone THEN UpdateToken(list[s], got) ELSE list[s]
           /\ \A s \in Slots : PoolUpdateToken(got)[s] = Gone <=> list[s] = Gone
  <1>1. \A s \in Slots : list[s] # Gone => list[s] \in Record
    BY DEF Shapes
  <1>2. \A s \in Slots : PoolUpdateToken(got)[s] =
                 IF s = pool /\ list[s] # Gone THEN UpdateToken(list[s], got) ELSE list[s]
    BY DEF PoolUpdateToken, Shapes
  <1>3. \A s \in Slots : list[s] # Gone => UpdateToken(list[s], got) \in Record
    BY <1>1, Updated
  <1>4. PoolUpdateToken(got) \in [Slots -> Record \cup {Gone}]
    BY <1>2, <1>3 DEF PoolUpdateToken, Shapes
  <1> QED BY <1>2, <1>3, <1>4, GoneAssumption DEF GoneAssumption

\* A new list leaves alone what requests point into.
LEMMA Reloaded ==
    ASSUME Shapes, Reload
    PROVE  /\ pool' = FreeSlot /\ pool' \in Slots
           /\ list' \in [Slots -> Record \cup {Gone}]
           /\ \A s \in Slots : list'[s] \in {list[s], conf, Gone}
           /\ \A r \in Requests : req[r].pc # "idle" => list'[req[r].slot] = list[req[r].slot]
  <1>1. pool' = FreeSlot /\ FreeSlot \in Slots /\ FreeSlot \notin Pointed
    BY SlotToSpare DEF Reload
  <1>2. list' = [n \in Slots |->
                   CASE n = FreeSlot -> IF conf.enabled THEN conf ELSE Gone
                     [] n # FreeSlot /\ n \in Pointed -> list[n]
                     [] OTHER -> Gone]
    BY DEF Reload
  <1>3. \A s \in Slots : /\ list'[s] \in {list[s], conf, Gone}
                         /\ s \in Pointed => list'[s] = list[s]
    BY <1>1, <1>2
  <1>4. list' \in [Slots -> Record \cup {Gone}]
    BY <1>2, <1>3 DEF Shapes
  <1>5. \A r \in Requests : req[r].pc # "idle" => req[r].slot \in Pointed /\ req[r].slot \in Slots
    BY DEF Pointed, Shapes, ReqRecord
  <1> QED BY <1>1, <1>3, <1>4, <1>5

-----------------------------------------------------------------------------
(* Types, and the section the mutex guards. *)

\* A request's record is replaced.
LEMMA ReqReplaced ==
    ASSUME Shapes, NEW r \in Requests, NEW m \in ReqRecord, req' = [req EXCEPT ![r] = m]
    PROVE  /\ req' \in [Requests -> ReqRecord] /\ req'[r] = m
           /\ \A q \in Requests : q # r => req'[q] = req[q]
  BY DEF Shapes

\* A request goes on, and the others stay where they are.
LEMMA RequestGoesOn ==
    ASSUME Shapes, Section, Listed,
           NEW r \in Requests, NEW m \in ReqRecord, req' = [req EXCEPT ![r] = m],
           m.pc \in Critical => mutex' = r,
           mutex' = mutex \/ mutex = Nobody \/ mutex = r,
           m.pc # "idle" => list'[m.slot] # Gone,
           \A q \in Requests : q # r /\ req[q].pc # "idle" => list'[req[q].slot] # Gone
    PROVE  Section' /\ Listed'
  <1>1. req'[r] = m /\ \A q \in Requests : q # r => req'[q] = req[q]
    BY ReqReplaced
  <1>2. Section'
    BY <1>1, TokenAssumption DEF Section, TokenAssumption
  <1>3. Listed'
    BY <1>1 DEF Listed
  <1> QED BY <1>2, <1>3

\* At the start nothing points anywhere and the mutex is free.
LEMMA TypeInit == Init => TypeOK
  <1> SUFFICES ASSUME Init PROVE Shapes /\ Section /\ Listed
    BY TypeParts
  <1>1. 0 \in Slots
    BY TokenAssumption, FS_CardinalityType DEF TokenAssumption, Slots
  <1>2. \A r \in Requests : req[r] = NoRequest /\ req[r].pc = "idle"
    BY DEF Init, NoRequest
  <1>3. Section /\ Listed
    BY <1>2 DEF Section, Listed, Critical
  <1>4. list \in [Slots -> Record \cup {Gone}]
    BY Starts DEF Init
  <1>5. req \in [Requests -> ReqRecord] /\ work \in [Workers -> WorkRecord] /\ edit \in [Editors -> EditRecord]
    BY Starts DEF Init
  <1>6. issued \in Tokens /\ expired \in 0..issued
    BY TokenFacts DEF Init
  <1>7. Shapes
    BY <1>1, <1>4, <1>5, <1>6, Starts DEF Init, Shapes
  <1> QED BY <1>3, <1>7

\* A request's step.
LEMMA TypeRequest ==
    ASSUME Shapes, Section, Listed, NEW r \in Requests, RequestStep(r)
    PROVE  Shapes' /\ Section' /\ Listed'
  <1> DEFINE old == req[r]
  <1>0. /\ old \in ReqRecord /\ old.slot \in Slots /\ old.sent \in AnyRefresh
        /\ old.got \in [access : Tokens, refresh : AnyRefresh]
        /\ list \in [Slots -> Record \cup {Gone}] /\ pool \in Slots
        /\ \A s \in Slots : list[s] # Gone => list[s] \in Record
        /\ \A q \in Requests : req[q].pc # "idle" => req[q].slot \in Slots /\ list[req[q].slot] # Gone
        /\ 0 \in AnyRefresh /\ Gone \notin Record
    BY TokenFacts, GoneAssumption DEF Shapes, ReqRecord, Listed, GoneAssumption
  <1>00. UNCHANGED <<work, edit, expired, revoked>>
    BY DEF RequestStep, Pick, PickCopy, Check, Lock, Holding, Granted, Refused, Unanswered,
           StoreInPool, StoreInConfig, Serve, Ban, BanReload
  <1>1. CASE Pick(r)
    <2> DEFINE m == [NoRequest EXCEPT !.pc = "check", !.slot = pool]
    <2>1. m \in ReqRecord /\ m.pc = "check" /\ m.slot = pool
      BY <1>0, Starts DEF NoRequest, ReqRecord
    <2>2. /\ req' = [req EXCEPT ![r] = m] /\ list[pool] # Gone
          /\ UNCHANGED <<conf, list, pool, mutex, issued>>
      BY <1>1 DEF Pick
    <2> HIDE DEF m
    <2>3. Section' /\ Listed'
      BY <1>0, <2>1, <2>2, RequestGoesOn DEF Critical
    <2> QED BY <1>00, <2>1, <2>2, <2>3, ReqReplaced DEF Shapes
  <1>2. CASE PickCopy(r)
    <2> DEFINE m == [NoRequest EXCEPT !.pc = "check", !.slot = FreeSlot]
    <2>1. m \in ReqRecord /\ m.pc = "check" /\ m.slot = FreeSlot /\ FreeSlot \in Slots
      BY Starts, SlotToSpare DEF NoRequest, ReqRecord
    <2>2. /\ req' = [req EXCEPT ![r] = m] /\ list' = [list EXCEPT ![FreeSlot] = conf]
          /\ UNCHANGED <<conf, pool, mutex, issued>>
      BY <1>2 DEF PickCopy
    <2> HIDE DEF m
    <2>3. conf \in Record /\ conf # Gone
      BY <1>0 DEF Shapes
    <2>4. /\ list' \in [Slots -> Record \cup {Gone}]
          /\ \A s \in Slots : list[s] # Gone \/ s = FreeSlot => list'[s] # Gone
      BY <1>0, <2>1, <2>2, <2>3
    <2>5. Section' /\ Listed'
      BY <1>0, <2>1, <2>2, <2>4, RequestGoesOn DEF Critical
    <2> QED BY <1>00, <2>1, <2>2, <2>4, <2>5, ReqReplaced DEF Shapes
  <1>3. CASE Check(r)
    <2> DEFINE m == [old EXCEPT !.pc = IF Expiring(list[old.slot]) THEN "wait" ELSE "serving"]
    <2>1. m \in ReqRecord /\ m.pc \in {"wait", "serving"} /\ m.slot = old.slot
      BY <1>0 DEF ReqRecord
    <2>2. /\ req' = [req EXCEPT ![r] = m] /\ old.pc = "check"
          /\ UNCHANGED <<conf, list, pool, mutex, issued>>
      BY <1>3 DEF Check
    <2> HIDE DEF m
    <2>3. Section' /\ Listed'
      BY <1>0, <2>1, <2>2, RequestGoesOn DEF Critical
    <2> QED BY <1>00, <2>1, <2>2, <2>3, ReqReplaced DEF Shapes
  <1>4. CASE Lock(r)
    <2> DEFINE acc == IF list[pool] = Gone THEN list[old.slot]
                      ELSE [list[old.slot] EXCEPT !.access = list[pool].access,
                                                  !.refresh = list[pool].refresh]
               done == list[pool] # Gone /\ ~Expiring(acc)
               m == [old EXCEPT !.pc = IF done THEN "serving" ELSE "asking",
                                !.sent = IF done THEN 0 ELSE acc.refresh]
    <2>1. old.pc = "wait" /\ list[old.slot] \in Record
      BY <1>0, <1>4 DEF Lock
    <2>2. acc \in Record /\ acc.refresh \in AnyRefresh
      BY <1>0, <2>1 DEF Record, AnyRefresh
    <2>3. /\ req' = [req EXCEPT ![r] = m] /\ mutex = Nobody /\ mutex' = IF done THEN Nobody ELSE r
          /\ list' = [list EXCEPT ![old.slot] = acc]
          /\ UNCHANGED <<conf, pool, issued>>
      <3>1. /\ req' = [req EXCEPT ![r].pc = IF done THEN "serving" ELSE "asking",
                                 ![r].sent = IF done THEN 0 ELSE acc.refresh]
            /\ mutex = Nobody /\ mutex' = IF done THEN Nobody ELSE r
            /\ list' = [list EXCEPT ![old.slot] = acc] /\ UNCHANGED <<conf, pool, issued>>
        BY <1>4 DEF Lock
      <3> HIDE DEF acc, done
      <3>2. req' = [req EXCEPT ![r] = m]
        BY <3>1
      <3> QED BY <3>1, <3>2
    <2> HIDE DEF acc
    <2>4. m \in ReqRecord /\ m.pc = (IF done THEN "serving" ELSE "asking") /\ m.slot = old.slot
      BY <1>0, <2>2 DEF ReqRecord
    <2> HIDE DEF m, done
    <2>5. /\ list' \in [Slots -> Record \cup {Gone}] /\ mutex' \in Requests \cup {Nobody}
          /\ \A s \in Slots : list[s] # Gone \/ s = old.slot => list'[s] # Gone
      BY <1>0, <2>2, <2>3
    <2>6. Section' /\ Listed'
      BY <1>0, <2>3, <2>4, <2>5, RequestGoesOn DEF Critical
    <2> QED BY <1>00, <2>3, <2>4, <2>5, <2>6, ReqReplaced DEF Shapes
  <1>5. CASE Granted(r)
    <2> DEFINE m == [old EXCEPT !.pc = "memory", !.got = Answer]
    <2>1. issued' = issued + 1 /\ issued' \in Tokens /\ expired \in 0..issued'
      BY <1>5, TokenFacts DEF Granted, Shapes, Tokens
    <2>2. Answer \in [access : Tokens, refresh : AnyRefresh]
      BY <1>5, <2>1, TokenFacts DEF Answer
    <2>3. m \in ReqRecord /\ m.pc = "memory" /\ m.slot = old.slot
      BY <1>0, <2>2 DEF ReqRecord
    <2>4. /\ req' = [req EXCEPT ![r] = m] /\ old.pc = "asking"
          /\ UNCHANGED <<conf, list, pool, mutex>>
      BY <1>5 DEF Granted
    <2> HIDE DEF m
    <2>5. mutex = r
      BY <2>4 DEF Section, Critical
    <2>6. Section' /\ Listed'
      BY <1>0, <2>3, <2>4, <2>5, RequestGoesOn
    <2> QED BY <1>00, <2>1, <2>3, <2>4, <2>6, ReqReplaced DEF Shapes
  <1>6. CASE Refused(r) \/ Unanswered(r)
    <2> DEFINE m == IF Refused(r) THEN [old EXCEPT !.pc = "refused"] ELSE NoRequest
    <2>1. m \in ReqRecord /\ m.pc \in {"refused", "idle"} /\ (m.pc # "idle" => m.slot = old.slot)
      BY <1>0, Starts DEF NoRequest, ReqRecord
    <2>2. /\ req' = [req EXCEPT ![r] = m] /\ old.pc = "asking" /\ mutex' = Nobody
          /\ UNCHANGED <<conf, list, pool, issued>>
      BY <1>6 DEF Refused, Unanswered
    <2> HIDE DEF m
    <2>3. mutex = r
      BY <2>2 DEF Section, Critical
    <2>4. Section' /\ Listed'
      BY <1>0, <2>1, <2>2, <2>3, RequestGoesOn DEF Critical
    <2> QED BY <1>00, <2>1, <2>2, <2>4, ReqReplaced DEF Shapes
  <1>7. CASE StoreInPool(r)
    <2> DEFINE m == [old EXCEPT !.pc = "persist"]
               acc == UpdateToken(list[old.slot], old.got)
               in == PoolUpdateToken(old.got)
    <2>1. m \in ReqRecord /\ m.pc = "persist" /\ m.slot = old.slot
      BY <1>0 DEF ReqRecord
    <2>2. /\ req' = [req EXCEPT ![r] = m] /\ old.pc = "memory"
          /\ list' = [in EXCEPT ![old.slot] = acc]
          /\ UNCHANGED <<conf, pool, mutex, issued>>
      BY <1>7 DEF StoreInPool
    <2> HIDE DEF m
    <2>3. acc \in Record /\ mutex = r
      BY <1>0, <2>2, Updated DEF Section, Critical
    <2>4. in \in [Slots -> Record \cup {Gone}] /\ \A s \in Slots : in[s] = Gone <=> list[s] = Gone
      BY <1>0, PoolUpdated
    <2> HIDE DEF in, acc
    <2>5. /\ list' \in [Slots -> Record \cup {Gone}]
          /\ \A s \in Slots : list[s] # Gone => list'[s] # Gone
      BY <1>0, <2>2, <2>3, <2>4
    <2>6. Section' /\ Listed'
      BY <1>0, <2>1, <2>2, <2>3, <2>5, RequestGoesOn DEF Critical
    <2> QED BY <1>00, <2>1, <2>2, <2>5, <2>6, ReqReplaced DEF Shapes
  <1>8. CASE StoreInConfig(r)
    <2> DEFINE m == [NoRequest EXCEPT !.pc = "serving", !.slot = old.slot]
    <2>1. m \in ReqRecord /\ m.pc = "serving" /\ m.slot = old.slot
      BY <1>0, Starts DEF NoRequest, ReqRecord
    <2>2. /\ req' = [req EXCEPT ![r] = m] /\ old.pc = "persist" /\ mutex' = Nobody
          /\ conf' = UpdateToken(conf, old.got) /\ UNCHANGED <<list, pool, issued>>
      BY <1>8 DEF StoreInConfig
    <2> HIDE DEF m
    <2>3. conf' \in Record /\ mutex = r
      BY <1>0, <2>2, Updated DEF Section, Critical, Shapes
    <2>4. Section' /\ Listed'
      BY <1>0, <2>1, <2>2, <2>3, RequestGoesOn DEF Critical
    <2> QED BY <1>00, <2>1, <2>2, <2>3, <2>4, ReqReplaced DEF Shapes
  <1>9. CASE Serve(r)
    <2>1. /\ req' = [req EXCEPT ![r] = NoRequest] /\ NoRequest \in ReqRecord /\ NoRequest.pc = "idle"
          /\ UNCHANGED <<conf, list, pool, mutex, issued>>
      BY <1>9, Starts DEF Serve, NoRequest
    <2>2. Section' /\ Listed'
      BY <1>0, <2>1, RequestGoesOn DEF Critical
    <2> QED BY <1>00, <2>1, <2>2, ReqReplaced DEF Shapes
  <1>10. CASE Ban(r)
    <2> DEFINE m == [old EXCEPT !.pc = "reload"]
    <2>1. m \in ReqRecord /\ m.pc = "reload" /\ m.slot = old.slot
      BY <1>0 DEF ReqRecord
    <2>2. /\ req' = [req EXCEPT ![r] = m] /\ old.pc = "refused"
          /\ conf' = [list[old.slot] EXCEPT !.enabled = FALSE]
          /\ UNCHANGED <<list, pool, mutex, issued>>
      BY <1>10 DEF Ban
    <2> HIDE DEF m
    <2>3. conf' \in Record
      BY <1>0, <2>2 DEF Record
    <2>4. Section' /\ Listed'
      BY <1>0, <2>1, <2>2, RequestGoesOn DEF Critical
    <2> QED BY <1>00, <2>1, <2>2, <2>3, <2>4, ReqReplaced DEF Shapes
  <1>11. CASE BanReload(r)
    <2>1. /\ req' = [req EXCEPT ![r] = NoRequest] /\ NoRequest \in ReqRecord /\ NoRequest.pc = "idle"
          /\ Reload /\ UNCHANGED <<conf, mutex, issued>>
      BY <1>11, Starts DEF BanReload, NoRequest
    <2>2. /\ pool' \in Slots /\ list' \in [Slots -> Record \cup {Gone}]
          /\ \A q \in Requests : req[q].pc # "idle" => list'[req[q].slot] = list[req[q].slot]
      BY <2>1, Reloaded
    <2>3. Section' /\ Listed'
      BY <1>0, <2>1, <2>2, RequestGoesOn DEF Critical
    <2> QED BY <1>00, <2>1, <2>2, <2>3, ReqReplaced DEF Shapes
  <1> QED BY <1>1, <1>2, <1>3, <1>4, <1>5, <1>6, <1>7, <1>8, <1>9, <1>10, <1>11
          DEF RequestStep, Holding

\* Without a request's step the lists that requests point into stay listed.
LEMMA OthersStep ==
    ASSUME Shapes, Section, Listed, UNCHANGED <<req, mutex>>,
           UNCHANGED <<list, pool>> \/ Reload
              \/ (\E got \in [access : Tokens, refresh : AnyRefresh] :
                     list' = PoolUpdateToken(got) /\ pool' = pool)
    PROVE  /\ Section' /\ Listed'
           /\ list' \in [Slots -> Record \cup {Gone}] /\ pool' \in Slots
  <1>1. Section'
    BY DEF Section
  <1>2. \A r \in Requests : req[r].slot \in Slots
    BY DEF Shapes, ReqRecord
  <1>3. CASE UNCHANGED <<list, pool>>
    BY <1>1, <1>3 DEF Shapes, Listed
  <1>4. CASE Reload
    BY <1>1, <1>4, Reloaded DEF Listed
  <1>5. CASE \E got \in [access : Tokens, refresh : AnyRefresh] :
                list' = PoolUpdateToken(got) /\ pool' = pool
    BY <1>1, <1>2, <1>5, PoolUpdated DEF Shapes, Listed
  <1> QED BY <1>3, <1>4, <1>5

\* A refresher's step.
LEMMA TypeWork ==
    ASSUME Shapes, Section, Listed, NEW w \in Workers, WorkStep(w)
    PROVE  Shapes' /\ Section' /\ Listed'
  <1> DEFINE old == work[w]
  <1>0. /\ old \in WorkRecord /\ old.copy \in Record /\ conf \in Record /\ conf.refresh \in AnyRefresh
        /\ old.got \in [access : Tokens, refresh : AnyRefresh]
        /\ NoWork \in WorkRecord
    BY Starts DEF Shapes, WorkRecord, Record, AnyRefresh
  <1>1. UNCHANGED <<req, mutex, edit, expired, revoked>>
    BY DEF WorkStep, StartWork, WorkGranted, WorkRefused, WorkUnanswered, WorkStoreInConfig,
           WorkStoreInPool, WorkBan, WorkReload
  <1>2. UNCHANGED <<list, pool>> \/ Reload
              \/ (\E got \in [access : Tokens, refresh : AnyRefresh] :
                     list' = PoolUpdateToken(got) /\ pool' = pool)
    BY <1>0 DEF WorkStep, StartWork, WorkGranted, WorkRefused, WorkUnanswered, WorkStoreInConfig,
           WorkStoreInPool, WorkBan, WorkReload
  <1>3. Section' /\ Listed' /\ list' \in [Slots -> Record \cup {Gone}] /\ pool' \in Slots
    BY <1>1, <1>2, OthersStep
  <1>4. issued' \in Tokens /\ expired' \in 0..issued'
    <2>1. CASE UNCHANGED issued
      BY <1>1, <2>1 DEF Shapes
    <2>2. CASE WorkGranted(w)
      BY <1>1, <2>2, TokenFacts DEF WorkGranted, Shapes, Tokens
    <2> QED BY <2>1, <2>2 DEF WorkStep, StartWork, WorkRefused, WorkUnanswered,
                  WorkStoreInConfig, WorkStoreInPool, WorkBan, WorkReload
  <1>5. conf' \in Record
    <2>1. CASE UNCHANGED conf
      BY <1>0, <2>1
    <2>2. CASE WorkStoreInConfig(w)
      BY <1>0, <2>2, Updated DEF WorkStoreInConfig
    <2>3. CASE WorkBan(w)
      BY <1>0, <2>3 DEF WorkBan, Record
    <2> QED BY <2>1, <2>2, <2>3 DEF WorkStep, StartWork, WorkGranted, WorkRefused,
                  WorkUnanswered, WorkStoreInPool, WorkReload
  <1>6. \E m \in WorkRecord : work' = [work EXCEPT ![w] = m]
    <2>1. CASE StartWork(w)
      <3> DEFINE m == [NoWork EXCEPT !.pc = "asking", !.copy = conf, !.sent = conf.refresh]
      <3>1. m \in WorkRecord
        BY <1>0 DEF WorkRecord
      <3> QED BY <2>1, <3>1 DEF StartWork
    <2>2. CASE WorkGranted(w)
      <3> DEFINE m == [old EXCEPT !.pc = "persist", !.got = Answer]
      <3>1. Answer \in [access : Tokens, refresh : AnyRefresh]
        BY <1>4, <2>2, TokenFacts DEF WorkGranted, Answer
      <3>2. m \in WorkRecord
        BY <1>0, <3>1 DEF WorkRecord
      <3>3. work' = [work EXCEPT ![w] = m]
        BY <2>2 DEF WorkGranted
      <3> QED BY <3>2, <3>3
    <2>3. CASE WorkRefused(w)
      <3> DEFINE m == IF w \in Warmups THEN [old EXCEPT !.pc = "refused"] ELSE NoWork
      <3>1. m \in WorkRecord
        BY <1>0 DEF WorkRecord
      <3>2. work' = [work EXCEPT ![w] = m]
        BY <2>3 DEF WorkRefused
      <3> QED BY <3>1, <3>2
    <2>4. CASE WorkUnanswered(w) \/ WorkReload(w)
      BY <1>0, <2>4 DEF WorkUnanswered, WorkReload
    <2>5. CASE WorkStoreInConfig(w)
      <3> DEFINE m == [old EXCEPT !.pc = "memory"]
      <3>1. m \in WorkRecord
        BY <1>0 DEF WorkRecord
      <3>2. work' = [work EXCEPT ![w] = m]
        BY <2>5 DEF WorkStoreInConfig
      <3> QED BY <3>1, <3>2
    <2>6. CASE WorkStoreInPool(w)
      <3> DEFINE m == IF w \in Warmups THEN [old EXCEPT !.pc = "reload"] ELSE NoWork
      <3>1. m \in WorkRecord
        BY <1>0 DEF WorkRecord
      <3>2. work' = [work EXCEPT ![w] = m]
        BY <2>6 DEF WorkStoreInPool
      <3> QED BY <3>1, <3>2
    <2>7. CASE WorkBan(w)
      <3> DEFINE m == [old EXCEPT !.pc = "reload"]
      <3>1. m \in WorkRecord
        BY <1>0 DEF WorkRecord
      <3>2. work' = [work EXCEPT ![w] = m]
        BY <2>7 DEF WorkBan
      <3> QED BY <3>1, <3>2
    <2> QED BY <2>1, <2>2, <2>3, <2>4, <2>5, <2>6, <2>7 DEF WorkStep
  <1>7. work' \in [Workers -> WorkRecord]
    BY <1>6 DEF Shapes
  <1>8. UNCHANGED <<mutex, req, edit, revoked>>
    BY <1>1
  <1> QED BY <1>3, <1>4, <1>5, <1>7, <1>8 DEF Shapes

\* An editor's step.
LEMMA TypeEdit ==
    ASSUME Shapes, Section, Listed, NEW e \in Editors, EditStep(e)
    PROVE  Shapes' /\ Section' /\ Listed'
  <1>1. UNCHANGED <<req, mutex, work, issued, expired, revoked>>
    BY DEF EditStep, EditRead, EditWrite, EditReload
  <1>2. UNCHANGED <<list, pool>> \/ Reload
    BY DEF EditStep, EditRead, EditWrite, EditReload
  <1>3. Section' /\ Listed' /\ list' \in [Slots -> Record \cup {Gone}] /\ pool' \in Slots
    BY <1>1, <1>2, OthersStep
  <1>4. edit[e] \in EditRecord /\ edit[e].copy \in Record /\ conf \in Record
    BY DEF Shapes, EditRecord
  <1>5. conf' \in Record
    BY <1>4 DEF EditStep, EditRead, EditWrite, EditReload
  <1>6. edit' \in [Editors -> EditRecord]
    <2>1. CASE \E what \in Edits : EditRead(e, what)
      BY <1>4, <2>1, TokenAssumption DEF TokenAssumption, EditRead, Shapes, EditRecord
    <2>2. CASE EditWrite(e)
      BY <1>4, <2>2 DEF EditWrite, Shapes, EditRecord
    <2>3. CASE EditReload(e)
      BY <2>3, Starts DEF EditReload, Shapes
    <2> QED BY <2>1, <2>2, <2>3 DEF EditStep
  <1> QED BY <1>1, <1>3, <1>5, <1>6 DEF Shapes

\* Every step keeps the types and the section.
LEMMA TypeStep == TypeOK /\ [Next]_vars => TypeOK'
  <1> SUFFICES ASSUME Shapes, Section, Listed, [Next]_vars
               PROVE  Shapes' /\ Section' /\ Listed'
    BY TypeParts
  <1>1. CASE \E r \in Requests : RequestStep(r)
    BY <1>1, TypeRequest
  <1>2. CASE \E w \in Workers : WorkStep(w)
    BY <1>2, TypeWork
  <1>3. CASE \E e \in Editors : EditStep(e)
    BY <1>3, TypeEdit
  <1>4. CASE Expire
    <2>1. expired' = expired + 1 /\ expired < issued
          /\ UNCHANGED <<conf, list, pool, mutex, req, work, edit, issued, revoked>>
      BY <1>4 DEF Expire
    <2>2. expired' \in 0..issued
      BY <2>1, TokenFacts DEF Shapes
    <2> QED BY <2>1, <2>2 DEF Shapes, Section, Listed
  <1>5. CASE Revoke
    BY <1>5 DEF Revoke, Shapes, Section, Listed
  <1>6. CASE UNCHANGED vars
    BY <1>6 DEF vars, Shapes, Section, Listed
  <1> QED BY <1>1, <1>2, <1>3, <1>4, <1>5, <1>6 DEF Next

\* A request in the section the mutex guards has the mutex, so that no two refresh
\* at once, and none is left with a pointer to a record the pool has let go of,
\* whatever the refreshers and the operators do meanwhile (handler.go:3055-3100).
THEOREM TypeCorrect == Spec => []TypeOK
  <1> QED BY TypeInit, TypeStep, PTL DEF Spec

-----------------------------------------------------------------------------
(* Refresh tokens that rotate, and requests alone that refresh them. *)

OnlyRequests == Rotates /\ Workers = {} /\ Editors = {}

\* Where the token that the provider accepts next is, at each step of a refresh:
\* on record and in the pool before it, in the answer when it has arrived, and in
\* the pool before it is on record.
CurrentToken ==
    /\ conf.enabled /\ list[pool] # Gone
    /\ mutex = Nobody => conf.refresh = issued /\ list[pool].refresh = issued
    /\ \A r \in Requests :
          /\ mutex = r => req[r].pc \in Critical
          /\ req[r].pc \notin {"refused", "reload"}
          /\ req[r].pc = "asking" =>
                req[r].sent = issued /\ conf.refresh = issued /\ list[pool].refresh = issued
          /\ req[r].pc = "memory" => req[r].got.refresh = issued
          /\ req[r].pc = "persist" => req[r].got.refresh = issued /\ list[pool].refresh = issued

RotationInv == revoked \/ CurrentToken

\* A request that does not take part in a refresh leaves the token where it is.
LEMMA Bystander ==
    ASSUME CurrentToken, NEW r \in Requests, req[r].pc \notin Critical,
           UNCHANGED <<conf, pool, mutex, issued>>,
           list'[pool] # Gone, list'[pool].refresh = list[pool].refresh,
           req'[r].pc \in {"idle", "check", "wait", "serving"},
           \A q \in Requests : q # r => req'[q] = req[q]
    PROVE  CurrentToken'
  BY DEF CurrentToken, Critical

\* A request's step keeps track of the token.
LEMMA RotationRequest ==
    ASSUME OnlyRequests, Shapes, Section, Listed, CurrentToken, ~revoked,
           NEW r \in Requests, RequestStep(r)
    PROVE  CurrentToken'
  <1> DEFINE old == req[r]
  <1>0. /\ req \in [Requests -> ReqRecord] /\ old \in ReqRecord /\ old.slot \in Slots
        /\ list \in [Slots -> Record \cup {Gone}] /\ pool \in Slots /\ list[pool] \in Record
        /\ old.got \in [access : Tokens, refresh : AnyRefresh] /\ conf \in Record
        /\ Gone \notin Record /\ Rotates
        /\ old.pc # "idle" => list[old.slot] \in Record
    BY GoneAssumption DEF GoneAssumption, Shapes, ReqRecord, CurrentToken, OnlyRequests, Listed
  <1>00. issued \in Tokens /\ issued # Keep /\ issued \in Nat
    BY TokenFacts DEF Shapes
  <1>000. Nobody \notin Requests
    BY TokenAssumption DEF TokenAssumption
  <1>1. CASE Pick(r) \/ Check(r) \/ Serve(r)
    <2>1. /\ UNCHANGED <<conf, list, pool, mutex, issued>> /\ old.pc \notin Critical
          /\ \E m \in ReqRecord : /\ m.pc \in {"idle", "check", "wait", "serving"}
                                  /\ req' = [req EXCEPT ![r] = m]
      <3>1. CASE Pick(r)
        <4> DEFINE m == [NoRequest EXCEPT !.pc = "check", !.slot = pool]
        <4>1. m \in ReqRecord /\ m.pc = "check"
          BY <1>0, Starts DEF NoRequest, ReqRecord
        <4> QED BY <3>1, <4>1 DEF Pick, Critical
      <3>2. CASE Check(r)
        <4> DEFINE m == [old EXCEPT !.pc = IF Expiring(list[old.slot]) THEN "wait" ELSE "serving"]
        <4>1. m \in ReqRecord /\ m.pc \in {"wait", "serving"}
          BY <1>0 DEF ReqRecord
        <4>2. req' = [req EXCEPT ![r] = m]
          BY <3>2 DEF Check
        <4> HIDE DEF m
        <4> QED BY <3>2, <4>1, <4>2 DEF Check, Critical
      <3>3. CASE Serve(r)
        BY <3>3, Starts DEF Serve, Critical, NoRequest
      <3> QED BY <1>1, <3>1, <3>2, <3>3
    <2>2. /\ req'[r].pc \in {"idle", "check", "wait", "serving"}
          /\ \A q \in Requests : q # r => req'[q] = req[q]
      BY <1>0, <2>1
    <2> QED BY <1>0, <2>1, <2>2, Bystander
  <1>2. CASE PickCopy(r)
    <2>1. FreeSlot \in Slots /\ FreeSlot # pool
      BY SlotToSpare
    <2>2. /\ UNCHANGED <<conf, pool, mutex, issued>> /\ old.pc = "idle"
          /\ list' = [list EXCEPT ![FreeSlot] = conf]
          /\ req' = [req EXCEPT ![r] = [NoRequest EXCEPT !.pc = "check", !.slot = FreeSlot]]
      BY <1>2 DEF PickCopy
    <2>3. list'[pool] = list[pool]
      BY <1>0, <2>1, <2>2
    <2>4. req'[r].pc = "check" /\ \A q \in Requests : q # r => req'[q] = req[q]
      BY <1>0, <2>2 DEF NoRequest
    <2> QED BY <1>0, <2>2, <2>3, <2>4, Bystander DEF Critical
  <1>3. CASE Lock(r)
    <2> DEFINE acc == [list[old.slot] EXCEPT !.access = list[pool].access,
                                             !.refresh = list[pool].refresh]
               done == ~Expiring(acc)
    <2>1. /\ old.pc = "wait" /\ mutex = Nobody /\ mutex' = IF done THEN Nobody ELSE r
          /\ list' = [list EXCEPT ![old.slot] = acc] /\ UNCHANGED <<conf, pool, issued>>
          /\ req' = [req EXCEPT ![r].pc = IF done THEN "serving" ELSE "asking",
                                ![r].sent = IF done THEN 0 ELSE acc.refresh]
      <3> DEFINE acc0 == IF list[pool] = Gone THEN list[old.slot] ELSE acc
                 done0 == list[pool] # Gone /\ ~Expiring(acc0)
      <3>1. /\ old.pc = "wait" /\ mutex = Nobody /\ mutex' = IF done0 THEN Nobody ELSE r
            /\ list' = [list EXCEPT ![old.slot] = acc0] /\ UNCHANGED <<conf, pool, issued>>
            /\ req' = [req EXCEPT ![r].pc = IF done0 THEN "serving" ELSE "asking",
                                  ![r].sent = IF done0 THEN 0 ELSE acc0.refresh]
        BY <1>3 DEF Lock
      <3>2. list[pool] # Gone
        BY <1>0
      <3> HIDE DEF acc
      <3>3. acc0 = acc /\ (done0 <=> done)
        BY <3>2
      <3> HIDE DEF acc0, done0, done
      <3> QED BY <3>1, <3>3
    <2>2. acc \in Record /\ acc.refresh = list[pool].refresh
      BY <1>0, <2>1 DEF Record
    <2> HIDE DEF acc, done
    <2>3. list'[pool] # Gone /\ list'[pool].refresh = list[pool].refresh
      BY <1>0, <2>1, <2>2
    <2>4. /\ req'[r].pc = (IF done THEN "serving" ELSE "asking")
          /\ ~done => req'[r].sent = list[pool].refresh
          /\ \A q \in Requests : q # r => req'[q] = req[q]
      BY <1>0, <2>1, <2>2 DEF ReqRecord
    <2>5. CASE done
      BY <2>1, <2>3, <2>4, <2>5, Bystander DEF Critical
    <2>6. CASE ~done
      <3>1. conf.refresh = issued /\ list[pool].refresh = issued
        BY <2>1 DEF CurrentToken
      <3>2. \A q \in Requests : q # r => req'[q] = req[q] /\ req'[q].pc \notin Critical /\ q # mutex'
        BY <1>000, <2>1, <2>4, <2>6 DEF Section
      <3>3. mutex' = r /\ mutex' # Nobody /\ req'[r].pc = "asking" /\ req'[r].sent = issued
        BY <1>000, <2>1, <2>4, <2>6, <3>1
      <3>4. /\ conf'.enabled /\ list'[pool'] # Gone /\ issued' = issued
            /\ conf'.refresh = issued /\ list'[pool'].refresh = issued
        BY <2>1, <2>3, <3>1 DEF CurrentToken
      <3> QED BY <3>2, <3>3, <3>4 DEF CurrentToken, Critical
    <2> QED BY <2>5, <2>6
  <1>4. CASE Granted(r)
    <2>1. /\ old.pc = "asking" /\ issued' = issued + 1 /\ UNCHANGED <<conf, list, pool, mutex>>
          /\ req' = [req EXCEPT ![r].pc = "memory", ![r].got = Answer]
          /\ Answer.refresh = issued'
      BY <1>0, <1>4 DEF Granted, Answer
    <2>2. /\ req'[r].pc = "memory" /\ req'[r].got.refresh = issued'
          /\ \A q \in Requests : q # r => req'[q] = req[q]
      BY <1>0, <2>1 DEF ReqRecord
    <2>3. mutex = r /\ \A q \in Requests : q # r => req[q].pc \notin Critical
      BY <2>1 DEF Section, Critical
    <2>4. \A q \in Requests : q # r => req'[q] = req[q] /\ req'[q].pc \notin Critical /\ q # mutex'
      BY <2>1, <2>2, <2>3
    <2>5. conf'.enabled /\ list'[pool'] # Gone /\ mutex' = r /\ mutex' # Nobody
      BY <1>000, <2>1, <2>3 DEF CurrentToken
    <2>6. \A q \in Requests : req'[q].pc \notin {"refused", "reload"}
      BY <2>2 DEF CurrentToken
    <2> QED BY <2>2, <2>4, <2>5, <2>6 DEF CurrentToken, Critical
  <1>5. CASE Refused(r)
    <2>1. old.sent = issued /\ ~Accepts(old.sent)
      BY <1>5 DEF Refused, CurrentToken
    <2> QED BY <1>0, <2>1 DEF Accepts
  <1>6. CASE Unanswered(r)
    <2>1. /\ old.pc = "asking" /\ mutex' = Nobody /\ UNCHANGED <<conf, list, pool, issued>>
          /\ req' = [req EXCEPT ![r] = NoRequest]
      BY <1>6 DEF Unanswered
    <2>2. req'[r].pc = "idle" /\ \A q \in Requests : q # r => req'[q] = req[q]
      BY <1>0, <2>1 DEF NoRequest
    <2>3. mutex = r /\ \A q \in Requests : q # r => req[q].pc \notin Critical
      BY <2>1 DEF Section, Critical
    <2> QED BY <1>000, <2>1, <2>2, <2>3 DEF CurrentToken, Critical
  <1>7. CASE StoreInPool(r)
    <2> DEFINE in == PoolUpdateToken(old.got)
               acc == UpdateToken(list[old.slot], old.got)
    <2>1. /\ old.pc = "memory" /\ UNCHANGED <<conf, pool, mutex, issued>>
          /\ list' = [in EXCEPT ![old.slot] = acc]
          /\ req' = [req EXCEPT ![r].pc = "persist"]
      BY <1>7 DEF StoreInPool
    <2>2. old.got.refresh = issued
      BY <2>1 DEF CurrentToken
    <2>3. acc \in Record /\ acc.refresh = issued
      BY <1>0, <1>00, <2>1, <2>2, Updated
    <2>4. in \in [Slots -> Record \cup {Gone}] /\ in[pool] \in Record /\ in[pool].refresh = issued
      BY <1>0, <1>00, <2>2, Updated, PoolUpdated
    <2> HIDE DEF in, acc
    <2>5. list'[pool] # Gone /\ list'[pool].refresh = issued
      BY <1>0, <2>1, <2>3, <2>4
    <2>6. /\ req'[r].pc = "persist" /\ req'[r].got = old.got
          /\ \A q \in Requests : q # r => req'[q] = req[q]
      BY <1>0, <2>1 DEF ReqRecord
    <2>7. mutex = r /\ \A q \in Requests : q # r => req[q].pc \notin Critical
      BY <2>1 DEF Section, Critical
    <2> QED BY <1>000, <2>1, <2>2, <2>5, <2>6, <2>7 DEF CurrentToken, Critical
  <1>8. CASE StoreInConfig(r)
    <2>1. /\ old.pc = "persist" /\ mutex' = Nobody /\ UNCHANGED <<list, pool, issued>>
          /\ conf' = UpdateToken(conf, old.got)
          /\ req' = [req EXCEPT ![r] = [NoRequest EXCEPT !.pc = "serving", !.slot = req[r].slot]]
      BY <1>8 DEF StoreInConfig
    <2>2. old.got.refresh = issued /\ list[pool].refresh = issued
      BY <2>1 DEF CurrentToken
    <2>3. conf'.refresh = issued /\ conf'.enabled = conf.enabled
      BY <1>0, <1>00, <2>1, <2>2, Updated
    <2>4. req'[r].pc = "serving" /\ \A q \in Requests : q # r => req'[q] = req[q]
      BY <1>0, <2>1 DEF NoRequest
    <2>5. mutex = r /\ \A q \in Requests : q # r => req[q].pc \notin Critical
      BY <2>1 DEF Section, Critical
    <2> QED BY <1>000, <2>1, <2>2, <2>3, <2>4, <2>5 DEF CurrentToken, Critical
  <1>9. CASE Ban(r) \/ BanReload(r)
    BY <1>9 DEF Ban, BanReload, CurrentToken
  <1> QED BY <1>1, <1>2, <1>3, <1>4, <1>5, <1>6, <1>7, <1>8, <1>9 DEF RequestStep, Holding

\* Every step keeps track of the token until the provider revokes it.
LEMMA RotationStep ==
    ASSUME OnlyRequests, TypeOK, RotationInv, [Next]_vars
    PROVE  RotationInv'
  <1>0. Shapes /\ Section /\ Listed
    BY TypeParts
  <1>1. CASE revoked
    <2>1. revoked'
      BY <1>1 DEF OnlyRequests, Next, RequestStep, Holding, Pick, PickCopy, Check, Lock, Granted,
         Refused, Unanswered, StoreInPool, StoreInConfig, Serve, Ban, BanReload, Expire, Revoke, vars
    <2> QED BY <2>1 DEF RotationInv
  <1>2. CASE ~revoked
    <2>1. CurrentToken
      BY <1>2 DEF RotationInv
    <2>2. CASE \E r \in Requests : RequestStep(r)
      BY <1>0, <1>2, <2>1, <2>2, RotationRequest DEF RotationInv
    <2>3. CASE Revoke
      BY <2>3 DEF Revoke, RotationInv
    <2>4. CASE Expire \/ UNCHANGED vars
      <3>1. UNCHANGED <<conf, list, pool, mutex, req, issued>>
        BY <2>4 DEF Expire, vars
      <3> QED BY <2>1, <3>1 DEF CurrentToken, RotationInv
    <2> QED BY <2>2, <2>3, <2>4 DEF Next, OnlyRequests
  <1> QED BY <1>1, <1>2

\* At the start the token is on record and in the pool.
LEMMA RotationInit == Init => RotationInv
  <1> SUFFICES ASSUME Init PROVE CurrentToken
    BY DEF RotationInv
  <1>1. 0 \in Slots
    BY TokenAssumption, FS_CardinalityType DEF TokenAssumption, Slots
  <1>2. list[pool] = Fresh /\ conf = Fresh /\ Fresh # Gone
    BY <1>1, Starts, GoneAssumption DEF Init, GoneAssumption
  <1>3. Fresh.refresh = 0 /\ Fresh.enabled
    BY DEF Fresh
  <1>4. mutex = Nobody /\ Nobody \notin Requests /\ issued = 0
    BY TokenAssumption DEF TokenAssumption, Init
  <1>5. \A r \in Requests : req[r].pc = "idle"
    BY DEF Init, NoRequest
  <1> QED BY <1>2, <1>3, <1>4, <1>5 DEF CurrentToken

\* Where only requests refresh the tokens, the mutex does what it is for: no request
\* sends a refresh token that was spent (handler.go:3069-3078).
THEOREM RotationSendsCurrent ==
    ASSUME OnlyRequests
    PROVE  Spec => []SendsCurrentToken
  <1>1. TypeOK /\ RotationInv => SendsCurrentToken
    BY DEF OnlyRequests, RotationInv, CurrentToken, SendsCurrentToken, Accepts
  <1>2. TypeOK /\ RotationInv /\ [Next]_vars => RotationInv'
    BY RotationStep
  <1> QED BY <1>1, <1>2, RotationInit, TypeInit, TypeStep, PTL DEF Spec

\* ... the credentials on record are good whenever no refresh is under way, so that
\* a restart loses no account,
THEOREM RotationRecordIsCurrent ==
    ASSUME OnlyRequests
    PROVE  Spec => []RecordIsCurrent
  <1>1. TypeOK /\ RotationInv => RecordIsCurrent
    BY DEF OnlyRequests, RotationInv, CurrentToken, RecordIsCurrent, Refreshing, Accepts
  <1>2. TypeOK /\ RotationInv /\ [Next]_vars => RotationInv'
    BY RotationStep
  <1> QED BY <1>1, <1>2, RotationInit, TypeInit, TypeStep, PTL DEF Spec

\* ... and the account is disabled only when the provider refuses the credentials
\* on record (account_failover.go:30-32, 229-230).
THEOREM RotationBannedOnlyIfRefused ==
    ASSUME OnlyRequests
    PROVE  Spec => BannedOnlyIfRefused
  <1>1. RotationInv /\ RotationInv' /\ [Next]_vars
           => [conf.enabled /\ ~conf'.enabled => ~Accepts(conf.refresh)]_vars
    <2> SUFFICES ASSUME RotationInv, RotationInv', Next, conf.enabled, ~conf'.enabled
                 PROVE  revoked
      BY DEF Accepts, vars
    <2>1. revoked'
      BY DEF RotationInv, CurrentToken
    <2>2. CASE Revoke
      BY <2>2 DEF Revoke
    <2>3. CASE ~Revoke
      BY <2>1, <2>3 DEF OnlyRequests, Next, RequestStep, Holding, Pick, PickCopy, Check, Lock,
         Granted, Refused, Unanswered, StoreInPool, StoreInConfig, Serve, Ban, BanReload, Expire
    <2> QED BY <2>2, <2>3
  <1>2. TypeOK /\ RotationInv /\ [Next]_vars => RotationInv'
    BY RotationStep
  <1> QED BY <1>1, <1>2, RotationInit, TypeInit, TypeStep, PTL DEF Spec, BannedOnlyIfRefused

-----------------------------------------------------------------------------
(* A refresh token that stays the same. *)

\* A copy of the record that may be written back.
Good(acc) == acc.refresh = 0 /\ (revoked \/ acc.enabled)

KeptInv ==
    /\ Good(conf)
    /\ \A s \in Slots : list[s] # Gone => Good(list[s])
    /\ \A w \in Workers : /\ Good(work[w].copy) /\ work[w].sent = 0 /\ work[w].got.refresh = Keep
                          /\ work[w].pc = "refused" => revoked
    /\ \A e \in Editors : Good(edit[e].copy)
    /\ \A r \in Requests : /\ req[r].sent = 0 /\ req[r].got.refresh = Keep
                           /\ req[r].pc \in {"refused", "reload"} => revoked

\* A refresh leaves a good copy good.
LEMMA UpdatedGood ==
    ASSUME NEW acc \in Record, NEW got \in [access : Tokens, refresh : AnyRefresh],
           got.refresh = Keep, Good(acc)
    PROVE  Good(UpdateToken(acc, got))
  BY Updated DEF Good

\* A new list is made from good records, and a refresh leaves good ones in the pool.
LEMMA ListGood ==
    ASSUME Shapes, KeptInv, revoked' = revoked,
           UNCHANGED <<list, pool>> \/ Reload
              \/ (\E got \in [access : Tokens, refresh : AnyRefresh] :
                     got.refresh = Keep /\ list' = PoolUpdateToken(got))
    PROVE  \A s \in Slots : list'[s] # Gone => Good(list[s])'
  <1>1. CASE UNCHANGED <<list, pool>>
    BY <1>1 DEF KeptInv, Good
  <1>2. CASE Reload
    <2>1. \A s \in Slots : list'[s] \in {list[s], conf, Gone}
      BY <1>2, Reloaded
    <2> QED BY <2>1 DEF KeptInv, Good
  <1>3. ASSUME NEW got \in [access : Tokens, refresh : AnyRefresh],
               got.refresh = Keep, list' = PoolUpdateToken(got)
        PROVE  \A s \in Slots : list'[s] # Gone => Good(list[s])'
    <2>1. \A s \in Slots : list[s] # Gone => list[s] \in Record /\ Good(list[s])
      BY DEF Shapes, KeptInv
    <2>2. \A s \in Slots : list[s] # Gone => Good(UpdateToken(list[s], got))
      BY <1>3, <2>1, UpdatedGood
    <2>3. \A s \in Slots : list'[s] # Gone =>
             list[s] # Gone /\ (list'[s] = list[s] \/ list'[s] = UpdateToken(list[s], got))
      BY <1>3, PoolUpdated
    <2> QED BY <2>1, <2>2, <2>3 DEF Good
  <1> QED BY <1>1, <1>2, <1>3

\* The request's own part of the invariant.
GoodRequest(m) == /\ m.sent = 0 /\ m.got.refresh = Keep
                  /\ m.pc \in {"refused", "reload"} => revoked

\* A request goes on: what it holds, and what it has written, is good.
LEMMA KeptGoesOn ==
    ASSUME Shapes, KeptInv, UNCHANGED <<work, edit, revoked>>,
           NEW r \in Requests, NEW m \in ReqRecord, req' = [req EXCEPT ![r] = m], GoodRequest(m),
           Good(conf)', \A s \in Slots : list'[s] # Gone => Good(list[s])'
    PROVE  KeptInv'
  <1>1. req'[r] = m /\ \A q \in Requests : q # r => req'[q] = req[q]
    BY ReqReplaced
  <1>2. \A q \in Requests : /\ req'[q].sent = 0 /\ req'[q].got.refresh = Keep
                            /\ req'[q].pc \in {"refused", "reload"} => revoked'
    BY <1>1 DEF KeptInv, GoodRequest
  <1> QED BY <1>2 DEF KeptInv, Good

\* A request's step.
LEMMA KeptRequest ==
    ASSUME ~Rotates, Shapes, Section, Listed, KeptInv, NEW r \in Requests, RequestStep(r)
    PROVE  KeptInv'
  <1> DEFINE old == req[r]
  <1>0. /\ old \in ReqRecord /\ old.slot \in Slots /\ old.sent = 0 /\ old.got.refresh = Keep
        /\ old.got \in [access : Tokens, refresh : AnyRefresh]
        /\ conf \in Record /\ Good(conf) /\ pool \in Slots
        /\ list \in [Slots -> Record \cup {Gone}]
        /\ \A s \in Slots : list[s] # Gone => list[s] \in Record /\ Good(list[s])
        /\ old.pc # "idle" => list[old.slot] # Gone
    BY DEF Shapes, ReqRecord, KeptInv, Listed
  <1>1. UNCHANGED <<work, edit, revoked>>
    BY DEF RequestStep, Pick, PickCopy, Check, Lock, Holding, Granted, Refused, Unanswered,
           StoreInPool, StoreInConfig, Serve, Ban, BanReload
  <1>2. NoRequest \in ReqRecord /\ GoodRequest(NoRequest) /\ NoRequest.pc = "idle"
    BY Starts DEF NoRequest, NoAnswer, GoodRequest
  <1>3. CASE Pick(r) \/ Check(r) \/ Serve(r) \/ Unanswered(r)
    <2>1. UNCHANGED <<conf, list, pool>>
      BY <1>3 DEF Pick, Check, Serve, Unanswered
    <2>2. Good(conf)' /\ \A s \in Slots : list'[s] # Gone => Good(list[s])'
      BY <1>0, <1>1, <2>1 DEF Good
    <2>3. \E m \in ReqRecord : GoodRequest(m) /\ req' = [req EXCEPT ![r] = m]
      <3>1. CASE Pick(r)
        <4> DEFINE m == [NoRequest EXCEPT !.pc = "check", !.slot = pool]
        <4>1. m \in ReqRecord /\ GoodRequest(m)
          BY <1>0, <1>2 DEF NoRequest, ReqRecord, GoodRequest
        <4> QED BY <3>1, <4>1 DEF Pick
      <3>2. CASE Check(r)
        <4> DEFINE m == [old EXCEPT !.pc = IF Expiring(list[old.slot]) THEN "wait" ELSE "serving"]
        <4>1. m \in ReqRecord /\ GoodRequest(m)
          BY <1>0 DEF ReqRecord, GoodRequest
        <4>2. req' = [req EXCEPT ![r] = m]
          BY <3>2 DEF Check
        <4> QED BY <4>1, <4>2
      <3>3. CASE Serve(r) \/ Unanswered(r)
        BY <1>2, <3>3 DEF Serve, Unanswered
      <3> QED BY <1>3, <3>1, <3>2, <3>3
    <2> QED BY <1>1, <2>2, <2>3, KeptGoesOn
  <1>4. CASE PickCopy(r)
    <2> DEFINE m == [NoRequest EXCEPT !.pc = "check", !.slot = FreeSlot]
    <2>1. m \in ReqRecord /\ GoodRequest(m) /\ FreeSlot \in Slots
      BY <1>2, SlotToSpare DEF NoRequest, ReqRecord, GoodRequest
    <2>2. req' = [req EXCEPT ![r] = m] /\ list' = [list EXCEPT ![FreeSlot] = conf] /\ conf' = conf
      BY <1>4 DEF PickCopy
    <2> HIDE DEF m
    <2>3. Good(conf)' /\ \A s \in Slots : list'[s] # Gone => Good(list[s])'
      BY <1>0, <1>1, <2>1, <2>2 DEF Good
    <2> QED BY <1>1, <2>1, <2>2, <2>3, KeptGoesOn
  <1>5. CASE Lock(r)
    <2> DEFINE acc == IF list[pool] = Gone THEN list[old.slot]
                      ELSE [list[old.slot] EXCEPT !.access = list[pool].access,
                                                  !.refresh = list[pool].refresh]
               done == list[pool] # Gone /\ ~Expiring(acc)
               m == [old EXCEPT !.pc = IF done THEN "serving" ELSE "asking",
                                !.sent = IF done THEN 0 ELSE acc.refresh]
    <2>1. /\ old.pc = "wait" /\ conf' = conf /\ list' = [list EXCEPT ![old.slot] = acc]
          /\ req' = [req EXCEPT ![r].pc = IF done THEN "serving" ELSE "asking",
                                ![r].sent = IF done THEN 0 ELSE acc.refresh]
      BY <1>5 DEF Lock
    <2>2. list[old.slot] \in Record /\ Good(list[old.slot]) /\ list[pool] # Gone => Good(list[pool])
      BY <1>0, <2>1
    <2>3. acc \in Record /\ Good(acc)
      BY <1>0, <2>2, <2>1 DEF Record, Good
    <2> HIDE DEF acc, done
    <2>4. m \in ReqRecord /\ GoodRequest(m)
      BY <1>0, <2>3, TokenFacts DEF ReqRecord, GoodRequest, Good
    <2>5. req' = [req EXCEPT ![r] = m]
      BY <2>1
    <2> HIDE DEF m
    <2>6. Good(conf)' /\ \A s \in Slots : list'[s] # Gone => Good(list[s])'
      BY <1>0, <1>1, <2>1, <2>3 DEF Good
    <2> QED BY <1>1, <2>4, <2>5, <2>6, KeptGoesOn
  <1>6. CASE Granted(r)
    <2> DEFINE m == [old EXCEPT !.pc = "memory", !.got = Answer]
    <2>1. issued + 1 \in Tokens /\ Answer \in [access : Tokens, refresh : AnyRefresh] /\ Answer.refresh = Keep
      BY <1>6, TokenFacts DEF Granted, Shapes, Tokens, Answer
    <2>2. m \in ReqRecord /\ GoodRequest(m)
      BY <1>0, <2>1 DEF ReqRecord, GoodRequest
    <2>3. req' = [req EXCEPT ![r] = m] /\ UNCHANGED <<conf, list, pool>>
      BY <1>6 DEF Granted
    <2> HIDE DEF m
    <2>4. Good(conf)' /\ \A s \in Slots : list'[s] # Gone => Good(list[s])'
      BY <1>0, <1>1, <2>3 DEF Good
    <2> QED BY <1>1, <2>2, <2>3, <2>4, KeptGoesOn
  <1>7. CASE Refused(r)
    <2> DEFINE m == [old EXCEPT !.pc = "refused"]
    <2>1. revoked
      BY <1>0, <1>7 DEF Refused, Accepts
    <2>2. m \in ReqRecord /\ GoodRequest(m)
      BY <1>0, <2>1 DEF ReqRecord, GoodRequest
    <2>3. req' = [req EXCEPT ![r] = m] /\ UNCHANGED <<conf, list, pool>>
      BY <1>7 DEF Refused
    <2> HIDE DEF m
    <2>4. Good(conf)' /\ \A s \in Slots : list'[s] # Gone => Good(list[s])'
      BY <1>0, <1>1, <2>3 DEF Good
    <2> QED BY <1>1, <2>2, <2>3, <2>4, KeptGoesOn
  <1>8. CASE StoreInPool(r)
    <2> DEFINE m == [old EXCEPT !.pc = "persist"]
               acc == UpdateToken(list[old.slot], old.got)
               in == PoolUpdateToken(old.got)
    <2>1. m \in ReqRecord /\ GoodRequest(m)
      BY <1>0 DEF ReqRecord, GoodRequest
    <2>2. /\ req' = [req EXCEPT ![r] = m] /\ old.pc = "memory" /\ conf' = conf
          /\ list' = [in EXCEPT ![old.slot] = acc]
      BY <1>8 DEF StoreInPool
    <2> HIDE DEF m
    <2>3. Good(acc)
      BY <1>0, <2>2, UpdatedGood
    <2>4. /\ in \in [Slots -> Record \cup {Gone}]
          /\ \A s \in Slots : in[s] # Gone =>
                list[s] # Gone /\ (in[s] = list[s] \/ in[s] = UpdateToken(list[s], old.got))
      BY <1>0, PoolUpdated
    <2>5. \A s \in Slots : in[s] # Gone => Good(in[s])
      BY <1>0, <2>4, UpdatedGood
    <2> HIDE DEF in, acc
    <2>6. Good(conf)' /\ \A s \in Slots : list'[s] # Gone => Good(list[s])'
      BY <1>0, <1>1, <2>2, <2>3, <2>4, <2>5 DEF Good
    <2> QED BY <1>1, <2>1, <2>2, <2>6, KeptGoesOn
  <1>9. CASE StoreInConfig(r)
    <2> DEFINE m == [NoRequest EXCEPT !.pc = "serving", !.slot = old.slot]
    <2>1. m \in ReqRecord /\ GoodRequest(m)
      BY <1>0, <1>2 DEF NoRequest, ReqRecord, GoodRequest
    <2>2. /\ req' = [req EXCEPT ![r] = m] /\ conf' = UpdateToken(conf, old.got)
          /\ UNCHANGED <<list, pool>>
      BY <1>9 DEF StoreInConfig
    <2> HIDE DEF m
    <2>3. Good(UpdateToken(conf, old.got))
      BY <1>0, UpdatedGood
    <2>4. Good(conf)' /\ \A s \in Slots : list'[s] # Gone => Good(list[s])'
      BY <1>0, <1>1, <2>2, <2>3 DEF Good
    <2> QED BY <1>1, <2>1, <2>2, <2>4, KeptGoesOn
  <1>10. CASE Ban(r)
    <2> DEFINE m == [old EXCEPT !.pc = "reload"]
    <2>0. old.pc = "refused" /\ revoked
      BY <1>10 DEF Ban, KeptInv
    <2>1. m \in ReqRecord /\ GoodRequest(m)
      BY <1>0, <2>0 DEF ReqRecord, GoodRequest
    <2>2. /\ req' = [req EXCEPT ![r] = m] /\ conf' = [list[old.slot] EXCEPT !.enabled = FALSE]
          /\ UNCHANGED <<list, pool>>
      BY <1>10 DEF Ban
    <2> HIDE DEF m
    <2>3. list[old.slot] \in Record /\ list[old.slot].refresh = 0
      BY <1>0, <2>0 DEF Good
    <2>4. Good(conf)' /\ \A s \in Slots : list'[s] # Gone => Good(list[s])'
      BY <1>0, <1>1, <2>0, <2>2, <2>3 DEF Good, Record
    <2> QED BY <1>1, <2>1, <2>2, <2>4, KeptGoesOn
  <1>11. CASE BanReload(r)
    <2>1. req' = [req EXCEPT ![r] = NoRequest] /\ Reload /\ conf' = conf
      BY <1>11 DEF BanReload
    <2>2. Good(conf)' /\ \A s \in Slots : list'[s] # Gone => Good(list[s])'
      BY <1>0, <1>1, <2>1, ListGood DEF Good
    <2> QED BY <1>1, <1>2, <2>1, <2>2, KeptGoesOn
  <1> QED BY <1>3, <1>4, <1>5, <1>6, <1>7, <1>8, <1>9, <1>10, <1>11 DEF RequestStep, Holding

\* The refresher's own part of the invariant.
GoodWork(m) == /\ Good(m.copy) /\ m.sent = 0 /\ m.got.refresh = Keep
               /\ m.pc = "refused" => revoked

\* A refresher's step.
LEMMA KeptWork ==
    ASSUME ~Rotates, Shapes, KeptInv, NEW w \in Workers, WorkStep(w)
    PROVE  KeptInv'
  <1> DEFINE old == work[w]
  <1>0. /\ old \in WorkRecord /\ old.copy \in Record /\ conf \in Record /\ GoodWork(old) /\ Good(conf)
        /\ old.got \in [access : Tokens, refresh : AnyRefresh]
    BY DEF Shapes, WorkRecord, KeptInv, GoodWork
  <1>1. UNCHANGED <<req, edit, revoked>>
    BY DEF WorkStep, StartWork, WorkGranted, WorkRefused, WorkUnanswered, WorkStoreInConfig,
           WorkStoreInPool, WorkBan, WorkReload
  <1>2. GoodWork(NoWork)
    BY DEF GoodWork, NoWork, NoAnswer, Fresh, Good
  <1>3. \A s \in Slots : list'[s] # Gone => Good(list[s])'
    <2>1. UNCHANGED <<list, pool>> \/ Reload
              \/ (\E got \in [access : Tokens, refresh : AnyRefresh] :
                     got.refresh = Keep /\ list' = PoolUpdateToken(got))
      BY <1>0 DEF WorkStep, StartWork, WorkGranted, WorkRefused, WorkUnanswered,
         WorkStoreInConfig, WorkStoreInPool, WorkBan, WorkReload, GoodWork
    <2> QED BY <1>1, <2>1, ListGood
  <1>4. Good(conf)'
    <2>1. CASE UNCHANGED conf
      BY <1>0, <1>1, <2>1 DEF Good
    <2>2. CASE WorkStoreInConfig(w)
      <3>1. conf' = UpdateToken(conf, old.got) /\ Good(UpdateToken(conf, old.got))
        BY <1>0, <2>2, UpdatedGood DEF WorkStoreInConfig, GoodWork
      <3> QED BY <1>1, <3>1 DEF Good
    <2>3. CASE WorkBan(w)
      <3>1. conf' = [old.copy EXCEPT !.enabled = FALSE] /\ revoked
        BY <1>0, <2>3 DEF WorkBan, GoodWork
      <3> QED BY <1>0, <1>1, <3>1 DEF Good, GoodWork, Record
    <2> QED BY <2>1, <2>2, <2>3 DEF WorkStep, StartWork, WorkGranted, WorkRefused,
                  WorkUnanswered, WorkStoreInPool, WorkReload
  <1>5. \E m : GoodWork(m) /\ work' = [work EXCEPT ![w] = m]
    <2>1. CASE StartWork(w)
      <3> DEFINE m == [NoWork EXCEPT !.pc = "asking", !.copy = conf, !.sent = conf.refresh]
      <3>1. GoodWork(m)
        BY <1>0, <1>2 DEF GoodWork, NoWork, Good
      <3> QED BY <2>1, <3>1 DEF StartWork
    <2>2. CASE WorkGranted(w)
      <3> DEFINE m == [old EXCEPT !.pc = "persist", !.got = Answer]
      <3>1. Answer.refresh = Keep
        BY DEF Answer
      <3>2. GoodWork(m)
        BY <1>0, <3>1 DEF WorkRecord, GoodWork
      <3>3. work' = [work EXCEPT ![w] = m]
        BY <2>2 DEF WorkGranted
      <3> QED BY <3>2, <3>3
    <2>3. CASE WorkRefused(w)
      <3> DEFINE m == IF w \in Warmups THEN [old EXCEPT !.pc = "refused"] ELSE NoWork
      <3>1. revoked
        BY <1>0, <2>3 DEF WorkRefused, Accepts, GoodWork
      <3>2. GoodWork(m)
        BY <1>0, <1>2, <3>1 DEF WorkRecord, GoodWork
      <3>3. work' = [work EXCEPT ![w] = m]
        BY <2>3 DEF WorkRefused
      <3> QED BY <3>2, <3>3
    <2>4. CASE WorkUnanswered(w) \/ WorkReload(w)
      BY <1>2, <2>4 DEF WorkUnanswered, WorkReload
    <2>5. CASE WorkStoreInConfig(w)
      <3> DEFINE m == [old EXCEPT !.pc = "memory"]
      <3>1. GoodWork(m)
        BY <1>0 DEF WorkRecord, GoodWork
      <3>2. work' = [work EXCEPT ![w] = m]
        BY <2>5 DEF WorkStoreInConfig
      <3> QED BY <3>1, <3>2
    <2>6. CASE WorkStoreInPool(w)
      <3> DEFINE m == IF w \in Warmups THEN [old EXCEPT !.pc = "reload"] ELSE NoWork
      <3>1. GoodWork(m)
        BY <1>0, <1>2 DEF WorkRecord, GoodWork
      <3>2. work' = [work EXCEPT ![w] = m]
        BY <2>6 DEF WorkStoreInPool
      <3> QED BY <3>1, <3>2
    <2>7. CASE WorkBan(w)
      <3> DEFINE m == [old EXCEPT !.pc = "reload"]
      <3>1. GoodWork(m)
        BY <1>0 DEF WorkRecord, GoodWork
      <3>2. work' = [work EXCEPT ![w] = m]
        BY <2>7 DEF WorkBan
      <3> QED BY <3>1, <3>2
    <2> QED BY <2>1, <2>2, <2>3, <2>4, <2>5, <2>6, <2>7 DEF WorkStep
  <1>6. \A v \in Workers : GoodWork(work[v])'
    <2>1. \A v \in Workers : GoodWork(work[v])
      BY DEF KeptInv, GoodWork
    <2>2. \A v \in Workers : \E m : GoodWork(m) /\ work'[v] = m
      BY <1>5, <2>1 DEF Shapes
    <2> QED BY <1>1, <2>2 DEF GoodWork, Good
  <1> QED BY <1>1, <1>3, <1>4, <1>6 DEF KeptInv, GoodWork, Good

\* An editor's step.
LEMMA KeptEdit ==
    ASSUME Shapes, KeptInv, NEW e \in Editors, EditStep(e)
    PROVE  KeptInv'
  <1>1. UNCHANGED <<req, work, revoked>>
    BY DEF EditStep, EditRead, EditWrite, EditReload
  <1>2. UNCHANGED <<list, pool>> \/ Reload
    BY DEF EditStep, EditRead, EditWrite, EditReload
  <1>3. \A s \in Slots : list'[s] # Gone => Good(list[s])'
    BY <1>1, <1>2, ListGood
  <1>4. conf' \in {conf, edit[e].copy}
    BY DEF EditStep, EditRead, EditWrite, EditReload
  <1>5. edit[e] \in EditRecord /\ Fresh.refresh = 0 /\ Fresh.enabled
    BY DEF Shapes, Fresh
  <1>6. \A f \in Editors : edit'[f].copy \in {edit[f].copy, conf, Fresh}
    BY <1>5 DEF EditStep, EditRead, EditWrite, EditReload, NoEdit, Shapes, EditRecord
  <1> QED BY <1>1, <1>3, <1>4, <1>5, <1>6 DEF KeptInv, Good

\* Every step keeps what can be written back good.
LEMMA KeptStep ==
    ASSUME ~Rotates, TypeOK, KeptInv, [Next]_vars
    PROVE  KeptInv'
  <1>0. Shapes /\ Section /\ Listed
    BY TypeParts
  <1>1. CASE \E r \in Requests : RequestStep(r)
    BY <1>0, <1>1, KeptRequest
  <1>2. CASE \E w \in Workers : WorkStep(w)
    BY <1>0, <1>2, KeptWork
  <1>3. CASE \E e \in Editors : EditStep(e)
    BY <1>0, <1>3, KeptEdit
  <1>4. CASE Expire \/ Revoke \/ UNCHANGED vars
    <2>1. UNCHANGED <<conf, list, work, edit, req>> /\ (revoked => revoked')
      BY <1>4 DEF Expire, Revoke, vars
    <2> QED BY <2>1 DEF KeptInv, Good
  <1> QED BY <1>1, <1>2, <1>3, <1>4 DEF Next

\* At the start every copy is good.
LEMMA KeptInit == Init => KeptInv
  BY DEF Init, KeptInv, Good, Fresh, NoRequest, NoWork, NoEdit, NoAnswer

\* Where the refresh token stays the same no party sends another one, ...
THEOREM KeptSendsCurrent ==
    ASSUME ~Rotates
    PROVE  Spec => []SendsCurrentToken
  <1>1. KeptInv => SendsCurrentToken
    BY DEF KeptInv, SendsCurrentToken, Accepts
  <1>2. TypeOK /\ KeptInv /\ [Next]_vars => KeptInv'
    BY KeptStep
  <1> QED BY <1>1, <1>2, KeptInit, TypeInit, TypeStep, PTL DEF Spec

\* ... the credentials on record stay good, whatever stale copies requests, warmup,
\* refreshes by hand and edits write back, ...
THEOREM KeptRecordIsCurrent ==
    ASSUME ~Rotates
    PROVE  Spec => []RecordIsCurrent
  <1>1. KeptInv => RecordIsCurrent
    BY DEF KeptInv, Good, RecordIsCurrent, Accepts
  <1>2. TypeOK /\ KeptInv /\ [Next]_vars => KeptInv'
    BY KeptStep
  <1> QED BY <1>1, <1>2, KeptInit, TypeInit, TypeStep, PTL DEF Spec

\* ... and none of them disables an account that the provider would still serve
\* (account_failover.go:30-32, 229-230).
THEOREM KeptBannedOnlyIfRefused ==
    ASSUME ~Rotates
    PROVE  Spec => BannedOnlyIfRefused
  <1>1. KeptInv /\ KeptInv' /\ [Next]_vars
           => [conf.enabled /\ ~conf'.enabled => ~Accepts(conf.refresh)]_vars
    <2> SUFFICES ASSUME KeptInv, KeptInv', Next, conf.enabled, ~conf'.enabled
                 PROVE  revoked
      BY DEF Accepts, vars
    <2>1. revoked'
      BY DEF KeptInv, Good
    <2>2. CASE Revoke
      BY <2>2 DEF Revoke
    <2>3. CASE \E r \in Requests : RequestStep(r)
      BY <2>1, <2>3 DEF RequestStep, Holding, Pick, PickCopy, Check, Lock, Granted, Refused,
         Unanswered, StoreInPool, StoreInConfig, Serve, Ban, BanReload
    <2>4. CASE \E w \in Workers : WorkStep(w)
      BY <2>1, <2>4 DEF WorkStep, StartWork, WorkGranted, WorkRefused, WorkUnanswered,
         WorkStoreInConfig, WorkStoreInPool, WorkBan, WorkReload
    <2>5. CASE (\E e \in Editors : EditStep(e)) \/ Expire
      BY <2>1, <2>5 DEF EditStep, EditRead, EditWrite, EditReload, Expire
    <2> QED BY <2>2, <2>3, <2>4, <2>5 DEF Next
  <1>2. TypeOK /\ KeptInv /\ [Next]_vars => KeptInv'
    BY KeptStep
  <1> QED BY <1>1, <1>2, KeptInit, TypeInit, TypeStep, PTL DEF Spec, BannedOnlyIfRefused
=============================================================================
