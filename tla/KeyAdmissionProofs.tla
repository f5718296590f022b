------------------------- MODULE KeyAdmissionProofs -------------------------
(***************************************************************************)
(* What the limiter of KeyAdmission guarantees, for any number of keys,    *)
(* requests and operators and any limits: the types; that its counter for  *)
(* a key is the number of requests under way and that no more of them than *)
(* the concurrency limit are let in, where no such limit is zero (see      *)
(* AllLimitsCount); and that the rolling minute holds no more than the rpm *)
(* limit, from windows that follow the log of what was let in.             *)
(***************************************************************************)
EXTENDS KeyAdmission, FiniteSetTheorems, SequenceTheorems, TLAPS

-----------------------------------------------------------------------------
(* The key table. *)

LEMMA PatchedType ==
    ASSUME NEW e \in ApiKeyEntry, NEW p \in ApiKeyEntry
    PROVE  Patched(e, p) \in ApiKeyEntry /\ Patched(e, p).id = p.id
  BY DEF Patched, ApiKeyEntry

\* An edit of one field of a well-formed entry is a well-formed entry.
LEMMA EditedType ==
    ASSUME NEW e \in ApiKeyEntry, NEW f \in EditableFields, NEW v \in EditValues[f]
    PROVE  [e EXCEPT ![f] = v] \in ApiKeyEntry /\ [e EXCEPT ![f] = v].id = e.id
  <1>1. CASE f = "secret"           BY <1>1 DEF EditValues, ApiKeyEntry
  <1>2. CASE f = "enabled"          BY <1>2 DEF EditValues, ApiKeyEntry
  <1>3. CASE f = "tokenLimit"       BY <1>3 DEF EditValues, ApiKeyEntry
  <1>4. CASE f = "rpmLimit"         BY <1>4 DEF EditValues, ApiKeyEntry
  <1>5. CASE f = "concurrencyLimit" BY <1>5 DEF EditValues, ApiKeyEntry
  <1> QED BY <1>1, <1>2, <1>3, <1>4, <1>5 DEF EditableFields

LEMMA AdminStepKeyType ==
    ASSUME KeyTypeOK, AdminStep
    PROVE  KeyTypeOK'
  <1> USE DEF KeyTypeOK, Configured
  <1>1. ASSUME NEW k \in KeyIds, NEW s \in Secrets, NEW en \in BOOLEAN,
               NEW tl \in TokenLimits, NEW rl \in RpmLimits, NEW cl \in ConcurrencyLimits,
               AddApiKey(k, NewEntry(k, s, en, tl, rl, cl))
        PROVE  KeyTypeOK'
    <2>1. NewEntry(k, s, en, tl, rl, cl) \in ApiKeyEntry /\ NewEntry(k, s, en, tl, rl, cl).id = k
      BY DEF NewEntry, ApiKeyEntry
    <2> QED BY <1>1, <2>1 DEF AddApiKey
  <1>2. ASSUME NEW a \in Admins, NEW k \in KeyIds, NEW f \in EditFields,
               NEW v \in EditValues[f], OpenEdit(a, k, f, v)
        PROVE  KeyTypeOK'
    <2> DEFINE patch == [keys[k] EXCEPT ![f] = v]
    <2>1. f \in EditableFields
      BY SecretsAssumption DEF EditableFields
    <2>2. keys[k] \in ApiKeyEntry /\ keys[k].id = k /\ k \in issued
      BY <1>2 DEF OpenEdit
    <2>3. patch \in ApiKeyEntry /\ patch.id = k
      BY <2>1, <2>2, EditedType
    <2> DEFINE edit == [open |-> TRUE, field |-> f, patch |-> patch]
    <2>4. edit \in Edit /\ edit.patch.id \in issued
      BY <2>1, <2>2, <2>3 DEF Edit
    <2>5. admin' = [admin EXCEPT ![a] = edit] /\ UNCHANGED <<keys, issued, requireApiKey, legacyKey>>
      BY <1>2 DEF OpenEdit
    <2> HIDE DEF edit
    <2>6. admin' \in [Admins -> Edit \cup {NoEdit}]
      BY <2>4, <2>5
    <2>7. ASSUME NEW b \in Admins, admin'[b].open
          PROVE  admin'[b].patch.id \in issued'
      BY <2>4, <2>5, <2>7
    <2> QED BY <2>5, <2>6, <2>7
  <1>3. ASSUME NEW a \in Admins, UpdateApiKey(a)
        PROVE  KeyTypeOK'
    <2>1. admin[a].patch \in ApiKeyEntry
      <3>1. ~NoEdit.open
        BY DEF NoEdit
      <3>2. admin[a] # NoEdit
        BY <1>3, <3>1 DEF UpdateApiKey
      <3>3. admin[a] \in Edit
        BY <3>2
      <3> QED BY <3>3 DEF Edit
    <2>2. admin' \in [Admins -> Edit \cup {NoEdit}] /\ \A b \in Admins : admin'[b].open => admin'[b].patch.id \in issued'
      BY <1>3 DEF UpdateApiKey, NoEdit
    <2> QED BY <1>3, <2>1, <2>2, PatchedType DEF UpdateApiKey
  <1>4. ASSUME NEW k \in KeyIds, DeleteApiKey(k)
        PROVE  KeyTypeOK'
    BY <1>4 DEF DeleteApiKey
  <1>5. ASSUME NEW k \in KeyIds, ResetApiKeyUsage(k)
        PROVE  KeyTypeOK'
    BY <1>5 DEF ResetApiKeyUsage, ApiKeyEntry
  <1>6. ASSUME NEW require \in RequireValues, NEW legacy \in LegacyKeys,
               UpdateSettings(require, legacy)
        PROVE  KeyTypeOK'
    BY <1>6 DEF UpdateSettings
  <1> QED BY <1>1, <1>2, <1>3, <1>4, <1>5, <1>6 DEF AdminStep

LEMMA RecordUsageKeyType ==
    ASSUME KeyTypeOK, NEW k \in KeyIds, NEW cost \in Costs, RecordApiKeyUsage(k, cost)
    PROVE  KeyTypeOK'
  <1>1. cost \in Nat
    BY RequestsAssumption
  <1> QED BY <1>1 DEF RecordApiKeyUsage, KeyTypeOK, Configured, ApiKeyEntry

-----------------------------------------------------------------------------
(* The limiter. *)

LEMMA SuffixType ==
    ASSUME NEW w \in Seq(Nat), NEW m \in Nat
    PROVE  SubSeq(w, m + 1, Len(w)) \in Seq(Nat)
  OBVIOUS

\* Dropping the stale front of a window leaves a window.
LEMMA RecentType ==
    ASSUME NEW w \in Seq(Nat), now \in Nat
    PROVE  Recent(w) \in Seq(Nat)
  <1> DEFINE n == Cardinality(Stale(w))
  <1>1. Len(w) \in Nat /\ DOMAIN w = 1..Len(w) /\ \A i \in 1..Len(w) : w[i] \in Nat
    BY LenProperties, ElementOfSeq
  <1>2. IsFiniteSet(1..Len(w))
    BY <1>1, FS_Interval
  <1>3. n \in Nat
    BY <1>1, <1>2, FS_Subset, FS_CardinalityType DEF Stale
  <1> HIDE DEF n
  <1>4. SubSeq(w, n + 1, Len(w)) \in Seq(Nat)
    BY <1>3, SuffixType
  <1> QED BY <1>4 DEF Recent, Without, n

LEMMA GrantType ==
    ASSUME LimiterTypeOK, now \in Nat, NEW e \in ApiKeyEntry, Grant(e)
    PROVE  LimiterTypeOK'
  <1>1. e.id \in LimitedIds
    BY RequestsAssumption DEF ApiKeyEntry
  <1>2. windows[e.id] \in Seq(Nat)
    BY <1>1 DEF LimiterTypeOK
  <1>3. Append(Recent(windows[e.id]), now) \in Seq(Nat)
    BY <1>2, RecentType, AppendProperties
  <1>4. CASE Unlimited(e) /\ UNCHANGED limiterVars
    BY <1>4 DEF LimiterTypeOK, limiterVars
  <1>5. ASSUME windows' = IF e.rpmLimit > 0
                            THEN [windows EXCEPT ![e.id] = Append(Recent(windows[e.id]), now)]
                            ELSE windows,
               inflight' = IF CountsInflight(e)
                             THEN [inflight EXCEPT ![e.id] = inflight[e.id] + 1]
                             ELSE inflight
        PROVE  LimiterTypeOK'
    <2>1. windows' \in [LimitedIds -> Seq(Nat)]
      BY <1>1, <1>3, <1>5 DEF LimiterTypeOK
    <2>2. inflight' \in [LimitedIds -> Nat]
      BY <1>1, <1>5 DEF LimiterTypeOK
    <2> QED BY <2>1, <2>2 DEF LimiterTypeOK
  <1> QED BY <1>4, <1>5 DEF Grant

LEMMA RefuseType ==
    ASSUME LimiterTypeOK, now \in Nat, NEW e \in ApiKeyEntry, Refuse(e)
    PROVE  LimiterTypeOK'
  <1>1. e.id \in LimitedIds
    BY RequestsAssumption DEF ApiKeyEntry
  <1>2. Recent(windows[e.id]) \in Seq(Nat)
    BY <1>1, RecentType DEF LimiterTypeOK
  <1> QED BY <1>1, <1>2 DEF Refuse, LimiterTypeOK, limiterVars

LEMMA ReleaseType ==
    ASSUME LimiterTypeOK, NEW k \in KeyIds, Release(k)
    PROVE  LimiterTypeOK'
  BY RequestsAssumption DEF Release, LimiterTypeOK

-----------------------------------------------------------------------------
(* Requests. *)

\* What the program counter of a request says of the rest of its record: a
\* request at the limiter carries the entry it authenticated with, and so does
\* one that must release; Acquire counted it exactly if that entry has a
\* concurrency limit.
RequestInv ==
    \A r \in Requests :
        /\ req[r].pc \in {"recheck", "acquire"} => req[r].entry # NoEntry
        /\ req[r].limited => req[r].pc \in {"running", "billed"} /\ req[r].entry # NoEntry
        /\ req[r].slot <=> req[r].limited /\ CountsInflight(req[r].entry)

Inv == TypeOK /\ RequestInv

\* A step that moves one request to a well-formed record keeps the others.
LEMMA OneRequestMoves ==
    ASSUME Inv, NEW r \in Requests, NEW q \in Request,
           req' = [req EXCEPT ![r] = q],
           q.pc \in {"recheck", "acquire"} => q.entry # NoEntry,
           q.limited => q.pc \in {"running", "billed"} /\ q.entry # NoEntry,
           q.slot <=> q.limited /\ CountsInflight(q.entry)
    PROVE  req' \in [Requests -> Request] /\ RequestInv'
  <1>1. req' \in [Requests -> Request]
    BY DEF Inv, TypeOK
  <1>2. ASSUME NEW s \in Requests
        PROVE  req'[s] = IF s = r THEN q ELSE req[s]
    BY DEF Inv, TypeOK
  <1>3. ASSUME NEW s \in Requests
        PROVE  /\ req'[s].pc \in {"recheck", "acquire"} => req'[s].entry # NoEntry
               /\ req'[s].limited => req'[s].pc \in {"running", "billed"} /\ req'[s].entry # NoEntry
               /\ req'[s].slot <=> req'[s].limited /\ CountsInflight(req'[s].entry)
    <2>1. CASE s = r
      BY <1>2, <2>1
    <2>2. CASE s # r
      BY <1>2, <2>2 DEF Inv, RequestInv
    <2> QED BY <2>1, <2>2
  <1>4. RequestInv'
    BY <1>3 DEF RequestInv, CountsInflight
  <1> QED BY <1>1, <1>4

LEMMA IdleIsRequest == Idle \in Request /\ ~Idle.limited /\ ~Idle.slot /\ Idle.pc = "idle"
  BY DEF Idle, Request

\* The entry FindApiKeyByValue returns is one of the table's.
LEMMA FindType ==
    ASSUME KeyTypeOK, NEW secret
    PROVE  FindApiKeyByValue(secret) \in ApiKeyEntry \cup {NoEntry}
  BY DEF FindApiKeyByValue, KeyTypeOK, Configured

-----------------------------------------------------------------------------
(* Every step keeps the invariant. *)

LEMMA KeyTypeFrame ==
    ASSUME KeyTypeOK, UNCHANGED keyVars
    PROVE  KeyTypeOK'
  BY DEF KeyTypeOK, keyVars, Configured

LEMMA LimiterTypeFrame ==
    ASSUME LimiterTypeOK, UNCHANGED limiterVars
    PROVE  LimiterTypeOK'
  BY DEF LimiterTypeOK, limiterVars

LEMMA GotoKeeps ==
    ASSUME Inv, NEW r \in Requests, NEW pc \in Steps, Goto(r, pc),
           ~req[r].limited \/ pc = "billed",
           req[r].entry # NoEntry \/ pc \notin {"recheck", "acquire"}
    PROVE  req' \in [Requests -> Request] /\ RequestInv'
  <1> DEFINE q == [req[r] EXCEPT !.pc = pc]
  <1>1. req[r] \in Request
    BY DEF Inv, TypeOK
  <1>2. /\ q \in Request /\ q.pc = pc /\ q.entry = req[r].entry
        /\ q.limited = req[r].limited /\ q.slot = req[r].slot
    BY <1>1 DEF Request, Steps
  <1>3. req' = [req EXCEPT ![r] = q]
    BY DEF Goto
  <1> HIDE DEF q
  <1>4. /\ q.limited => q.pc \in {"running", "billed"} /\ q.entry # NoEntry
        /\ q.slot <=> q.limited /\ CountsInflight(q.entry)
    BY <1>2 DEF Inv, RequestInv
  <1> QED BY <1>2, <1>3, <1>4, OneRequestMoves

LEMMA RejectKeeps ==
    ASSUME Inv, NEW r \in Requests, Reject(r)
    PROVE  req' \in [Requests -> Request] /\ RequestInv'
  BY IdleIsRequest, OneRequestMoves DEF Reject

\* The steps of authenticate, and the second read of the switch, move one
\* request and nothing else.
LEMMA AuthenticateKeeps ==
    ASSUME Inv, NEW r \in Requests,
           \/ \E secret \in Secrets \cup {NoSecret} : Arrive(r, secret)
           \/ ReadHasApiKeys(r) \/ FindEntry(r) \/ MatchLegacyKey(r) \/ RecheckRequired(r)
    PROVE  req' \in [Requests -> Request] /\ RequestInv'
  <1>0. req[r] \in Request /\ (req[r].limited => req[r].pc \in {"running", "billed"})
    BY DEF Inv, TypeOK, RequestInv
  <1>1. ASSUME NEW secret \in Secrets \cup {NoSecret}, Arrive(r, secret)
        PROVE  req' \in [Requests -> Request] /\ RequestInv'
    <2> DEFINE q == [Idle EXCEPT !.pc = "hasKeys", !.provided = secret, !.required = requireApiKey]
    <2>1. requireApiKey \in BOOLEAN
      BY SecretsAssumption DEF Inv, TypeOK, KeyTypeOK
    <2>2. q \in Request /\ q.pc = "hasKeys" /\ ~q.limited /\ ~q.slot
      BY <2>1 DEF Idle, Request, Steps
    <2>3. req' = [req EXCEPT ![r] = q]
      BY <1>1 DEF Arrive
    <2> HIDE DEF q
    <2> QED BY <2>2, <2>3, OneRequestMoves
  <1>2. CASE ReadHasApiKeys(r)
    <2>1. ~req[r].limited
      BY <1>0, <1>2 DEF ReadHasApiKeys
    <2>2. Reject(r) \/ \E pc \in {"running", "legacy", "find"} : Goto(r, pc)
      BY <1>2 DEF ReadHasApiKeys
    <2> QED BY <2>1, <2>2, GotoKeeps, RejectKeeps DEF Steps
  <1>3. CASE FindEntry(r)
    <2> DEFINE e == FindApiKeyByValue(req[r].provided)
    <2>1. ~req[r].limited /\ ~req[r].slot
      BY <1>0, <1>3 DEF FindEntry, Inv, RequestInv
    <2>2. \/ Reject(r)
          \/ Goto(r, "running")
          \/ e # NoEntry /\ req' = [req EXCEPT ![r].pc = "recheck", ![r].entry = e]
      BY <1>3 DEF FindEntry, Admissible
    <2>3. ASSUME e # NoEntry, req' = [req EXCEPT ![r].pc = "recheck", ![r].entry = e]
          PROVE  req' \in [Requests -> Request] /\ RequestInv'
      <3> DEFINE q == [req[r] EXCEPT !.pc = "recheck", !.entry = e]
      <3>1. e \in ApiKeyEntry
        BY <2>3, FindType DEF Inv, TypeOK
      <3> HIDE DEF e
      <3>2. q \in Request /\ q.pc = "recheck" /\ q.entry # NoEntry /\ ~q.limited /\ ~q.slot
        BY <1>0, <2>1, <2>3, <3>1 DEF Request, Steps
      <3>3. req' = [req EXCEPT ![r] = q]
        BY <2>3
      <3> HIDE DEF q
      <3> QED BY <3>2, <3>3, OneRequestMoves
    <2> QED BY <2>1, <2>2, <2>3, GotoKeeps, RejectKeeps DEF Steps
  <1>4. CASE MatchLegacyKey(r)
    BY <1>0, <1>4, GotoKeeps, RejectKeeps DEF MatchLegacyKey, Steps
  <1>5. CASE RecheckRequired(r)
    <2>1. ~req[r].limited /\ req[r].entry # NoEntry
      BY <1>0, <1>5 DEF RecheckRequired, Inv, RequestInv
    <2>2. \E pc \in {"acquire", "running"} : Goto(r, pc)
      BY <1>5 DEF RecheckRequired
    <2> QED BY <2>1, <2>2, GotoKeeps DEF Steps
  <1> QED BY <1>1, <1>2, <1>3, <1>4, <1>5

\* The history variable follows the state it is about.
LEMMA RememberType ==
    ASSUME Inv, Next
    PROVE  seen' \in [Requests -> SUBSET Grounds]
  <1>1. Remember
    BY DEF Next, Progress, Operate, Tick, Arrive, ReadHasApiKeys, FindEntry, MatchLegacyKey,
           RecheckRequired, AcquireGranted, AcquireRefused, Bill, Finish
  <1>2. \A r \in Requests : Settled(seen[r] \cup Holding(r)') \in SUBSET Grounds
    <2>1. \A r \in Requests : seen[r] \in SUBSET Grounds /\ Holding(r)' \in SUBSET Grounds
      BY DEF Inv, TypeOK, Holding, Grounds
    <2> QED BY <2>1 DEF Settled, Grounds
  <1> QED BY <1>1, <1>2 DEF Remember

LEMMA StepKeepsInv ==
    ASSUME Inv, Next
    PROVE  Inv'
  <1> USE DEF Inv, TypeOK
  <1>0. seen' \in [Requests -> SUBSET Grounds]
    BY RememberType
  <1>1. ASSUME NEW r \in Requests,
               \/ \E secret \in Secrets \cup {NoSecret} : Arrive(r, secret)
               \/ ReadHasApiKeys(r) \/ FindEntry(r) \/ MatchLegacyKey(r) \/ RecheckRequired(r)
        PROVE  Inv'
    <2>1. UNCHANGED <<keyVars, limiterVars, now, admitLog>>
      BY <1>1 DEF Arrive, ReadHasApiKeys, FindEntry, MatchLegacyKey, RecheckRequired
    <2>2. req' \in [Requests -> Request] /\ RequestInv'
      BY <1>1, AuthenticateKeeps
    <2> QED BY <1>0, <2>1, <2>2, KeyTypeFrame, LimiterTypeFrame
  <1>2. ASSUME NEW r \in Requests, AcquireGranted(r)
        PROVE  Inv'
    <2> DEFINE e == req[r].entry
               q == [req[r] EXCEPT !.pc = "running", !.limited = TRUE, !.slot = CountsInflight(e)]
    <2>1. e \in ApiKeyEntry /\ e # NoEntry
      BY <1>2 DEF AcquireGranted, RequestInv, Request
    <2>2. CountsInflight(e) \in BOOLEAN
      BY DEF CountsInflight
    <2>3. /\ q \in Request /\ q.pc = "running" /\ q.entry = e
          /\ q.limited /\ q.slot = CountsInflight(e)
      BY <2>2 DEF Request, Steps
    <2>4. req' = [req EXCEPT ![r] = q] /\ Grant(e) /\ UNCHANGED <<keyVars, now>>
      BY <1>2 DEF AcquireGranted
    <2>5. now \in Nat
      BY RequestsAssumption
    <2>6. admitLog' \in [KeyIds -> Seq(Nat)]
      <3>1. e.id \in KeyIds
        BY <2>1 DEF ApiKeyEntry
      <3>2. Append(admitLog[e.id], now) \in Seq(Nat)
        BY <2>5, <3>1, AppendProperties
      <3> QED BY <1>2, <3>1, <3>2 DEF AcquireGranted
    <2> HIDE DEF q, e
    <2>7. req' \in [Requests -> Request] /\ RequestInv'
      BY <2>1, <2>3, <2>4, OneRequestMoves
    <2>8. LimiterTypeOK'
      BY <2>1, <2>4, <2>5, GrantType
    <2> QED BY <1>0, <2>4, <2>6, <2>7, <2>8, KeyTypeFrame
  <1>3. ASSUME NEW r \in Requests, AcquireRefused(r)
        PROVE  Inv'
    <2>1. req[r].entry \in ApiKeyEntry
      BY <1>3 DEF AcquireRefused, RequestInv, Request
    <2>2. now \in Nat
      BY RequestsAssumption
    <2>3. LimiterTypeOK'
      BY <1>3, <2>1, <2>2, RefuseType DEF AcquireRefused
    <2>4. req' \in [Requests -> Request] /\ RequestInv'
      BY <1>3, RejectKeeps DEF AcquireRefused
    <2> QED BY <1>0, <1>3, <2>3, <2>4, KeyTypeFrame DEF AcquireRefused
  <1>4. ASSUME NEW r \in Requests, NEW cost \in Costs, Bill(r, cost)
        PROVE  Inv'
    <2>1. req[r].entry \in ApiKeyEntry
      BY <1>4 DEF Bill, Request
    <2>2. req[r].entry.id \in KeyIds
      BY <2>1 DEF ApiKeyEntry
    <2>3. KeyTypeOK'
      BY <1>4, <2>2, RecordUsageKeyType DEF Bill
    <2>4. req' \in [Requests -> Request] /\ RequestInv'
      BY <1>4, GotoKeeps DEF Bill, Steps
    <2> QED BY <1>0, <1>4, <2>3, <2>4, LimiterTypeFrame DEF Bill
  <1>5. ASSUME NEW r \in Requests, Finish(r)
        PROVE  Inv'
    <2>1. LimiterTypeOK'
      <3>1. CASE req[r].limited
        <4>1. req[r].entry \in ApiKeyEntry
          BY <3>1 DEF RequestInv, Request
        <4>2. req[r].entry.id \in KeyIds
          BY <4>1 DEF ApiKeyEntry
        <4> QED BY <1>5, <3>1, <4>2, ReleaseType DEF Finish
      <3>2. CASE ~req[r].limited
        BY <1>5, <3>2, LimiterTypeFrame DEF Finish
      <3> QED BY <3>1, <3>2
    <2>2. req' \in [Requests -> Request] /\ RequestInv'
      BY <1>5, IdleIsRequest, OneRequestMoves DEF Finish
    <2> QED BY <1>0, <1>5, <2>1, <2>2, KeyTypeFrame DEF Finish
  <1>6. CASE Operate
    BY <1>0, <1>6, AdminStepKeyType, LimiterTypeFrame DEF Operate, RequestInv, CountsInflight
  <1>7. CASE Tick
    <2>1. now' \in 0..MaxTime
      BY <1>7, RequestsAssumption DEF Tick
    <2> QED BY <1>0, <1>7, <2>1, KeyTypeFrame, LimiterTypeFrame DEF Tick, RequestInv, CountsInflight
  <1> QED BY <1>1, <1>2, <1>3, <1>4, <1>5, <1>6, <1>7 DEF Next, Progress

LEMMA InitInv ==
    ASSUME Init
    PROVE  Inv
  <1>1. KeyTypeOK
    BY DEF Init, KeyInit, KeyTypeOK, Configured, NoEdit
  <1>2. LimiterTypeOK /\ now \in 0..MaxTime /\ admitLog \in [KeyIds -> Seq(Nat)]
    BY RequestsAssumption DEF Init, LimiterInit, LimiterTypeOK
  <1>3. req \in [Requests -> Request] /\ RequestInv
    BY IdleIsRequest DEF Init, RequestInv
  <1> QED BY <1>1, <1>2, <1>3 DEF Inv, TypeOK, Init

LEMMA Invariance == Spec => []Inv
  <1>1. Inv /\ UNCHANGED vars => Inv'
    BY DEF Inv, TypeOK, RequestInv, CountsInflight, vars, keyVars, limiterVars,
           KeyTypeOK, LimiterTypeOK, Configured
  <1> QED BY <1>1, InitInv, StepKeepsInv, PTL DEF Spec

\* KeyAdmission never leaves its types: the limiter's counters never go below
\* zero, entries stay under their own ids, an open edit carries a whole entry.
THEOREM TypeCorrect == Spec => []TypeOK
  BY Invariance, PTL DEF Inv

-----------------------------------------------------------------------------
(* The in-flight counter is exact. *)

\* Every limit an operator can set counts.  Without this the counter is not
\* exact: Release also serves requests that were let in uncounted.
AllLimitsCount == \A c \in ConcurrencyLimits : c > 0

LEMMA HoldersFinite ==
    ASSUME NEW k
    PROVE  IsFiniteSet(Holders(k)) /\ Cardinality(Holders(k)) \in Nat
  <1>1. Holders(k) \in SUBSET Requests
    BY DEF Holders
  <1> QED BY <1>1, RequestsAssumption, FS_Subset, FS_CardinalityType

LEMMA EntryCounts ==
    ASSUME AllLimitsCount, NEW e \in ApiKeyEntry
    PROVE  CountsInflight(e) /\ ~Unlimited(e)
  <1>1. e.concurrencyLimit \in ConcurrencyLimits /\ e.concurrencyLimit \in Nat /\ e.rpmLimit \in Nat
    BY LimitsAssumption DEF ApiKeyEntry
  <1> QED BY <1>1 DEF AllLimitsCount, CountsInflight, Unlimited

\* A step that changes neither the counters nor who holds a slot.
LEMMA HoldersFrame ==
    ASSUME InflightExact, UNCHANGED inflight,
           \A s \in Requests : /\ req'[s].slot <=> req[s].slot
                               /\ req[s].slot => req'[s].entry = req[s].entry
    PROVE  InflightExact'
  <1>1. \A k \in KeyIds : Holders(k)' = Holders(k)
    BY DEF Holders
  <1> QED BY <1>1 DEF InflightExact

\* One request moves, and holds no slot before or after.
LEMMA NoSlotMoves ==
    ASSUME Inv, InflightExact, UNCHANGED inflight, NEW r \in Requests, NEW q,
           req' = [req EXCEPT ![r] = q], ~req[r].slot, ~q.slot
    PROVE  InflightExact'
  <1>1. \A s \in Requests : req'[s] = IF s = r THEN q ELSE req[s]
    BY DEF Inv, TypeOK
  <1>2. \A s \in Requests : /\ req'[s].slot <=> req[s].slot
                            /\ req[s].slot => req'[s].entry = req[s].entry
    BY <1>1
  <1> QED BY <1>2, HoldersFrame

LEMMA GrantExact ==
    ASSUME AllLimitsCount, Inv, InflightExact, NEW r \in Requests, AcquireGranted(r)
    PROVE  InflightExact'
  <1> DEFINE e == req[r].entry
             q == [req[r] EXCEPT !.pc = "running", !.limited = TRUE, !.slot = CountsInflight(e)]
  <1>1. e \in ApiKeyEntry /\ e.id \in KeyIds /\ ~req[r].slot
    BY DEF AcquireGranted, Inv, TypeOK, RequestInv, Request, ApiKeyEntry
  <1>2. CountsInflight(e) /\ ~Unlimited(e)
    BY <1>1, EntryCounts
  <1>3. req[r] \in Request
    BY DEF Inv, TypeOK
  <1>4. q.slot /\ q.entry = e
    BY <1>2, <1>3 DEF Request
  <1>5. \A s \in Requests : req'[s] = IF s = r THEN q ELSE req[s]
    BY DEF AcquireGranted, Inv, TypeOK
  <1> HIDE DEF q
  <1>6. inflight' = [inflight EXCEPT ![e.id] = inflight[e.id] + 1] /\ inflight \in [KeyIds -> Nat]
    BY <1>2, RequestsAssumption DEF AcquireGranted, Grant, Inv, TypeOK, LimiterTypeOK
  <1>7. ASSUME NEW k \in KeyIds
        PROVE  inflight'[k] = Cardinality(Holders(k)')
    <2>1. CASE k = e.id
      <3>1. Holders(k)' = Holders(k) \cup {r}
        BY <1>4, <1>5, <2>1 DEF Holders
      <3>2. r \notin Holders(k)
        BY <1>1 DEF Holders
      <3>3. Cardinality(Holders(k)') = Cardinality(Holders(k)) + 1
        BY <3>1, <3>2, HoldersFinite, FS_AddElement
      <3> QED BY <1>6, <2>1, <3>3 DEF InflightExact
    <2>2. CASE k # e.id
      <3>1. Holders(k)' = Holders(k)
        BY <1>1, <1>4, <1>5, <2>2 DEF Holders
      <3> QED BY <1>6, <2>2, <3>1 DEF InflightExact
    <2> QED BY <2>1, <2>2
  <1> QED BY <1>7 DEF InflightExact, Holders

LEMMA FinishExact ==
    ASSUME AllLimitsCount, Inv, InflightExact, NEW r \in Requests, Finish(r)
    PROVE  InflightExact'
  <1>1. req' = [req EXCEPT ![r] = Idle]
    BY DEF Finish
  <1>2. CASE ~req[r].limited
    <2>1. UNCHANGED inflight /\ ~req[r].slot
      BY <1>2 DEF Finish, limiterVars, Inv, RequestInv
    <2> QED BY <1>1, <2>1, IdleIsRequest, NoSlotMoves
  <1>3. CASE req[r].limited
    <2> DEFINE e == req[r].entry
    <2>1. e \in ApiKeyEntry /\ e.id \in KeyIds
      BY <1>3 DEF Inv, TypeOK, RequestInv, Request, ApiKeyEntry
    <2>2. req[r].slot
      BY <1>3, <2>1, EntryCounts DEF Inv, RequestInv
    <2>3. \A s \in Requests : req'[s] = IF s = r THEN Idle ELSE req[s]
      BY <1>1 DEF Inv, TypeOK
    <2>4. r \in Holders(e.id)
      BY <2>2 DEF Holders
    <2>5. inflight[e.id] > 0
      BY <2>1, <2>4, HoldersFinite, FS_EmptySet DEF InflightExact
    <2>6. inflight' = [inflight EXCEPT ![e.id] = inflight[e.id] - 1] /\ inflight \in [KeyIds -> Nat]
      <3>1. inflight \in [KeyIds -> Nat]
        BY RequestsAssumption DEF Inv, TypeOK, LimiterTypeOK
      <3>2. Release(e.id)
        BY <1>3 DEF Finish
      <3> HIDE DEF e
      <3>3. inflight' = [inflight EXCEPT ![e.id] = IF inflight[e.id] > 0 THEN inflight[e.id] - 1
                                                                      ELSE inflight[e.id]]
        BY <3>2, Zenon DEF Release
      <3>4. inflight' = [inflight EXCEPT ![e.id] = inflight[e.id] - 1]
        BY <2>5, <3>3
      <3> QED BY <3>1, <3>4 DEF e
    <2>7. ASSUME NEW k \in KeyIds
          PROVE  inflight'[k] = Cardinality(Holders(k)')
      <3>1. CASE k = e.id
        <4>1. Holders(k)' = Holders(k) \ {r}
          BY <2>3, <3>1, IdleIsRequest DEF Holders
        <4>2. Cardinality(Holders(k)') = Cardinality(Holders(k)) - 1
          <5>1. r \in Holders(k) /\ IsFiniteSet(Holders(k))
            BY <2>4, <3>1, HoldersFinite
          <5> QED BY <4>1, <5>1, FS_RemoveElement
        <4> QED BY <2>6, <3>1, <4>2 DEF InflightExact
      <3>2. CASE k # e.id
        <4>1. Holders(k)' = Holders(k)
          BY <2>3, <3>2, IdleIsRequest DEF Holders
        <4> QED BY <2>6, <3>2, <4>1 DEF InflightExact
      <3> QED BY <3>1, <3>2
    <2> QED BY <2>7 DEF InflightExact, Holders
  <1> QED BY <1>2, <1>3

\* The remaining steps leave the counters and the slots alone.
LEMMA OtherStepsExact ==
    ASSUME Inv, InflightExact, UNCHANGED inflight, NEW r \in Requests,
           \/ \E secret \in Secrets \cup {NoSecret} : Arrive(r, secret)
           \/ ReadHasApiKeys(r) \/ FindEntry(r) \/ MatchLegacyKey(r) \/ RecheckRequired(r)
           \/ AcquireRefused(r)
           \/ \E cost \in Costs : Bill(r, cost)
    PROVE  InflightExact'
  <1>0. req[r].limited => req[r].pc \in {"running", "billed"}
    BY DEF Inv, RequestInv
  <1>1. ASSUME NEW secret \in Secrets \cup {NoSecret}, Arrive(r, secret)
        PROVE  InflightExact'
    <2> DEFINE q == [Idle EXCEPT !.pc = "hasKeys", !.provided = secret, !.required = requireApiKey]
    <2>1. ~q.slot /\ req' = [req EXCEPT ![r] = q] /\ ~req[r].slot
      BY <1>0, <1>1 DEF Arrive, Idle, Inv, RequestInv
    <2> HIDE DEF q
    <2> QED BY <2>1, NoSlotMoves
  <1>2. ASSUME NEW pc \in Steps, Goto(r, pc)
        PROVE  InflightExact'
    <2>1. \A s \in Requests : req'[s] = IF s = r THEN [req[r] EXCEPT !.pc = pc] ELSE req[s]
      BY <1>2 DEF Goto, Inv, TypeOK
    <2>2. req[r] \in Request
      BY DEF Inv, TypeOK
    <2>3. [req[r] EXCEPT !.pc = pc].slot = req[r].slot /\ [req[r] EXCEPT !.pc = pc].entry = req[r].entry
      BY <2>2 DEF Request
    <2> QED BY <2>1, <2>3, HoldersFrame
  <1>3. ASSUME Reject(r), ~req[r].slot
        PROVE  InflightExact'
    BY <1>3, IdleIsRequest, NoSlotMoves DEF Reject
  <1>4. CASE ReadHasApiKeys(r) \/ MatchLegacyKey(r) \/ RecheckRequired(r) \/ AcquireRefused(r)
    <2>1. ~req[r].slot
      BY <1>0, <1>4 DEF ReadHasApiKeys, MatchLegacyKey, RecheckRequired, AcquireRefused,
                        Inv, RequestInv
    <2>2. Reject(r) \/ \E pc \in Steps : Goto(r, pc)
      BY <1>4 DEF ReadHasApiKeys, MatchLegacyKey, RecheckRequired, AcquireRefused, Steps
    <2> QED BY <1>2, <1>3, <2>1, <2>2
  <1>5. CASE FindEntry(r)
    <2> DEFINE e == FindApiKeyByValue(req[r].provided)
               q == [req[r] EXCEPT !.pc = "recheck", !.entry = e]
    <2>1. ~req[r].slot
      BY <1>0, <1>5 DEF FindEntry, Inv, RequestInv
    <2>2. \/ Reject(r) \/ Goto(r, "running")
          \/ req' = [req EXCEPT ![r].pc = "recheck", ![r].entry = e]
      BY <1>5 DEF FindEntry
    <2>3. ASSUME req' = [req EXCEPT ![r].pc = "recheck", ![r].entry = e]
          PROVE  InflightExact'
      <3>1. req[r] \in Request
        BY DEF Inv, TypeOK
      <3> HIDE DEF e
      <3>2. req' = [req EXCEPT ![r] = q] /\ ~q.slot
        BY <2>1, <2>3, <3>1 DEF Request
      <3> HIDE DEF q
      <3> QED BY <2>1, <3>2, NoSlotMoves
    <2> QED BY <1>2, <1>3, <2>1, <2>2, <2>3 DEF Steps
  <1>6. CASE \E cost \in Costs : Bill(r, cost)
    BY <1>2, <1>6 DEF Bill, Steps
  <1> QED BY <1>1, <1>4, <1>5, <1>6

LEMMA StepKeepsInflightExact ==
    ASSUME AllLimitsCount, Inv, InflightExact, Next
    PROVE  InflightExact'
  <1>1. ASSUME NEW r \in Requests,
               \/ \E secret \in Secrets \cup {NoSecret} : Arrive(r, secret)
               \/ ReadHasApiKeys(r) \/ FindEntry(r) \/ MatchLegacyKey(r) \/ RecheckRequired(r)
               \/ AcquireRefused(r)
               \/ \E cost \in Costs : Bill(r, cost)
        PROVE  InflightExact'
    <2>1. UNCHANGED inflight
      BY <1>1 DEF Arrive, ReadHasApiKeys, FindEntry, MatchLegacyKey, RecheckRequired,
                  AcquireRefused, Refuse, Bill, limiterVars
    <2> QED BY <1>1, <2>1, OtherStepsExact
  <1>2. ASSUME NEW r \in Requests, AcquireGranted(r)
        PROVE  InflightExact'
    BY <1>2, GrantExact
  <1>3. ASSUME NEW r \in Requests, Finish(r)
        PROVE  InflightExact'
    BY <1>3, FinishExact
  <1>4. ASSUME UNCHANGED <<limiterVars, req>>
        PROVE  InflightExact'
    BY <1>4, HoldersFrame DEF limiterVars
  <1> QED BY <1>1, <1>2, <1>3, <1>4 DEF Next, Progress, Operate, Tick

\* Whatever operators do to the keys, and however the reads of authenticate
\* interleave with it, the limiter's counter for a key is exactly the number
\* of requests it let in that have not returned, as long as no concurrency
\* limit is ever "none".
THEOREM InflightIsExact ==
    ASSUME AllLimitsCount
    PROVE  Spec => []InflightExact
  <1>1. Init => InflightExact
    <2>1. Init => \A k \in KeyIds : Holders(k) = {}
      BY IdleIsRequest DEF Init, Holders
    <2> QED BY <2>1, FS_EmptySet, RequestsAssumption DEF Init, LimiterInit, InflightExact
  <1>2. Inv /\ InflightExact /\ [Next]_vars => InflightExact'
    <2>1. CASE UNCHANGED vars
      BY <2>1, HoldersFrame DEF vars, limiterVars
    <2> QED BY <2>1, StepKeepsInflightExact
  <1> QED BY <1>1, <1>2, Invariance, PTL DEF Spec

-----------------------------------------------------------------------------
(* The concurrency limit. *)

\* Only the limiter lets a limited request in.
LEMMA EnteringIsGranted ==
    ASSUME Inv, Next, NEW r \in Requests, Entering(r)
    PROVE  AcquireGranted(r)
  <1>0. req = [s \in Requests |-> req[s]] /\ \A s \in Requests : req[s] \in Request
    BY DEF Inv, TypeOK
  <1>1. ~req[r].limited /\ req'[r].limited
    BY DEF Entering
  <1>2. ASSUME NEW s \in Requests, s # r, NEW q, req' = [req EXCEPT ![s] = q]
        PROVE  FALSE
    BY <1>0, <1>1, <1>2
  <1>3. ASSUME NEW s \in Requests, NEW q, req' = [req EXCEPT ![s] = q], s = r => ~q.limited
        PROVE  FALSE
    BY <1>0, <1>1, <1>2, <1>3
  <1>4. ASSUME NEW s \in Requests, NEW pc, Goto(s, pc)
        PROVE  FALSE
    <2>1. s = r => ~[req[s] EXCEPT !.pc = pc].limited
      BY <1>0, <1>1 DEF Request
    <2> QED BY <1>3, <1>4, <2>1 DEF Goto
  <1>5. ASSUME NEW s \in Requests, req' = [req EXCEPT ![s] = Idle]
        PROVE  FALSE
    BY <1>3, <1>5, IdleIsRequest
  <1>6. ASSUME NEW s \in Requests, NEW secret, Arrive(s, secret)
        PROVE  FALSE
    <2>1. ~[Idle EXCEPT !.pc = "hasKeys", !.provided = secret, !.required = requireApiKey].limited
      BY DEF Idle
    <2> QED BY <1>3, <1>6, <2>1 DEF Arrive
  <1>7. ASSUME NEW s \in Requests, FindEntry(s)
        PROVE  FALSE
    <2> DEFINE e == FindApiKeyByValue(req[s].provided)
    <2>1. s = r => ~[req[s] EXCEPT !.pc = "recheck", !.entry = e].limited
      BY <1>0, <1>1 DEF Request
    <2>2. \/ Reject(s) \/ Goto(s, "running")
          \/ req' = [req EXCEPT ![s] = [req[s] EXCEPT !.pc = "recheck", !.entry = e]]
      BY <1>7 DEF FindEntry
    <2> HIDE DEF e
    <2> QED BY <1>3, <1>4, <1>5, <2>1, <2>2 DEF Reject
  <1>8. ASSUME NEW s \in Requests, AcquireGranted(s)
        PROVE  s = r
    <2>1. req' = [req EXCEPT ![s] = [req[s] EXCEPT !.pc = "running", !.limited = TRUE,
                                                   !.slot = CountsInflight(req[s].entry)]]
      BY <1>8 DEF AcquireGranted
    <2> QED BY <1>2, <2>1
  <1>9. ASSUME NEW s \in Requests,
               \/ ReadHasApiKeys(s) \/ MatchLegacyKey(s) \/ RecheckRequired(s)
               \/ AcquireRefused(s) \/ Finish(s) \/ \E cost \in Costs : Bill(s, cost)
        PROVE  FALSE
    BY <1>4, <1>5, <1>9 DEF ReadHasApiKeys, MatchLegacyKey, RecheckRequired, AcquireRefused,
                            Finish, Bill, Reject
  <1>10. CASE UNCHANGED req
    BY <1>1, <1>10
  <1> QED BY <1>6, <1>7, <1>8, <1>9, <1>10 DEF Next, Progress, Operate, Tick

LEMMA GrantRespects ==
    ASSUME AllLimitsCount, Inv, InflightExact, NEW r \in Requests, AcquireGranted(r)
    PROVE  Cardinality(InFlight(req[r].entry.id)') <= req'[r].entry.concurrencyLimit
  <1> DEFINE e == req[r].entry
             q == [req[r] EXCEPT !.pc = "running", !.limited = TRUE, !.slot = CountsInflight(e)]
  <1>1. e \in ApiKeyEntry /\ e.id \in KeyIds /\ ~req[r].slot /\ req[r] \in Request
    BY DEF AcquireGranted, Inv, TypeOK, RequestInv, Request, ApiKeyEntry
  <1>2. e.concurrencyLimit > 0 /\ e.concurrencyLimit \in Nat /\ ~Unlimited(e)
    BY <1>1, EntryCounts, LimitsAssumption DEF CountsInflight, ApiKeyEntry
  <1>3. inflight[e.id] < e.concurrencyLimit /\ inflight[e.id] \in Nat
    <2>1. ~Saturated(e)
      BY <1>2 DEF AcquireGranted, Grant
    <2>2. inflight[e.id] \in Nat
      BY <1>1, RequestsAssumption DEF Inv, TypeOK, LimiterTypeOK
    <2> QED BY <1>2, <2>1, <2>2 DEF Saturated
  <1>4. \A s \in Requests : req'[s] = IF s = r THEN q ELSE req[s]
    BY DEF AcquireGranted, Inv, TypeOK
  <1>5. q.limited /\ q.entry = e
    BY <1>1 DEF Request
  \* Every limited request holds a slot, as every limit counts.
  <1>6. ASSUME NEW s \in Requests
        PROVE  req[s].limited <=> req[s].slot
    <2>1. req[s].limited => req[s].entry \in ApiKeyEntry
      BY DEF Inv, TypeOK, RequestInv, Request
    <2>2. req[s].limited => CountsInflight(req[s].entry)
      BY <2>1, EntryCounts
    <2> QED BY <2>2 DEF Inv, RequestInv
  <1> HIDE DEF q
  <1>7. InFlight(e.id)' = Holders(e.id) \cup {r} /\ r \notin Holders(e.id)
    BY <1>1, <1>4, <1>5, <1>6 DEF InFlight, Holders
  <1>8. Cardinality(InFlight(e.id)') = Cardinality(Holders(e.id)) + 1
    BY <1>7, HoldersFinite, FS_AddElement
  <1>9. Cardinality(InFlight(e.id)') = inflight[e.id] + 1
    BY <1>1, <1>8 DEF InflightExact
  <1>10. req'[r].entry = e
    BY <1>4, <1>5
  <1> HIDE DEF e
  <1>11. Cardinality(InFlight(e.id)') <= e.concurrencyLimit
    BY <1>2, <1>3, <1>9
  <1> QED BY <1>10, <1>11 DEF e

\* Where every limit counts, no request is let in beyond the limit of the copy it
\* brings, whatever copies the others brought.
THEOREM ConcurrencyIsRespected ==
    ASSUME AllLimitsCount
    PROVE  Spec => ConcurrencyRespected
  <1> DEFINE Respected == \A r \in Requests : Entering(r) /\ CountsInflight(req'[r].entry) =>
                 Cardinality(InFlight(req[r].entry.id)') <= req'[r].entry.concurrencyLimit
  <1>1. ASSUME Inv, InflightExact, Next
        PROVE  Respected
    BY <1>1, EnteringIsGranted, GrantRespects
  <1>2. Inv /\ InflightExact /\ [Next]_vars => [Respected]_vars
    BY <1>1
  <1> QED BY <1>2, Invariance, InflightIsExact, PTL DEF Spec, ConcurrencyRespected

-----------------------------------------------------------------------------
(* The rolling minute. *)

InOrder(w) == \A i, j \in 1..Len(w) : i <= j => w[i] <= w[j]

\* In a window that is in order the stale entries are a prefix.
LEMMA StaleIsPrefix ==
    ASSUME NEW w \in Seq(Nat), InOrder(w), now \in Nat
    PROVE  /\ Cardinality(Stale(w)) \in 0..Len(w)
           /\ Stale(w) = 1..Cardinality(Stale(w))
  <1> DEFINE c == Cardinality(Stale(w))
  <1>1. Len(w) \in Nat /\ DOMAIN w = 1..Len(w) /\ \A i \in 1..Len(w) : w[i] \in Nat
    BY LenProperties, ElementOfSeq
  <1>2. IsFiniteSet(1..Len(w)) /\ Cardinality(1..Len(w)) = Len(w)
    BY <1>1, FS_Interval
  <1>3. Stale(w) \in SUBSET (1..Len(w))
    BY <1>1 DEF Stale
  <1>4. IsFiniteSet(Stale(w)) /\ c \in 0..Len(w)
    BY <1>2, <1>3, FS_Subset, FS_CardinalityType
  <1>5. ASSUME NEW i \in 1..c
        PROVE  i \in Stale(w)
    <2>1. SUFFICES ASSUME i \notin Stale(w) PROVE FALSE
      OBVIOUS
    <2>2. i \in 1..Len(w)
      BY <1>4
    <2>3. ASSUME NEW j \in Stale(w)
          PROVE  j \in 1..(i - 1)
      <3>1. j \in 1..Len(w) /\ w[j] <= now - Window
        BY <1>1, <2>3 DEF Stale
      <3>2. CASE i <= j
        <4>1. w[i] <= w[j]
          BY <2>2, <3>1, <3>2 DEF InOrder
        <4>2. w[i] <= now - Window
          BY <1>1, <2>2, <3>1, <4>1, WindowAssumption
        <4> QED BY <1>1, <2>1, <2>2, <4>2 DEF Stale
      <3> QED BY <2>2, <3>1, <3>2
    <2>4. IsFiniteSet(1..(i - 1)) /\ Cardinality(1..(i - 1)) = i - 1
      BY <2>2, FS_Interval
    <2>5. c <= i - 1
      BY <2>3, <2>4, FS_Subset
    <2> QED BY <1>4, <2>5
  <1>6. IsFiniteSet(1..c) /\ Cardinality(1..c) = c
    BY <1>4, FS_Interval
  <1> HIDE DEF c
  <1>7. 1..c = Stale(w)
    <2>1. (1..c) \in SUBSET Stale(w)
      BY <1>5
    <2>2. Cardinality(Stale(w)) = Cardinality(1..c)
      BY <1>6 DEF c
    <2> QED BY <1>4, <2>1, <2>2, FS_Subset
  <1> QED BY <1>4, <1>7 DEF c

\* Recent drops the stale entries and keeps the others.
LEMMA RecentShape ==
    ASSUME NEW w \in Seq(Nat), InOrder(w), now \in Nat
    PROVE  \E c \in 0..Len(w) :
             /\ Stale(w) = 1..c
             /\ Len(Recent(w)) = Len(w) - c
             /\ \A i \in 1..(Len(w) - c) : Recent(w)[i] = w[c + i]
  <1> DEFINE c == Cardinality(Stale(w))
  <1>1. Len(w) \in Nat /\ \A i \in 1..Len(w) : w[i] \in Nat
    BY LenProperties, ElementOfSeq
  <1>2. c \in 0..Len(w) /\ Stale(w) = 1..c
    BY StaleIsPrefix
  <1>3. Recent(w) = SubSeq(w, c + 1, Len(w))
    BY DEF Recent, Without
  <1> HIDE DEF c
  <1>4. /\ Len(SubSeq(w, c + 1, Len(w))) = IF c + 1 <= Len(w) THEN Len(w) - (c + 1) + 1 ELSE 0
        /\ \A i \in 1..(Len(w) - (c + 1) + 1) : SubSeq(w, c + 1, Len(w))[i] = w[c + 1 + i - 1]
    <2>1. \A i \in (c + 1)..Len(w) : w[i] \in Nat
      BY <1>1, <1>2
    <2>2. c + 1 \in Int /\ Len(w) \in Int
      BY <1>1, <1>2
    <2> QED BY <2>1, <2>2, SubSeqProperties
  <1>5. Len(Recent(w)) = Len(w) - c /\ \A i \in 1..(Len(w) - c) : Recent(w)[i] = w[c + i]
    BY <1>1, <1>2, <1>3, <1>4
  <1> QED BY <1>2, <1>5

\* Window w holds the end of the log, and what it lacks is more than a minute old.
Follows(w, log, t) ==
    \E n \in 0..Len(log) :
        /\ Len(log) = n + Len(w)
        /\ \A i \in 1..Len(w) : w[i] = log[n + i]
        /\ \A i \in 1..n : log[i] <= t - Window

WindowInv ==
    \A k \in KeyIds :
        /\ InOrder(admitLog[k])
        /\ \A i \in 1..Len(admitLog[k]) : admitLog[k][i] <= now
        /\ Follows(windows[k], admitLog[k], now)

LEMMA FollowsInOrder ==
    ASSUME NEW w \in Seq(Nat), NEW log \in Seq(Nat), NEW t \in Nat, InOrder(log), Follows(w, log, t)
    PROVE  InOrder(w)
  <1>1. Len(w) \in Nat /\ Len(log) \in Nat
    BY LenProperties
  <1>2. PICK n \in 0..Len(log) : /\ Len(log) = n + Len(w)
                                 /\ \A i \in 1..Len(w) : w[i] = log[n + i]
    BY DEF Follows
  <1>3. ASSUME NEW i \in 1..Len(w), NEW j \in 1..Len(w), i <= j
        PROVE  w[i] <= w[j]
    <2>1. n + i \in 1..Len(log) /\ n + j \in 1..Len(log) /\ n + i <= n + j
      BY <1>1, <1>2, <1>3
    <2>2. log[n + i] <= log[n + j]
      BY <2>1 DEF InOrder
    <2> QED BY <1>2, <2>2
  <1> QED BY <1>3 DEF InOrder

\* What the last minute of the log holds is what Recent keeps.
LEMMA LastMinuteIsRecent ==
    ASSUME NEW w \in Seq(Nat), NEW log \in Seq(Nat), InOrder(log), Follows(w, log, now), now \in Nat
    PROVE  /\ IsFiniteSet(LastMinute(log))
           /\ Cardinality(LastMinute(log)) = Len(Recent(w))
  <1>1. Len(w) \in Nat /\ Len(log) \in Nat /\ DOMAIN log = 1..Len(log) /\ DOMAIN w = 1..Len(w)
    BY LenProperties
  <1>2. (\A i \in 1..Len(log) : log[i] \in Nat) /\ \A i \in 1..Len(w) : w[i] \in Nat
    BY ElementOfSeq
  <1>3. PICK n \in 0..Len(log) : /\ Len(log) = n + Len(w)
                                 /\ \A i \in 1..Len(w) : w[i] = log[n + i]
                                 /\ \A i \in 1..n : log[i] <= now - Window
    BY DEF Follows
  <1>4. PICK c \in 0..Len(w) : Stale(w) = 1..c /\ Len(Recent(w)) = Len(w) - c
    BY RecentShape, FollowsInOrder
  <1>5. ASSUME NEW i \in 1..Len(log)
        PROVE  log[i] > now - Window <=> i \in (n + c + 1)..Len(log)
    <2>1. CASE i <= n
      BY <1>1, <1>2, <1>3, <1>4, <2>1, WindowAssumption
    <2>2. CASE i > n
      <3>1. i - n \in 1..Len(w) /\ w[i - n] = log[n + (i - n)] /\ n + (i - n) = i
        BY <1>1, <1>3, <2>2
      <3>2. i - n \in Stale(w) <=> w[i - n] <= now - Window
        BY <1>1, <3>1 DEF Stale
      <3>3. i - n \in Stale(w) <=> i - n <= c
        BY <1>4, <3>1
      <3>4. w[i - n] = log[i] /\ log[i] \in Nat
        BY <1>2, <3>1
      <3>5. log[i] > now - Window <=> ~(log[i] <= now - Window)
        BY <3>4, WindowAssumption
      <3>6. log[i] > now - Window <=> ~(i - n <= c)
        BY <3>2, <3>3, <3>4, <3>5
      <3>7. ~(i - n <= c) <=> i \in (n + c + 1)..Len(log)
        BY <1>1, <1>3, <1>4, <2>2
      <3> QED BY <3>6, <3>7
    <2> QED
      <3>1. i \in Nat /\ n \in Nat
        BY <1>1, <1>3
      <3>2. i <= n \/ i > n
        BY <3>1
      <3> QED BY <2>1, <2>2, <3>2
  <1>6. LastMinute(log) = (n + c + 1)..Len(log)
    <2>1. \A i \in (n + c + 1)..Len(log) : i \in 1..Len(log)
      BY <1>1, <1>3, <1>4
    <2> QED BY <1>1, <1>5, <2>1 DEF LastMinute
  <1>7. n + c + 1 \in Int /\ Len(log) \in Int
    BY <1>1, <1>3, <1>4
  <1>8. /\ IsFiniteSet((n + c + 1)..Len(log))
        /\ Cardinality((n + c + 1)..Len(log)) =
             IF n + c + 1 > Len(log) THEN 0 ELSE Len(log) - (n + c + 1) + 1
    BY <1>7, FS_Interval
  <1> QED BY <1>1, <1>3, <1>4, <1>6, <1>8

\* A window that follows the log still does once its stale front is dropped.
LEMMA RecentFollows ==
    ASSUME NEW w \in Seq(Nat), NEW log \in Seq(Nat), InOrder(log), Follows(w, log, now), now \in Nat
    PROVE  Follows(Recent(w), log, now)
  <1>1. Len(w) \in Nat /\ Len(log) \in Nat /\ DOMAIN w = 1..Len(w)
    BY LenProperties
  <1>2. PICK n \in 0..Len(log) : /\ Len(log) = n + Len(w)
                                 /\ \A i \in 1..Len(w) : w[i] = log[n + i]
                                 /\ \A i \in 1..n : log[i] <= now - Window
    BY DEF Follows
  <1>3. PICK c \in 0..Len(w) : /\ Stale(w) = 1..c
                               /\ Len(Recent(w)) = Len(w) - c
                               /\ \A i \in 1..(Len(w) - c) : Recent(w)[i] = w[c + i]
    BY RecentShape, FollowsInOrder
  <1>4. n + c \in 0..Len(log) /\ Len(log) = (n + c) + Len(Recent(w))
    BY <1>1, <1>2, <1>3
  <1>5. ASSUME NEW i \in 1..Len(Recent(w))
        PROVE  Recent(w)[i] = log[(n + c) + i]
    <2>1. c + i \in 1..Len(w) /\ n + (c + i) = (n + c) + i
      BY <1>1, <1>2, <1>3
    <2>2. w[c + i] = log[n + (c + i)]
      BY <1>2, <2>1
    <2> QED BY <1>3, <2>1, <2>2
  <1>6. ASSUME NEW i \in 1..(n + c)
        PROVE  log[i] <= now - Window
    <2>1. CASE i <= n
      BY <1>2, <2>1
    <2>2. CASE i > n
      <3>1. i - n \in 1..Len(w) /\ i - n \in Stale(w) /\ n + (i - n) = i
        BY <1>1, <1>2, <1>3, <2>2
      <3> QED BY <1>2, <3>1 DEF Stale
    <2> QED BY <1>2, <1>3, <2>1, <2>2
  <1> QED BY <1>4, <1>5, <1>6 DEF Follows

LEMMA AppendFollows ==
    ASSUME NEW w \in Seq(Nat), NEW log \in Seq(Nat), NEW t \in Nat, Follows(w, log, t)
    PROVE  Follows(Append(w, t), Append(log, t), t)
  <1>1. Len(w) \in Nat /\ Len(log) \in Nat
    BY LenProperties
  <1>2. PICK n \in 0..Len(log) : /\ Len(log) = n + Len(w)
                                 /\ \A i \in 1..Len(w) : w[i] = log[n + i]
                                 /\ \A i \in 1..n : log[i] <= t - Window
    BY DEF Follows
  <1>3. /\ Len(Append(w, t)) = Len(w) + 1 /\ Len(Append(log, t)) = Len(log) + 1
        /\ \A i \in 1..Len(w) : Append(w, t)[i] = w[i]
        /\ \A i \in 1..Len(log) : Append(log, t)[i] = log[i]
        /\ Append(w, t)[Len(w) + 1] = t /\ Append(log, t)[Len(log) + 1] = t
    BY AppendProperties
  <1>4. ASSUME NEW i \in 1..(Len(w) + 1)
        PROVE  Append(w, t)[i] = Append(log, t)[n + i]
    <2>1. CASE i \in 1..Len(w)
      BY <1>1, <1>2, <1>3, <2>1
    <2>2. CASE i = Len(w) + 1
      <3>1. n + i = Len(log) + 1
        BY <1>1, <1>2, <2>2
      <3>2. Append(w, t)[i] = t
        BY <1>3, <2>2
      <3>3. Append(log, t)[n + i] = t
        BY <1>3, <3>1
      <3> QED BY <3>2, <3>3
    <2>3. i \in 1..Len(w) \/ i = Len(w) + 1
      BY <1>1
    <2> QED BY <2>1, <2>2, <2>3
  <1>5. n \in 0..Len(Append(log, t)) /\ Len(Append(log, t)) = n + Len(Append(w, t))
    BY <1>1, <1>2, <1>3
  <1>6. \A i \in 1..n : Append(log, t)[i] <= t - Window
    BY <1>1, <1>2, <1>3
  <1> QED BY <1>3, <1>4, <1>5, <1>6 DEF Follows

\* Nothing that is over becomes recent again.
LEMMA LaterFollows ==
    ASSUME NEW w \in Seq(Nat), NEW log \in Seq(Nat), NEW t \in Nat, NEW u \in Nat, t <= u,
           Follows(w, log, t)
    PROVE  Follows(w, log, u)
  <1>1. Len(log) \in Nat /\ \A i \in 1..Len(log) : log[i] \in Nat
    BY LenProperties, ElementOfSeq
  <1>2. PICK n \in 0..Len(log) : /\ Len(log) = n + Len(w)
                                 /\ \A i \in 1..Len(w) : w[i] = log[n + i]
                                 /\ \A i \in 1..n : log[i] <= t - Window
    BY DEF Follows
  <1>3. \A i \in 1..n : log[i] <= u - Window
    BY <1>1, <1>2, WindowAssumption
  <1> QED BY <1>2, <1>3 DEF Follows

\* A log grows in order when what is appended is the time.
LEMMA AppendInOrder ==
    ASSUME NEW log \in Seq(Nat), NEW t \in Nat, InOrder(log), \A i \in 1..Len(log) : log[i] <= t
    PROVE  InOrder(Append(log, t)) /\ \A i \in 1..Len(Append(log, t)) : Append(log, t)[i] <= t
  <1>1. Len(log) \in Nat
    BY LenProperties
  <1>2. /\ Len(Append(log, t)) = Len(log) + 1
        /\ \A i \in 1..Len(log) : Append(log, t)[i] = log[i]
        /\ Append(log, t)[Len(log) + 1] = t
    BY AppendProperties
  <1>3. \A i \in 1..(Len(log) + 1) : i \in 1..Len(log) \/ i = Len(log) + 1
    BY <1>1
  <1>4. ASSUME NEW i \in 1..(Len(log) + 1), NEW j \in 1..(Len(log) + 1), i <= j
        PROVE  Append(log, t)[i] <= Append(log, t)[j]
    <2>1. CASE j \in 1..Len(log)
      <3>1. i \in 1..Len(log)
        BY <1>1, <1>4, <2>1
      <3> QED BY <1>2, <1>4, <2>1, <3>1 DEF InOrder
    <2>2. CASE j = Len(log) + 1
      BY <1>2, <1>3, <2>2
    <2> QED BY <1>3, <2>1, <2>2
  <1> QED BY <1>2, <1>3, <1>4 DEF InOrder

LEMMA LimiterTypes ==
    ASSUME Inv
    PROVE  /\ windows = [k \in KeyIds |-> windows[k]] /\ \A k \in KeyIds : windows[k] \in Seq(Nat)
           /\ admitLog = [k \in KeyIds |-> admitLog[k]] /\ \A k \in KeyIds : admitLog[k] \in Seq(Nat)
           /\ now \in Nat
  BY RequestsAssumption DEF Inv, TypeOK, LimiterTypeOK

LEMMA ClockKeepsWindow ==
    ASSUME Inv, WindowInv, UNCHANGED <<windows, admitLog>>, now' \in Nat, now <= now'
    PROVE  WindowInv'
  <1>1. ASSUME NEW k \in KeyIds
        PROVE  /\ InOrder(admitLog'[k])
               /\ \A i \in 1..Len(admitLog'[k]) : admitLog'[k][i] <= now'
               /\ Follows(windows'[k], admitLog'[k], now')
    <2>1. windows[k] \in Seq(Nat) /\ admitLog[k] \in Seq(Nat) /\ now \in Nat
      BY LimiterTypes
    <2>2. Follows(windows[k], admitLog[k], now')
      BY <2>1, LaterFollows DEF WindowInv
    <2>3. \A i \in 1..Len(admitLog[k]) : admitLog[k][i] \in Nat
      BY <2>1, ElementOfSeq
    <2>4. \A i \in 1..Len(admitLog[k]) : admitLog[k][i] <= now'
      BY <2>1, <2>3 DEF WindowInv
    <2>5. InOrder(admitLog[k])
      BY DEF WindowInv
    <2> QED BY <2>2, <2>4, <2>5
  <1> QED BY <1>1 DEF WindowInv, InOrder, Follows

\* One key's window and log change, the time does not.
LEMMA OneWindowMoves ==
    ASSUME Inv, WindowInv, UNCHANGED now, NEW k \in KeyIds,
           NEW w \in Seq(Nat), NEW log \in Seq(Nat),
           windows' = [windows EXCEPT ![k] = w], admitLog' = [admitLog EXCEPT ![k] = log],
           InOrder(log), \A i \in 1..Len(log) : log[i] <= now, Follows(w, log, now)
    PROVE  WindowInv'
  <1>1. ASSUME NEW j \in KeyIds
        PROVE  /\ InOrder(admitLog'[j])
               /\ \A i \in 1..Len(admitLog'[j]) : admitLog'[j][i] <= now'
               /\ Follows(windows'[j], admitLog'[j], now')
    <2>1. CASE j = k
      <3>1. admitLog'[j] = log /\ windows'[j] = w
        BY <2>1, LimiterTypes
      <3> QED BY <3>1
    <2>2. CASE j # k
      <3>1. admitLog'[j] = admitLog[j] /\ windows'[j] = windows[j]
        BY <2>2, LimiterTypes
      <3> QED BY <3>1 DEF WindowInv
    <2> QED BY <2>1, <2>2
  <1> QED BY <1>1 DEF WindowInv, InOrder, Follows

LEMMA GrantKeepsWindow ==
    ASSUME Inv, WindowInv, NEW r \in Requests, AcquireGranted(r)
    PROVE  WindowInv'
  <1> DEFINE e == req[r].entry
  <1>1. e \in ApiKeyEntry /\ e.id \in KeyIds
    BY DEF AcquireGranted, Inv, TypeOK, RequestInv, Request, ApiKeyEntry
  <1>2. e.rpmLimit \in Nat
    BY <1>1, LimitsAssumption DEF ApiKeyEntry
  <1> DEFINE k == e.id
             w == Append(Recent(windows[k]), now)
             log == Append(admitLog[k], now)
  <1>3. now \in Nat /\ windows[k] \in Seq(Nat) /\ admitLog[k] \in Seq(Nat)
    BY <1>1, LimiterTypes
  <1>4. CASE e.rpmLimit > 0
    <2>1. windows' = [windows EXCEPT ![k] = w] /\ admitLog' = [admitLog EXCEPT ![k] = log]
      <3>1. Grant(e) /\ (e.rpmLimit > 0 => admitLog' = [admitLog EXCEPT ![k] = log])
        BY DEF AcquireGranted
      <3>2. ~Unlimited(e)
        BY <1>2, <1>4 DEF Unlimited
      <3>3. e.rpmLimit > 0 => windows' = [windows EXCEPT ![k] = w]
        BY <3>1, <3>2 DEF Grant
      <3> QED BY <1>4, <3>1, <3>3
    <2>2. Recent(windows[k]) \in Seq(Nat)
      BY <1>3, RecentType
    <2>3. w \in Seq(Nat) /\ log \in Seq(Nat)
      BY <1>3, <2>2, AppendProperties
    <2>4. InOrder(log) /\ \A i \in 1..Len(log) : log[i] <= now
      BY <1>1, <1>3, AppendInOrder DEF WindowInv
    <2>5. Follows(w, log, now)
      <3>1. Follows(Recent(windows[k]), admitLog[k], now)
        BY <1>1, <1>3, RecentFollows DEF WindowInv
      <3> QED BY <1>3, <2>2, <3>1, AppendFollows
    <2>6. now' = now
      BY DEF AcquireGranted
    <2> HIDE DEF w, log, k
    <2>7. k \in KeyIds
      BY <1>1 DEF k
    <2> QED BY <2>1, <2>3, <2>4, <2>5, <2>6, <2>7, OneWindowMoves
  <1>5. CASE ~(e.rpmLimit > 0)
    <2>1. Grant(e) /\ now' = now /\ UNCHANGED admitLog
      BY <1>5 DEF AcquireGranted
    <2>2. UNCHANGED windows
      BY <2>1, <1>5 DEF Grant, limiterVars
    <2>3. now' \in Nat /\ now <= now'
      BY <1>3, <2>1
    <2> QED BY <2>1, <2>2, <2>3, ClockKeepsWindow
  <1> QED BY <1>4, <1>5

LEMMA RefuseKeepsWindow ==
    ASSUME Inv, WindowInv, NEW r \in Requests, AcquireRefused(r)
    PROVE  WindowInv'
  <1> DEFINE k == req[r].entry.id
  <1>1. k \in KeyIds
    BY DEF AcquireRefused, Inv, TypeOK, RequestInv, Request, ApiKeyEntry
  <1>2. now \in Nat /\ windows[k] \in Seq(Nat) /\ admitLog[k] \in Seq(Nat) /\ now' = now
    BY <1>1, LimiterTypes DEF AcquireRefused
  <1>3. admitLog' = admitLog
    BY DEF AcquireRefused
  <1>4. CASE windows' = windows
    BY <1>2, <1>3, <1>4, ClockKeepsWindow
  <1>5. CASE windows' = [windows EXCEPT ![k] = Recent(windows[k])]
    <2>1. Recent(windows[k]) \in Seq(Nat)
      BY <1>2, RecentType
    <2>2. Follows(Recent(windows[k]), admitLog[k], now)
      BY <1>1, <1>2, RecentFollows DEF WindowInv
    <2>3. InOrder(admitLog[k]) /\ \A i \in 1..Len(admitLog[k]) : admitLog[k][i] <= now
      BY <1>1 DEF WindowInv
    <2>4. admitLog' = [admitLog EXCEPT ![k] = admitLog[k]]
      BY <1>1, <1>3, LimiterTypes
    <2> HIDE DEF k
    <2> QED BY <1>1, <1>2, <1>5, <2>1, <2>2, <2>3, <2>4, OneWindowMoves
  <1> QED BY <1>4, <1>5 DEF AcquireRefused, Refuse, limiterVars

LEMMA StepKeepsWindow ==
    ASSUME Inv, WindowInv, [Next]_vars
    PROVE  WindowInv'
  <1>0. now \in Nat
    BY LimiterTypes
  <1>1. ASSUME UNCHANGED <<windows, admitLog>>, now' = now \/ now' = now + 1
        PROVE  WindowInv'
    BY <1>0, <1>1, ClockKeepsWindow
  <1>2. ASSUME NEW r \in Requests, Finish(r)
        PROVE  WindowInv'
    BY <1>1, <1>2 DEF Finish, Release, limiterVars
  <1>3. ASSUME NEW r \in Requests,
               \/ \E secret \in Secrets \cup {NoSecret} : Arrive(r, secret)
               \/ ReadHasApiKeys(r) \/ FindEntry(r) \/ MatchLegacyKey(r) \/ RecheckRequired(r)
               \/ \E cost \in Costs : Bill(r, cost)
        PROVE  WindowInv'
    BY <1>1, <1>3 DEF Arrive, ReadHasApiKeys, FindEntry, MatchLegacyKey, RecheckRequired, Bill,
                      limiterVars
  <1>4. CASE Operate \/ Tick \/ UNCHANGED vars
    BY <1>1, <1>4 DEF Operate, Tick, vars, limiterVars
  <1> QED BY <1>2, <1>3, <1>4, GrantKeepsWindow, RefuseKeepsWindow DEF Next, Progress

\* The limiter's window of a key is the end of the log of all it let in, and
\* what is missing from it is more than a minute old.
LEMMA WindowsFollow == Spec => []WindowInv
  <1>1. Init => WindowInv
    <2> SUFFICES ASSUME Init, NEW k \in KeyIds
                 PROVE  /\ InOrder(admitLog[k])
                        /\ \A i \in 1..Len(admitLog[k]) : admitLog[k][i] <= now
                        /\ Follows(windows[k], admitLog[k], now)
      BY DEF WindowInv
    <2>1. windows[k] = <<>> /\ admitLog[k] = <<>> /\ Len(<<>>) = 0
      BY RequestsAssumption DEF Init, LimiterInit
    <2>2. 1..Len(<<>>) = {} /\ 0 \in 0..Len(<<>>)
      BY <2>1
    <2> QED BY <2>1, <2>2 DEF InOrder, Follows
  <1>2. Inv /\ WindowInv /\ [Next]_vars => WindowInv'
    BY StepKeepsWindow
  <1> QED BY <1>1, <1>2, Invariance, PTL DEF Spec

\* A refused request is not charged: a key's window never holds more of the
\* last minute than was let in.
THEOREM RefusalsAreFree == Spec => []RefusalsNotCharged
  <1>1. Inv /\ WindowInv => RefusalsNotCharged
    <2> SUFFICES ASSUME Inv, WindowInv, NEW k \in KeyIds
                 PROVE  Len(Recent(windows[k])) <= Cardinality(LastMinute(admitLog[k]))
      BY DEF RefusalsNotCharged
    <2>1. now \in Nat /\ windows[k] \in Seq(Nat) /\ admitLog[k] \in Seq(Nat)
      BY LimiterTypes
    <2>2. Recent(windows[k]) \in Seq(Nat)
      BY <2>1, RecentType
    <2>3. Cardinality(LastMinute(admitLog[k])) = Len(Recent(windows[k]))
      BY <2>1, LastMinuteIsRecent DEF WindowInv
    <2> QED BY <2>2, <2>3, LenProperties
  <1> QED BY <1>1, Invariance, WindowsFollow, PTL

LEMMA GrantRespectsRpm ==
    ASSUME Inv, WindowInv, NEW r \in Requests, AcquireGranted(r), req'[r].entry.rpmLimit > 0
    PROVE  Cardinality(LastMinute(admitLog[req[r].entry.id])') <= req'[r].entry.rpmLimit
  <1> DEFINE e == req[r].entry
  <1>1. e \in ApiKeyEntry /\ e.id \in KeyIds /\ req[r] \in Request
    BY DEF AcquireGranted, Inv, TypeOK, RequestInv, Request, ApiKeyEntry
  <1>2. req'[r].entry = e
    BY <1>1 DEF AcquireGranted, Inv, TypeOK, Request
  <1>3. e.rpmLimit \in Nat /\ e.rpmLimit > 0
    BY <1>1, <1>2, LimitsAssumption DEF ApiKeyEntry
  <1> DEFINE log == admitLog[e.id]
  <1>4. now \in Nat /\ windows[e.id] \in Seq(Nat) /\ log \in Seq(Nat)
    BY <1>1, LimiterTypes
  <1>5. ~OverRpm(e) /\ admitLog' = [admitLog EXCEPT ![e.id] = Append(log, now)] /\ now' = now
    <2>1. /\ Grant(e) /\ now' = now
          /\ e.rpmLimit > 0 => admitLog' = [admitLog EXCEPT ![e.id] = Append(log, now)]
      BY DEF AcquireGranted
    <2>2. ~Unlimited(e)
      BY <1>3 DEF Unlimited
    <2>3. ~OverRpm(e)
      BY <2>1, <2>2 DEF Grant
    <2> QED BY <1>3, <2>1, <2>3
  <1>6. Len(Recent(windows[e.id])) < e.rpmLimit
    <2>1. Recent(windows[e.id]) \in Seq(Nat)
      BY <1>4, RecentType
    <2>2. Len(Recent(windows[e.id])) \in Nat
      BY <2>1, LenProperties
    <2> QED BY <1>3, <1>5, <2>2 DEF OverRpm
  <1>7. /\ IsFiniteSet(LastMinute(log))
        /\ Cardinality(LastMinute(log)) = Len(Recent(windows[e.id]))
    BY <1>1, <1>4, LastMinuteIsRecent DEF WindowInv
  <1>8. LastMinute(admitLog[req[r].entry.id])' =
          {i \in DOMAIN Append(log, now) : Append(log, now)[i] > now - Window}
    <2>1. admitLog'[e.id] = Append(log, now)
      BY <1>1, <1>5, LimiterTypes
    <2> HIDE DEF log
    <2> QED BY <1>2, <1>5, <2>1 DEF LastMinute
  <1> HIDE DEF log
  <1>9. /\ Len(log) \in Nat /\ DOMAIN log = 1..Len(log)
        /\ DOMAIN Append(log, now) = 1..(Len(log) + 1)
        /\ \A i \in 1..Len(log) : Append(log, now)[i] = log[i]
        /\ Append(log, now)[Len(log) + 1] = now
    BY <1>4, LenProperties, AppendProperties
  <1>10. {i \in DOMAIN Append(log, now) : Append(log, now)[i] > now - Window}
            = LastMinute(log) \cup {Len(log) + 1}
    <2>1. now > now - Window
      BY <1>4, WindowAssumption
    <2>2. \A i \in 1..(Len(log) + 1) : i \in 1..Len(log) \/ i = Len(log) + 1
      BY <1>9
    <2>3. 1..Len(log) \in SUBSET (1..(Len(log) + 1)) /\ Len(log) + 1 \in 1..(Len(log) + 1)
      BY <1>9
    <2> QED BY <1>9, <2>1, <2>2, <2>3 DEF LastMinute
  <1>11. Len(log) + 1 \notin LastMinute(log)
    BY <1>9 DEF LastMinute
  <1>12. Cardinality(LastMinute(admitLog[req[r].entry.id])') = Len(Recent(windows[e.id])) + 1
    <2> DEFINE T == LastMinute(log)
    <2>1. IsFiniteSet(T) /\ Cardinality(T) = Len(Recent(windows[e.id])) /\ Len(log) + 1 \notin T
      BY <1>7, <1>11
    <2>2. LastMinute(admitLog[req[r].entry.id])' = T \cup {Len(log) + 1}
      BY <1>8, <1>10
    <2> HIDE DEF T
    <2>3. Cardinality(T \cup {Len(log) + 1}) = Cardinality(T) + 1
      BY <2>1, FS_AddElement
    <2> QED BY <2>1, <2>2, <2>3
  <1>13. Len(Recent(windows[e.id])) \in Nat
    BY <1>7, FS_CardinalityType
  <1> HIDE DEF e
  <1>14. Cardinality(LastMinute(admitLog[req[r].entry.id])') <= e.rpmLimit
    <2> DEFINE n == Len(Recent(windows[e.id]))
    <2>1. n \in Nat /\ e.rpmLimit \in Nat /\ n < e.rpmLimit
      BY <1>3, <1>6, <1>13
    <2>2. Cardinality(LastMinute(admitLog[req[r].entry.id])') = n + 1
      BY <1>12
    <2> HIDE DEF n
    <2> QED BY <2>1, <2>2
  <1> QED BY <1>2, <1>14

\* Counting every request let in under an rpm limit, none enters as more than
\* the rpmLimit-th of its minute, whatever limits the others entered under.
THEOREM RpmIsRespected == Spec => RpmRespected
  <1> DEFINE Respected == \A r \in Requests : Entering(r) /\ req'[r].entry.rpmLimit > 0 =>
                 Cardinality(LastMinute(admitLog[req[r].entry.id])') <= req'[r].entry.rpmLimit
  <1>1. ASSUME Inv, WindowInv, Next
        PROVE  Respected
    BY <1>1, EnteringIsGranted, GrantRespectsRpm
  <1>2. Inv /\ WindowInv /\ [Next]_vars => [Respected]_vars
    BY <1>1
  <1> QED BY <1>2, Invariance, WindowsFollow, PTL DEF Spec, RpmRespected
=============================================================================
