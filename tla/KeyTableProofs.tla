---------------------------- MODULE KeyTableProofs ----------------------------
(***************************************************************************)
(* What KeyAdmission says of the key table, of the requests it lets in and *)
(* of the quotas they are billed to, for any number of keys, requests and  *)
(* operators.  The invariant of KeyAdmissionProofs gives the types.        *)
(***************************************************************************)
EXTENDS KeyAdmissionProofs

\* Every step is an operator's, a request's bill, or leaves the table alone.
LEMMA StepsOfTheTable ==
    ASSUME Inv, [Next]_vars
    PROVE  \/ AdminStep
           \/ \E k \in KeyIds, cost \in Costs : RecordApiKeyUsage(k, cost)
           \/ UNCHANGED keyVars
  <1>1. ASSUME NEW r \in Requests, NEW cost \in Costs, Bill(r, cost)
        PROVE  \E k \in KeyIds, c \in Costs : RecordApiKeyUsage(k, c)
    <2>1. req[r].entry \in ApiKeyEntry
      BY <1>1 DEF Bill, Inv, TypeOK, Request
    <2>2. req[r].entry.id \in KeyIds
      BY <2>1 DEF ApiKeyEntry
    <2> QED BY <1>1, <2>2 DEF Bill
  <1>2. CASE UNCHANGED vars
    BY <1>2 DEF vars
  <1> QED BY <1>1, <1>2 DEF Next, Progress, Operate, Tick, Arrive, ReadHasApiKeys, FindEntry,
             MatchLegacyKey, RecheckRequired, AcquireGranted, AcquireRefused, Finish

-----------------------------------------------------------------------------
(* The table. *)

LEMMA AdminStepUnique ==
    ASSUME KeyTypeOK, SecretsUnique, AdminStep
    PROVE  SecretsUnique'
  <1> USE DEF KeyTypeOK, Configured
  <1>1. ASSUME NEW k \in KeyIds, NEW s \in Secrets, NEW en \in BOOLEAN,
               NEW tl \in TokenLimits, NEW rl \in RpmLimits, NEW cl \in ConcurrencyLimits,
               AddApiKey(k, NewEntry(k, s, en, tl, rl, cl))
        PROVE  SecretsUnique'
    <2> DEFINE entry == NewEntry(k, s, en, tl, rl, cl)
    <2>1. keys' = [keys EXCEPT ![k] = entry] /\ ~SecretTaken(entry.secret, {})
      BY <1>1 DEF AddApiKey
    <2> HIDE DEF entry
    <2> QED BY <2>1 DEF SecretsUnique, SecretTaken
  <1>2. ASSUME NEW a \in Admins, UpdateApiKey(a)
        PROVE  SecretsUnique'
    <2> DEFINE patch == admin[a].patch
    <2>1. CASE keys' = keys
      BY <2>1 DEF SecretsUnique
    <2>2. CASE /\ keys' = [keys EXCEPT ![patch.id] = Patched(keys[patch.id], patch)]
               /\ patch.id \in Configured /\ ~SecretTaken(patch.secret, {patch.id})
      <3>1. patch \in ApiKeyEntry
        <4>1. admin[a] # NoEdit
          BY <1>2 DEF UpdateApiKey, NoEdit
        <4>2. admin[a] \in Edit
          BY <4>1
        <4> QED BY <4>2 DEF Edit
      <3>2. Patched(keys[patch.id], patch).secret = patch.secret
        BY <3>1 DEF Patched, ApiKeyEntry
      <3> HIDE DEF patch
      <3> QED BY <2>2, <3>2 DEF SecretsUnique, SecretTaken
    <2> QED BY <1>2, <2>1, <2>2 DEF UpdateApiKey
  <1>3. ASSUME NEW k \in KeyIds, DeleteApiKey(k)
        PROVE  SecretsUnique'
    BY <1>3 DEF DeleteApiKey, SecretsUnique
  <1>4. ASSUME NEW k \in KeyIds, ResetApiKeyUsage(k)
        PROVE  SecretsUnique'
    <2>1. keys[k] \in ApiKeyEntry
      BY <1>4 DEF ResetApiKeyUsage
    <2>2. [keys[k] EXCEPT !.tokensUsed = 0].secret = keys[k].secret
      BY <2>1 DEF ApiKeyEntry
    <2> QED BY <1>4, <2>2 DEF ResetApiKeyUsage, SecretsUnique
  <1>5. ASSUME UNCHANGED keys
        PROVE  SecretsUnique'
    BY <1>5 DEF SecretsUnique
  <1> QED BY <1>1, <1>2, <1>3, <1>4, <1>5 DEF AdminStep, OpenEdit, UpdateSettings

LEMMA BillUnique ==
    ASSUME KeyTypeOK, SecretsUnique, NEW k \in KeyIds, NEW cost \in Costs,
           RecordApiKeyUsage(k, cost)
    PROVE  SecretsUnique'
  <1>1. CASE k \in Configured
    <2>1. keys[k] \in ApiKeyEntry
      BY <1>1 DEF KeyTypeOK, Configured
    <2>2. [keys[k] EXCEPT !.tokensUsed = @ + cost].secret = keys[k].secret
      BY <2>1 DEF ApiKeyEntry
    <2> QED BY <1>1, <2>2 DEF RecordApiKeyUsage, SecretsUnique, Configured, KeyTypeOK
  <1>2. CASE k \notin Configured
    BY <1>2 DEF RecordApiKeyUsage, SecretsUnique, Configured
  <1> QED BY <1>1, <1>2

\* No two keys ever share a value, so the key FindApiKeyByValue finds is the only one
\* that could be billed.
THEOREM SecretsStayUnique == Spec => []SecretsUnique
  <1>1. Init => SecretsUnique
    BY DEF Init, KeyInit, SecretsUnique, Configured
  <1>2. Inv /\ SecretsUnique /\ [Next]_vars => SecretsUnique'
    <2>1. UNCHANGED keyVars /\ SecretsUnique => SecretsUnique'
      BY DEF keyVars, SecretsUnique, Configured
    <2> QED BY <2>1, StepsOfTheTable, AdminStepUnique, BillUnique DEF Inv, TypeOK
  <1> QED BY <1>1, <1>2, Invariance, PTL DEF Spec

\* A deleted key stays deleted, whatever edits of it were open.
THEOREM DeletionIsFinal == Spec => DeletedStaysDeleted
  <1> DEFINE Final == \A k \in issued : keys[k] = NoEntry => keys'[k] = NoEntry
  <1>1. ASSUME Inv, [Next]_vars
        PROVE  Final
    <2>0. keys = [k \in KeyIds |-> keys[k]] /\ issued \subseteq KeyIds
      BY <1>1 DEF Inv, TypeOK, KeyTypeOK
    <2>1. CASE AdminStep
      <3>1. ASSUME NEW k \in KeyIds, NEW entry, AddApiKey(k, entry)
            PROVE  Final
        BY <2>0, <3>1 DEF AddApiKey
      <3>2. ASSUME NEW a \in Admins, UpdateApiKey(a)
            PROVE  Final
        <4>1. \/ keys' = keys
              \/ \E k \in Configured : \E e : keys' = [keys EXCEPT ![k] = e]
          BY <3>2 DEF UpdateApiKey
        <4> QED BY <2>0, <4>1 DEF Configured
      <3>3. ASSUME NEW k \in KeyIds, DeleteApiKey(k) \/ ResetApiKeyUsage(k)
            PROVE  Final
        BY <2>0, <3>3 DEF DeleteApiKey, ResetApiKeyUsage, Configured
      <3> HIDE DEF Final
      <3>4. UNCHANGED keys => Final
        BY DEF Final
      <3> QED BY <2>1, <3>1, <3>2, <3>3, <3>4 DEF AdminStep, OpenEdit, UpdateSettings
    <2>2. ASSUME NEW k \in KeyIds, NEW cost \in Costs, RecordApiKeyUsage(k, cost)
          PROVE  Final
      BY <2>0, <2>2 DEF RecordApiKeyUsage, Configured
    <2>3. CASE UNCHANGED keyVars
      BY <2>3 DEF keyVars
    <2> HIDE DEF Final
    <2> QED BY <1>1, <2>1, <2>2, <2>3, StepsOfTheTable
  <1>2. Inv /\ [Next]_vars => [Final]_keyVars
    BY <1>1
  <1> QED BY <1>2, Invariance, PTL DEF Spec, DeletedStaysDeleted

\* Writing an edit back leaves what every key has been billed.
LEMMA UpdateKeepsUsage ==
    ASSUME KeyTypeOK, NEW a \in Admins, UpdateApiKey(a), NEW k \in Configured
    PROVE  keys'[k].tokensUsed = keys[k].tokensUsed
  <1> DEFINE patch == admin[a].patch
  <1>1. patch \in ApiKeyEntry
    <2>1. admin[a] # NoEdit
      BY DEF UpdateApiKey, NoEdit
    <2>2. admin[a] \in Edit
      BY <2>1 DEF KeyTypeOK
    <2> QED BY <2>2 DEF Edit
  <1>2. CASE keys' = keys
    BY <1>2
  <1>3. CASE keys' = [keys EXCEPT ![patch.id] = Patched(keys[patch.id], patch)]
    <2>1. \A e : Patched(e, patch).tokensUsed = e.tokensUsed
      BY <1>1 DEF Patched, ApiKeyEntry
    <2> HIDE DEF patch
    <2>2. k \in KeyIds /\ keys = [j \in KeyIds |-> keys[j]]
      BY DEF Configured, KeyTypeOK
    <2> QED BY <1>3, <2>1, <2>2
  <1> QED BY <1>2, <1>3 DEF UpdateApiKey

\* No edit, however old its copy of the entry, undoes a bill or a reset.
THEOREM UsageSurvivesEdits == Spec => EditsKeepUsage
  <1> DEFINE Kept == \A k \in Configured, a \in Admins :
                        admin[a].open /\ ~admin'[a].open => keys'[k].tokensUsed = keys[k].tokensUsed
  <1>1. ASSUME Inv, [Next]_vars
        PROVE  Kept
    <2>0. KeyTypeOK
      BY <1>1 DEF Inv, TypeOK
    <2>1. ASSUME NEW a \in Admins, UpdateApiKey(a)
          PROVE  Kept
      BY <2>0, <2>1, UpdateKeepsUsage
    <2>2. ASSUME NEW a \in Admins, NEW k \in KeyIds, NEW f, NEW v, OpenEdit(a, k, f, v)
          PROVE  Kept
      <3>1. admin = [b \in Admins |-> admin[b]]
        BY <2>0 DEF KeyTypeOK
      <3> QED BY <2>2, <3>1 DEF OpenEdit
    <2>3. CASE UNCHANGED admin
      BY <2>3
    <2>4. \/ \E a \in Admins : UpdateApiKey(a)
          \/ \E a \in Admins, k \in KeyIds, f \in EditFields : \E v \in EditValues[f] : OpenEdit(a, k, f, v)
          \/ UNCHANGED admin
      <3>1. AdminStep => \/ \E a \in Admins : UpdateApiKey(a)
                         \/ \E a \in Admins, k \in KeyIds, f \in EditFields :
                               \E v \in EditValues[f] : OpenEdit(a, k, f, v)
                         \/ UNCHANGED admin
        BY DEF AdminStep, AddApiKey, DeleteApiKey, ResetApiKeyUsage, UpdateSettings
      <3> QED BY <1>1, <3>1, StepsOfTheTable DEF RecordApiKeyUsage, keyVars
    <2> HIDE DEF Kept
    <2> QED BY <2>1, <2>2, <2>3, <2>4
  <1>2. Inv /\ [Next]_vars => [Kept]_keyVars
    BY <1>1
  <1> QED BY <1>2, Invariance, PTL DEF Spec, EditsKeepUsage

-----------------------------------------------------------------------------
(* Admission. *)

\* What the grounds seen so far must hold when a request has come to pc: an entry was
\* found usable, and the legacy key is only asked for after there were no keys.
Needs(pc, grounds) ==
    /\ pc \in {"recheck", "acquire"} => "entitled" \in grounds
    /\ pc = "legacy" => "entitled" \in grounds \/ "noKeys" \in grounds
    /\ pc \in {"running", "billed"} => Enough(grounds)

\* With the switch off, as it was read, a request has been entitled since it arrived.
Reasoned(q, grounds) ==
    /\ q.pc # "idle" /\ ~q.required => "entitled" \in grounds
    /\ Needs(q.pc, grounds)

JustifiedInv == \A r \in Requests : Reasoned(req[r], seen[r])

\* A request that goes on keeps its grounds, up to those that no longer matter.
LEMMA RememberKeeps ==
    ASSUME Inv, Remember, NEW r \in Requests, req'[r].pc # "idle"
    PROVE  /\ "entitled" \in seen[r] => "entitled" \in seen'[r]
           /\ "noKeys" \in seen[r] => "entitled" \in seen'[r] \/ "noKeys" \in seen'[r]
           /\ Enough(seen[r]) => Enough(seen'[r])
  BY DEF Remember, Settled, Enough

\* What holds at this very step is among the grounds.
LEMMA RememberGains ==
    ASSUME Remember, NEW r \in Requests, req'[r].pc # "idle"
    PROVE  /\ Entitled(r)' => "entitled" \in seen'[r]
           /\ ~HasApiKeys' => "entitled" \in seen'[r] \/ "noKeys" \in seen'[r]
           /\ BringsLegacyKey(r)' => "entitled" \in seen'[r] \/ "legacyKey" \in seen'[r]
  <1>1. seen'[r] = Settled(seen[r] \cup Holding(r)')
    BY DEF Remember
  <1> QED BY <1>1 DEF Settled, Holding

\* Being entitled is enough for every step.
LEMMA EntitledSuffices ==
    ASSUME NEW pc, NEW grounds, "entitled" \in grounds
    PROVE  Needs(pc, grounds)
  BY DEF Needs, Enough

\* What a request has seen stays enough for where it is.
LEMMA NeedsKept ==
    ASSUME Inv, Remember, NEW r \in Requests, NEW pc, Needs(pc, seen[r]), req'[r].pc # "idle"
    PROVE  Needs(pc, seen'[r])
  BY RememberKeeps DEF Needs

\* r moves to q, with the grounds it needs there; the others stay.
LEMMA OneMovesJustified ==
    ASSUME Inv, JustifiedInv, Remember, NEW r \in Requests, NEW q, req' = [req EXCEPT ![r] = q],
           Reasoned(q, seen'[r])
    PROVE  JustifiedInv'
  <1>1. \A s \in Requests : req'[s] = IF s = r THEN q ELSE req[s]
    BY DEF Inv, TypeOK
  <1>2. ASSUME NEW s \in Requests
        PROVE  Reasoned(req'[s], seen'[s])
    <2>1. CASE s = r
      BY <1>1, <2>1
    <2>2. CASE s # r /\ req[s].pc # "idle"
      BY <1>1, <2>2, RememberKeeps, NeedsKept DEF JustifiedInv, Reasoned
    <2>3. CASE s # r /\ req[s].pc = "idle"
      BY <1>1, <2>3 DEF Reasoned, Needs
    <2> QED BY <2>1, <2>2, <2>3
  <1> QED BY <1>2 DEF JustifiedInv

LEMMA GotoJustified ==
    ASSUME Inv, JustifiedInv, Remember, NEW r \in Requests, NEW pc \in Steps, Goto(r, pc),
           req[r].pc # "idle", Needs(pc, seen[r]) \/ Needs(pc, seen'[r])
    PROVE  JustifiedInv'
  <1> DEFINE q == [req[r] EXCEPT !.pc = pc]
  <1>1. req[r] \in Request /\ pc # "idle"
    BY DEF Inv, TypeOK, Steps
  <1>2. q.pc = pc /\ q.required = req[r].required
    BY <1>1 DEF Request
  <1>3. req' = [req EXCEPT ![r] = q] /\ req'[r] = q
    BY DEF Goto, Inv, TypeOK
  <1> HIDE DEF q
  <1>4. Needs(pc, seen'[r])
    BY <1>1, <1>2, <1>3, NeedsKept
  <1>5. ~q.required => "entitled" \in seen'[r]
    BY <1>1, <1>2, <1>3, RememberKeeps DEF JustifiedInv, Reasoned
  <1> QED BY <1>2, <1>3, <1>4, <1>5, OneMovesJustified DEF Reasoned

LEMMA IdleJustified ==
    ASSUME Inv, JustifiedInv, Remember, NEW r \in Requests, req' = [req EXCEPT ![r] = Idle]
    PROVE  JustifiedInv'
  BY IdleIsRequest, OneMovesJustified DEF Reasoned, Needs

LEMMA ArriveJustified ==
    ASSUME Inv, JustifiedInv, NEW r \in Requests, NEW secret, Arrive(r, secret)
    PROVE  JustifiedInv'
  <1> DEFINE q == [Idle EXCEPT !.pc = "hasKeys", !.provided = secret, !.required = requireApiKey]
  <1>1. q.pc = "hasKeys" /\ q.required = requireApiKey
    BY DEF Idle
  <1>2. req' = [req EXCEPT ![r] = q] /\ Remember /\ UNCHANGED requireApiKey
    BY DEF Arrive, keyVars
  <1> HIDE DEF q
  <1>3. req'[r] = q
    BY <1>2 DEF Inv, TypeOK
  <1>4. ~q.required => "entitled" \in seen'[r]
    BY <1>1, <1>2, <1>3, RememberGains DEF Entitled
  <1> QED BY <1>1, <1>2, <1>4, OneMovesJustified DEF Reasoned, Needs

LEMMA FindJustified ==
    ASSUME Inv, JustifiedInv, NEW r \in Requests, FindEntry(r)
    PROVE  JustifiedInv'
  <1> DEFINE e == FindApiKeyByValue(req[r].provided)
             q == [req[r] EXCEPT !.pc = "recheck", !.entry = e]
  <1>0. req[r] \in Request /\ req[r].pc = "find" /\ Remember /\ UNCHANGED keyVars
    BY DEF FindEntry, Inv, TypeOK
  <1>1. CASE ~Admissible(e, req[r].required)
    <2>1. Reject(r) \/ (~req[r].required /\ Goto(r, "running"))
      BY <1>1 DEF FindEntry
    <2>2. ~req[r].required => Needs("running", seen[r])
      BY <1>0, EntitledSuffices DEF JustifiedInv, Reasoned
    <2> QED BY <1>0, <2>1, <2>2, IdleJustified, GotoJustified DEF Reject, Steps
  <1>2. CASE Admissible(e, req[r].required)
    <2>1. req' = [req EXCEPT ![r] = q]
      BY <1>2 DEF FindEntry
    <2>2. q.pc = "recheck" /\ q.required = req[r].required /\ q.provided = req[r].provided
      BY <1>0 DEF Request
    <2>3. req'[r] = q
      BY <2>1 DEF Inv, TypeOK
    <2>4. CASE ~req[r].required
      <3>1. "entitled" \in seen[r]
        BY <1>0, <2>4 DEF JustifiedInv, Reasoned
      <3>2. "entitled" \in seen'[r]
        BY <1>0, <2>2, <2>3, <3>1, RememberKeeps
      <3> QED BY <1>0, <2>1, <3>2, OneMovesJustified, EntitledSuffices DEF Reasoned
    <2>5. CASE req[r].required
      <3>1. /\ e # NoEntry /\ e.enabled /\ ~ApiKeyOverLimit(e)
        BY <1>2, <2>5 DEF Admissible
      <3>2. \E k \in Configured : keys[k] = e /\ keys[k].secret = req[r].provided
        BY <3>1 DEF FindApiKeyByValue
      <3> HIDE DEF e, q
      <3>3. \E k \in Configured' : /\ keys'[k].secret = req'[r].provided
                                   /\ keys'[k].enabled /\ ~ApiKeyOverLimit(keys'[k])
        BY <1>0, <2>2, <2>3, <3>1, <3>2 DEF Configured, keyVars
      <3>4. Entitled(r)'
        BY <3>3 DEF Entitled, ApiKeyOverLimit
      <3>5. "entitled" \in seen'[r]
        BY <1>0, <2>2, <2>3, <3>4, RememberGains
      <3> QED BY <1>0, <2>1, <3>5, OneMovesJustified, EntitledSuffices DEF Reasoned
    <2> QED BY <1>0, <2>4, <2>5 DEF Request
  <1> QED BY <1>1, <1>2

LEMMA LegacyJustified ==
    ASSUME Inv, JustifiedInv, NEW r \in Requests, MatchLegacyKey(r)
    PROVE  JustifiedInv'
  <1>1. Remember /\ UNCHANGED keyVars /\ req[r].pc = "legacy"
    BY DEF MatchLegacyKey
  <1>2. CASE Reject(r)
    BY <1>1, <1>2, IdleJustified DEF Reject
  <1>3. CASE legacyKey # NoSecret /\ req[r].provided = legacyKey /\ Goto(r, "running")
    <2>1. req'[r].pc = "running" /\ req'[r].provided = req[r].provided
      BY <1>3 DEF Goto, Inv, TypeOK, Request
    <2>2. BringsLegacyKey(r)'
      BY <1>1, <1>3, <2>1 DEF BringsLegacyKey, keyVars
    <2>3. "entitled" \in seen'[r] \/ {"noKeys", "legacyKey"} \subseteq seen'[r]
      <3>1. "entitled" \in seen[r] \/ "noKeys" \in seen[r]
        BY <1>1 DEF JustifiedInv, Reasoned, Needs
      <3> QED BY <1>1, <2>1, <2>2, <3>1, RememberGains, RememberKeeps
    <2>4. Needs("running", seen'[r])
      BY <2>3 DEF Needs, Enough
    <2> QED BY <1>1, <1>3, <2>4, GotoJustified DEF Steps
  <1> QED BY <1>2, <1>3 DEF MatchLegacyKey

LEMMA LimiterJustified ==
    ASSUME Inv, JustifiedInv, NEW r \in Requests, AcquireGranted(r)
    PROVE  JustifiedInv'
  <1> DEFINE q == [req[r] EXCEPT !.pc = "running", !.limited = TRUE,
                                 !.slot = CountsInflight(req[r].entry)]
  <1>1. req[r] \in Request /\ req[r].pc = "acquire" /\ Remember
    BY DEF AcquireGranted, Inv, TypeOK
  <1>2. q.pc = "running"
    BY <1>1 DEF Request
  <1>3. req' = [req EXCEPT ![r] = q]
    BY DEF AcquireGranted
  <1> HIDE DEF q
  <1>4. "entitled" \in seen'[r]
    <2>1. req'[r] = q
      BY <1>3 DEF Inv, TypeOK
    <2> QED BY <1>1, <1>2, <2>1, RememberKeeps DEF JustifiedInv, Reasoned, Needs
  <1> QED BY <1>1, <1>3, <1>4, OneMovesJustified, EntitledSuffices DEF Reasoned

LEMMA StepJustified ==
    ASSUME Inv, JustifiedInv, Next
    PROVE  JustifiedInv'
  <1>1. ASSUME NEW r \in Requests, ReadHasApiKeys(r)
        PROVE  JustifiedInv'
    <2>1. Remember /\ req[r].pc = "hasKeys" /\ UNCHANGED keys
      BY <1>1 DEF ReadHasApiKeys, keyVars
    <2>2. CASE Reject(r)
      BY <2>1, <2>2, IdleJustified DEF Reject
    <2>3. CASE Goto(r, "find")
      <3>1. Needs("find", seen[r])
        BY DEF Needs
      <3> QED BY <2>1, <2>3, <3>1, GotoJustified DEF Steps
    <2>4. CASE ~req[r].required /\ Goto(r, "running")
      <3>1. Needs("running", seen[r])
        BY <2>1, <2>4, EntitledSuffices DEF JustifiedInv, Reasoned
      <3> QED BY <2>1, <2>4, <3>1, GotoJustified DEF Steps
    <2>5. CASE ~HasApiKeys /\ Goto(r, "legacy")
      <3>1. req'[r].pc = "legacy"
        BY <2>5 DEF Goto, Inv, TypeOK, Request
      <3>2. ~HasApiKeys'
        BY <2>1, <2>5 DEF HasApiKeys, Configured
      <3>3. Needs("legacy", seen'[r])
        BY <2>1, <3>1, <3>2, RememberGains DEF Needs
      <3> QED BY <2>1, <2>5, <3>3, GotoJustified DEF Steps
    <2> QED BY <1>1, <2>2, <2>3, <2>4, <2>5 DEF ReadHasApiKeys
  <1>2. ASSUME NEW r \in Requests, RecheckRequired(r)
        PROVE  JustifiedInv'
    <2>1. Remember /\ req[r].pc = "recheck" /\ \E pc \in {"acquire", "running"} : Goto(r, pc)
      BY <1>2 DEF RecheckRequired
    <2>2. \A pc : Needs(pc, seen[r])
      BY <2>1, EntitledSuffices DEF JustifiedInv, Reasoned, Needs
    <2> QED BY <2>1, <2>2, GotoJustified DEF Steps
  <1>3. ASSUME NEW r \in Requests, AcquireRefused(r) \/ Finish(r)
        PROVE  JustifiedInv'
    BY <1>3, IdleJustified DEF AcquireRefused, Finish, Reject
  <1>4. ASSUME NEW r \in Requests, NEW cost \in Costs, Bill(r, cost)
        PROVE  JustifiedInv'
    <2>1. Remember /\ req[r].pc = "running" /\ Goto(r, "billed")
      BY <1>4 DEF Bill
    <2>2. Needs("billed", seen[r])
      BY <2>1 DEF JustifiedInv, Reasoned, Needs
    <2> QED BY <2>1, <2>2, GotoJustified DEF Steps
  <1>5. ASSUME UNCHANGED req, Remember
        PROVE  JustifiedInv'
    <2>1. ASSUME NEW r \in Requests
          PROVE  Reasoned(req[r], seen'[r])
      BY <1>5, RememberKeeps, NeedsKept DEF JustifiedInv, Reasoned, Needs
    <2> QED BY <1>5, <2>1 DEF JustifiedInv
  <1> QED BY <1>1, <1>2, <1>3, <1>4, <1>5, ArriveJustified, FindJustified, LegacyJustified,
             LimiterJustified DEF Next, Progress, Operate, Tick

\* Whatever operators do between the reads of authenticate and admit, a request that
\* runs was entitled to at one moment since it arrived, or met the two halves of the
\* legacy key's ground: a moment without keys, and its secret as the legacy key.
THEOREM AdmissionIsJustified == Spec => []AdmissionJustified
  <1>1. Init => JustifiedInv
    BY IdleIsRequest DEF Init, JustifiedInv, Reasoned, Needs
  <1>2. Inv /\ JustifiedInv /\ [Next]_vars => JustifiedInv'
    <2>1. UNCHANGED vars /\ JustifiedInv => JustifiedInv'
      BY DEF vars, JustifiedInv
    <2> QED BY <2>1, StepJustified
  <1>3. JustifiedInv => AdmissionJustified
    BY DEF JustifiedInv, Reasoned, Needs, AdmissionJustified, Admitted
  <1> QED BY <1>1, <1>2, <1>3, Invariance, PTL DEF Spec

\* The legacy key is a setting nobody changes.
FixedLegacyKey == \A secret, other \in LegacyKeys : secret = other

\* The two halves exclude each other then: a request that brings the legacy key is
\* entitled as soon as there are no keys.
HalvesInv ==
    \A r \in Requests :
        /\ req[r].pc = "idle" => seen[r] = {}
        /\ "legacyKey" \in seen[r] => BringsLegacyKey(r)
        /\ "noKeys" \in seen[r] => ~BringsLegacyKey(r)

\* A request that is under way keeps the secret it came with.
LEMMA SecretsStay ==
    ASSUME Inv, Next, NEW r \in Requests, req[r].pc # "idle", req'[r].pc # "idle"
    PROVE  req'[r].provided = req[r].provided
  <1> USE DEF Inv, TypeOK
  <1>1. ASSUME NEW s \in Requests, NEW secret \in Secrets \cup {NoSecret}, Arrive(s, secret)
        PROVE  req'[r].provided = req[r].provided
    BY <1>1 DEF Arrive
  <1>2. ASSUME NEW s \in Requests, NEW pc, Goto(s, pc)
        PROVE  req'[r].provided = req[r].provided
    BY <1>2 DEF Goto, Request
  <1>3. ASSUME NEW s \in Requests, req' = [req EXCEPT ![s] = Idle]
        PROVE  req'[r].provided = req[r].provided
    BY <1>3, IdleIsRequest
  <1>4. ASSUME NEW s \in Requests, FindEntry(s)
        PROVE  req'[r].provided = req[r].provided
    BY <1>2, <1>3, <1>4 DEF FindEntry, Reject, Request
  <1>5. ASSUME NEW s \in Requests, AcquireGranted(s)
        PROVE  req'[r].provided = req[r].provided
    BY <1>5 DEF AcquireGranted, Request
  <1>6. ASSUME NEW s \in Requests, ReadHasApiKeys(s) \/ MatchLegacyKey(s) \/ RecheckRequired(s)
        PROVE  req'[r].provided = req[r].provided
    BY <1>2, <1>3, <1>6 DEF ReadHasApiKeys, MatchLegacyKey, RecheckRequired, Reject
  <1>7. ASSUME NEW s \in Requests, AcquireRefused(s) \/ Finish(s) \/ \E cost \in Costs : Bill(s, cost)
        PROVE  req'[r].provided = req[r].provided
    BY <1>2, <1>3, <1>7 DEF AcquireRefused, Finish, Bill, Reject
  <1> QED BY <1>1, <1>4, <1>5, <1>6, <1>7 DEF Next, Progress, Operate, Tick

\* Where nobody changes the legacy key, a request that runs was entitled to at one
\* moment: only setting the key between the two reads lets a request in that was not.
THEOREM EntitledAtOnceIfLegacyKeyStays ==
    ASSUME FixedLegacyKey
    PROVE  Spec => []EntitledAtOnce
  <1>1. Init => HalvesInv
    BY DEF Init, HalvesInv
  <1>2. Inv /\ HalvesInv /\ [Next]_vars => HalvesInv'
    <2>1. CASE UNCHANGED vars
      BY <2>1 DEF vars, HalvesInv, BringsLegacyKey, keyVars
    <2>2. ASSUME Inv, HalvesInv, Next, NEW r \in Requests
          PROVE  /\ req'[r].pc = "idle" => seen'[r] = {}
                 /\ "legacyKey" \in seen'[r] => BringsLegacyKey(r)'
                 /\ "noKeys" \in seen'[r] => ~BringsLegacyKey(r)'
      <3>1. Remember
        BY <2>2 DEF Next, Progress, Operate, Tick, Arrive, ReadHasApiKeys, FindEntry, MatchLegacyKey,
                    RecheckRequired, AcquireGranted, AcquireRefused, Bill, Finish
      <3>2. legacyKey' = legacyKey
        <4>1. Inv'
          BY <2>2, StepKeepsInv
        <4> QED BY <2>2, <4>1 DEF FixedLegacyKey, Inv, TypeOK, KeyTypeOK
      <3>3. CASE req'[r].pc = "idle"
        BY <3>1, <3>3 DEF Remember
      <3>4. CASE req'[r].pc # "idle"
        <4>1. /\ "legacyKey" \in seen[r] => BringsLegacyKey(r)'
              /\ "noKeys" \in seen[r] => ~BringsLegacyKey(r)'
          BY <2>2, <3>2, <3>4, SecretsStay DEF HalvesInv, BringsLegacyKey
        <4>2. seen'[r] = Settled(seen[r] \cup Holding(r)')
          BY <3>1, <3>4 DEF Remember
        <4>3. /\ "legacyKey" \in Holding(r)' => BringsLegacyKey(r)'
              /\ "noKeys" \in Holding(r)' => ~BringsLegacyKey(r)'
          BY DEF Holding, Entitled
        <4> QED BY <3>4, <4>1, <4>2, <4>3 DEF Settled
      <3> QED BY <3>3, <3>4
    <2> QED BY <2>1, <2>2 DEF HalvesInv
  <1>3. HalvesInv /\ AdmissionJustified => EntitledAtOnce
    BY DEF HalvesInv, AdmissionJustified, EntitledAtOnce, Admitted, Enough
  <1> QED BY <1>1, <1>2, <1>3, Invariance, AdmissionIsJustified, PTL DEF Spec

-----------------------------------------------------------------------------
(* Quotas. *)

\* Where the bound on quotas holds: operators leave the token limits of existing
\* keys alone and do not turn the switch off.  A limit lowered below what was
\* billed is exceeded at once by any amount, and with the switch off a key over
\* its quota is let in.
FixedQuotas == "tokenLimit" \notin EditFields /\ RequireValues \subseteq {TRUE}

\* Every request under way was asked for a key, and has none while it is authenticating.
AskedInv ==
    \A r \in Requests :
        /\ req[r].pc # "idle" => req[r].required
        /\ req[r].pc \in {"hasKeys", "find", "legacy"} => req[r].entry = NoEntry

\* An edit that is open carries the token limit its key still has.
LimitsInv ==
    \A a \in Admins : admin[a].open /\ keys[admin[a].patch.id] # NoEntry =>
        admin[a].patch.tokenLimit = keys[admin[a].patch.id].tokenLimit

QuotaInv == QuotaOvershootBounded /\ AskedInv /\ LimitsInv

\* The bound for one entry, while the requests of S can still be billed to it.
Within(e, S) ==
    ApiKeyOverLimit(e) => e.tokensUsed + MaxCost * Cardinality(S)
                            < e.tokenLimit + MaxCost * Cardinality(Requests)

\* Products with the largest cost are monotone, and grow by it.
LEMMA CostsOfMore ==
    ASSUME NEW m \in Nat, NEW i \in Nat, NEW j \in Nat, i <= j
    PROVE  /\ m * i \in Nat /\ m * j \in Nat
           /\ m * i <= m * j
           /\ i < j => m * i + m <= m * j
  <1>1. m * i \in Nat /\ m * j \in Nat
    OBVIOUS
  <1>2. PICK d \in Nat : j = i + d
    <2> WITNESS j - i \in Nat
    <2> QED OBVIOUS
  <1>3. m * j = m * i + m * d /\ m * d \in Nat
    BY <1>2
  <1>4. i < j => \E c \in Nat : d = c + 1
    <2> SUFFICES ASSUME i < j PROVE \E c \in Nat : d = c + 1
      OBVIOUS
    <2>1. d - 1 \in Nat /\ d = (d - 1) + 1
      BY <1>2
    <2> QED BY <2>1
  <1>5. ASSUME NEW c \in Nat, d = c + 1
        PROVE  m * d = m * c + m /\ m * c \in Nat
    BY <1>5
  <1> QED BY <1>1, <1>3, <1>4, <1>5

LEMMA SpendingIsFinite ==
    ASSUME NEW S \in SUBSET Requests
    PROVE  /\ IsFiniteSet(S) /\ Cardinality(S) \in Nat /\ Cardinality(Requests) \in Nat
           /\ Cardinality(S) <= Cardinality(Requests)
  BY RequestsAssumption, FS_Subset, FS_CardinalityType

LEMMA EntryNumbers ==
    ASSUME NEW e \in ApiKeyEntry
    PROVE  e.tokensUsed \in Nat /\ e.tokenLimit \in Nat
  BY LimitsAssumption DEF ApiKeyEntry

\* A request that leaves unbilled only lowers what is still to come.
LEMMA FewerSpend ==
    ASSUME NEW e \in ApiKeyEntry, NEW T \in SUBSET Requests, NEW S \in SUBSET T, Within(e, T)
    PROVE  Within(e, S)
  <1>1. /\ Cardinality(S) \in Nat /\ Cardinality(T) \in Nat /\ Cardinality(Requests) \in Nat
        /\ Cardinality(S) <= Cardinality(T)
    BY SpendingIsFinite, FS_Subset
  <1> DEFINE s == MaxCost * Cardinality(S)
             t == MaxCost * Cardinality(T)
             a == MaxCost * Cardinality(Requests)
  <1>2. s \in Nat /\ t \in Nat /\ a \in Nat /\ s <= t
    BY <1>1, CostsOfMore, RequestsAssumption
  <1>3. ApiKeyOverLimit(e) => e.tokensUsed + t < e.tokenLimit + a
    BY DEF Within
  <1> HIDE DEF s, t, a
  <1>4. ApiKeyOverLimit(e) => e.tokensUsed + s < e.tokenLimit + a
    BY <1>2, <1>3, EntryNumbers
  <1> QED BY <1>4 DEF Within, s, a

\* A bill moves its cost from what is still to come to what was billed; the one
\* that passes the limit finds the key below it.
LEMMA BillWithin ==
    ASSUME NEW e \in ApiKeyEntry, NEW f \in ApiKeyEntry, NEW cost \in Costs,
           f.tokensUsed = e.tokensUsed + cost, f.tokenLimit = e.tokenLimit,
           NEW T \in SUBSET Requests, NEW r \in T, Within(e, T)
    PROVE  Within(f, T \ {r})
  <1>1. /\ Cardinality(T) \in Nat /\ Cardinality(Requests) \in Nat /\ Cardinality(T \ {r}) \in Nat
        /\ Cardinality(T \ {r}) < Cardinality(T) /\ Cardinality(T) <= Cardinality(Requests)
    BY SpendingIsFinite, FS_RemoveElement
  <1> DEFINE s == MaxCost * Cardinality(T \ {r})
             t == MaxCost * Cardinality(T)
             a == MaxCost * Cardinality(Requests)
  <1>2. s \in Nat /\ t \in Nat /\ a \in Nat /\ s + MaxCost <= t /\ t <= a
    BY <1>1, CostsOfMore, RequestsAssumption
  <1>3. ApiKeyOverLimit(e) => e.tokensUsed + t < e.tokenLimit + a
    BY DEF Within
  <1>4. cost \in Nat /\ cost <= MaxCost /\ MaxCost \in Nat
    BY RequestsAssumption
  <1>5. e.tokensUsed \in Nat /\ e.tokenLimit \in Nat
    BY EntryNumbers
  <1> HIDE DEF s, t, a
  <1>6. ApiKeyOverLimit(f) => f.tokensUsed + s < f.tokenLimit + a
    <2>1. CASE ApiKeyOverLimit(e)
      BY <1>2, <1>3, <1>4, <1>5, <2>1
    <2>2. CASE ~ApiKeyOverLimit(e)
      BY <1>2, <1>4, <1>5, <2>2 DEF ApiKeyOverLimit
    <2> QED BY <2>1, <2>2
  <1> QED BY <1>6 DEF Within, s, a

-----------------------------------------------------------------------------

\* With the switch always on, every request that arrives is asked for a key.
LEMMA StepAsked ==
    ASSUME FixedQuotas, Inv, AskedInv, [Next]_vars
    PROVE  AskedInv'
  <1>0. req \in [Requests -> Request] /\ requireApiKey = TRUE
    BY DEF Inv, TypeOK, KeyTypeOK, FixedQuotas
  <1>1. ASSUME NEW r \in Requests, NEW q, req' = [req EXCEPT ![r] = q],
               q.pc # "idle" => q.required,
               q.pc \in {"hasKeys", "find", "legacy"} => q.entry = NoEntry
        PROVE  AskedInv'
    <2>1. \A s \in Requests : req'[s] = IF s = r THEN q ELSE req[s]
      BY <1>0, <1>1
    <2> QED BY <1>1, <2>1 DEF AskedInv
  <1>2. ASSUME NEW r \in Requests, req' = [req EXCEPT ![r] = Idle]
        PROVE  AskedInv'
    BY <1>1, <1>2, IdleIsRequest
  <1>3. ASSUME NEW r \in Requests, NEW pc \in Steps, Goto(r, pc), req[r].pc # "idle",
               pc \in {"find", "legacy"} => req[r].entry = NoEntry, pc # "hasKeys"
        PROVE  AskedInv'
    <2> DEFINE q == [req[r] EXCEPT !.pc = pc]
    <2>1. q.pc = pc /\ q.required = req[r].required /\ q.entry = req[r].entry
      BY <1>0 DEF Request
    <2>2. req' = [req EXCEPT ![r] = q]
      BY <1>3 DEF Goto
    <2> HIDE DEF q
    <2> QED BY <1>1, <1>3, <2>1, <2>2 DEF AskedInv
  <1>4. ASSUME NEW r \in Requests, NEW secret, Arrive(r, secret)
        PROVE  AskedInv'
    <2> DEFINE q == [Idle EXCEPT !.pc = "hasKeys", !.provided = secret, !.required = requireApiKey]
    <2>1. q.required /\ q.entry = NoEntry
      BY <1>0 DEF Idle
    <2>2. req' = [req EXCEPT ![r] = q]
      BY <1>4 DEF Arrive
    <2> HIDE DEF q
    <2> QED BY <1>1, <2>1, <2>2
  <1>5. ASSUME NEW r \in Requests, ReadHasApiKeys(r)
        PROVE  AskedInv'
    <2>1. Reject(r) \/ \E pc \in {"running", "legacy", "find"} : Goto(r, pc)
      BY <1>5 DEF ReadHasApiKeys
    <2>2. req[r].pc = "hasKeys" /\ req[r].entry = NoEntry
      BY <1>5 DEF ReadHasApiKeys, AskedInv
    <2> QED BY <1>2, <1>3, <2>1, <2>2 DEF Reject, Steps
  <1>6. ASSUME NEW r \in Requests, FindEntry(r)
        PROVE  AskedInv'
    <2> DEFINE q == [req[r] EXCEPT !.pc = "recheck", !.entry = FindApiKeyByValue(req[r].provided)]
    <2>1. Reject(r) \/ Goto(r, "running") \/ req' = [req EXCEPT ![r] = q]
      BY <1>6 DEF FindEntry
    <2>2. q.pc = "recheck" /\ q.required = req[r].required
      BY <1>0 DEF Request
    <2>3. req[r].pc = "find"
      BY <1>6 DEF FindEntry
    <2> HIDE DEF q
    <2>4. req' = [req EXCEPT ![r] = q] => AskedInv'
      BY <1>1, <2>2, <2>3 DEF AskedInv
    <2> QED BY <1>2, <1>3, <2>1, <2>3, <2>4 DEF Reject, Steps
  <1>7. ASSUME NEW r \in Requests, MatchLegacyKey(r) \/ RecheckRequired(r)
        PROVE  AskedInv'
    <2>1. Reject(r) \/ \E pc \in {"running", "acquire"} : Goto(r, pc)
      BY <1>7 DEF MatchLegacyKey, RecheckRequired
    <2>2. req[r].pc # "idle"
      BY <1>7 DEF MatchLegacyKey, RecheckRequired
    <2> QED BY <1>2, <1>3, <2>1, <2>2 DEF Reject, Steps
  <1>8. ASSUME NEW r \in Requests, AcquireGranted(r)
        PROVE  AskedInv'
    <2> DEFINE q == [req[r] EXCEPT !.pc = "running", !.limited = TRUE,
                                   !.slot = CountsInflight(req[r].entry)]
    <2>1. q.pc = "running" /\ q.required = req[r].required
      BY <1>0 DEF Request
    <2>2. req' = [req EXCEPT ![r] = q] /\ req[r].pc = "acquire"
      BY <1>8 DEF AcquireGranted
    <2> HIDE DEF q
    <2> QED BY <1>1, <2>1, <2>2 DEF AskedInv
  <1>9. ASSUME NEW r \in Requests, AcquireRefused(r) \/ Finish(r)
        PROVE  AskedInv'
    BY <1>2, <1>9 DEF AcquireRefused, Finish, Reject
  <1>10. ASSUME NEW r \in Requests, NEW cost \in Costs, Bill(r, cost)
         PROVE  AskedInv'
    BY <1>3, <1>10 DEF Bill, Steps
  <1>11. UNCHANGED req => AskedInv'
    BY DEF AskedInv
  <1> QED BY <1>4, <1>5, <1>6, <1>7, <1>8, <1>9, <1>10, <1>11 DEF Next, Progress, Operate, Tick, vars

\* No key that was issued gets another token limit.
LEMMA TableKeepsLimits ==
    ASSUME KeyTypeOK, LimitsInv,
           AdminStep \/ (\E k \in KeyIds, cost \in Costs : RecordApiKeyUsage(k, cost)),
           NEW j \in issued, keys'[j] # NoEntry
    PROVE  keys[j] # NoEntry /\ keys'[j].tokenLimit = keys[j].tokenLimit
  <1> DEFINE Kept == keys[j] # NoEntry /\ keys'[j].tokenLimit = keys[j].tokenLimit
  <1>0. /\ j \in KeyIds /\ keys \in [KeyIds -> ApiKeyEntry \cup {NoEntry}]
        /\ keys[j] # NoEntry => keys[j] \in ApiKeyEntry
    BY DEF KeyTypeOK
  <1>1. ASSUME NEW k \in KeyIds, NEW entry, AddApiKey(k, entry)
        PROVE  Kept
    BY <1>0, <1>1 DEF AddApiKey
  <1>2. ASSUME NEW a \in Admins, UpdateApiKey(a)
        PROVE  Kept
    <2> DEFINE patch == admin[a].patch
    <2>1. patch \in ApiKeyEntry /\ admin[a].open
      <3>1. admin[a] # NoEdit
        BY <1>2 DEF UpdateApiKey, NoEdit
      <3>2. admin[a] \in Edit
        BY <3>1 DEF KeyTypeOK
      <3> QED BY <1>2, <3>2 DEF Edit, UpdateApiKey
    <2>2. CASE keys' = keys
      BY <2>2
    <2>3. CASE /\ keys' = [keys EXCEPT ![patch.id] = Patched(keys[patch.id], patch)]
               /\ patch.id \in Configured
      <3>1. Patched(keys[patch.id], patch).tokenLimit = patch.tokenLimit
        BY <2>1 DEF Patched, ApiKeyEntry
      <3>2. keys[patch.id] # NoEntry /\ patch.tokenLimit = keys[patch.id].tokenLimit
        BY <2>1, <2>3 DEF LimitsInv, Configured
      <3> HIDE DEF patch
      <3> QED BY <1>0, <2>3, <3>1, <3>2
    <2> QED BY <1>2, <2>2, <2>3 DEF UpdateApiKey
  <1>3. ASSUME NEW k \in KeyIds, DeleteApiKey(k)
        PROVE  Kept
    BY <1>0, <1>3 DEF DeleteApiKey
  <1>4. ASSUME NEW k \in KeyIds, ResetApiKeyUsage(k)
        PROVE  Kept
    <2>1. keys[k] \in ApiKeyEntry /\ keys[k] # NoEntry
      BY <1>0, <1>4 DEF ResetApiKeyUsage, Configured
    <2>2. [keys[k] EXCEPT !.tokensUsed = 0].tokenLimit = keys[k].tokenLimit
      BY <2>1 DEF ApiKeyEntry
    <2> QED BY <1>0, <1>4, <2>1, <2>2 DEF ResetApiKeyUsage
  <1>5. ASSUME NEW k \in KeyIds, NEW cost \in Costs, RecordApiKeyUsage(k, cost)
        PROVE  Kept
    <2>1. CASE k \notin Configured
      BY <1>5, <2>1 DEF RecordApiKeyUsage
    <2>2. CASE k \in Configured
      <3>1. keys[k] \in ApiKeyEntry /\ keys[k] # NoEntry
        BY <1>0, <2>2 DEF Configured
      <3>2. [keys[k] EXCEPT !.tokensUsed = @ + cost].tokenLimit = keys[k].tokenLimit
        BY <3>1 DEF ApiKeyEntry
      <3> QED BY <1>0, <1>5, <2>2, <3>1, <3>2 DEF RecordApiKeyUsage
    <2> QED BY <2>1, <2>2
  <1>6. UNCHANGED keys => Kept
    OBVIOUS
  <1> HIDE DEF Kept
  <1>7. Kept
    BY <1>1, <1>2, <1>3, <1>4, <1>5, <1>6 DEF AdminStep, OpenEdit, UpdateSettings
  <1> QED BY <1>7 DEF Kept

LEMMA StepLimits ==
    ASSUME FixedQuotas, Inv, LimitsInv, [Next]_vars
    PROVE  LimitsInv'
  <1>0. KeyTypeOK
    BY DEF Inv, TypeOK
  <1>1. ASSUME NEW a \in Admins, NEW k \in KeyIds, NEW f \in EditFields, NEW v \in EditValues[f],
               OpenEdit(a, k, f, v)
        PROVE  LimitsInv'
    <2> DEFINE patch == [keys[k] EXCEPT ![f] = v]
               edit == [open |-> TRUE, field |-> f, patch |-> patch]
    <2>1. keys[k] \in ApiKeyEntry /\ keys[k].id = k
      BY <1>0, <1>1 DEF OpenEdit, KeyTypeOK, Configured
    <2>2. f \in EditableFields /\ f # "tokenLimit"
      BY SecretsAssumption DEF EditableFields, FixedQuotas
    <2>3. patch.id = k /\ patch.tokenLimit = keys[k].tokenLimit
      <3>1. patch.id = k
        BY <2>1, <2>2, EditedType
      <3>2. CASE f = "secret"           BY <2>1, <3>2 DEF ApiKeyEntry
      <3>3. CASE f = "enabled"          BY <2>1, <3>3 DEF ApiKeyEntry
      <3>4. CASE f = "rpmLimit"         BY <2>1, <3>4 DEF ApiKeyEntry
      <3>5. CASE f = "concurrencyLimit" BY <2>1, <3>5 DEF ApiKeyEntry
      <3> QED BY <2>2, <3>1, <3>2, <3>3, <3>4, <3>5 DEF EditableFields
    <2> HIDE DEF patch
    <2>4. edit.patch = patch
      OBVIOUS
    <2>5. admin' = [admin EXCEPT ![a] = edit] /\ UNCHANGED keys
      BY <1>1 DEF OpenEdit, patch
    <2> HIDE DEF edit
    <2>6. \A b \in Admins : admin'[b] = IF b = a THEN edit ELSE admin[b]
      BY <1>0, <2>5 DEF KeyTypeOK
    <2> QED BY <2>3, <2>4, <2>5, <2>6 DEF LimitsInv
  <1>2. ASSUME \A b \in Admins : admin'[b].open => admin'[b] = admin[b],
               AdminStep \/ (\E k \in KeyIds, cost \in Costs : RecordApiKeyUsage(k, cost))
        PROVE  LimitsInv'
    <2>1. ASSUME NEW b \in Admins, admin'[b].open, keys'[admin'[b].patch.id] # NoEntry
          PROVE  admin'[b].patch.tokenLimit = keys'[admin'[b].patch.id].tokenLimit
      <3>1. admin'[b] = admin[b] /\ admin[b].open
        BY <1>2, <2>1
      <3>2. admin[b].patch.id \in issued
        BY <1>0, <3>1 DEF KeyTypeOK
      <3>3. /\ keys[admin[b].patch.id] # NoEntry
            /\ keys'[admin[b].patch.id].tokenLimit = keys[admin[b].patch.id].tokenLimit
        BY <1>0, <1>2, <2>1, <3>1, <3>2, TableKeepsLimits
      <3> QED BY <3>1, <3>3 DEF LimitsInv
    <2> QED BY <2>1 DEF LimitsInv
  <1>3. ASSUME NEW a \in Admins, UpdateApiKey(a)
        PROVE  LimitsInv'
    <2>1. admin' = [admin EXCEPT ![a] = NoEdit] /\ ~NoEdit.open
      BY <1>3 DEF UpdateApiKey, NoEdit
    <2>2. \A b \in Admins : admin'[b].open => admin'[b] = admin[b]
      BY <1>0, <2>1 DEF KeyTypeOK
    <2> QED BY <1>2, <1>3, <2>2 DEF AdminStep
  <1>4. CASE UNCHANGED keyVars
    BY <1>4 DEF keyVars, LimitsInv
  <1>5. CASE \E k \in KeyIds, cost \in Costs : RecordApiKeyUsage(k, cost)
    BY <1>2, <1>5 DEF RecordApiKeyUsage
  <1>6. CASE AdminStep /\ UNCHANGED admin
    BY <1>2, <1>6
  <1>7. CASE AdminStep
    BY <1>1, <1>3, <1>6, <1>7 DEF AdminStep, AddApiKey, DeleteApiKey, ResetApiKeyUsage, UpdateSettings
  <1> QED BY <1>4, <1>5, <1>7, StepsOfTheTable

-----------------------------------------------------------------------------

\* The bound, key by key.
LEMMA QuotaByKey ==
    ASSUME \A k \in Configured' : Within(keys'[k], Spending(k)')
    PROVE  QuotaOvershootBounded'
  BY DEF QuotaOvershootBounded, Within, ApiKeyOverLimit

LEMMA SpendingAreRequests == \A k : Spending(k) \in SUBSET Requests
  BY DEF Spending

\* A step of a request that finds no key keeps the bound: at most, one request
\* fewer is still to be billed.
LEMMA RequestQuota ==
    ASSUME Inv, QuotaOvershootBounded, UNCHANGED keys, NEW r \in Requests, NEW q,
           req' = [req EXCEPT ![r] = q],
           q.pc \in {"recheck", "acquire", "running"} /\ q.entry # NoEntry =>
              req[r].pc \in {"recheck", "acquire", "running"} /\ q.entry = req[r].entry
    PROVE  QuotaOvershootBounded'
  <1>1. \A s \in Requests : req'[s] = IF s = r THEN q ELSE req[s]
    BY DEF Inv, TypeOK
  <1>2. ASSUME NEW k \in Configured'
        PROVE  Within(keys'[k], Spending(k)')
    <2>1. k \in Configured /\ keys'[k] = keys[k]
      BY DEF Configured
    <2>2. keys[k] \in ApiKeyEntry
      BY <2>1 DEF Inv, TypeOK, KeyTypeOK, Configured
    <2>3. Spending(k)' \subseteq Spending(k)
      BY <1>1 DEF Spending
    <2>4. Within(keys[k], Spending(k))
      BY <2>1 DEF QuotaOvershootBounded, Within
    <2> QED BY <2>1, <2>2, <2>3, <2>4, FewerSpend, SpendingAreRequests
  <1> QED BY <1>2, QuotaByKey

\* The key a request finds is below its quota when it joins those that spend on it.
LEMMA FindQuota ==
    ASSUME Inv, QuotaOvershootBounded, AskedInv, NEW r \in Requests, FindEntry(r)
    PROVE  QuotaOvershootBounded'
  <1> DEFINE e == FindApiKeyByValue(req[r].provided)
             q == [req[r] EXCEPT !.pc = "recheck", !.entry = e]
  <1>0. /\ req[r] \in Request /\ req[r].pc = "find" /\ req[r].required /\ req[r].entry = NoEntry
        /\ UNCHANGED keys
    BY DEF FindEntry, Inv, TypeOK, AskedInv, keyVars
  <1>1. CASE Reject(r)
    BY <1>0, <1>1, RequestQuota, IdleIsRequest DEF Reject
  <1>2. CASE Admissible(e, req[r].required) /\ req' = [req EXCEPT ![r] = q]
    <2>1. e # NoEntry /\ ~ApiKeyOverLimit(e)
      BY <1>0, <1>2 DEF Admissible
    <2>2. PICK j \in Configured : keys[j] = e
      BY <2>1 DEF FindApiKeyByValue
    <2>3. e.id = j
      BY <2>2 DEF Inv, TypeOK, KeyTypeOK
    <2>4. q.entry = e
      BY <1>0 DEF Request
    <2> HIDE DEF e, q
    <2>5. \A s \in Requests : req'[s] = IF s = r THEN q ELSE req[s]
      BY <1>2 DEF Inv, TypeOK
    <2>6. ASSUME NEW k \in Configured'
          PROVE  Within(keys'[k], Spending(k)')
      <3>1. k \in Configured /\ keys'[k] = keys[k]
        BY <1>0 DEF Configured
      <3>2. CASE k = j
        BY <2>1, <2>2, <3>1, <3>2 DEF Within
      <3>3. CASE k # j
        <4>1. Spending(k)' = Spending(k)
          BY <1>0, <2>3, <2>4, <2>5, <3>3 DEF Spending
        <4> QED BY <3>1, <4>1 DEF QuotaOvershootBounded, Within
      <3> QED BY <3>2, <3>3
    <2> QED BY <2>6, QuotaByKey
  <1> QED BY <1>0, <1>1, <1>2 DEF FindEntry

LEMMA BillQuota ==
    ASSUME Inv, QuotaOvershootBounded, NEW r \in Requests, NEW cost \in Costs, Bill(r, cost)
    PROVE  QuotaOvershootBounded'
  <1> DEFINE q == [req[r] EXCEPT !.pc = "billed"]
  <1> PICK j \in KeyIds : j = req[r].entry.id
    BY DEF Bill, Inv, TypeOK, Request, ApiKeyEntry
  <1>0. /\ req[r] \in Request /\ req[r].pc = "running" /\ req[r].entry # NoEntry
        /\ req' = [req EXCEPT ![r] = q]
        /\ keys' = IF j \in Configured THEN [keys EXCEPT ![j].tokensUsed = @ + cost] ELSE keys
    BY DEF Bill, Inv, TypeOK, Goto, RecordApiKeyUsage
  <1>1. q.pc = "billed" /\ q.entry = req[r].entry
    BY <1>0 DEF Request
  <1> HIDE DEF q
  <1>2. \A s \in Requests : req'[s] = IF s = r THEN q ELSE req[s]
    BY <1>0 DEF Inv, TypeOK
  <1>3. keys \in [KeyIds -> ApiKeyEntry \cup {NoEntry}] /\ cost \in Nat
    BY RequestsAssumption DEF Inv, TypeOK, KeyTypeOK
  <1>4. r \in Spending(j) /\ Spending(j)' = Spending(j) \ {r}
    BY <1>0, <1>1, <1>2 DEF Spending
  <1>5. \A k : k # j => Spending(k)' = Spending(k)
    BY <1>0, <1>1, <1>2 DEF Spending
  <1>6. ASSUME NEW k \in Configured'
        PROVE  Within(keys'[k], Spending(k)')
    <2>0. k \in KeyIds /\ keys'[k] # NoEntry
      BY DEF Configured
    <2>1. k \in Configured
      BY <1>0, <1>3, <2>0 DEF Configured
    <2>2. keys[k] \in ApiKeyEntry /\ Within(keys[k], Spending(k))
      BY <1>3, <2>1 DEF QuotaOvershootBounded, Within, Configured
    <2>3. CASE k # j
      <3>1. keys'[k] = keys[k]
        BY <1>0, <1>3, <2>0, <2>3
      <3> QED BY <1>5, <2>2, <2>3, <3>1
    <2>4. CASE k = j
      <3> DEFINE f == [keys[k] EXCEPT !.tokensUsed = @ + cost]
      <3>1. f \in ApiKeyEntry /\ f.tokensUsed = keys[k].tokensUsed + cost /\ f.tokenLimit = keys[k].tokenLimit
        BY <1>3, <2>2 DEF ApiKeyEntry
      <3>2. keys'[k] = f
        BY <1>0, <1>3, <2>0, <2>1, <2>4
      <3> HIDE DEF f
      <3>3. Within(f, Spending(k) \ {r})
        BY <1>4, <2>2, <2>4, <3>1, BillWithin, SpendingAreRequests
      <3> QED BY <1>4, <2>4, <3>2, <3>3
    <2> QED BY <2>3, <2>4
  <1> QED BY <1>6, QuotaByKey

\* What an operator does leaves a key with the usage and the limit it had, or with
\* no usage at all.
LEMMA OperatorQuota ==
    ASSUME Inv, QuotaOvershootBounded, LimitsInv, AdminStep, UNCHANGED req
    PROVE  QuotaOvershootBounded'
  <1>0. KeyTypeOK /\ keys \in [KeyIds -> ApiKeyEntry \cup {NoEntry}]
    BY DEF Inv, TypeOK, KeyTypeOK
  <1>1. ASSUME NEW k \in Configured'
        PROVE  \/ keys'[k].tokensUsed = 0 /\ keys'[k] \in ApiKeyEntry
               \/ k \in Configured /\ keys'[k].tokensUsed = keys[k].tokensUsed
    <2> DEFINE Fine == \/ keys'[k].tokensUsed = 0 /\ keys'[k] \in ApiKeyEntry
                       \/ k \in Configured /\ keys'[k].tokensUsed = keys[k].tokensUsed
    <2>0. k \in KeyIds /\ keys'[k] # NoEntry /\ keys'[k] \in ApiKeyEntry
      BY <1>0, AdminStepKeyType DEF Configured, KeyTypeOK
    <2>1. keys'[k] = keys[k] => Fine
      BY <2>0 DEF Configured
    <2>2. ASSUME NEW j \in KeyIds, NEW s \in Secrets, NEW en \in BOOLEAN,
                 NEW tl \in TokenLimits, NEW rl \in RpmLimits, NEW cl \in ConcurrencyLimits,
                 AddApiKey(j, NewEntry(j, s, en, tl, rl, cl))
          PROVE  Fine
      <3>1. NewEntry(j, s, en, tl, rl, cl).tokensUsed = 0
        BY DEF NewEntry
      <3>2. CASE k = j
        BY <1>0, <2>0, <2>2, <3>1, <3>2 DEF AddApiKey
      <3>3. CASE k # j
        BY <1>0, <2>0, <2>1, <2>2, <3>3 DEF AddApiKey
      <3> QED BY <3>2, <3>3
    <2>3. ASSUME NEW a \in Admins, UpdateApiKey(a)
          PROVE  Fine
      <3>1. k \in Configured
        BY <1>0, <2>0, <2>3 DEF UpdateApiKey, Configured
      <3> QED BY <1>0, <2>3, <3>1, UpdateKeepsUsage
    <2>4. ASSUME NEW j \in KeyIds, DeleteApiKey(j)
          PROVE  Fine
      BY <1>0, <2>0, <2>1, <2>4 DEF DeleteApiKey
    <2>5. ASSUME NEW j \in KeyIds, ResetApiKeyUsage(j)
          PROVE  Fine
      <3>1. CASE k = j
        <4>1. keys[j] \in ApiKeyEntry
          BY <1>0, <2>5 DEF ResetApiKeyUsage, Configured
        <4>2. [keys[j] EXCEPT !.tokensUsed = 0].tokensUsed = 0
          BY <4>1 DEF ApiKeyEntry
        <4> QED BY <1>0, <2>0, <2>5, <3>1, <4>2 DEF ResetApiKeyUsage
      <3>2. CASE k # j
        BY <1>0, <2>0, <2>1, <2>5, <3>2 DEF ResetApiKeyUsage
      <3> QED BY <3>1, <3>2
    <2>6. UNCHANGED keys => Fine
      BY <2>1
    <2> HIDE DEF Fine
    <2>7. Fine
      BY <2>2, <2>3, <2>4, <2>5, <2>6 DEF AdminStep, OpenEdit, UpdateSettings
    <2> QED BY <2>7 DEF Fine
  <1>2. ASSUME NEW k \in Configured'
        PROVE  Within(keys'[k], Spending(k)')
    <2>1. CASE keys'[k].tokensUsed = 0 /\ keys'[k] \in ApiKeyEntry
      BY <2>1, EntryNumbers DEF Within, ApiKeyOverLimit
    <2>2. CASE k \in Configured /\ keys'[k].tokensUsed = keys[k].tokensUsed
      <3>1. k \in issued /\ keys'[k] # NoEntry
        BY <1>0, <2>2 DEF KeyTypeOK, Configured
      <3>2. keys'[k].tokenLimit = keys[k].tokenLimit
        BY <1>0, <3>1, TableKeepsLimits
      <3>3. Spending(k)' = Spending(k)
        BY DEF Spending
      <3> QED BY <2>2, <3>2, <3>3 DEF QuotaOvershootBounded, Within, ApiKeyOverLimit
    <2> QED BY <1>1, <2>1, <2>2
  <1> QED BY <1>2, QuotaByKey

LEMMA StepQuota ==
    ASSUME FixedQuotas, Inv, QuotaInv, Next
    PROVE  QuotaOvershootBounded'
  <1> USE DEF QuotaInv
  <1>0. req \in [Requests -> Request]
    BY DEF Inv, TypeOK
  <1>1. ASSUME NEW r \in Requests, UNCHANGED keys, req' = [req EXCEPT ![r] = Idle]
        PROVE  QuotaOvershootBounded'
    BY <1>1, RequestQuota, IdleIsRequest
  <1>2. ASSUME NEW r \in Requests, UNCHANGED keys, NEW pc, Goto(r, pc),
               \/ req[r].entry = NoEntry
               \/ req[r].pc \in {"recheck", "acquire", "running"}
        PROVE  QuotaOvershootBounded'
    <2> DEFINE q == [req[r] EXCEPT !.pc = pc]
    <2>1. q.pc = pc /\ q.entry = req[r].entry
      BY <1>0 DEF Request
    <2>2. req' = [req EXCEPT ![r] = q]
      BY <1>2 DEF Goto
    <2> HIDE DEF q
    <2> QED BY <1>2, <2>1, <2>2, RequestQuota
  <1>3. ASSUME NEW r \in Requests, NEW secret, Arrive(r, secret)
        PROVE  QuotaOvershootBounded'
    <2> DEFINE q == [Idle EXCEPT !.pc = "hasKeys", !.provided = secret, !.required = requireApiKey]
    <2>1. q.pc = "hasKeys"
      BY DEF Idle
    <2>2. req' = [req EXCEPT ![r] = q] /\ UNCHANGED keys
      BY <1>3 DEF Arrive, keyVars
    <2> HIDE DEF q
    <2> QED BY <2>1, <2>2, RequestQuota
  <1>4. ASSUME NEW r \in Requests, ReadHasApiKeys(r) \/ MatchLegacyKey(r)
        PROVE  QuotaOvershootBounded'
    <2>1. Reject(r) \/ \E pc \in {"running", "legacy", "find"} : Goto(r, pc)
      BY <1>4 DEF ReadHasApiKeys, MatchLegacyKey
    <2>2. req[r].entry = NoEntry /\ UNCHANGED keys
      BY <1>4 DEF ReadHasApiKeys, MatchLegacyKey, AskedInv, keyVars
    <2> QED BY <1>1, <1>2, <2>1, <2>2 DEF Reject
  <1>5. ASSUME NEW r \in Requests, RecheckRequired(r)
        PROVE  QuotaOvershootBounded'
    BY <1>2, <1>5 DEF RecheckRequired, keyVars
  <1>6. ASSUME NEW r \in Requests, AcquireGranted(r)
        PROVE  QuotaOvershootBounded'
    <2> DEFINE q == [req[r] EXCEPT !.pc = "running", !.limited = TRUE,
                                   !.slot = CountsInflight(req[r].entry)]
    <2>1. q.entry = req[r].entry
      BY <1>0 DEF Request
    <2>2. req' = [req EXCEPT ![r] = q] /\ req[r].pc = "acquire" /\ UNCHANGED keys
      BY <1>6 DEF AcquireGranted, keyVars
    <2> HIDE DEF q
    <2> QED BY <2>1, <2>2, RequestQuota
  <1>7. ASSUME NEW r \in Requests, AcquireRefused(r) \/ Finish(r)
        PROVE  QuotaOvershootBounded'
    BY <1>1, <1>7 DEF AcquireRefused, Finish, Reject, keyVars
  <1>8. CASE Operate
    BY <1>8, OperatorQuota DEF Operate
  <1>9. CASE Tick
    BY <1>9 DEF Tick, keyVars, QuotaOvershootBounded, Spending, Configured
  <1> QED BY <1>3, <1>4, <1>5, <1>6, <1>7, <1>8, <1>9, FindQuota, BillQuota DEF Next, Progress

\* A quota that is checked on entry and billed on success is exceeded by no more
\* than the requests under way at that time cost, whatever operators do to the
\* keys short of changing the quota itself.
THEOREM OvershootIsBounded ==
    ASSUME FixedQuotas
    PROVE  Spec => []QuotaOvershootBounded
  <1>1. Init => QuotaInv
    BY IdleIsRequest DEF Init, KeyInit, QuotaInv, QuotaOvershootBounded, AskedInv, LimitsInv,
                         Configured, NoEdit
  <1>2. Inv /\ QuotaInv /\ [Next]_vars => QuotaInv'
    <2> SUFFICES ASSUME Inv, QuotaInv, [Next]_vars
                 PROVE  QuotaInv'
      OBVIOUS
    <2>1. AskedInv' /\ LimitsInv'
      BY StepAsked, StepLimits DEF QuotaInv
    <2>2. CASE UNCHANGED vars
      <3>1. UNCHANGED <<keys, req>>
        BY <2>2 DEF vars, keyVars
      <3> QED BY <3>1, <2>1 DEF QuotaInv, QuotaOvershootBounded, Spending, Configured
    <2>3. QuotaOvershootBounded'
      BY <2>2, StepQuota DEF QuotaInv
    <2> QED BY <2>1, <2>2, <2>3 DEF QuotaInv
  <1>3. QuotaInv => QuotaOvershootBounded
    BY DEF QuotaInv
  <1> QED BY <1>1, <1>2, <1>3, Invariance, PTL DEF Spec
=============================================================================
