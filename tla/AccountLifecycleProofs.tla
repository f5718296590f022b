------------------------ MODULE AccountLifecycleProofs ------------------------
(***************************************************************************)
(* Type correctness of AccountLifecycle, and three of its properties, for  *)
(* any accounts, requests and operators: no record is enabled and banned,  *)
(* what was deleted stays deleted, and the pool lists the enabled accounts *)
(* unless a Reload is due.                                                 *)
(***************************************************************************)
EXTENDS AccountLifecycle, TLAPS

\* The records that are not enabled and banned at once.
Sound == {acc \in Account : ~StuckBanned(acc)}

Records == [Accounts -> Sound \cup {Gone}]

\* TypeOK with every record and every copy sound: what one party writes is a copy
\* that another wrote, so the invariant has to speak of the copies.
ConfInv == conf \in Records

PoolInv == pool \in Records

ReqInv ==
    /\ req \in [Requests -> [pc : {"idle", "serving", "reload"}, acct : Accounts \cup {Gone},
                             copy : Sound]]
    /\ \A r \in Requests : req[r].pc # "idle" => req[r].acct \in Accounts

\* Only refreshes check the usage.
OpInv ==
    /\ op \in [Operators -> [pc : {"idle", "write", "delete", "reload", "usage", "retry"},
                             acct : Accounts \cup {Gone}, copy : Sound, change : AllChanges]]
    /\ \A o \in Operators : op[o].pc # "idle" => op[o].acct \in Accounts
    /\ \A o \in Operators : op[o].pc \in {"usage", "retry"} =>
                                op[o].change \in {"refresh", "batchRefresh"}

\* Workers belong to a run.
JobInv ==
    /\ job \in [Accounts -> [pc : {"idle", "usage", "probe", "passed", "failed", "reload"},
                             copy : Sound, err : {"none", "auth", "plain", "rate"}]]
    /\ \A a \in Accounts : job[a].pc # "idle" => running

RestInv ==
    /\ kiro \subseteq Accounts /\ healthy \subseteq Accounts /\ refreshed \subseteq Accounts
    /\ recover \in BOOLEAN /\ running \in BOOLEAN /\ recovers \in BOOLEAN
    /\ word \in [Accounts -> {"on", "off"}]

Inv == ConfInv /\ PoolInv /\ ReqInv /\ OpInv /\ JobInv /\ RestInv

-----------------------------------------------------------------------------
(* What the writers make of a record and of the configuration. *)

LEMMA FreshSound == Fresh \in Sound
  BY DEF Fresh, Sound, Account, Bans, StuckBanned

LEMMA OffSound ==
    ASSUME NEW status \in Bans
    PROVE  [enabled |-> FALSE, ban |-> status] \in Sound
  BY DEF Sound, Account, StuckBanned

LEMMA UnbannedSound ==
    ASSUME NEW b \in BOOLEAN
    PROVE  [enabled |-> b, ban |-> "none"] \in Sound
  BY DEF Sound, Account, Bans, StuckBanned

LEMMA BannedSound ==
    ASSUME NEW copy \in Sound, NEW status \in Bans
    PROVE  Banned(copy, status) \in Sound
  BY OffSound DEF Banned

LEMMA AppliedSound ==
    ASSUME NEW copy \in Sound, NEW change
    PROVE  Applied(copy, change) \in Sound
  BY UnbannedSound DEF Applied, SetEnabledByOperator

LEMMA UpdateSound ==
    ASSUME ConfInv, NEW a \in Accounts, NEW acc \in Sound
    PROVE  UpdateAccount(a, acc) \in Records
  BY DEF UpdateAccount, Records, ConfInv

LEMMA DisableSound ==
    ASSUME ConfInv, NEW a \in Accounts, NEW copy \in Sound, NEW status \in Bans
    PROVE  DisableAccount(a, copy, status) \in Records
  BY BannedSound, UpdateSound DEF DisableAccount, ConfInv

\* The usage check writes nothing, or one record.
LEMMA RefreshForms ==
    ASSUME NEW a \in Accounts, NEW copy \in Sound, NEW err
    PROVE  \/ RefreshAccountInfo(a, copy, err) = conf
           \/ \E acc \in Sound : RefreshAccountInfo(a, copy, err) = UpdateAccount(a, acc)
  <1>1. [enabled |-> FALSE, ban |-> "BANNED"] \in Sound
    BY OffSound DEF Bans
  <1>2. [copy EXCEPT !.ban = "none"] \in Sound
    BY DEF Sound, Account, Bans, StuckBanned
  <1> QED BY <1>1, <1>2 DEF RefreshAccountInfo

LEMMA RefreshSound ==
    ASSUME ConfInv, NEW a \in Accounts, NEW copy \in Sound, NEW err
    PROVE  RefreshAccountInfo(a, copy, err) \in Records
  BY RefreshForms, UpdateSound DEF ConfInv

LEMMA ReloadSound ==
    ASSUME ConfInv, Reload
    PROVE  pool' \in Records /\ refreshed' = {}
  BY DEF Reload, Records, Enabled, ConfInv

\* A record is not Gone.
LEMMA SoundIsNotGone == Gone \notin Sound
  BY GoneAssumption DEF Sound

-----------------------------------------------------------------------------
(* Each step keeps Inv. *)

LEMMA InitInv == Init => Inv
  <1> SUFFICES ASSUME Init PROVE Inv
    OBVIOUS
  <1>1. ConfInv /\ PoolInv
    BY FreshSound DEF Init, ConfInv, PoolInv, Records
  <1>2. ReqInv /\ OpInv /\ JobInv
    BY FreshSound DEF Init, ReqInv, OpInv, JobInv, NoRequest, NoTask, NoJob, AllChanges
  <1>3. RestInv
    BY LifecycleAssumption DEF Init, RestInv
  <1> QED BY <1>1, <1>2, <1>3 DEF Inv

LEMMA RequestStepInv ==
    ASSUME Inv, NEW r \in Requests, RequestStep(r)
    PROVE  Inv'
  <1> USE DEF Inv
  <1>1. ASSUME NEW a \in Accounts, Pick(r, a)
        PROVE  Inv'
    <2>1. pool[a] \in Sound
      BY <1>1 DEF Pick, PoolInv, Records
    <2>2. ReqInv'
      BY <1>1, <2>1 DEF Pick, ReqInv
    <2> QED BY <1>1, <2>2 DEF Pick, ConfInv, PoolInv, OpInv, JobInv, RestInv
  <1>2. CASE Finish(r)
    <2>1. ReqInv'
      BY <1>2, FreshSound DEF Finish, ReqInv, NoRequest
    <2> QED BY <1>2, <2>1 DEF Finish, ConfInv, PoolInv, OpInv, JobInv, RestInv
  <1>3. CASE AuthFails(r)
    <2>1. req[r].acct \in Accounts /\ req[r].copy \in Sound
      BY <1>3 DEF AuthFails, ReqInv
    <2>2. ConfInv'
      BY <1>3, <2>1, DisableSound DEF AuthFails, ConfInv, Bans
    <2>3. ReqInv'
      BY <1>3, <2>1 DEF AuthFails, ReqInv
    <2> QED BY <1>3, <2>2, <2>3 DEF AuthFails, PoolInv, OpInv, JobInv, RestInv
  <1>4. CASE RequestReload(r)
    <2>1. PoolInv' /\ refreshed' = {}
      BY <1>4, ReloadSound DEF RequestReload, PoolInv
    <2>2. ReqInv'
      BY <1>4, FreshSound DEF RequestReload, ReqInv, NoRequest
    <2> QED BY <1>4, <2>1, <2>2 DEF RequestReload, ConfInv, OpInv, JobInv, RestInv
  <1> QED BY <1>1, <1>2, <1>3, <1>4 DEF RequestStep

LEMMA OperatorStepInv ==
    ASSUME Inv, NEW o \in Operators, OperatorStep(o)
    PROVE  Inv'
  <1> USE DEF Inv
  <1>1. ASSUME NEW a \in Accounts, NEW change \in Changes, OpRead(o, a, change)
        PROVE  Inv'
    <2> DEFINE pc == CASE change \in {"refresh", "batchRefresh"} -> "usage"
                       [] change = "delete" -> "delete"
                       [] OTHER -> "write"
    <2>1. conf[a] \in Sound /\ change \in AllChanges
      BY <1>1, LifecycleAssumption DEF OpRead, ConfInv, Records
    <2>2. /\ pc \in {"usage", "delete", "write"}
          /\ pc = "usage" => change \in {"refresh", "batchRefresh"}
      OBVIOUS
    <2>3. op' = [op EXCEPT ![o] = [pc |-> pc, acct |-> a, copy |-> conf[a], change |-> change]]
      BY <1>1 DEF OpRead
    <2> HIDE DEF pc
    <2>4. OpInv'
      BY <2>1, <2>2, <2>3 DEF OpInv
    <2> QED BY <1>1, <2>4 DEF OpRead, ConfInv, PoolInv, ReqInv, JobInv, RestInv
  <1>2. CASE OpWrite(o)
    <2> DEFINE acc == Applied(op[o].copy, op[o].change)
    <2>1. op[o].acct \in Accounts /\ acc \in Sound
      BY <1>2, AppliedSound DEF OpWrite, OpInv
    <2>2. conf' = UpdateAccount(op[o].acct, acc)
      BY <1>2 DEF OpWrite
    <2>3. ConfInv'
      <3> HIDE DEF acc
      <3> QED BY <2>1, <2>2, UpdateSound DEF ConfInv
    <2>4. word' \in [Accounts -> {"on", "off"}]
      <3>1. CASE acc = op[o].copy
        BY <1>2, <3>1 DEF OpWrite, RestInv
      <3>2. CASE acc # op[o].copy
        <4>1. op[o].change \in {"on", "off"}
          BY <3>2 DEF Applied
        <4> QED BY <1>2, <2>1, <4>1 DEF OpWrite, RestInv
      <3> QED BY <3>1, <3>2
    <2>5. OpInv'
      BY <1>2, <2>1 DEF OpWrite, OpInv
    <2> QED BY <1>2, <2>3, <2>4, <2>5 DEF OpWrite, PoolInv, ReqInv, JobInv, RestInv
  <1>3. CASE OpDelete(o)
    <2>1. ConfInv'
      BY <1>3 DEF OpDelete, ConfInv, Records
    <2>2. OpInv'
      BY <1>3 DEF OpDelete, OpInv
    <2> QED BY <1>3, <2>1, <2>2 DEF OpDelete, PoolInv, ReqInv, JobInv, RestInv
  <1>4. CASE OpReload(o)
    <2>1. PoolInv' /\ refreshed' = {}
      BY <1>4, ReloadSound DEF OpReload, PoolInv
    <2>2. OpInv'
      BY <1>4, FreshSound DEF OpReload, OpInv, NoTask, AllChanges
    <2> QED BY <1>4, <2>1, <2>2 DEF OpReload, ConfInv, ReqInv, JobInv, RestInv
  <1>5. ASSUME NEW err, OpUsage(o, err)
        PROVE  Inv'
    <2>1. /\ op[o].acct \in Accounts /\ op[o].copy \in Sound
          /\ op[o].change \in {"refresh", "batchRefresh"}
      BY <1>5 DEF OpUsage, OpInv
    <2>2. ConfInv'
      BY <1>5, <2>1, RefreshSound DEF OpUsage, ConfInv
    <2>3. \/ op' = [op EXCEPT ![o].pc = "reload"]
          \/ op' = [op EXCEPT ![o].pc = "retry"]
          \/ op' = [op EXCEPT ![o] = NoTask]
      BY <1>5 DEF OpUsage
    <2>4. OpInv'
      BY <2>1, <2>3, FreshSound DEF OpInv, NoTask, AllChanges
    <2>5. refreshed' \subseteq Accounts
      BY <1>5, <2>1 DEF OpUsage, RestInv
    <2> QED BY <1>5, <2>2, <2>4, <2>5 DEF OpUsage, PoolInv, ReqInv, JobInv, RestInv
  <1> QED BY <1>1, <1>2, <1>3, <1>4, <1>5 DEF OperatorStep

LEMMA StartWarmupInv ==
    ASSUME Inv, NEW ids, StartWarmup(ids)
    PROVE  Inv'
  <1> USE DEF Inv
  <1> DEFINE started(a) == IF a \in WarmupCandidates(ids)
                             THEN [NoJob EXCEPT !.pc = "usage", !.copy = conf[a]]
                             ELSE NoJob
  <1>1. job' = [a \in Accounts |-> started(a)] /\ running' = TRUE
    BY DEF StartWarmup
  <1>2. ASSUME NEW a \in Accounts
        PROVE  started(a) \in [pc : {"idle", "usage", "probe", "passed", "failed", "reload"},
                               copy : Sound, err : {"none", "auth", "plain", "rate"}]
    BY FreshSound DEF WarmupCandidates, NoJob, ConfInv, Records
  <1> HIDE DEF started
  <1>3. JobInv'
    BY <1>1, <1>2 DEF JobInv
  <1> QED BY <1>1, <1>3 DEF StartWarmup, ConfInv, PoolInv, ReqInv, OpInv, RestInv

LEMMA WarmupWorkInv ==
    ASSUME Inv, NEW a \in Accounts, WarmupWork(a)
    PROVE  Inv'
  <1> USE DEF Inv
  <1>1. /\ job[a].copy \in Sound
        /\ job \in [Accounts -> [pc : {"idle", "usage", "probe", "passed", "failed", "reload"},
                                 copy : Sound, err : {"none", "auth", "plain", "rate"}]]
    BY DEF JobInv
  <1>2. NoJob \in [pc : {"idle", "usage", "probe", "passed", "failed", "reload"},
                   copy : Sound, err : {"none", "auth", "plain", "rate"}]
    BY FreshSound DEF NoJob
  <1>3. Answers(a) \subseteq {"none", "auth", "plain", "rate"}
    BY DEF Answers
  <1>4. ASSUME NEW err \in Answers(a), WarmupUsage(a, err)
        PROVE  Inv'
    <2> DEFINE pc == CASE err # "none" -> "failed"
                       [] err = "none" /\ WarmupProbe -> "probe"
                       [] OTHER -> "passed"
    <2>1. pc \in {"failed", "probe", "passed"}
      OBVIOUS
    <2>2. job' = [job EXCEPT ![a].err = err, ![a].pc = pc]
      BY <1>4 DEF WarmupUsage
    <2> HIDE DEF pc
    <2>3. JobInv'
      BY <1>1, <1>3, <1>4, <2>1, <2>2 DEF WarmupUsage, JobInv
    <2>4. ConfInv'
      BY <1>1, <1>4, RefreshSound DEF WarmupUsage, ConfInv
    <2> QED BY <1>4, <2>3, <2>4 DEF WarmupUsage, PoolInv, ReqInv, OpInv, RestInv
  <1>5. ASSUME NEW err \in Answers(a), WarmupChatProbe(a, err)
        PROVE  Inv'
    <2>1. JobInv'
      BY <1>1, <1>3, <1>5 DEF WarmupChatProbe, JobInv
    <2> QED BY <1>5, <2>1 DEF WarmupChatProbe, ConfInv, PoolInv, ReqInv, OpInv, RestInv
  <1>6. CASE WarmupPassed(a)
    <2>1. ConfInv'
      BY <1>6, UnbannedSound, UpdateSound DEF WarmupPassed, ConfInv
    <2>2. JobInv'
      BY <1>1, <1>2, <1>6 DEF WarmupPassed, JobInv, NoJob
    <2> QED BY <1>6, <2>1, <2>2 DEF WarmupPassed, PoolInv, ReqInv, OpInv, RestInv
  <1>7. CASE WarmupFailed(a)
    <2> DEFINE status == CASE job[a].err = "rate" -> "RATE_LIMITED"
                           [] job[a].err = "auth" -> "BANNED"
                           [] OTHER -> "none"
    <2>1. status \in Bans
      BY DEF Bans
    <2>2. conf' = conf \/ conf' = DisableAccount(a, job[a].copy, status)
      BY <1>7 DEF WarmupFailed
    <2>3. ConfInv'
      <3> HIDE DEF status
      <3> QED BY <1>1, <2>1, <2>2, DisableSound DEF ConfInv
    <2>4. job' = [job EXCEPT ![a] = [NoJob EXCEPT !.pc = "reload"]] \/ job' = [job EXCEPT ![a] = NoJob]
      BY <1>7 DEF WarmupFailed
    <2>5. running
      BY <1>7 DEF WarmupFailed, JobInv
    <2>6. JobInv'
      BY <1>1, <1>2, <1>7, <2>4, <2>5 DEF WarmupFailed, JobInv, NoJob
    <2> QED BY <1>7, <2>3, <2>6 DEF WarmupFailed, PoolInv, ReqInv, OpInv, RestInv
  <1>8. CASE WarmupReload(a)
    <2>1. PoolInv' /\ refreshed' = {}
      BY <1>8, ReloadSound DEF WarmupReload, PoolInv
    <2>2. JobInv'
      BY <1>1, <1>2, <1>8 DEF WarmupReload, JobInv, NoJob
    <2> QED BY <1>8, <2>1, <2>2 DEF WarmupReload, ConfInv, ReqInv, OpInv, RestInv
  <1> QED BY <1>4, <1>5, <1>6, <1>7, <1>8 DEF WarmupWork

LEMMA EndWarmupInv ==
    ASSUME Inv, EndWarmup
    PROVE  Inv'
  <1>1. PoolInv' /\ refreshed' = {}
    BY ReloadSound DEF EndWarmup, Inv, PoolInv
  <1>2. JobInv'
    BY DEF EndWarmup, Inv, JobInv
  <1> QED BY <1>1, <1>2 DEF EndWarmup, Inv, ConfInv, ReqInv, OpInv, RestInv

LEMMA StepInv == Inv /\ [Next]_vars => Inv'
  <1> SUFFICES ASSUME Inv, [Next]_vars PROVE Inv'
    OBVIOUS
  <1>1. ASSUME NEW b \in Recovers, SetRecover(b)
        PROVE  Inv'
    BY <1>1, LifecycleAssumption
       DEF SetRecover, Inv, ConfInv, PoolInv, ReqInv, OpInv, JobInv, RestInv
  <1>2. ASSUME NEW a \in Accounts, Upstream(a)
        PROVE  Inv'
    BY <1>2 DEF Upstream, Inv, ConfInv, PoolInv, ReqInv, OpInv, JobInv, RestInv
  <1>3. CASE UNCHANGED vars
    BY <1>3 DEF vars, Inv, ConfInv, PoolInv, ReqInv, OpInv, JobInv, RestInv
  <1> QED BY <1>1, <1>2, <1>3, RequestStepInv, OperatorStepInv, StartWarmupInv, WarmupWorkInv,
             EndWarmupInv DEF Next

LEMMA Invariance == Spec => []Inv
  BY InitInv, StepInv, PTL DEF Spec

-----------------------------------------------------------------------------
(* Theorems. *)

LEMMA InvImpliesTypeOK == Inv => TypeOK
  <1> SUFFICES ASSUME Inv PROVE TypeOK
    OBVIOUS
  <1>1. Sound \subseteq Account
    BY DEF Sound
  <1>2. conf \in [Accounts -> Account \cup {Gone}] /\ pool \in [Accounts -> Account \cup {Gone}]
    BY <1>1 DEF Inv, ConfInv, PoolInv, Records
  <1>3. req \in [Requests -> [pc : {"idle", "serving", "reload"}, acct : Accounts \cup {Gone},
                              copy : Account]]
    BY <1>1 DEF Inv, ReqInv
  <1>4. op \in [Operators -> [pc : {"idle", "write", "delete", "reload", "usage", "retry"},
                              acct : Accounts \cup {Gone}, copy : Account, change : AllChanges]]
    BY <1>1 DEF Inv, OpInv
  <1>5. job \in [Accounts -> [pc : {"idle", "usage", "probe", "passed", "failed", "reload"},
                              copy : Account, err : {"none", "auth", "plain", "rate"}]]
    BY <1>1 DEF Inv, JobInv
  <1> QED BY <1>2, <1>3, <1>4, <1>5 DEF Inv, ReqInv, OpInv, RestInv, TypeOK

\* Every reachable state has the shape the code gives it.
THEOREM TypeCorrect == Spec => []TypeOK
  BY Invariance, InvImpliesTypeOK, PTL

\* No account is ever enabled and banned at once, whoever writes which copy back.
THEOREM NeverStuckBanned == Spec => []NoStuckBan
  <1>1. Inv => NoStuckBan
    BY DEF Inv, ConfInv, Records, Sound, NoStuckBan
  <1> QED BY <1>1, Invariance, PTL

-----------------------------------------------------------------------------
(* Deletion. *)

KeepsGone(c) == \A a \in Accounts : conf[a] = Gone => c[a] = Gone

LEMMA UpdateKeepsGone ==
    ASSUME ConfInv, NEW a \in Accounts, NEW acc
    PROVE  KeepsGone(UpdateAccount(a, acc))
  BY DEF KeepsGone, UpdateAccount, ConfInv, Records

LEMMA DisableKeepsGone ==
    ASSUME ConfInv, NEW a \in Accounts, NEW copy, NEW status
    PROVE  KeepsGone(DisableAccount(a, copy, status))
  <1>1. KeepsGone(conf)
    BY DEF KeepsGone
  <1> QED BY <1>1, UpdateKeepsGone DEF DisableAccount

LEMMA RefreshKeepsGone ==
    ASSUME ConfInv, NEW a \in Accounts, NEW copy \in Sound, NEW err
    PROVE  KeepsGone(RefreshAccountInfo(a, copy, err))
  <1>1. KeepsGone(conf)
    BY DEF KeepsGone
  <1>2. CASE RefreshAccountInfo(a, copy, err) = conf
    BY <1>1, <1>2
  <1>3. ASSUME NEW acc \in Sound, RefreshAccountInfo(a, copy, err) = UpdateAccount(a, acc)
        PROVE  KeepsGone(RefreshAccountInfo(a, copy, err))
    BY <1>3, UpdateKeepsGone
  <1> QED BY <1>2, <1>3, RefreshForms

LEMMA StepKeepsGone ==
    ASSUME Inv, Next
    PROVE  KeepsGone(conf')
  <1> USE DEF Inv
  <1>1. CASE UNCHANGED conf
    BY <1>1 DEF KeepsGone
  <1>2. ASSUME NEW r \in Requests, RequestStep(r)
        PROVE  KeepsGone(conf')
    <2>1. CASE AuthFails(r)
      <3>1. req[r].acct \in Accounts
        BY <2>1 DEF AuthFails, ReqInv
      <3> QED BY <2>1, <3>1, DisableKeepsGone DEF AuthFails
    <2> QED BY <1>1, <1>2, <2>1 DEF RequestStep, Pick, Finish, RequestReload
  <1>3. ASSUME NEW o \in Operators, OperatorStep(o)
        PROVE  KeepsGone(conf')
    <2>1. op[o].pc # "idle" => op[o].acct \in Accounts /\ op[o].copy \in Sound
      BY DEF OpInv
    <2>2. CASE OpWrite(o)
      BY <2>1, <2>2, UpdateKeepsGone DEF OpWrite
    <2>3. CASE OpDelete(o)
      BY <2>1, <2>3 DEF OpDelete, KeepsGone, ConfInv, Records
    <2>4. ASSUME NEW err, OpUsage(o, err)
          PROVE  KeepsGone(conf')
      BY <2>1, <2>4, RefreshKeepsGone DEF OpUsage
    <2> QED BY <1>1, <1>3, <2>2, <2>3, <2>4 DEF OperatorStep, OpRead, OpReload
  <1>4. ASSUME NEW a \in Accounts, WarmupWork(a)
        PROVE  KeepsGone(conf')
    <2>1. job[a].copy \in Sound
      BY DEF JobInv
    <2>2. ASSUME NEW err, WarmupUsage(a, err)
          PROVE  KeepsGone(conf')
      BY <2>1, <2>2, RefreshKeepsGone DEF WarmupUsage
    <2>3. CASE WarmupPassed(a)
      BY <1>1, <2>3, UpdateKeepsGone DEF WarmupPassed
    <2>4. CASE WarmupFailed(a)
      <3>1. conf' = conf \/ \E status : conf' = DisableAccount(a, job[a].copy, status)
        BY <2>4 DEF WarmupFailed
      <3> QED BY <1>1, <3>1, DisableKeepsGone
    <2> QED BY <1>1, <1>4, <2>2, <2>3, <2>4 DEF WarmupWork, WarmupChatProbe, WarmupReload
  <1> QED BY <1>1, <1>2, <1>3, <1>4 DEF Next, SetRecover, StartWarmup, EndWarmup, Upstream

\* A deleted account stays deleted: no copy of it that a request, an operator or
\* a worker still holds brings it back.
THEOREM DeletionIsFinal == Spec => DeletedStaysDeleted
  <1>1. Inv /\ [Next]_vars => [\A a \in Accounts : conf[a] = Gone => conf'[a] = Gone]_vars
    BY StepKeepsGone DEF KeepsGone
  <1> QED BY <1>1, Invariance, PTL DEF Spec, DeletedStaysDeleted

-----------------------------------------------------------------------------
(* The pool and the configuration. *)

LEMMA ReloadMakesEqual ==
    ASSUME Inv, Reload, UNCHANGED conf
    PROVE  PoolFollowsConfig'
  BY DEF Reload, Enabled, PoolFollowsConfig

\* A step that leaves the records and the list alone, and loses no Reload.
LEMMA ListingFrame ==
    ASSUME PoolFollowsConfig, UNCHANGED <<conf, pool, refreshed>>,
           ReloadPending => ReloadPending'
    PROVE  PoolFollowsConfig'
  BY DEF PoolFollowsConfig, Enabled

\* The usage check of account a leaves the other records alone.
LEMMA RefreshLocal ==
    ASSUME ConfInv, NEW a \in Accounts, NEW copy \in Sound, NEW err,
           NEW b \in Accounts, b # a
    PROVE  RefreshAccountInfo(a, copy, err)[b] = conf[b]
  <1>1. ASSUME NEW acc
        PROVE  UpdateAccount(a, acc)[b] = conf[b]
    BY DEF UpdateAccount, ConfInv, Records
  <1> QED BY <1>1, RefreshForms

LEMMA RequestStepFollows ==
    ASSUME Inv, PoolFollowsConfig, NEW r \in Requests, RequestStep(r)
    PROVE  PoolFollowsConfig'
  <1>0. req \in [Requests -> [pc : {"idle", "serving", "reload"}, acct : Accounts \cup {Gone},
                              copy : Sound]]
    BY DEF Inv, ReqInv
  <1>1. ASSUME req[r].pc # "reload", NEW q, req' = [req EXCEPT ![r] = q],
               UNCHANGED <<op, running>>, ReloadPending
        PROVE  ReloadPending'
    <2>1. \A s \in Requests : s # r => req'[s] = req[s]
      BY <1>0, <1>1
    <2> QED BY <1>1, <2>1 DEF ReloadPending
  <1>2. ASSUME NEW a \in Accounts, Pick(r, a)
        PROVE  PoolFollowsConfig'
    <2>1. req[r].pc # "reload"
      BY <1>2 DEF Pick
    <2>2. \E q : req' = [req EXCEPT ![r] = q]
      BY <1>2 DEF Pick
    <2> QED BY <1>1, <1>2, <2>1, <2>2, ListingFrame DEF Pick
  <1>3. CASE Finish(r)
    BY <1>1, <1>3, ListingFrame DEF Finish
  <1>4. CASE AuthFails(r)
    <2>1. req'[r].pc = "reload"
      BY <1>0, <1>4 DEF AuthFails
    <2> QED BY <2>1 DEF PoolFollowsConfig, ReloadPending
  <1>5. CASE RequestReload(r)
    BY <1>5, ReloadMakesEqual DEF RequestReload
  <1> QED BY <1>2, <1>3, <1>4, <1>5 DEF RequestStep

LEMMA OperatorStepFollows ==
    ASSUME Inv, PoolFollowsConfig, NEW o \in Operators, OperatorStep(o)
    PROVE  PoolFollowsConfig'
  <1>0. op \in [Operators -> [pc : {"idle", "write", "delete", "reload", "usage", "retry"},
                              acct : Accounts \cup {Gone}, copy : Sound, change : AllChanges]]
    BY DEF Inv, OpInv
  <1>1. ASSUME op'[o].pc = "reload"
        PROVE  PoolFollowsConfig'
    BY <1>1 DEF PoolFollowsConfig, ReloadPending
  \* o was not the one to reload.
  <1>2. ASSUME NEW q, op' = [op EXCEPT ![o] = q], UNCHANGED <<req, running>>,
               op[o].pc # "reload", op[o].change # "batchRefresh" \/ op[o].pc # "usage",
               ReloadPending
        PROVE  ReloadPending'
    <2>1. \A p \in Operators : p # o => op'[p] = op[p]
      BY <1>0, <1>2
    <2> QED BY <1>2, <2>1 DEF ReloadPending
  <1>3. ASSUME NEW a \in Accounts, NEW change \in Changes, OpRead(o, a, change)
        PROVE  PoolFollowsConfig'
    <2>1. op[o].pc = "idle" /\ \E q : op' = [op EXCEPT ![o] = q]
      BY <1>3 DEF OpRead
    <2> QED BY <1>2, <1>3, <2>1, ListingFrame DEF OpRead
  <1>4. CASE OpWrite(o)
    BY <1>0, <1>1, <1>4 DEF OpWrite
  <1>5. CASE OpDelete(o)
    BY <1>0, <1>1, <1>5 DEF OpDelete
  <1>6. CASE OpReload(o)
    BY <1>6, ReloadMakesEqual DEF OpReload
  <1>7. ASSUME NEW err, OpUsage(o, err)
        PROVE  PoolFollowsConfig'
    <2>1. /\ op[o].acct \in Accounts /\ op[o].copy \in Sound
          /\ op[o].change \in {"refresh", "batchRefresh"}
      BY <1>7 DEF OpUsage, Inv, OpInv
    <2>2. CASE op[o].change = "batchRefresh"
      BY <1>0, <1>1, <1>7, <2>2 DEF OpUsage
    <2>3. CASE op[o].change = "refresh"
      <3>1. refreshed' = refreshed \cup {op[o].acct} /\ UNCHANGED <<pool, req, running>>
        BY <1>7, <2>3 DEF OpUsage
      <3>2. \A b \in Accounts \ refreshed' : conf'[b] = conf[b]
        BY <1>7, <2>1, <3>1, RefreshLocal DEF OpUsage, Inv
      <3>3. ReloadPending => ReloadPending'
        <4>1. \E q : op' = [op EXCEPT ![o] = q]
          BY <1>7, <2>3 DEF OpUsage
        <4>2. op[o].pc # "reload"
          BY <1>7 DEF OpUsage
        <4> QED BY <1>2, <2>3, <3>1, <4>1, <4>2
      <3> QED BY <3>1, <3>2, <3>3 DEF PoolFollowsConfig, Enabled
    <2> QED BY <2>1, <2>2, <2>3
  <1> QED BY <1>3, <1>4, <1>5, <1>6, <1>7 DEF OperatorStep

LEMMA StepFollows ==
    ASSUME Inv, PoolFollowsConfig, [Next]_vars
    PROVE  PoolFollowsConfig'
  \* During a run the Reload at its end is due.
  <1>1. ASSUME running'
        PROVE  PoolFollowsConfig'
    BY <1>1 DEF PoolFollowsConfig, ReloadPending
  <1>2. ASSUME NEW a \in Accounts, WarmupWork(a)
        PROVE  PoolFollowsConfig'
    <2>1. job[a].pc # "idle" /\ UNCHANGED running
      BY <1>2 DEF WarmupWork, WarmupUsage, WarmupChatProbe, WarmupPassed, WarmupFailed, WarmupReload
    <2> QED BY <1>1, <2>1 DEF Inv, JobInv
  <1>3. ASSUME NEW ids, StartWarmup(ids)
        PROVE  PoolFollowsConfig'
    BY <1>1, <1>3 DEF StartWarmup
  <1>4. CASE EndWarmup
    BY <1>4, ReloadMakesEqual DEF EndWarmup
  <1>5. ASSUME UNCHANGED <<conf, pool, refreshed, req, op, running>>
        PROVE  PoolFollowsConfig'
    BY <1>5, ListingFrame DEF ReloadPending
  <1> QED BY <1>2, <1>3, <1>4, <1>5, RequestStepFollows, OperatorStepFollows
          DEF Next, SetRecover, Upstream, vars

\* The pool lists exactly the enabled accounts, or somebody is about to reload it,
\* but for accounts an operator refreshed one by one since the last Reload.
THEOREM PoolFollows == Spec => []PoolFollowsConfig
  <1>1. Init => PoolFollowsConfig
    BY GoneAssumption, FreshSound, SoundIsNotGone DEF Init, PoolFollowsConfig, Enabled, Fresh
  <1>2. Inv /\ PoolFollowsConfig /\ [Next]_vars => PoolFollowsConfig'
    BY StepFollows
  <1> QED BY <1>1, <1>2, Invariance, PTL DEF Spec
=============================================================================
