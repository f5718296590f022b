--------------------------- MODULE AccountLifecycle ---------------------------
(***************************************************************************)
(* Who may use an account: its Enabled flag and its ban marker in the      *)
(* configuration, the pool's list of routable accounts, and the four       *)
(* parties that write them: failover, operators, the usage check and       *)
(* warmup.                                                                 *)
(*                                                                         *)
(* Every write but RecoverAccount replaces the whole record by an edited   *)
(* copy that was read earlier (config.UpdateAccount), so reading, writing  *)
(* and the pool.Reload that follows are steps of their own.                *)
(*                                                                         *)
(* A record keeps Enabled and the marker; BanStatus and BanReason are set  *)
(* and cleared together by every writer, and "" and "ACTIVE" mean the same *)
(* to every reader.  A failed Save is not modelled.                        *)
(***************************************************************************)
EXTENDS Naturals

CONSTANTS
    Accounts,
    KiroChoices,  \* the sets of accounts that may be Kiro accounts
    Requests, Operators,
    Changes,      \* what operators do, a subset of AllChanges
    ManualIds,    \* selections an operator may run a warmup for
    WarmupProbe,  \* config.WarmupProbe: send a chat probe too
    Recovers,     \* values of config.WarmupRecover
    Gone          \* no such record

AllChanges == {"on", "off", "edit", "delete", "refresh", "batchRefresh"}

ASSUME LifecycleAssumption ==
    /\ KiroChoices \subseteq SUBSET Accounts
    /\ Changes \subseteq AllChanges
    /\ ManualIds \subseteq (SUBSET Accounts) \ {{}}
    /\ WarmupProbe \in BOOLEAN
    /\ Recovers \subseteq BOOLEAN
    /\ Gone \notin Accounts

Bans == {"none", "BANNED", "RATE_LIMITED"}

Account == [enabled : BOOLEAN, ban : Bans]

ASSUME GoneAssumption == Gone \notin Account

VARIABLES
    kiro,      \* the accounts whose usage check writes the ban fields; fixed
    conf,      \* the account records
    recover,   \* config.WarmupRecover
    pool,      \* the copies the pool lists, as of the last Reload
    healthy,   \* the accounts whose upstream accepts them
    req,       \* requests: the account and the copy they were given
    op,        \* operators: what they are doing, with the copy they read
    running,   \* a warmup run is under way,
    recovers,  \* and with this setting
    job,       \* the run's worker for each account
    \* history, for the properties only:
    word,      \* the operator's last word on the account
    refreshed  \* accounts refreshed one by one since the last Reload

vars == <<kiro, conf, recover, pool, healthy, req, op, running, recovers, job, word, refreshed>>

Fresh == [enabled |-> TRUE, ban |-> "none"]

NoRequest == [pc |-> "idle", acct |-> Gone, copy |-> Fresh]
NoTask    == [pc |-> "idle", acct |-> Gone, copy |-> Fresh, change |-> "edit"]
NoJob     == [pc |-> "idle", copy |-> Fresh, err |-> "none"]

Enabled(a) == conf[a] # Gone /\ conf[a].enabled

\* Disabled by the gateway, not by an operator.
AutoBanned(acc) == ~acc.enabled /\ acc.ban # "none"

-----------------------------------------------------------------------------
(* The configuration and the pool. *)

\* An unknown id is added.
UpdateAccount_Upsert(a, acc) == [conf EXCEPT ![a] = acc]

UpdateAccount(a, acc) == IF conf[a] = Gone THEN conf ELSE [conf EXCEPT ![a] = acc]

Reload ==
    /\ pool' = [a \in Accounts |-> IF Enabled(a) THEN conf[a] ELSE Gone]
    /\ refreshed' = {}

\* disableAccount, up to the Reload.
Banned(copy, status) ==
    IF ~copy.enabled /\ copy.ban = status THEN copy ELSE [enabled |-> FALSE, ban |-> status]

DisableAccount(a, copy, status) ==
    IF Banned(copy, status) = copy THEN conf ELSE UpdateAccount(a, Banned(copy, status))

\* The usage check.  Only Kiro's writes: it bans on an authentication error, and
\* clears the ban of a copy that was banned, leaving Enabled as the copy has it.
RefreshAccountInfo(a, copy, err) ==
    CASE a \in kiro /\ err = "auth" -> UpdateAccount(a, [enabled |-> FALSE, ban |-> "BANNED"])
      [] a \in kiro /\ err = "none" /\ copy.ban # "none" ->
            UpdateAccount(a, [copy EXCEPT !.ban = "none"])
      [] OTHER -> conf

\* How upstream may answer about account a: a rate limit is told from other
\* failures for CodeBuddy only, which stands here for all that are not Kiro.
Answers(a) ==
    IF a \in healthy THEN {"none"}
    ELSE {"auth", "plain"} \cup (IF a \in kiro THEN {} ELSE {"rate"})

-----------------------------------------------------------------------------
(* Requests and failover. *)

Pick(r, a) ==
    /\ req[r].pc = "idle" /\ pool[a] # Gone
    /\ req' = [req EXCEPT ![r] = [pc |-> "serving", acct |-> a, copy |-> pool[a]]]
    /\ UNCHANGED <<kiro, conf, recover, pool, healthy, op, running, recovers, job, word, refreshed>>

\* Success, or a failure that only costs a cooldown.
Finish(r) ==
    /\ req[r].pc = "serving"
    /\ req' = [req EXCEPT ![r] = NoRequest]
    /\ UNCHANGED <<kiro, conf, recover, pool, healthy, op, running, recovers, job, word, refreshed>>

\* The pool is left to the next warmup.
AuthFails_NoReload(r) ==
    /\ req[r].pc = "serving" /\ req[r].acct \notin healthy
    /\ conf' = DisableAccount(req[r].acct, req[r].copy, "BANNED")
    /\ req' = [req EXCEPT ![r] = NoRequest]
    /\ UNCHANGED <<kiro, recover, pool, healthy, op, running, recovers, job, word, refreshed>>

\* 401, 403, a suspension: disableAccount writes the banned copy ...
AuthFails(r) ==
    /\ req[r].pc = "serving" /\ req[r].acct \notin healthy
    /\ conf' = DisableAccount(req[r].acct, req[r].copy, "BANNED")
    /\ req' = [req EXCEPT ![r].pc = "reload"]
    /\ UNCHANGED <<kiro, recover, pool, healthy, op, running, recovers, job, word, refreshed>>

\* ... and reloads the pool.
RequestReload(r) ==
    /\ req[r].pc = "reload"
    /\ Reload
    /\ req' = [req EXCEPT ![r] = NoRequest]
    /\ UNCHANGED <<kiro, conf, recover, healthy, op, running, recovers, job, word>>

-----------------------------------------------------------------------------
(* Operators. *)

\* The flag only, the ban fields stay.
SetEnabledByOperator_FlagOnly(acc, enabled) == [acc EXCEPT !.enabled = enabled]

SetEnabledByOperator(acc, enabled) == [enabled |-> enabled, ban |-> "none"]

StuckBanned(acc) == acc.enabled /\ acc.ban # "none"

\* The copy after the request's edits; "edit" stands for any field not modelled.
Applied(copy, change) ==
    CASE change = "on"  /\ (~copy.enabled \/ StuckBanned(copy)) -> SetEnabledByOperator(copy, TRUE)
      [] change = "off" /\ copy.enabled -> SetEnabledByOperator(copy, FALSE)
      [] OTHER -> copy

\* GetAccounts, at the head of every handler.
OpRead(o, a, change) ==
    /\ op[o].pc = "idle" /\ conf[a] # Gone
    /\ op' = [op EXCEPT ![o] = [pc |-> CASE change \in {"refresh", "batchRefresh"} -> "usage"
                                         [] change = "delete" -> "delete"
                                         [] OTHER -> "write",
                                acct |-> a, copy |-> conf[a], change |-> change]]
    /\ UNCHANGED <<kiro, conf, recover, pool, healthy, req, running, recovers, job, word, refreshed>>

\* apiUpdateAccount and the batch actions: the edited copy replaces the record.
OpWrite(o) ==
    LET t == op[o]
        decides == conf[t.acct] # Gone /\ Applied(t.copy, t.change) # t.copy
    IN  /\ t.pc = "write"
        /\ conf' = UpdateAccount(t.acct, Applied(t.copy, t.change))
        /\ word' = IF decides THEN [word EXCEPT ![t.acct] = t.change] ELSE word
        /\ op' = [op EXCEPT ![o].pc = "reload"]
        /\ UNCHANGED <<kiro, recover, pool, healthy, req, running, recovers, job, refreshed>>

OpDelete(o) ==
    /\ op[o].pc = "delete"
    /\ conf' = [conf EXCEPT ![op[o].acct] = Gone]
    /\ op' = [op EXCEPT ![o].pc = "reload"]
    /\ UNCHANGED <<kiro, recover, pool, healthy, req, running, recovers, job, word, refreshed>>

OpReload(o) ==
    /\ op[o].pc = "reload"
    /\ Reload
    /\ op' = [op EXCEPT ![o] = NoTask]
    /\ UNCHANGED <<kiro, conf, recover, healthy, req, running, recovers, job, word>>

\* apiRefreshAccount checks the usage, once more after an authentication error
\* if a new token can be had, and does not reload; the batch action checks once
\* and does.
OpUsage(o, err) ==
    LET t == op[o]
    IN  /\ t.pc \in {"usage", "retry"}
        /\ conf' = RefreshAccountInfo(t.acct, t.copy, err)
        /\ op' \in IF t.change = "batchRefresh" THEN {[op EXCEPT ![o].pc = "reload"]}
                   ELSE {[op EXCEPT ![o] = NoTask]} \cup
                        (IF t.pc = "usage" /\ err = "auth" THEN {[op EXCEPT ![o].pc = "retry"]} ELSE {})
        /\ refreshed' = IF t.change = "refresh" THEN refreshed \cup {t.acct} ELSE refreshed
        /\ UNCHANGED <<kiro, recover, pool, healthy, req, running, recovers, job, word>>

SetRecover(b) ==
    /\ recover' = b
    /\ UNCHANGED <<kiro, conf, pool, healthy, req, op, running, recovers, job, word, refreshed>>

-----------------------------------------------------------------------------
(* Warmup: one run at a time, a worker for every candidate. *)

\* Auto-banned accounts are not looked at.
WarmupCandidates_EnabledOnly(ids) ==
    {a \in Accounts : conf[a] # Gone /\ IF ids = {} THEN conf[a].enabled ELSE a \in ids}

\* ids = {} asks for all.
WarmupCandidates(ids) ==
    {a \in Accounts :
        /\ conf[a] # Gone
        /\ IF ids = {} THEN conf[a].enabled \/ (recover /\ AutoBanned(conf[a])) ELSE a \in ids}

StartWarmup(ids) ==
    /\ ~running
    /\ running' = TRUE
    /\ recovers' = recover
    /\ job' = [a \in Accounts |-> IF a \in WarmupCandidates(ids)
                                    THEN [NoJob EXCEPT !.pc = "usage", !.copy = conf[a]]
                                    ELSE NoJob]
    /\ UNCHANGED <<kiro, conf, recover, pool, healthy, req, op, word, refreshed>>

WarmupUsage(a, err) ==
    /\ job[a].pc = "usage"
    /\ conf' = RefreshAccountInfo(a, job[a].copy, err)
    /\ job' = [job EXCEPT ![a].err = err,
                          ![a].pc = CASE err # "none" -> "failed"
                                      [] err = "none" /\ WarmupProbe -> "probe"
                                      [] OTHER -> "passed"]
    /\ UNCHANGED <<kiro, recover, pool, healthy, req, op, running, recovers, word, refreshed>>

WarmupChatProbe(a, err) ==
    /\ job[a].pc = "probe"
    /\ job' = [job EXCEPT ![a].err = err, ![a].pc = IF err = "none" THEN "passed" ELSE "failed"]
    /\ UNCHANGED <<kiro, conf, recover, pool, healthy, req, op, running, recovers, word, refreshed>>

\* RecoverAccount goes by the copy, not by what the record has become.
WarmupPassed(a) ==
    /\ job[a].pc = "passed"
    /\ conf' = IF AutoBanned(job[a].copy) /\ recovers
                 THEN UpdateAccount(a, [enabled |-> TRUE, ban |-> "none"])
                 ELSE conf
    /\ job' = [job EXCEPT ![a] = NoJob]
    /\ UNCHANGED <<kiro, recover, pool, healthy, req, op, running, recovers, word, refreshed>>

\* finishWarmup: only an account that was enabled is given to failover.
WarmupFailed(a) ==
    LET j == job[a]
        status == CASE j.err = "rate" -> "RATE_LIMITED" [] j.err = "auth" -> "BANNED" [] OTHER -> "none"
        bans == j.copy.enabled /\ status # "none"
    IN  /\ j.pc = "failed"
        /\ conf' = IF bans THEN DisableAccount(a, j.copy, status) ELSE conf
        /\ job' = [job EXCEPT ![a] = IF bans THEN [NoJob EXCEPT !.pc = "reload"] ELSE NoJob]
        /\ UNCHANGED <<kiro, recover, pool, healthy, req, op, running, recovers, word, refreshed>>

WarmupReload(a) ==
    /\ job[a].pc = "reload"
    /\ Reload
    /\ job' = [job EXCEPT ![a] = NoJob]
    /\ UNCHANGED <<kiro, conf, recover, healthy, req, op, running, recovers, word>>

EndWarmup ==
    /\ running /\ \A a \in Accounts : job[a].pc = "idle"
    /\ Reload
    /\ running' = FALSE
    /\ UNCHANGED <<kiro, conf, recover, healthy, req, op, recovers, job, word>>

-----------------------------------------------------------------------------

\* Upstream comes to accept an account, or no longer does.
Upstream(a) ==
    /\ healthy' \in {healthy \cup {a}, healthy \ {a}}
    /\ UNCHANGED <<kiro, conf, recover, pool, req, op, running, recovers, job, word, refreshed>>

Init ==
    /\ kiro \in KiroChoices
    /\ conf = [a \in Accounts |-> Fresh]
    /\ recover \in Recovers
    /\ pool = conf
    /\ healthy = Accounts
    /\ req = [r \in Requests |-> NoRequest]
    /\ op = [o \in Operators |-> NoTask]
    /\ running = FALSE
    /\ recovers = FALSE
    /\ job = [a \in Accounts |-> NoJob]
    /\ word = [a \in Accounts |-> "on"]
    /\ refreshed = {}

RequestStep(r) ==
    (\E a \in Accounts : Pick(r, a)) \/ Finish(r) \/ AuthFails(r) \/ RequestReload(r)

OperatorStep(o) ==
    \/ \E a \in Accounts, change \in Changes : OpRead(o, a, change)
    \/ OpWrite(o) \/ OpDelete(o) \/ OpReload(o)
    \/ op[o].pc \in {"usage", "retry"} /\ \E err \in Answers(op[o].acct) : OpUsage(o, err)

WarmupWork(a) ==
    \/ \E err \in Answers(a) : WarmupUsage(a, err) \/ WarmupChatProbe(a, err)
    \/ WarmupPassed(a) \/ WarmupFailed(a) \/ WarmupReload(a)

Next ==
    \/ \E r \in Requests : RequestStep(r)
    \/ \E o \in Operators : OperatorStep(o)
    \/ \E b \in Recovers : SetRecover(b)
    \/ \E ids \in {{}} \cup ManualIds : StartWarmup(ids)
    \/ \E a \in Accounts : WarmupWork(a)
    \/ EndWarmup
    \/ \E a \in Accounts : Upstream(a)

Spec == Init /\ [][Next]_vars

\* The background timer keeps starting runs, and a run that was started ends.
FairSpec ==
    /\ Spec
    /\ WF_vars(StartWarmup({})) /\ WF_vars(EndWarmup)
    /\ \A a \in Accounts : WF_vars(WarmupWork(a))

-----------------------------------------------------------------------------
(* Properties. *)

\* The state has the shape the code gives it.
TypeOK ==
    /\ kiro \subseteq Accounts
    /\ conf \in [Accounts -> Account \cup {Gone}]
    /\ recover \in BOOLEAN
    /\ pool \in [Accounts -> Account \cup {Gone}]
    /\ healthy \subseteq Accounts
    /\ req \in [Requests -> [pc : {"idle", "serving", "reload"}, acct : Accounts \cup {Gone},
                             copy : Account]]
    /\ op \in [Operators -> [pc : {"idle", "write", "delete", "reload", "usage", "retry"},
                             acct : Accounts \cup {Gone}, copy : Account, change : AllChanges]]
    /\ \A r \in Requests : req[r].pc # "idle" => req[r].acct \in Accounts
    /\ \A o \in Operators : op[o].pc # "idle" => op[o].acct \in Accounts
    /\ running \in BOOLEAN /\ recovers \in BOOLEAN
    /\ job \in [Accounts -> [pc : {"idle", "usage", "probe", "passed", "failed", "reload"},
                             copy : Account, err : {"none", "auth", "plain", "rate"}]]
    /\ word \in [Accounts -> {"on", "off"}]
    /\ refreshed \subseteq Accounts

\* No account is enabled and banned at once (account_failover.go:109-126): every
\* path that picks accounts would treat such a record differently.  The writers
\* hold copies read at different times, and each replaces the whole record.
NoStuckBan == \A a \in Accounts : conf[a] # Gone => ~StuckBanned(conf[a])

\* A deleted account stays deleted (DeleteAccount, UpdateAccount config.go:671-686),
\* although requests, operators and warmup workers go on writing their copies of it.
DeletedStaysDeleted == [][\A a \in Accounts : conf[a] = Gone => conf'[a] = Gone]_vars

\* Somebody is going to reload the pool.
ReloadPending ==
    \/ \E r \in Requests : req[r].pc = "reload"
    \/ \E o \in Operators : op[o].pc = "reload"
    \/ \E o \in Operators : op[o].pc = "usage" /\ op[o].change = "batchRefresh"
    \/ running

\* The pool lists exactly the enabled accounts, or a Reload is on its way: no
\* interleaving of failover, operators and warmup leaves a disabled account on
\* the list (README.md:326) or an enabled one off it.  The exception are accounts
\* an operator refreshed one by one: apiRefreshAccount may disable the account
\* and does not reload (handler.go:4662-4706).
PoolFollowsConfig ==
    \/ ReloadPending
    \/ \A a \in Accounts \ refreshed : (pool[a] # Gone) <=> Enabled(a)

\* With auto-recover on, an account that failover disabled comes back once its
\* upstream accepts it again (README.md:360), unless the operator turned it off
\* or deleted it.  Not so a Kiro account: a usage check that passes takes the marker,
\* and when it is not enabled in the same run no later one looks at it (warmup.go:144-156).
AutoBannedRecovers ==
    \A a \in Accounts :
        <>[](a \in healthy \ kiro /\ recover /\ conf[a] # Gone)
            => []<>(Enabled(a) \/ word[a] = "off")

\* What an operator turned off is not turned on by auto-recover (README.md:363), all
\* the less when the record says so, without a marker.  It is turned on when the
\* worker read it before (warmup.go:274): run life_manual_off.
ManualDecisionStands ==
    [][\A a \in Accounts :
          WarmupPassed(a) /\ word[a] = "off" /\ conf[a] # Gone /\ ~AutoBanned(conf[a])
            => ~Enabled(a)']_vars
=============================================================================
