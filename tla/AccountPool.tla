----------------------------- MODULE AccountPool -----------------------------
(***************************************************************************)
(* The account pool (pool/account.go): which upstream account a request is *)
(* sent to, and what its outcome does to the account.                      *)
(*                                                                         *)
(* Selection holds the read lock, so several requests select at once; they *)
(* share one atomic round-robin counter, and each increment is a step.     *)
(* Everything that changes the pool holds the write lock, so it waits for  *)
(* the selections under way.  Between selection and outcome a request      *)
(* holds no lock, and the pool may be reloaded.                            *)
(*                                                                         *)
(* Slots is the configured account order with every account repeated       *)
(* effectiveWeight times.  An AccountFilter and the excluded set both make *)
(* an account unusable for one request: `barred' stands for both.          *)
(***************************************************************************)
EXTENDS Integers, Sequences, FiniteSets

CONSTANTS
    Slots,          \* sequence of accounts
    Models,
    Requests,       \* requests under way at once
    Barred,         \* the sets of accounts a request may find unusable
    Records,        \* for each account, the records it may be given (AccountRecord)
    Expiring,       \* the accounts whose token expires
    ModelLists,     \* catalogs an upstream may answer with
    OverUsage,      \* values of allowOverUsage an operator may set
    NoAccount,
    NoList,         \* EnabledModels = nil: no allowlist
    ErrorCooldown, QuotaCooldown,  \* one minute, one hour
    Failures,       \* how upstream may fail a request: see Outcome
    CapResets,      \* how far ahead upstream may say a cap resets
    MaxTime,        \* bound on the clock
    IndexBound      \* a common multiple of the list lengths, for the counter

Accounts == {Slots[i] : i \in DOMAIN Slots}

\* What routing reads of an account record; enabledModels is the allowlist.
AccountRecord == [enabled : BOOLEAN, overLimit : BOOLEAN,
                  enabledModels : (SUBSET Models) \cup {NoList}]

ASSUME PoolAssumption ==
    /\ Slots \in Seq(Accounts)
    /\ NoAccount \notin Accounts
    /\ Models # {}
    /\ Barred \subseteq SUBSET Accounts
    /\ ModelLists \subseteq SUBSET Models
    /\ Records \in [Accounts -> SUBSET AccountRecord]
    /\ Expiring \subseteq Accounts
    /\ OverUsage \subseteq BOOLEAN
    /\ Failures \subseteq {"plain", "quota", "cap", "model"}
    /\ ErrorCooldown \in Nat \ {0}
    /\ \A d \in {QuotaCooldown} \cup CapResets : d \in Nat /\ d > ErrorCooldown
    /\ MaxTime \in Nat
    /\ IndexBound \in Nat \ {0}
    /\ \A n \in 1..Len(Slots) : IndexBound % n = 0

VARIABLES
    conf,            \* the account records in the configuration
    allowOverUsage,  \* config.GetAllowOverUsage
    accounts,        \* the pool's weighted list: id and quota state, as of Reload
    enabledModels,   \* the pool's allowlists, as of Reload
    modelLists, modelDenies,
    cooldowns,       \* end of cooldown, 0 for no entry (the clock starts at 1)
    errorCounts,     \* consecutive errors, 3 standing for "3 or more"
    currentIndex,
    stale,           \* accounts whose token, in the pool's copy, is about to expire
    now,
    req,             \* where each request is
    \* history, for the properties only:
    lastStrike,      \* when the account last failed, 0 once it succeeded
    turns            \* picks since the rotation was last disturbed or completed

confVars  == <<conf, allowOverUsage>>
listVars  == <<accounts, enabledModels>>
modelVars == <<modelLists, modelDenies>>
errorVars == <<cooldowns, errorCounts, lastStrike>>
vars == <<confVars, listVars, modelVars, errorVars, currentIndex, stale, now, req, turns>>

Idle == [pc |-> "idle", model |-> CHOOSE m \in Models : TRUE, barred |-> {},
         allow |-> FALSE, at |-> 0, left |-> 0, seen |-> {}, got |-> NoAccount]

Request == [pc : {"idle", "probing", "picked", "capped", "rejected"}, model : Models,
            barred : Barred \cup {{}}, allow : BOOLEAN, at : Nat, left : Nat,
            seen : SUBSET Accounts, got : Accounts \cup {NoAccount}]

\* A request that was given account a.
Holding(a, m) == [Idle EXCEPT !.pc = "picked", !.model = m, !.got = a]

NoTurns == [a \in Accounts |-> 0]

-----------------------------------------------------------------------------
(* Reload: the weighted list and the allowlists, rebuilt from the config.   *)

QuotaBlocked(overLimit, allow) == overLimit /\ ~allow

InList(a) == conf[a].enabled /\ ~QuotaBlocked(conf[a].overLimit, allowOverUsage)

\* Each account is listed once, whatever its weight.
Weighted_OneEach ==
    LET listed == SelectSeq(Slots, InList)
        firsts == {i \in DOMAIN listed : \A j \in 1..(i - 1) : listed[j] # listed[i]}
    IN  [i \in 1..Cardinality(firsts) |->
            LET a == listed[CHOOSE j \in firsts : Cardinality({f \in firsts : f <= j}) = i]
            IN  [id |-> a, overLimit |-> conf[a].overLimit]]

ListedUpTo[n \in 0..Len(Slots)] ==
    IF n = 0 THEN <<>>
    ELSE IF InList(Slots[n])
           THEN Append(ListedUpTo[n - 1], [id |-> Slots[n], overLimit |-> conf[Slots[n]].overLimit])
           ELSE ListedUpTo[n - 1]

Weighted == ListedUpTo[Len(Slots)]

EnabledModelsOf(a) == IF conf[a].enabled THEN conf[a].enabledModels ELSE NoList

Locked == \E r \in Requests : req[r].pc = "probing"

Reload ==
    /\ ~Locked
    /\ accounts' = Weighted
    /\ enabledModels' = [a \in Accounts |-> EnabledModelsOf(a)]
    /\ turns' = NoTurns
    /\ UNCHANGED <<confVars, modelVars, errorVars, currentIndex, stale, now, req>>

-----------------------------------------------------------------------------
(* Which account may serve which model. *)

ModelKnown(m) == \E a \in Accounts : m \in modelLists[a]

AccountHasModel(a, m) ==
    /\ m \notin modelDenies[a]
    /\ IF enabledModels[a] # NoList THEN m \in enabledModels[a]
       ELSE IF modelLists[a] = {}   THEN ~ModelKnown(m)
       ELSE m \in modelLists[a]

\* The quota was looked at when the list was built.
Usable_TrustsReload(r, acc) ==
    /\ acc.id \notin req[r].barred
    /\ AccountHasModel(acc.id, req[r].model)

\* acc is an entry of the list; these checks hold for both loops.
Usable(r, acc) ==
    /\ acc.id \notin req[r].barred
    /\ AccountHasModel(acc.id, req[r].model)
    /\ ~QuotaBlocked(acc.overLimit, req[r].allow)

Cooling(a, t) == cooldowns[a] # 0 /\ t < cooldowns[a]

Routable(r, acc, t) == Usable(r, acc) /\ ~Cooling(acc.id, t) /\ acc.id \notin stale

-----------------------------------------------------------------------------
(* GetNextForModelExcluding. *)

Begin(r, m, barred) ==
    /\ req[r].pc = "idle"
    /\ accounts # <<>>
    /\ req' = [req EXCEPT ![r] = [Idle EXCEPT !.pc = "probing", !.model = m, !.barred = barred,
                                             !.left = Len(accounts), !.at = now,
                                             !.allow = allowOverUsage]]
    /\ UNCHANGED <<confVars, listVars, modelVars, errorVars, currentIndex, stale, now, turns>>

\* How many picks a round has had: no account has more than its slots and one.
Dealt(t) == Cardinality({p \in Accounts \X (1..(Len(Slots) + 1)) : p[2] <= t[p[1]]})

\* A pick in turn, for the history of the rotation.
Turn(a) ==
    LET next == [turns EXCEPT ![a] = @ + 1]
    IN  turns' = IF Dealt(next) > Len(accounts) THEN [NoTurns EXCEPT ![a] = 1] ELSE next

\* The walk starts at the head of the list every time.
Probe_FromTheHead(r) ==
    LET acc == accounts[Len(accounts) - req[r].left + 1]
    IN  /\ req[r].pc = "probing" /\ req[r].left > 0
        /\ IF acc.id \notin req[r].seen /\ Routable(r, acc, req[r].at)
             THEN req' = [req EXCEPT ![r] = Holding(acc.id, req[r].model)]
             ELSE req' = [req EXCEPT ![r].seen = @ \cup {acc.id}, ![r].left = @ - 1]
        /\ UNCHANGED <<confVars, listVars, modelVars, errorVars, currentIndex, stale, now, turns>>

\* One round of the first loop: take the next index, look at that account.
Probe(r) ==
    LET idx == (currentIndex + 1) % IndexBound
        acc == accounts[(idx % Len(accounts)) + 1]
    IN  /\ req[r].pc = "probing" /\ req[r].left > 0
        /\ currentIndex' = idx
        /\ IF acc.id \notin req[r].seen /\ Routable(r, acc, req[r].at)
             THEN /\ req' = [req EXCEPT ![r] = Holding(acc.id, req[r].model)]
                  /\ Turn(acc.id)
             ELSE /\ req' = [req EXCEPT ![r].seen = @ \cup {acc.id}, ![r].left = @ - 1]
                  /\ turns' = NoTurns
        /\ UNCHANGED <<confVars, listVars, modelVars, errorVars, stale, now>>

\* The first usable account, cooling or not.
FallbackChoice_First(r) ==
    LET usable == {i \in DOMAIN accounts : Usable(r, accounts[i])}
    IN  IF usable = {} THEN NoAccount
        ELSE accounts[CHOOSE i \in usable : \A j \in usable : i <= j].id

\* The second loop: the first usable account without a cooldown entry, else
\* the first of those whose cooldown ends soonest.
FallbackChoice(r) ==
    LET usable == {i \in DOMAIN accounts : Usable(r, accounts[i])}
        free   == {i \in usable : cooldowns[accounts[i].id] = 0}
        soonest == {i \in usable : \A j \in usable :
                       cooldowns[accounts[i].id] <= cooldowns[accounts[j].id]}
        from == IF free # {} THEN free ELSE soonest
    IN  IF usable = {} THEN NoAccount
        ELSE accounts[CHOOSE i \in from : \A j \in from : i <= j].id

Fallback(r) ==
    /\ req[r].pc = "probing" /\ req[r].left = 0
    /\ req' = IF FallbackChoice(r) = NoAccount
                THEN [req EXCEPT ![r] = Idle]
                ELSE [req EXCEPT ![r] = Holding(FallbackChoice(r), req[r].model)]
    /\ UNCHANGED <<confVars, listVars, modelVars, errorVars, currentIndex, stale, now, turns>>

\* GetForModelByID: the account a conversation is pinned to, if it is routable.
PickPinned(r, m, barred, a) ==
    /\ req[r].pc = "idle"
    /\ \E i \in DOMAIN accounts : /\ accounts[i].id = a
                                  /\ ~QuotaBlocked(accounts[i].overLimit, allowOverUsage)
    /\ a \notin barred
    /\ AccountHasModel(a, m)
    /\ ~Cooling(a, now) /\ a \notin stale
    /\ req' = [req EXCEPT ![r] = Holding(a, m)]
    /\ UNCHANGED <<confVars, listVars, modelVars, errorVars, currentIndex, stale, now, turns>>

-----------------------------------------------------------------------------
(* Outcomes.  The request still holds the account it was given, whatever has *)
(* become of the pool since.                                                 *)

Done(r) == req' = [req EXCEPT ![r] = Idle]

RecordSuccess(r) ==
    LET a == req[r].got
    IN  /\ req[r].pc = "picked" /\ ~Locked
        /\ cooldowns' = [cooldowns EXCEPT ![a] = 0]
        /\ errorCounts' = [errorCounts EXCEPT ![a] = 0]
        /\ lastStrike' = [lastStrike EXCEPT ![a] = 0]
        /\ Done(r)
        /\ UNCHANGED <<confVars, listVars, modelVars, currentIndex, stale, now, turns>>

\* The third error in a row is let pass.
CooldownAfter_Late(a, quota) ==
    IF quota THEN now + QuotaCooldown
    ELSE IF errorCounts[a] + 1 > 3 THEN now + ErrorCooldown
    ELSE cooldowns[a]

\* What RecordError makes of the cooldown: an hour for a quota error, a minute
\* from the third error in a row on.
CooldownAfter(a, quota) ==
    IF quota THEN now + QuotaCooldown
    ELSE IF errorCounts[a] + 1 >= 3 THEN now + ErrorCooldown
    ELSE cooldowns[a]

RecordError(a, quota) ==
    /\ ~Locked
    /\ errorCounts' = [errorCounts EXCEPT ![a] = IF @ < 3 THEN @ + 1 ELSE @]
    /\ cooldowns' = [cooldowns EXCEPT ![a] = CooldownAfter(a, quota)]
    /\ lastStrike' = [lastStrike EXCEPT ![a] = now]
    /\ UNCHANGED <<confVars, listVars, modelVars, currentIndex, stale, now, turns>>

\* An error that says nothing special, or the last step of a model rejection.
FailPlain(r) ==
    /\ \/ req[r].pc = "picked" /\ "plain" \in Failures
       \/ req[r].pc = "rejected"
    /\ RecordError(req[r].got, FALSE)
    /\ Done(r)

FailQuota(r) ==
    /\ req[r].pc = "picked" /\ "quota" \in Failures
    /\ RecordError(req[r].got, TRUE)
    /\ req' = [req EXCEPT ![r] = Idle]

\* 429 that says when the cap resets: RecordError, and then SetCooldown.
FailCap(r) ==
    /\ req[r].pc = "picked" /\ "cap" \in Failures
    /\ RecordError(req[r].got, TRUE)
    /\ req' = [req EXCEPT ![r].pc = "capped"]

SetCooldown(r, ahead) ==
    /\ req[r].pc = "capped" /\ ~Locked
    /\ cooldowns' = [cooldowns EXCEPT ![req[r].got] = now + ahead]
    /\ Done(r)
    /\ UNCHANGED <<confVars, listVars, modelVars, errorCounts, lastStrike,
                   currentIndex, stale, now, turns>>

\* noteModelUnsupported: the account is not asked for this model again.
DenyModel(r) ==
    /\ req[r].pc = "picked" /\ "model" \in Failures /\ ~Locked
    /\ modelDenies' = [modelDenies EXCEPT ![req[r].got] = @ \cup {req[r].model}]
    /\ req' = [req EXCEPT ![r].pc = "rejected"]
    /\ turns' = NoTurns
    /\ UNCHANGED <<confVars, listVars, modelLists, errorVars, currentIndex, stale, now>>

-----------------------------------------------------------------------------
(* Model catalogs, tokens, configuration, time. *)

\* Every catalog refresh forgets the rejections.
SetModelList_Forgets(a, list) ==
    /\ ~Locked
    /\ modelLists' = [modelLists EXCEPT ![a] = list]
    /\ modelDenies' = [modelDenies EXCEPT ![a] = {}]
    /\ turns' = NoTurns
    /\ UNCHANGED <<confVars, listVars, errorVars, currentIndex, stale, now, req>>

\* A catalog refresh keeps what upstream rejected, unless it came back empty.
SetModelList(a, list) ==
    /\ ~Locked
    /\ modelLists' = [modelLists EXCEPT ![a] = list]
    /\ modelDenies' = IF list = {} THEN [modelDenies EXCEPT ![a] = {}] ELSE modelDenies
    /\ turns' = NoTurns
    /\ UNCHANGED <<confVars, listVars, errorVars, currentIndex, stale, now, req>>

ClearModelDenies(a) ==
    /\ ~Locked
    /\ modelDenies' = [modelDenies EXCEPT ![a] = {}]
    /\ turns' = NoTurns
    /\ UNCHANGED <<confVars, listVars, modelLists, errorVars, currentIndex, stale, now, req>>

UpdateToken(a) ==
    /\ ~Locked
    /\ stale' = stale \ {a}
    /\ UNCHANGED <<confVars, listVars, modelVars, errorVars, currentIndex, now, req, turns>>

TokenAges(a) ==
    /\ stale' = stale \cup {a}
    /\ UNCHANGED <<confVars, listVars, modelVars, errorVars, currentIndex, now, req, turns>>

\* Any change to an account record; its callers Reload afterwards.
Configure(a, record) ==
    /\ conf' = [conf EXCEPT ![a] = record]
    /\ UNCHANGED <<allowOverUsage, listVars, modelVars, errorVars, currentIndex, stale, now, req, turns>>

SetAllowOverUsage(b) ==
    /\ allowOverUsage' = b
    /\ UNCHANGED <<conf, listVars, modelVars, errorVars, currentIndex, stale, now, req, turns>>

Tick ==
    /\ now < MaxTime
    /\ now' = now + 1
    /\ UNCHANGED <<confVars, listVars, modelVars, errorVars, currentIndex, stale, req, turns>>

-----------------------------------------------------------------------------

Init ==
    /\ conf = [a \in Accounts |-> [enabled |-> TRUE, overLimit |-> FALSE, enabledModels |-> NoList]]
    /\ allowOverUsage \in OverUsage
    /\ accounts = Weighted
    /\ enabledModels = [a \in Accounts |-> NoList]
    /\ modelLists = [a \in Accounts |-> {}]
    /\ modelDenies = [a \in Accounts |-> {}]
    /\ cooldowns = [a \in Accounts |-> 0]
    /\ errorCounts = [a \in Accounts |-> 0]
    /\ currentIndex = 0
    /\ stale = {}
    /\ now = 1
    /\ req = [r \in Requests |-> Idle]
    /\ lastStrike = [a \in Accounts |-> 0]
    /\ turns = NoTurns

Select(r) ==
    \/ \E m \in Models, barred \in Barred : Begin(r, m, barred)
    \/ \E m \in Models, barred \in Barred, a \in Accounts : PickPinned(r, m, barred, a)
    \/ Probe(r)
    \/ Fallback(r)

Outcome(r) ==
    \/ RecordSuccess(r) \/ FailPlain(r) \/ FailQuota(r) \/ FailCap(r)
    \/ \E ahead \in CapResets : SetCooldown(r, ahead)
    \/ DenyModel(r)

Environment ==
    \/ \E a \in Accounts, list \in ModelLists : SetModelList(a, list)
    \/ \E a \in Accounts : ClearModelDenies(a) \/ UpdateToken(a)
    \/ \E a \in Expiring : TokenAges(a)
    \/ \E a \in Accounts : \E record \in Records[a] : Configure(a, record)
    \/ \E b \in OverUsage : SetAllowOverUsage(b)
    \/ Reload

Next == (\E r \in Requests : Select(r) \/ Outcome(r)) \/ Environment \/ Tick

Spec == Init /\ [][Next]_vars

\* A request under way goes on by itself; its own lock is the read lock.
FairSpec ==
    /\ Spec
    /\ \A r \in Requests : WF_vars(Probe(r)) /\ WF_vars(Fallback(r))

-----------------------------------------------------------------------------
(* Properties. *)

\* The state has the shape the code gives it: what a request holds is an account,
\* and the counter stays below its modulus.
TypeOK ==
    /\ conf \in [Accounts -> AccountRecord]
    /\ allowOverUsage \in BOOLEAN
    /\ accounts \in Seq([id : Accounts, overLimit : BOOLEAN])
    /\ enabledModels \in [Accounts -> (SUBSET Models) \cup {NoList}]
    /\ modelLists \in [Accounts -> SUBSET Models]
    /\ modelDenies \in [Accounts -> SUBSET Models]
    /\ cooldowns \in [Accounts -> Nat]
    /\ errorCounts \in [Accounts -> 0..3]
    /\ currentIndex \in 0..(IndexBound - 1)
    /\ stale \subseteq Accounts
    /\ now \in Nat
    /\ req \in [Requests -> Request]
    /\ \A r \in Requests : req[r].pc \in {"picked", "capped", "rejected"} <=> req[r].got # NoAccount
    /\ lastStrike \in [Accounts -> Nat]
    /\ turns \in [Accounts -> Nat]

\* A step that hands request r an account.
Picks(r) == req[r].pc # "picked" /\ req'[r].pc = "picked"

\* The reading of the clock a selection goes by.
TimeOf(r) == IF req[r].pc = "probing" THEN req[r].at ELSE now

\* A cooling account is the last resort (README.md:326): a request is given one only
\* when every account on the list that could serve it is cooling too.  It is the
\* order inside the fallback loop (account.go:409-436) that makes this true: two
\* requests that walk the list together share the counter, and the first loop of
\* one may miss a healthy account that the other stepped on.
CoolingIsLastResort ==
    [][\A r \in Requests : Picks(r) =>
          LET at == TimeOf(r)
          IN  Cooling(req'[r].got, at) =>
                \A i \in DOMAIN accounts : Usable(r, accounts[i]) => Cooling(accounts[i].id, at)]_vars

\* An account that failed three times running rests for ErrorCooldown after the
\* last failure (RecordError, account.go:504-518): whatever the interleaving of
\* outcomes, cap resets and reloads, no walk and no pinned conversation is given
\* it sooner; only the fallback, with nothing else left, is.
RestAfterThreeFailures ==
    [][\A r \in Requests : Picks(r) /\ ~Fallback(r) =>
          LET a == req'[r].got
          IN  errorCounts[a] = 3 => TimeOf(r) >= lastStrike[a] + ErrorCooldown]_vars

Weight(a) == Cardinality({i \in DOMAIN Slots : Slots[i] = a})

\* Weighted round-robin (Reload and the shared counter): in every undisturbed
\* round of Len(accounts) picks, by however many requests at once, each account
\* has had exactly its share.
EachRoundIsFair ==
    Dealt(turns) = Len(accounts) =>
        \A i, j \in DOMAIN accounts :
            turns[accounts[i].id] * Weight(accounts[j].id)
              = turns[accounts[j].id] * Weight(accounts[i].id)

\* What upstream rejected stays rejected through every refresh of the catalogs
\* (SetModelList, account.go:189-204): rejections go only all together, when the
\* operator asks for a fresh view or the catalog comes back empty.
RejectionLasts ==
    [][\A a \in Accounts : \A m \in modelDenies[a] : m \notin modelDenies'[a] =>
          /\ modelDenies'[a] = {}
          /\ modelLists'[a] # {} => modelLists' = modelLists]_vars

\* Taking the leave to exceed quotas back works at once, on a list that was built
\* while it was given (Reload, account.go:51-92, and the check repeated at every
\* pick): a selection that began without it takes no account past its quota.
OverQuotaNeedsLeave ==
    [][\A r \in Requests :
          LET allow == IF req[r].pc = "probing" THEN req[r].allow ELSE allowOverUsage
          IN  Picks(r) /\ ~allow =>
                \E i \in DOMAIN accounts : accounts[i].id = req'[r].got /\ ~accounts[i].overLimit]_vars

\* Account a would serve any request now.
Healthy(a) ==
    /\ \E i \in DOMAIN accounts : accounts[i].id = a /\ ~accounts[i].overLimit
    /\ \A m \in Models : AccountHasModel(a, m)
    /\ ~Cooling(a, now) /\ a \notin stale

\* As long as requests that could use account a keep walking the list, and it stays
\* healthy, it keeps being picked: the shared counter cannot step around it for ever,
\* however the requests interleave.  (With requests that may not use it among them
\* it can: these may take the turns that would be its own.)
NoStarvation ==
    \A a \in Accounts :
        (/\ <>[](Healthy(a) /\ \A r \in Requests : req[r].pc = "probing" => a \notin req[r].barred)
         /\ []<>(\E r \in Requests : req[r].pc = "probing"))
        => []<>(\E r \in Requests : req[r].pc = "picked" /\ req[r].got = a)
=============================================================================
