---------------------------- MODULE KeyAdmission ----------------------------
(***************************************************************************)
(* How a client request is admitted, billed and let go: authenticate and   *)
(* admit (proxy/auth.go) over the key table of ApiKeys and the limiter of  *)
(* KeyLimiter, while operators edit the keys.                              *)
(*                                                                         *)
(* authenticate takes cfgLock afresh for every question it asks, so each   *)
(* of its reads is a step and the configuration may change between them.   *)
(* What it returns is a COPY of the entry: the limiter later works with    *)
(* the limits of that copy.                                                *)
(***************************************************************************)
EXTENDS ApiKeys, KeyLimiter

CONSTANTS
    Requests,  \* the requests that may be under way at once
    Costs,     \* tokens a finished request may be billed
    MaxCost,   \* the largest of them
    MaxTime,   \* bound on the clock
    MaxUsed    \* bound on a key's counter

ASSUME RequestsAssumption ==
    /\ IsFiniteSet(Requests)
    /\ MaxCost \in Nat
    /\ Costs \subseteq 0..MaxCost
    /\ MaxTime \in Nat
    /\ MaxUsed \in Nat
    /\ LimitedIds = KeyIds

VARIABLES
    req,        \* where each request is and what it has read
    \* history, for the properties only:
    seen,       \* the grounds for letting the request in that held at some time since it arrived
    admitLog    \* per key, when requests with an rpm limit were let in

vars == <<keyVars, limiterVars, now, req, seen, admitLog>>

Steps == {"hasKeys", "find", "legacy", "recheck", "acquire", "running", "billed"}

\* `limited': the request carries Release as its release func.
\* `slot' is history: Acquire counted this very request.
Idle == [pc |-> "idle", provided |-> NoSecret, required |-> FALSE,
         entry |-> NoEntry, limited |-> FALSE, slot |-> FALSE]

Request == [pc : Steps \cup {"idle"}, provided : Secrets \cup {NoSecret},
            required : BOOLEAN, entry : ApiKeyEntry \cup {NoEntry},
            limited : BOOLEAN, slot : BOOLEAN]

Init ==
    /\ KeyInit
    /\ LimiterInit
    /\ now = 0
    /\ req = [r \in Requests |-> Idle]
    /\ seen = [r \in Requests |-> {}]
    /\ admitLog = [k \in KeyIds |-> <<>>]

-----------------------------------------------------------------------------
\* The grounds for letting a request in, as authenticate's comment gives them: the
\* switch is off, or the request brings a usable key, or, with no keys configured,
\* the legacy key.  The last has two halves, which are read one after the other.
Grounds == {"entitled", "noKeys", "legacyKey"}

BringsLegacyKey(r) == legacyKey # NoSecret /\ legacyKey = req[r].provided

Entitled(r) ==
    \/ ~requireApiKey
    \/ \E k \in Configured : /\ keys[k].secret = req[r].provided
                             /\ keys[k].enabled /\ ~ApiKeyOverLimit(keys[k])
    \/ ~HasApiKeys /\ BringsLegacyKey(r)

Holding(r) ==
    IF Entitled(r) THEN {"entitled"}
                   ELSE {g \in {"noKeys"} : ~HasApiKeys} \cup {g \in {"legacyKey"} : BringsLegacyKey(r)}

\* Once a request has been entitled, the halves do not matter.
Settled(grounds) == IF "entitled" \in grounds THEN {"entitled"} ELSE grounds

Remember == seen' = [r \in Requests |->
                IF req'[r].pc = "idle" THEN {} ELSE Settled(seen[r] \cup Holding(r)')]

-----------------------------------------------------------------------------
(* The reads of authenticate. *)

Goto(r, pc) == req' = [req EXCEPT ![r].pc = pc]

Reject(r) == req' = [req EXCEPT ![r] = Idle]

\* required := config.IsApiKeyRequired()
Arrive(r, secret) ==
    /\ req[r].pc = "idle"
    /\ req' = [req EXCEPT ![r] =
                 [Idle EXCEPT !.pc = "hasKeys", !.provided = secret, !.required = requireApiKey]]
    /\ UNCHANGED <<keyVars, limiterVars, now, admitLog>> /\ Remember

\* config.HasApiKeys(), and what follows from it without another read.  With
\* the switch off a request that brings no key, or finds none configured, runs
\* anonymously.
ReadHasApiKeys(r) ==
    /\ req[r].pc = "hasKeys"
    /\ CASE ~req[r].required /\ (req[r].provided = NoSecret \/ ~HasApiKeys) -> Goto(r, "running")
         [] req[r].required /\ ~HasApiKeys -> Goto(r, "legacy")
         [] req[r].required /\ HasApiKeys /\ req[r].provided = NoSecret -> Reject(r)
         [] OTHER -> Goto(r, "find")
    /\ UNCHANGED <<keyVars, limiterVars, now, admitLog>> /\ Remember

\* The quota is not looked at.
Admissible_NoQuota(e, required) == e # NoEntry /\ e.enabled

\* config.FindApiKeyByValue(provided) and the checks on the copy: an unusable
\* key is an error with the switch on, and anonymous access with it off.
Admissible(e, required) ==
    e # NoEntry /\ e.enabled /\ (required => ~ApiKeyOverLimit(e))

FindEntry(r) ==
    LET e == FindApiKeyByValue(req[r].provided)
    IN  /\ req[r].pc = "find"
        /\ CASE Admissible(e, req[r].required) ->
                  req' = [req EXCEPT ![r].pc = "recheck", ![r].entry = e]
             [] ~Admissible(e, req[r].required) /\ req[r].required -> Reject(r)
             [] OTHER -> Goto(r, "running")
        /\ UNCHANGED <<keyVars, limiterVars, now, admitLog>> /\ Remember

\* With nothing configured the switch leaves the gateway open.
MatchLegacyKey_FailOpen(r) ==
    /\ req[r].pc = "legacy"
    /\ IF legacyKey = NoSecret \/ req[r].provided = legacyKey
         THEN Goto(r, "running")
         ELSE Reject(r)
    /\ UNCHANGED <<keyVars, limiterVars, now, admitLog>> /\ Remember

\* The legacy single key; with none set the switch closes the gateway.
MatchLegacyKey(r) ==
    /\ req[r].pc = "legacy"
    /\ IF legacyKey # NoSecret /\ req[r].provided = legacyKey
         THEN Goto(r, "running")
         ELSE Reject(r)
    /\ UNCHANGED <<keyVars, limiterVars, now, admitLog>> /\ Remember

-----------------------------------------------------------------------------
(* admit: the second read of the switch, and the limiter. *)

RecheckRequired(r) ==
    /\ req[r].pc = "recheck"
    /\ Goto(r, IF requireApiKey THEN "acquire" ELSE "running")
    /\ UNCHANGED <<keyVars, limiterVars, now, admitLog>> /\ Remember

AcquireGranted(r) ==
    LET e == req[r].entry
    IN  /\ req[r].pc = "acquire"
        /\ Grant(e)
        /\ req' = [req EXCEPT ![r].pc = "running", ![r].limited = TRUE,
                              ![r].slot = CountsInflight(e)]
        /\ admitLog' = IF e.rpmLimit > 0
                          THEN [admitLog EXCEPT ![e.id] = Append(@, now)]
                          ELSE admitLog
        /\ UNCHANGED <<keyVars, now>> /\ Remember

AcquireRefused(r) ==
    /\ req[r].pc = "acquire"
    /\ Refuse(req[r].entry)
    /\ Reject(r)
    /\ UNCHANGED <<keyVars, now, admitLog>> /\ Remember

-----------------------------------------------------------------------------
(* The handler runs, bills a success to the key, and releases on return. *)

\* recordSuccessForApiKey.  A request that failed is not billed.
Bill(r, cost) ==
    LET k == req[r].entry.id
    IN  /\ req[r].pc = "running" /\ req[r].entry # NoEntry
        /\ k \in Configured => keys[k].tokensUsed + cost <= MaxUsed
        /\ RecordApiKeyUsage(k, cost)
        /\ Goto(r, "billed")
        /\ UNCHANGED <<limiterVars, now, admitLog>> /\ Remember

\* Every request that names a key releases, the unlimited ones too.
Finish_AlwaysReleases(r) ==
    /\ req[r].pc \in {"running", "billed"}
    /\ IF req[r].entry # NoEntry THEN Release(req[r].entry.id) ELSE UNCHANGED limiterVars
    /\ req' = [req EXCEPT ![r] = Idle]
    /\ UNCHANGED <<keyVars, now, admitLog>> /\ Remember

\* The release looks the key up and finds none when it was deleted meanwhile.
Finish_NeedsKey(r) ==
    /\ req[r].pc \in {"running", "billed"}
    /\ IF req[r].limited /\ req[r].entry.id \in Configured
         THEN Release(req[r].entry.id)
         ELSE UNCHANGED limiterVars
    /\ req' = [req EXCEPT ![r] = Idle]
    /\ UNCHANGED <<keyVars, now, admitLog>> /\ Remember

\* The deferred release.
Finish(r) ==
    /\ req[r].pc \in {"running", "billed"}
    /\ IF req[r].limited THEN Release(req[r].entry.id) ELSE UNCHANGED limiterVars
    /\ req' = [req EXCEPT ![r] = Idle]
    /\ UNCHANGED <<keyVars, now, admitLog>> /\ Remember

Progress(r) ==
    \/ ReadHasApiKeys(r) \/ FindEntry(r) \/ MatchLegacyKey(r) \/ RecheckRequired(r)
    \/ AcquireGranted(r) \/ AcquireRefused(r)
    \/ (\E cost \in Costs : Bill(r, cost))
    \/ Finish(r)

Tick ==
    /\ now < MaxTime
    /\ now' = now + 1
    /\ UNCHANGED <<keyVars, limiterVars, req, admitLog>> /\ Remember

Operate == AdminStep /\ UNCHANGED <<limiterVars, now, req, admitLog>> /\ Remember

Next ==
    \/ \E r \in Requests, secret \in Secrets \cup {NoSecret} : Arrive(r, secret)
    \/ \E r \in Requests : Progress(r)
    \/ Operate
    \/ Tick

\* Every request that was admitted returns; nothing is assumed of clients,
\* operators or the clock.
Fairness == \A r \in Requests : WF_vars(Progress(r))

Spec == Init /\ [][Next]_vars

FairSpec == Spec /\ Fairness

-----------------------------------------------------------------------------

TypeOK ==
    /\ KeyTypeOK
    /\ LimiterTypeOK
    /\ now \in 0..MaxTime
    /\ req \in [Requests -> Request]
    /\ seen \in [Requests -> SUBSET Grounds]
    /\ admitLog \in [KeyIds -> Seq(Nat)]

Holders(k) == {r \in Requests : req[r].slot /\ req[r].entry.id = k}

\* The limiter's counter for a key is the number of requests it counted and
\* that have not returned, across edits of the limits, deletion of the key and
\* requests rejected half way: no slot leaks and none is given back twice.  It
\* holds where every concurrencyLimit is above 0: a request let in under an rpm
\* limit alone is not counted, and its Release frees a slot (ratelimit.go:62) that
\* another holds once the key has been given a concurrencyLimit.
InflightExact == \A k \in KeyIds : inflight[k] = Cardinality(Holders(k))

\* README "API keys and quotas", concurrencyLimit: "Maximum requests in
\* flight".  A request is let in only if, itself included, the requests the
\* limiter let in and has not seen return are within the limit it was given.
InFlight(k) == {r \in Requests : req[r].limited /\ req[r].entry.id = k}
Entering(r) == ~req[r].limited /\ req'[r].limited
ConcurrencyRespected ==
    [][\A r \in Requests : Entering(r) /\ CountsInflight(req'[r].entry) =>
          Cardinality(InFlight(req[r].entry.id)') <= req'[r].entry.concurrencyLimit]_vars

\* README, rpmLimit: "Requests per rolling minute".  Counting every request
\* let in under an rpm limit, none enters as more than the rpmLimit-th of its minute.
LastMinute(log) == {i \in DOMAIN log : log[i] > now - Window}
RpmRespected ==
    [][\A r \in Requests : Entering(r) /\ req'[r].entry.rpmLimit > 0 =>
          Cardinality(LastMinute(admitLog[req[r].entry.id])') <= req'[r].entry.rpmLimit]_vars

\* A refused request is not charged: the window of a key never holds more
\* than what was let in.
RefusalsNotCharged ==
    \A k \in KeyIds : Len(Recent(windows[k])) <= Cardinality(LastMinute(admitLog[k]))

Admitted == {r \in Requests : req[r].pc \in {"running", "billed"}}

\* authenticate reads the switch, the table and the entry one by one; still, a
\* request runs only if at one moment since it arrived it was entitled to, or, for
\* the legacy key alone, which auth.go:89 reads after it found no keys configured,
\* if there was a moment without keys and one at which the legacy key was its own:
\* no other mix of reads from before and after an edit opens the gateway.
Enough(grounds) == "entitled" \in grounds \/ {"noKeys", "legacyKey"} \subseteq grounds
AdmissionJustified == \A r \in Admitted : Enough(seen[r])

\* auth.go:48-49: "If ApiKeys is non-empty, the provided key MUST match an enabled,
\* in-quota entry."  A request that runs was entitled to at one moment.  The code
\* does not keep this: HasApiKeys (auth.go:69) and GetApiKey (auth.go:89) are two
\* reads, and a key may be added and then the legacy key set in between.
EntitledAtOnce == \A r \in Admitted : "entitled" \in seen[r]

\* The quota is checked on entry and charged on success, so it can be
\* exceeded, but only by what the requests under way at that time cost: once a
\* key is over its quota, those still running are the last.
Spending(k) == {r \in Requests : /\ req[r].pc \in {"recheck", "acquire", "running"}
                                 /\ req[r].entry # NoEntry /\ req[r].entry.id = k}
QuotaOvershootBounded ==
    \A k \in Configured : ApiKeyOverLimit(keys[k]) =>
        keys[k].tokensUsed + MaxCost * Cardinality(Spending(k))
           < keys[k].tokenLimit + MaxCost * Cardinality(Requests)

\* The limiter forgets a deleted key: requests let in under it all return,
\* and none can be let in again for good.
DeletedKeyDrains ==
    \A k \in KeyIds : (k \in issued /\ keys[k] = NoEntry) ~> [](inflight[k] = 0)
=============================================================================
