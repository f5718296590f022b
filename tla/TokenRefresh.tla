----------------------------- MODULE TokenRefresh -----------------------------
(***************************************************************************)
(* One account's OAuth tokens: requests that refresh them before they go   *)
(* upstream, the background refreshers that do the same without the        *)
(* requests' mutex, and the operators whose edits and reloads copy the     *)
(* record about.                                                           *)
(*                                                                         *)
(* A token is the number of the refresh that issued it.  A provider that   *)
(* rotates refresh tokens accepts each of them once; one that does not     *)
(* goes on accepting the first and answers with none.                      *)
(*                                                                         *)
(* Requests hold a POINTER into the pool's list, or to a copy of the       *)
(* record.  Reload makes a new list, so a pointer may be into a list the   *)
(* pool has left: lists and copies are slots of `list', enough of them for *)
(* every request, the pool and a new one.                                  *)
(***************************************************************************)
EXTENDS Naturals, FiniteSets

CONSTANTS
    Requests,
    Warmups,     \* background refreshers that ban the account when refused
    Admins,      \* and the operators' refresh, which does not
    Editors,     \* operators who change the account, or another one
    Edits,       \* what editors do, a subset of {"this", "other"}
    Rotates,     \* the provider rotates refresh tokens
    MaxIssued,   \* bound on the refreshes answered
    Gone, Nobody

ASSUME TokenAssumption ==
    /\ IsFiniteSet(Requests)
    /\ Edits \subseteq {"this", "other"}
    /\ Rotates \in BOOLEAN
    /\ MaxIssued \in Nat
    /\ Nobody \notin Requests

Workers == Warmups \cup Admins

Tokens == 0..MaxIssued

Keep == MaxIssued + 1  \* no refresh token in the answer

Record == [access : Tokens, refresh : Tokens \cup {Keep}, enabled : BOOLEAN]

ASSUME GoneAssumption == Gone \notin Record

Slots == 0..Cardinality(Requests) + 1

VARIABLES
    conf,      \* the account's record in the configuration
    list,      \* its entry in each of the pool's lists, Gone if not listed
    pool,      \* the slot of the current list
    mutex,     \* Handler.tokenRefreshMu
    req,       \* requests: step, slot pointed into, token sent, answer
    work,      \* refreshers: step, copy, token sent, answer
    edit,      \* editors: step and copy
    issued,    \* the last refresh answered
    expired,   \* access tokens up to this one are about to expire
    revoked    \* the provider accepts nothing any more

vars == <<conf, list, pool, mutex, req, work, edit, issued, expired, revoked>>

Fresh == [access |-> 0, refresh |-> 0, enabled |-> TRUE]

NoAnswer  == [access |-> 0, refresh |-> Keep]
NoRequest == [pc |-> "idle", slot |-> 0, sent |-> 0, got |-> NoAnswer]
NoWork    == [pc |-> "idle", copy |-> Fresh, sent |-> 0, got |-> NoAnswer]
NoEdit    == [pc |-> "idle", copy |-> Fresh, what |-> "other"]

Expiring(acc) == acc.access <= expired

\* What the provider makes of a refresh token.
Accepts(token) == ~revoked /\ token = (IF Rotates THEN issued ELSE 0)

Answer == [access |-> issued + 1, refresh |-> IF Rotates THEN issued + 1 ELSE Keep]

-----------------------------------------------------------------------------
(* The record and the pool's lists. *)

\* The answer's empty refresh token is stored too.
UpdateToken_Verbatim(acc, got) ==
    [acc EXCEPT !.access = got.access, !.refresh = got.refresh]

\* config.UpdateAccountToken and pool.UpdateToken on one record.
UpdateToken(acc, got) ==
    [acc EXCEPT !.access = got.access,
                !.refresh = IF got.refresh = Keep THEN @ ELSE got.refresh]

\* pool.UpdateToken: the current list only, and nothing if it is not listed.
PoolUpdateToken(got) ==
    [list EXCEPT ![pool] = IF @ = Gone THEN @ ELSE UpdateToken(@, got)]

Pointed == {req[r].slot : r \in {q \in Requests : req[q].pc # "idle"}}

FreeSlot == CHOOSE n \in Slots : n # pool /\ n \notin Pointed

\* A new list, made from the configuration.
Reload ==
    LET s == FreeSlot
    IN  /\ pool' = s
        /\ list' = [n \in Slots |->
                      CASE n = s -> IF conf.enabled THEN conf ELSE Gone
                        [] n # s /\ n \in Pointed -> list[n]
                        [] OTHER -> Gone]

-----------------------------------------------------------------------------
(* Requests: ensureValidToken. *)

Pick(r) ==
    /\ req[r].pc = "idle" /\ list[pool] # Gone
    /\ req' = [req EXCEPT ![r] = [NoRequest EXCEPT !.pc = "check", !.slot = pool]]
    /\ UNCHANGED <<conf, list, pool, mutex, work, edit, issued, expired, revoked>>

\* The models cache refreshes tokens on a copy of the record.
PickCopy(r) ==
    /\ req[r].pc = "idle" /\ conf.enabled
    /\ list' = [list EXCEPT ![FreeSlot] = conf]
    /\ req' = [req EXCEPT ![r] = [NoRequest EXCEPT !.pc = "check", !.slot = FreeSlot]]
    /\ UNCHANGED <<conf, pool, mutex, work, edit, issued, expired, revoked>>

Check(r) ==
    /\ req[r].pc = "check"
    /\ req' = [req EXCEPT ![r].pc = IF Expiring(list[req[r].slot]) THEN "wait" ELSE "serving"]
    /\ UNCHANGED <<conf, list, pool, mutex, work, edit, issued, expired, revoked>>

\* The wait is over, and nothing is read again.
Lock_NoRecheck(r) ==
    /\ req[r].pc = "wait" /\ mutex = Nobody
    /\ mutex' = r
    /\ req' = [req EXCEPT ![r].pc = "asking", ![r].sent = list[req[r].slot].refresh]
    /\ UNCHANGED <<conf, list, pool, work, edit, issued, expired, revoked>>

\* The pool's entry is read again: another request may have refreshed it.
Lock(r) ==
    LET acc == IF list[pool] = Gone THEN list[req[r].slot]
               ELSE [list[req[r].slot] EXCEPT !.access = list[pool].access,
                                              !.refresh = list[pool].refresh]
        done == list[pool] # Gone /\ ~Expiring(acc)
    IN  /\ req[r].pc = "wait" /\ mutex = Nobody
        /\ list' = [list EXCEPT ![req[r].slot] = acc]
        /\ mutex' = IF done THEN Nobody ELSE r
        /\ req' = [req EXCEPT ![r].pc = IF done THEN "serving" ELSE "asking",
                              ![r].sent = IF done THEN 0 ELSE acc.refresh]
        /\ UNCHANGED <<conf, pool, work, edit, issued, expired, revoked>>

Granted(r) ==
    /\ req[r].pc = "asking" /\ Accepts(req[r].sent) /\ issued < MaxIssued
    /\ issued' = issued + 1
    /\ req' = [req EXCEPT ![r].pc = "memory", ![r].got = Answer]
    /\ UNCHANGED <<conf, list, pool, mutex, work, edit, expired, revoked>>

\* The error path leaves without unlocking.
Refused_KeepsMutex(r) ==
    /\ req[r].pc = "asking" /\ ~Accepts(req[r].sent)
    /\ req' = [req EXCEPT ![r].pc = "refused"]
    /\ UNCHANGED <<conf, list, pool, mutex, work, edit, issued, expired, revoked>>

Refused(r) ==
    /\ req[r].pc = "asking" /\ ~Accepts(req[r].sent)
    /\ mutex' = Nobody
    /\ req' = [req EXCEPT ![r].pc = "refused"]
    /\ UNCHANGED <<conf, list, pool, work, edit, issued, expired, revoked>>

\* No answer from the provider: an ordinary failure, another account is tried.
Unanswered(r) ==
    /\ req[r].pc = "asking"
    /\ mutex' = Nobody
    /\ req' = [req EXCEPT ![r] = NoRequest]
    /\ UNCHANGED <<conf, list, pool, work, edit, issued, expired, revoked>>

\* The pool first, and the account pointed to ...
StoreInPool(r) ==
    /\ req[r].pc = "memory"
    /\ list' = [PoolUpdateToken(req[r].got) EXCEPT
                  ![req[r].slot] = UpdateToken(list[req[r].slot], req[r].got)]
    /\ req' = [req EXCEPT ![r].pc = "persist"]
    /\ UNCHANGED <<conf, pool, mutex, work, edit, issued, expired, revoked>>

\* Only memory is brought up to date.
StoreInConfig_Skipped(r) ==
    /\ req[r].pc = "persist"
    /\ mutex' = Nobody
    /\ req' = [req EXCEPT ![r].pc = "serving"]
    /\ UNCHANGED <<conf, list, pool, work, edit, issued, expired, revoked>>

\* ... then the configuration.
StoreInConfig(r) ==
    /\ req[r].pc = "persist"
    /\ conf' = UpdateToken(conf, req[r].got)
    /\ mutex' = Nobody
    /\ req' = [req EXCEPT ![r] = [NoRequest EXCEPT !.pc = "serving", !.slot = req[r].slot]]
    /\ UNCHANGED <<list, pool, work, edit, issued, expired, revoked>>

Serve(r) ==
    /\ req[r].pc = "serving"
    /\ req' = [req EXCEPT ![r] = NoRequest]
    /\ UNCHANGED <<conf, list, pool, mutex, work, edit, issued, expired, revoked>>

\* disableAccount: the whole record, from the entry pointed to ...
Ban(r) ==
    /\ req[r].pc = "refused"
    /\ conf' = [list[req[r].slot] EXCEPT !.enabled = FALSE]
    /\ req' = [req EXCEPT ![r].pc = "reload"]
    /\ UNCHANGED <<list, pool, mutex, work, edit, issued, expired, revoked>>

\* ... and the pool is rebuilt.
BanReload(r) ==
    /\ req[r].pc = "reload"
    /\ Reload
    /\ req' = [req EXCEPT ![r] = NoRequest]
    /\ UNCHANGED <<conf, mutex, work, edit, issued, expired, revoked>>

-----------------------------------------------------------------------------
(* Warmup and apiRefreshAccount: the same refresh, from a copy of the       *)
(* configuration's record and without the mutex.                            *)

\* Warmup goes on only with an expiring token; an operator may force it.
StartWork(w) ==
    /\ work[w].pc = "idle"
    /\ w \in Warmups => Expiring(conf) /\ conf.enabled
    /\ work' = [work EXCEPT ![w] = [NoWork EXCEPT !.pc = "asking", !.copy = conf,
                                                  !.sent = conf.refresh]]
    /\ UNCHANGED <<conf, list, pool, mutex, req, edit, issued, expired, revoked>>

WorkGranted(w) ==
    /\ work[w].pc = "asking" /\ Accepts(work[w].sent) /\ issued < MaxIssued
    /\ issued' = issued + 1
    /\ work' = [work EXCEPT ![w].pc = "persist", ![w].got = Answer]
    /\ UNCHANGED <<conf, list, pool, mutex, req, edit, expired, revoked>>

\* Only warmup gives the failure to failover.
WorkRefused(w) ==
    /\ work[w].pc = "asking" /\ ~Accepts(work[w].sent)
    /\ work' = [work EXCEPT ![w] = IF w \in Warmups THEN [@ EXCEPT !.pc = "refused"] ELSE NoWork]
    /\ UNCHANGED <<conf, list, pool, mutex, req, edit, issued, expired, revoked>>

WorkUnanswered(w) ==
    /\ work[w].pc = "asking"
    /\ work' = [work EXCEPT ![w] = NoWork]
    /\ UNCHANGED <<conf, list, pool, mutex, req, edit, issued, expired, revoked>>

\* The configuration first ...
WorkStoreInConfig(w) ==
    /\ work[w].pc = "persist"
    /\ conf' = UpdateToken(conf, work[w].got)
    /\ work' = [work EXCEPT ![w].pc = "memory"]
    /\ UNCHANGED <<list, pool, mutex, req, edit, issued, expired, revoked>>

\* ... then the pool.
WorkStoreInPool(w) ==
    /\ work[w].pc = "memory"
    /\ list' = PoolUpdateToken(work[w].got)
    /\ work' = [work EXCEPT ![w] = IF w \in Warmups THEN [@ EXCEPT !.pc = "reload"] ELSE NoWork]
    /\ UNCHANGED <<conf, pool, mutex, req, edit, issued, expired, revoked>>

WorkBan(w) ==
    /\ work[w].pc = "refused"
    /\ conf' = [work[w].copy EXCEPT !.enabled = FALSE]
    /\ work' = [work EXCEPT ![w].pc = "reload"]
    /\ UNCHANGED <<list, pool, mutex, req, edit, issued, expired, revoked>>

\* disableAccount's reload, or the one that ends a warmup run.
WorkReload(w) ==
    /\ work[w].pc = "reload"
    /\ Reload
    /\ work' = [work EXCEPT ![w] = NoWork]
    /\ UNCHANGED <<conf, mutex, req, edit, issued, expired, revoked>>

-----------------------------------------------------------------------------
(* Operators' edits: read the record, write it back changed, reload. *)

EditRead(e, what) ==
    /\ edit[e].pc = "idle"
    /\ edit' = [edit EXCEPT ![e] = [pc |-> "write", copy |-> conf, what |-> what]]
    /\ UNCHANGED <<conf, list, pool, mutex, req, work, issued, expired, revoked>>

\* A field that is not modelled changes, of this account or of another.
EditWrite(e) ==
    /\ edit[e].pc = "write"
    /\ conf' = IF edit[e].what = "this" THEN edit[e].copy ELSE conf
    /\ edit' = [edit EXCEPT ![e].pc = "reload"]
    /\ UNCHANGED <<list, pool, mutex, req, work, issued, expired, revoked>>

EditReload(e) ==
    /\ edit[e].pc = "reload"
    /\ Reload
    /\ edit' = [edit EXCEPT ![e] = NoEdit]
    /\ UNCHANGED <<conf, mutex, req, work, issued, expired, revoked>>

-----------------------------------------------------------------------------

Expire ==
    /\ expired < issued
    /\ expired' = expired + 1
    /\ UNCHANGED <<conf, list, pool, mutex, req, work, edit, issued, revoked>>

Revoke ==
    /\ ~revoked
    /\ revoked' = TRUE
    /\ UNCHANGED <<conf, list, pool, mutex, req, work, edit, issued, expired>>

Init ==
    /\ conf = Fresh
    /\ pool = 0
    /\ list = [n \in Slots |-> IF n = pool THEN conf ELSE Gone]
    /\ mutex = Nobody
    /\ req = [r \in Requests |-> NoRequest]
    /\ work = [w \in Workers |-> NoWork]
    /\ edit = [e \in Editors |-> NoEdit]
    /\ issued = 0
    /\ expired = 0  \* the first token is about to expire
    /\ revoked = FALSE

\* What a request does once it has the mutex, and what it does without it.
Holding(r) ==
    Granted(r) \/ Refused(r) \/ Unanswered(r) \/ StoreInPool(r) \/ StoreInConfig(r)

RequestStep(r) ==
    \/ Pick(r) \/ PickCopy(r) \/ Check(r) \/ Lock(r) \/ Holding(r)
    \/ Serve(r) \/ Ban(r) \/ BanReload(r)

WorkStep(w) ==
    \/ StartWork(w)
    \/ WorkGranted(w) \/ WorkRefused(w) \/ WorkUnanswered(w)
    \/ WorkStoreInConfig(w) \/ WorkStoreInPool(w) \/ WorkBan(w) \/ WorkReload(w)

EditStep(e) == (\E what \in Edits : EditRead(e, what)) \/ EditWrite(e) \/ EditReload(e)

Next ==
    \/ \E r \in Requests : RequestStep(r)
    \/ \E w \in Workers : WorkStep(w)
    \/ \E e \in Editors : EditStep(e)
    \/ Expire
    \/ Revoke

Spec == Init /\ [][Next]_vars

\* A request that has the mutex goes on: its call to the provider has a timeout.
\* One that waits for it gets it in the end, as sync.Mutex is fair to waiters.
FairSpec ==
    /\ Spec
    /\ \A r \in Requests : WF_vars(Check(r)) /\ SF_vars(Lock(r)) /\ WF_vars(Holding(r))

-----------------------------------------------------------------------------
(* Properties. *)

\* The state has the shape the code gives it, whoever is in the section that the
\* mutex guards has it, and requests point to records.
TypeOK ==
    /\ conf \in Record
    /\ list \in [Slots -> Record \cup {Gone}] /\ pool \in Slots
    /\ mutex \in Requests \cup {Nobody}
    /\ req \in [Requests ->
                [pc : {"idle", "check", "wait", "asking", "memory", "persist", "refused",
                       "reload", "serving"},
                 slot : Slots, sent : Tokens \cup {Keep},
                 got : [access : Tokens, refresh : Tokens \cup {Keep}]]]
    /\ work \in [Workers ->
                 [pc : {"idle", "asking", "persist", "memory", "refused", "reload"},
                  copy : Record, sent : Tokens \cup {Keep},
                  got : [access : Tokens, refresh : Tokens \cup {Keep}]]]
    /\ edit \in [Editors -> [pc : {"idle", "write", "reload"}, copy : Record,
                              what : {"this", "other"}]]
    /\ issued \in Tokens /\ expired \in 0..issued /\ revoked \in BOOLEAN
    /\ \A r \in Requests : req[r].pc \in {"asking", "memory", "persist"} => mutex = r
    /\ \A r \in Requests : req[r].pc # "idle" => list[req[r].slot] # Gone

\* No request sends a refresh token that has been spent: one that waited for the
\* mutex sees what was done meanwhile (handler.go:3069-3078).  It need not when another
\* party reloads the pool between the two stores (handler.go:3086, 3098).
SendsCurrentToken ==
    \A r \in Requests : req[r].pc = "asking" => revoked \/ Accepts(req[r].sent)

\* The gateway disables the account for an authentication failure only if the
\* provider refuses the credentials on record (account_failover.go:30-32, 229-230),
\* whatever stale copies the refreshers and requests hold.  Where refresh tokens
\* rotate, warmup may do so when it meets a request: run token_warmup.
BannedOnlyIfRefused ==
    [][conf.enabled /\ ~conf'.enabled => ~Accepts(conf.refresh)]_vars

Refreshing ==
    \/ mutex # Nobody
    \/ \E w \in Workers : work[w].pc \in {"asking", "persist", "memory"}

\* With no refresh under way the credentials on record are good: a restart, which
\* keeps the record and nothing else, loses no account.
RecordIsCurrent == Refreshing \/ revoked \/ Accepts(conf.refresh)

\* Every request that waits for the mutex gets past it, however the refreshes
\* before its own end.
WaitersGetThrough ==
    \A r \in Requests : req[r].pc = "wait" ~> req[r].pc \in {"serving", "refused", "idle"}
=============================================================================
