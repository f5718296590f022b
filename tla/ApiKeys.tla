------------------------------- MODULE ApiKeys -------------------------------
(***************************************************************************)
(* The gateway's client keys (config/apikeys.go) and the admin calls that  *)
(* edit them (proxy/admin_apikeys.go).                                     *)
(*                                                                         *)
(* Every mutator of config/apikeys.go holds cfgLock from end to end, so it *)
(* is one step.  PUT /api-keys/{id} is two: it copies the entry, then      *)
(* reads the request body from the network, and only then writes the whole *)
(* patched copy back.  Ids are UUIDs and are never issued twice.           *)
(*                                                                         *)
(* Token and credit quotas are handled alike, one quota stands for both.   *)
(* Names, timestamps, request counts and the model allowlist are left out. *)
(* Saving to the store is the subject of another module.                   *)
(*                                                                         *)
(* An operator named Op_Flaw is Op with a plausible mistake; the           *)
(* specification never uses it, PROJECT.json lists which property it       *)
(* breaks in place of Op.                                                  *)
(***************************************************************************)
EXTENDS Integers, FiniteSets

CONSTANTS
    KeyIds,             \* the UUIDs that may be issued
    Secrets,            \* key values a client may hold
    Admins,             \* concurrent admin requests
    TokenLimits,        \* values an operator may give tokenLimit (0 = none)
    RpmLimits,          \* ... rpmLimit
    ConcurrencyLimits,  \* ... concurrencyLimit
    RequireValues,      \* values an operator may give requireApiKey
    LegacyKeys,         \* values an operator may give the legacy single key
    EditFields,         \* the fields operators edit
    NoSecret,           \* the empty key value
    NoEntry             \* "no such key"

ASSUME LimitsAssumption ==
    TokenLimits \cup RpmLimits \cup ConcurrencyLimits \subseteq Nat
ASSUME SecretsAssumption ==
    /\ NoSecret \notin Secrets
    /\ LegacyKeys \subseteq Secrets \cup {NoSecret}
    /\ RequireValues \subseteq BOOLEAN
    /\ EditFields \subseteq {"secret", "enabled", "tokenLimit", "rpmLimit", "concurrencyLimit"}
ASSUME NoEntryAssumption == NoEntry \notin [id : KeyIds, secret : Secrets,
    enabled : BOOLEAN, tokenLimit : TokenLimits, rpmLimit : RpmLimits,
    concurrencyLimit : ConcurrencyLimits, tokensUsed : Nat]

VARIABLES
    keys,           \* cfg.ApiKeys, as a function from id to entry
    issued,         \* ids handed out so far
    requireApiKey,  \* cfg.RequireApiKey
    legacyKey,      \* cfg.ApiKey
    admin           \* the PUT request each admin has open

keyVars == <<keys, issued, requireApiKey, legacyKey, admin>>

ApiKeyEntry == [id : KeyIds, secret : Secrets, enabled : BOOLEAN,
                tokenLimit : TokenLimits, rpmLimit : RpmLimits,
                concurrencyLimit : ConcurrencyLimits, tokensUsed : Nat]

\* What a PUT may set; "absent" fields are the others.
EditableFields == {"secret", "enabled", "tokenLimit", "rpmLimit", "concurrencyLimit"}

EditValues == [secret |-> Secrets, enabled |-> BOOLEAN, tokenLimit |-> TokenLimits,
               rpmLimit |-> RpmLimits, concurrencyLimit |-> ConcurrencyLimits]

NoEdit == [open |-> FALSE]

Edit == [open : {TRUE}, field : EditableFields, patch : ApiKeyEntry]

-----------------------------------------------------------------------------

Configured == {k \in KeyIds : keys[k] # NoEntry}

HasApiKeys == Configured # {}

\* FindApiKeyByValue: the entry that holds the value, as a copy.
FindApiKeyByValue(secret) ==
    IF \E k \in Configured : keys[k].secret = secret
      THEN keys[CHOOSE k \in Configured : keys[k].secret = secret]
      ELSE NoEntry

ApiKeyOverLimit(e) == e.tokenLimit > 0 /\ e.tokensUsed >= e.tokenLimit

SecretTaken(secret, except) ==
    \E k \in Configured \ except : keys[k].secret = secret

-----------------------------------------------------------------------------

KeyInit ==
    /\ keys = [k \in KeyIds |-> NoEntry]
    /\ issued = {}
    /\ requireApiKey \in RequireValues
    /\ legacyKey \in LegacyKeys
    /\ admin = [a \in Admins |-> NoEdit]

\* POST /api-keys.  A duplicate value is refused.
AddApiKey(k, entry) ==
    /\ k \notin issued
    /\ ~SecretTaken(entry.secret, {})
    /\ keys' = [keys EXCEPT ![k] = entry]
    /\ issued' = issued \cup {k}
    /\ UNCHANGED <<requireApiKey, legacyKey, admin>>

\* PUT /api-keys/{id}, first half: copy the entry and apply the body to the copy.
OpenEdit(a, k, f, v) ==
    /\ ~admin[a].open
    /\ k \in Configured
    /\ v \in EditValues[f]
    /\ admin' = [admin EXCEPT ![a] =
                   [open |-> TRUE, field |-> f, patch |-> [keys[k] EXCEPT ![f] = v]]]
    /\ UNCHANGED <<keys, issued, requireApiKey, legacyKey>>

\* The whole copy is written back, counters included.
Patched_WholeEntry(entry, patch) == patch

\* What config.UpdateApiKey makes of an entry: the counters are not touched.
Patched(entry, patch) == [patch EXCEPT !.tokensUsed = entry.tokensUsed]

\* The value is not compared with the other keys.
UpdateApiKey_NoCollisionCheck(a) ==
    LET k == admin[a].patch.id
    IN  /\ admin[a].open
        /\ admin' = [admin EXCEPT ![a] = NoEdit]
        /\ keys' = IF k \in Configured
                     THEN [keys EXCEPT ![k] = Patched(keys[k], admin[a].patch)]
                     ELSE keys
        /\ UNCHANGED <<issued, requireApiKey, legacyKey>>

\* A key that is not found is appended.
UpdateApiKey_Upsert(a) ==
    LET patch == admin[a].patch
    IN  /\ admin[a].open
        /\ admin' = [admin EXCEPT ![a] = NoEdit]
        /\ keys' = IF ~SecretTaken(patch.secret, {patch.id})
                     THEN [keys EXCEPT ![patch.id] = patch]
                     ELSE keys
        /\ UNCHANGED <<issued, requireApiKey, legacyKey>>

\* PUT /api-keys/{id}, second half: config.UpdateApiKey, refused when the key
\* is gone or its value now belongs to another key.
UpdateApiKey(a) ==
    LET patch == admin[a].patch
        k == patch.id
    IN  /\ admin[a].open
        /\ admin' = [admin EXCEPT ![a] = NoEdit]
        /\ IF k \in Configured /\ ~SecretTaken(patch.secret, {k})
             THEN keys' = [keys EXCEPT ![k] = Patched(keys[k], patch)]
             ELSE keys' = keys
        /\ UNCHANGED <<issued, requireApiKey, legacyKey>>

DeleteApiKey(k) ==
    /\ k \in Configured
    /\ keys' = [keys EXCEPT ![k] = NoEntry]
    /\ UNCHANGED <<issued, requireApiKey, legacyKey, admin>>

ResetApiKeyUsage(k) ==
    /\ k \in Configured
    /\ keys' = [keys EXCEPT ![k].tokensUsed = 0]
    /\ UNCHANGED <<issued, requireApiKey, legacyKey, admin>>

\* RecordApiKeyUsage: bills a finished request; a deleted key is left alone.
RecordApiKeyUsage(k, tokens) ==
    /\ keys' = IF k \in Configured
                 THEN [keys EXCEPT ![k].tokensUsed = @ + tokens]
                 ELSE keys
    /\ UNCHANGED <<issued, requireApiKey, legacyKey, admin>>

\* POST /settings: UpdateSettingsPatch.
UpdateSettings(require, legacy) ==
    /\ requireApiKey' = require
    /\ legacyKey' = legacy
    /\ UNCHANGED <<keys, issued, admin>>

NewEntry(k, s, en, tl, rl, cl) ==
    [id |-> k, secret |-> s, enabled |-> en, tokenLimit |-> tl, rpmLimit |-> rl,
     concurrencyLimit |-> cl, tokensUsed |-> 0]

AdminStep ==
    \/ \E k \in KeyIds, s \in Secrets, en \in BOOLEAN, tl \in TokenLimits,
          rl \in RpmLimits, cl \in ConcurrencyLimits :
             AddApiKey(k, NewEntry(k, s, en, tl, rl, cl))
    \/ \E a \in Admins, k \in KeyIds, f \in EditFields :
          \E v \in EditValues[f] : OpenEdit(a, k, f, v)
    \/ \E a \in Admins : UpdateApiKey(a)
    \/ \E k \in KeyIds : DeleteApiKey(k) \/ ResetApiKeyUsage(k)
    \/ \E require \in RequireValues, legacy \in LegacyKeys :
          UpdateSettings(require, legacy)

-----------------------------------------------------------------------------

\* The state of the key table: an entry sits under its own id, only issued ids
\* are in use, and an open edit carries a whole entry.
KeyTypeOK ==
    /\ keys \in [KeyIds -> ApiKeyEntry \cup {NoEntry}]
    /\ \A k \in Configured : keys[k].id = k
    /\ Configured \subseteq issued
    /\ issued \subseteq KeyIds
    /\ requireApiKey \in RequireValues
    /\ legacyKey \in LegacyKeys
    /\ admin \in [Admins -> Edit \cup {NoEdit}]
    /\ \A a \in Admins : admin[a].open => admin[a].patch.id \in issued

\* No two keys share a value, whatever stale edits are written back:
\* FindApiKeyByValue would bill the first of them only (AddApiKey and
\* UpdateApiKey each check for it under the lock).
SecretsUnique ==
    \A j, k \in Configured : keys[j].secret = keys[k].secret => j = k

\* A deleted key stays deleted: an edit that was open when the key was removed
\* does not bring it back, and its id is not issued again.
DeletedStaysDeleted ==
    [][\A k \in issued : keys[k] = NoEntry => keys'[k] = NoEntry]_keyVars

\* An edit never changes what the key has been billed, even when a request was
\* billed after the edit took its copy.
EditsKeepUsage ==
    [][\A k \in Configured, a \in Admins :
          admin[a].open /\ ~admin'[a].open => keys'[k].tokensUsed = keys[k].tokensUsed]_keyVars
=============================================================================
