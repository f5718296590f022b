# Hekato-Go: models, checks and proofs

Hekato-Go is a gateway, written in Go, between clients that speak the Claude, OpenAI or
Responses protocol and a pool of upstream accounts (Kiro, Codex, CodeBuddy, Grok, ...). A
client authenticates with a key, the gateway picks an account that may serve the model,
refreshes the account's token if need be, sends the request, translates the answer, and when
the account fails tries another one. Operators edit keys, accounts and settings while
requests run; background workers refresh tokens, catalogues and usage and keep accounts warm.

These modules model the parts in which several actors change the same state. Every
definition is translated from the source; the map in `PROJECT.json` names the lines. Paths
below are relative to `src/`.

## 1. The system

| Component | State | Operations | Interacts with | What is hard |
|---|---|---|---|---|
| **Client API keys** `config/apikeys.go`, `proxy/admin_apikeys.go` | table of keys with limits and usage counters, the switch *require key*, the legacy single key | find by value, add, patch (copy, read body, write back), delete, reset, bill | admission, store | patches are two steps with the network between; first match wins, so values must differ |
| **Per-key limiter** `proxy/ratelimit.go` | per key: times of the last minute's requests, number in flight | `Acquire`, `Release` | admission | limits come from a copy of the entry that may be stale |
| **Request admission** `proxy/auth.go` | none of its own; a request's copy of its key | `authenticate`, `admit`, billing, release | keys, limiter, handlers | four reads under four locks; quota checked at the start and charged at the end |
| **Account pool** `pool/account.go` | weighted list, shared round-robin counter, cooldowns, error counts, catalogues, rejections, allowlists | select, pinned select, record success or error, set cooldown, deny model, `Reload` | failover, lifecycle, catalogue | selections walk the list together; outcomes arrive in any order; the list is a snapshot |
| **Account lifecycle** `config/config.go`, `proxy/account_failover.go`, `proxy/warmup.go`, admin handlers in `proxy/handler.go`, `providers/kiro/rest.go` | Enabled flag, ban marker and reason of each account; the pool's copy; the warmup run | ban, operator on/off/edit/delete/refresh, usage check, warmup with auto-recover, reload | pool, store, upstreams | every writer replaces the whole record by a copy it read earlier |
| **Account slots** `proxy/upstream.go` | one buffered channel per account | pick with a look at free slots, acquire (waits two minutes), release | failover, operators | the channel is replaced when the limit changes |
| **Token refresh** `proxy/handler.go:3050-3104`, `proxy/warmup.go`, `pool/account.go`, `config/config.go` | tokens in the configuration and in the pool's lists, one mutex | `ensureValidToken`, warmup's and operators' refresh, edits | pool, lifecycle, `auth/*` | two stores, one mutex that not every refresher takes, tokens that can be spent once |
| **Request failover** `proxy/handler.go`, `proxy/account_failover.go` | attempts and excluded accounts of one request | pick, send, classify the error, exclude, retry (three attempts, none after output) | all of the above | no retry once the client has seen output |
| **Conversation affinity** `proxy/affinity.go` | conversation to account and model, with a time | get, set, prune | failover, router | two locks for one update; five-minute expiry; only expired pins are pruned |
| **Auto router** `proxy/autoroute*.go` | quarantined and slow models, pins | choose, reroute, punish | failover, affinity | time-limited punishments; rerouting forgets exclusions |
| **Admin sessions** `proxy/admin_session.go` | sessions bound to the password's fingerprint, login throttle | login, validate, revoke, change password | console | password changes while sessions are used |
| **Telemetry**: request log, metrics, model health `proxy/handler.go`, `config/*` | ring, queue of 1024, dirty flags | append, flush in batches, drain at shutdown | store | bounded queue, failing stores, shutdown with requests running |
| **Configuration store** `config/store_*.go`, `config/config.go` | file or SQL database, memory copy | load, save, import, migrate | everything | crash in a save, a save that fails after memory was changed |
| **Responses store** `proxy/responses*.go` | stored responses and their predecessors, with expiry | put, get, delete, prune | handlers | chains whose middle has expired |
| **OAuth logins** `auth/kiro_sso.go`, `auth/*` | login sessions, one local listener | start, callback, poll, cancel, expire | console, store | callbacks, cancellations and time-outs race |
| **Prompt cache tracker** `proxy/cache_tracker.go` | fingerprints with time | look up, insert, prune | usage figures | an estimate only |
| **Stream translation** `proxy/translator.go`, `proxy/handler.go` | per-stream block machine | open, delta, close, finish | upstream streams, clients | order of block events, errors in mid-stream |
| **Console** `dashboard/src` | per tab: token, cached queries, requests under way, state of components | pages for keys, accounts, settings, monitoring; a key holder's usage page; the documentation | admin API, browser storage and history | answers come late, out of order or not as hoped; several tabs and operators; every handler keeps the cache true by hand |
| **Provider adapters, token endpoints, catalogue, egress, relay, logger, main** | clients, caches | calls to third parties, conversion of payloads | failover | almost all of it data |

What makes each correct, in a sentence (section 5 says where the code falls short of it): *keys* keep their identity, usage and uniqueness;
the *limiter* counts exactly and admits within the limits; *admission* never lets in who was
entitled at no time; the *pool* shares the load by weight, rests failing accounts, and
starves none; the *lifecycle* never leaves the pool and the records at odds, resurrects
nothing, and brings back what it may; *slots* are neither lost nor freed twice; *refresh*
spends a token once and disables no account whose credentials are good; *sessions* outlive
neither logout nor password; *logins* give back the one port they share; the *console* shows what
there is once nothing is under way, does what it was confirmed to do, and never locks up. For
those not modelled: *failover* ends within three attempts and never repeats output; *affinity* and
*router* only ever narrow the choice; *telemetry* loses no more than it admits; the *store* always
holds one whole version; *streams* are well bracketed.

The hazards this list gives rise to, at their lines, are in `PROJECT.json` under `hazards`.

## 2. Modules

There are seven groups. They are separate specifications because the code couples them
only through whole values handed over: admission hands a copy of an entry to the limiter,
the lifecycle hands a fresh list to the pool, failover reports an outcome, the console sends a
request and takes an answer.

### Keys: `ApiKeys`, `KeyLimiter`, `KeyAdmission`

`ApiKeys` is the table. Each function of `config/apikeys.go` holds `cfgLock` throughout and is
one action. `PUT /api-keys/{id}` copies the entry, reads the body from the network and writes
the whole copy back: two actions, `OpenEdit` and `UpdateApiKey`, with anything between them.
`KeyLimiter` is `Acquire` (`Grant`, `Refuse`) and `Release` on the windows and the counters,
with the limits of the copy the caller brings. `KeyAdmission` extends both: a request walks
through the reads of `authenticate` (`Arrive`, `ReadHasApiKeys`, `FindEntry`,
`MatchLegacyKey`), the second read of the switch in `admit` (`RecheckRequired`), the limiter,
billing (`Bill`) and the deferred release (`Finish`). The request's record holds the copy of the
entry. `seen` (which grounds for letting the request in held at some time since it arrived),
`admitLog` and the field `slot` are history.

Abstracted: one quota stands for tokens and credits, which the code treats alike; the model
allowlist, names and timestamps are left out; a save always succeeds.

### Pool: `AccountPool`

Selection is `Begin` (read lock taken, clock and setting read), one `Probe` for every round
of the first loop, which advances the shared counter, and `Fallback` for the second loop.
Writers wait for selections to end (`Locked`). `PickPinned` is `GetForModelByID`. The outcomes
are `RecordSuccess`, `FailPlain`, `FailQuota`, `FailCap` followed by `SetCooldown`, and
`DenyModel` followed by a plain error, as the failover code calls them. `Reload`,
`SetModelList`, `ClearModelDenies`, `UpdateToken`, `TokenAges`, `Configure`,
`SetAllowOverUsage` and `Tick` are the rest of the world. An account filter and the excluded
set both make accounts unusable for one request, and `barred` stands for both. The counter is
taken modulo a common multiple of the list lengths: only its remainder is ever used, and the
wrap of the 64-bit counter, after 2^64 selections, is left out.
`lastStrike` and `turns` are history.

### Lifecycle: `AccountLifecycle`

The record of an account is reduced to the flag and the marker. A read (`Pick`, `OpRead`,
`StartWarmup`), the write of the edited copy and `pool.Reload` are separate steps for each of
the four writers. `Banned`/`DisableAccount` are `disableAccount`, `Applied` is the switch of
`apiUpdateAccount`, `RefreshAccountInfo` the usage check (which writes for Kiro accounts only:
`kiro` is chosen at the start), `WarmupCandidates` the choice of accounts, `WarmupPassed` and
`WarmupFailed` the end of `warmupOne`. `word` and `refreshed` are history.

### Slots: `AccountSlots`

A channel is its capacity, its number of tokens and the queue of blocked senders; the runtime
hands the place of a receive to the head of the queue in the same step. `SlotChan` is
`accountSlotChan` and replaces the channel when asked for another capacity, which
`PickAccount` (through `accountHasFreeSlot`) and `LookUp` both may. `Timeout` is the two-minute
timer, `Finish` the release, which received the channel it sent to.

### Tokens: `TokenRefresh`

One account. A token is the number of the refresh that issued it, so "spent" and "current" are
comparisons with `issued`. Requests hold a pointer into a list of the pool, or to a copy;
`Reload` makes a new list, so pointers may be into a list the pool has left: `list` is indexed
by slots, of which there are enough for every request, the pool and a new list. `Lock` is the
mutex with the second look under it, `Granted`, `Refused` and `Unanswered` the provider's answer,
`StoreInPool` and `StoreInConfig` the two stores, `Ban` and `BanReload` what failover does with a
refusal. `StartWork` ... `WorkReload` are warmup and `apiRefreshAccount`, which do not take the
mutex and store in the opposite order. `EditRead`, `EditWrite`, `EditReload` are operators.

### Sessions: `TokenLife`, `AdminSessions`, `ConsoleSessions`

`TokenLife` is the promise: a token opens the admin API for one stretch of time at most.
`AdminSessions` is `proxy/admin_session.go` and the handlers that use it, cut where they let go of
their locks: `Gate` validates, `Match`, `ReadPassword` and `Issue` are a login (which reads the
password twice), `SetupCheck` and `SetupStore` the first-run setup, `SavePassword`, `RevokeAll`,
`ReadPassword` and `Issue` a change of password, `Logout` revokes. `Expire` and `Restart` are the
world. It implements `TokenLife` under the mapping `live <- LiveTokens`, the tokens that validate
outside the two steps of a change, and `over <- ` the others that were issued: `TokensLiveOnce` is
`TokenLife`'s `Spec`.

`ConsoleSessions` extends it by the tabs of a browser (`lib/api.ts`, `lib/auth.tsx`, the login and
setup pages, the password form). A tab has four places for a request: start, login and setup
(`Flow`), the password form (`Form`), the status panel's poll, and a logout, which the code does
not wait for. A form that is put up anew waits for the request of the one before it, and a tab is
reloaded only when nothing but a poll is under way. `own` is a tab's
sessionStorage, `shared` the localStorage all tabs see; `SetToken` and `ClearToken` write both. Guests
are other browsers.

### Console: `ConsoleCore` ... `Console`

`ConsoleCore` is what the pages share: `store` (the server's side of each query), `cache` (the
page's side), `fetch` (a fetch is *sent*, *answered*, *taken*, and `Invalidated` starts one over),
`calls` (requests of handlers; the page's `...Take` runs what follows the `await`), and the
confirmation dialog. `ServeCall` serves a request, which succeeds, or fails after it changed all it
was sent to change, some of it or nothing; requests about an account for which the server first
refreshes its token (`TokenSavers`: tests, probes, catalogues) may besides change the account in
passing, whether they succeed or not. `missed` is history: the queries that a request changed
without telling its handler, so failed or in passing, and that no handler has fetched anew since. The content of a query is the rows it
lists, those that are on, and whether it is older than the last write. `ui` holds the state of
the page's components. On top of it:

| Module | Source under `dashboard/src` | State and actions |
|---|---|---|
| `ConsoleKeys` | `pages/api-keys` | switch, table, questions, the form for a new or old key |
| `ConsoleAccounts` | `pages/accounts/index.tsx` | single and bulk actions, one request after the other; `run` with its marker |
| `ConsoleSheet` | `pages/accounts/detail-sheet.tsx` | fields, allowlist and manual models of an account |
| `ConsolePool` | `pages/accounts/pool-dialog.tsx`, `export-dialog.tsx` | pool's models and settings, export |
| `ConsoleLogins` | `pages/accounts/add-account-dialog.tsx`, and `auth/kiro_sso.go` on the server's side | the dialog, device codes, pasted addresses, the hosted page with its sessions and port |
| `ConsoleImports` | the same dialog | imports in one request or piece by piece |
| `ConsoleSettings` | `pages/settings/*`, `components/model-combobox.tsx` | drafts of sections (`useDraft`), save, egress, relay, rules, danger zone, the menu that follows the scroll |
| `ConsoleTable` | `components/data-table.tsx`, `pages/model-prices` | filter, sort, page |
| `ConsoleDocs` | `pages/docs` | address, history, article, key and copy buttons |
| `ConsoleMonitor` | `pages/overview`, `pages/model-status`, `pages/model-prices`, `pages/usage.tsx`, `components/layout`, `lib/theme.tsx`, `lib/i18n.tsx` | polls, look-up of a key with its logs, navigation, theme, language |

`Console` puts them together: `Init` chooses a page that has loaded, and a behaviour stays on it. What
the pages have in common in the code they share in the model, so a property like
`NothingStale` is one question asked of every handler of every page.

### Conventions

An operator named `Op_Flaw` is `Op` with a plausible mistake and is used by no specification;
`PROJECT.json` says which property notices it. `MC*` modules hold the instances, `*Proofs`
modules the proofs. A component's constants and their assumptions stand at its head.

## 3. Runs

| Run | Instance | What it shows |
|---|---|---|
| `key_limits` | 2 requests, 1 key, 1 operator with an open edit, rpm 0 or 2, concurrency 1 or 2, window 2 ticks, 3 times | The counter is exact, limits are respected although each request goes by its own copy, refusals cost nothing, a deleted key drains |
| `key_table` | 2 requests, 2 keys, 2 values, 1 operator, quota 1, a cost of 1, counters to 3 | Values stay unique and deleted keys stay deleted across stale edits; usage survives edits; the overshoot is bounded; a request that runs was entitled to at one moment, or met both halves of the legacy key's ground apart, with values rotating and the legacy key set and cleared |
| `pool_failures` | 2 requests, 2 accounts, 3 barred sets, one expiring token, error and quota cooldowns 1 and 2, times 1 to 2 | Cooling accounts are the last resort, three failures buy a rest, a healthy account keeps being picked |
| `pool_rotation` | 2 requests, weights 2 and 1, one model, quota, setting, catalogue and rejections changing | Undisturbed rounds are exact, no leave no over-quota account, rejections outlive refreshes |
| `life_pool` | 1 account (Kiro or not), 1 request, 1 operator with six kinds of action, warmup by timer and by hand, with chat probe, auto-recover switched | No record enabled and banned, pool and records agree or a reload is due, deleted stays deleted, auto-recover works |
| `slots` | 3 requests, limits 0, 1, 2, three channels | Tokens and holders agree on each channel, also on replaced ones; waiters are served; an unchanged limit holds |
| `token_requests` | 3 requests, rotating tokens, 2 refreshes | Nobody sends a spent token, waiters get through, the record is current outside a refresh |
| `token_kept` | request, warmup, operator's refresh, whole-record edit; the provider keeps its refresh token | No stale copy loses the credentials or disables a good account |
| `console_sessions` | 1 tab, 1 other browser, 2 passwords, 2 tokens, one change of password, one expiry, restart or reload | A token lives once (the refinement), a logout ends what it was clicked in everywhere, only the signed in change a password, a tab whose session died shows the login |
| `console` | 2 rows of everything and room for a third, 2 clicks that send something (each a whole batch), 2 forms | Nothing shown is stale but for what a failed request or a saved token changed, on the accounts page not that either; polls catch up whatever failed, buttons come back, deletions are those confirmed, closed sign-ins free the port, logs follow the key, tables and documentation show what they should |
| `life_manual_off` | as `life_pool` without deletion | *Violation*: auto-recover undoes an operator's *off* |
| `token_warmup` | 2 requests and warmup, rotating tokens | *Violation*: warmup disables an account whose credentials are good |

**Why the bounds are enough.** The races here are between two parties, one of which has read
what the other then changes; two requests plus an operator, or one of each kind of party, is
every such pair. Two requests sharing the counter are what it takes to step over an account;
three requests are needed where one holds, one waits and one arrives (slots, mutex). Limits
run over 0 (none), 1 and 2, where "reached" and "exceeded" differ. The window is two ticks, so
that an entry may be inside, at the edge and outside. Error and quota cooldowns need only
differ: `PoolAssumption` asks no more. Quota counters stop at `MaxUsed`, clocks at `MaxTime`,
refreshes at `MaxIssued`, channels at `MaxChans`; a step beyond is not taken. `pool_failures`
and `pool_rotation` split one module because failures and quota changes together are too many
states and the properties of one do not read what the other varies. `pool_rotation` leaves the
history of strikes, which its properties do not read, out of its view of a state, and it
identifies states that differ by an exchange of requests; runs with liveness do neither.
Two accounts are not needed in `life_pool`: no action of the module reads two accounts.
In `console_sessions` the second browser and the tab's own four requests give every pair of a
login, a change, a logout and a poll; two tokens are an old and a new one. *Remember me* is
left unticked there (`Remembers`): that a token is shared comes with the setup, and the theorems are
about either choice. In `console` two clicks
(`MaxClicks`, for each page) are one handler that overtakes another; each may send a request per
row, so that a batch meets a click in its middle; the documentation's history has at most three
entries, which is back, here and forward. Polls and traffic of the gateway are not bounded. Passwords
changed (`MaxChanges`), tokens (`MaxTokens`), upsets (`MaxUpsets`) and forms mounted (`MaxForms`)
are.

**Fairness.** None is assumed of clients, operators, the clock or upstreams. *Keys*: a request
that was admitted goes on (weak fairness of its own steps); every handler returns and its
release is deferred. *Pool*: a selection under way goes on; it holds a read lock and waits for
nobody. *Lifecycle*: the background timer goes on starting runs (`warmup.go:93`), a worker
goes on, as its calls have time-outs, and a run whose workers are done ends. *Slots*: the
upstream call ends; nothing is assumed of the timer, so `WaitersServed` does not rest on the
time-out. *Tokens*: the holder of the mutex goes on, as the HTTP client times out after 30 s
(`auth/http_client.go:37`), and a waiter gets the mutex when it is free again and again (strong
fairness: Go's `sync.Mutex` hands over to a waiter that starves). *Sessions*: handlers return, a
tab takes its answers and its status panel goes on asking every 15 seconds while it is on screen.
*Console*: requests are answered and answers taken (an `await` resolves or throws), timers go off
(`refetchInterval`, `setInterval`, a poll's delay), cancellations that were sent arrive, and of
the log fetches that go on for ever some succeed (strong fairness; without it the logs may simply
never come). Nobody has to click, nothing has to happen to the gateway, and no deadline of a sign-in
has to come: `LoginsFreed` does not rest on it.

Deadlock is not checked where a bound may stop everything (clock, tokens) or where stopping is
legitimate (nobody arrives, nobody clicks). `TypeOK` of keys, pool, lifecycle, slots, tokens and
sessions is in no run because it is proved.

## 4. Proofs

Eight modules hold the theorems; each is about every value of the constants that the component's
named assumption allows. Each rests on an inductive invariant `Inv` (types plus what follows), with
one lemma per action and per part an action can disturb. Every invariant and every action property
that a passing run checks is the statement of a theorem; a condition in the table is a hypothesis
of the theorem and says where the code keeps the property.

| Module | Theorem | Property | Beyond `Inv` |
|---|---|---|---|
| `KeyAdmissionProofs` | `TypeCorrect` | `TypeOK` | |
| | `InflightIsExact` | `InflightExact` | `AllLimitsCount` |
| | `ConcurrencyIsRespected` | `ConcurrencyRespected` | `AllLimitsCount` |
| | `RefusalsAreFree` | `RefusalsNotCharged` | `WindowInv` |
| | `RpmIsRespected` | `RpmRespected` | `WindowInv` |
| `KeyTableProofs` | `SecretsStayUnique` | `SecretsUnique` | |
| | `DeletionIsFinal` | `DeletedStaysDeleted` | |
| | `UsageSurvivesEdits` | `EditsKeepUsage` | |
| | `AdmissionIsJustified` | `AdmissionJustified` | `JustifiedInv` |
| | `EntitledAtOnceIfLegacyKeyStays` | `EntitledAtOnce` | `FixedLegacyKey`; `HalvesInv` |
| | `OvershootIsBounded` | `QuotaOvershootBounded` | `FixedQuotas`; `QuotaInv` |
| `AccountLifecycleProofs` | `TypeCorrect` | `TypeOK` | |
| | `NeverStuckBanned` | `NoStuckBan` | |
| | `DeletionIsFinal` | `DeletedStaysDeleted` | |
| | `PoolFollows` | `PoolFollowsConfig` | |
| `AccountPoolProofs` | `TypeCorrect` | `TypeOK` | |
| | `QuotaIsKept` | `OverQuotaNeedsLeave` | |
| | `CoolingComesLast` | `CoolingIsLastResort` | |
| | `ThreeFailuresRest` | `RestAfterThreeFailures` | `RestInv` |
| | `RejectionsLast` | `RejectionLasts` | |
| | `RoundsAreFair` | `EachRoundIsFair` | `RoundInv` |
| `AccountSlotsProofs` | `TypeCorrect` | `TypeOK` | |
| | `SlotsAreExact` | `SlotsExact` | |
| | `CapIsKept` | `CapHolds` | `CapInv` |
| `TokenRefreshProofs` | `TypeCorrect` | `TypeOK` | |
| | `RotationSendsCurrent` | `SendsCurrentToken` | `OnlyRequests`; `RotationInv` |
| | `RotationRecordIsCurrent` | `RecordIsCurrent` | `OnlyRequests`; `RotationInv` |
| | `RotationBannedOnlyIfRefused` | `BannedOnlyIfRefused` | `OnlyRequests`; `RotationInv` |
| | `KeptSendsCurrent` | `SendsCurrentToken` | `~Rotates`; `KeptInv` |
| | `KeptRecordIsCurrent` | `RecordIsCurrent` | `~Rotates`; `KeptInv` |
| | `KeptBannedOnlyIfRefused` | `BannedOnlyIfRefused` | `~Rotates`; `KeptInv` |
| `SessionProofs` | `TypeCorrect` | `TypeOK` | |
| | `SessionsLiveOnce` | `TokensLiveOnce` | |
| | `LogoutsEnd` | `LogoutEnds` | `Quiet` |
| | `SignedInChange` | `OnlyTheSignedInChange` | |
| `ConsoleProofs` | `ConsoleInvariant` | (`Inv`) | |
| | `DeletionsAreConfirmed` | `DeletesWhatItAsked` | |
| | `PagesAreFresh` | `NothingStale` | `StaleInv`, `RouterInv` |
| | `NoPageIsEmpty` | `NoEmptyPage` | `TableInv` |
| | `ArticlesFollowTheAddress` | `ArticleOfTheAddress` | `HistoryInv` |

**Keys.** `TypeOK` is not inductive: `Inv` adds `RequestInv`, that a request at or past the limiter
has a copy of an entry, that only running requests are `limited`, and that only limited ones
hold a slot. `InflightExact` then has a lemma for the step that adds a holder (`GrantExact`), one
for the step that removes one (`FinishExact`: the floor in `Release` is not reached because the
holder itself is counted), and a frame lemma. `AllLimitsCount`, that every concurrency limit is
positive, is needed where `Release` meets a request that `Acquire` let in without counting it;
with a limit of 0 allowed the property is false (section 5). The rate limit rests on `WindowInv`: the
window the limiter keeps is the end of the log of all admissions, and what it has trimmed is
older than a minute, so counting the window is counting the log. `JustifiedInv` gives, for each
point of `authenticate` and `admit`, which grounds the request must have seen since arrival to be
there. For a request on the legacy path that is two facts and not one, a moment without keys and a
moment at which its secret was the legacy key, which need not be the same moment (section 5). With `FixedLegacyKey` (nobody changes that key) they are: `HalvesInv` says that a secret
which matches later matched when there were no keys, and `EntitledAtOnce` follows. `OvershootIsBounded` needs in `QuotaInv` that every request under way was asked
for a key and that an edit that is open carries the limit its key still has; the bound itself is
inductive because it counts what can still be billed, so that a request that is billed moves
its cost from one side to the other. `FixedQuotas` is tight: a limit that is lowered below what
was billed is exceeded at once by any amount, and with the switch for required keys off a key over
its quota is let in.

**Lifecycle.** Every copy of a record that anybody holds (`Sound`: an enabled account has no ban)
is sound, and so is every record written from one; that is why no interleaving of stale writers leaves
an account enabled and banned. For `PoolFollows`, the actors at a point from which they will
reload are those `ReloadPending` counts, and every other step that changes what is enabled is one
after which its actor is at such a point.

**Pool.** The weighted list is a recursive function of the number of slots looked at. The
induction theorems of the library cannot be applied here (they take an operator), so that the
function exists and what it holds is shown by minimal counterexample: `Smallest`, from the
well-foundedness of `<`. `RestInv` says that three errors imply a cooldown that ends
`ErrorCooldown` after the last strike or later. `HowPicked` says how a request can come to hold an account
(a pinned one, a walk, the fallback); the three properties about picks follow from it. `RoundInv`
joins the history of the rotation to the counter: the picks of a round are those of the last entries
the counter went by, each entry once, also where the list and the counter wrap, and the list holds
every account that is on it with its full weight. A round as long as the list has then passed
every entry.

**Slots.** A request is in at most one line and at most once (`OnceEach`), and one that waits
or runs on a channel has one that was made (`Placed`). With those, one token per holder is kept
when the head of the line takes a leaver's place. While the limit is unchanged there is at most one channel,
which has that capacity (`ChanCap`), and every request goes by that limit (`RequestCap`); `CapHolds`
is then `SlotsExact` on that channel.

**Tokens.** `TypeOK` says more than types: a request in the section that the mutex guards has the
mutex, and none is left with a pointer to a record that the pool let go of. With rotating tokens,
`RotationInv` says where the token that the provider accepts next is at each step of a refresh: on
record and in the pool before, in the answer when it has come, and in the pool before it is on record.
That is one story per holder of the mutex, so a second party that refreshes without it breaks it:
`OnlyRequests` (no warmup, no refresh by hand, no edit) is tight, as `token_warmup` and the two
exceptions of section 5 show. Where the token stays the same, `KeptInv` says that every copy of
the record anybody holds may be written back, and no restriction on the parties is needed.

**Sessions.** `Inv` adds which operations a caller can have under way at each point (`CallInv`) and
that a token that was not issued has no session (`SessionInv`). With it every step of
`AdminSessions` is a step of `TokenLife` or leaves it alone, for any callers, tokens and passwords:
a token that has lost its session has a number that no later login gets. `LogoutEnds` is about the
tabs too: `GrantInv` says that what the server has granted to a tab and the tab has not taken
is in nobody else's hands (`GrantPlaces` are where a tab is granted one), whence a logout cannot end it, and `LogoutInv` that a tab no longer holds,
and the shared storage no longer has, what was logged out.

**Console.** All pages share their shape, and every step is of one of a few kinds: a click that sends
nothing, one that puts a question, one that sends requests, a handler that goes on with an answer, a
query that is fetched anew, a step of a query, a request that is served, a step of a sign-in. Each
handler of each page is shown to be of its kind (`KeysOperates` to `AddTakes`); the invariants are kept
kind by kind. `Inv` says that what a request was sent to change its
handler fetches anew when it succeeds, and that beyond that it changes nothing but a token
(`Sound`). `StaleInv` then says that a copy that is behind is being fetched, or *owed* (`Owes`: some
handler, loop, import or sign-in that is under way will have it fetched when it goes on), or forgiven
because it is `missed`, which on the accounts page nothing is: its handlers fetch the list however
their requests ended. The same holds of an answer to a fetch that is older than a write. At rest
nobody owes anything, which is `NothingStale`.
`RouterInv` keeps the set of polled queries from changing under the page. `NoEmptyPage` needs that rows
are finite (`RowsAssumption`), as the pager counts them.

**Only model-checked.** Liveness under fairness, which the prover does not reach (`DeletedKeyDrains`,
`NoStarvation`, `AutoBannedRecovers`, `WaitersServed`, `WaitersGetThrough`, `DeadTabNotices`,
`ScreenCatchesUp`, `BusyEnds`, `LoginsFreed`, `LogsFollowTheKey`), and the two runs that expect a
violation.

## 5. Where code and documents disagree

Two have runs. `life_manual_off`: README.md:363 says a manual decision is never undone by
auto-recover; `warmupOne` (`proxy/warmup.go:274`) goes by the copy it read at the start of the run.
`token_warmup`: warmup refreshes without `tokenRefreshMu` (`proxy/warmup.go:217`) and when it
loses to a request, the account is disabled with a spent token although the record was good.

The others were met while modelling. The models have the code's behaviour and the properties
are stated so that they hold of it; each exception is in the property's comment.

- With keys configured "the provided key MUST match an enabled, in-quota entry" (`proxy/auth.go:48-49`).
  `HasApiKeys` (`:69`) and `GetApiKey` (`:89`) are two reads: when a key is added and the legacy key is
  set in between, a request with the legacy key gets in although at no moment it was entitled to:
  before there was no such key, after there are keys. So `EntitledAtOnce` is false, TLC finds that
  behaviour with one request and one key, and `AdmissionJustified` is what `key_table` checks.
- A patch of a key writes back every field, so a patch without a field undoes another
  operator's change of it (`proxy/admin_apikeys.go:155`; `dashboard/docs/admin-api.md:352` says
  absent fields stay).
- `Release` frees a slot for a request that was let in uncounted (`proxy/ratelimit.go:62`, comment
  at :56). Hence `AllLimitsCount`.
- A third plain error shortens a cooldown that was set for an hour (`pool/account.go:517`;
  README.md:359).
- Switching *off* an account that is auto-disabled changes nothing, the marker stays, and
  auto-recover enables it (`proxy/handler.go:3445`; README.md:363).
- `disableAccount` writes the copy a request was given at its start, so it puts a marker back on
  an account switched off meanwhile (`proxy/account_failover.go:143`, comment at :111-112).
- A Kiro usage check that passes clears the marker of a disabled account, which no later run
  then looks at (`providers/kiro/rest.go:596`; README.md:360). `AutoBannedRecovers` leaves Kiro
  accounts out.
- `apiRefreshAccount` may disable an account and does not reload the pool
  (`proxy/handler.go:4668`; README.md:326). `PoolFollowsConfig` leaves such accounts out.
- A changed slot limit makes a new channel while the old one's holders run
  (`proxy/upstream.go:30`; `config/config.go:84`). `CapHolds` is about unchanged limits.
- A reload between the two stores of a refresh takes the pool back to the spent token
  (`proxy/handler.go:3086`, against :3069). `SendsCurrentToken` is checked without reloads.
- A whole-record edit that spans a refresh restores the spent tokens (`config/config.go:681`;
  `proxy/handler.go:3443` means to replace only what was sent). `RecordIsCurrent` is checked
  with edits only where the refresh token stays the same.
- A login reads the password twice, to compare it and to bind the session to it
  (`proxy/handler.go:3891-3897`): overtaken by a change, a login with the old password gets a
  session of the new one, or one that is dead when issued.
- `apiUpdateProxy` takes several saves and a change of the HTTP clients without a lock
  (`proxy/handler.go:4995-5064`): between them requests leave directly, and two updates at once can
  leave relay and proxy both set, which `:4982` excludes, or the clients on another proxy than
  the one saved. `apiGetRelaySource` reads, invents and writes the relay's secret the same way,
  against its comment that the baked code and the app agree on it.
- *One operator's page.* The accounts page has one busy marker, so a quick action that ends
  enables the buttons while a batch still runs (`pages/accounts/index.tsx:75`); a batch that ends
  clears a selection made meanwhile; the answer of a poll or a save whose dialog was closed closes
  the dialog opened after it (account, key and confirmation dialogs, danger zone); a fetch that
  arrives while a draft is being saved discards what was typed meanwhile (`useDraft`); the export
  shows what was ticked when it was asked for, also after it was opened anew; the relay's test is
  not disabled while one is pending. The properties are about the last handler and about
  confirmed rows, which stay as they were.
- *Account sheet.* A refresh from the sheet fetches the accounts only when it succeeds
  (`pages/accounts/detail-sheet.tsx:237-242`), but one that fails may have saved new tokens
  (`proxy/handler.go:4641`) or a ban (`providers/kiro/rest.go:565-583`) before it answered 500
  (`proxy/handler.go:4700-4703`). A test and a probe may save a refreshed token
  (`proxy/handler.go:4555`, `:3098`), whose expiry the sheet shows (`detail-sheet.tsx:315`), and fetch
  no accounts (`:249-261`, `:132-144`; likewise `:231-236` and `pages/accounts/pool-dialog.tsx:97-112`).
  The list is not polled: what is shown stays behind until something else fetches it. `NothingStale`
  and `ScreenCatchesUp` leave out what is so `missed`, except on the accounts page itself, whose `run`
  fetches the list whatever comes, and in polled queries.
- *Allowlist.* `toggleModel` takes a list as long as the catalogue for "all enabled"
  (`pages/accounts/detail-sheet.tsx:105-114`), also when it names models the catalogue has not, against
  the comments at `:94-98` and `:106-107`.
- *Sign-in.* A form closed while its `start` is under way has no session to cancel yet
  (`pages/accounts/add-account-dialog.tsx:387`, comment at `:386`): the port is held until the
  deadline. `LoginsFreed` is about forms that saw their session.
- *Usage page.* The key whose logs are fetched changes only with a look-up that succeeds
  (`pages/usage.tsx:88`): logs of the key before may be shown under the new card until the next fetch.
- *Two operators.* The key form sends every field of the row it opened with; a pool's prefix and
  test model are saved as whole maps from the cache (`pages/accounts/pool-dialog.tsx:77-80`); manual
  models as a whole list; a ban reads and writes the list in two requests
  (`pages/model-status/decisions.tsx:59`): each undoes what another operator saved meanwhile.
- *Egress form.* A saved `https` proxy is shown as `http` (`pages/settings/proxy.tsx:23-31`), and
  the next save writes that.
- *Tabs.* A 401 to a poll that overlaps a change of the password takes the operator to the login
  although the change succeeded; the late answer of a logout or a 401 ends a newer session of the
  tab; a setup refused with 409 leaves the tab on the setup page.

## 6. Not modelled, and the plan

Not modelled at all: conversion of payloads between protocols and the providers' HTTP calls
(data and I/O); the loop of request failover; affinity and the auto router, whose scoring is
floating-point sampling; telemetry; the configuration store, so that no module has a save that fails or
a crash within one; the responses store; stream translation; the prompt cache tracker (an estimate);
the logger and start-up. Of the admin sessions, the throttle of login attempts is left to chance. Of
the console, these are left out: the component library, the overview's arithmetic and its request
log, routing map and router card, the relay's secret and source, the version check, fetches that
fail, a connection that breaks while the server is still at work on the request (so that it writes after
the failure was told), texts, and moving between pages within a behaviour.

What would be worth adding next, in this order: the failover loop over pool, affinity and slots
(three attempts, exclusions, none after output, the two-minute wait counted as a failure);
telemetry; the configuration store across failing saves and crashes, as an atomic register; and
the update of the proxy.

What is proved covers every safety property that a passing run checks. To be proved next are the invariants that
the modules above would bring, and the part of the liveness properties that is safety: that a waiter
in a line of slots is overtaken by nobody, and that every handler of the console that ends clears its
busy marker.
