----------------------------- MODULE ConsoleMonitor ----------------------------
(***************************************************************************)
(* The pages that watch the gateway: the overview (pages/overview), the    *)
(* state of the models and the router's decisions (pages/model-status),    *)
(* the prices (pages/model-prices), the usage page of a key's holder       *)
(* (pages/usage.tsx), and the shell around all pages (components/layout,   *)
(* lib/theme.tsx).  What they compute from the numbers they show is left   *)
(* out.  Traffic moves the numbers on by itself.                           *)
(***************************************************************************)
EXTENDS ConsoleTable, ConsoleDocs

\* The usage page: the key whose card and logs it shows, the key it fetches logs
\* for, and the fetches of logs that are under way.
VARIABLE usage

NoUsage == [data |-> Nobody, logs |-> Nobody, activeKey |-> Nobody, fetches |-> {}]

-----------------------------------------------------------------------------
(* Polling. *)

\* What the panel at the foot of the shell shows: accounts, requests, and whether
\* anything can be served.  The version, which is fetched once, is left out.
SystemPanel == {"status"}

\* A warm-up's progress is fetched when one is started.
Polled_NotWarmup ==
    CASE On("overview") -> {"stats", "accounts"}
      [] On("shell") -> SystemPanel
      [] On("models") -> {"health"} \cup (IF IsOn("section", Nobody) THEN {"decisions"} ELSE {})
      [] OTHER -> {}

\* The queries with a refetchInterval; that of the decisions needs the router on.
\* The log on the overview is polled as well, and left out.
Polled ==
    CASE On("overview") -> {"stats", "accounts", "warmup"}
      [] On("shell") -> SystemPanel
      [] On("models") -> {"health"} \cup (IF IsOn("section", Nobody) THEN {"decisions"} ELSE {})
      [] OTHER -> {}

\* What changes by itself: a router that is off decides nothing.
Moving ==
    CASE On("overview") -> {"stats", "accounts", "warmup"}
      [] On("shell") -> SystemPanel
      [] On("models") -> {"health"} \cup (IF Nobody \in store["section"].on THEN {"decisions"} ELSE {})
      [] OTHER -> {}

\* A warm-up starts or ends, other numbers change.  It counts like a click.
Traffic(q) ==
    /\ q \in Moving /\ clicks < MaxClicks[page]
    /\ clicks' = clicks + 1
    /\ \E on \in IF q = "warmup" THEN {{}, {Nobody}} ELSE {store[q].on} :
          Writes({q}, [store EXCEPT ![q].on = on])
    /\ UNCHANGED <<page, calls, missed, ui>>

\* The answer clears the marker of a manual refresh that waits for it.
Refreshed(q) ==
    IF On("prices") /\ q = "catalogue"
    THEN Relisted(fetch[q].got.rows, IF ui.busy = "refetch" THEN [ui EXCEPT !.busy = "none"] ELSE ui)
    ELSE ui

-----------------------------------------------------------------------------
(* The overview. *)

\* Another range is another query.
SetRange ==
    /\ On("overview") /\ Clear /\ clicks < MaxClicks[page]
    /\ clicks' = clicks + 1
    /\ fetch' = Invalidated({"stats"})
    /\ missed' = missed \ {"stats"}
    /\ UNCHANGED <<page, store, cache, calls, ui>>

AskResetStats == On("overview") /\ AskFirst("stats", {})

ResetStats ==
    /\ On("overview") /\ Confirms("stats")
    /\ Click(Req("resetStats", Nobody, {"stats"}), Running("stats"))

\* mutateAsync throws what the mutation has reported.
TakeResetStats(c) ==
    /\ Answered(c, {"resetStats"})
    /\ Settle(c, {}, OnSuccess(c, {"stats"}), Through("stats", ~c.ok))

\* The overview shows no catalogue.
RefreshModels ==
    /\ On("overview") /\ Clear /\ ~Pending("refreshModels")
    /\ Click(Req("refreshModels", Nobody, {}), ui)

TakeRefreshModels(c) == Answered(c, {"refreshModels"}) /\ Settle(c, {}, {}, ui)

WarmupRunning == IsOn("warmup", Nobody) \/ Pending("warmupAll")

RunWarmup ==
    /\ On("overview") /\ Clear /\ ~WarmupRunning
    /\ Click(Req("warmupAll", Nobody, {"warmup", "accounts"}), ui)

TakeRunWarmup(c) == Answered(c, {"warmupAll"}) /\ Settle(c, {}, {"warmup", "accounts"}, ui)

-----------------------------------------------------------------------------
(* The router's decisions: "section" is its configuration, with the blacklist as *)
(* rows, and on for Nobody when the router is.                               *)

RefreshDecisions ==
    /\ On("models") /\ fetch["decisions"].pc = "idle"
    /\ fetch' = Invalidated({"decisions"})
    /\ missed' = missed \ {"decisions"}
    /\ UNCHANGED <<page, store, cache, calls, clicks, ui>>

\* Two requests: the configuration is read, and written with one entry more.
BanRoute(m) ==
    /\ On("models") /\ m \notin Shown("section")
    /\ ~Pending("readRoute") /\ ~Pending("ban")
    /\ Click(Req("readRoute", m, {}), ui)

TakeReadRoute(c) ==
    /\ Answered(c, {"readRoute"})
    /\ IF c.ok THEN Settle(c, {[Req("ban", c.row, {"section", "health"}) EXCEPT
                                   !.n = c.n, !.adds = {c.row}]}, {}, ui)
       ELSE Settle(c, {}, {}, ui)

TakeBan(c) == Answered(c, {"ban"}) /\ Settle(c, {}, OnSuccess(c, {"section", "health"}), ui)

-----------------------------------------------------------------------------
(* The prices: the server is asked to fetch its copy anew, and then for the copy. *)

\* Its list of models may have changed.
Sync(models) ==
    [Req("sync", Nobody, {"catalogue"}) EXCEPT !.adds = models, !.drops = Rows \ models]

HardRefresh ==
    /\ On("prices") /\ ui.busy = "none" /\ fetch["catalogue"].pc = "idle"
    /\ \E models \in SUBSET Rows : Click(Sync(models), [ui EXCEPT !.busy = "sync"])

TakeSync(c) ==
    /\ Answered(c, {"sync"})
    /\ Settle(c, {}, OnSuccess(c, {"catalogue"}), [ui EXCEPT !.busy = IF c.ok THEN "refetch" ELSE "none"])

-----------------------------------------------------------------------------
(* The usage page.  Rows are keys. *)

CardShown == usage.data # Nobody

Lookup(k) ==
    /\ On("usage") /\ ui.busy = "none"
    /\ Click(Req("lookup", k, {}), [ui EXCEPT !.busy = "lookup"])
    /\ usage' = [usage EXCEPT !.data = Nobody, !.logs = Nobody]

FetchLogs(k, u) == [u EXCEPT !.fetches = @ \cup {[key |-> k, pc |-> "sent"]}]

\* Until then the logs are fetched for the key of the last lookup that succeeded.
TakeLookup(c) ==
    /\ Answered(c, {"lookup"})
    /\ Settle(c, {}, {}, [ui EXCEPT !.busy = "none"])
    /\ usage' = IF c.ok THEN FetchLogs(c.row, [usage EXCEPT !.data = c.row, !.activeKey = c.row])
                ELSE usage

\* A failure is swallowed.
ServeLogs(f, ok) ==
    /\ f \in usage.fetches /\ f.pc = "sent"
    /\ usage' = [usage EXCEPT !.fetches = (@ \ {f}) \cup
                    (IF ok THEN {[f EXCEPT !.pc = "answered"]} ELSE {})]
    /\ UNCHANGED coreVars

TakeLogs(f) ==
    /\ f \in usage.fetches /\ f.pc = "answered"
    /\ usage' = [usage EXCEPT !.fetches = @ \ {f},
                              !.logs = IF usage.activeKey = f.key THEN f.key ELSE @]
    /\ UNCHANGED coreVars

\* Only as long as there is nothing to show.
PollLogs_UntilShown ==
    /\ CardShown /\ usage.logs = Nobody /\ [key |-> usage.activeKey, pc |-> "sent"] \notin usage.fetches
    /\ usage' = FetchLogs(usage.activeKey, usage)
    /\ UNCHANGED coreVars

\* Every five seconds while a card is shown.
PollLogs ==
    /\ CardShown
    /\ [key |-> usage.activeKey, pc |-> "sent"] \notin usage.fetches
    /\ usage' = FetchLogs(usage.activeKey, usage)
    /\ UNCHANGED coreVars

-----------------------------------------------------------------------------
(* The shell.  ui.shown: the palette is open; ui.open: the page; ui.draft: `g' was *)
(* pressed less than a second ago; ui.sel: Rows when the theme is dark; ui.kind:   *)
(* the language.  At its foot is the state of the gateway, "status".           *)

OnShell == On("shell")

NavPages == {"overview", "accounts"}

\* Typing in the palette presses no shortcut.
PressG == OnShell /\ ~ui.shown /\ Touch([ui EXCEPT !.draft = "g"])

PressKey ==
    /\ OnShell /\ ~ui.shown /\ ui.draft = "g"
    /\ \E to \in NavPages \cup {ui.open} : Touch([ui EXCEPT !.draft = "saved", !.open = to])

TogglePalette == OnShell /\ Touch([ui EXCEPT !.shown = ~@])

\* An item closes the palette before it does what it says.
PickItem ==
    /\ OnShell /\ ui.shown
    /\ \E to \in NavPages : Touch([ui EXCEPT !.shown = FALSE, !.open = to])

\* From the palette and the shell's head, and from that of the documentation.
setLang ==
    /\ OnShell \/ On("docs")
    /\ Touch([ui EXCEPT !.kind = IF @ = "en" THEN "zh" ELSE "en",
                       !.shown = FALSE])

Flipped(u) == [u EXCEPT !.sel = IF @ = {} THEN Rows ELSE {}]

\* From the palette the theme is swapped at once, from the button behind a curtain:
\* until that is gone, neither does anything.
ToggleTheme ==
    /\ OnShell \/ On("docs")
    /\ ui.busy = "none"
    /\ \/ ui.shown /\ Touch(Flipped([ui EXCEPT !.shown = FALSE]))
       \/ ~ui.shown /\ Click(Req("curtain", Nobody, {}), [ui EXCEPT !.busy = "theme"])

\* The curtain grows, the theme is swapped, the curtain fades.
TakeCurtain(c) ==
    /\ Answered(c, {"curtain", "fade"})
    /\ IF c.ok /\ c.op = "curtain"
       THEN Settle(c, {[Req("fade", Nobody, {}) EXCEPT !.n = c.n]}, {}, Flipped(ui))
       ELSE Settle(c, {}, {}, [ui EXCEPT !.busy = "none"])

-----------------------------------------------------------------------------

MonitorTake(c) ==
    \/ TakeResetStats(c) \/ TakeRefreshModels(c) \/ TakeRunWarmup(c)
    \/ TakeReadRoute(c) \/ TakeBan(c) \/ TakeSync(c) \/ TakeCurtain(c)

MonitorOperate ==
    \/ SetRange \/ AskResetStats \/ ResetStats \/ RefreshModels \/ RunWarmup
    \/ RefreshDecisions \/ \E m \in Rows \ Spare : BanRoute(m)
    \/ HardRefresh \/ TableSteps
    \/ PressG \/ PressKey \/ TogglePalette \/ PickItem \/ ToggleTheme \/ setLang
    \/ DocsSteps
=============================================================================
