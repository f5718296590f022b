-------------------------------- MODULE Console --------------------------------
(***************************************************************************)
(* The pages of the console of a signed-in operator, over one server.      *)
(***************************************************************************)
EXTENDS ConsoleKeys, ConsoleSheet, ConsolePool, ConsoleImports, ConsoleSettings, ConsoleMonitor

vars == <<coreVars, loginVars, usage>>

-----------------------------------------------------------------------------
(* Where a behaviour begins.  Of two rows, one is on. *)

Listed == Rows \ Spare

One == {CHOOSE r \in Listed : TRUE}

\* What pages poll: no page has two queries of one of these sets, and none polls a
\* query that is in none of them and has another.
Polling == {{"stats", "health", "status"}, {"accounts", "decisions"}}

KeysInit ==
    \E on \in {{}, One} :
        CoreInit("keys", [q \in KeysQ \cup {"settings"} |->
                            IF q = "settings" THEN Content({}, IF on = {} THEN {} ELSE {NewKey})
                            ELSE Content(One, on)],
                 [QuietUi EXCEPT !.draft = NoKeyForm])

AccountsInit ==
    LET list == [q \in AccountsQ |-> Content(Listed, One)]
        models(own, others) == [q \in AccountsQ \cup CatalogueQ \cup others |->
                                  CASE q \in AccountsQ -> own
                                    [] q \in CatalogueQ -> Content(Listed, {})
                                    [] OTHER -> Content({}, {})]
    IN  \/ \E p \in {"accounts", "export"} : CoreInit(p, list, QuietUi)
        \/ CoreInit("add", list, [QuietUi EXCEPT !.draft = NoForm])
        \/ CoreInit("pool", models(Content({}, One), {"settings"}), [QuietUi EXCEPT !.draft = {}])
        \/ CoreInit("sheet", models(Content(One, NoList), {}), [QuietUi EXCEPT !.kind = "kiro"])
        \/ CoreInit("sheet", models(Content({}, One), {}), [QuietUi EXCEPT !.kind = "zen"])

SettingsInit ==
    \/ \E p \in NAV \ {"egress", "danger"} :
          CoreInit(p, [q \in {"section", "options"} |->
                         IF q = "options" THEN Content(Listed, {})
                         ELSE Content(IF p = "auto-route" THEN One ELSE {}, One)],
                   [QuietUi EXCEPT !.draft = One])
    \/ CoreInit("danger", [q \in {"stats", "logs"} |-> Content({}, {})], QuietUi)
    \/ \E saved \in {{}} \cup {{m} : m \in ProxyModes \cup {"https"}} :
          CoreInit("egress", [q \in SectionQ |-> Content({}, saved)],
                   [QuietUi EXCEPT !.draft = toForm(saved)])

MonitorInit ==
    \/ CoreInit("overview", [q \in {"stats", "accounts", "warmup"} |-> Content({}, {})], QuietUi)
    \/ \E router \in {{}, {Nobody}} :
          CoreInit("models", [q \in {"section", "health", "decisions"} |-> Content({}, router)],
                   QuietUi)
    \/ CoreInit("prices", [q \in {"catalogue"} |-> Content(Listed, {})],
                [QuietUi EXCEPT !.draft = FirstPage])
    \/ CoreInit("usage", << >>, QuietUi)
    \/ \E home \in NavPages, dark \in {{}, Rows} :
          CoreInit("shell", [q \in {"status"} |-> Content({}, {})],
                   [QuietUi EXCEPT !.open = home, !.sel = dark, !.kind = "en"])
    \/ \E path \in Rows : CoreInit("docs", << >>, DocsUi(path))
    \/ CoreInit("settings", << >>, [QuietUi EXCEPT !.open = "general"])

Init ==
    /\ KeysInit \/ AccountsInit \/ SettingsInit \/ MonitorInit
    /\ LoginsInit /\ usage = NoUsage

-----------------------------------------------------------------------------

OffThePage == UNCHANGED <<loginVars, usage>>

\* What is fetched may replace what is typed.
Fetched(q) ==
    IF q \in SectionQ /\ page \in NAV THEN Resync(fetch[q].got, ui) ELSE Refreshed(q)

Serve(n) == ServeCall(n) /\ OffThePage

\* A fetch is sent again when its answer has been taken, and answered when it is sent.
QueryGoesOn(q) ==
    /\ \/ ServeFetch(q)
       \/ TakeFetch(q, Fetched(q))
       \/ q \in Polled \cap Queries /\ Interval(q)
    /\ OffThePage

Happens(q) == Traffic(q) /\ OffThePage

PageTake(c) ==
    \/ On("keys") /\ KeysTake(c)
    \/ On("accounts") /\ AccountsTake(c)
    \/ On("sheet") /\ SheetTake(c)
    \/ On("pool") /\ PoolTake(c)
    \/ On("export") /\ TakeExport(c)
    \/ page \in NAV /\ SettingsTake(c)
    \/ MonitorTake(c)

Take(n) ==
    \E c \in calls :
       /\ c.n = n
       /\ \/ PageTake(c) /\ OffThePage
          \/ On("add") /\ AddTake(c) /\ UNCHANGED usage
          \/ TakeLookup(c) /\ UNCHANGED loginVars

Operate ==
    /\ \/ KeysOperate \/ AccountsOperate \/ SheetOperate \/ PoolOperate
       \/ OpenExport \/ TickExport \/ ExportNow \/ LeaveExport
       \/ SettingsOperate \/ MonitorOperate \/ Dismiss
    /\ OffThePage

LooksUp == (PollLogs \/ \E k \in Listed : Lookup(k)) /\ UNCHANGED loginVars

LogsOf(k) == {f \in usage.fetches : f.key = k}

ServeLogsOf(k) ==
    (\E f \in LogsOf(k), ok \in BOOLEAN : ServeLogs(f, ok)) /\ UNCHANGED loginVars

ServeLogsWell(k) == (\E f \in LogsOf(k) : ServeLogs(f, TRUE)) /\ UNCHANGED loginVars

TakeLogsOf(k) == (\E f \in LogsOf(k) : TakeLogs(f)) /\ UNCHANGED loginVars

Adds ==
    /\ On("add")
    /\ \/ DialogSteps \/ ImportSteps
       \/ \E f \in Forms : LoginSteps(f) \/ RelaySteps(f)
    /\ UNCHANGED usage

LoginGoesOn(f) == On("add") /\ (LoginServes(f) \/ LoginTakes(f)) /\ UNCHANGED usage

Cancel(f) == CancelKiroSsoLogin(f) /\ UNCHANGED usage

CallsGoOn == \E n \in {c.n : c \in calls} : Serve(n) \/ Take(n)

Next ==
    \/ CallsGoOn
    \/ \E q \in Queries : QueryGoesOn(q) \/ Happens(q)
    \/ Operate \/ LooksUp \/ Adds
    \/ \E k \in Listed : ServeLogsOf(k) \/ TakeLogsOf(k)
    \/ \E f \in Forms : LoginGoesOn(f) \/ Cancel(f)

\* What was sent is answered and the answer taken, the timers go off, and of the
\* fetches of logs that go on forever some succeed.  Clicks are bounded, so that one
\* condition does for all their requests and one for what they have fetched anew;
\* each query that is polled needs one, which those of other pages share.  Nobody has
\* to click, nothing has to happen to the gateway, and no deadline of a sign-in has to
\* come.
Fairness ==
    /\ WF_vars(CallsGoOn)
    /\ WF_vars(\E q \in Queries \ UNION Polling : QueryGoesOn(q))
    /\ \A Q \in Polling : WF_vars(\E q \in Q : QueryGoesOn(q))
    /\ WF_vars(PollLogs /\ UNCHANGED loginVars)
    /\ SF_vars(\E k \in Listed : ServeLogsWell(k))
    /\ WF_vars(\E k \in Listed : TakeLogsOf(k))
    /\ \A f \in Forms : WF_vars(LoginGoesOn(f))
    /\ WF_vars(\E f \in Forms : Cancel(f))

Spec == Init /\ [][Next]_vars /\ Fairness

-----------------------------------------------------------------------------
(* Properties.  Clicks and what happens to the gateway are bounded, so that each   *)
(* temporal property can say what holds for good once they are over.           *)

AtRest(q) ==
    /\ calls = {} /\ fetch[q].pc = "idle"
    /\ \A f \in Forms : login[f].at = "none"

\* With nothing under way, the page shows what there is: no handler forgets a query
\* its request changed, and no fetch that was sent before a write ends what the write
\* began (invalidateQueries in the pages' handlers).  What polls is left to the next
\* one.  A handler may leave what a failed request, or a saved token, has changed
\* behind it, except on the accounts page, which fetches its list whatever comes (run).
NothingStale ==
    \A q \in Queries \ Polled :
       AtRest(q) /\ (q \in missed => On("accounts")) => cache[q] = store[q]

\* A page comes to show what there is and keeps showing it: no poll stops, and none
\* brings an old answer last (refetchInterval of the overview and the model pages).
\* What polls does so whatever has failed.
ScreenCatchesUp == <>[](\A q \in Queries : q \in Polled \/ q \notin missed => cache[q] = store[q])

\* No button stays disabled and no question stays "running" after its handler is
\* through, whichever way that ends (run, ConfirmDialog).
BusyEnds == <>[](ui.busy = "none" /\ ui.running = {})

\* A deletion that is confirmed is of the rows its question was asked about, all of
\* them, whatever the list and the selection have become since (ConfirmDialog).
DeletesWhatItAsked ==
    [][\A c \in calls' \ calls :
          c.pc = "sent" /\ c.op \in {"deleteOne", "deleteMany", "deleteKey"} =>
             {d.row : d \in {e \in calls' : e.n = c.n}} = ui.confirm.rows]_vars

\* The table of the prices never shows an empty page while it has rows: neither a
\* filter nor a fetch leaves it on a page that is gone (autoResetPageIndex).
NoEmptyPage ==
    On("prices") /\ Total > 0 => ui.draft.index * ui.draft.size < Total

\* The documentation shows the article of the address: after a link, after back and
\* forward, and after a reload (slugFromPath, navigate and onPop).
ArticleOfTheAddress == On("docs") => ui.open = slugFromPath(Address(ui.draft))

Left(f) == login[f].kind = "kirosso" /\ login[f].seen /\ ~Mounted(f)

\* A sign-in through the hosted page whose form is gone gives the port back without
\* its deadline (KiroSsoForm's clean-up, CancelKiroSsoLogin).
LoginsFreed == <>[](\A f \in Forms : Left(f) => ~Active(f))

\* The logs on the usage page come to be those of the key whose card is shown, though
\* logs of the key before may arrive later (fetchLogs and its interval).
LogsFollowTheKey == <>[](CardShown => usage.logs = usage.data)
=============================================================================
