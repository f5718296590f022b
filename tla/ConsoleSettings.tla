---------------------------- MODULE ConsoleSettings ----------------------------
(***************************************************************************)
(* The sections of the settings page (pages/settings).  Each has a query   *)
(* of its own, "section" here, and edits a copy of what it holds.          *)
(*                                                                         *)
(* Of the values of a section, the set of its fields that are not at their *)
(* default counts, content.on.  A Spare row among them is one the section  *)
(* does not save: a bad address, a rule that matches nothing.  A deployed  *)
(* relay's secret, which the server invents when the source is asked for,  *)
(* is left out.                                                            *)
(***************************************************************************)
EXTENDS ConsoleCore, Sequences

SectionQ == {"section"}

\* In the order of the menu.  The password has no query: see ConsoleSessions.
Sections == <<"general", "thinking", "endpoint", "auto-route", "egress", "relay",
              "prompt-filter", "danger">>

NAV == {Sections[i] : i \in DOMAIN Sections}

-----------------------------------------------------------------------------
(* The copy. *)

ProxyModes == {"socks5", "http", "relay"}

\* An https proxy is shown as an http one, and one that is not understood as none.
toForm(on) ==
    [mode |-> CASE "https" \in on -> "http"
                [] on \cap ProxyModes # {} -> CHOOSE m \in on : TRUE
                [] OTHER -> "direct",
     host |-> on \cap {"socks5", "http", "https"} # {}, badPool |-> FALSE]

toProxyURL(form) == IF form.mode = "direct" THEN {} ELSE {form.mode}

DraftOf(on) == IF page = "egress" THEN toForm(on) ELSE on

\* useDraft: a fetch that brings something else replaces the copy, edited or not.
Resync(got, u) ==
    IF got.on = cache["section"].on THEN u ELSE [u EXCEPT !.draft = DraftOf(got.on)]

Dirty == ui.draft # DraftOf(cache["section"].on)

CanSave(valid) == Dirty /\ valid /\ ~Pending("save")

NoneRefused == ui.draft \cap Spare = {}

Edit(section, fields) ==
    /\ On(section)
    /\ \E f \in fields :
          Touch([ui EXCEPT !.draft = IF f \in @ THEN @ \ {f} ELSE @ \cup {f}])

EditGeneral == Edit("general", Rows \ Spare)

EditThinking == Edit("thinking", Rows \ Spare)

EditEndpoint == Edit("endpoint", Rows \ Spare)

\* A rule starts without a match, which has to be typed, or the rule removed.
EditPromptFilter == Edit("prompt-filter", Rows)

\* ModelCombobox: an option, or an id that is typed and is part of none.
Picks(options) == options \cup (Rows \ options)

\* ModelListPicker: adds what is not in the list, or removes what is.
ListPicks(list, options) == Picks(options \ list) \cup list

\* The models that are listed, without the names this gateway answers to itself:
\* those of the section as it was last fetched.
RouteOptions == Shown("options") \ Shown("section")

EditAutoRoute == On("auto-route") /\ Edit("auto-route", ListPicks(ui.draft, RouteOptions))

EditProxy ==
    /\ On("egress")
    /\ \/ \E mode \in {"direct"} \cup ProxyModes : Touch([ui EXCEPT !.draft.mode = mode])
       \/ ui.draft.mode \in {"socks5", "http"} /\ Touch([ui EXCEPT !.draft.host = ~@])
       \/ Touch([ui EXCEPT !.draft.badPool = ~@])

ProxyError == ui.draft.badPool \/ (ui.draft.mode \in {"socks5", "http"} /\ ~ui.draft.host)

\* One address; ui.sel is the secret, which is never fetched.
EditRelay ==
    /\ On("relay")
    /\ \E url \in {{}} \cup {{r} : r \in Rows} : Touch([ui EXCEPT !.draft = url])

TypeSecret == On("relay") /\ \E s \in {{}, Rows} : Touch([ui EXCEPT !.sel = s])

-----------------------------------------------------------------------------
(* Saving. *)

SaveReq(on) ==
    [Req("save", Nobody, SectionQ) EXCEPT !.ons = on,
                                          !.offs = (Rows \cup ProxyModes \cup {"https"}) \ on]

Save(section, valid) == On(section) /\ CanSave(valid) /\ Click(SaveReq(ui.draft), ui)

SaveGeneral == Save("general", TRUE)

SaveThinking == Save("thinking", TRUE)

SaveEndpoint == Save("endpoint", TRUE)

SavePromptFilter == Save("prompt-filter", NoneRefused)

\* The gateway lists its own names among the models.
SaveAutoRoute ==
    /\ On("auto-route") /\ CanSave(TRUE)
    /\ Click([SaveReq(ui.draft) EXCEPT !.writes = {"section", "options"}], ui)

SaveProxy == On("egress") /\ CanSave(~ProxyError) /\ Click(SaveReq(toProxyURL(ui.draft)), ui)

SaveRelay ==
    /\ On("relay") /\ (Dirty \/ ui.sel # {}) /\ NoneRefused /\ ~Pending("save")
    /\ Click(SaveReq(ui.draft), ui)

Saved == IF On("auto-route") THEN {"section", "options"} ELSE SectionQ

TakeSave(c) ==
    /\ Answered(c, {"save"}) /\ ~On("relay")
    /\ Settle(c, {}, OnSuccess(c, Saved), ui)

\* Success drops the secret in the field, even one typed since.
TakeSaveRelay(c) ==
    /\ Answered(c, {"save"}) /\ On("relay")
    /\ Settle(c, {}, OnSuccess(c, SectionQ), IF c.ok THEN [ui EXCEPT !.sel = {}] ELSE ui)

-----------------------------------------------------------------------------
(* What else the sections do. *)

\* The test is of what is typed, and waits for no other test.
TestRelay ==
    /\ On("relay") /\ (ui.draft # {} \/ cache["section"].on # {})
    /\ Click(Req("relayTest", Nobody, {}), ui)

TakeTestRelay(c) == Answered(c, {"relayTest"}) /\ Settle(c, {}, {}, [ui EXCEPT !.shown = TRUE])

\* "stats" is what the shell and the overview show, "logs" the request log.
AskDanger == On("danger") /\ \E kind \in {"stats", "logs"} : AskFirst(kind, {})

ConfirmDanger ==
    /\ On("danger") /\ ui.confirm # NoConfirm /\ ui.running = {}
    /\ Click(Req(ui.confirm.kind, Nobody, {ui.confirm.kind}), Running("danger"))

\* An error is reported where it happens; whichever question is open then is closed.
TakeDanger(c) ==
    /\ Answered(c, {"stats", "logs"})
    /\ Settle(c, {}, OnSuccess(c, {c.op}), Through("danger", FALSE))

-----------------------------------------------------------------------------
(* The menu, as a page of its own: ui.open is the section that is lit, ui.sel those *)
(* in view.                                                                  *)

\* Scrolling brings other sections into view, at most three, of which the first is
\* lit.  With none in view the one that was lit stays.
useActiveSection ==
    /\ On("settings")
    /\ \E i \in DOMAIN Sections, n \in 0 .. 3 :
          Touch([ui EXCEPT !.sel = {Sections[j] : j \in (i .. i + n - 1) \cap DOMAIN Sections},
                           !.open = IF n = 0 THEN @ ELSE Sections[i]])

\* The section picked is lit at once, and scrolled to.
PickSection == On("settings") /\ \E s \in NAV : Touch([ui EXCEPT !.open = s])

-----------------------------------------------------------------------------

SettingsTake(c) ==
    TakeSave(c) \/ TakeSaveRelay(c) \/ TakeTestRelay(c) \/ TakeDanger(c)

SettingsOperate ==
    /\ page \in NAV \cup {"settings"}
    /\ \/ useActiveSection \/ PickSection
       \/ EditGeneral \/ EditThinking \/ EditEndpoint \/ EditAutoRoute
       \/ EditProxy \/ EditRelay \/ TypeSecret \/ EditPromptFilter
       \/ SaveGeneral \/ SaveThinking \/ SaveEndpoint \/ SaveAutoRoute
       \/ SaveProxy \/ SaveRelay \/ SavePromptFilter
       \/ TestRelay \/ AskDanger \/ ConfirmDanger
=============================================================================
