------------------------------ MODULE ConsolePool ------------------------------
(***************************************************************************)
(* Two dialogs over the accounts page: a pool's models and settings        *)
(* (pages/accounts/pool-dialog.tsx), and the export (export-dialog.tsx).   *)
(*                                                                         *)
(* On page "pool", Rows are models: those of the members' catalogues, on   *)
(* where every member has them on.  ui.draft is the set of fields that     *)
(* hold something other than what is saved; ui.sel the models the filter   *)
(* leaves out.  The catalogues that the members fetch in the background    *)
(* after a model was added are left out, and the one fetch, three seconds  *)
(* later, that hopes to see them.                                          *)
(***************************************************************************)
EXTENDS ConsoleAccounts

PoolIdle == On("pool") /\ ui.busy = "none"

\* Models of the members that the filter shows.
PoolModels == Shown("account-models") \ ui.sel

AllOn(m) == IsOn("accounts", m)

Type(field) ==
    /\ On("pool")
    /\ Touch([ui EXCEPT !.draft = IF field \in @ THEN @ \ {field} ELSE @ \cup {field}])

Filter == On("pool") /\ \E hidden \in SUBSET Shown("account-models") : Touch([ui EXCEPT !.sel = hidden])

ApplyReq(models, on) ==
    [Req("apply", AllIds, AccountsQ) EXCEPT !.ons = IF on THEN models ELSE {},
                                            !.offs = IF on THEN {} ELSE models]

Apply(models, on) == PoolIdle /\ Click(ApplyReq(models, on), Busily)

\* Enable all and disable all act on what the filter shows.
AllButtons == PoolModels # {} /\ \E on \in BOOLEAN : Apply(PoolModels, on)

ModelBoxes == \E m \in PoolModels : Apply({m}, ~AllOn(m))

\* Whatever comes back, the list is fetched anew.
TakeApply(c) == Answered(c, {"apply"}) /\ Settle(c, {}, AccountsQ, EndRun(c, ui))

SaveSetting(field) ==
    /\ PoolIdle /\ field \in ui.draft
    /\ Click(Req(field, AllIds, {"settings"}), Busily)

SavePrefix == SaveSetting("prefix")

SaveTestModel == SaveSetting("testModel")

\* Success drops what is typed, even since.
TakeSetting(c) ==
    /\ On("pool") /\ Answered(c, {"prefix", "testModel"})
    /\ Settle(c, {}, OnSuccess(c, {"settings"}),
              EndRun(c, IF c.ok THEN [ui EXCEPT !.draft = @ \ {c.op}] ELSE ui))

AddReq(n) == [Req("addModel", AllIds, AccountsQ) EXCEPT !.n = n]

AddPoolModel == PoolIdle /\ "model" \in ui.draft /\ Click(AddReq(clicks + 1), Busily)

TakeAddModel(c) ==
    /\ Answered(c, {"addModel"})
    /\ Settle(c, {}, OnSuccess(c, AccountsQ),
              EndRun(c, IF c.ok THEN [ui EXCEPT !.draft = @ \ {"model"}] ELSE ui))

\* Enter and the button try the model through one member first; it is added with
\* the id that was typed then.
ProbePoolModel ==
    PoolIdle /\ "model" \in ui.draft /\ Click(Req("probePool", AllIds, {}), Busily)

TakePoolProbe(c) ==
    /\ Answered(c, {"probePool"})
    /\ IF c.ok THEN Settle(c, {AddReq(c.n)}, {}, Busily)
       ELSE Settle(c, {}, {}, EndRun(c, ui))

PoolTake(c) == TakeApply(c) \/ TakeSetting(c) \/ TakeAddModel(c) \/ TakePoolProbe(c)

PoolOperate ==
    /\ On("pool")
    /\ \/ \E field \in {"prefix", "testModel", "model"} : Type(field)
       \/ Filter \/ AllButtons \/ ModelBoxes \/ SavePrefix \/ SaveTestModel
       \/ AddPoolModel \/ ProbePoolModel

-----------------------------------------------------------------------------
(* The export: ui.sel is what is ticked, ui.shown that its text is shown. *)

ExportIsOpen == On("export") /\ ui.open = AllIds

\* Opening the dialog ticks what was selected on the page, or everything.
OpenExport ==
    /\ On("export") /\ ui.open = Nobody
    /\ \E preselected \in SUBSET Accounts :
          Touch([ui EXCEPT !.open = AllIds, !.shown = FALSE,
                           !.sel = IF preselected = {} THEN Accounts ELSE preselected])

TickExport ==
    /\ ExportIsOpen /\ ~ui.shown
    /\ \E ids \in {ui.sel \cup {a} : a \in Accounts} \cup {ui.sel \ {a} : a \in Accounts} \cup {Accounts, {}} :
          Touch([ui EXCEPT !.sel = ids])

ExportNow ==
    /\ ExportIsOpen /\ ~ui.shown
    /\ ui.busy = "none" /\ ui.sel # {}
    /\ Click(Req("export", ui.sel, {}), Busily)

\* The text is shown whatever is ticked by then.
TakeExport(c) ==
    /\ Answered(c, {"export"})
    /\ Settle(c, {}, {}, EndRun(c, [ui EXCEPT !.shown = c.ok \/ @]))

LeaveExport ==
    /\ ExportIsOpen
    /\ \/ ui.shown /\ Touch([ui EXCEPT !.shown = FALSE])
       \/ Touch([ui EXCEPT !.open = Nobody])
=============================================================================
