------------------------------ MODULE ConsoleKeys ------------------------------
(***************************************************************************)
(* The API key page (pages/api-keys): the switch that requires keys, the   *)
(* table with a switch and four buttons per key, the questions before a    *)
(* deletion, a reset and requiring keys when none is enabled, and the form *)
(* for a new or an existing key.  Names, limits and usage are not told     *)
(* apart, and a limit that is not a number is never sent; whether a key is *)
(* enabled counts.                                                         *)
(***************************************************************************)
EXTENDS ConsoleCore

CONSTANT NewKey   \* the form is for a key that does not exist yet

KeysQ == {"api-keys"}

EnabledCount == Cardinality(cache["api-keys"].on)

OnKeys == On("keys") /\ Clear

-----------------------------------------------------------------------------
(* The card on top: `settings' is on for NewKey when keys are required. *)

TakeRequire(c) ==
    /\ Answered(c, {"require"})
    /\ Settle(c, {}, OnSuccess(c, {"settings"}), ui)

NeedsWarning(want) == want /\ EnabledCount = 0

RequireReq(want) ==
    [Req("require", NewKey, {"settings"}) EXCEPT !.ons = IF want THEN {NewKey} ELSE {},
                                                 !.offs = IF want THEN {} ELSE {NewKey}]

SetRequire ==
    /\ OnKeys /\ ~Pending("require") /\ ~Pending("requireNow")
    /\ LET want == ~IsOn("settings", NewKey)
       IN  IF NeedsWarning(want) THEN AskFirst("require", {NewKey})
           ELSE Click(RequireReq(want), ui)

ConfirmRequire ==
    /\ On("keys") /\ Confirms("require")
    /\ Click([RequireReq(TRUE) EXCEPT !.op = "requireNow"], Running("require"))

\* mutateAsync throws what the mutation has reported.
TakeConfirmedRequire(c) ==
    /\ Answered(c, {"requireNow"})
    /\ Settle(c, {}, OnSuccess(c, {"settings"}), Through("require", ~c.ok))

-----------------------------------------------------------------------------
(* The table. *)

ListedKeys == Shown("api-keys")

Switched(k, on) ==
    [Req("toggleKey", k, KeysQ) EXCEPT !.ons = IF on THEN {k} ELSE {}, !.offs = IF on THEN {} ELSE {k}]

ToggleKey(k) ==
    /\ OnKeys /\ ~Pending("toggleKey")
    /\ Click(Switched(k, ~IsOn("api-keys", k)), ui)

TakeToggle(c) ==
    /\ Answered(c, {"toggleKey"})
    /\ Settle(c, {}, OnSuccess(c, KeysQ), ui)

CopyKey(k) ==
    /\ OnKeys /\ ui.busy # k
    /\ Click(Req("copyKey", k, {}), [ui EXCEPT !.busy = k])

\* The key is shown before it is copied; the marker goes whichever key it is for.
TakeCopy(c) ==
    /\ Answered(c, {"copyKey"})
    /\ Settle(c, {}, {}, [ui EXCEPT !.busy = "none", !.shown = c.ok \/ @])

CloseShownKey == On("keys") /\ ui.shown /\ Touch([ui EXCEPT !.shown = FALSE])

AskAboutKey(k) ==
    /\ On("keys")
    /\ \E kind \in {"delete", "reset"} : AskFirst(kind, {k})

DeleteReq(k) == [Req("deleteKey", k, KeysQ) EXCEPT !.drops = {k}, !.offs = {k}]

ConfirmDeleteKey ==
    /\ On("keys") /\ Confirms("delete")
    /\ \E k \in ui.confirm.rows : Click(DeleteReq(k), Running("delete"))

ConfirmReset ==
    /\ On("keys") /\ Confirms("reset")
    /\ \E k \in ui.confirm.rows : Click(Req("resetKey", k, KeysQ), Running("reset"))

QuestionOf(c) == IF c.op = "deleteKey" THEN "delete" ELSE "reset"

\* An error is reported where it happens: the dialog closes all the same.
TakeConfirmedKey(c) ==
    /\ Answered(c, {"deleteKey", "resetKey"})
    /\ Settle(c, {}, OnSuccess(c, KeysQ), Through(QuestionOf(c), FALSE))

-----------------------------------------------------------------------------
(* The form: it takes the key as it was listed when the form opened. *)

\* saving: the click whose answer this form waits for, 0 when none is.
FormOf(k) == [enabled |-> k = NewKey \/ IsOn("api-keys", k), saving |-> 0]

NoKeyForm == [enabled |-> FALSE, saving |-> 0]

OpenKeyForm(k) ==
    /\ OnKeys
    /\ Touch([ui EXCEPT !.open = k, !.draft = FormOf(k)])

FormFor == ListedKeys \cup (IF Spare \subseteq ListedKeys THEN {} ELSE {NewKey})

FormIsOpen == On("keys") /\ ui.open # Nobody

EditKeyForm ==
    /\ FormIsOpen
    /\ Touch([ui EXCEPT !.draft.enabled = ~@])

\* Every field is sent, changed or not.
SaveKeyReq(k) ==
    IF k = NewKey
    THEN [Req("saveKey", k, KeysQ) EXCEPT !.adds = Spare,
                                          !.ons = IF ui.draft.enabled THEN Spare ELSE {}]
    ELSE [Switched(k, ui.draft.enabled) EXCEPT !.op = "saveKey"]

\* The buttons are disabled while the form's save is under way, the fields are not.
SaveKey ==
    /\ FormIsOpen /\ ui.draft.saving = 0
    /\ Click(SaveKeyReq(ui.open), [ui EXCEPT !.draft.saving = clicks + 1])

Closing(u) == [u EXCEPT !.open = Nobody, !.draft = NoKeyForm]

FormWaitsFor(c) == FormIsOpen /\ ui.draft.saving = c.n

\* onClose closes whichever form is open by then; a new key is shown.
TakeSaveKey(c) ==
    /\ Answered(c, {"saveKey"})
    /\ Settle(c, {}, OnSuccess(c, KeysQ),
              CASE c.ok -> [Closing(ui) EXCEPT !.shown = c.row = NewKey \/ @]
                [] ~c.ok /\ FormWaitsFor(c) -> [ui EXCEPT !.draft.saving = 0]
                [] OTHER -> ui)

CloseKeyForm == FormIsOpen /\ Touch(Closing(ui))

-----------------------------------------------------------------------------

KeysTake(c) ==
    \/ TakeRequire(c) \/ TakeConfirmedRequire(c) \/ TakeToggle(c)
    \/ TakeCopy(c) \/ TakeConfirmedKey(c) \/ TakeSaveKey(c)

KeysOperate ==
    /\ On("keys")
    /\ \/ SetRequire \/ ConfirmRequire \/ ConfirmDeleteKey \/ ConfirmReset
       \/ \E k \in ListedKeys : ToggleKey(k) \/ CopyKey(k) \/ AskAboutKey(k)
       \/ \E k \in FormFor : OpenKeyForm(k)
       \/ EditKeyForm \/ SaveKey \/ CloseKeyForm \/ CloseShownKey
=============================================================================
