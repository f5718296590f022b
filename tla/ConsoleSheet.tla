----------------------------- MODULE ConsoleSheet ------------------------------
(***************************************************************************)
(* The sheet of one account (pages/accounts/detail-sheet.tsx).  Here Rows  *)
(* are models: "accounts" is the record of the account, with its manual    *)
(* models as rows and its allowlist as those that are on, and              *)
(* "account-models" is its catalogue.  Of the sheet's fields only that for *)
(* a new model counts; a machine id or an address that is not valid is     *)
(* never sent.                                                             *)
(***************************************************************************)
EXTENDS ConsoleAccounts

CatalogueQ == {"account-models"}

NoList == {AllIds}   \* no allowlist: every model routes

OpenSheet == On("sheet") /\ Clear /\ ui.draft # "closed"

IdleSheet == OpenSheet /\ ui.busy = "none"

\* The sheet's own run does not fetch the list anew: its handlers do.
RunSheet(op, writes) ==
    IdleSheet /\ Click(Req(op, AllIds, writes), Busily)

Record == cache["accounts"]

modelList == Shown("account-models")

isModelEnabled(m) == Record.on = NoList \/ m \in Record.on

\* What the test and warm-up pickers offer.
routableModelList == {m \in modelList : isModelEnabled(m)}

-----------------------------------------------------------------------------
(* The allowlist and the catalogue. *)

AllowReq(op, list) ==
    [Req(op, AllIds, AccountsQ) EXCEPT !.ons = list, !.offs = (Rows \cup NoList) \ list]

saveEnabledModels(list) ==
    IdleSheet /\ Click(AllowReq("enabledModels", list), Busily)

\* A list as long as the catalogue is saved as no list.
toggleModel(m) ==
    LET base == IF Record.on = NoList THEN modelList ELSE Record.on
        next == IF m \in base THEN base \ {m} ELSE base \cup {m}
    IN  saveEnabledModels(IF Cardinality(next) = Cardinality(modelList) THEN NoList ELSE next)

ModelChips ==
    \/ Record.on # NoList /\ saveEnabledModels(NoList)
    \/ Record.on # {} /\ saveEnabledModels({})
    \/ \E m \in modelList \cup Record.rows : toggleModel(m)

\* The list is sent as a whole.
saveExtraModels(n, list) ==
    [Req("extra", AllIds, AccountsQ) EXCEPT !.n = n, !.adds = list, !.drops = Spare \ list]

\* The second request of a handler that saves something and has the catalogue
\* fetched from the provider; its failure is ignored.
Refetch(c) ==
    [Req("catalogue", AllIds, CatalogueQ) EXCEPT !.n = c.n, !.adds = c.adds, !.drops = c.drops]

TakeSaved(c) ==
    /\ Answered(c, {"extra", "allowPaid"})
    /\ IF c.ok THEN Settle(c, {Refetch(c)}, {}, ui)
       ELSE Settle(c, {}, {}, EndRun(c, ui))

TakeRefetched(c) ==
    /\ Answered(c, {"catalogue"})
    /\ Settle(c, {}, AccountsQ \cup CatalogueQ, EndRun([c EXCEPT !.ok = TRUE], ui))

\* A model that is listed is not added again.
NewModels == IF ui.draft = "model" THEN Spare \ Record.rows ELSE {}

\* Enter in the field adds the model whatever is under way.
addModel ==
    /\ OpenSheet /\ NewModels # {}
    /\ Click(saveExtraModels(clicks + 1, Record.rows \cup NewModels), [Busily EXCEPT !.draft = "saved"])

RemoveModel ==
    /\ IdleSheet
    /\ \E m \in Record.rows : Click(saveExtraModels(clicks + 1, Record.rows \ {m}), Busily)

\* The model is tried first, and added by a second run inside the first, with the
\* list of the click.
probeAndAdd ==
    /\ IdleSheet /\ ui.draft = "model"
    /\ Click([Req("probeNew", AllIds, {}) EXCEPT
                !.adds = IF NewModels = {} THEN {} ELSE Record.rows \cup NewModels],
             Busily)

TakeProbe(c) ==
    /\ Answered(c, {"probeNew"})
    /\ IF c.ok /\ c.adds # {}
       THEN Settle(c, {saveExtraModels(c.n, c.adds)}, {}, EndRun(c, [ui EXCEPT !.draft = "saved"]))
       ELSE Settle(c, {}, {}, EndRun([c EXCEPT !.ok = TRUE], ui))

refreshModelCache == RunSheet("catalogueOnly", CatalogueQ)

-----------------------------------------------------------------------------
(* The account. *)

TypeInSheet ==
    OpenSheet /\ \E d \in {"saved", "model"} : Touch([ui EXCEPT !.draft = d])

saveIdentity == RunSheet("record", AccountsQ)

generateMachineId == RunSheet("read", {})

\* The switch waits for itself only.
setEnabled ==
    /\ OpenSheet /\ ui.busy # "enabled"
    /\ Click(Req("enabled", AllIds, AccountsQ), [ui EXCEPT !.busy = "enabled"])

HasOverage == ui.kind = "kiro"

pullOverage == RunSheet("record", AccountsQ)

setOverage == RunSheet("record", AccountsQ)

HasFreeTier == ui.kind = "zen"

setAllowPaid == RunSheet("allowPaid", AccountsQ)

saveEgress == RunSheet("record", AccountsQ)

refreshAccount == RunSheet("record", AccountsQ)

warmup == RunSheet("record", AccountsQ)

\* What is picked, or what the account routes, or else the provider's own default.
runTest == RunSheet("test", {})

SetAsDefault == routableModelList # {} /\ RunSheet("record", AccountsQ)

copyJson == RunSheet("read", {})

\* "record" stands for every handler that changes the account and waits for its
\* turn, "read" for those that change nothing; a test may save a token.
SavingOps == {"enabledModels", "enabled", "record"}

ReadingOps == {"read", "test"}

TakeSheet(c) ==
    /\ On("sheet")
    /\ Answered(c, SavingOps \cup ReadingOps \cup {"catalogueOnly"})
    /\ Settle(c, {},
              OnSuccess(c, CASE c.op \in SavingOps -> AccountsQ
                             [] c.op = "catalogueOnly" -> CatalogueQ
                             [] OTHER -> {}),
              EndRun(c, ui))

AskRemove == On("sheet") /\ ui.draft # "closed" /\ AskFirst("remove", {})

ConfirmRemove ==
    /\ On("sheet") /\ Confirms("remove")
    /\ Click(Req("remove", AllIds, AccountsQ), Running("remove"))

\* A refused deletion keeps the question; one that is done closes the sheet.
TakeRemove(c) ==
    /\ Answered(c, {"remove"})
    /\ Settle(c, {}, OnSuccess(c, AccountsQ),
              LET u == Through("remove", ~c.ok)
              IN  IF c.ok THEN [u EXCEPT !.draft = "closed"] ELSE u)

-----------------------------------------------------------------------------

SheetTake(c) ==
    TakeSaved(c) \/ TakeRefetched(c) \/ TakeProbe(c) \/ TakeSheet(c) \/ TakeRemove(c)

(* The sections of the sheet, and the buttons each offers. *)

Header == setEnabled

BasicInfo == saveIdentity \/ generateMachineId

Usage == refreshAccount

WarmupSection == warmup

PaidModels == HasFreeTier /\ setAllowPaid

Overage == HasOverage /\ (pullOverage \/ setOverage)

Egress == saveEgress

ModelsSection == refreshModelCache \/ (modelList # {} /\ ModelChips)

AddManual == TypeInSheet \/ addModel \/ probeAndAdd

TestSection == runTest \/ SetAsDefault

Footer == copyJson \/ AskRemove \/ ConfirmRemove

SheetOperate ==
    /\ On("sheet")
    /\ \/ Header \/ BasicInfo \/ Usage \/ WarmupSection \/ PaidModels \/ Overage
       \/ Egress \/ ModelsSection \/ RemoveModel \/ AddManual \/ TestSection \/ Footer
=============================================================================
