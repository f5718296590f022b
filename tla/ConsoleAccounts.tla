---------------------------- MODULE ConsoleAccounts ----------------------------
(***************************************************************************)
(* The accounts page (pages/accounts/index.tsx) on top of the data table   *)
(* (components/data-table.tsx): the buttons of the header, of a pool, of   *)
(* the bar for selected accounts and of each account's menu.  The rows are *)
(* one pool; of an account's status only whether it is enabled counts.     *)
(***************************************************************************)
EXTENDS ConsoleCore

CONSTANT AllIds   \* a request about every account the page lists

AccountsQ == {"accounts"}

Accounts == Shown("accounts")

OnAccounts == On("accounts") /\ Clear

\* A handler that throws keeps its marker.
EndRun_OnSuccess(c, u) == IF c.ok THEN [u EXCEPT !.busy = "none"] ELSE u

\* run: the marker goes whichever handler it names, and the list is fetched anew.
EndRun(c, u) == [u EXCEPT !.busy = "none"]

\* One marker stands for all: the buttons that look at it wait for any.
Busily == [ui EXCEPT !.busy = "run"]

-----------------------------------------------------------------------------
(* What the page lists.  The filters are part of the click they matter to. *)

accountStatus(a) == IF IsOn("accounts", a) THEN "active" ELSE "disabled"

\* What the toolbar can leave on screen.  The filter starts at the accounts that can
\* route.
Filters == {"active", "all"}

Visible(filter) == {a \in Accounts : filter = "all" \/ accountStatus(a) = filter}

\* A pool with one visible account is a plain row.
PoolRows(filter) == IF Cardinality(Visible(filter)) > 1 THEN Visible(filter) ELSE {}

\* The selection keeps accounts the filter hides, not those that are gone.
SelectedIds == Accounts \cap ui.sel

SelectRows(sel) == OnAccounts /\ Touch([ui EXCEPT !.sel = sel])

\* The box of several rows takes all of them out only when all are in.
SelectAll(rows) ==
    /\ rows # {}
    /\ SelectRows(IF rows \subseteq ui.sel THEN ui.sel \ rows ELSE ui.sel \cup rows)

SelectAccount ==
    \/ \E a \in Accounts : SelectRows(IF a \in ui.sel THEN ui.sel \ {a} ELSE ui.sel \cup {a})
    \/ \E filter \in Filters : SelectAll(Visible(filter))

\* A pool's header, which stands for its rows while they are folded away.
groupRow == \E filter \in Filters : SelectAll(PoolRows(filter))

-----------------------------------------------------------------------------
(* Handlers.  An account's menu is open to clicks whatever is under way. *)

InMenu(a) == OnAccounts /\ a \in UNION {Visible(filter) : filter \in Filters}

\* "check" is a test, a refresh, a refresh of the models, a warm-up.
RowOps == {"check", "copy", "toggle"}

\* Only a copy leaves the account as it is.
RowReq(op, a) ==
    LET req == Req("row", AllIds, IF op = "copy" THEN {} ELSE AccountsQ)
    IN  IF op # "toggle" THEN req
        ELSE IF IsOn("accounts", a) THEN [req EXCEPT !.offs = {a}]
        ELSE [req EXCEPT !.ons = {a}]

RowAction(op, a) == InMenu(a) /\ Click(RowReq(op, a), Busily)

AskDelete(a) == InMenu(a) /\ AskFirst("deleteOne", {a})

\* One request for all of ids.
BatchReq(action, ids) ==
    [Req("batch", AllIds, AccountsQ) EXCEPT !.ons = IF action = "enable" THEN ids ELSE {},
                                            !.offs = IF action = "disable" THEN ids ELSE {}]

Batch(action, ids) == Click(BatchReq(action, ids), Busily)

\* A request for each of ids, all at once.
Loop(op, ids, drops) ==
    LET gone(a) == IF drops THEN {a} ELSE {}
    IN  {[Req(op, a, AccountsQ) EXCEPT !.drops = gone(a), !.offs = gone(a)] : a \in ids}

RefreshAllModels == Click(Req("row", AllIds, AccountsQ), Busily)

\* Without ids, every account that is a candidate.
Warmup(many) == Click(Req("warmup", many, AccountsQ), Busily)

Idle == OnAccounts /\ ui.busy = "none"

HeaderButtons ==
    /\ Idle /\ Accounts # {}
    /\ \/ Batch("refreshAll", Accounts)
       \/ RefreshAllModels
       \/ Warmup(FALSE)

PoolButtons ==
    /\ Idle
    /\ \E rows \in {PoolRows(filter) : filter \in Filters} \ {{}} :
          \/ \E action \in {"enable", "disable"} : Batch(action, rows)
          \/ Warmup(TRUE)

BulkBar == SelectedIds # {}

ClearSelection == BulkBar /\ SelectRows({})

BulkRefreshModels ==
    Send(Loop("bulkModels", SelectedIds, FALSE), Busily)

BulkDelete == AskFirst("deleteMany", SelectedIds)

BulkButtons ==
    /\ Idle /\ BulkBar
    /\ \/ \E action \in {"enable", "disable", "refreshAll"} : Batch(action, SelectedIds)
       \/ BulkRefreshModels
       \/ Warmup(Cardinality(SelectedIds) > 1)
       \/ BulkDelete

\* The accounts that are selected when the answer is given.
DeletedIds_AtAnswer == IF ui.confirm.kind = "deleteMany" THEN SelectedIds ELSE ui.confirm.rows

\* The question keeps the accounts it was asked about.
DeletedIds == ui.confirm.rows

\* One dialog asks both questions.
ConfirmDeletion ==
    /\ On("accounts") /\ ui.confirm # NoConfirm /\ ui.running = {}
    /\ Send(Loop(ui.confirm.kind, DeletedIds, TRUE),
            [Running("deletion") EXCEPT !.busy = "run"])

-----------------------------------------------------------------------------
(* When the answer is there. *)

TakeRow(c) ==
    /\ On("accounts")
    /\ Answered(c, {"row"})
    /\ Settle(c, {}, AccountsQ, EndRun(c, ui))

\* Success drops the selection, whatever has been selected since.
TakeBatch(c) ==
    /\ Answered(c, {"batch"})
    /\ Settle(c, {}, AccountsQ, EndRun(c, IF c.ok THEN [ui EXCEPT !.sel = {}] ELSE ui))

TakeWarmup(c) ==
    /\ Answered(c, {"warmup"})
    /\ Settle(c, {}, AccountsQ, EndRun(c, IF c.ok /\ c.row THEN [ui EXCEPT !.sel = {}] ELSE ui))

\* allSettled: the loop is through when all are, and has not failed if one did.
TakeLoop(c) ==
    /\ Answered(c, {"bulkModels"})
    /\ IF Others(c) # {} THEN Settle(c, {}, {}, ui)
       ELSE Settle(c, {}, AccountsQ, EndRun([c EXCEPT !.ok = TRUE], ui))

\* `run' reports an error: the dialog closes all the same.
TakeDeletion(c) ==
    /\ Answered(c, {"deleteOne", "deleteMany"})
    /\ IF Others(c) # {} THEN Settle(c, {}, {}, ui)
       ELSE LET many == c.op = "deleteMany"
                done == EndRun([c EXCEPT !.ok = many \/ @], IF many THEN [ui EXCEPT !.sel = {}] ELSE ui)
            IN  Settle(c, {}, AccountsQ,
                       [done EXCEPT !.running = {}, !.confirm = NoConfirm])

-----------------------------------------------------------------------------

AccountsTake(c) ==
    TakeRow(c) \/ TakeBatch(c) \/ TakeWarmup(c) \/ TakeLoop(c) \/ TakeDeletion(c)

AccountsOperate ==
    /\ On("accounts")
    /\ \/ SelectAccount \/ groupRow
       \/ \E a \in Accounts : AskDelete(a) \/ \E op \in RowOps : RowAction(op, a)
       \/ HeaderButtons \/ PoolButtons \/ BulkButtons \/ ClearSelection \/ ConfirmDeletion
=============================================================================
