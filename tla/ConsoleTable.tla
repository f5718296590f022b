------------------------------ MODULE ConsoleTable -----------------------------
(***************************************************************************)
(* The table that pages list their rows in (components/data-table.tsx), as *)
(* the page of the prices uses it: filtered, ordered and cut into pages.   *)
(* Of the rows only their number counts for that.  What is selected, and   *)
(* the pools that group rows, are in ConsoleAccounts.                      *)
(***************************************************************************)
EXTENDS ConsoleCore

\* ui.draft is the page that is shown, from 0, and the rows per page; ui.sel the
\* rows the filters leave out.
FirstPage == [index |-> 0, size |-> 1]

\* They stand for 10, 25, 50 and 100.
PageSizes == {1, 2}

TableRows == Shown("catalogue") \ ui.sel

Total == Cardinality(TableRows)

PageCount == (Total + ui.draft.size - 1) \div ui.draft.size

\* The page that is shown is kept.
AutoReset_Never(u) == u

\* autoResetPageIndex: other rows, or the same in another order, are shown from the
\* first page on.
AutoReset(u) == [u EXCEPT !.draft.index = 0]

Rearrange(hidden) == Touch(AutoReset([ui EXCEPT !.sel = hidden]))

\* The search, the provider and the free models only.
FilterRows == \E hidden \in SUBSET Shown("catalogue") : Rearrange(hidden)

SortRows == Rearrange(ui.sel)

GoTo(index, size) ==
    Total > 0 /\ Touch([ui EXCEPT !.draft = [index |-> index, size |-> size]])

\* The row on top of the page stays on the page.
Pager ==
    LET at == ui.draft
    IN  \/ at.index > 0 /\ GoTo(at.index - 1, at.size)
        \/ at.index + 1 < PageCount /\ GoTo(at.index + 1, at.size)
        \/ \E size \in PageSizes : GoTo((at.index * at.size) \div size, size)

\* A fetch that brings the rows that are there changes nothing.
Relisted(rows, u) == IF rows = Shown("catalogue") THEN u ELSE AutoReset(u)

TableSteps == On("prices") /\ (FilterRows \/ SortRows \/ Pager)
=============================================================================
