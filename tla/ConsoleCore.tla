------------------------------ MODULE ConsoleCore ------------------------------
(***************************************************************************)
(* What the pages of the console share: the queries they show, the         *)
(* requests their handlers have under way, the confirmation dialog, and    *)
(* the server at the other end.                                            *)
(*                                                                         *)
(* The content of a query is the rows it lists and those of them that are  *)
(* switched on; a copy of it is old once anything has been written since.  *)
(* A request is served or fails, and whoever sent it takes its answer in   *)
(* a later step.  One that fails may have changed something before it did, *)
(* or its answer was lost.                                                 *)
(*                                                                         *)
(* A behaviour stays on one page and starts when the page has loaded.      *)
(***************************************************************************)
EXTENDS Naturals, FiniteSets

CONSTANTS
    Rows,       \* keys, accounts, models
    Spare,      \* those of Rows that are not there yet
    Nobody,     \* no row
    MaxClicks   \* MaxClicks[p]: bound on the clicks on page p that send something

ASSUME RowsAssumption == IsFiniteSet(Rows)

VARIABLES
    page,
    store,   \* the server: content of every query
    cache,   \* what the page shows of each
    fetch,   \* the fetch of each query that is under way
    calls,   \* requests of handlers that are under way
    clicks,  \* how many there have been that sent something
    missed,  \* history: queries changed by a request whose handler was told that it failed,
             \* or in passing, and not fetched anew by a handler since
    ui       \* state of the page's components

coreVars == <<page, store, cache, fetch, calls, clicks, missed, ui>>

Content(rows, on) == [rows |-> rows, on |-> on, old |-> FALSE]

NoFetch == [pc |-> "idle", got |-> Content({}, {})]

NoConfirm == [kind |-> "none", rows |-> {}]

\* kind: what the page is about; busy: the marker of its `run'; confirm: the
\* question that is open, and the rows it is about; running: confirmations under
\* way; open: the row, pool or form whose dialog is open; shown: a result is;
\* draft: what is typed; sel: selected rows.
QuietUi == [kind |-> "any", busy |-> "none", confirm |-> NoConfirm, running |-> {},
            open |-> Nobody, shown |-> FALSE, draft |-> "saved", sel |-> {}]

\* The queries the page shows.
Queries == DOMAIN store

\* A page that has loaded shows what there is.
CoreInit(p, contents, screen) ==
    /\ page = p
    /\ store = contents
    /\ cache = store
    /\ fetch = [q \in Queries |-> NoFetch]
    /\ calls = {}
    /\ clicks = 0
    /\ missed = {}
    /\ ui = screen

On(p) == page = p

Shown(q) == cache[q].rows

IsOn(q, row) == row \in cache[q].on

Pending(op) == \E c \in calls : c.op = op

\* Dialogs are modal: the page below takes no clicks.
Clear == ui.confirm = NoConfirm /\ ui.open = Nobody /\ ~ui.shown

-----------------------------------------------------------------------------
(* Handlers. *)

\* A request of handler op about row: the queries whose content it changes, the
\* rows it adds, removes, switches on and off.
Req(op, row, writes) ==
    [n |-> clicks + 1, op |-> op, row |-> row, writes |-> writes,
     adds |-> {}, drops |-> {}, ons |-> {}, offs |-> {}, pc |-> "sent", ok |-> TRUE]

\* A click that sends requests.
Send(reqs, newUi) ==
    /\ clicks < MaxClicks[page]
    /\ calls' = calls \cup reqs
    /\ clicks' = clicks + 1
    /\ ui' = newUi
    /\ UNCHANGED <<page, store, cache, fetch, missed>>

Click(req, newUi) == Send({req}, newUi)

\* A click that sends nothing.
Touch(newUi) ==
    /\ ui' = newUi
    /\ UNCHANGED <<page, store, cache, fetch, calls, clicks, missed>>

Fresh == [NoFetch EXCEPT !.pc = "sent"]

\* A fetch that is under way is good enough.
Invalidated_Joins(Q) ==
    [q \in Queries |-> IF q \in Q /\ fetch[q].pc = "idle" THEN Fresh ELSE fetch[q]]

\* invalidateQueries fetches what is on screen anew; the answer of a fetch that is
\* under way is ignored.
Invalidated(Q) == [q \in Queries |-> IF q \in Q THEN Fresh ELSE fetch[q]]

\* Requests about an account for which the server refreshes its token when it is about
\* to expire, and saves it (ensureValidToken).
TokenSavers == {"test", "probeNew", "probePool", "catalogue", "catalogueOnly", "refreshModels"}

\* What c changes in passing.
Aside(c) == IF c.op \in TokenSavers THEN {"accounts"} \cap Queries ELSE {}

\* What c has changed that its answer does not tell.
Untold(c) == IF c.ok THEN c.writes \cap Aside(c) ELSE c.writes

\* The handler that sent c goes on: with `next' requests, or none.
Settle(c, next, Q, newUi) ==
    /\ calls' = (calls \ {c}) \cup next
    /\ fetch' = Invalidated(Q)
    /\ missed' = (missed \cup Untold(c)) \ Q
    /\ ui' = newUi
    /\ UNCHANGED <<page, store, cache, clicks>>

Answered(c, ops) == c \in calls /\ c.pc = "answered" /\ c.op \in ops

OnSuccess(c, Q) == IF c.ok THEN Q ELSE {}

\* Other requests of the same click.
Others(c) == {d \in calls \ {c} : d.n = c.n}

-----------------------------------------------------------------------------
(* The server and the query cache. *)

\* The contents when c has got as far as W; a token is no row.
Written(c, W) ==
    [q \in Queries |->
        IF q \notin W \cap c.writes THEN store[q]
        ELSE Content((store[q].rows \ c.drops) \cup c.adds,
                     (store[q].on \ c.offs) \cup c.ons)]

\* The content of Q changes: copies of it are old from now on.
Writes(Q, contents) ==
    /\ store' = contents
    /\ cache' = [q \in Queries |-> [cache[q] EXCEPT !.old = @ \/ q \in Q]]
    /\ fetch' = [q \in Queries |->
                    [fetch[q] EXCEPT !.got.old = @ \/ (q \in Q /\ fetch[q].pc = "answered")]]

\* One that fails has changed some of what it changes, or nothing.  From then on
\* `writes' is what it has changed.
ServeCall(n) ==
    \E c \in calls :
       /\ c.n = n /\ c.pc = "sent"
       /\ \E ok \in BOOLEAN : \E W \in SUBSET (c.writes \cup Aside(c)) :
             /\ ok => c.writes \subseteq W
             /\ Writes(W, Written(c, W))
             /\ calls' = (calls \ {c})
                             \cup {[c EXCEPT !.pc = "answered", !.ok = ok, !.writes = W]}
             /\ UNCHANGED <<page, clicks, missed, ui>>

ServeFetch(q) ==
    /\ q \in Queries /\ fetch[q].pc = "sent"
    /\ fetch' = [fetch EXCEPT ![q] = [pc |-> "answered", got |-> store[q]]]
    /\ UNCHANGED <<page, store, cache, calls, clicks, missed, ui>>

\* newUi: what the components make of what was fetched.
TakeFetch(q, newUi) ==
    /\ q \in Queries /\ fetch[q].pc = "answered"
    /\ cache' = [cache EXCEPT ![q] = fetch[q].got]
    /\ fetch' = [fetch EXCEPT ![q] = NoFetch]
    /\ ui' = newUi
    /\ UNCHANGED <<page, store, calls, clicks, missed>>

\* refetchInterval: a fetch under way is joined.
Interval(q) ==
    /\ fetch[q].pc = "idle"
    /\ fetch' = [fetch EXCEPT ![q] = Fresh]
    /\ UNCHANGED <<page, store, cache, calls, clicks, missed, ui>>

-----------------------------------------------------------------------------
(* ConfirmDialog: its buttons are disabled while it runs, Escape is not. *)

AskFirst(kind, rows) ==
    Clear /\ Touch([ui EXCEPT !.confirm = [kind |-> kind, rows |-> rows]])

Dismiss ==
    /\ ui.confirm # NoConfirm
    /\ Touch([ui EXCEPT !.confirm = NoConfirm])

Confirms(kind) == ui.confirm.kind = kind /\ kind \notin ui.running

Running(kind) == [ui EXCEPT !.running = @ \cup {kind}]

\* A handler that threw leaves the question open; one that is through closes
\* whichever question is open by then.
Through(kind, threw) ==
    [ui EXCEPT !.running = @ \ {kind}, !.confirm = IF threw THEN @ ELSE NoConfirm]
=============================================================================
