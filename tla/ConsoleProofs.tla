----------------------------- MODULE ConsoleProofs -----------------------------
(***************************************************************************)
(* What holds of every page of the console, for any rows and any number of *)
(* clicks and forms: the page that is at rest shows what there is, what is *)
(* deleted is what was asked about, the table of the prices has no empty   *)
(* page and the documentation follows the address.                         *)
(*                                                                         *)
(* Every step of the console is of one of a few kinds, named below; what   *)
(* each kind needs of a handler is shown handler by handler, and the       *)
(* invariants are then kept kind by kind.                                  *)
(***************************************************************************)
EXTENDS Console, FiniteSetTheorems, SequenceTheorems, TLAPS

-----------------------------------------------------------------------------
(* Shapes. *)

\* What a page shows, and what is typed into it.
UiFields == {"kind", "busy", "confirm", "running", "open", "shown", "draft", "sel"}

IsUi(u) == u = [x \in UiFields |-> u[x]]

\* A request, from the click to its answer.
CallFields == {"n", "op", "row", "writes", "adds", "drops", "ons", "offs", "pc", "ok"}

IsCall(c) ==
    /\ c = [x \in CallFields |-> c[x]]
    /\ c.pc \in {"sent", "answered"} /\ c.ok \in BOOLEAN /\ (c.pc = "sent" => c.ok)

IsContent(v) == v = [x \in {"rows", "on", "old"} |-> v[x]] /\ v.old \in BOOLEAN

\* A fetch of a query, with the answer that is under way.
IsFetch(f) ==
    f = [x \in {"pc", "got"} |-> f[x]] /\ f.pc \in {"idle", "sent", "answered"} /\ IsContent(f.got)

\* The sign-in of a form.
LoginFields == {"kind", "pc", "at", "res", "seen", "done"}

IsLogin(l) == l = [x \in LoginFields |-> l[x]]

\* Every query has a content, a copy and a fetch.
QueryShapes ==
    /\ store = [q \in Queries |-> store[q]]
    /\ cache = [q \in Queries |-> cache[q]]
    /\ fetch = [q \in Queries |-> fetch[q]]
    /\ \A q \in Queries : IsContent(store[q]) /\ IsContent(cache[q]) /\ IsFetch(fetch[q])

\* The page, its queries and requests are what the code makes of them; of the requests
\* of a click, none has the number of a click to come.
Shapes ==
    /\ IsUi(ui)
    /\ clicks \in Nat
    /\ \A c \in calls : IsCall(c) /\ c.n \in 0 .. clicks
    /\ QueryShapes

\* Every form has a sign-in.
LoginShapes == login = [f \in Forms |-> login[f]] /\ \A f \in Forms : IsLogin(login[f])

\* Sign-ins belong to the page that adds accounts.
LoginInv == ~On("add") => \A f \in Forms : login[f].pc = "idle" /\ login[f].at = "none"

\* What the question that is open may be about.
QuestionInv ==
    /\ On("accounts") => ui.confirm = NoConfirm \/ ui.confirm.kind \in {"deleteOne", "deleteMany"}
    /\ On("danger") => ui.confirm = NoConfirm \/ ui.confirm.kind \in {"stats", "logs"}
    /\ ui.confirm.kind = "delete" => \E k : ui.confirm.rows = {k}

-----------------------------------------------------------------------------
(* Requests. *)

\* Handlers that send several requests at once, and go on when all are answered.
Loops == {"bulkModels", "deleteOne", "deleteMany"}

\* Requests that delete what a question was about.
Deletions == {"deleteOne", "deleteMany", "deleteKey"}

\* The queries that are fetched anew when a request that was served has been taken,
\* by this handler or the one it hands on to.
Refetches(c) ==
    CASE c.op \in {"require", "requireNow", "prefix", "testModel"} -> {"settings"}
      [] c.op \in {"toggleKey", "deleteKey", "resetKey", "saveKey"} -> KeysQ
      [] c.op \in {"row", "batch", "warmup", "enabledModels", "enabled", "record", "remove",
                   "apply", "addModel", "afterAdd", "import", "extra", "allowPaid"} -> AccountsQ
      [] c.op \in Loops -> AccountsQ
      [] c.op = "catalogue" -> AccountsQ \cup CatalogueQ
      [] c.op = "catalogueOnly" -> CatalogueQ
      [] c.op = "save" -> Saved
      [] c.op \in {"stats", "logs"} -> {c.op}
      [] c.op = "resetStats" -> {"stats"}
      [] c.op = "warmupAll" -> {"warmup", "accounts"}
      [] c.op = "ban" -> {"section", "health"}
      [] c.op = "sync" -> {"catalogue"}
      [] OTHER -> {}

\* What the table of the accounts sends one of at a time.
TableOps == {"row", "batch", "warmup"}

\* What the pages with an invariant of their own send, and the table of the accounts.
OfPage(c) ==
    /\ On("prices") => c.op = "sync" /\ c.adds \subseteq Rows
    /\ On("docs") => c.op \in {"curtain", "fade"}
    /\ On("models") => c.op \in {"readRoute", "ban"} /\ c.ons = {} /\ c.offs = {}
    /\ On("accounts") => c.op \in TableOps \cup Loops

\* Every other page.
Elsewhere == ~On("prices") /\ ~On("docs") /\ ~On("models") /\ ~On("accounts")

\* What a request may change in passing, be it on the page or not.
Passing(c) == IF c.op \in TokenSavers THEN AccountsQ ELSE {}

\* A handler has all that its request is sent to change fetched anew.
Sound(c) == c.writes \subseteq Refetches(c) \cup Passing(c) /\ OfPage(c)

\* A click that sends several requests sends them all for one handler.
RequestInv ==
    /\ \A c \in calls : Sound(c) /\ (c.op \in Loops => c.n > 0)
    /\ \A c, d \in calls : c.n = d.n /\ c.op \in Loops => d.op = c.op

\* The handler of c has to deal with q.
Owes(c, q) ==
    \/ c.pc = "answered" /\ q \in c.writes
    \/ c.op \in Loops /\ q \in AccountsQ
    \/ c.op = "catalogue" /\ q \in AccountsQ \cup CatalogueQ
    \/ c.op = "import" /\ c.row.added /\ q \in AccountsQ

\* The sign-in of f has added an account that the page does not know of yet.
LoginOwes(f) ==
    login[f].pc \in {"poll", "complete"} /\ login[f].at = "answered" /\ login[f].res = "ok"

\* The inductive invariant of the page.
Inv == Shapes /\ QuestionInv /\ RequestInv /\ LoginShapes /\ LoginInv

-----------------------------------------------------------------------------
(* Kinds of steps. *)

\* What is shown changes, but no question is put.
Calm(u) == IsUi(u) /\ u.confirm \in {ui.confirm, NoConfirm}

\* A click that sends nothing.
TouchStep == \E u : Calm(u) /\ Touch(u)

\* A click that puts a question.
AskStep ==
    \E kind, rows :
       /\ On("accounts") => kind \in {"deleteOne", "deleteMany"}
       /\ On("danger") => kind \in {"stats", "logs"}
       /\ kind = "delete" => \E k : rows = {k}
       /\ Touch([ui EXCEPT !.confirm = [kind |-> kind, rows |-> rows]])

\* The requests of one click are of one handler; deletions are those that were asked about.
OfClick(reqs) ==
    /\ \A r \in reqs : IsCall(r) /\ r.n = clicks + 1 /\ Sound(r)
    /\ \A r, s \in reqs : r.op = s.op
    /\ \A r \in reqs : r.op \in Deletions => {s.row : s \in reqs} = ui.confirm.rows

\* A click that sends requests.
SendStep == \E reqs, u : Calm(u) /\ OfClick(reqs) /\ Send(reqs, u)

\* A handler goes on with another request.
HandsOn(c, next) ==
    \A d \in next : /\ IsCall(d) /\ d.n = c.n /\ Sound(d)
                    /\ d.op \notin Loops \cup Deletions /\ c.op \notin Loops

\* What a handler may leave behind it: nothing on the page of the accounts, and on the
\* others what it has not been told of.
Forgiven(c) == IF On("accounts") THEN {} ELSE Untold(c)

\* No handler forgets what it owes.
Pays(c, next, Q) ==
    \A q \in Queries :
       Owes(c, q) => q \in Q \cup Forgiven(c) \/ \E d \in (calls \ {c}) \cup next : Owes(d, q)

\* A handler goes on with an answer.
SettleStep ==
    \E c \in calls : \E next, Q, u :
       Calm(u) /\ HandsOn(c, next) /\ Pays(c, next, Q) /\ Settle(c, next, Q, u)

\* Queries are fetched anew.
RefetchStep ==
    \E Q : /\ fetch' = Invalidated(Q)
           /\ clicks' \in {clicks, clicks + 1}
           /\ missed' = missed \ Q
           /\ UNCHANGED <<page, store, cache, calls, ui>>

\* A step of the page's own code.
HandlerStep == TouchStep \/ AskStep \/ SendStep \/ SettleStep \/ RefetchStep

-----------------------------------------------------------------------------
(* What handlers are made of. *)

\* The request a handler makes.
LEMMA ReqFields ==
    ASSUME NEW op, NEW row, NEW writes
    PROVE  LET r == Req(op, row, writes)
           IN  /\ IsCall(r) /\ r.n = clicks + 1 /\ r.op = op /\ r.row = row /\ r.writes = writes
               /\ r.adds = {} /\ r.ons = {} /\ r.offs = {} /\ r.pc = "sent"
  BY DEF Req, IsCall, CallFields

\* A click that sends one request.
LEMMA OneClick ==
    ASSUME NEW r, NEW u, Click(r, u), Calm(u), IsCall(r), r.n = clicks + 1,
           r.op \notin Deletions, Sound(r)
    PROVE  SendStep
  BY DEF Click, SendStep, OfClick

\* A handler that is through once its answer is there.
LEMMA OneSettles ==
    ASSUME NEW c \in calls, NEW Q, NEW u, Settle(c, {}, Q, u), Calm(u),
           \A q \in Queries : Owes(c, q) => q \in Q \cup Forgiven(c)
    PROVE  SettleStep
  <1>1. HandsOn(c, {}) /\ Pays(c, {}, Q)
    BY DEF HandsOn, Pays
  <1> QED BY <1>1 DEF SettleStep

\* What a request owes that is the only one of its handler.
LEMMA OwesWhatItWrote ==
    ASSUME NEW c, Sound(c), c.op \notin Loops \cup {"catalogue", "import"},
           NEW q \in Queries, Owes(c, q)
    PROVE  q \in Untold(c) \/ (c.ok /\ q \in Refetches(c))
  <1>1. q \in c.writes
    BY DEF Owes
  <1>2. q \in Refetches(c) \/ q \in Aside(c)
    BY <1>1 DEF Sound, Passing, Aside, AccountsQ
  <1> QED BY <1>1, <1>2 DEF Untold

\* A request of the table of the accounts owes no more than any other.
LEMMA NothingInPassing ==
    ASSUME NEW c, Sound(c), c.op \in TableOps \cup Loops, NEW q, Owes(c, q)
    PROVE  q \in Refetches(c)
  BY DEF Sound, Passing, TokenSavers, TableOps, Loops, Owes, Refetches

\* A handler that has all it changed fetched anew when it succeeds, and in the table of
\* the accounts whatever comes.
LEMMA SimplySettles ==
    ASSUME Inv, NEW c \in calls, NEW Q, NEW u, Settle(c, {}, Q, u), Calm(u),
           c.op \notin Loops \cup {"catalogue", "import"},
           c.ok \/ c.op \in TableOps => Refetches(c) \subseteq Q
    PROVE  SettleStep
  <1>1. Sound(c)
    BY DEF Inv, RequestInv
  <1>2. ASSUME NEW q \in Queries, Owes(c, q)
        PROVE  q \in Q \cup Forgiven(c)
    <2>1. CASE On("accounts")
      <3>1. c.op \in TableOps
        BY <1>1, <2>1 DEF Sound, OfPage
      <3> QED BY <1>1, <1>2, <3>1, NothingInPassing
    <2>2. CASE ~On("accounts")
      BY <1>1, <1>2, <2>2, OwesWhatItWrote DEF Forgiven
    <2> QED BY <2>1, <2>2
  <1> QED BY <1>2, OneSettles

-----------------------------------------------------------------------------
(* The API keys. *)

\* What the switch of the card on top sends.
LEMMA RequireReqFields ==
    ASSUME NEW want
    PROVE  LET r == RequireReq(want)
           IN  IsCall(r) /\ r.n = clicks + 1 /\ r.op = "require" /\ r.writes = {"settings"}
  <1>1. IsCall(Req("require", NewKey, {"settings"}))
    BY ReqFields
  <1> QED BY <1>1, ReqFields DEF RequireReq, IsCall, CallFields

\* What the switch of a key sends (onToggle).
LEMMA SwitchedFields ==
    ASSUME NEW k, NEW on
    PROVE  LET r == Switched(k, on)
           IN  IsCall(r) /\ r.n = clicks + 1 /\ r.op = "toggleKey" /\ r.row = k /\ r.writes = KeysQ
  <1>1. IsCall(Req("toggleKey", k, KeysQ))
    BY ReqFields
  <1> QED BY <1>1, ReqFields DEF Switched, IsCall, CallFields

\* What the sheet of a key sends (onSubmit).
LEMMA SaveKeyFields ==
    ASSUME NEW k
    PROVE  LET r == SaveKeyReq(k)
           IN  IsCall(r) /\ r.n = clicks + 1 /\ r.op = "saveKey" /\ r.writes = KeysQ
  <1>1. CASE k = NewKey
    <2>1. IsCall(Req("saveKey", k, KeysQ))
      BY ReqFields
    <2> QED BY <1>1, <2>1, ReqFields DEF SaveKeyReq, IsCall, CallFields
  <1>2. CASE k # NewKey
    BY <1>2, SwitchedFields DEF SaveKeyReq, IsCall, CallFields
  <1> QED BY <1>1, <1>2

\* What a confirmed deletion sends.
LEMMA DeleteReqFields ==
    ASSUME NEW k
    PROVE  LET r == DeleteReq(k)
           IN  IsCall(r) /\ r.n = clicks + 1 /\ r.op = "deleteKey" /\ r.row = k /\ r.writes = KeysQ
  <1>1. IsCall(Req("deleteKey", k, KeysQ))
    BY ReqFields
  <1> QED BY <1>1, ReqFields DEF DeleteReq, IsCall, CallFields

\* A request of the page of the keys brings what it changed.
LEMMA SoundOnKeys ==
    ASSUME On("keys"), NEW r,
           \/ r.op \in {"require", "requireNow"} /\ r.writes = {"settings"}
           \/ r.op \in {"toggleKey", "deleteKey", "resetKey", "saveKey"} /\ r.writes = KeysQ
           \/ r.op = "copyKey" /\ r.writes = {}
    PROVE  Sound(r)
  BY DEF Sound, OfPage, On, Refetches, Loops

\* Every click on the page of the keys.
LEMMA KeysOperates ==
    ASSUME Inv, KeysOperate
    PROVE  HandlerStep
  <1> USE DEF HandlerStep
  <1>0. IsUi(ui) /\ On("keys") /\ ~On("accounts") /\ ~On("danger")
    BY DEF Inv, Shapes, KeysOperate, On
  <1>1. CASE SetRequire
    <2>1. CASE AskFirst("require", {NewKey})
      BY <1>0, <2>1 DEF AskFirst, AskStep
    <2>2. ASSUME NEW want, Click(RequireReq(want), ui)
          PROVE  SendStep
      BY <1>0, <2>2, RequireReqFields, SoundOnKeys, OneClick DEF Calm, Deletions
    <2> QED BY <1>1, <2>1, <2>2 DEF SetRequire
  <1>2. CASE ConfirmRequire
    <2> DEFINE r == [RequireReq(TRUE) EXCEPT !.op = "requireNow"]
    <2>1. IsCall(r) /\ r.n = clicks + 1 /\ r.op = "requireNow" /\ r.writes = {"settings"}
      BY RequireReqFields DEF IsCall, CallFields
    <2>2. Click(r, Running("require"))
      BY <1>2 DEF ConfirmRequire
    <2>3. Calm(Running("require"))
      BY <1>0 DEF Running, Calm, IsUi, UiFields
    <2> HIDE DEF r
    <2> QED BY <1>0, <2>1, <2>2, <2>3, SoundOnKeys, OneClick DEF Deletions
  <1>3. CASE ConfirmDeleteKey
    <2>1. PICK k \in ui.confirm.rows : Click(DeleteReq(k), Running("delete"))
      BY <1>3 DEF ConfirmDeleteKey
    <2>2. ui.confirm.rows = {k}
      BY <1>3, <2>1 DEF ConfirmDeleteKey, Confirms, Inv, QuestionInv
    <2>3. OfClick({DeleteReq(k)})
      BY <1>0, <2>2, DeleteReqFields, SoundOnKeys DEF OfClick
    <2>4. Calm(Running("delete"))
      BY <1>0 DEF Running, Calm, IsUi, UiFields
    <2> QED BY <2>1, <2>3, <2>4 DEF Click, SendStep
  <1>4. CASE ConfirmReset
    <2>1. PICK k \in ui.confirm.rows : Click(Req("resetKey", k, KeysQ), Running("reset"))
      BY <1>4 DEF ConfirmReset
    <2>2. Calm(Running("reset"))
      BY <1>0 DEF Running, Calm, IsUi, UiFields
    <2> QED BY <1>0, <2>1, <2>2, ReqFields, SoundOnKeys, OneClick DEF Deletions
  <1>5. ASSUME NEW k, ToggleKey(k)
        PROVE  HandlerStep
    BY <1>0, <1>5, SwitchedFields, SoundOnKeys, OneClick DEF ToggleKey, Calm, Deletions
  <1>6. ASSUME NEW k, CopyKey(k)
        PROVE  HandlerStep
    <2>1. Calm([ui EXCEPT !.busy = k])
      BY <1>0 DEF Calm, IsUi, UiFields
    <2> QED BY <1>0, <1>6, <2>1, ReqFields, SoundOnKeys, OneClick DEF CopyKey, Deletions
  <1>7. ASSUME NEW k, AskAboutKey(k)
        PROVE  HandlerStep
    BY <1>0, <1>7 DEF AskAboutKey, AskFirst, AskStep
  <1>8. ASSUME NEW k, OpenKeyForm(k)
        PROVE  HandlerStep
    <2>1. Calm([ui EXCEPT !.open = k, !.draft = FormOf(k)])
      BY <1>0 DEF Calm, IsUi, UiFields
    <2> QED BY <1>8, <2>1 DEF OpenKeyForm, TouchStep
  <1>9. CASE EditKeyForm
    <2>1. Calm([ui EXCEPT !.draft.enabled = ~@])
      BY <1>0 DEF Calm, IsUi, UiFields
    <2> QED BY <1>9, <2>1 DEF EditKeyForm, TouchStep
  <1>10. CASE SaveKey
    <2>1. Calm([ui EXCEPT !.draft.saving = clicks + 1])
      BY <1>0 DEF Calm, IsUi, UiFields
    <2>2. Click(SaveKeyReq(ui.open), [ui EXCEPT !.draft.saving = clicks + 1])
      BY <1>10 DEF SaveKey
    <2> QED BY <1>0, <2>1, <2>2, SaveKeyFields, SoundOnKeys, OneClick DEF Deletions
  <1>11. CASE CloseKeyForm
    <2>1. Calm(Closing(ui))
      BY <1>0 DEF Calm, IsUi, UiFields, Closing
    <2> QED BY <1>11, <2>1 DEF CloseKeyForm, TouchStep
  <1>12. CASE CloseShownKey
    <2>1. Calm([ui EXCEPT !.shown = FALSE])
      BY <1>0 DEF Calm, IsUi, UiFields
    <2> QED BY <1>12, <2>1 DEF CloseShownKey, TouchStep
  <1> QED BY <1>1, <1>2, <1>3, <1>4, <1>5, <1>6, <1>7, <1>8, <1>9, <1>10, <1>11, <1>12
          DEF KeysOperate

\* What a handler makes of the page when it is through with its question.
LEMMA ThroughIsCalm ==
    ASSUME Inv, NEW kind, NEW threw
    PROVE  Calm(Through(kind, threw))
  <1>1. IsUi(ui)
    BY DEF Inv, Shapes
  <1> QED BY <1>1 DEF Calm, Through, IsUi, UiFields

\* Every answer on the page of the keys.
LEMMA KeysTakes ==
    ASSUME Inv, NEW c \in calls, KeysTake(c)
    PROVE  SettleStep
  <1>0. IsUi(ui) /\ Calm(ui)
    BY DEF Inv, Shapes, Calm
  <1> DEFINE Ops == {"require", "requireNow", "toggleKey", "copyKey", "deleteKey", "resetKey", "saveKey"}
  <1>00. ASSUME NEW Q, NEW u, Settle(c, {}, Q, u), Calm(u), c.op \in Ops,
               c.ok => Refetches(c) \subseteq Q
        PROVE  SettleStep
    BY <1>00, SimplySettles DEF Loops, TableOps
  <1>1. CASE TakeRequire(c)
    <2>1. c.op \in Ops /\ (c.ok => Refetches(c) \subseteq OnSuccess(c, {"settings"}))
      BY <1>1 DEF TakeRequire, Answered, Refetches, Loops, OnSuccess
    <2> QED BY <1>00, <1>0, <1>1, <2>1 DEF TakeRequire
  <1>2. CASE TakeConfirmedRequire(c)
    <2>1. c.op \in Ops /\ (c.ok => Refetches(c) \subseteq OnSuccess(c, {"settings"}))
      BY <1>2 DEF TakeConfirmedRequire, Answered, Refetches, Loops, OnSuccess
    <2> QED BY <1>00, <1>2, <2>1, ThroughIsCalm DEF TakeConfirmedRequire
  <1>3. CASE TakeToggle(c)
    <2>1. c.op \in Ops /\ (c.ok => Refetches(c) \subseteq OnSuccess(c, KeysQ))
      BY <1>3 DEF TakeToggle, Answered, Refetches, Loops, OnSuccess
    <2> QED BY <1>00, <1>0, <1>3, <2>1 DEF TakeToggle
  <1>4. CASE TakeCopy(c)
    <2> DEFINE u == [ui EXCEPT !.busy = "none", !.shown = c.ok \/ @]
    <2>1. c.op \in Ops /\ Refetches(c) = {}
      BY <1>4 DEF TakeCopy, Answered, Refetches, Loops
    <2>2. Calm(u)
      BY <1>0 DEF Calm, IsUi, UiFields
    <2>3. Settle(c, {}, {}, u)
      BY <1>4 DEF TakeCopy
    <2> HIDE DEF u
    <2> QED BY <1>00, <2>1, <2>2, <2>3
  <1>5. CASE TakeConfirmedKey(c)
    <2>1. c.op \in Ops /\ (c.ok => Refetches(c) \subseteq OnSuccess(c, KeysQ))
      BY <1>5 DEF TakeConfirmedKey, Answered, Refetches, Loops, OnSuccess
    <2> QED BY <1>00, <1>5, <2>1, ThroughIsCalm DEF TakeConfirmedKey
  <1>6. CASE TakeSaveKey(c)
    <2>1. c.op \in Ops /\ (c.ok => Refetches(c) \subseteq OnSuccess(c, KeysQ))
      BY <1>6 DEF TakeSaveKey, Answered, Refetches, Loops, OnSuccess
    <2> DEFINE u == CASE c.ok -> [Closing(ui) EXCEPT !.shown = c.row = NewKey \/ @]
                      [] ~c.ok /\ FormWaitsFor(c) -> [ui EXCEPT !.draft.saving = 0]
                      [] OTHER -> ui
    <2>2. Calm([Closing(ui) EXCEPT !.shown = c.row = NewKey \/ @])
      BY <1>0 DEF Calm, IsUi, UiFields, Closing
    <2>3. Calm([ui EXCEPT !.draft.saving = 0])
      BY <1>0 DEF Calm, IsUi, UiFields
    <2>4. Calm(u)
      BY <1>0, <2>2, <2>3
    <2>5. Settle(c, {}, OnSuccess(c, KeysQ), u)
      BY <1>6 DEF TakeSaveKey
    <2> HIDE DEF u
    <2> QED BY <1>00, <2>1, <2>4, <2>5
  <1> QED BY <1>1, <1>2, <1>3, <1>4, <1>5, <1>6 DEF KeysTake

-----------------------------------------------------------------------------
(* The accounts. *)

\* The table of the accounts refetches what its requests change.
LEMMA SoundOnAccounts ==
    ASSUME On("accounts"), NEW r, r.op \in TableOps \cup Loops,
           r.writes \subseteq AccountsQ
    PROVE  Sound(r)
  BY DEF Sound, OfPage, On, Refetches, Loops, TableOps

\* A run of the table leaves the question as it is.
LEMMA BusilyIsCalm ==
    ASSUME Inv
    PROVE  Calm(ui) /\ Calm(Busily)
  BY DEF Inv, Shapes, Calm, Busily, IsUi, UiFields

\* One request for each of ids.
LEMMA LoopFields ==
    ASSUME NEW op, NEW ids, NEW drops
    PROVE  /\ \A r \in Loop(op, ids, drops) : IsCall(r) /\ r.n = clicks + 1 /\ r.op = op /\ r.writes = AccountsQ
           /\ {r.row : r \in Loop(op, ids, drops)} = ids
  <1> DEFINE gone(a) == IF drops THEN {a} ELSE {}
             one(a) == [Req(op, a, AccountsQ) EXCEPT !.drops = gone(a), !.offs = gone(a)]
  <1>1. ASSUME NEW a
        PROVE  /\ IsCall(one(a)) /\ one(a).n = clicks + 1 /\ one(a).op = op
               /\ one(a).writes = AccountsQ /\ one(a).row = a
    <2>1. IsCall(Req(op, a, AccountsQ))
      BY ReqFields
    <2> QED BY <2>1, ReqFields DEF IsCall, CallFields
  <1>2. Loop(op, ids, drops) = {one(a) : a \in ids}
    BY DEF Loop
  <1> HIDE DEF one
  <1> QED BY <1>1, <1>2

\* A deletion is of the rows its question is about.
LEMMA LoopIsOfClick ==
    ASSUME On("accounts"), NEW op \in Loops, NEW ids, NEW drops, op \in Deletions => ids = ui.confirm.rows
    PROVE  OfClick(Loop(op, ids, drops))
  <1> DEFINE S == Loop(op, ids, drops)
  <1>1. /\ \A r \in S : IsCall(r) /\ r.n = clicks + 1 /\ r.op = op /\ r.writes = AccountsQ
        /\ {r.row : r \in S} = ids
    BY LoopFields
  <1> HIDE DEF S
  <1>2. \A r \in S : Sound(r)
    BY <1>1, SoundOnAccounts
  <1>3. OfClick(S)
    BY <1>1, <1>2 DEF OfClick
  <1> QED BY <1>3 DEF S

\* What a bulk action sends.
LEMMA BatchFields ==
    ASSUME NEW action, NEW ids
    PROVE  LET r == BatchReq(action, ids)
           IN  IsCall(r) /\ r.n = clicks + 1 /\ r.op = "batch" /\ r.writes = AccountsQ
  <1>1. IsCall(Req("batch", AllIds, AccountsQ))
    BY ReqFields
  <1> QED BY <1>1, ReqFields DEF BatchReq, IsCall, CallFields

\* What the actions of a row send; copying an account changes nothing.
LEMMA RowFields ==
    ASSUME NEW op, NEW a
    PROVE  LET r == RowReq(op, a)
           IN  IsCall(r) /\ r.n = clicks + 1 /\ r.op = "row" /\ r.writes \subseteq AccountsQ
  <1> DEFINE req == Req("row", AllIds, IF op = "copy" THEN {} ELSE AccountsQ)
  <1>1. IsCall(req) /\ req.n = clicks + 1 /\ req.op = "row" /\ req.writes \subseteq AccountsQ
    BY ReqFields
  <1>2. RowReq(op, a) \in {req, [req EXCEPT !.offs = {a}], [req EXCEPT !.ons = {a}]}
    BY DEF RowReq
  <1> HIDE DEF req
  <1> QED BY <1>1, <1>2 DEF IsCall, CallFields

\* Every click on the table of the accounts.
LEMMA AccountsOperates ==
    ASSUME Inv, AccountsOperate
    PROVE  HandlerStep
  <1> USE DEF HandlerStep
  <1>0. IsUi(ui) /\ On("accounts") /\ ~On("danger")
    BY DEF Inv, Shapes, AccountsOperate, On
  <1>1. ASSUME NEW sel, SelectRows(sel)
        PROVE  HandlerStep
    <2>1. Calm([ui EXCEPT !.sel = sel])
      BY <1>0 DEF Calm, IsUi, UiFields
    <2> QED BY <1>1, <2>1 DEF SelectRows, TouchStep
  <1>2. CASE SelectAccount \/ groupRow \/ ClearSelection
    BY <1>1, <1>2 DEF SelectAccount, groupRow, SelectAll, ClearSelection
  <1>3. ASSUME NEW rows, NEW kind \in {"deleteOne", "deleteMany"}, AskFirst(kind, rows)
        PROVE  HandlerStep
    BY <1>0, <1>3 DEF AskFirst, AskStep
  <1>4. ASSUME NEW r, Click(r, Busily), IsCall(r), r.n = clicks + 1,
               r.op \in TableOps, r.writes \subseteq AccountsQ
        PROVE  HandlerStep
    <2>1. Sound(r) /\ r.op \notin Deletions
      BY <1>0, <1>4, SoundOnAccounts DEF Deletions, TableOps
    <2> QED BY <1>4, <2>1, BusilyIsCalm, OneClick
  <1>5. ASSUME NEW a, AskDelete(a)
        PROVE  HandlerStep
    BY <1>3, <1>5 DEF AskDelete
  <1>6. ASSUME NEW a, NEW op, RowAction(op, a)
        PROVE  HandlerStep
    BY <1>4, <1>6, RowFields DEF RowAction, TableOps
  <1>7. ASSUME NEW action, NEW ids, Batch(action, ids)
        PROVE  HandlerStep
    BY <1>4, <1>7, BatchFields DEF Batch, TableOps
  <1>8. CASE RefreshAllModels
    BY <1>4, <1>8, ReqFields DEF RefreshAllModels, TableOps
  <1>9. ASSUME NEW many, Warmup(many)
        PROVE  HandlerStep
    BY <1>4, <1>9, ReqFields DEF Warmup, TableOps
  <1>10. CASE BulkRefreshModels
    <2>1. OfClick(Loop("bulkModels", SelectedIds, FALSE))
      BY <1>0, LoopIsOfClick DEF Loops, Deletions
    <2> QED BY <1>10, <2>1, BusilyIsCalm DEF BulkRefreshModels, SendStep
  <1>11. CASE ConfirmDeletion
    <2> DEFINE u == [Running("deletion") EXCEPT !.busy = "run"]
    <2>1. ui.confirm.kind \in {"deleteOne", "deleteMany"}
      BY <1>0, <1>11 DEF ConfirmDeletion, Inv, QuestionInv
    <2>2. OfClick(Loop(ui.confirm.kind, ui.confirm.rows, TRUE))
      BY <1>0, <2>1, LoopIsOfClick DEF Loops
    <2>3. Calm(u)
      BY <1>0 DEF Calm, Running, IsUi, UiFields
    <2>4. Send(Loop(ui.confirm.kind, ui.confirm.rows, TRUE), u)
      BY <1>11 DEF ConfirmDeletion, DeletedIds
    <2> HIDE DEF u
    <2> QED BY <2>2, <2>3, <2>4 DEF SendStep
  <1>12. CASE HeaderButtons \/ PoolButtons
    BY <1>7, <1>8, <1>9, <1>12 DEF HeaderButtons, PoolButtons
  <1>13. CASE BulkButtons
    BY <1>3, <1>7, <1>9, <1>10, <1>13 DEF BulkButtons, BulkDelete
  <1> QED BY <1>2, <1>5, <1>6, <1>11, <1>12, <1>13 DEF AccountsOperate

\* The end of a run leaves the question as it is.
LEMMA EndRunIsCalm ==
    ASSUME NEW c, NEW u, Calm(u)
    PROVE  Calm(EndRun(c, u))
  BY DEF Calm, EndRun, IsUi, UiFields

\* A loop owes the list, and so do its other requests.
LEMMA LoopSettles ==
    ASSUME Inv, NEW c \in calls, c.op \in Loops, NEW u, Calm(u),
           IF Others(c) # {} THEN Settle(c, {}, {}, ui) ELSE Settle(c, {}, AccountsQ, u)
    PROVE  SettleStep
  <1>1. \A q : Owes(c, q) => q \in AccountsQ
    <2>1. c.writes \subseteq AccountsQ
      BY DEF Inv, RequestInv, Sound, Passing, TokenSavers, Refetches, Loops
    <2> QED BY <2>1 DEF Owes, Loops
  <1>2. CASE Others(c) = {}
    BY <1>1, <1>2, OneSettles
  <1>3. CASE Others(c) # {}
    <2>1. PICK d \in calls \ {c} : d.n = c.n
      BY <1>3 DEF Others
    <2>2. d.op \in Loops
      BY <2>1 DEF Inv, RequestInv
    <2>3. \A q : q \in AccountsQ => Owes(d, q)
      BY <2>2 DEF Owes
    <2>4. Pays(c, {}, {}) /\ HandsOn(c, {})
      BY <1>1, <2>1, <2>3 DEF Pays, HandsOn
    <2> QED BY <1>3, <2>4, BusilyIsCalm DEF SettleStep
  <1> QED BY <1>2, <1>3

\* Every answer on the page of the accounts, the last one of a loop included.
LEMMA AccountsTakes ==
    ASSUME Inv, NEW c \in calls, AccountsTake(c)
    PROVE  SettleStep
  <1>0. Calm(ui) /\ Calm([ui EXCEPT !.sel = {}])
    BY DEF Inv, Shapes, Calm, IsUi, UiFields
  <1>1. CASE TakeRow(c)
    <2>1. Refetches(c) \subseteq AccountsQ /\ c.op \notin Loops \cup {"catalogue", "import"}
      BY <1>1 DEF TakeRow, Answered, Refetches, Loops
    <2> QED BY <1>0, <1>1, <2>1, EndRunIsCalm, SimplySettles DEF TakeRow
  <1>2. CASE TakeBatch(c)
    <2> DEFINE u == IF c.ok THEN [ui EXCEPT !.sel = {}] ELSE ui
    <2>1. Refetches(c) \subseteq AccountsQ /\ c.op \notin Loops \cup {"catalogue", "import"}
      BY <1>2 DEF TakeBatch, Answered, Refetches, Loops
    <2>2. Calm(u) /\ Settle(c, {}, AccountsQ, EndRun(c, u))
      BY <1>0, <1>2 DEF TakeBatch
    <2> HIDE DEF u
    <2> QED BY <2>1, <2>2, EndRunIsCalm, SimplySettles
  <1>3. CASE TakeWarmup(c)
    <2> DEFINE u == IF c.ok /\ c.row THEN [ui EXCEPT !.sel = {}] ELSE ui
    <2>1. Refetches(c) \subseteq AccountsQ /\ c.op \notin Loops \cup {"catalogue", "import"}
      BY <1>3 DEF TakeWarmup, Answered, Refetches, Loops
    <2>2. Calm(u) /\ Settle(c, {}, AccountsQ, EndRun(c, u))
      BY <1>0, <1>3 DEF TakeWarmup
    <2> HIDE DEF u
    <2> QED BY <2>1, <2>2, EndRunIsCalm, SimplySettles
  <1>4. CASE TakeLoop(c)
    <2> DEFINE u == EndRun([c EXCEPT !.ok = TRUE], ui)
    <2>1. Calm(u) /\ c.op \in Loops
      BY <1>0, <1>4, EndRunIsCalm DEF TakeLoop, Answered, Loops
    <2>2. IF Others(c) # {} THEN Settle(c, {}, {}, ui) ELSE Settle(c, {}, AccountsQ, u)
      BY <1>4 DEF TakeLoop
    <2> HIDE DEF u
    <2> QED BY <2>1, <2>2, LoopSettles
  <1>5. CASE TakeDeletion(c)
    <2> DEFINE many == c.op = "deleteMany"
               was == IF many THEN [ui EXCEPT !.sel = {}] ELSE ui
               done == EndRun([c EXCEPT !.ok = many \/ @], was)
               u == [done EXCEPT !.running = {}, !.confirm = NoConfirm]
    <2>1. Calm(done)
      <3>1. Calm(was)
        BY <1>0
      <3> HIDE DEF was
      <3> QED BY <3>1, EndRunIsCalm
    <2>2. Calm(u)
      <3> HIDE DEF done
      <3> QED BY <2>1 DEF Calm, IsUi, UiFields
    <2>3. c.op \in Loops
      BY <1>5 DEF TakeDeletion, Answered, Loops
    <2>4. IF Others(c) # {} THEN Settle(c, {}, {}, ui) ELSE Settle(c, {}, AccountsQ, u)
      BY <1>5 DEF TakeDeletion
    <2> HIDE DEF u
    <2> QED BY <2>2, <2>3, <2>4, LoopSettles
  <1> QED BY <1>1, <1>2, <1>3, <1>4, <1>5 DEF AccountsTake

-----------------------------------------------------------------------------
(* The sheet of an account. *)

\* Requests of other handlers are not of the pages with an invariant of their own.
LEMMA OtherPages ==
    ASSUME Inv, NEW c \in calls,
           c.op \notin {"sync", "curtain", "fade", "readRoute", "ban"} \cup TableOps \cup Loops
    PROVE  Elsewhere
  BY DEF Inv, RequestInv, Sound, OfPage, Elsewhere

\* A handler with nothing to fetch anew may go on with any request.
LEMMA PaysInPassing ==
    ASSUME Inv, NEW c \in calls, Elsewhere, c.op \notin Loops \cup {"catalogue", "import"},
           Refetches(c) = {}, NEW next
    PROVE  Pays(c, next, {})
  <1>1. Sound(c) /\ Forgiven(c) = Untold(c)
    BY DEF Inv, RequestInv, Forgiven, Elsewhere
  <1> QED BY <1>1, OwesWhatItWrote DEF Pays

\* The sheet of an account refetches what its requests change.
LEMMA SoundOnSheet ==
    ASSUME Elsewhere, NEW r,
           \/ /\ r.op \in {"enabledModels", "enabled", "record", "remove", "extra", "allowPaid"}
              /\ r.writes = AccountsQ
           \/ r.op \in {"catalogue", "catalogueOnly"} /\ r.writes = CatalogueQ
           \/ r.op \in {"read", "test", "probeNew"} /\ r.writes = {}
    PROVE  Sound(r)
  BY DEF Sound, OfPage, Elsewhere, Refetches, Loops

\* What the allow-list of an account sends.
LEMMA AllowFields ==
    ASSUME NEW op, NEW list
    PROVE  LET r == AllowReq(op, list)
           IN  IsCall(r) /\ r.n = clicks + 1 /\ r.op = op /\ r.writes = AccountsQ
  <1>1. IsCall(Req(op, AllIds, AccountsQ))
    BY ReqFields
  <1> QED BY <1>1, ReqFields DEF AllowReq, IsCall, CallFields

\* What saving the added models sends.
LEMMA ExtraFields ==
    ASSUME NEW n, NEW list
    PROVE  LET r == saveExtraModels(n, list)
           IN  IsCall(r) /\ r.n = n /\ r.op = "extra" /\ r.writes = AccountsQ
  <1>1. IsCall(Req("extra", AllIds, AccountsQ))
    BY ReqFields
  <1> QED BY <1>1, ReqFields DEF saveExtraModels, IsCall, CallFields

\* The catalogue is asked for once a save of the models has been answered.
LEMMA RefetchFields ==
    ASSUME NEW c
    PROVE  LET r == Refetch(c)
           IN  IsCall(r) /\ r.n = c.n /\ r.op = "catalogue" /\ r.writes = CatalogueQ
  <1>1. IsCall(Req("catalogue", AllIds, CatalogueQ))
    BY ReqFields
  <1> QED BY <1>1, ReqFields DEF Refetch, IsCall, CallFields

\* What a test of a model that is typed sends.
LEMMA ProbeFields ==
    ASSUME NEW list
    PROVE  LET r == [Req("probeNew", AllIds, {}) EXCEPT !.adds = list]
           IN  IsCall(r) /\ r.n = clicks + 1 /\ r.op = "probeNew" /\ r.writes = {}
  <1>1. IsCall(Req("probeNew", AllIds, {}))
    BY ReqFields
  <1> QED BY <1>1, ReqFields DEF IsCall, CallFields

\* Every click in the sheet of an account.
LEMMA SheetOperates ==
    ASSUME Inv, SheetOperate
    PROVE  HandlerStep
  <1> USE DEF HandlerStep
  <1>0. IsUi(ui) /\ On("sheet") /\ ~On("danger") /\ Elsewhere /\ ~On("accounts")
    BY DEF Inv, Shapes, SheetOperate, On, Elsewhere
  <1>1. ASSUME NEW r, NEW u, Click(r, u), Calm(u), IsCall(r), r.n = clicks + 1,
               \/ /\ r.op \in {"enabledModels", "enabled", "record", "remove", "extra", "allowPaid"}
                  /\ r.writes = AccountsQ
               \/ r.op \in {"catalogue", "catalogueOnly"} /\ r.writes = CatalogueQ
               \/ r.op \in {"read", "test", "probeNew"} /\ r.writes = {}
        PROVE  HandlerStep
    <2>1. Sound(r) /\ r.op \notin Deletions
      BY <1>0, <1>1, SoundOnSheet DEF Deletions
    <2> QED BY <1>1, <2>1, OneClick
  <1>2. ASSUME NEW op, NEW writes, RunSheet(op, writes),
               \/ op \in {"record", "allowPaid"} /\ writes = AccountsQ
               \/ op = "catalogueOnly" /\ writes = CatalogueQ
               \/ op \in {"read", "test"} /\ writes = {}
        PROVE  HandlerStep
    <2> DEFINE r == Req(op, AllIds, writes)
    <2>1. IsCall(r) /\ r.n = clicks + 1 /\ r.op = op /\ r.writes = writes
      BY ReqFields
    <2>2. Click(r, Busily) /\ Calm(Busily)
      BY <1>2, BusilyIsCalm DEF RunSheet
    <2> HIDE DEF r
    <2> QED BY <1>1, <1>2, <2>1, <2>2
  <1>3. CASE Header
    <2>1. Calm([ui EXCEPT !.busy = "enabled"])
      BY <1>0 DEF Calm, IsUi, UiFields
    <2> QED BY <1>1, <1>3, <2>1, ReqFields DEF Header, setEnabled
  <1>4. CASE BasicInfo \/ Usage \/ WarmupSection \/ PaidModels \/ Overage \/ Egress \/ TestSection
    BY <1>2, <1>4 DEF BasicInfo, saveIdentity, generateMachineId, Usage, refreshAccount,
       WarmupSection, warmup, PaidModels, setAllowPaid, Overage, pullOverage, setOverage, Egress,
       saveEgress, TestSection, runTest, SetAsDefault
  <1>5. ASSUME NEW list, saveEnabledModels(list)
        PROVE  HandlerStep
    BY <1>1, <1>5, AllowFields, BusilyIsCalm DEF saveEnabledModels
  <1>6. CASE ModelsSection
    <2>1. CASE refreshModelCache
      BY <1>2, <2>1 DEF refreshModelCache
    <2>2. CASE ModelChips
      BY <1>5, <2>2 DEF ModelChips, toggleModel
    <2> QED BY <1>6, <2>1, <2>2 DEF ModelsSection
  <1>7. CASE RemoveModel
    BY <1>1, <1>7, ExtraFields, BusilyIsCalm DEF RemoveModel
  <1>8. CASE AddManual
    <2>1. CASE TypeInSheet
      <3>1. PICK d : Touch([ui EXCEPT !.draft = d])
        BY <2>1 DEF TypeInSheet
      <3>2. Calm([ui EXCEPT !.draft = d])
        BY <1>0 DEF Calm, IsUi, UiFields
      <3> QED BY <3>1, <3>2 DEF TouchStep
    <2>2. CASE addModel
      <3>1. Calm([Busily EXCEPT !.draft = "saved"])
        BY <1>0 DEF Busily, Calm, IsUi, UiFields
      <3> QED BY <1>1, <2>2, <3>1, ExtraFields DEF addModel
    <2>3. CASE probeAndAdd
      <3> DEFINE list == IF NewModels = {} THEN {} ELSE Record.rows \cup NewModels
      <3>1. Click([Req("probeNew", AllIds, {}) EXCEPT !.adds = list], Busily)
        BY <2>3 DEF probeAndAdd
      <3> HIDE DEF list
      <3> QED BY <1>1, <3>1, ProbeFields, BusilyIsCalm
    <2> QED BY <1>8, <2>1, <2>2, <2>3 DEF AddManual
  <1>9. CASE Footer
    <2>1. CASE copyJson
      BY <1>2, <2>1 DEF copyJson
    <2>2. CASE AskRemove
      BY <1>0, <2>2 DEF AskRemove, AskFirst, AskStep
    <2>3. CASE ConfirmRemove
      <3>1. Calm(Running("remove"))
        BY <1>0 DEF Running, Calm, IsUi, UiFields
      <3> QED BY <1>1, <2>3, <3>1, ReqFields DEF ConfirmRemove
    <2> QED BY <1>9, <2>1, <2>2, <2>3 DEF Footer
  <1> QED BY <1>3, <1>4, <1>6, <1>7, <1>8, <1>9 DEF SheetOperate

\* Every answer in the sheet of an account: some hand on to a second request.
LEMMA SheetTakes ==
    ASSUME Inv, NEW c \in calls, SheetTake(c)
    PROVE  SettleStep
  <1>0. /\ Calm(ui) /\ Calm([ui EXCEPT !.draft = "saved"])
        /\ c.writes \subseteq Refetches(c) \cup Passing(c)
    BY DEF Inv, Shapes, Calm, IsUi, UiFields, RequestInv, Sound
  <1>1. CASE TakeSaved(c)
    <2>0. c.op \in {"extra", "allowPaid"}
      BY <1>1 DEF TakeSaved, Answered
    <2>1. CASE ~c.ok
      <3>1. Settle(c, {}, {}, EndRun(c, ui))
        BY <1>1, <2>1 DEF TakeSaved
      <3> QED BY <1>0, <2>0, <2>1, <3>1, EndRunIsCalm, SimplySettles DEF Loops, TableOps
    <2>2. CASE c.ok
      <3> DEFINE d == Refetch(c)
      <3>1. Settle(c, {d}, {}, ui)
        BY <1>1, <2>2 DEF TakeSaved
      <3>2. IsCall(d) /\ d.n = c.n /\ d.op = "catalogue" /\ d.writes = CatalogueQ
        BY RefetchFields
      <3> HIDE DEF d
      <3>3. Sound(d)
        BY <2>0, <3>2, OtherPages, SoundOnSheet DEF TableOps, Loops
      <3>4. HandsOn(c, {d})
        BY <2>0, <3>2, <3>3 DEF HandsOn, Loops, Deletions
      <3>5. \A q : Owes(c, q) => Owes(d, q)
        BY <1>0, <2>0, <3>2 DEF Owes, Loops, Refetches, Passing, TokenSavers
      <3>6. Pays(c, {d}, {})
        BY <3>5 DEF Pays
      <3> QED BY <1>0, <3>1, <3>4, <3>6 DEF SettleStep
    <2> QED BY <2>1, <2>2
  <1>2. CASE TakeRefetched(c)
    <2> DEFINE u == EndRun([c EXCEPT !.ok = TRUE], ui)
    <2>1. \A q : Owes(c, q) => q \in AccountsQ \cup CatalogueQ
      BY <1>0, <1>2 DEF TakeRefetched, Answered, Owes, Loops, Refetches, Passing
    <2>2. Calm(u) /\ Settle(c, {}, AccountsQ \cup CatalogueQ, u)
      BY <1>0, <1>2, EndRunIsCalm DEF TakeRefetched
    <2> HIDE DEF u
    <2> QED BY <2>1, <2>2, OneSettles
  <1>3. CASE TakeProbe(c)
    <2>0. c.op = "probeNew" /\ Refetches(c) = {}
      BY <1>3 DEF TakeProbe, Answered, Refetches, Loops
    <2>1. ASSUME NEW u, Calm(u), Settle(c, {}, {}, u)
          PROVE  SettleStep
      BY <2>0, <2>1, SimplySettles DEF Loops, TableOps
    <2>2. CASE ~(c.ok /\ c.adds # {})
      <3>1. Settle(c, {}, {}, EndRun([c EXCEPT !.ok = TRUE], ui))
        BY <1>3, <2>2 DEF TakeProbe
      <3> QED BY <1>0, <2>1, <3>1, EndRunIsCalm
    <2>3. CASE c.ok /\ c.adds # {}
      <3> DEFINE d == saveExtraModels(c.n, c.adds)
                 u == EndRun(c, [ui EXCEPT !.draft = "saved"])
      <3>1. Settle(c, {d}, {}, u)
        BY <1>3, <2>3 DEF TakeProbe
      <3>2. Calm(u)
        BY <1>0, EndRunIsCalm
      <3>3. IsCall(d) /\ d.n = c.n /\ d.op = "extra" /\ d.writes = AccountsQ
        BY ExtraFields
      <3> HIDE DEF d, u
      <3>4. Sound(d)
        BY <2>0, <3>3, OtherPages, SoundOnSheet DEF TableOps, Loops
      <3>5. HandsOn(c, {d})
        BY <2>0, <3>3, <3>4 DEF HandsOn, Loops, Deletions
      <3>6. Pays(c, {d}, {})
        BY <2>0, OtherPages, PaysInPassing DEF TableOps, Loops
      <3> QED BY <3>1, <3>2, <3>5, <3>6 DEF SettleStep
    <2> QED BY <2>2, <2>3
  <1>4. CASE TakeSheet(c)
    <2> DEFINE Q == OnSuccess(c, CASE c.op \in SavingOps -> AccountsQ
                                   [] c.op = "catalogueOnly" -> CatalogueQ
                                   [] OTHER -> {})
    <2>1. c.op \in {"enabledModels", "enabled", "record", "read", "test", "catalogueOnly"}
      BY <1>4 DEF TakeSheet, Answered, SavingOps, ReadingOps
    <2>2. c.ok => Refetches(c) \subseteq Q
      BY <2>1 DEF Refetches, Loops, SavingOps, OnSuccess
    <2>3. Settle(c, {}, Q, EndRun(c, ui))
      BY <1>4 DEF TakeSheet
    <2> HIDE DEF Q
    <2> QED BY <1>0, <2>1, <2>2, <2>3, EndRunIsCalm, SimplySettles DEF Loops, TableOps
  <1>5. CASE TakeRemove(c)
    <2> DEFINE t == Through("remove", ~c.ok)
               u == IF c.ok THEN [t EXCEPT !.draft = "closed"] ELSE t
    <2>1. Calm(t)
      BY ThroughIsCalm
    <2>2. Settle(c, {}, OnSuccess(c, AccountsQ), u)
      BY <1>5 DEF TakeRemove
    <2> HIDE DEF t
    <2>3. Calm(u)
      BY <2>1 DEF Calm, IsUi, UiFields
    <2>4. c.op = "remove" /\ (c.ok => Refetches(c) \subseteq OnSuccess(c, AccountsQ))
      BY <1>5 DEF TakeRemove, Answered, Refetches, Loops, OnSuccess
    <2> HIDE DEF u
    <2> QED BY <2>2, <2>3, <2>4, SimplySettles DEF Loops, TableOps
  <1> QED BY <1>1, <1>2, <1>3, <1>4, <1>5 DEF SheetTake

-----------------------------------------------------------------------------
(* The dialogs of a pool and of the export. *)

\* The dialog of a pool refetches what its requests change.
LEMMA SoundOnPool ==
    ASSUME Elsewhere, NEW r,
           \/ r.op \in {"apply", "addModel"} /\ r.writes = AccountsQ
           \/ r.op \in {"prefix", "testModel"} /\ r.writes = {"settings"}
           \/ r.op \in {"probePool", "export"} /\ r.writes = {}
    PROVE  Sound(r)
  BY DEF Sound, OfPage, Elsewhere, Refetches, Loops

\* What a switch of the pool sends for all its accounts.
LEMMA ApplyFields ==
    ASSUME NEW models, NEW on
    PROVE  LET r == ApplyReq(models, on)
           IN  IsCall(r) /\ r.n = clicks + 1 /\ r.op = "apply" /\ r.writes = AccountsQ
  <1>1. IsCall(Req("apply", AllIds, AccountsQ))
    BY ReqFields
  <1> QED BY <1>1, ReqFields DEF ApplyReq, IsCall, CallFields

\* What adding a model to the pool sends.
LEMMA AddFields ==
    ASSUME NEW n
    PROVE  LET r == AddReq(n)
           IN  IsCall(r) /\ r.n = n /\ r.op = "addModel" /\ r.writes = AccountsQ
  <1>1. IsCall(Req("addModel", AllIds, AccountsQ))
    BY ReqFields
  <1> QED BY <1>1, ReqFields DEF AddReq, IsCall, CallFields

\* Every click in the dialog of a pool.
LEMMA PoolOperates ==
    ASSUME Inv, PoolOperate
    PROVE  HandlerStep
  <1> USE DEF HandlerStep
  <1>0. /\ IsUi(ui) /\ On("pool") /\ Elsewhere
    BY DEF Inv, Shapes, PoolOperate, On, Elsewhere
  <1>1. ASSUME NEW r, Click(r, Busily), IsCall(r), r.n = clicks + 1,
               \/ r.op \in {"apply", "addModel"} /\ r.writes = AccountsQ
               \/ r.op \in {"prefix", "testModel"} /\ r.writes = {"settings"}
               \/ r.op = "probePool" /\ r.writes = {}
        PROVE  HandlerStep
    <2>1. Sound(r) /\ r.op \notin Deletions
      BY <1>0, <1>1, SoundOnPool DEF Deletions
    <2> QED BY <1>1, <2>1, BusilyIsCalm, OneClick
  <1>2. ASSUME NEW field, Type(field)
        PROVE  HandlerStep
    <2>1. PICK d : Touch([ui EXCEPT !.draft = d])
      BY <1>2 DEF Type
    <2>2. Calm([ui EXCEPT !.draft = d])
      BY <1>0 DEF Calm, IsUi, UiFields
    <2> QED BY <2>1, <2>2 DEF TouchStep
  <1>3. CASE Filter
    <2>1. PICK d : Touch([ui EXCEPT !.sel = d])
      BY <1>3 DEF Filter
    <2>2. Calm([ui EXCEPT !.sel = d])
      BY <1>0 DEF Calm, IsUi, UiFields
    <2> QED BY <2>1, <2>2 DEF TouchStep
  <1>4. ASSUME NEW models, NEW on, Apply(models, on)
        PROVE  HandlerStep
    BY <1>1, <1>4, ApplyFields DEF Apply
  <1>5. CASE AllButtons \/ ModelBoxes
    BY <1>4, <1>5 DEF AllButtons, ModelBoxes
  <1>6. CASE SavePrefix \/ SaveTestModel
    BY <1>1, <1>6, ReqFields DEF SavePrefix, SaveTestModel, SaveSetting
  <1>7. CASE AddPoolModel
    BY <1>1, <1>7, AddFields DEF AddPoolModel
  <1>8. CASE ProbePoolModel
    BY <1>1, <1>8, ReqFields DEF ProbePoolModel
  <1> QED BY <1>2, <1>3, <1>5, <1>6, <1>7, <1>8 DEF PoolOperate

\* Every answer in the dialog of a pool.
LEMMA PoolTakes ==
    ASSUME Inv, NEW c \in calls, PoolTake(c)
    PROVE  SettleStep
  <1>0. Calm(ui) /\ c.writes \subseteq Refetches(c) \cup Passing(c)
    BY DEF Inv, Shapes, Calm, IsUi, UiFields, RequestInv, Sound
  <1>1. ASSUME NEW Q, NEW u, Settle(c, {}, Q, EndRun(c, u)), Calm(u),
               c.op \in {"apply", "prefix", "testModel", "addModel", "probePool"},
               c.ok => Refetches(c) \subseteq Q
        PROVE  SettleStep
    BY <1>1, EndRunIsCalm, SimplySettles DEF Loops, TableOps
  <1>2. CASE TakeApply(c)
    <2>1. c.op = "apply" /\ Refetches(c) \subseteq AccountsQ
      BY <1>2 DEF TakeApply, Answered, Refetches, Loops
    <2> QED BY <1>0, <1>1, <1>2, <2>1 DEF TakeApply
  <1>4. CASE TakeSetting(c)
    <2>1. /\ c.op \in {"prefix", "testModel"}
          /\ c.ok => Refetches(c) \subseteq OnSuccess(c, {"settings"})
      BY <1>4 DEF TakeSetting, Answered, Refetches, Loops, OnSuccess
    <2>2. Calm(IF c.ok THEN [ui EXCEPT !.draft = @ \ {c.op}] ELSE ui)
      BY <1>0 DEF Calm, IsUi, UiFields
    <2> QED BY <1>1, <1>4, <2>1, <2>2 DEF TakeSetting
  <1>5. CASE TakeAddModel(c)
    <2>1. c.op = "addModel" /\ (c.ok => Refetches(c) \subseteq OnSuccess(c, AccountsQ))
      BY <1>5 DEF TakeAddModel, Answered, Refetches, Loops, OnSuccess
    <2>2. Calm(IF c.ok THEN [ui EXCEPT !.draft = @ \ {"model"}] ELSE ui)
      BY <1>0 DEF Calm, IsUi, UiFields
    <2> QED BY <1>1, <1>5, <2>1, <2>2 DEF TakeAddModel
  <1>6. CASE TakePoolProbe(c)
    <2>0. c.op = "probePool" /\ Refetches(c) = {}
      BY <1>6 DEF TakePoolProbe, Answered, Refetches, Loops
    <2>1. CASE ~c.ok
      BY <1>0, <1>1, <1>6, <2>0, <2>1 DEF TakePoolProbe
    <2>2. CASE c.ok
      <3> DEFINE d == AddReq(c.n)
      <3>1. Settle(c, {d}, {}, Busily)
        BY <1>6, <2>2 DEF TakePoolProbe
      <3>2. IsCall(d) /\ d.n = c.n /\ d.op = "addModel" /\ d.writes = AccountsQ
        BY AddFields
      <3> HIDE DEF d
      <3>3. Sound(d)
        BY <2>0, <3>2, OtherPages, SoundOnPool DEF TableOps, Loops
      <3>4. HandsOn(c, {d})
        BY <2>0, <3>2, <3>3 DEF HandsOn, Loops, Deletions
      <3>5. Pays(c, {d}, {})
        BY <2>0, OtherPages, PaysInPassing DEF TableOps, Loops
      <3> QED BY <3>1, <3>4, <3>5, BusilyIsCalm DEF SettleStep
    <2> QED BY <2>1, <2>2
  <1> QED BY <1>2, <1>4, <1>5, <1>6 DEF PoolTake

\* Every click in the dialog that exports accounts.
LEMMA ExportOperates ==
    ASSUME Inv, OpenExport \/ TickExport \/ ExportNow \/ LeaveExport
    PROVE  HandlerStep
  <1> USE DEF HandlerStep
  <1>0. /\ IsUi(ui) /\ On("export") /\ Elsewhere
    BY DEF Inv, Shapes, OpenExport, TickExport, ExportNow, LeaveExport, ExportIsOpen, On, Elsewhere
  <1>1. CASE OpenExport
    <2>1. PICK d : Touch([ui EXCEPT !.open = AllIds, !.shown = FALSE, !.sel = d])
      BY <1>1 DEF OpenExport
    <2>2. Calm([ui EXCEPT !.open = AllIds, !.shown = FALSE, !.sel = d])
      BY <1>0 DEF Calm, IsUi, UiFields
    <2> QED BY <2>1, <2>2 DEF TouchStep
  <1>2. CASE TickExport
    <2>1. PICK d : Touch([ui EXCEPT !.sel = d])
      BY <1>2 DEF TickExport
    <2>2. Calm([ui EXCEPT !.sel = d])
      BY <1>0 DEF Calm, IsUi, UiFields
    <2> QED BY <2>1, <2>2 DEF TouchStep
  <1>3. CASE ExportNow
    <2> DEFINE r == Req("export", ui.sel, {})
    <2>1. Click(r, Busily) /\ IsCall(r) /\ r.n = clicks + 1 /\ r.op = "export" /\ r.writes = {}
      BY <1>3, ReqFields DEF ExportNow
    <2> HIDE DEF r
    <2>2. Sound(r) /\ r.op \notin Deletions
      BY <1>0, <2>1, SoundOnPool DEF Deletions
    <2> QED BY <2>1, <2>2, BusilyIsCalm, OneClick
  <1>4. CASE LeaveExport
    <2>1. Calm([ui EXCEPT !.shown = FALSE]) /\ Calm([ui EXCEPT !.open = Nobody])
      BY <1>0 DEF Calm, IsUi, UiFields
    <2> QED BY <1>4, <2>1 DEF LeaveExport, TouchStep
  <1> QED BY <1>1, <1>2, <1>3, <1>4

\* The answer to an export.
LEMMA ExportTakes ==
    ASSUME Inv, NEW c \in calls, TakeExport(c)
    PROVE  SettleStep
  <1>1. Calm([ui EXCEPT !.shown = c.ok \/ @])
    BY DEF Inv, Shapes, Calm, IsUi, UiFields
  <1>2. c.op = "export" /\ Refetches(c) = {}
    BY DEF TakeExport, Answered, Refetches, Loops
  <1> QED BY <1>1, <1>2, EndRunIsCalm, SimplySettles DEF TakeExport, Loops, TableOps

-----------------------------------------------------------------------------
(* The sections of the settings. *)

\* The sections of the menu.
LEMMA TheSections ==
    NAV = {"general", "thinking", "endpoint", "auto-route", "egress", "relay",
           "prompt-filter", "danger"}
  <1>1. DOMAIN Sections = 1 .. 8
    BY DEF Sections
  <1> QED BY <1>1 DEF NAV, Sections

\* What a card of the settings sends.
LEMMA SaveFields ==
    ASSUME NEW on
    PROVE  LET r == SaveReq(on)
           IN  IsCall(r) /\ r.n = clicks + 1 /\ r.op = "save" /\ r.writes = SectionQ
  <1>1. IsCall(Req("save", Nobody, SectionQ))
    BY ReqFields
  <1> QED BY <1>1, ReqFields DEF SaveReq, IsCall, CallFields

\* The card of the router also changes what may be chosen.
LEMMA SaveRouteFields ==
    ASSUME NEW on
    PROVE  LET r == [SaveReq(on) EXCEPT !.writes = {"section", "options"}]
           IN  /\ IsCall(r) /\ r.n = clicks + 1 /\ r.op = "save"
               /\ r.writes = {"section", "options"}
  <1>1. LET r == SaveReq(on) IN IsCall(r) /\ r.n = clicks + 1 /\ r.op = "save"
    BY SaveFields
  <1> QED BY <1>1 DEF IsCall, CallFields

\* Every click in the settings.
LEMMA SettingsOperates ==
    ASSUME Inv, SettingsOperate
    PROVE  HandlerStep
  <1> USE DEF HandlerStep
  <1>0. IsUi(ui) /\ Calm(ui) /\ ~On("accounts") /\ Elsewhere
    BY TheSections DEF Inv, Shapes, SettingsOperate, On, Calm, Elsewhere
  <1>1. ASSUME NEW r, NEW u, Click(r, u), Calm(u), IsCall(r), r.n = clicks + 1,
               \/ r.op = "save" /\ r.writes = Saved
               \/ r.op = "relayTest" /\ r.writes = {}
               \/ r.op \in {"stats", "logs"} /\ r.writes = {r.op}
        PROVE  HandlerStep
    <2>1. Sound(r)
      BY <1>0, <1>1 DEF Sound, OfPage, Elsewhere, Refetches, Loops
    <2>2. r.op \notin Deletions
      BY <1>1 DEF Deletions
    <2> QED BY <1>1, <2>1, <2>2, OneClick
  <1>2. ASSUME NEW d, Touch([ui EXCEPT !.draft = d])
        PROVE  HandlerStep
    <2>1. Calm([ui EXCEPT !.draft = d])
      BY <1>0 DEF Calm, IsUi, UiFields
    <2> QED BY <1>2, <2>1 DEF TouchStep
  <1>3. ASSUME NEW section, NEW fields, Edit(section, fields)
        PROVE  HandlerStep
    BY <1>2, <1>3 DEF Edit
  <1>4. ASSUME NEW section, NEW valid, Save(section, valid), section # "auto-route"
        PROVE  HandlerStep
    <2>1. Saved = SectionQ
      BY <1>4 DEF Save, Saved, On
    <2> QED BY <1>0, <1>1, <1>4, <2>1, SaveFields DEF Save
  <1>5. CASE useActiveSection
    <2>1. PICK s, o : Touch([ui EXCEPT !.sel = s, !.open = o])
      BY <1>5 DEF useActiveSection
    <2>2. Calm([ui EXCEPT !.sel = s, !.open = o])
      BY <1>0 DEF Calm, IsUi, UiFields
    <2> QED BY <2>1, <2>2 DEF TouchStep
  <1>6. CASE PickSection
    <2>1. PICK s : Touch([ui EXCEPT !.open = s])
      BY <1>6 DEF PickSection
    <2>2. Calm([ui EXCEPT !.open = s])
      BY <1>0 DEF Calm, IsUi, UiFields
    <2> QED BY <2>1, <2>2 DEF TouchStep
  <1>7. CASE EditGeneral \/ EditThinking \/ EditEndpoint \/ EditAutoRoute \/ EditPromptFilter
    BY <1>3, <1>7 DEF EditGeneral, EditThinking, EditEndpoint, EditAutoRoute, EditPromptFilter
  <1>8. CASE EditProxy \/ EditRelay
    BY <1>2, <1>8 DEF EditProxy, EditRelay
  <1>9. CASE TypeSecret
    <2>1. PICK s : Touch([ui EXCEPT !.sel = s])
      BY <1>9 DEF TypeSecret
    <2>2. Calm([ui EXCEPT !.sel = s])
      BY <1>0 DEF Calm, IsUi, UiFields
    <2> QED BY <2>1, <2>2 DEF TouchStep
  <1>10. CASE SaveGeneral \/ SaveThinking \/ SaveEndpoint \/ SavePromptFilter
    BY <1>4, <1>10 DEF SaveGeneral, SaveThinking, SaveEndpoint, SavePromptFilter
  <1>11. CASE SaveAutoRoute
    <2>1. Saved = {"section", "options"}
      BY <1>11 DEF SaveAutoRoute, Saved
    <2> QED BY <1>0, <1>1, <1>11, <2>1, SaveRouteFields DEF SaveAutoRoute
  <1>12. CASE SaveProxy \/ SaveRelay
    <2>1. Saved = SectionQ
      BY <1>12 DEF SaveProxy, SaveRelay, Saved, On
    <2> QED BY <1>0, <1>1, <1>12, <2>1, SaveFields DEF SaveProxy, SaveRelay
  <1>13. CASE TestRelay
    BY <1>0, <1>1, <1>13, ReqFields DEF TestRelay
  <1>14. CASE AskDanger
    <2>1. PICK kind \in {"stats", "logs"} : AskFirst(kind, {})
      BY <1>14 DEF AskDanger
    <2> QED BY <1>0, <2>1 DEF AskFirst, AskStep
  <1>15. CASE ConfirmDanger
    <2> DEFINE kind == ui.confirm.kind
    <2>1. kind \in {"stats", "logs"}
      BY <1>15 DEF ConfirmDanger, Inv, QuestionInv
    <2>2. Calm(Running("danger"))
      BY <1>0 DEF Running, Calm, IsUi, UiFields
    <2>3. Click(Req(kind, Nobody, {kind}), Running("danger"))
      BY <1>15 DEF ConfirmDanger
    <2> HIDE DEF kind
    <2> QED BY <1>1, <2>1, <2>2, <2>3, ReqFields
  <1> QED BY <1>5, <1>6, <1>7, <1>8, <1>9, <1>10, <1>11, <1>12, <1>13, <1>14, <1>15
          DEF SettingsOperate

\* Every answer in the settings.
LEMMA SettingsTakes ==
    ASSUME Inv, NEW c \in calls, SettingsTake(c)
    PROVE  SettleStep
  <1>0. Calm(ui)
    BY BusilyIsCalm
  <1>1. ASSUME NEW Q, NEW u, Settle(c, {}, Q, u), Calm(u),
               c.op \in {"save", "relayTest", "stats", "logs"}, c.ok => Refetches(c) \subseteq Q
        PROVE  SettleStep
    BY <1>1, SimplySettles DEF Loops, TableOps
  <1>2. CASE TakeSave(c)
    <2>1. c.op = "save" /\ (c.ok => Refetches(c) \subseteq OnSuccess(c, Saved))
      BY <1>2 DEF TakeSave, Answered, Refetches, Loops, OnSuccess
    <2> QED BY <1>0, <1>1, <1>2, <2>1 DEF TakeSave
  <1>3. CASE TakeSaveRelay(c)
    <2>0. Saved = SectionQ
      BY <1>3 DEF TakeSaveRelay, Saved, On
    <2>1. c.op = "save" /\ (c.ok => Refetches(c) \subseteq OnSuccess(c, SectionQ))
      BY <1>3, <2>0 DEF TakeSaveRelay, Answered, Refetches, Loops, OnSuccess
    <2>2. Calm(IF c.ok THEN [ui EXCEPT !.sel = {}] ELSE ui)
      BY <1>0 DEF Calm, IsUi, UiFields
    <2> QED BY <1>1, <1>3, <2>1, <2>2 DEF TakeSaveRelay
  <1>4. CASE TakeTestRelay(c)
    <2>1. c.op = "relayTest" /\ Refetches(c) = {}
      BY <1>4 DEF TakeTestRelay, Answered, Refetches, Loops
    <2>2. Calm([ui EXCEPT !.shown = TRUE])
      BY <1>0 DEF Calm, IsUi, UiFields
    <2> QED BY <1>1, <1>4, <2>1, <2>2 DEF TakeTestRelay
  <1>5. CASE TakeDanger(c)
    <2>1. c.op \in {"stats", "logs"} /\ (c.ok => Refetches(c) \subseteq OnSuccess(c, {c.op}))
      BY <1>5 DEF TakeDanger, Answered, Refetches, Loops, OnSuccess
    <2> QED BY <1>1, <1>5, <2>1, ThroughIsCalm DEF TakeDanger
  <1> QED BY <1>2, <1>3, <1>4, <1>5 DEF SettingsTake

-----------------------------------------------------------------------------
(* The pages that watch. *)

\* The documentation is loaded anew.
LoadStep ==
    \E u : On("docs") /\ Calm(u) /\ calls' = {} /\ ui' = u
           /\ UNCHANGED <<page, store, cache, fetch, clicks, missed>>

\* What a sync of the prices sends.
LEMMA SyncFields ==
    ASSUME NEW models \in SUBSET Rows
    PROVE  LET r == Sync(models)
           IN  /\ IsCall(r) /\ r.n = clicks + 1 /\ r.op = "sync"
               /\ r.writes = {"catalogue"} /\ r.adds \subseteq Rows
  <1>1. IsCall(Req("sync", Nobody, {"catalogue"}))
    BY ReqFields
  <1> QED BY <1>1, ReqFields DEF Sync, IsCall, CallFields

\* A ban is sent once the route has been read.
LEMMA BanFields ==
    ASSUME NEW c
    PROVE  LET r == [Req("ban", c.row, {"section", "health"}) EXCEPT !.n = c.n, !.adds = {c.row}]
           IN  /\ IsCall(r) /\ r.n = c.n /\ r.op = "ban" /\ r.writes = {"section", "health"}
               /\ r.ons = {} /\ r.offs = {}
  <1>1. IsCall(Req("ban", c.row, {"section", "health"}))
    BY ReqFields
  <1> QED BY <1>1, ReqFields DEF IsCall, CallFields

\* The second half of the curtain of the theme.
LEMMA FadeFields ==
    ASSUME NEW c
    PROVE  LET r == [Req("fade", Nobody, {}) EXCEPT !.n = c.n]
           IN  IsCall(r) /\ r.n = c.n /\ r.op = "fade" /\ r.writes = {}
  <1>1. IsCall(Req("fade", Nobody, {}))
    BY ReqFields
  <1> QED BY <1>1, ReqFields DEF IsCall, CallFields

\* The theme leaves the question as it is.
LEMMA FlippedIsCalm ==
    ASSUME NEW u, Calm(u)
    PROVE  Calm(Flipped(u))
  BY DEF Flipped, Calm, IsUi, UiFields

\* The table changes only what is shown of it.
LEMMA TableTouches ==
    ASSUME Inv, TableSteps
    PROVE  TouchStep
  <1>0. IsUi(ui)
    BY DEF Inv, Shapes
  <1>1. ASSUME NEW hidden, Rearrange(hidden)
        PROVE  TouchStep
    <2>1. Calm(AutoReset([ui EXCEPT !.sel = hidden]))
      BY <1>0 DEF AutoReset, Calm, IsUi, UiFields
    <2> QED BY <1>1, <2>1 DEF Rearrange, TouchStep
  <1>2. ASSUME NEW index, NEW size, GoTo(index, size)
        PROVE  TouchStep
    <2>1. Calm([ui EXCEPT !.draft = [index |-> index, size |-> size]])
      BY <1>0 DEF Calm, IsUi, UiFields
    <2> QED BY <1>2, <2>1 DEF GoTo, TouchStep
  <1> QED BY <1>1, <1>2 DEF TableSteps, FilterRows, SortRows, Pager

\* So does the documentation, unless it is loaded anew.
LEMMA DocsTouches ==
    ASSUME Inv, DocsSteps
    PROVE  TouchStep \/ LoadStep
  <1>0. IsUi(ui) /\ On("docs")
    BY DEF Inv, Shapes, DocsSteps
  <1>1. ASSUME NEW s, NEW d, Touch([ui EXCEPT !.open = s, !.draft = d])
        PROVE  TouchStep
    <2>1. Calm([ui EXCEPT !.open = s, !.draft = d])
      BY <1>0 DEF Calm, IsUi, UiFields
    <2> QED BY <1>1, <2>1 DEF TouchStep
  <1>2. ASSUME NEW d, Touch([ui EXCEPT !.draft = d])
        PROVE  TouchStep
    <2>1. Calm([ui EXCEPT !.draft = d])
      BY <1>0 DEF Calm, IsUi, UiFields
    <2> QED BY <1>2, <2>1 DEF TouchStep
  <1>3. ASSUME NEW d, Load(d)
        PROVE  LoadStep
    <2> DEFINE u == [ui EXCEPT !.draft = [d EXCEPT !.copied = FALSE], !.busy = "none",
                               !.open = slugFromPath(Address(d))]
    <2>1. Calm(u)
      BY <1>0 DEF Calm, IsUi, UiFields
    <2>2. ui' = u /\ calls' = {} /\ UNCHANGED <<page, store, cache, fetch, clicks, missed>>
      BY <1>3 DEF Load
    <2> HIDE DEF u
    <2> QED BY <1>0, <2>1, <2>2 DEF LoadStep
  <1>4. CASE PickPage \/ SelectPage \/ FollowLink
    BY <1>1, <1>3, <1>4 DEF PickPage, SelectPage, FollowLink, navigate, OpenPath
  <1>5. CASE Title \/ Reload
    BY <1>3, <1>5 DEF Title, OpenPath, Reload
  <1>6. CASE FollowHeading
    BY <1>2, <1>6 DEF FollowHeading
  <1>7. CASE BackOrForward
    <2>1. PICK i : Touch(onPop([ui.draft EXCEPT !.at = i]))
      BY <1>7 DEF BackOrForward
    <2> DEFINE d == [ui.draft EXCEPT !.at = i]
               s == slugFromPath(Address(d))
    <2>2. Touch([ui EXCEPT !.draft = d, !.open = s])
      BY <2>1 DEF onPop
    <2> HIDE DEF d, s
    <2>3. [ui EXCEPT !.draft = d, !.open = s] = [ui EXCEPT !.open = s, !.draft = d]
      BY <1>0 DEF IsUi, UiFields
    <2> QED BY <1>1, <2>2, <2>3
  <1>8. CASE TypeApiKey
    <2>1. PICK d : Touch([ui EXCEPT !.draft = d])
      BY <1>8 DEF TypeApiKey
    <2> QED BY <1>2, <2>1
  <1>9. CASE CopyCode
    <2>1. PICK d : Touch([ui EXCEPT !.draft = d])
      BY <1>9 DEF CopyCode
    <2> QED BY <1>2, <2>1
  <1> QED BY <1>4, <1>5, <1>6, <1>7, <1>8, <1>9 DEF DocsSteps

\* Every click on the pages that monitor, the documentation and the prices.
LEMMA MonitorOperates ==
    ASSUME Inv, MonitorOperate
    PROVE  HandlerStep \/ LoadStep
  <1> USE DEF HandlerStep
  <1>0. IsUi(ui) /\ Calm(ui)
    BY BusilyIsCalm DEF Inv, Shapes
  <1>1. ASSUME NEW r, NEW u, Click(r, u), Calm(u), IsCall(r), r.n = clicks + 1, Sound(r),
               r.op \in {"resetStats", "refreshModels", "warmupAll", "readRoute", "sync", "curtain"}
        PROVE  HandlerStep
    BY <1>1, OneClick DEF Deletions
  <1>2. CASE SetRange \/ RefreshDecisions
    BY <1>2 DEF SetRange, RefreshDecisions, RefetchStep
  <1>3. CASE AskResetStats
    <2>1. ~On("accounts") /\ ~On("danger") /\ AskFirst("stats", {})
      BY <1>3 DEF AskResetStats, On
    <2> QED BY <2>1 DEF AskFirst, AskStep
  <1>4. CASE ResetStats \/ RefreshModels \/ RunWarmup
    <2>0. Elsewhere
      BY <1>4 DEF ResetStats, RefreshModels, RunWarmup, On, Elsewhere
    <2>1. Calm(Running("stats"))
      BY <1>0 DEF Running, Calm, IsUi, UiFields
    <2>2. ASSUME NEW r, \/ r.op = "resetStats" /\ r.writes = {"stats"}
                        \/ r.op = "refreshModels" /\ r.writes = {}
                        \/ r.op = "warmupAll" /\ r.writes = {"warmup", "accounts"}
          PROVE  Sound(r)
      BY <2>0, <2>2 DEF Sound, OfPage, Elsewhere, Refetches, Loops
    <2> QED BY <1>0, <1>1, <1>4, <2>1, <2>2, ReqFields DEF ResetStats, RefreshModels, RunWarmup
  <1>5. ASSUME NEW m, BanRoute(m)
        PROVE  HandlerStep
    <2> DEFINE r == Req("readRoute", m, {})
    <2>1. /\ IsCall(r) /\ r.n = clicks + 1 /\ r.op = "readRoute" /\ r.writes = {}
          /\ r.ons = {} /\ r.offs = {} /\ Click(r, ui) /\ On("models")
      BY <1>5, ReqFields DEF BanRoute
    <2> HIDE DEF r
    <2>2. Sound(r)
      BY <2>1 DEF Sound, OfPage, On
    <2> QED BY <1>0, <1>1, <2>1, <2>2
  <1>6. CASE HardRefresh
    <2>1. PICK models \in SUBSET Rows : Click(Sync(models), [ui EXCEPT !.busy = "sync"])
      BY <1>6 DEF HardRefresh
    <2> DEFINE r == Sync(models)
    <2>2. /\ IsCall(r) /\ r.n = clicks + 1 /\ r.op = "sync"
          /\ r.writes = {"catalogue"} /\ r.adds \subseteq Rows
      BY SyncFields
    <2>3. Click(r, [ui EXCEPT !.busy = "sync"]) /\ On("prices")
      BY <1>6, <2>1 DEF HardRefresh
    <2> HIDE DEF r
    <2>4. Sound(r)
      BY <2>2, <2>3 DEF Sound, OfPage, On, Refetches, Loops
    <2>5. Calm([ui EXCEPT !.busy = "sync"])
      BY <1>0 DEF Calm, IsUi, UiFields
    <2> QED BY <1>1, <2>2, <2>3, <2>4, <2>5
  <1>7. CASE TableSteps \/ DocsSteps
    BY <1>7, TableTouches, DocsTouches
  <1>8. CASE PressG \/ TogglePalette
    <2>1. Calm([ui EXCEPT !.draft = "g"]) /\ Calm([ui EXCEPT !.shown = ~@])
      BY <1>0 DEF Calm, IsUi, UiFields
    <2> QED BY <1>8, <2>1 DEF PressG, TogglePalette, TouchStep
  <1>9. CASE PressKey
    <2>1. PICK to : Touch([ui EXCEPT !.draft = "saved", !.open = to])
      BY <1>9 DEF PressKey
    <2>2. Calm([ui EXCEPT !.draft = "saved", !.open = to])
      BY <1>0 DEF Calm, IsUi, UiFields
    <2> QED BY <2>1, <2>2 DEF TouchStep
  <1>10. CASE PickItem
    <2>1. PICK to : Touch([ui EXCEPT !.shown = FALSE, !.open = to])
      BY <1>10 DEF PickItem
    <2>2. Calm([ui EXCEPT !.shown = FALSE, !.open = to])
      BY <1>0 DEF Calm, IsUi, UiFields
    <2> QED BY <2>1, <2>2 DEF TouchStep
  <1>11. CASE setLang
    <2>1. PICK k : Touch([ui EXCEPT !.kind = k, !.shown = FALSE])
      BY <1>11 DEF setLang
    <2>2. Calm([ui EXCEPT !.kind = k, !.shown = FALSE])
      BY <1>0 DEF Calm, IsUi, UiFields
    <2> QED BY <2>1, <2>2 DEF TouchStep
  <1>12. CASE ToggleTheme
    <2>1. CASE Touch(Flipped([ui EXCEPT !.shown = FALSE]))
      <3>1. Calm([ui EXCEPT !.shown = FALSE])
        BY <1>0 DEF Calm, IsUi, UiFields
      <3> QED BY <2>1, <3>1, FlippedIsCalm DEF TouchStep
    <2>2. CASE Click(Req("curtain", Nobody, {}), [ui EXCEPT !.busy = "theme"])
      <3> DEFINE r == Req("curtain", Nobody, {})
      <3>1. /\ IsCall(r) /\ r.n = clicks + 1 /\ r.op = "curtain" /\ r.writes = {}
            /\ Click(r, [ui EXCEPT !.busy = "theme"])
        BY <2>2, ReqFields
      <3> HIDE DEF r
      <3>2. Sound(r)
        BY <1>12, <3>1 DEF Sound, OfPage, On, ToggleTheme, OnShell
      <3>3. Calm([ui EXCEPT !.busy = "theme"])
        BY <1>0 DEF Calm, IsUi, UiFields
      <3> QED BY <1>1, <3>1, <3>2, <3>3
    <2> QED BY <1>12, <2>1, <2>2 DEF ToggleTheme
  <1> QED BY <1>2, <1>3, <1>4, <1>5, <1>6, <1>7, <1>8, <1>9, <1>10, <1>11, <1>12
          DEF MonitorOperate

\* Every answer on these pages.
LEMMA MonitorTakes ==
    ASSUME Inv, NEW c \in calls, MonitorTake(c)
    PROVE  SettleStep
  <1>0. Calm(ui) /\ Sound(c)
    BY BusilyIsCalm DEF Inv, RequestInv
  <1>1. ASSUME NEW Q, NEW u, Settle(c, {}, Q, u), Calm(u),
               c.op \in {"resetStats", "refreshModels", "warmupAll", "readRoute", "ban", "sync",
                         "curtain", "fade"},
               c.ok => Refetches(c) \subseteq Q
        PROVE  SettleStep
    BY <1>1, SimplySettles DEF Loops, TableOps
  <1>2. CASE TakeResetStats(c)
    <2>1. c.op = "resetStats" /\ (c.ok => Refetches(c) \subseteq OnSuccess(c, {"stats"}))
      BY <1>2 DEF TakeResetStats, Answered, Refetches, Loops, OnSuccess
    <2> QED BY <1>1, <1>2, <2>1, ThroughIsCalm DEF TakeResetStats
  <1>3. CASE TakeRefreshModels(c)
    <2>1. c.op = "refreshModels" /\ Refetches(c) = {}
      BY <1>3 DEF TakeRefreshModels, Answered, Refetches, Loops
    <2> QED BY <1>0, <1>1, <1>3, <2>1 DEF TakeRefreshModels
  <1>4. CASE TakeRunWarmup(c)
    <2>1. c.op = "warmupAll" /\ Refetches(c) = {"warmup", "accounts"}
      BY <1>4 DEF TakeRunWarmup, Answered, Refetches, Loops
    <2> QED BY <1>0, <1>1, <1>4, <2>1 DEF TakeRunWarmup
  <1>5. CASE TakeReadRoute(c)
    <2>0. c.op = "readRoute" /\ Refetches(c) = {}
      BY <1>5 DEF TakeReadRoute, Answered, Refetches, Loops
    <2>1. CASE ~c.ok
      BY <1>0, <1>1, <1>5, <2>0, <2>1 DEF TakeReadRoute
    <2>2. CASE c.ok
      <3> DEFINE d == [Req("ban", c.row, {"section", "health"}) EXCEPT !.n = c.n, !.adds = {c.row}]
      <3>1. Settle(c, {d}, {}, ui)
        BY <1>5, <2>2 DEF TakeReadRoute
      <3>2. /\ IsCall(d) /\ d.n = c.n /\ d.op = "ban" /\ d.writes = {"section", "health"}
            /\ d.ons = {} /\ d.offs = {}
        BY BanFields
      <3> HIDE DEF d
      <3>3. Sound(d)
        BY <1>0, <2>0, <3>2 DEF Sound, OfPage, Refetches, TableOps, Loops
      <3>4. HandsOn(c, {d})
        BY <2>0, <3>2, <3>3 DEF HandsOn, Loops, Deletions
      <3>5. Pays(c, {d}, {})
        BY <1>0, <2>0 DEF Pays, Owes, Loops, Sound, Passing, TokenSavers
      <3> QED BY <1>0, <3>1, <3>4, <3>5 DEF SettleStep
    <2> QED BY <2>1, <2>2
  <1>6. CASE TakeBan(c)
    <2>1. c.op = "ban" /\ (c.ok => Refetches(c) \subseteq OnSuccess(c, {"section", "health"}))
      BY <1>6 DEF TakeBan, Answered, Refetches, Loops, OnSuccess
    <2> QED BY <1>0, <1>1, <1>6, <2>1 DEF TakeBan
  <1>7. CASE TakeSync(c)
    <2>1. c.op = "sync" /\ (c.ok => Refetches(c) \subseteq OnSuccess(c, {"catalogue"}))
      BY <1>7 DEF TakeSync, Answered, Refetches, Loops, OnSuccess
    <2>2. Calm([ui EXCEPT !.busy = IF c.ok THEN "refetch" ELSE "none"])
      BY <1>0 DEF Calm, IsUi, UiFields
    <2> QED BY <1>1, <1>7, <2>1, <2>2 DEF TakeSync
  <1>8. CASE TakeCurtain(c)
    <2>0. c.op \in {"curtain", "fade"} /\ Refetches(c) = {}
      BY <1>8 DEF TakeCurtain, Answered, Refetches, Loops
    <2>1. CASE ~(c.ok /\ c.op = "curtain")
      <3>1. Calm([ui EXCEPT !.busy = "none"])
        BY <1>0 DEF Calm, IsUi, UiFields
      <3> QED BY <1>1, <1>8, <2>0, <2>1, <3>1 DEF TakeCurtain
    <2>2. CASE c.ok /\ c.op = "curtain"
      <3> DEFINE d == [Req("fade", Nobody, {}) EXCEPT !.n = c.n]
      <3>1. Settle(c, {d}, {}, Flipped(ui)) /\ Calm(Flipped(ui))
        BY <1>0, <1>8, <2>2, FlippedIsCalm DEF TakeCurtain
      <3>2. IsCall(d) /\ d.n = c.n /\ d.op = "fade" /\ d.writes = {}
        BY FadeFields
      <3> HIDE DEF d
      <3>3. Sound(d)
        BY <1>0, <2>2, <3>2 DEF Sound, OfPage, TableOps, Loops
      <3>4. HandsOn(c, {d})
        BY <2>2, <3>2, <3>3 DEF HandsOn, Loops, Deletions
      <3>5. Pays(c, {d}, {})
        BY <1>0, <2>0 DEF Pays, Owes, Loops, Sound, Passing, TokenSavers
      <3> QED BY <3>1, <3>4, <3>5 DEF SettleStep
    <2> QED BY <2>1, <2>2
  <1> QED BY <1>2, <1>3, <1>4, <1>5, <1>6, <1>7, <1>8 DEF MonitorTake

\* The usage page.
LEMMA UsageLooksUp ==
    ASSUME Inv, NEW k, Lookup(k)
    PROVE  SendStep
  <1> DEFINE r == Req("lookup", k, {})
             u == [ui EXCEPT !.busy = "lookup"]
  <1>1. /\ IsCall(r) /\ r.n = clicks + 1 /\ r.op = "lookup" /\ r.writes = {}
        /\ Click(r, u) /\ On("usage")
    BY ReqFields DEF Lookup
  <1>2. Calm(u)
    BY DEF Inv, Shapes, Calm, IsUi, UiFields
  <1> HIDE DEF r, u
  <1>3. Sound(r) /\ r.op \notin Deletions
    BY <1>1 DEF Sound, OfPage, On, Deletions
  <1> QED BY <1>1, <1>2, <1>3, OneClick

\* The answer to the look-up of a key's usage.
LEMMA UsageTakes ==
    ASSUME Inv, NEW c \in calls, TakeLookup(c)
    PROVE  SettleStep
  <1>1. Calm([ui EXCEPT !.busy = "none"])
    BY DEF Inv, Shapes, Calm, IsUi, UiFields
  <1>2. c.op = "lookup" /\ Refetches(c) = {}
    BY DEF TakeLookup, Answered, Refetches, Loops
  <1> QED BY <1>1, <1>2, SimplySettles DEF TakeLookup, Loops, TableOps

-----------------------------------------------------------------------------
(* The dialog that adds accounts. *)

\* The sign-in of a form goes on, and no account is added.
LoginStep ==
    /\ On("add")
    /\ \E f \in Forms : \E l : IsLogin(l) /\ login' = [login EXCEPT ![f] = l] /\ ~LoginOwes(f)
    /\ SendStep \/ UNCHANGED coreVars

\* A sign-in has succeeded, and its account is saved.
AddedStep ==
    \E f \in Forms :
       /\ On("add") /\ Added(f)
       /\ login[f].pc \in {"poll", "complete"} /\ login[f].at # "answered"

\* What follows an account that was added.
LEMMA AfterAddFields ==
    ASSUME NEW n, NEW r \in AfterAdd(n)
    PROVE  IsCall(r) /\ r.n = n /\ r.op = "afterAdd" /\ r.writes = AccountsQ
  <1>1. IsCall(Req("afterAdd", AllIds, AccountsQ))
    BY ReqFields
  <1> QED BY <1>1, ReqFields DEF AfterAdd, IsCall, CallFields

\* What an import sends, one request at a time; it remembers whether one was added.
LEMMA ImportFields ==
    ASSUME NEW f, NEW n, NEW left, NEW added
    PROVE  LET r == ImportReq(f, n, left, added)
           IN  /\ IsCall(r) /\ r.n = n /\ r.op = "import" /\ r.writes = AccountsQ
               /\ r.row.added = added
  <1> DEFINE row == [form |-> f, left |-> left, added |-> added]
             r == Req("import", row, AccountsQ)
  <1>1. IsCall(r) /\ r.op = "import" /\ r.row = row /\ r.writes = AccountsQ
    BY ReqFields
  <1>2. row.added = added
    OBVIOUS
  <1>3. ImportReq(f, n, left, added) = [r EXCEPT !.n = n]
    BY DEF ImportReq
  <1> HIDE DEF row, r
  <1> QED BY <1>1, <1>2, <1>3 DEF IsCall, CallFields

\* Adding accounts has the accounts fetched anew.
LEMMA SoundOnAdd ==
    ASSUME Elsewhere, NEW r,
           r.op \in {"import", "afterAdd"}, r.writes = AccountsQ
    PROVE  Sound(r)
  BY DEF Sound, OfPage, Elsewhere, Refetches, Loops

\* The dialog that adds accounts opens, switches and closes.
LEMMA DialogTouches ==
    ASSUME Inv, DialogSteps
    PROVE  TouchStep /\ UNCHANGED login
  <1>0. IsUi(ui)
    BY DEF Inv, Shapes
  <1>1. ASSUME NEW method
        PROVE  Calm(Choosing(method))
    BY <1>0 DEF Choosing, Calm, IsUi, UiFields
  <1>2. Calm(Closed(ui))
    BY <1>0 DEF Closed, Calm, IsUi, UiFields
  <1>3. CASE OpenAdd \/ PickMethod
    BY <1>1, <1>3 DEF OpenAdd, PickMethod, TouchStep, loginVars
  <1>4. CASE LeaveForm
    BY <1>1, <1>2, <1>4 DEF LeaveForm, Leave, TouchStep
  <1> QED BY <1>3, <1>4 DEF DialogSteps

\* An import starts with its first entry.
LEMMA ImportSends ==
    ASSUME Inv, ImportSteps
    PROVE  SendStep /\ UNCHANGED login
  <1>1. ASSUME NEW methods, NEW requests, Import(methods, requests)
        PROVE  SendStep /\ UNCHANGED login
    <2>0. PICK no : no = FALSE
      OBVIOUS
    <2> DEFINE r == ImportReq(ui.draft.form, clicks + 1, requests, no)
    <2>1. IsCall(r) /\ r.n = clicks + 1 /\ r.op = "import" /\ r.writes = AccountsQ
      BY ImportFields
    <2>2. /\ Click(r, ui) /\ UNCHANGED login
          /\ Elsewhere
      BY <1>1, <2>0 DEF Import, SubmitRow, FormOfMethod, On, Elsewhere, loginVars
    <2> HIDE DEF r
    <2>3. Sound(r) /\ r.op \notin Deletions
      BY <2>1, <2>2, SoundOnAdd DEF Deletions
    <2> QED BY <2>1, <2>2, <2>3, BusilyIsCalm, OneClick
  <1>2. ASSUME NEW methods, NEW items, useCredentialImport(methods, items)
        PROVE  SendStep /\ UNCHANGED login
    BY <1>1, <1>2 DEF useCredentialImport
  <1> QED BY <1>1, <1>2 DEF ImportSteps, CredentialsForm, LocalCacheForm, CookieForm, CompatForm,
          SsoTokenForm, CodeBuddyForm, GrokImportForm, CodexImportForm, ClinepassImportForm,
          OpenCodeTokenImportForm

\* Every answer of an import: the next entry, or the end.
LEMMA AddTakes ==
    ASSUME Inv, NEW c \in calls, AddTake(c)
    PROVE  SettleStep /\ UNCHANGED login
  <1>0. Calm(ui) /\ Sound(c) /\ IsUi(ui)
    BY BusilyIsCalm DEF Inv, RequestInv, Shapes
  <1>1. CASE TakeAfterAdd(c)
    <2>1. c.op = "afterAdd" /\ Refetches(c) = AccountsQ
      BY <1>1 DEF TakeAfterAdd, Answered, Refetches, Loops
    <2> QED BY <1>0, <1>1, <2>1, SimplySettles DEF TakeAfterAdd, Loops, TableOps, loginVars
  <1>2. CASE importCredentials(c)
    <2>0. c.op = "import" /\ c.pc = "answered" /\ c.writes \subseteq AccountsQ
      BY <1>0, <1>2 DEF importCredentials, Answered, Sound, Passing, TokenSavers, Refetches, Loops
    <2>1. \A q : Owes(c, q) => q \in AccountsQ /\ (c.ok \/ c.row.added \/ q \in Forgiven(c))
      <3>1. Elsewhere
        BY <2>0, OtherPages DEF TableOps, Loops
      <3> QED BY <2>0, <3>1 DEF Owes, Forgiven, Untold, Elsewhere, Loops
    <2>2. CASE ~(c.row.left > 1) /\ ~(c.ok \/ c.row.added)
      <3>1. Settle(c, {}, {}, ui) /\ UNCHANGED login
        BY <1>2, <2>2 DEF importCredentials, loginVars
      <3> QED BY <1>0, <2>1, <2>2, <3>1, OneSettles
    <2>3. CASE c.row.left > 1
      <3> DEFINE added == c.ok \/ c.row.added
                 d == ImportReq(c.row.form, c.n, c.row.left - 1, added)
      <3>1. Settle(c, {d}, {}, ui) /\ UNCHANGED login
        BY <1>2, <2>3 DEF importCredentials, loginVars
      <3>2. /\ IsCall(d) /\ d.n = c.n /\ d.op = "import" /\ d.writes = AccountsQ
            /\ d.row.added = (c.ok \/ c.row.added)
        BY ImportFields
      <3> HIDE DEF d
      <3>3. Sound(d)
        BY <2>0, <3>2, OtherPages, SoundOnAdd DEF TableOps, Loops
      <3>4. HandsOn(c, {d})
        BY <2>0, <3>2, <3>3 DEF HandsOn, Loops, Deletions
      <3>5. \A q : Owes(c, q) => Owes(d, q) \/ q \in Forgiven(c)
        BY <2>1, <3>2, Zenon DEF Owes
      <3>6. Pays(c, {d}, {})
        BY <3>5 DEF Pays
      <3> QED BY <1>0, <3>1, <3>4, <3>6 DEF SettleStep
    <2>4. CASE ~(c.row.left > 1) /\ (c.ok \/ c.row.added)
      <3>1. Settle(c, AfterAdd(c.n), AccountsQ, Closed(ui)) /\ UNCHANGED login
        BY <1>2, <2>4 DEF importCredentials, onDone
      <3>2. Calm(Closed(ui))
        BY <1>0 DEF Closed, Calm, IsUi, UiFields
      <3>3. \A d \in AfterAdd(c.n) : /\ IsCall(d) /\ d.n = c.n /\ Sound(d)
                                     /\ d.op = "afterAdd"
        BY <2>0, OtherPages, AfterAddFields, SoundOnAdd DEF TableOps, Loops
      <3>4. HandsOn(c, AfterAdd(c.n))
        BY <2>0, <3>3 DEF HandsOn, Loops, Deletions
      <3>5. Pays(c, AfterAdd(c.n), AccountsQ)
        BY <2>1 DEF Pays
      <3> QED BY <3>1, <3>2, <3>4, <3>5 DEF SettleStep
    <2> QED BY <2>2, <2>3, <2>4
  <1> QED BY <1>1, <1>2 DEF AddTake

\* A click that sends a request of a sign-in.
LEMMA SendsNothingElse ==
    ASSUME Inv, Sends
    PROVE  SendStep
  BY BusilyIsCalm DEF Sends, SendStep, OfClick

\* The sign-in of a form changes.
LEMMA LoginGoes ==
    ASSUME Inv, NEW f \in Forms, NEW l, IsLogin(l), Goes(f, l), On("add"), ~LoginOwes(f),
           Sends \/ UNCHANGED coreVars
    PROVE  LoginStep
  BY SendsNothingElse DEF LoginStep, Goes

\* What operators, browsers and deadlines do to a sign-in.
LEMMA LoginsOperate ==
    ASSUME Inv, NEW f \in Forms, LoginSteps(f) \/ RelaySteps(f)
    PROVE  LoginStep \/ ((SendStep \/ UNCHANGED coreVars) /\ UNCHANGED login)
  <1>0. IsLogin(login[f])
    BY DEF Inv, LoginShapes
  <1>1. ASSUME NEW methods, NEW kind, StartLogin(f, methods, kind)
        PROVE  LoginStep
    <2> DEFINE l == [login[f] EXCEPT !.kind = kind, !.pc = "start", !.at = "sent"]
    <2>1. IsLogin(l)
      BY <1>0 DEF IsLogin, LoginFields
    <2>2. Goes(f, l) /\ On("add") /\ ~LoginOwes(f) /\ Sends
      BY <1>1 DEF StartLogin, FormOfMethod, LoginOwes
    <2> HIDE DEF l
    <2> QED BY <2>1, <2>2, LoginGoes
  <1>2. CASE StartDevice(f) \/ StartIam(f) \/ StartKiro(f)
    BY <1>1, <1>2 DEF StartDevice, StartIam, StartKiro
  <1>3. CASE CompleteIam(f)
    <2> DEFINE l == [login[f] EXCEPT !.pc = "complete", !.at = "sent"]
    <2>1. IsLogin(l)
      BY <1>0 DEF IsLogin, LoginFields
    <2>2. Goes(f, l) /\ On("add") /\ ~LoginOwes(f) /\ Sends
      BY <1>3 DEF CompleteIam, FormOfMethod, LoginOwes
    <2> HIDE DEF l
    <2> QED BY <2>1, <2>2, LoginGoes
  <1>4. CASE PasteCallback(f)
    BY <1>4, SendsNothingElse DEF PasteCallback
  <1>5. CASE Deadline(f) \/ GraceEnds(f) \/ handleCallback(f) \/ RelaySteps(f)
    BY <1>5 DEF Deadline, GraceEnds, handleCallback, RelaySteps, RelayKiroSsoCallback, TakeRelay
  <1> QED BY <1>2, <1>3, <1>4, <1>5 DEF LoginSteps

\* A sign-in that is under way goes on.
LEMMA LoginsGoOn ==
    ASSUME Inv, NEW f \in Forms, LoginServes(f) \/ LoginTakes(f)
    PROVE  On("add") /\ (LoginStep \/ AddedStep \/ TakeLogin(f))
  <1>0. IsLogin(login[f])
    BY DEF Inv, LoginShapes
  <1>1. On("add")
    <2>1. ~(login[f].pc = "idle" /\ login[f].at = "none")
      BY DEF LoginServes, LoginTakes, StartKiroSsoLogin, PollKiroSsoAuth, exchange, ServeProvider,
             TakeStart, pollUntilDone, TakePending, TakeLogin, At
    <2> QED BY <2>1 DEF Inv, LoginInv
  <1>3. ASSUME NEW res, Answer(f, res), ~LoginOwes(f), UNCHANGED coreVars
        PROVE  LoginStep
    <2> DEFINE l == [login[f] EXCEPT !.at = "answered", !.res = res]
    <2>1. IsLogin(l) /\ Goes(f, l)
      BY <1>0, <1>3 DEF IsLogin, LoginFields, Answer
    <2> HIDE DEF l
    <2> QED BY <1>1, <1>3, <2>1, LoginGoes
  <1>4. CASE StartKiroSsoLogin(f)
    <2>1. PICK res : Answer(f, res)
      BY <1>4 DEF StartKiroSsoLogin
    <2>2. ~LoginOwes(f) /\ UNCHANGED coreVars
      BY <1>4 DEF StartKiroSsoLogin, At, LoginOwes
    <2> QED BY <1>1, <1>3, <2>1, <2>2
  <1>5. CASE PollKiroSsoAuth(f)
    <2>1. ~LoginOwes(f) /\ UNCHANGED coreVars
      BY <1>5 DEF PollKiroSsoAuth, At, LoginOwes
    <2>2. CASE Goes(f, [login[f] EXCEPT !.at = "exchange"])
      <3> DEFINE l == [login[f] EXCEPT !.at = "exchange"]
      <3>1. IsLogin(l) /\ Goes(f, l)
        BY <1>0, <2>2 DEF IsLogin, LoginFields
      <3> HIDE DEF l
      <3> QED BY <1>1, <2>1, <3>1, LoginGoes
    <2>3. CASE ~Goes(f, [login[f] EXCEPT !.at = "exchange"])
      <3>1. PICK res : Answer(f, res)
        BY <1>5, <2>3, Zenon DEF PollKiroSsoAuth
      <3> QED BY <1>1, <1>3, <2>1, <3>1
    <2> QED BY <2>2, <2>3
  <1>6. CASE exchange(f)
    BY <1>1, <1>3, <1>6 DEF exchange, At, LoginOwes, OnlyLogin, AddedStep
  <1>7. CASE ServeProvider(f)
    BY <1>1, <1>3, <1>7 DEF ServeProvider, LoginOwes, OnlyLogin, AddedStep
  <1>8. CASE TakeStart(f)
    <2> DEFINE seen == login[f].res = "ok" /\ alive(f)
               next == IF login[f].res = "ok" /\ login[f].kind # "iam" THEN "sleep" ELSE "idle"
               l == [login[f] EXCEPT !.pc = next, !.at = "none", !.res = "none", !.seen = seen]
    <2>1. Goes(f, l) /\ ~LoginOwes(f) /\ UNCHANGED coreVars
      BY <1>8 DEF TakeStart, At, LoginOwes, OnlyLogin
    <2>2. IsLogin(l)
      BY <1>0 DEF IsLogin, LoginFields
    <2> HIDE DEF l
    <2> QED BY <1>1, <2>1, <2>2, LoginGoes
  <1>9. CASE pollUntilDone(f)
    <2>1. PICK l : /\ Goes(f, l)
                   /\ l \in {[login[f] EXCEPT !.pc = "poll", !.at = "sent"], [login[f] EXCEPT !.pc = "idle"]}
      BY <1>9 DEF pollUntilDone
    <2>2. IsLogin(l)
      BY <1>0, <2>1 DEF IsLogin, LoginFields
    <2>3. ~LoginOwes(f) /\ UNCHANGED coreVars
      BY <1>9 DEF pollUntilDone, At, LoginOwes, OnlyLogin
    <2> QED BY <1>1, <2>1, <2>2, <2>3, LoginGoes
  <1>10. CASE TakePending(f)
    <2> DEFINE next == IF login[f].res = "pending" THEN "sleep" ELSE "idle"
               l == [login[f] EXCEPT !.pc = next, !.at = "none", !.res = "none"]
    <2>1. Goes(f, l) /\ ~LoginOwes(f) /\ UNCHANGED coreVars
      BY <1>10 DEF TakePending, LoginOwes, OnlyLogin
    <2>2. IsLogin(l)
      BY <1>0 DEF IsLogin, LoginFields
    <2> HIDE DEF l
    <2> QED BY <1>1, <2>1, <2>2, LoginGoes
  <1> QED BY <1>1, <1>4, <1>5, <1>6, <1>7, <1>8, <1>9, <1>10 DEF LoginServes, LoginTakes

-----------------------------------------------------------------------------
(* Every step is of one of these kinds. *)

\* The proxy answers a fetch, the page takes the answer, polls, or others change what there is.
QueryStep ==
    \E q \in Queries : ServeFetch(q) \/ TakeFetch(q, Fetched(q)) \/ Interval(q) \/ Traffic(q)

\* A step that is no sign-in's.
PlainStep ==
    HandlerStep \/ LoadStep \/ UNCHANGED coreVars \/ (\E n : ServeCall(n)) \/ QueryStep

\* Every step of the console is of one of the kinds.
LEMMA EveryStep ==
    ASSUME Inv, [Next]_vars
    PROVE  \/ PlainStep /\ UNCHANGED login
           \/ LoginStep \/ AddedStep \/ \E f \in Forms : On("add") /\ TakeLogin(f)
  <1> USE DEF PlainStep
  <1>1. CASE CallsGoOn
    <2>1. PICK n : Serve(n) \/ Take(n)
      BY <1>1 DEF CallsGoOn
    <2>2. CASE Serve(n)
      BY <2>2 DEF Serve, OffThePage, loginVars
    <2>3. CASE Take(n)
      <3>1. PICK c \in calls : \/ PageTake(c) /\ OffThePage
                               \/ AddTake(c) /\ UNCHANGED usage
                               \/ TakeLookup(c) /\ UNCHANGED loginVars
        BY <2>3 DEF Take
      <3>2. CASE PageTake(c) /\ OffThePage
        <4>1. SettleStep
          BY <3>2, KeysTakes, AccountsTakes, SheetTakes, PoolTakes, ExportTakes, SettingsTakes,
             MonitorTakes DEF PageTake
        <4> QED BY <3>2, <4>1 DEF HandlerStep, OffThePage, loginVars
      <3>3. CASE AddTake(c)
        BY <3>3, AddTakes DEF HandlerStep
      <3>4. CASE TakeLookup(c) /\ UNCHANGED loginVars
        BY <3>4, UsageTakes DEF HandlerStep, loginVars
      <3> QED BY <3>1, <3>2, <3>3, <3>4
    <2> QED BY <2>1, <2>2, <2>3
  <1>2. CASE \E q \in Queries : QueryGoesOn(q) \/ Happens(q)
    BY <1>2 DEF QueryGoesOn, Happens, QueryStep, OffThePage, loginVars
  <1>3. CASE Operate
    <2>1. CASE Dismiss
      <3>1. Calm([ui EXCEPT !.confirm = NoConfirm])
        BY DEF Inv, Shapes, Calm, IsUi, UiFields
      <3>2. TouchStep
        BY <2>1, <3>1 DEF Dismiss, TouchStep
      <3> QED BY <1>3, <3>2 DEF Operate, HandlerStep, OffThePage, loginVars
    <2>2. CASE ~Dismiss
      <3>1. HandlerStep \/ LoadStep
        BY <1>3, <2>2, KeysOperates, AccountsOperates, SheetOperates, PoolOperates, ExportOperates,
           SettingsOperates, MonitorOperates DEF Operate
      <3> QED BY <1>3, <3>1 DEF Operate, OffThePage, loginVars
    <2> QED BY <2>1, <2>2
  <1>4. CASE LooksUp
    BY <1>4, UsageLooksUp DEF LooksUp, PollLogs, HandlerStep, loginVars
  <1>5. CASE Adds
    <2>1. CASE DialogSteps \/ ImportSteps
      BY <2>1, DialogTouches, ImportSends DEF HandlerStep
    <2>2. CASE \E f \in Forms : LoginSteps(f) \/ RelaySteps(f)
      BY <2>2, LoginsOperate DEF HandlerStep
    <2> QED BY <1>5, <2>1, <2>2 DEF Adds
  <1>6. CASE \E k \in Listed : ServeLogsOf(k) \/ TakeLogsOf(k)
    BY <1>6 DEF ServeLogsOf, TakeLogsOf, ServeLogs, TakeLogs, loginVars
  <1>7. CASE \E f \in Forms : LoginGoesOn(f) \/ Cancel(f)
    <2>1. PICK f \in Forms : LoginGoesOn(f) \/ Cancel(f)
      BY <1>7
    <2>2. CASE LoginGoesOn(f)
      BY <2>2, LoginsGoOn DEF LoginGoesOn
    <2>3. CASE Cancel(f)
      BY <2>3 DEF Cancel, CancelKiroSsoLogin
    <2> QED BY <2>1, <2>2, <2>3
  <1>8. CASE UNCHANGED vars
    BY <1>8 DEF vars, loginVars
  <1> QED BY <1>1, <1>2, <1>3, <1>4, <1>5, <1>6, <1>7, <1>8 DEF Next

-----------------------------------------------------------------------------
(* Every kind of step keeps the invariant. *)

\* What is asked of a request depends on the page only.
LEMMA SoundKept ==
    ASSUME page' = page, NEW c
    PROVE  Sound(c)' <=> Sound(c)
  <1>1. Refetches(c)' = Refetches(c)
    BY DEF Refetches, Saved, On
  <1>2. OfPage(c)' <=> OfPage(c)
    BY DEF OfPage, On
  <1> QED BY <1>1, <1>2 DEF Sound, Passing

\* The page and its questions.
LEMMA QuestionKept ==
    ASSUME Inv, page' = page, Calm(ui')
    PROVE  IsUi(ui)' /\ QuestionInv'
  <1>1. IsUi(ui')
    BY DEF Calm
  <1>2. ui'.confirm \in {ui.confirm, NoConfirm} /\ NoConfirm.kind = "none"
    BY DEF Calm, NoConfirm
  <1>3. QuestionInv'
    BY <1>2 DEF Inv, QuestionInv, On
  <1> QED BY <1>1, <1>3 DEF IsUi

\* Requests that are under way, and new ones.
LEMMA RequestsKept ==
    ASSUME Inv, page' = page, clicks' \in Nat, clicks' >= clicks,
           \A c \in calls' : IsCall(c) /\ c.n \in 0 .. clicks' /\ Sound(c) /\ (c.op \in Loops => c.n > 0),
           \A c, d \in calls' : c.n = d.n /\ c.op \in Loops => d.op = c.op
    PROVE  (\A c \in calls : IsCall(c) /\ c.n \in 0 .. clicks)' /\ RequestInv'
  BY SoundKept DEF RequestInv, IsCall

\* A subset of the requests, or the same.
LEMMA FewerRequests ==
    ASSUME Inv, page' = page, clicks' \in {clicks, clicks + 1}, calls' \subseteq calls
    PROVE  clicks' \in Nat /\ (\A c \in calls : IsCall(c) /\ c.n \in 0 .. clicks)' /\ RequestInv'
  <1>1. clicks' \in Nat /\ clicks' >= clicks /\ clicks \in Nat
    BY DEF Inv, Shapes
  <1>2. \A c \in calls' : IsCall(c) /\ c.n \in 0 .. clicks' /\ Sound(c) /\ (c.op \in Loops => c.n > 0)
    BY <1>1 DEF Inv, Shapes, RequestInv
  <1>3. \A c, d \in calls' : c.n = d.n /\ c.op \in Loops => d.op = c.op
    BY DEF Inv, RequestInv
  <1> QED BY <1>1, <1>2, <1>3, RequestsKept

\* Queries that are fetched anew.
LEMMA InvalidatedShapes ==
    ASSUME QueryShapes, NEW Q, fetch' = Invalidated(Q), UNCHANGED <<store, cache>>
    PROVE  QueryShapes' /\ Queries' = Queries
  <1>1. Queries' = Queries
    BY DEF Queries
  <1>2. IsFetch(Fresh)
    BY DEF IsFetch, Fresh, NoFetch, IsContent, Content
  <1>3. /\ fetch' = [q \in Queries |-> fetch'[q]]
        /\ \A q \in Queries : IsFetch(fetch'[q])
    BY <1>2 DEF Invalidated, QueryShapes
  <1> QED BY <1>1, <1>3 DEF QueryShapes, IsFetch, IsContent

\* What is the same is as it was.
LEMMA SameShapes ==
    ASSUME QueryShapes, UNCHANGED <<store, cache, fetch>>
    PROVE  QueryShapes' /\ Queries' = Queries
  <1>1. Queries' = Queries
    BY DEF Queries
  <1> QED BY <1>1 DEF QueryShapes, IsFetch, IsContent

\* A write.
LEMMA WrittenShapes ==
    ASSUME QueryShapes, NEW Q, NEW contents, Writes(Q, contents),
           contents = [q \in Queries |-> contents[q]], \A q \in Queries : IsContent(contents[q])
    PROVE  /\ QueryShapes' /\ Queries' = Queries
           /\ \A q \in Queries :
                 /\ store'[q] = contents[q]
                 /\ q \notin Q => cache'[q] = cache[q] /\ fetch'[q] = fetch[q]
                 /\ cache'[q].on = cache[q].on /\ cache'[q].rows = cache[q].rows
                 /\ fetch'[q].pc = fetch[q].pc
                 /\ fetch'[q].got.on = fetch[q].got.on /\ fetch'[q].got.rows = fetch[q].got.rows
  <1>1. store' = contents /\ Queries' = Queries
    BY DEF Writes, Queries
  <1>2. ASSUME NEW q \in Queries
        PROVE  /\ IsContent(cache'[q]) /\ cache'[q].on = cache[q].on /\ cache'[q].rows = cache[q].rows
               /\ q \notin Q => cache'[q] = cache[q]
    <2>1. IsContent(cache[q])
      BY DEF QueryShapes
    <2>2. cache'[q] = [cache[q] EXCEPT !.old = @ \/ q \in Q]
      BY DEF Writes
    <2> QED BY <2>1, <2>2 DEF IsContent
  <1>3. ASSUME NEW q \in Queries
        PROVE  /\ IsFetch(fetch'[q]) /\ fetch'[q].pc = fetch[q].pc
               /\ fetch'[q].got.on = fetch[q].got.on /\ fetch'[q].got.rows = fetch[q].got.rows
               /\ q \notin Q => fetch'[q] = fetch[q]
    <2> DEFINE f == fetch[q]
               g == f.got
               o == g.old \/ (q \in Q /\ f.pc = "answered")
    <2>1. IsFetch(f) /\ IsContent(g)
      BY DEF QueryShapes, IsFetch
    <2>2. fetch'[q] = [f EXCEPT !.got = [g EXCEPT !.old = o]]
      BY DEF Writes
    <2>3. o \in BOOLEAN /\ (q \notin Q => o = g.old)
      BY <2>1 DEF IsContent
    <2> HIDE DEF f, g, o
    <2>4. PICK h : h = [g EXCEPT !.old = o]
      OBVIOUS
    <2>5. IsContent(h) /\ h.on = g.on /\ h.rows = g.rows /\ (q \notin Q => h = g)
      BY <2>1, <2>3, <2>4 DEF IsContent
    <2>6. /\ IsFetch([f EXCEPT !.got = h]) /\ [f EXCEPT !.got = h].pc = f.pc
          /\ [f EXCEPT !.got = h].got = h /\ (h = f.got => [f EXCEPT !.got = h] = f)
      BY <2>1, <2>5 DEF IsFetch
    <2>7. g = f.got /\ f = fetch[q] /\ fetch'[q] = [f EXCEPT !.got = h]
      BY <2>2, <2>4 DEF g, f
    <2> QED BY <2>5, <2>6, <2>7
  <1>4. /\ cache' = [q \in Queries |-> cache'[q]]
        /\ fetch' = [q \in Queries |-> fetch'[q]]
    BY DEF Writes
  <1>5. QueryShapes'
    BY <1>1, <1>2, <1>3, <1>4 DEF QueryShapes, IsFetch, IsContent
  <1> QED BY <1>1, <1>2, <1>3, <1>5

\* Sign-ins that do not change.
LEMMA LoginKept ==
    ASSUME Inv, page' = page, UNCHANGED login
    PROVE  LoginShapes' /\ LoginInv'
  BY DEF Inv, LoginShapes, LoginInv, On, IsLogin

\* A click keeps the shapes, the question and the requests.
LEMMA ClicksKeep ==
    ASSUME Inv, TouchStep \/ AskStep \/ SendStep
    PROVE  Shapes' /\ QuestionInv' /\ RequestInv'
  <1>0. /\ page' = page /\ QueryShapes' /\ IsUi(ui) /\ clicks \in Nat
    <2>1. UNCHANGED <<page, store, cache, fetch>> /\ QueryShapes /\ IsUi(ui) /\ clicks \in Nat
      BY DEF TouchStep, AskStep, SendStep, Touch, Send, Inv, Shapes
    <2> QED BY <2>1, SameShapes
  <1>1. CASE TouchStep \/ AskStep
    <2>1. UNCHANGED <<calls, clicks>>
      BY <1>1 DEF TouchStep, AskStep, Touch
    <2>2. IsUi(ui)' /\ QuestionInv'
      <3>1. CASE TouchStep
        <4>1. Calm(ui')
          BY <3>1 DEF TouchStep, Touch
        <4> QED BY <1>0, <4>1, QuestionKept
      <3>2. CASE AskStep
        <4>1. PICK kind, rows :
                /\ On("accounts") => kind \in {"deleteOne", "deleteMany"}
                /\ On("danger") => kind \in {"stats", "logs"}
                /\ kind = "delete" => \E k : rows = {k}
                /\ Touch([ui EXCEPT !.confirm = [kind |-> kind, rows |-> rows]])
          BY <3>2 DEF AskStep
        <4>2. PICK q : q = [kind |-> kind, rows |-> rows]
          OBVIOUS
        <4>3. q.kind = kind /\ q.rows = rows
          BY <4>2
        <4>4. ui' = [ui EXCEPT !.confirm = q]
          BY <4>1, <4>2 DEF Touch
        <4>5. IsUi(ui') /\ ui'.confirm = q
          BY <1>0, <4>4 DEF IsUi, UiFields
        <4>6. QuestionInv'
          BY <1>0, <4>1, <4>3, <4>5 DEF QuestionInv, On
        <4> QED BY <4>5, <4>6 DEF IsUi
      <3> QED BY <1>1, <3>1, <3>2
    <2> QED BY <1>0, <2>1, <2>2, FewerRequests DEF Inv, Shapes
  <1>2. CASE SendStep
    <2>1. PICK reqs, u : Calm(u) /\ OfClick(reqs) /\ Send(reqs, u)
      BY <1>2 DEF SendStep
    <2>2. calls' = calls \cup reqs /\ clicks' = clicks + 1 /\ Calm(ui')
      BY <2>1 DEF Send
    <2>3. IsUi(ui)' /\ QuestionInv'
      BY <1>0, <2>2, QuestionKept
    <2>4. ASSUME NEW c \in calls'
          PROVE  IsCall(c) /\ c.n \in 0 .. clicks' /\ Sound(c) /\ (c.op \in Loops => c.n > 0)
      <3>1. CASE c \in calls
        BY <1>0, <2>2, <3>1 DEF Inv, Shapes, RequestInv
      <3>2. CASE c \in reqs
        BY <1>0, <2>1, <2>2, <3>2 DEF OfClick
      <3> QED BY <2>2, <3>1, <3>2
    <2>5. ASSUME NEW c \in calls', NEW d \in calls', c.n = d.n, c.op \in Loops
          PROVE  d.op = c.op
      <3>1. CASE c \in calls /\ d \in calls
        BY <2>5, <3>1 DEF Inv, RequestInv
      <3>2. CASE c \in reqs /\ d \in reqs
        BY <2>1, <3>2 DEF OfClick
      <3>3. \A a \in calls, b \in reqs : a.n # b.n
        BY <1>0, <2>1 DEF Inv, Shapes, OfClick
      <3> QED BY <2>2, <2>5, <3>1, <3>2, <3>3
    <2>6. clicks' \in Nat /\ clicks' >= clicks
      BY <1>0, <2>2
    <2>7. (\A c \in calls : IsCall(c) /\ c.n \in 0 .. clicks)' /\ RequestInv'
      BY <1>0, <2>4, <2>5, <2>6, RequestsKept
    <2> QED BY <1>0, <2>3, <2>6, <2>7 DEF Inv, Shapes
  <1> QED BY <1>1, <1>2

\* So does the code that goes on with an answer.
LEMMA TakingKeeps ==
    ASSUME Inv, SettleStep \/ RefetchStep \/ LoadStep
    PROVE  Shapes' /\ QuestionInv' /\ RequestInv'
  <1>0. QueryShapes /\ clicks \in Nat /\ Calm(ui) /\ IsUi(ui)
    BY BusilyIsCalm DEF Inv, Shapes
  <1>1. CASE SettleStep
    <2>1. PICK c, next, Q, u :
             c \in calls /\ Calm(u) /\ HandsOn(c, next) /\ Pays(c, next, Q) /\ Settle(c, next, Q, u)
      BY <1>1 DEF SettleStep
    <2>2. /\ UNCHANGED <<page, store, cache, clicks>>
          /\ calls' = (calls \ {c}) \cup next /\ fetch' = Invalidated(Q) /\ Calm(ui')
      BY <2>1 DEF Settle
    <2>3. QueryShapes' /\ IsUi(ui)' /\ QuestionInv'
      BY <1>0, <2>2, InvalidatedShapes, QuestionKept
    <2>4. ASSUME NEW d \in calls'
          PROVE  IsCall(d) /\ d.n \in 0 .. clicks' /\ Sound(d) /\ (d.op \in Loops => d.n > 0)
      <3>1. CASE d \in calls
        BY <2>2, <3>1 DEF Inv, Shapes, RequestInv
      <3>2. CASE d \in next
        <4>1. c.n \in 0 .. clicks
          BY <2>1 DEF Inv, Shapes
        <4> QED BY <2>1, <2>2, <3>2, <4>1 DEF HandsOn
      <3> QED BY <2>2, <3>1, <3>2
    <2>5. ASSUME NEW d \in calls', NEW e \in calls', d.n = e.n, d.op \in Loops
          PROVE  e.op = d.op
      <3>1. d \in calls
        BY <2>1, <2>2, <2>5 DEF HandsOn
      <3>2. CASE e \in calls
        BY <2>5, <3>1, <3>2 DEF Inv, RequestInv
      <3>3. CASE e \in next
        <4>1. e.n = c.n /\ c.op \notin Loops
          BY <2>1, <3>3 DEF HandsOn
        <4> QED BY <2>1, <2>5, <3>1, <4>1 DEF Inv, RequestInv
      <3> QED BY <2>2, <3>2, <3>3
    <2>6. clicks' \in Nat /\ clicks' >= clicks
      BY <1>0, <2>2
    <2>7. (\A d \in calls : IsCall(d) /\ d.n \in 0 .. clicks)' /\ RequestInv'
      BY <2>2, <2>4, <2>5, <2>6, RequestsKept
    <2> QED BY <2>2, <2>3, <2>6, <2>7 DEF Inv, Shapes
  <1>2. CASE RefetchStep
    <2>1. PICK Q : /\ fetch' = Invalidated(Q)
                   /\ clicks' \in {clicks, clicks + 1}
                   /\ UNCHANGED <<page, store, cache, calls, ui>>
      BY <1>2 DEF RefetchStep
    <2>2. QueryShapes'
      BY <1>0, <2>1, InvalidatedShapes
    <2>3. Calm(ui')
      BY <1>0, <2>1
    <2>4. IsUi(ui)' /\ QuestionInv'
      BY <2>1, <2>3, QuestionKept
    <2> QED BY <2>1, <2>2, <2>4, FewerRequests DEF Inv, Shapes
  <1>3. CASE LoadStep
    <2>1. /\ UNCHANGED <<page, store, cache, fetch, clicks>> /\ calls' = {} /\ Calm(ui')
      BY <1>3 DEF LoadStep
    <2>2. QueryShapes' /\ IsUi(ui)' /\ QuestionInv'
      BY <1>0, <2>1, SameShapes, QuestionKept
    <2> QED BY <2>1, <2>2, FewerRequests DEF Inv, Shapes
  <1> QED BY <1>1, <1>2, <1>3

\* What is fetched changes nothing but what is typed and which page of a table is shown.
LEMMA FetchedIsCalm ==
    ASSUME Inv, NEW q
    PROVE  Calm(Fetched(q))
  <1>0. IsUi(ui) /\ Calm(ui)
    BY BusilyIsCalm DEF Inv, Shapes
  <1>1. ASSUME NEW d
        PROVE  Calm([ui EXCEPT !.draft = d])
    BY <1>0 DEF Calm, IsUi, UiFields
  <1>2. Calm(Resync(fetch[q].got, ui))
    BY <1>0, <1>1 DEF Resync
  <1>3. ASSUME NEW u, Calm(u)
        PROVE  Calm(AutoReset(u))
    BY <1>3 DEF AutoReset, Calm, IsUi, UiFields
  <1>4. Calm(IF ui.busy = "refetch" THEN [ui EXCEPT !.busy = "none"] ELSE ui)
    BY <1>0 DEF Calm, IsUi, UiFields
  <1>5. Calm(Refreshed(q))
    BY <1>0, <1>3, <1>4 DEF Refreshed, Relisted
  <1> QED BY <1>2, <1>5 DEF Fetched

\* So does a fetch, a poll and what happens at the proxy.
LEMMA QueriesKeep ==
    ASSUME Inv, QueryStep
    PROVE  Shapes' /\ QuestionInv' /\ RequestInv'
  <1>0. QueryShapes /\ clicks \in Nat /\ Calm(ui)
    BY BusilyIsCalm DEF Inv, Shapes
  <1>1. PICK q \in Queries : ServeFetch(q) \/ TakeFetch(q, Fetched(q)) \/ Interval(q) \/ Traffic(q)
    BY DEF QueryStep
  <1>2. IsContent(store[q]) /\ IsContent(cache[q]) /\ IsFetch(fetch[q])
    BY <1>0 DEF QueryShapes
  <1>3. /\ page' = page /\ calls' = calls /\ clicks' \in {clicks, clicks + 1} /\ Calm(ui')
    BY <1>0, <1>1, FetchedIsCalm DEF ServeFetch, TakeFetch, Interval, Traffic
  <1>4. IsUi(ui)' /\ QuestionInv'
    BY <1>3, QuestionKept
  <1>5. CASE ServeFetch(q) \/ TakeFetch(q, Fetched(q)) \/ Interval(q)
    <2>0. IsFetch(NoFetch) /\ IsFetch(Fresh) /\ IsFetch([pc |-> "answered", got |-> store[q]])
      BY <1>2 DEF IsFetch, Fresh, NoFetch, IsContent, Content
    <2>1. PICK f : IsFetch(f) /\ fetch' = [fetch EXCEPT ![q] = f]
      BY <1>5, <2>0 DEF ServeFetch, TakeFetch, Interval
    <2>2. PICK v : IsContent(v) /\ cache' = [cache EXCEPT ![q] = v]
      <3>1. CASE TakeFetch(q, Fetched(q))
        BY <1>2, <3>1 DEF TakeFetch, IsFetch
      <3>2. CASE ServeFetch(q) \/ Interval(q)
        <4>1. cache' = [cache EXCEPT ![q] = cache[q]]
          BY <1>0, <3>2 DEF ServeFetch, Interval, QueryShapes
        <4> QED BY <1>2, <4>1
      <3> QED BY <1>5, <3>1, <3>2
    <2>3. store' = store /\ Queries' = Queries
      BY <1>5 DEF ServeFetch, TakeFetch, Interval, Queries
    <2>4. /\ fetch' = [p \in Queries |-> fetch'[p]]
          /\ cache' = [p \in Queries |-> cache'[p]]
          /\ \A p \in Queries : IsFetch(fetch'[p]) /\ IsContent(cache'[p])
      BY <1>0, <2>1, <2>2 DEF QueryShapes
    <2>5. QueryShapes'
      BY <1>0, <2>3, <2>4 DEF QueryShapes, IsFetch, IsContent
    <2> QED BY <1>3, <1>4, <2>5, FewerRequests DEF Inv, Shapes
  <1>6. CASE Traffic(q)
    <2>1. PICK on : Writes({q}, [store EXCEPT ![q].on = on])
      BY <1>6 DEF Traffic
    <2> DEFINE v == [store[q] EXCEPT !.on = on]
               contents == [store EXCEPT ![q] = v]
    <2>2. IsContent(v)
      BY <1>2 DEF IsContent
    <2>3. Writes({q}, contents)
      BY <2>1
    <2> HIDE DEF v
    <2>4. /\ contents = [p \in Queries |-> contents[p]]
          /\ \A p \in Queries : IsContent(contents[p])
      BY <1>0, <2>2 DEF QueryShapes
    <2> HIDE DEF contents
    <2>5. QueryShapes'
      BY <1>0, <2>3, <2>4, WrittenShapes
    <2> QED BY <1>3, <1>4, <2>5, FewerRequests DEF Inv, Shapes
  <1> QED BY <1>1, <1>5, <1>6

\* What a request is when the server has served it.
Served(c, ok, W) == [c EXCEPT !.pc = "answered", !.ok = ok, !.writes = W]

\* The server has served a request.
LEMMA ServedFields ==
    ASSUME NEW c, IsCall(c), NEW ok \in BOOLEAN, NEW W \in SUBSET (c.writes \cup Aside(c))
    PROVE  LET d == Served(c, ok, W)
           IN  /\ IsCall(d) /\ d.pc = "answered" /\ d.ok = ok /\ d.n = c.n /\ d.op = c.op
               /\ d.row = c.row /\ d.writes = W /\ d.adds = c.adds /\ d.ons = c.ons /\ d.offs = c.offs
               /\ Sound(c) => Sound(d)
  <1> DEFINE d == Served(c, ok, W)
  <1>1. /\ d = [x \in CallFields |-> d[x]]
        /\ d.pc = "answered" /\ d.ok = ok /\ d.n = c.n /\ d.op = c.op
        /\ d.row = c.row /\ d.writes = W /\ d.adds = c.adds /\ d.ons = c.ons /\ d.offs = c.offs
    BY DEF Served, IsCall, CallFields
  <1> HIDE DEF d
  <1>2. Refetches(d) = Refetches(c) /\ Passing(d) = Passing(c) /\ Aside(c) \subseteq Passing(c)
    BY <1>1 DEF Refetches, Passing, Aside, AccountsQ
  <1>3. IsCall(d) /\ (Sound(c) => Sound(d))
    BY <1>1, <1>2 DEF IsCall, Sound, OfPage
  <1> QED BY <1>1, <1>3 DEF d

\* What a request changes that has got as far as W.
LEMMA WrittenContents ==
    ASSUME QueryShapes, NEW c, NEW W, NEW v, v = Written(c, W)
    PROVE  /\ v = [q \in Queries |-> v[q]]
           /\ \A q \in Queries :
                 /\ IsContent(v[q])
                 /\ q \notin W \cap c.writes => v[q] = store[q]
                 /\ q \in W \cap c.writes =>
                       /\ v[q].rows = (store[q].rows \ c.drops) \cup c.adds
                       /\ v[q].on = (store[q].on \ c.offs) \cup c.ons
  <1>1. ASSUME NEW rows, NEW on, NEW w, w = Content(rows, on)
        PROVE  IsContent(w) /\ w.rows = rows /\ w.on = on
    BY <1>1 DEF Content, IsContent
  <1>2. v = [q \in Queries |-> v[q]]
    BY DEF Written
  <1>3. ASSUME NEW q \in Queries
        PROVE  /\ IsContent(v[q])
               /\ q \notin W \cap c.writes => v[q] = store[q]
               /\ q \in W \cap c.writes =>
                     /\ v[q].rows = (store[q].rows \ c.drops) \cup c.adds
                     /\ v[q].on = (store[q].on \ c.offs) \cup c.ons
    <2>1. IsContent(store[q])
      BY DEF QueryShapes
    <2>2. PICK rows, on : /\ rows = (store[q].rows \ c.drops) \cup c.adds
                          /\ on = (store[q].on \ c.offs) \cup c.ons
      OBVIOUS
    <2>3. v[q] = IF q \notin W \cap c.writes THEN store[q] ELSE Content(rows, on)
      BY <2>2 DEF Written
    <2> QED BY <1>1, <2>1, <2>2, <2>3
  <1> QED BY <1>2, <1>3

\* A request is served, wholly or in part.
LEMMA ServingWrites ==
    ASSUME NEW n, ServeCall(n)
    PROVE  \E c \in calls, ok \in BOOLEAN : \E W \in SUBSET (c.writes \cup Aside(c)) :
              /\ c.n = n /\ c.pc = "sent"
              /\ Writes(W, Written(c, W))
              /\ calls' = (calls \ {c}) \cup {Served(c, ok, W)}
              /\ UNCHANGED <<page, clicks, missed, ui>>
  BY DEF ServeCall, Served

\* So does the proxy when it serves a request.
LEMMA ServingKeeps ==
    ASSUME Inv, NEW n, ServeCall(n)
    PROVE  Shapes' /\ QuestionInv' /\ RequestInv'
  <1>0. QueryShapes /\ clicks \in Nat /\ Calm(ui)
    BY BusilyIsCalm DEF Inv, Shapes
  <1>1. PICK c \in calls, ok \in BOOLEAN : \E W \in SUBSET (c.writes \cup Aside(c)) :
           /\ Writes(W, Written(c, W))
           /\ calls' = (calls \ {c}) \cup {Served(c, ok, W)}
           /\ UNCHANGED <<page, clicks, ui>>
    BY ServingWrites
  <1>2. PICK W \in SUBSET (c.writes \cup Aside(c)) :
           /\ Writes(W, Written(c, W))
           /\ calls' = (calls \ {c}) \cup {Served(c, ok, W)}
           /\ UNCHANGED <<page, clicks, ui>>
    BY <1>1
  <1> DEFINE d == Served(c, ok, W)
  <1>3. IsCall(c) /\ Sound(c) /\ c.n \in 0 .. clicks /\ (c.op \in Loops => c.n > 0)
    BY DEF Inv, Shapes, RequestInv
  <1>4. IsCall(d) /\ Sound(d) /\ d.n = c.n /\ d.op = c.op
    BY <1>3, ServedFields
  <1> HIDE DEF d
  <1>5. QueryShapes'
    BY <1>0, <1>2, WrittenContents, WrittenShapes
  <1>6. Calm(ui')
    BY <1>0, <1>2
  <1>7. IsUi(ui)' /\ QuestionInv'
    BY <1>2, <1>6, QuestionKept
  <1>8. \A e \in calls' : IsCall(e) /\ e.n \in 0 .. clicks' /\ Sound(e) /\ (e.op \in Loops => e.n > 0)
    BY <1>2, <1>3, <1>4 DEF Inv, Shapes, RequestInv, d
  <1>9. \A e \in calls' : \E b \in calls : e.n = b.n /\ e.op = b.op
    BY <1>2, <1>4 DEF d
  <1>10. \A e, b \in calls' : e.n = b.n /\ e.op \in Loops => b.op = e.op
    BY <1>9 DEF Inv, RequestInv
  <1>11. clicks' \in Nat /\ clicks' >= clicks
    BY <1>0, <1>2
  <1>12. (\A e \in calls : IsCall(e) /\ e.n \in 0 .. clicks)' /\ RequestInv'
    BY <1>2, <1>8, <1>10, <1>11, RequestsKept
  <1> QED BY <1>2, <1>5, <1>7, <1>11, <1>12 DEF Inv, Shapes

\* On the page that adds accounts any sign-in may go on.
LEMMA LoginChanges ==
    ASSUME Inv, page' = page, On("add"), NEW f \in Forms, NEW l, IsLogin(l),
           login' = [login EXCEPT ![f] = l]
    PROVE  LoginShapes' /\ LoginInv'
  <1>1. LoginShapes
    BY DEF Inv
  <1>2. /\ login' = [g \in Forms |-> login'[g]]
        /\ \A g \in Forms : IsLogin(login'[g])
    BY <1>1 DEF LoginShapes
  <1> QED BY <1>2 DEF LoginShapes, IsLogin, LoginInv, On

\* An account that was added, and the request that follows.
LEMMA AddingKeeps ==
    ASSUME Inv, AddedStep \/ \E f \in Forms : On("add") /\ TakeLogin(f)
    PROVE  Inv'
  <1>0. QueryShapes /\ clicks \in Nat /\ Calm(ui) /\ IsUi(ui)
    BY BusilyIsCalm DEF Inv, Shapes
  <1>1. CASE AddedStep
    <2>1. PICK f \in Forms : On("add") /\ Added(f)
      BY <1>1 DEF AddedStep
    <2>2. PICK res \in {"ok", "error"} : Answer(f, res) /\ page' = page
      BY <2>1, Zenon DEF Added
    <2> DEFINE l == [login[f] EXCEPT !.at = "answered", !.res = res]
    <2>3. IsLogin(l)
      BY DEF Inv, LoginShapes, IsLogin, LoginFields
    <2>10. login' = [login EXCEPT ![f] = l]
      BY <2>2 DEF Answer, Goes
    <2> HIDE DEF l
    <2>4. LoginShapes' /\ LoginInv'
      BY <2>1, <2>2, <2>3, <2>10, LoginChanges
    <2>5. Writes(AccountsQ, store) /\ UNCHANGED <<page, calls, clicks, ui>>
      BY <2>1 DEF Added
    <2>6. QueryShapes'
      BY <1>0, <2>5, WrittenShapes DEF QueryShapes
    <2>7. Calm(ui')
      BY <1>0, <2>5
    <2>8. IsUi(ui)' /\ QuestionInv'
      BY <2>5, <2>7, QuestionKept
    <2> QED BY <2>4, <2>5, <2>6, <2>8, FewerRequests DEF Inv, Shapes
  <1>2. CASE \E f \in Forms : On("add") /\ TakeLogin(f)
    <2>1. PICK f \in Forms : On("add") /\ TakeLogin(f)
      BY <1>2
    <2> DEFINE l == [login[f] EXCEPT !.pc = "idle", !.at = "none", !.res = "none", !.done = TRUE]
    <2>2. IsLogin(l)
      BY DEF Inv, LoginShapes, IsLogin, LoginFields
    <2>3. login' = [login EXCEPT ![f] = l]
      BY <2>1 DEF TakeLogin, Goes
    <2> HIDE DEF l
    <2>4. /\ calls' = calls \cup AfterAdd(0) /\ fetch' = Invalidated(AccountsQ) /\ ui' = Closed(ui)
          /\ UNCHANGED <<page, store, cache, clicks>>
      BY <2>1 DEF TakeLogin
    <2>5. LoginShapes' /\ LoginInv'
      BY <2>1, <2>2, <2>3, <2>4, LoginChanges
    <2>6. QueryShapes'
      BY <1>0, <2>4, InvalidatedShapes
    <2>7. Calm(Closed(ui))
      BY <1>0 DEF Closed, Calm, IsUi, UiFields
    <2>8. IsUi(ui)' /\ QuestionInv'
      BY <2>4, <2>7, QuestionKept
    <2>9. \A r \in AfterAdd(0) : IsCall(r) /\ r.n = 0 /\ Sound(r) /\ r.op = "afterAdd"
      <3>1. Elsewhere
        BY <2>1 DEF On, Elsewhere
      <3> QED BY <3>1, AfterAddFields, SoundOnAdd
    <2>10. \A c \in calls' : /\ IsCall(c) /\ c.n \in 0 .. clicks' /\ Sound(c)
                             /\ c.op \in Loops => c.n > 0
      BY <1>0, <2>4, <2>9 DEF Inv, Shapes, RequestInv, Loops
    <2>11. \A c \in calls : c.op \in Loops => c.n > 0
      BY DEF Inv, RequestInv
    <2>12. \A c, d \in calls' : c.n = d.n /\ c.op \in Loops => d.op = c.op
      BY <2>4, <2>9, <2>11 DEF Inv, RequestInv, Loops
    <2>13. clicks' \in Nat /\ clicks' >= clicks
      BY <1>0, <2>4
    <2>14. (\A c \in calls : IsCall(c) /\ c.n \in 0 .. clicks)' /\ RequestInv'
      BY <2>4, <2>10, <2>12, <2>13, RequestsKept
    <2> QED BY <2>5, <2>6, <2>8, <2>13, <2>14 DEF Inv, Shapes
  <1> QED BY <1>1, <1>2

\* Nothing happens.
LEMMA StutteringKeeps ==
    ASSUME Inv, UNCHANGED coreVars
    PROVE  Shapes' /\ QuestionInv' /\ RequestInv'
  <1>0. QueryShapes /\ Calm(ui)
    BY BusilyIsCalm DEF Inv, Shapes
  <1>1. UNCHANGED <<page, store, cache, fetch, calls, clicks, missed, ui>>
    BY DEF coreVars
  <1>2. Calm(ui')
    BY <1>0, <1>1
  <1> QED BY <1>0, <1>1, <1>2, QuestionKept, SameShapes, FewerRequests DEF Shapes

\* The invariant is inductive, and no step leaves the page.
LEMMA EveryStepKeeps ==
    ASSUME Inv, [Next]_vars
    PROVE  Inv' /\ page' = page
  <1>1. CASE PlainStep /\ UNCHANGED login
    <2>1. page' = page
      BY <1>1 DEF PlainStep, HandlerStep, TouchStep, AskStep, SendStep, SettleStep, RefetchStep, Touch,
         Send, Settle, LoadStep, coreVars, ServeCall, QueryStep, ServeFetch, TakeFetch, Interval, Traffic
    <2>2. Shapes' /\ QuestionInv' /\ RequestInv'
      BY <1>1, ClicksKeep, TakingKeeps, ServingKeeps, QueriesKeep, StutteringKeeps
         DEF PlainStep, HandlerStep
    <2> QED BY <1>1, <2>1, <2>2, LoginKept DEF Inv
  <1>2. CASE LoginStep
    <2>1. page' = page /\ On("add")
      BY <1>2 DEF LoginStep, SendStep, Send, coreVars
    <2>2. LoginShapes' /\ LoginInv'
      BY <1>2, <2>1, LoginChanges DEF LoginStep
    <2>3. Shapes' /\ QuestionInv' /\ RequestInv'
      BY <1>2, ClicksKeep, StutteringKeeps DEF LoginStep
    <2> QED BY <2>1, <2>2, <2>3 DEF Inv
  <1>3. CASE AddedStep \/ \E f \in Forms : On("add") /\ TakeLogin(f)
    <2>1. page' = page
      BY <1>3 DEF AddedStep, Added, TakeLogin
    <2> QED BY <1>3, <2>1, AddingKeeps
  <1> QED BY <1>1, <1>2, <1>3, EveryStep

-----------------------------------------------------------------------------
(* Where the console starts. *)

\* A page that has loaded.
LEMMA Loads ==
    ASSUME NEW p, NEW contents, NEW screen, CoreInit(p, contents, screen), LoginsInit,
           IsUi(screen), screen.confirm = NoConfirm,
           contents = [q \in DOMAIN contents |-> contents[q]],
           \A q \in DOMAIN contents : IsContent(contents[q])
    PROVE  Inv /\ page = p /\ ui = screen /\ store = contents /\ cache = contents
           /\ Queries = DOMAIN contents /\ calls = {} /\ fetch = [q \in Queries |-> NoFetch]
  <1>1. /\ page = p /\ ui = screen /\ store = contents /\ cache = contents /\ Queries = DOMAIN contents
        /\ calls = {} /\ clicks = 0 /\ fetch = [q \in Queries |-> NoFetch]
    BY DEF CoreInit, Queries
  <1>2. IsFetch(NoFetch)
    BY DEF IsFetch, NoFetch, IsContent, Content
  <1>3. QueryShapes
    BY <1>1, <1>2 DEF QueryShapes
  <1>4. Shapes /\ RequestInv
    BY <1>1, <1>3 DEF Shapes, RequestInv
  <1>5. QuestionInv
    BY <1>1 DEF QuestionInv, NoConfirm
  <1>6. IsLogin(NoLogin) /\ NoLogin.pc = "idle" /\ NoLogin.at = "none"
    BY DEF IsLogin, NoLogin, LoginFields
  <1>7. LoginShapes /\ LoginInv
    BY <1>6 DEF LoginsInit, LoginShapes, LoginInv
  <1> QED BY <1>1, <1>4, <1>5, <1>7 DEF Inv

\* A page where nothing is open.
LEMMA QuietIsUi == IsUi(QuietUi) /\ QuietUi.confirm = NoConfirm
  BY DEF QuietUi, IsUi, UiFields

\* What a query is filled with.
LEMMA ContentIsContent ==
    ASSUME NEW rows, NEW on
    PROVE  IsContent(Content(rows, on)) /\ Content(rows, on).rows = rows /\ Content(rows, on).on = on
  BY DEF IsContent, Content


\* Every page starts out with the invariant.
LEMMA InitHolds ==
    ASSUME Init
    PROVE  Inv
  <1>0. LoginsInit
    BY DEF Init
  <1>1. ASSUME NEW p, NEW contents, NEW screen, CoreInit(p, contents, screen),
               IsUi(screen), screen.confirm = NoConfirm,
               contents = [q \in DOMAIN contents |-> contents[q]],
               \A q \in DOMAIN contents : IsContent(contents[q])
        PROVE  Inv
    BY <1>0, <1>1, Loads
  <1>2. ASSUME NEW p, NEW contents, NEW d, CoreInit(p, contents, [QuietUi EXCEPT !.draft = d]),
               contents = [q \in DOMAIN contents |-> contents[q]],
               \A q \in DOMAIN contents : IsContent(contents[q])
        PROVE  Inv
    <2>1. IsUi([QuietUi EXCEPT !.draft = d]) /\ [QuietUi EXCEPT !.draft = d].confirm = NoConfirm
      BY QuietIsUi DEF IsUi, UiFields
    <2> QED BY <1>1, <1>2, <2>1
  <1>3. CASE KeysInit
    <2>1. PICK on : CoreInit("keys", [q \in KeysQ \cup {"settings"} |->
                        IF q = "settings" THEN Content({}, IF on = {} THEN {} ELSE {NewKey})
                        ELSE Content(One, on)], [QuietUi EXCEPT !.draft = NoKeyForm])
      BY <1>3 DEF KeysInit
    <2> DEFINE switched == IF on = {} THEN {} ELSE {NewKey}
               v == [q \in KeysQ \cup {"settings"} |->
                        IF q = "settings" THEN Content({}, switched) ELSE Content(One, on)]
    <2>2. CoreInit("keys", v, [QuietUi EXCEPT !.draft = NoKeyForm])
      BY <2>1
    <2> HIDE DEF switched
    <2>3. v = [q \in DOMAIN v |-> v[q]] /\ \A q \in DOMAIN v : IsContent(v[q])
      BY ContentIsContent
    <2> HIDE DEF v
    <2> QED BY <1>2, <2>2, <2>3
  <1>4. CASE AccountsInit
    <2> DEFINE list == [q \in AccountsQ |-> Content(Listed, One)]
               models(own, others) == [q \in AccountsQ \cup CatalogueQ \cup others |->
                                         CASE q \in AccountsQ -> own
                                           [] q \in CatalogueQ -> Content(Listed, {})
                                           [] OTHER -> Content({}, {})]
    <2>1. list = [q \in DOMAIN list |-> list[q]] /\ \A q \in DOMAIN list : IsContent(list[q])
      BY ContentIsContent
    <2>2. ASSUME NEW own, NEW others, IsContent(own)
          PROVE  LET m == models(own, others)
                 IN  m = [q \in DOMAIN m |-> m[q]] /\ \A q \in DOMAIN m : IsContent(m[q])
      BY <2>2, ContentIsContent
    <2>3. ASSUME NEW k
          PROVE  IsUi([QuietUi EXCEPT !.kind = k]) /\ [QuietUi EXCEPT !.kind = k].confirm = NoConfirm
      BY QuietIsUi DEF IsUi, UiFields
    <2>4. \/ \E p \in {"accounts", "export"} : CoreInit(p, list, QuietUi)
          \/ CoreInit("add", list, [QuietUi EXCEPT !.draft = NoForm])
          \/ CoreInit("pool", models(Content({}, One), {"settings"}), [QuietUi EXCEPT !.draft = {}])
          \/ CoreInit("sheet", models(Content(One, NoList), {}), [QuietUi EXCEPT !.kind = "kiro"])
          \/ CoreInit("sheet", models(Content({}, One), {}), [QuietUi EXCEPT !.kind = "zen"])
      BY <1>4 DEF AccountsInit
    <2> HIDE DEF list, models
    <2>5. CASE \E p \in {"accounts", "export"} : CoreInit(p, list, QuietUi)
      BY <1>1, <2>1, <2>5, QuietIsUi
    <2>6. CASE CoreInit("add", list, [QuietUi EXCEPT !.draft = NoForm])
      BY <1>2, <2>1, <2>6
    <2>7. CASE CoreInit("pool", models(Content({}, One), {"settings"}), [QuietUi EXCEPT !.draft = {}])
      BY <1>2, <2>2, <2>7, ContentIsContent
    <2>8. ASSUME NEW own, NEW k, IsContent(own),
                 CoreInit("sheet", models(own, {}), [QuietUi EXCEPT !.kind = k])
          PROVE  Inv
      BY <1>1, <2>2, <2>3, <2>8
    <2> QED BY <2>4, <2>5, <2>6, <2>7, <2>8, ContentIsContent
  <1>5. CASE SettingsInit
    <2>1. CASE \E p \in NAV \ {"egress", "danger"} :
                 CoreInit(p, [q \in {"section", "options"} |->
                                IF q = "options" THEN Content(Listed, {})
                                ELSE Content(IF p = "auto-route" THEN One ELSE {}, One)],
                          [QuietUi EXCEPT !.draft = One])
      <3>1. PICK p : CoreInit(p, [q \in {"section", "options"} |->
                                IF q = "options" THEN Content(Listed, {})
                                ELSE Content(IF p = "auto-route" THEN One ELSE {}, One)],
                          [QuietUi EXCEPT !.draft = One])
        BY <2>1
      <3> DEFINE own == IF p = "auto-route" THEN One ELSE {}
                 v == [q \in {"section", "options"} |->
                         IF q = "options" THEN Content(Listed, {}) ELSE Content(own, One)]
      <3>2. CoreInit(p, v, [QuietUi EXCEPT !.draft = One])
        BY <3>1
      <3> HIDE DEF own
      <3>3. v = [q \in DOMAIN v |-> v[q]] /\ \A q \in DOMAIN v : IsContent(v[q])
        BY ContentIsContent
      <3> HIDE DEF v
      <3> QED BY <1>2, <3>2, <3>3
    <2>2. CASE CoreInit("danger", [q \in {"stats", "logs"} |-> Content({}, {})], QuietUi)
      BY <1>1, <2>2, QuietIsUi, ContentIsContent
    <2>3. CASE \E saved : CoreInit("egress", [q \in SectionQ |-> Content({}, saved)],
                                   [QuietUi EXCEPT !.draft = toForm(saved)])
      <3>1. PICK saved : CoreInit("egress", [q \in SectionQ |-> Content({}, saved)],
                                  [QuietUi EXCEPT !.draft = toForm(saved)])
        BY <2>3
      <3> DEFINE v == [q \in SectionQ |-> Content({}, saved)]
      <3>2. v = [q \in DOMAIN v |-> v[q]] /\ \A q \in DOMAIN v : IsContent(v[q])
        BY ContentIsContent
      <3>3. CoreInit("egress", v, [QuietUi EXCEPT !.draft = toForm(saved)])
        BY <3>1
      <3> HIDE DEF v
      <3> QED BY <1>2, <3>2, <3>3
    <2> QED BY <1>5, <2>1, <2>2, <2>3 DEF SettingsInit
  <1>6. CASE MonitorInit
    <2>1. CASE CoreInit("overview", [q \in {"stats", "accounts", "warmup"} |-> Content({}, {})], QuietUi)
      BY <1>1, <2>1, QuietIsUi, ContentIsContent
    <2>2. CASE \E router : CoreInit("models", [q \in {"section", "health", "decisions"} |->
                                                 Content({}, router)], QuietUi)
      BY <1>1, <2>2, QuietIsUi, ContentIsContent
    <2>3. CASE CoreInit("prices", [q \in {"catalogue"} |-> Content(Listed, {})],
                        [QuietUi EXCEPT !.draft = FirstPage])
      <3> DEFINE v == [q \in {"catalogue"} |-> Content(Listed, {})]
      <3>1. v = [q \in DOMAIN v |-> v[q]] /\ \A q \in DOMAIN v : IsContent(v[q])
        BY ContentIsContent
      <3>2. CoreInit("prices", v, [QuietUi EXCEPT !.draft = FirstPage])
        BY <2>3
      <3> HIDE DEF v
      <3> QED BY <1>2, <3>1, <3>2
    <2>4. << >> = [q \in DOMAIN << >> |-> << >>[q]] /\ DOMAIN << >> = {}
      OBVIOUS
    <2>5. CASE CoreInit("usage", << >>, QuietUi)
      BY <1>1, <2>4, <2>5, QuietIsUi
    <2>6. CASE \E home, dark : CoreInit("shell", [q \in {"status"} |-> Content({}, {})],
                                        [QuietUi EXCEPT !.open = home, !.sel = dark, !.kind = "en"])
      <3>1. PICK home, dark : CoreInit("shell", [q \in {"status"} |-> Content({}, {})],
                                       [QuietUi EXCEPT !.open = home, !.sel = dark, !.kind = "en"])
        BY <2>6
      <3> DEFINE u == [QuietUi EXCEPT !.open = home, !.sel = dark, !.kind = "en"]
      <3>2. IsUi(u) /\ u.confirm = NoConfirm
        BY QuietIsUi DEF IsUi, UiFields
      <3> DEFINE v == [q \in {"status"} |-> Content({}, {})]
      <3>3. v = [q \in DOMAIN v |-> v[q]] /\ \A q \in DOMAIN v : IsContent(v[q])
        BY ContentIsContent
      <3>4. CoreInit("shell", v, u)
        BY <3>1
      <3> HIDE DEF u, v
      <3> QED BY <1>1, <3>2, <3>3, <3>4
    <2>7. CASE \E path \in Rows : CoreInit("docs", << >>, DocsUi(path))
      <3>1. PICK path : CoreInit("docs", << >>, DocsUi(path))
        BY <2>7
      <3>2. IsUi(DocsUi(path)) /\ DocsUi(path).confirm = NoConfirm
        BY QuietIsUi DEF DocsUi, IsUi, UiFields
      <3> QED BY <1>1, <2>4, <3>1, <3>2
    <2>8. CASE CoreInit("settings", << >>, [QuietUi EXCEPT !.open = "general"])
      <3>1. IsUi([QuietUi EXCEPT !.open = "general"]) /\ [QuietUi EXCEPT !.open = "general"].confirm = NoConfirm
        BY QuietIsUi DEF IsUi, UiFields
      <3> QED BY <1>1, <2>4, <2>8, <3>1
    <2> QED BY <1>6, <2>1, <2>2, <2>3, <2>5, <2>6, <2>7, <2>8 DEF MonitorInit
  <1> QED BY <1>3, <1>4, <1>5, <1>6 DEF Init

-----------------------------------------------------------------------------
(* What holds of every page. *)

\* Pages, queries, requests, questions and sign-ins are always what the code makes of
\* them; what a request is sent to change, its handler has fetched anew, and all else it
\* may change is a token; a click that sends several requests sends them for one handler
\* (coreVars and login in all pages).
THEOREM ConsoleInvariant == Spec => []Inv
  <1>1. Init => Inv
    BY InitHolds
  <1>2. Inv /\ [Next]_vars => Inv'
    BY EveryStepKeeps
  <1> QED BY <1>1, <1>2, PTL DEF Spec

\* New requests of a step.
LEMMA DeletionsSent ==
    ASSUME Inv, [Next]_vars,
           NEW c \in calls' \ calls, c.pc = "sent", c.op \in Deletions
    PROVE  {d.row : d \in {e \in calls' : e.n = c.n}} = ui.confirm.rows
  <1>1. SendStep
    <2>1. CASE \E n : ServeCall(n)
      <3>1. PICK b \in calls, ok \in BOOLEAN : \E W \in SUBSET (b.writes \cup Aside(b)) :
               calls' = (calls \ {b}) \cup {Served(b, ok, W)}
        BY <2>1, ServingWrites
      <3>2. PICK W \in SUBSET (b.writes \cup Aside(b)) : calls' = (calls \ {b}) \cup {Served(b, ok, W)}
        BY <3>1
      <3>3. IsCall(b)
        BY DEF Inv, Shapes
      <3>4. Served(b, ok, W).pc = "answered"
        BY <3>3, ServedFields
      <3> QED BY <3>2, <3>4
    <2>2. CASE SettleStep
      BY <2>2 DEF SettleStep, Settle, HandsOn
    <2>3. CASE TouchStep \/ AskStep \/ RefetchStep \/ LoadStep \/ UNCHANGED coreVars \/ QueryStep
      BY <2>3 DEF TouchStep, AskStep, Touch, RefetchStep, LoadStep, coreVars, QueryStep, ServeFetch,
         TakeFetch, Interval, Traffic
    <2>4. CASE AddedStep
      BY <2>4 DEF AddedStep, Added
    <2>5. CASE \E f \in Forms : TakeLogin(f)
      <3>1. calls' = calls \cup AfterAdd(0)
        BY <2>5 DEF TakeLogin
      <3> QED BY <3>1, AfterAddFields DEF Deletions
    <2> QED BY <2>1, <2>2, <2>3, <2>4, <2>5, EveryStep DEF PlainStep, HandlerStep, LoginStep
  <1>2. PICK reqs, u : Calm(u) /\ OfClick(reqs) /\ Send(reqs, u)
    BY <1>1 DEF SendStep
  <1>3. calls' = calls \cup reqs /\ c \in reqs
    BY <1>2 DEF Send
  <1>4. clicks \in Nat /\ \A e \in calls : e.n \in 0 .. clicks
    BY DEF Inv, Shapes
  <1>5. \A e \in calls' : e.n = c.n <=> e \in reqs
    BY <1>2, <1>3, <1>4 DEF OfClick
  <1>6. {e \in calls' : e.n = c.n} = reqs
    BY <1>3, <1>5
  <1> QED BY <1>2, <1>3, <1>6 DEF OfClick

\* A deletion that is confirmed is of the rows its question was asked about, all of them
\* and no others, however many there are and whatever has been clicked, fetched and
\* answered since the question was put (ConfirmDialog of the keys and the accounts).
THEOREM DeletionsAreConfirmed == Spec => DeletesWhatItAsked
  <1>1. Inv /\ [Next]_vars =>
          [\A c \in calls' \ calls :
             c.pc = "sent" /\ c.op \in {"deleteOne", "deleteMany", "deleteKey"} =>
                {d.row : d \in {e \in calls' : e.n = c.n}} = ui.confirm.rows]_vars
    BY DeletionsSent DEF Deletions
  <1> QED BY <1>1, ConsoleInvariant, PTL DEF Spec, DeletesWhatItAsked

-----------------------------------------------------------------------------
(* What is shown is what there is. *)

\* Somebody will have q fetched anew.
Owed(q) ==
    \/ \E c \in calls : Owes(c, q)
    \/ q \in AccountsQ /\ \E f \in Forms : LoginOwes(f)

\* Nothing excuses an old copy of q.
Counts(q) == q \in missed => On("accounts")

\* A copy that is old will be replaced: a fetch is under way, or somebody owes one, and
\* a fetch that has an old answer is not the last.
StaleInv ==
    \A q \in Queries \ Polled :
       Counts(q) =>
          /\ cache[q] # store[q] => fetch[q].pc # "idle" \/ Owed(q)
          /\ fetch[q].pc = "answered" /\ fetch[q].got # store[q] => Owed(q)

\* Nobody on this page switches the router, so that what is polled stays the same.
RouterInv ==
    On("models") =>
       /\ "section" \in Queries
       /\ cache["section"].on = store["section"].on
       /\ fetch["section"].pc = "answered" => fetch["section"].got.on = store["section"].on

\* What moves is polled.
LEMMA MovingIsPolled ==
    ASSUME RouterInv
    PROVE  Moving = Polled
  BY DEF RouterInv, Moving, Polled, IsOn

\* Whether the page polls does not change under it.
LEMMA PolledKept ==
    ASSUME RouterInv, RouterInv', page' = page,
           On("models") => store'["section"].on = store["section"].on
    PROVE  Polled' = Polled
  BY DEF RouterInv, Polled, IsOn, On, SystemPanel

\* Handlers leave the router alone.
LEMMA HandlersKeepTheRouter ==
    ASSUME Inv, RouterInv, HandlerStep \/ LoadStep \/ UNCHANGED coreVars
    PROVE  RouterInv' /\ store' = store
  <1>1. UNCHANGED <<page, store, cache>>
    BY DEF HandlerStep, TouchStep, AskStep, SendStep, SettleStep, RefetchStep, Touch, Send, Settle,
       LoadStep, coreVars
  <1>2. Queries' = Queries
    BY <1>1 DEF Queries
  <1>3. fetch' = fetch \/ \E Q : fetch' = Invalidated(Q)
    BY DEF HandlerStep, TouchStep, AskStep, SendStep, SettleStep, RefetchStep, Touch, Send, Settle,
       LoadStep, coreVars
  <1>4. \A q \in Queries : fetch'[q] = fetch[q] \/ fetch'[q].pc = "sent"
    BY <1>3 DEF Invalidated, Fresh, NoFetch
  <1> QED BY <1>1, <1>2, <1>4 DEF RouterInv, On

\* So does what the page with the models sends.
LEMMA ServingKeepsTheRouter ==
    ASSUME Inv, RouterInv, NEW n, ServeCall(n)
    PROVE  RouterInv' /\ (On("models") => store'["section"].on = store["section"].on)
  <1> SUFFICES ASSUME On("models")
               PROVE  RouterInv' /\ store'["section"].on = store["section"].on
    BY DEF RouterInv, On, ServeCall
  <1>1. PICK c \in calls : \E W : Writes(W, Written(c, W))
    BY ServingWrites
  <1>0. QueryShapes
    BY DEF Inv, Shapes
  <1>2. c.ons = {} /\ c.offs = {} /\ page' = page /\ "section" \in Queries
    BY DEF Inv, RequestInv, Sound, OfPage, ServeCall, RouterInv
  <1>3. PICK W : Writes(W, Written(c, W))
    BY <1>1
  <1>4. PICK v : v = Written(c, W)
    OBVIOUS
  <1>5. /\ v = [q \in Queries |-> v[q]]
        /\ \A q \in Queries :
              /\ IsContent(v[q])
              /\ q \notin W \cap c.writes => v[q] = store[q]
              /\ q \in W \cap c.writes => v[q].on = (store[q].on \ c.offs) \cup c.ons
    BY <1>0, <1>4, WrittenContents
  <1>6. v["section"].on = store["section"].on
    <2>1. (store["section"].on \ {}) \cup {} = store["section"].on
      OBVIOUS
    <2> QED BY <1>2, <1>5, <2>1
  <1>7. Writes(W, v)
    BY <1>3, <1>4
  <1>8. /\ Queries' = Queries /\ store'["section"].on = store["section"].on
        /\ cache'["section"].on = cache["section"].on
        /\ fetch'["section"].pc = fetch["section"].pc
        /\ fetch'["section"].got.on = fetch["section"].got.on
    BY <1>0, <1>2, <1>5, <1>6, <1>7, WrittenShapes
  <1> QED BY <1>8 DEF RouterInv

\* So do the queries.
LEMMA QueriesKeepTheRouter ==
    ASSUME Inv, RouterInv, QueryStep
    PROVE  RouterInv' /\ (On("models") => store'["section"].on = store["section"].on)
  <1>0. page' = page
    BY DEF QueryStep, ServeFetch, TakeFetch, Interval, Traffic
  <1> SUFFICES ASSUME On("models")
               PROVE  RouterInv' /\ store'["section"].on = store["section"].on
    BY <1>0 DEF RouterInv, On
  <1>1. PICK q \in Queries : ServeFetch(q) \/ TakeFetch(q, Fetched(q)) \/ Interval(q) \/ Traffic(q)
    BY DEF QueryStep
  <1>2. QueryShapes /\ "section" \in Queries /\ IsFetch(fetch["section"])
    BY DEF Inv, Shapes, RouterInv, QueryShapes
  <1>3. CASE ServeFetch(q)
    <2>1. /\ UNCHANGED <<store, cache>> /\ Queries' = Queries
          /\ fetch' = [fetch EXCEPT ![q] = [pc |-> "answered", got |-> store[q]]]
      BY <1>3 DEF ServeFetch, Queries
    <2>2. fetch'["section"] \in {fetch["section"], [pc |-> "answered", got |-> store["section"]]}
      BY <1>2, <2>1 DEF QueryShapes
    <2> QED BY <2>1, <2>2 DEF RouterInv
  <1>4. CASE TakeFetch(q, Fetched(q))
    <2>1. /\ store' = store /\ Queries' = Queries /\ fetch[q].pc = "answered"
          /\ cache' = [cache EXCEPT ![q] = fetch[q].got]
          /\ fetch' = [fetch EXCEPT ![q] = NoFetch]
      BY <1>4 DEF TakeFetch, Queries
    <2>2. fetch'["section"] \in {fetch["section"], NoFetch}
      BY <1>2, <2>1 DEF QueryShapes
    <2>3. cache'["section"].on = store["section"].on
      BY <1>2, <2>1 DEF QueryShapes, RouterInv
    <2> QED BY <2>1, <2>2, <2>3 DEF RouterInv, NoFetch
  <1>5. CASE Interval(q)
    <2>1. /\ UNCHANGED <<store, cache>> /\ Queries' = Queries
          /\ fetch' = [fetch EXCEPT ![q] = Fresh]
      BY <1>5 DEF Interval, Queries
    <2>2. fetch'["section"] \in {fetch["section"], Fresh} /\ Fresh.pc = "sent"
      BY <1>2, <2>1 DEF QueryShapes, Fresh, NoFetch
    <2> QED BY <2>1, <2>2 DEF RouterInv
  <1>6. CASE Traffic(q)
    <2>1. q # "section"
      BY <1>6 DEF Traffic, Moving, On
    <2>2. PICK on : Writes({q}, [store EXCEPT ![q].on = on])
      BY <1>6 DEF Traffic
    <2>3. store' = [store EXCEPT ![q].on = on] /\ Queries' = Queries
      BY <2>2 DEF Writes, Queries
    <2>4. store'["section"] = store["section"]
      BY <1>2, <2>1, <2>3 DEF QueryShapes
    <2>5. /\ cache'["section"].on = cache["section"].on
          /\ fetch'["section"].pc = fetch["section"].pc
          /\ fetch'["section"].got.on = fetch["section"].got.on
      <3>1. cache'["section"] = [cache["section"] EXCEPT !.old = @ \/ "section" \in {q}]
        BY <1>2, <2>2 DEF Writes
      <3>2. fetch'["section"] = [fetch["section"] EXCEPT
                                   !.got.old = @ \/ ("section" \in {q} /\ fetch["section"].pc = "answered")]
        BY <1>2, <2>2 DEF Writes
      <3>3. IsContent(cache["section"]) /\ IsContent(fetch["section"].got)
        BY <1>2 DEF QueryShapes, IsFetch
      <3>4. cache'["section"].on = cache["section"].on
        BY <3>1, <3>3 DEF IsContent
      <3>5. fetch'["section"].pc = fetch["section"].pc
        BY <1>2, <3>2 DEF IsFetch
      <3>6. fetch'["section"].got.on = fetch["section"].got.on
        BY <1>2, <3>2, <3>3 DEF IsFetch, IsContent
      <3> QED BY <3>4, <3>5, <3>6
    <2> QED BY <2>3, <2>4, <2>5 DEF RouterInv
  <1> QED BY <1>1, <1>3, <1>4, <1>5, <1>6

\* Hence what is polled stays polled.
LEMMA RouterKept ==
    ASSUME Inv, RouterInv, [Next]_vars
    PROVE  RouterInv' /\ Polled' = Polled
  <1>1. page' = page
    BY EveryStepKeeps
  <1>2. RouterInv' /\ (On("models") => store'["section"].on = store["section"].on)
    <2>1. CASE PlainStep
      BY <2>1, HandlersKeepTheRouter, ServingKeepsTheRouter, QueriesKeepTheRouter DEF PlainStep
    <2>2. CASE On("add")
      BY <1>1, <2>2 DEF RouterInv, On
    <2> QED BY <2>1, <2>2, EveryStep DEF LoginStep, AddedStep
  <1> QED BY <1>1, <1>2, PolledKept

\* What a sign-in owes it owes until its answer is taken.
LEMMA OwedKept ==
    ASSUME NEW q, Owed(q), UNCHANGED login,
           \A c \in calls : Owes(c, q) => \E d \in calls' : Owes(d, q)
    PROVE  Owed(q)'
  BY DEF Owed, Owes, LoginOwes

\* Handlers change neither what there is nor the copies of it.
LEMMA StillComing ==
    ASSUME StaleInv, Queries' = Queries, Polled' = Polled, UNCHANGED <<store, cache>>,
           \A q \in Queries : \/ fetch'[q].pc = "sent"
                              \/ /\ fetch'[q] = fetch[q]
                                 /\ Counts(q)' => Counts(q) /\ (Owed(q) => Owed(q)')
    PROVE  StaleInv'
  BY DEF StaleInv

\* A handler that goes on has refetched what it changed, or still owes it, or was not told.
LEMMA HandlersOweNothing ==
    ASSUME Inv, StaleInv, Polled' = Polled, UNCHANGED login,
           HandlerStep \/ LoadStep \/ UNCHANGED coreVars
    PROVE  StaleInv'
  <1>1. UNCHANGED <<page, store, cache>> /\ Queries' = Queries
    BY DEF HandlerStep, TouchStep, AskStep, SendStep, SettleStep, RefetchStep, Touch, Send, Settle,
       LoadStep, coreVars, Queries
  <1>0. ASSUME NEW q, q \in missed => q \in missed'
        PROVE  Counts(q)' => Counts(q)
    BY <1>0, <1>1 DEF Counts, On
  <1>2. ASSUME fetch' = fetch, calls \subseteq calls', missed' = missed
        PROVE  StaleInv'
    BY <1>0, <1>1, <1>2, OwedKept, StillComing
  <1>3. CASE TouchStep \/ AskStep \/ SendStep \/ UNCHANGED coreVars
    BY <1>2, <1>3 DEF TouchStep, AskStep, SendStep, Touch, Send, coreVars
  <1>4. ASSUME NEW Q, fetch' = Invalidated(Q), NEW q \in Queries, q \in Q
        PROVE  fetch'[q].pc = "sent"
    BY <1>4 DEF Invalidated, Fresh, NoFetch
  <1>5. CASE SettleStep
    <2>1. PICK c, next, Q, u : c \in calls /\ Pays(c, next, Q) /\ Settle(c, next, Q, u)
      BY <1>5 DEF SettleStep
    <2>2. /\ calls' = (calls \ {c}) \cup next /\ fetch' = Invalidated(Q)
          /\ missed' = (missed \cup Untold(c)) \ Q
      BY <2>1 DEF Settle
    <2>3. ASSUME NEW q \in Queries, q \notin Q
          PROVE  fetch'[q] = fetch[q] /\ (Counts(q)' => Counts(q) /\ (Owed(q) => Owed(q)'))
      <3>1. fetch'[q] = fetch[q]
        BY <2>2, <2>3 DEF Invalidated
      <3>2. Counts(q)' => Counts(q)
        BY <1>0, <2>2, <2>3
      <3>3. Counts(q)' => q \notin Forgiven(c)
        BY <1>1, <2>2, <2>3 DEF Counts, Forgiven, On
      <3>4. ASSUME Counts(q)', NEW d \in calls, Owes(d, q)
            PROVE  \E e \in calls' : Owes(e, q)
        BY <2>1, <2>2, <2>3, <3>3, <3>4 DEF Pays
      <3>5. Counts(q)' /\ Owed(q) => Owed(q)'
        BY <3>4, OwedKept
      <3> QED BY <3>1, <3>2, <3>5
    <2> QED BY <1>1, <1>4, <2>2, <2>3, StillComing
  <1>6. CASE RefetchStep
    <2>1. PICK Q : fetch' = Invalidated(Q) /\ calls' = calls /\ missed' = missed \ Q
      BY <1>6 DEF RefetchStep
    <2>2. ASSUME NEW q \in Queries, q \notin Q
          PROVE  fetch'[q] = fetch[q] /\ (Counts(q)' => Counts(q)) /\ (Owed(q) => Owed(q)')
      BY <1>0, <2>1, <2>2, OwedKept DEF Invalidated
    <2> QED BY <1>1, <1>4, <2>1, <2>2, StillComing
  <1>7. CASE LoadStep
    <2>1. \A c \in calls : \A q : ~Owes(c, q)
      <3>1. ASSUME NEW c \in calls
            PROVE  c.op \in {"curtain", "fade"} /\ c.writes \subseteq Refetches(c) \cup Passing(c)
        BY <1>7 DEF LoadStep, Inv, RequestInv, Sound, OfPage
      <3>2. \A c \in calls : Refetches(c) = {} /\ Passing(c) = {}
        BY <3>1 DEF Refetches, Loops, Passing, TokenSavers
      <3> QED BY <3>1, <3>2 DEF Owes, Loops
    <2>2. fetch' = fetch /\ missed' = missed
      BY <1>7 DEF LoadStep
    <2> QED BY <1>0, <1>1, <2>1, <2>2, OwedKept, StillComing
  <1> QED BY <1>3, <1>5, <1>6, <1>7 DEF HandlerStep

\* What the proxy changes for a request is owed by the code that waits for the answer.
LEMMA ServingIsOwed ==
    ASSUME Inv, StaleInv, Polled' = Polled, UNCHANGED login, NEW n, ServeCall(n)
    PROVE  StaleInv'
  <1>1. PICK c \in calls, ok \in BOOLEAN : \E W \in SUBSET (c.writes \cup Aside(c)) :
           /\ c.pc = "sent" /\ Writes(W, Written(c, W))
           /\ calls' = (calls \ {c}) \cup {Served(c, ok, W)}
           /\ UNCHANGED <<page, missed>>
    BY ServingWrites
  <1>2. PICK W \in SUBSET (c.writes \cup Aside(c)) :
           /\ c.pc = "sent" /\ Writes(W, Written(c, W))
           /\ calls' = (calls \ {c}) \cup {Served(c, ok, W)}
           /\ UNCHANGED <<page, missed>>
    BY <1>1
  <1> DEFINE d == Served(c, ok, W)
  <1>3. QueryShapes /\ IsCall(c)
    BY DEF Inv, Shapes
  <1>4. d.op = c.op /\ d.row = c.row /\ d.pc = "answered" /\ d.writes = W
    BY <1>3, ServedFields
  <1>5. calls' = (calls \ {c}) \cup {d}
    BY <1>2
  <1> HIDE DEF d
  <1>6. ASSUME NEW q, Owed(q)
        PROVE  Owed(q)'
    <2>1. Owes(c, q) => Owes(d, q)
      BY <1>2, <1>4 DEF Owes
    <2> QED BY <1>5, <1>6, <2>1, OwedKept
  <1>7. \A q \in W : Owed(q)'
    BY <1>4, <1>5 DEF Owed, Owes
  <1>8. \A q : Counts(q)' <=> Counts(q)
    BY <1>2 DEF Counts, On
  <1>9. /\ Queries' = Queries
        /\ \A q \in Queries : q \notin W =>
               store'[q] = store[q] /\ cache'[q] = cache[q] /\ fetch'[q] = fetch[q]
    <2>1. PICK v : v = Written(c, W)
      OBVIOUS
    <2>2. /\ v = [q \in Queries |-> v[q]] /\ \A q \in Queries : IsContent(v[q])
          /\ \A q \in Queries : q \notin W => v[q] = store[q]
      BY <1>3, <2>1, WrittenContents
    <2>3. Writes(W, v)
      BY <1>2, <2>1
    <2> QED BY <1>3, <2>2, <2>3, WrittenShapes
  <1> QED BY <1>6, <1>7, <1>8, <1>9 DEF StaleInv

\* A fetch that was answered brings the page up to date, or is started again.
LEMMA QueriesCatchUp ==
    ASSUME Inv, StaleInv, RouterInv, Polled' = Polled, UNCHANGED login, QueryStep
    PROVE  StaleInv'
  <1>1. PICK q \in Queries : ServeFetch(q) \/ TakeFetch(q, Fetched(q)) \/ Interval(q) \/ Traffic(q)
    BY DEF QueryStep
  <1>2. QueryShapes /\ calls' = calls
    BY <1>1 DEF Inv, Shapes, ServeFetch, TakeFetch, Interval, Traffic
  <1>3. \A p : (Counts(p)' => Counts(p)) /\ (Owed(p) => Owed(p)')
    <2>1. UNCHANGED <<page, missed>>
      BY <1>1 DEF ServeFetch, TakeFetch, Interval, Traffic
    <2> QED BY <1>2, <2>1, OwedKept DEF Counts, On
  <1>4. CASE ServeFetch(q)
    <2>1. /\ UNCHANGED <<store, cache>> /\ Queries' = Queries
          /\ fetch' = [fetch EXCEPT ![q] = [pc |-> "answered", got |-> store[q]]]
      BY <1>4 DEF ServeFetch, Queries
    <2>2. fetch'[q].pc = "answered" /\ fetch'[q].got = store[q]
      BY <1>2, <2>1 DEF QueryShapes
    <2>3. \A p \in Queries \ {q} : fetch'[p] = fetch[p]
      BY <1>2, <2>1 DEF QueryShapes
    <2> QED BY <1>3, <2>1, <2>2, <2>3 DEF StaleInv
  <1>5. CASE TakeFetch(q, Fetched(q))
    <2>1. /\ store' = store /\ Queries' = Queries /\ fetch[q].pc = "answered"
          /\ cache' = [cache EXCEPT ![q] = fetch[q].got]
          /\ fetch' = [fetch EXCEPT ![q] = NoFetch]
      BY <1>5 DEF TakeFetch, Queries
    <2>2. fetch'[q].pc = "idle" /\ cache'[q] = fetch[q].got
      BY <1>2, <2>1 DEF QueryShapes, NoFetch
    <2>3. \A p \in Queries \ {q} : fetch'[p] = fetch[p] /\ cache'[p] = cache[p]
      BY <1>2, <2>1 DEF QueryShapes
    <2> QED BY <1>3, <2>1, <2>2, <2>3 DEF StaleInv
  <1>6. CASE Interval(q)
    <2>1. /\ UNCHANGED <<store, cache>> /\ Queries' = Queries
          /\ fetch' = [fetch EXCEPT ![q] = Fresh]
      BY <1>6 DEF Interval, Queries
    <2>2. \A p \in Queries : fetch'[p] = fetch[p] \/ fetch'[p].pc = "sent"
      BY <1>2, <2>1 DEF QueryShapes, Fresh, NoFetch
    <2> QED BY <1>3, <2>1, <2>2, StillComing
  <1>7. CASE Traffic(q)
    <2>1. q \in Polled
      BY <1>7, MovingIsPolled DEF Traffic
    <2>2. PICK on : Writes({q}, [store EXCEPT ![q].on = on])
      BY <1>7 DEF Traffic
    <2> DEFINE v == [store[q] EXCEPT !.on = on]
               contents == [store EXCEPT ![q] = v]
    <2>3. IsContent(v)
      BY <1>2 DEF IsContent, QueryShapes
    <2>4. Writes({q}, contents)
      BY <2>2
    <2> HIDE DEF v
    <2>5. /\ contents = [p \in Queries |-> contents[p]]
          /\ \A p \in Queries : IsContent(contents[p]) /\ (p # q => contents[p] = store[p])
      BY <1>2, <2>3 DEF QueryShapes
    <2> HIDE DEF contents
    <2>6. /\ Queries' = Queries
          /\ \A p \in Queries : p # q =>
                 store'[p] = store[p] /\ cache'[p] = cache[p] /\ fetch'[p] = fetch[p]
      BY <1>2, <2>4, <2>5, WrittenShapes
    <2> QED BY <1>3, <2>1, <2>6 DEF StaleInv
  <1> QED BY <1>1, <1>4, <1>5, <1>6, <1>7

\* An account that a sign-in adds is owed by the form that polls for it.
LEMMA LoginsAreOwed ==
    ASSUME Inv, StaleInv, Polled' = Polled,
           LoginStep \/ AddedStep \/ \E f \in Forms : On("add") /\ TakeLogin(f)
    PROVE  StaleInv'
  <1>0. QueryShapes /\ LoginShapes
    BY DEF Inv, Shapes
  <1>1. CASE LoginStep
    <2>1. PICK f, l : f \in Forms /\ login' = [login EXCEPT ![f] = l] /\ ~LoginOwes(f)
      BY <1>1 DEF LoginStep
    <2>2. /\ UNCHANGED <<page, missed, store, cache, fetch>> /\ Queries' = Queries
          /\ calls \subseteq calls'
      BY <1>1 DEF LoginStep, SendStep, Send, coreVars, Queries
    <2>3. \A g \in Forms : LoginOwes(g) => LoginOwes(g)'
      BY <1>0, <2>1 DEF LoginOwes, LoginShapes
    <2>4. \A q : (Counts(q)' => Counts(q)) /\ (Owed(q) => Owed(q)')
      BY <2>2, <2>3 DEF Owed, Owes, Counts, On
    <2> QED BY <2>2, <2>4, StillComing
  <1>2. CASE AddedStep
    <2>1. PICK f \in Forms : /\ On("add") /\ Added(f)
                             /\ login[f].pc \in {"poll", "complete"} /\ login[f].at # "answered"
      BY <1>2 DEF AddedStep
    <2>2. Writes(AccountsQ, store) /\ UNCHANGED <<page, calls>>
      BY <2>1 DEF Added
    <2>3. PICK res \in {"ok", "error"} :
             /\ login' = [login EXCEPT ![f] = [login[f] EXCEPT !.at = "answered", !.res = res]]
             /\ missed' = IF res = "ok" THEN missed ELSE missed \cup AccountsQ
      BY <2>1 DEF Added, Answer, Goes
    <2>4. /\ res = "ok" => LoginOwes(f)'
          /\ \A g \in Forms : LoginOwes(g) => LoginOwes(g)'
      <3>1. IsLogin(login[f]) /\ login = [g \in Forms |-> login[g]]
        BY <1>0 DEF LoginShapes
      <3>2. login'[f] = [login[f] EXCEPT !.at = "answered", !.res = res]
        BY <2>3, <3>1
      <3>3. login'[f].pc = login[f].pc /\ login'[f].at = "answered" /\ login'[f].res = res
        BY <3>1, <3>2 DEF IsLogin, LoginFields
      <3>4. \A g \in Forms : g # f => login'[g] = login[g]
        BY <2>3, <3>1
      <3> QED BY <2>1, <3>3, <3>4 DEF LoginOwes
    <2>5. \A q : (Counts(q)' => Counts(q)) /\ (Owed(q) => Owed(q)')
      BY <2>2, <2>3, <2>4 DEF Owed, Owes, Counts, On
    <2>6. \A q \in AccountsQ : Counts(q)' => Owed(q)'
      BY <2>1, <2>2, <2>3, <2>4 DEF Owed, Counts, On
    <2>7. /\ Queries' = Queries
          /\ \A q \in Queries : q \notin AccountsQ =>
                 store'[q] = store[q] /\ cache'[q] = cache[q] /\ fetch'[q] = fetch[q]
      BY <1>0, <2>2, WrittenShapes DEF QueryShapes
    <2> QED BY <2>5, <2>6, <2>7 DEF StaleInv
  <1>3. CASE \E f \in Forms : On("add") /\ TakeLogin(f)
    <2>1. PICK f \in Forms : TakeLogin(f)
      BY <1>3
    <2>2. /\ fetch' = Invalidated(AccountsQ) /\ calls \subseteq calls'
          /\ missed' = missed \ AccountsQ
          /\ UNCHANGED <<page, store, cache>> /\ Queries' = Queries
      BY <2>1 DEF TakeLogin, Queries
    <2>3. ASSUME NEW q \in Queries
          PROVE  \/ fetch'[q].pc = "sent"
                 \/ fetch'[q] = fetch[q] /\ (Counts(q)' => Counts(q)) /\ (Owed(q) => Owed(q)')
      <3>1. CASE q \in AccountsQ
        BY <2>2, <3>1 DEF Invalidated, Fresh, NoFetch
      <3>2. CASE q \notin AccountsQ
        BY <2>2, <3>2 DEF Invalidated, Owed, Owes, Counts, On
      <3> QED BY <3>1, <3>2
    <2> QED BY <2>2, <2>3, StillComing
  <1> QED BY <1>1, <1>2, <1>3

\* The pages with an invariant of their own start in one way only.
LEMMA WhereTheyStart ==
    ASSUME Init
    PROVE  /\ On("models") => \E router : CoreInit("models", [q \in {"section", "health", "decisions"} |->
                                                                Content({}, router)], QuietUi)
           /\ On("prices") => CoreInit("prices", [q \in {"catalogue"} |-> Content(Listed, {})],
                                       [QuietUi EXCEPT !.draft = FirstPage])
           /\ On("docs") => \E path \in Rows : CoreInit("docs", << >>, DocsUi(path))
  <1>1. ASSUME NEW p, NEW contents, NEW screen, CoreInit(p, contents, screen)
        PROVE  page = p
    BY <1>1 DEF CoreInit
  <1>2. CASE KeysInit
    <2>1. page = "keys"
      BY <1>2 DEF KeysInit, CoreInit
    <2> QED BY <2>1 DEF On
  <1>3. CASE AccountsInit
    <2>1. page \in {"accounts", "export", "add", "pool", "sheet"}
      BY <1>3 DEF AccountsInit, CoreInit
    <2> QED BY <2>1 DEF On
  <1>4. CASE SettingsInit
    <2>1. page \in NAV \cup {"danger", "egress"}
      BY <1>4 DEF SettingsInit, CoreInit
    <2> QED BY <2>1, TheSections DEF On
  <1>5. CASE MonitorInit
    <2>1. CASE CoreInit("overview", [q \in {"stats", "accounts", "warmup"} |-> Content({}, {})], QuietUi)
      BY <1>1, <2>1 DEF On
    <2>2. CASE \E router : CoreInit("models", [q \in {"section", "health", "decisions"} |->
                                                 Content({}, router)], QuietUi)
      <3>1. page = "models"
        BY <1>1, <2>2
      <3> QED BY <2>2, <3>1 DEF On
    <2>3. CASE CoreInit("prices", [q \in {"catalogue"} |-> Content(Listed, {})],
                        [QuietUi EXCEPT !.draft = FirstPage])
      <3>1. page = "prices"
        BY <1>1, <2>3
      <3> QED BY <2>3, <3>1 DEF On
    <2>4. CASE CoreInit("usage", << >>, QuietUi)
      BY <1>1, <2>4 DEF On
    <2>5. CASE \E home, dark : CoreInit("shell", [q \in {"status"} |-> Content({}, {})],
                                        [QuietUi EXCEPT !.open = home, !.sel = dark, !.kind = "en"])
      BY <2>5 DEF On, CoreInit
    <2>6. CASE \E path \in Rows : CoreInit("docs", << >>, DocsUi(path))
      <3>1. page = "docs"
        BY <2>6 DEF CoreInit
      <3> QED BY <2>6, <3>1 DEF On
    <2>7. CASE CoreInit("settings", << >>, [QuietUi EXCEPT !.open = "general"])
      BY <1>1, <2>7 DEF On
    <2> QED BY <1>5, <2>1, <2>2, <2>3, <2>4, <2>5, <2>6, <2>7 DEF MonitorInit
  <1> QED BY <1>2, <1>3, <1>4, <1>5 DEF Init

\* A page that is loaded shows what there is.
LEMMA LoadedIsFresh ==
    ASSUME Init
    PROVE  StaleInv /\ RouterInv
  <1>1. cache = store /\ fetch = [q \in Queries |-> NoFetch]
    BY DEF Init, KeysInit, AccountsInit, SettingsInit, MonitorInit, CoreInit
  <1>2. StaleInv
    BY <1>1 DEF StaleInv, NoFetch
  <1>3. ASSUME On("models")
        PROVE  "section" \in Queries
    <2>1. PICK router : CoreInit("models", [q \in {"section", "health", "decisions"} |->
                                              Content({}, router)], QuietUi)
      BY <1>3, WhereTheyStart
    <2> QED BY <2>1 DEF CoreInit, Queries
  <1> QED BY <1>1, <1>2, <1>3 DEF RouterInv, NoFetch

\* With nothing under way, every page shows what there is: whatever handlers, fetches,
\* timers and sign-ins crossed before, no handler forgets what it was told that its
\* request did, and no fetch that was sent before a write ends what the write began.
\* What polls is the exception, and stays the same set for good; so are, except on the
\* page of the accounts, queries that a request changed whose handler was told that it
\* failed, or in passing, until they are fetched anew.
THEOREM PagesAreFresh == Spec => []NothingStale
  <1>1. Init => StaleInv /\ RouterInv
    BY LoadedIsFresh
  <1>2. Inv /\ StaleInv /\ RouterInv /\ [Next]_vars => StaleInv' /\ RouterInv'
    <2> SUFFICES ASSUME Inv, StaleInv, RouterInv, [Next]_vars
                 PROVE  StaleInv' /\ RouterInv'
      OBVIOUS
    <2>1. RouterInv' /\ Polled' = Polled
      BY RouterKept
    <2>2. CASE PlainStep /\ UNCHANGED login
      BY <2>1, <2>2, HandlersOweNothing, ServingIsOwed, QueriesCatchUp DEF PlainStep
    <2>3. CASE LoginStep \/ AddedStep \/ \E f \in Forms : On("add") /\ TakeLogin(f)
      BY <2>1, <2>3, LoginsAreOwed
    <2> QED BY <2>1, <2>2, <2>3, EveryStep
  <1>3. StaleInv => NothingStale
    BY DEF StaleInv, Counts, NothingStale, AtRest, Owed, LoginOwes
  <1> QED BY <1>1, <1>2, <1>3, ConsoleInvariant, PTL DEF Spec

-----------------------------------------------------------------------------
(* The prices and the documentation. *)

\* Requests of these two pages are taken by the handlers that sent them.
LEMMA WhoTakes ==
    ASSUME NEW c, c.op \in {"sync", "curtain", "fade"}, PageTake(c) \/ AddTake(c) \/ TakeLookup(c)
    PROVE  TakeSync(c) \/ TakeCurtain(c)
  <1> USE DEF Answered
  <1>1. ~KeysTake(c)
    BY DEF KeysTake, TakeRequire, TakeConfirmedRequire, TakeToggle, TakeCopy, TakeConfirmedKey,
       TakeSaveKey
  <1>2. ~AccountsTake(c)
    BY DEF AccountsTake, TakeRow, TakeBatch, TakeWarmup, TakeLoop, TakeDeletion
  <1>3. ~SheetTake(c)
    BY DEF SheetTake, TakeSaved, TakeRefetched, TakeProbe, TakeSheet, TakeRemove, SavingOps, ReadingOps
  <1>4. ~PoolTake(c) /\ ~TakeExport(c)
    BY DEF PoolTake, TakeApply, TakeSetting, TakeAddModel, TakePoolProbe, TakeExport
  <1>5. ~SettingsTake(c)
    BY DEF SettingsTake, TakeSave, TakeSaveRelay, TakeTestRelay, TakeDanger
  <1>6. ~AddTake(c) /\ ~TakeLookup(c)
    BY DEF AddTake, TakeAfterAdd, importCredentials, TakeLookup
  <1>7. MonitorTake(c)
    BY <1>1, <1>2, <1>3, <1>4, <1>5, <1>6 DEF PageTake
  <1> QED BY <1>7 DEF MonitorTake, TakeResetStats, TakeRefreshModels, TakeRunWarmup, TakeReadRoute,
          TakeBan

\* All that happens on these two pages.
LEMMA StepsOfTheTwo ==
    ASSUME Inv, On("prices") \/ On("docs"), [Next]_vars
    PROVE  \/ On("prices") /\ (HardRefresh \/ TableSteps \/ \E c \in calls : TakeSync(c))
           \/ On("docs") /\ (DocsSteps \/ setLang \/ ToggleTheme \/ \E c \in calls : TakeCurtain(c))
           \/ Dismiss \/ (\E n : ServeCall(n)) \/ QueryStep \/ UNCHANGED coreVars
  <1>0. page \in {"prices", "docs"} /\ page \notin NAV /\ ~On("add")
    BY TheSections DEF On
  <1>1. CASE CallsGoOn
    <2>1. PICK n : Serve(n) \/ Take(n)
      BY <1>1 DEF CallsGoOn
    <2>2. CASE Serve(n)
      BY <2>2 DEF Serve
    <2>3. CASE Take(n)
      <3>1. PICK c \in calls : PageTake(c) \/ AddTake(c) \/ TakeLookup(c)
        BY <2>3 DEF Take
      <3>2. /\ On("prices") => c.op = "sync"
            /\ On("docs") => c.op \in {"curtain", "fade"}
        BY DEF Inv, RequestInv, Sound, OfPage
      <3>3. TakeSync(c) \/ TakeCurtain(c)
        BY <3>1, <3>2, WhoTakes
      <3> QED BY <3>2, <3>3 DEF TakeSync, TakeCurtain, Answered
    <2> QED BY <2>1, <2>2, <2>3
  <1>2. CASE \E q \in Queries : QueryGoesOn(q) \/ Happens(q)
    BY <1>2 DEF QueryGoesOn, Happens, QueryStep
  <1>3. CASE Operate
    <2>1. ~KeysOperate /\ ~AccountsOperate /\ ~SheetOperate /\ ~PoolOperate /\ ~SettingsOperate
      BY <1>0 DEF KeysOperate, AccountsOperate, SheetOperate, PoolOperate, SettingsOperate, On
    <2>2. ~OpenExport /\ ~TickExport /\ ~ExportNow /\ ~LeaveExport
      BY <1>0 DEF OpenExport, TickExport, ExportNow, LeaveExport, ExportIsOpen, On
    <2>3. CASE MonitorOperate
      BY <1>0, <2>3 DEF MonitorOperate, SetRange, AskResetStats, ResetStats, RefreshModels, RunWarmup,
         RefreshDecisions, BanRoute, HardRefresh, TableSteps, PressG, PressKey, TogglePalette, PickItem,
         OnShell, DocsSteps, ToggleTheme, setLang, On
    <2> QED BY <1>3, <2>1, <2>2, <2>3 DEF Operate
  <1>4. CASE LooksUp
    BY <1>0, <1>4 DEF LooksUp, PollLogs, Lookup, On
  <1>5. CASE Adds
    <2>1. ~DialogSteps
      BY <1>0 DEF DialogSteps, OpenAdd, PickMethod, LeaveForm, AddIsOpen
    <2>2. ~ImportSteps
      <3>1. ASSUME NEW methods, NEW requests
            PROVE  ~Import(methods, requests)
        BY <1>0 DEF Import, SubmitRow, FormOfMethod
      <3> QED BY <3>1 DEF ImportSteps, CredentialsForm, LocalCacheForm, CookieForm, CompatForm,
              SsoTokenForm, CodeBuddyForm, GrokImportForm, CodexImportForm, ClinepassImportForm,
              OpenCodeTokenImportForm, useCredentialImport
    <2>3. ASSUME NEW f \in Forms, LoginSteps(f) \/ RelaySteps(f)
          PROVE  UNCHANGED coreVars
      BY <1>0, <2>3 DEF LoginSteps, StartDevice, StartIam, StartKiro, StartLogin, CompleteIam,
         PasteCallback, FormOfMethod, Deadline, GraceEnds, handleCallback, RelaySteps,
         RelayKiroSsoCallback, TakeRelay
    <2> QED BY <1>5, <2>1, <2>2, <2>3 DEF Adds
  <1>6. CASE \E k \in Listed : ServeLogsOf(k) \/ TakeLogsOf(k)
    BY <1>6 DEF ServeLogsOf, TakeLogsOf, ServeLogs, TakeLogs
  <1>7. CASE \E f \in Forms : LoginGoesOn(f) \/ Cancel(f)
    BY <1>0, <1>7, LoginsGoOn DEF LoginGoesOn, Cancel, CancelKiroSsoLogin
  <1>8. CASE UNCHANGED vars
    BY <1>8 DEF vars
  <1> QED BY <1>1, <1>2, <1>3, <1>4, <1>5, <1>6, <1>7, <1>8 DEF Next

\* Where the table is: its page and how long pages are.
IsPlace(d) == d = [x \in {"index", "size"} |-> d[x]] /\ d.index \in Nat /\ d.size \in PageSizes

\* The rows and the page of the table of the prices.
TableInv ==
    On("prices") =>
       /\ "catalogue" \in Queries
       /\ store["catalogue"].rows \subseteq Rows
       /\ cache["catalogue"].rows \subseteq Rows
       /\ fetch["catalogue"].got.rows \subseteq Rows
       /\ IsPlace(ui.draft)

\* Back, forward, and another number of rows per page.
LEMMA PlacesOfThePager ==
    ASSUME NEW i \in Nat, NEW s \in PageSizes, NEW t \in Nat, i * s < t
    PROVE  /\ i > 0 => i - 1 \in Nat /\ (i - 1) * s < t
           /\ i + 1 < (t + s - 1) \div s => (i + 1) * s < t
           /\ \A z \in PageSizes : (i * s) \div z \in Nat /\ ((i * s) \div z) * z < t
  <1>1. CASE s = 1
    <2>1. i * s = i /\ (i - 1) * s = i - 1 /\ (i + 1) * s = i + 1 /\ (t + s - 1) \div s = t
      BY <1>1
    <2>2. i \div 1 \in Nat /\ (i \div 1) * 1 = i
      OBVIOUS
    <2>3. i \div 2 \in Nat /\ (i \div 2) * 2 <= i
      OBVIOUS
    <2> QED BY <2>1, <2>2, <2>3 DEF PageSizes
  <1>2. CASE s = 2
    <2> DEFINE j == i * 2
    <2>1. j \in Nat /\ j < t /\ (i > 0 => (i - 1) * 2 < j) /\ (i + 1) * 2 = j + 2
      BY <1>2
    <2>2. i + 1 < (t + 2 - 1) \div 2 => j + 2 < t
      OBVIOUS
    <2>3. j \div 1 \in Nat /\ (j \div 1) * 1 = j /\ j \div 2 \in Nat /\ (j \div 2) * 2 <= j
      OBVIOUS
    <2> QED BY <1>2, <2>1, <2>2, <2>3 DEF PageSizes
  <1> QED BY <1>1, <1>2 DEF PageSizes

\* Rows are finite, and so is what is left of them when some are hidden.
LEMMA TotalIsANumber ==
    ASSUME NEW rows, rows \subseteq Rows, NEW hidden
    PROVE  Cardinality(rows \ hidden) \in Nat
  BY RowsAssumption, FS_Subset, FS_CardinalityType

\* From the first page on.
LEMMA ResetFits ==
    ASSUME NEW u, IsUi(u), IsPlace(u.draft)
    PROVE  /\ IsPlace(AutoReset(u).draft) /\ AutoReset(u).draft.index = 0
           /\ AutoReset(u).draft.size \in Nat /\ AutoReset(u).sel = u.sel
  <1>1. AutoReset(u) = [u EXCEPT !.draft = [u.draft EXCEPT !.index = 0]]
    BY DEF AutoReset, IsUi
  <1>2. PICK d : d = [u.draft EXCEPT !.index = 0]
    OBVIOUS
  <1>3. IsPlace(d) /\ d.index = 0 /\ d.size \in Nat
    BY <1>2 DEF IsPlace, PageSizes
  <1>4. AutoReset(u).draft = d /\ AutoReset(u).sel = u.sel
    BY <1>1, <1>2 DEF IsUi, UiFields
  <1> QED BY <1>3, <1>4


\* The rows are the same and so is the page, or the first page is shown.
LEMMA PageFits ==
    ASSUME On("prices"), NoEmptyPage, page' = page, IsPlace(ui.draft), IsPlace(ui'.draft),
           cache'["catalogue"].rows \subseteq Rows,
           \/ /\ ui'.draft = ui.draft /\ ui'.sel = ui.sel
              /\ cache'["catalogue"].rows = cache["catalogue"].rows
           \/ ui'.draft.index = 0
    PROVE  NoEmptyPage'
  <1>1. /\ Total = Cardinality(cache["catalogue"].rows \ ui.sel)
        /\ Total' = Cardinality(cache'["catalogue"].rows \ ui'.sel)
    BY DEF Total, TableRows, Shown
  <1>2. Total' \in Nat
    BY <1>1, TotalIsANumber
  <1>3. CASE /\ ui'.draft = ui.draft /\ ui'.sel = ui.sel
             /\ cache'["catalogue"].rows = cache["catalogue"].rows
    <2>1. Total' = Total
      BY <1>1, <1>3
    <2> QED BY <1>3, <2>1 DEF NoEmptyPage
  <1>4. CASE ui'.draft.index = 0
    <2>1. ui'.draft.size \in Nat
      BY DEF IsPlace, PageSizes
    <2> QED BY <1>2, <1>4, <2>1 DEF NoEmptyPage
  <1> QED BY <1>3, <1>4

\* The operator turns pages, filters and orders the rows.
LEMMA TableFits ==
    ASSUME Inv, TableInv, NoEmptyPage, TableSteps
    PROVE  TableInv' /\ NoEmptyPage'
  <1>0. /\ On("prices") /\ IsUi(ui) /\ IsPlace(ui.draft) /\ cache["catalogue"].rows \subseteq Rows
    BY DEF Inv, Shapes, TableSteps, TableInv
  <1>1. UNCHANGED <<page, store, cache, fetch>>
    BY DEF TableSteps, FilterRows, SortRows, Rearrange, Pager, GoTo, Touch
  <1>2. ASSUME IsPlace(ui'.draft)
        PROVE  TableInv'
    <2>1. IsPlace(ui.draft)'
      BY <1>2 DEF IsPlace
    <2> QED BY <1>1, <2>1 DEF TableInv, On, Queries
  <1>3. ASSUME NEW hidden, Rearrange(hidden)
        PROVE  TableInv' /\ NoEmptyPage'
    <2> DEFINE u == [ui EXCEPT !.sel = hidden]
    <2>1. IsUi(u) /\ u.draft = ui.draft
      BY <1>0 DEF IsUi, UiFields
    <2>2. ui' = AutoReset(u)
      BY <1>3 DEF Rearrange, Touch
    <2> HIDE DEF u
    <2>3. IsPlace(ui'.draft) /\ ui'.draft.index = 0
      BY <1>0, <2>1, <2>2, ResetFits
    <2> QED BY <1>0, <1>1, <1>2, <2>3, PageFits
  <1>4. ASSUME NEW i \in Nat, NEW s \in PageSizes, GoTo(i, s), i * s < Total
        PROVE  TableInv' /\ NoEmptyPage'
    <2>1. ui' = [ui EXCEPT !.draft = [index |-> i, size |-> s]]
      BY <1>4 DEF GoTo, Touch
    <2>2. PICK d : d = [index |-> i, size |-> s]
      OBVIOUS
    <2>3. IsPlace(d) /\ d.index = i /\ d.size = s
      BY <2>2 DEF IsPlace
    <2>4. ui'.draft = d /\ ui'.sel = ui.sel
      BY <1>0, <2>1, <2>2 DEF IsUi, UiFields
    <2>5. Total' = Total
      BY <1>1, <2>4 DEF Total, TableRows, Shown
    <2> QED BY <1>2, <1>4, <2>3, <2>4, <2>5 DEF NoEmptyPage
  <1>5. CASE Pager
    <2> DEFINE i == ui.draft.index
               s == ui.draft.size
               t == Total
    <2>1. t \in Nat /\ t > 0
      <3>1. t \in Nat
        BY <1>0, TotalIsANumber DEF Total, TableRows, Shown
      <3> QED BY <1>5, <3>1 DEF Pager, GoTo
    <2>2. i \in Nat /\ s \in PageSizes /\ i * s < t
      BY <1>0, <2>1 DEF IsPlace, NoEmptyPage
    <2>3. \/ i > 0 /\ GoTo(i - 1, s)
          \/ i + 1 < (t + s - 1) \div s /\ GoTo(i + 1, s)
          \/ \E z \in PageSizes : GoTo((i * s) \div z, z)
      BY <1>5 DEF Pager, PageCount
    <2>4. \A j \in Nat, z \in PageSizes : GoTo(j, z) /\ j * z < t => TableInv' /\ NoEmptyPage'
      BY <1>4
    <2> HIDE DEF i, s, t
    <2>5. /\ i > 0 => i - 1 \in Nat /\ (i - 1) * s < t
          /\ i + 1 < (t + s - 1) \div s => (i + 1) * s < t
          /\ \A z \in PageSizes : (i * s) \div z \in Nat /\ ((i * s) \div z) * z < t
      BY <2>1, <2>2, PlacesOfThePager
    <2> QED BY <2>2, <2>3, <2>4, <2>5
  <1> QED BY <1>3, <1>5 DEF TableSteps, FilterRows, SortRows

\* A handler that leaves the table alone.
LEMMA TableLeftAlone ==
    ASSUME Inv, TableInv, NoEmptyPage, On("prices"), UNCHANGED <<page, store, cache>>,
           ui'.draft = ui.draft, ui'.sel = ui.sel,
           fetch' = fetch \/ \E Q : fetch' = Invalidated(Q)
    PROVE  TableInv' /\ NoEmptyPage'
  <1>0. "catalogue" \in Queries /\ Queries' = Queries
    BY DEF TableInv, Queries
  <1>1. fetch'["catalogue"] \in {fetch["catalogue"], Fresh} /\ Fresh.got.rows = {}
    BY <1>0 DEF Invalidated, Fresh, NoFetch, Content
  <1>2. IsPlace(ui.draft) /\ IsPlace(ui'.draft)
    BY DEF TableInv
  <1>3. IsPlace(ui.draft)'
    BY <1>2 DEF IsPlace
  <1>4. fetch'["catalogue"].got.rows \subseteq Rows
    BY <1>1 DEF TableInv
  <1>5. TableInv'
    BY <1>0, <1>3, <1>4 DEF TableInv, On
  <1>6. cache'["catalogue"].rows \subseteq Rows
    BY DEF TableInv
  <1> QED BY <1>2, <1>5, <1>6, PageFits

\* The list is fetched.
LEMMA FetchFits ==
    ASSUME Inv, TableInv, NoEmptyPage, On("prices"), QueryStep
    PROVE  TableInv' /\ NoEmptyPage'
  <1>0. /\ QueryShapes /\ IsUi(ui) /\ IsPlace(ui.draft) /\ "catalogue" \in Queries
        /\ page \notin NAV /\ Moving = {}
    BY TheSections DEF Inv, Shapes, TableInv, Moving, On
  <1>1. PICK q \in Queries : ServeFetch(q) \/ TakeFetch(q, Fetched(q)) \/ Interval(q)
    BY <1>0 DEF QueryStep, Traffic
  <1>2. store' = store /\ page' = page /\ Queries' = Queries
    BY <1>1 DEF ServeFetch, TakeFetch, Interval, Queries
  <1>3. fetch'["catalogue"].got.rows \subseteq Rows
    <2>1. \E f : /\ fetch' = [fetch EXCEPT ![q] = f]
                 /\ f \in {[pc |-> "answered", got |-> store[q]], NoFetch, Fresh}
      BY <1>1 DEF ServeFetch, TakeFetch, Interval
    <2>2. fetch'["catalogue"] \in {fetch["catalogue"], NoFetch, Fresh,
                                   [pc |-> "answered", got |-> store["catalogue"]]}
      BY <1>0, <2>1 DEF QueryShapes
    <2>3. NoFetch.got.rows = {} /\ Fresh.got.rows = {}
      BY DEF NoFetch, Fresh, Content
    <2> QED BY <2>2, <2>3 DEF TableInv
  <1>4. ASSUME IsPlace(ui'.draft), cache'["catalogue"].rows \subseteq Rows
        PROVE  TableInv'
    <2>1. IsPlace(ui.draft)'
      BY <1>4 DEF IsPlace
    <2> QED BY <1>0, <1>2, <1>3, <1>4, <2>1 DEF TableInv, On
  <1>5. CASE ServeFetch(q) \/ Interval(q)
    <2>1. UNCHANGED <<cache, ui>>
      BY <1>5 DEF ServeFetch, Interval
    <2>2. IsPlace(ui'.draft) /\ cache'["catalogue"].rows \subseteq Rows
      BY <1>0, <2>1 DEF TableInv
    <2> QED BY <1>0, <1>2, <1>4, <2>1, <2>2, PageFits
  <1>6. CASE TakeFetch(q, Fetched(q))
    <2>1. cache' = [cache EXCEPT ![q] = fetch[q].got] /\ ui' = Refreshed(q)
      BY <1>0, <1>6 DEF TakeFetch, Fetched
    <2>2. CASE q # "catalogue"
      <3>1. cache'["catalogue"] = cache["catalogue"] /\ ui' = ui
        BY <1>0, <2>1, <2>2 DEF QueryShapes, Refreshed
      <3>2. IsPlace(ui'.draft) /\ cache'["catalogue"].rows \subseteq Rows
        BY <1>0, <3>1 DEF TableInv
      <3> QED BY <1>0, <1>2, <1>4, <3>1, <3>2, PageFits
    <2>3. CASE q = "catalogue"
      <3> DEFINE u == IF ui.busy = "refetch" THEN [ui EXCEPT !.busy = "none"] ELSE ui
      <3>1. IsUi(u) /\ u.draft = ui.draft /\ u.sel = ui.sel
        BY <1>0 DEF IsUi, UiFields
      <3>2. ui' = Relisted(fetch[q].got.rows, u)
        BY <2>1, <2>3 DEF Refreshed
      <3> HIDE DEF u
      <3>3. cache'["catalogue"] = fetch["catalogue"].got
        BY <1>0, <2>1, <2>3 DEF QueryShapes
      <3>4. cache'["catalogue"].rows \subseteq Rows
        BY <3>3 DEF TableInv
      <3>5. CASE fetch[q].got.rows = Shown("catalogue")
        <4>1. ui' = u /\ cache'["catalogue"].rows = cache["catalogue"].rows
          BY <2>3, <3>2, <3>3, <3>5 DEF Relisted, Shown
        <4>2. IsPlace(ui'.draft)
          BY <1>0, <3>1, <4>1
        <4> QED BY <1>0, <1>2, <1>4, <3>1, <3>4, <4>1, <4>2, PageFits
      <3>6. CASE fetch[q].got.rows # Shown("catalogue")
        <4>1. ui' = AutoReset(u)
          BY <3>2, <3>6 DEF Relisted
        <4>2. IsPlace(ui'.draft) /\ ui'.draft.index = 0
          BY <1>0, <3>1, <4>1, ResetFits
        <4> QED BY <1>0, <1>2, <1>4, <3>4, <4>2, PageFits
      <3> QED BY <3>5, <3>6
    <2> QED BY <2>2, <2>3
  <1> QED BY <1>1, <1>5, <1>6

\* The server fetches its own copy anew.
LEMMA SyncFits ==
    ASSUME Inv, TableInv, NoEmptyPage, On("prices"), NEW n, ServeCall(n)
    PROVE  TableInv' /\ NoEmptyPage'
  <1>0. /\ QueryShapes /\ "catalogue" \in Queries /\ UNCHANGED <<page, ui>>
    BY DEF Inv, Shapes, TableInv, ServeCall
  <1>1. PICK c \in calls : \E W : Writes(W, Written(c, W))
    BY ServingWrites
  <1>2. c.adds \subseteq Rows
    BY DEF Inv, RequestInv, Sound, OfPage
  <1>3. PICK W : Writes(W, Written(c, W))
    BY <1>1
  <1>4. PICK v : v = Written(c, W)
    OBVIOUS
  <1>5. /\ v = [q \in Queries |-> v[q]] /\ \A q \in Queries : IsContent(v[q])
        /\ "catalogue" \notin W \cap c.writes => v["catalogue"] = store["catalogue"]
        /\ "catalogue" \in W \cap c.writes =>
              v["catalogue"].rows = (store["catalogue"].rows \ c.drops) \cup c.adds
    BY <1>0, <1>4, WrittenContents
  <1>6. v["catalogue"].rows \subseteq Rows
    BY <1>2, <1>5 DEF TableInv
  <1>7. Writes(W, v)
    BY <1>3, <1>4
  <1>8. /\ Queries' = Queries /\ store'["catalogue"] = v["catalogue"]
        /\ cache'["catalogue"].rows = cache["catalogue"].rows
        /\ fetch'["catalogue"].got.rows = fetch["catalogue"].got.rows
    BY <1>0, <1>5, <1>7, WrittenShapes
  <1>9. IsPlace(ui'.draft) /\ IsPlace(ui.draft) /\ cache'["catalogue"].rows \subseteq Rows
    BY <1>0, <1>8 DEF TableInv
  <1>10. IsPlace(ui.draft)'
    BY <1>9 DEF IsPlace
  <1>11. TableInv'
    BY <1>0, <1>6, <1>8, <1>10 DEF TableInv
  <1> QED BY <1>0, <1>8, <1>9, <1>11, PageFits

\* The table of the prices starts on its first page.
LEMMA PricesStart ==
    ASSUME Init
    PROVE  TableInv /\ NoEmptyPage
  <1> SUFFICES ASSUME On("prices")
               PROVE  TableInv /\ NoEmptyPage
    BY DEF TableInv, NoEmptyPage
  <1>1. CoreInit("prices", [q \in {"catalogue"} |-> Content(Listed, {})],
                 [QuietUi EXCEPT !.draft = FirstPage])
    BY WhereTheyStart
  <1>2. /\ "catalogue" \in Queries /\ store["catalogue"] = Content(Listed, {})
        /\ cache["catalogue"] = Content(Listed, {}) /\ fetch["catalogue"] = NoFetch
    BY <1>1 DEF CoreInit, Queries
  <1>3. ui = [QuietUi EXCEPT !.draft = FirstPage]
    BY <1>1 DEF CoreInit
  <1>4. ui.draft = FirstPage
    BY <1>3, QuietIsUi DEF IsUi, UiFields
  <1>5. IsPlace(FirstPage) /\ FirstPage.index = 0 /\ FirstPage.size = 1
    BY DEF IsPlace, FirstPage, PageSizes
  <1>6. Content(Listed, {}).rows = Listed /\ NoFetch.got.rows = {} /\ Listed \subseteq Rows
    BY DEF Content, NoFetch, Listed
  <1>7. TableInv
    BY <1>2, <1>4, <1>5, <1>6 DEF TableInv
  <1>8. Total \in Nat
    BY <1>2, <1>6, TotalIsANumber DEF Total, TableRows, Shown
  <1> QED BY <1>4, <1>5, <1>7, <1>8 DEF NoEmptyPage

\* The table of the prices never shows an empty page while it has rows, whatever is
\* filtered, ordered and fetched, and however many models there are: a page is left for
\* the first one, kept, or turned within the bounds the pager computes.
THEOREM NoPageIsEmpty == Spec => []NoEmptyPage
  <1>1. Init => TableInv /\ NoEmptyPage
    BY PricesStart
  <1>2. Inv /\ TableInv /\ NoEmptyPage /\ [Next]_vars => TableInv' /\ NoEmptyPage'
    <2> SUFFICES ASSUME Inv, TableInv, NoEmptyPage, [Next]_vars
                 PROVE  TableInv' /\ NoEmptyPage'
      OBVIOUS
    <2>0. page' = page
      BY EveryStepKeeps
    <2>1. CASE ~On("prices")
      BY <2>0, <2>1 DEF TableInv, NoEmptyPage, On
    <2>2. CASE On("prices")
      <3>0. IsUi(ui) /\ ~On("docs")
        BY <2>2 DEF Inv, Shapes, On
      <3>1. CASE HardRefresh
        <4>1. ui' = [ui EXCEPT !.busy = "sync"] /\ UNCHANGED <<page, store, cache, fetch>>
          BY <3>1 DEF HardRefresh, Click, Send
        <4>2. ui'.draft = ui.draft /\ ui'.sel = ui.sel
          BY <3>0, <4>1 DEF IsUi, UiFields
        <4> QED BY <2>2, <4>1, <4>2, TableLeftAlone
      <3>2. CASE \E c \in calls : TakeSync(c)
        <4>1. PICK c, b : /\ ui' = [ui EXCEPT !.busy = b] /\ UNCHANGED <<page, store, cache>>
                          /\ fetch' = Invalidated(OnSuccess(c, {"catalogue"}))
          BY <3>2 DEF TakeSync, Settle
        <4>2. ui'.draft = ui.draft /\ ui'.sel = ui.sel
          BY <3>0, <4>1 DEF IsUi, UiFields
        <4> QED BY <2>2, <4>1, <4>2, TableLeftAlone
      <3>3. CASE Dismiss
        <4>1. ui' = [ui EXCEPT !.confirm = NoConfirm] /\ UNCHANGED <<page, store, cache, fetch>>
          BY <3>3 DEF Dismiss, Touch
        <4>2. ui'.draft = ui.draft /\ ui'.sel = ui.sel
          BY <3>0, <4>1 DEF IsUi, UiFields
        <4> QED BY <2>2, <4>1, <4>2, TableLeftAlone
      <3>4. CASE UNCHANGED coreVars
        BY <2>2, <3>4, TableLeftAlone DEF coreVars
      <3> QED BY <2>2, <3>0, <3>1, <3>2, <3>3, <3>4, TableFits, SyncFits, FetchFits, StepsOfTheTwo
    <2> QED BY <2>1, <2>2
  <1> QED BY <1>1, <1>2, ConsoleInvariant, PTL DEF Spec

\* What the documentation keeps.
HistoryFields == {"entries", "at", "key", "text", "copied"}

\* The browser's history and the place in it.
IsHistory(d) ==
    /\ d = [x \in HistoryFields |-> d[x]]
    /\ d.entries \in Seq(Rows \cup Spare) /\ d.at \in 1 .. Len(d.entries)

\* The documentation is somewhere in its history.
HistoryInv == On("docs") => IsHistory(ui.draft)

\* The place after a link is that of the link.
LEMMA PushedIsHistory ==
    ASSUME IsHistory(ui.draft), NEW path \in Rows \cup Spare
    PROVE  IsHistory(Pushed(path)) /\ Address(Pushed(path)) = path
  <1> DEFINE s == ui.draft.entries
             at == ui.draft.at
             t == SubSeq(s, 1, at)
             e == Append(t, path)
  <1>1. s \in Seq(Rows \cup Spare) /\ at \in 1 .. Len(s) /\ at \in Nat
    BY DEF IsHistory
  <1>2. t \in Seq(Rows \cup Spare) /\ Len(t) = at
    <2> HIDE DEF s, at
    <2> QED BY <1>1, SubSeqProperties
  <1>3. e \in Seq(Rows \cup Spare) /\ Len(e) = at + 1 /\ e[at + 1] = path
    <2> HIDE DEF s, at, t
    <2> QED BY <1>1, <1>2, AppendProperties
  <1>4. Pushed(path) = [ui.draft EXCEPT !.entries = e, !.at = at + 1]
    BY DEF Pushed
  <1> HIDE DEF e, t, s
  <1>5. PICK d : d = [ui.draft EXCEPT !.entries = e, !.at = at + 1]
    OBVIOUS
  <1>6. d = [x \in HistoryFields |-> d[x]] /\ d.entries = e /\ d.at = at + 1
    BY <1>5 DEF IsHistory, HistoryFields
  <1>7. IsHistory(d) /\ Address(d) = path
    BY <1>1, <1>3, <1>6 DEF IsHistory, Address
  <1> QED BY <1>4, <1>5, <1>7

\* A link, a heading, back and forward, a reload, and a key that is typed.
LEMMA DocsFollow ==
    ASSUME Inv, HistoryInv, ArticleOfTheAddress, DocsSteps
    PROVE  IsHistory(ui'.draft) /\ ui'.open = slugFromPath(Address(ui'.draft))
  <1>0. /\ On("docs") /\ IsUi(ui) /\ IsHistory(ui.draft) /\ ui.open = slugFromPath(Address(ui.draft))
    BY DEF Inv, Shapes, HistoryInv, ArticleOfTheAddress, DocsSteps
  <1>1. ASSUME NEW d, NEW s, ui' = [ui EXCEPT !.open = s, !.draft = d], IsHistory(d),
               s = slugFromPath(Address(d))
        PROVE  IsHistory(ui'.draft) /\ ui'.open = slugFromPath(Address(ui'.draft))
    <2>1. ui'.open = s /\ ui'.draft = d
      BY <1>0, <1>1 DEF IsUi, UiFields
    <2> QED BY <1>1, <2>1
  <1>2. ASSUME NEW d, ui' = [ui EXCEPT !.draft = d], IsHistory(d), Address(d) = Address(ui.draft)
        PROVE  IsHistory(ui'.draft) /\ ui'.open = slugFromPath(Address(ui'.draft))
    <2>1. ui'.open = ui.open /\ ui'.draft = d
      BY <1>0, <1>2 DEF IsUi, UiFields
    <2> QED BY <1>0, <1>2, <2>1
  <1>3. ASSUME NEW s \in PAGES, navigate(s)
        PROVE  IsHistory(ui'.draft) /\ ui'.open = slugFromPath(Address(ui'.draft))
    <2>1. ui' = [ui EXCEPT !.open = s, !.draft = Pushed(s)]
      BY <1>3 DEF navigate, Touch
    <2>2. IsHistory(Pushed(s)) /\ Address(Pushed(s)) = s
      BY <1>0, PushedIsHistory DEF PAGES
    <2>3. slugFromPath(s) = s
      BY DEF slugFromPath
    <2> QED BY <1>1, <2>1, <2>2, <2>3
  <1>4. ASSUME NEW d, IsHistory(d), Load(d)
        PROVE  IsHistory(ui'.draft) /\ ui'.open = slugFromPath(Address(ui'.draft))
    <2>1. PICK e : e = [d EXCEPT !.copied = FALSE]
      OBVIOUS
    <2>2. IsHistory(e) /\ Address(e) = Address(d)
      BY <1>4, <2>1 DEF IsHistory, HistoryFields, Address
    <2>3. ui' = [ui EXCEPT !.draft = e, !.busy = "none", !.open = slugFromPath(Address(d))]
      BY <1>4, <2>1 DEF Load
    <2>4. ui'.draft = e /\ ui'.open = slugFromPath(Address(d))
      BY <1>0, <2>3 DEF IsUi, UiFields
    <2> QED BY <2>2, <2>4
  <1>5. ASSUME NEW path \in Rows \cup Spare, OpenPath(path)
        PROVE  IsHistory(ui'.draft) /\ ui'.open = slugFromPath(Address(ui'.draft))
    BY <1>0, <1>4, <1>5, PushedIsHistory DEF OpenPath
  <1>6. CASE PickPage \/ SelectPage \/ FollowLink
    BY <1>3, <1>5, <1>6 DEF PickPage, SelectPage, FollowLink
  <1>7. CASE Title
    BY <1>5, <1>7 DEF Title
  <1>8. CASE Reload
    BY <1>0, <1>4, <1>8 DEF Reload
  <1>9. CASE FollowHeading
    <2>1. Address(ui.draft) \in Rows \cup Spare
      BY <1>0, ElementOfSeq DEF IsHistory, Address
    <2>2. PICK path \in Rows \cup Spare : path = Address(ui.draft)
      BY <2>1
    <2>3. ui' = [ui EXCEPT !.draft = Pushed(path)]
      BY <1>9, <2>2 DEF FollowHeading, Touch
    <2>4. IsHistory(Pushed(path)) /\ Address(Pushed(path)) = path
      BY <1>0, PushedIsHistory
    <2> QED BY <1>2, <2>2, <2>3, <2>4
  <1>10. CASE BackOrForward
    <2>1. PICK i \in DOMAIN ui.draft.entries : Touch(onPop([ui.draft EXCEPT !.at = i]))
      BY <1>10 DEF BackOrForward
    <2>2. PICK d : d = [ui.draft EXCEPT !.at = i]
      OBVIOUS
    <2>3. i \in 1 .. Len(ui.draft.entries)
      BY <1>0, <2>1, LenProperties DEF IsHistory
    <2>4. IsHistory(d)
      BY <1>0, <2>2, <2>3 DEF IsHistory, HistoryFields
    <2>5. ui' = [ui EXCEPT !.draft = d, !.open = slugFromPath(Address(d))]
      BY <2>1, <2>2 DEF onPop, Touch
    <2>6. ui'.draft = d /\ ui'.open = slugFromPath(Address(d))
      BY <1>0, <2>5 DEF IsUi, UiFields
    <2> QED BY <2>4, <2>6
  <1>11. ASSUME NEW d, NEW k, NEW x, NEW b, ui'.open = ui.open, ui'.draft = d,
                d \in {[ui.draft EXCEPT !.key = k], [ui.draft EXCEPT !.text = x, !.copied = b],
                       [ui.draft EXCEPT !.copied = b]}
         PROVE  IsHistory(ui'.draft) /\ ui'.open = slugFromPath(Address(ui'.draft))
    <2>1. IsHistory(d) /\ Address(d) = Address(ui.draft)
      BY <1>0, <1>11 DEF IsHistory, HistoryFields, Address
    <2> QED BY <1>0, <1>11, <2>1
  <1>12. CASE TypeApiKey
    <2>1. PICK k : ui' = [ui EXCEPT !.draft = [ui.draft EXCEPT !.key = k]]
      BY <1>0, <1>12 DEF TypeApiKey, Touch, IsUi, UiFields
    <2>2. ui'.open = ui.open /\ ui'.draft = [ui.draft EXCEPT !.key = k]
      BY <1>0, <2>1 DEF IsUi, UiFields
    <2> QED BY <1>11, <2>2
  <1>13. CASE CopyCode
    <2>1. CASE Touch([ui EXCEPT !.draft.text = CodeText, !.draft.copied = TRUE])
      <3>1. ui' = [ui EXCEPT !.draft.text = CodeText, !.draft.copied = TRUE]
        BY <2>1 DEF Touch
      <3> HIDE DEF CodeText
      <3>2. ui'.open = ui.open /\ ui'.draft = [ui.draft EXCEPT !.text = CodeText, !.copied = TRUE]
        BY <1>0, <3>1 DEF IsUi, UiFields
      <3> QED BY <1>11, <3>2
    <2>2. CASE Touch([ui EXCEPT !.draft.copied = FALSE])
      <3>1. ui' = [ui EXCEPT !.draft.copied = FALSE]
        BY <2>2 DEF Touch
      <3>2. ui'.open = ui.open /\ ui'.draft = [ui.draft EXCEPT !.copied = FALSE]
        BY <1>0, <3>1 DEF IsUi, UiFields
      <3> QED BY <1>11, <3>2
    <2> QED BY <1>13, <2>1, <2>2 DEF CopyCode
  <1> QED BY <1>6, <1>7, <1>8, <1>9, <1>10, <1>12, <1>13 DEF DocsSteps

\* The documentation shows the article of the address, after any sequence of links,
\* headings, steps back and forward and reloads, and for a history of any length
\* (slugFromPath, navigate and onPop).
THEOREM ArticlesFollowTheAddress == Spec => []ArticleOfTheAddress
  <1>1. Init => HistoryInv /\ ArticleOfTheAddress
    <2> SUFFICES ASSUME Init, On("docs")
                 PROVE  IsHistory(ui.draft) /\ ui.open = slugFromPath(Address(ui.draft))
      BY DEF HistoryInv, ArticleOfTheAddress
    <2>1. PICK path \in Rows : ui = DocsUi(path)
      BY WhereTheyStart DEF CoreInit
    <2>2. PICK d : d = [entries |-> <<path>>, at |-> 1, key |-> FALSE, text |-> "none", copied |-> FALSE]
      OBVIOUS
    <2>3. IsHistory(d) /\ Address(d) = path
      BY <2>2 DEF IsHistory, HistoryFields, Address
    <2>4. ui = [QuietUi EXCEPT !.kind = "en", !.open = slugFromPath(path), !.draft = d]
      BY <2>1, <2>2 DEF DocsUi
    <2>5. ui.open = slugFromPath(path) /\ ui.draft = d
      BY <2>4, QuietIsUi DEF IsUi, UiFields
    <2> QED BY <2>3, <2>5
  <1>2. Inv /\ HistoryInv /\ ArticleOfTheAddress /\ [Next]_vars => HistoryInv' /\ ArticleOfTheAddress'
    <2> SUFFICES ASSUME Inv, HistoryInv, ArticleOfTheAddress, [Next]_vars
                 PROVE  HistoryInv' /\ ArticleOfTheAddress'
      OBVIOUS
    <2> SUFFICES ASSUME On("docs")
                 PROVE  IsHistory(ui'.draft) /\ ui'.open = slugFromPath(Address(ui'.draft))
      <3>1. page' = page
        BY EveryStepKeeps
      <3>2. IsHistory(ui'.draft) <=> IsHistory(ui.draft)'
        BY DEF IsHistory
      <3>3. slugFromPath(Address(ui'.draft)) = slugFromPath(Address(ui.draft))'
        BY DEF slugFromPath, Address, PAGES, DEFAULT_SLUG
      <3> QED BY <3>1, <3>2, <3>3 DEF HistoryInv, ArticleOfTheAddress, On
    <2>0. /\ IsUi(ui) /\ IsHistory(ui.draft) /\ ui.open = slugFromPath(Address(ui.draft))
          /\ ~On("prices") /\ page \notin NAV
      BY TheSections DEF Inv, Shapes, HistoryInv, ArticleOfTheAddress, On
    <2>1. ASSUME ui'.draft = ui.draft, ui'.open = ui.open
          PROVE  IsHistory(ui'.draft) /\ ui'.open = slugFromPath(Address(ui'.draft))
      BY <2>0, <2>1
    <2>2. CASE DocsSteps
      BY <2>2, DocsFollow
    <2>3. CASE setLang
      <3>1. PICK k : ui' = [ui EXCEPT !.kind = k, !.shown = FALSE]
        BY <2>3 DEF setLang, Touch
      <3>2. ui'.draft = ui.draft /\ ui'.open = ui.open
        BY <2>0, <3>1 DEF IsUi, UiFields
      <3> QED BY <2>1, <3>2
    <2>4. CASE ToggleTheme \/ \E c \in calls : TakeCurtain(c)
      <3>1. ui' \in {Flipped([ui EXCEPT !.shown = FALSE]), [ui EXCEPT !.busy = "theme"], Flipped(ui),
                     [ui EXCEPT !.busy = "none"]}
        BY <2>4 DEF ToggleTheme, TakeCurtain, Touch, Click, Send, Settle
      <3>2. ui'.draft = ui.draft /\ ui'.open = ui.open
        BY <2>0, <3>1 DEF Flipped, IsUi, UiFields
      <3> QED BY <2>1, <3>2
    <2>5. CASE Dismiss
      <3>1. ui' = [ui EXCEPT !.confirm = NoConfirm]
        BY <2>5 DEF Dismiss, Touch
      <3>2. ui'.draft = ui.draft /\ ui'.open = ui.open
        BY <2>0, <3>1 DEF IsUi, UiFields
      <3> QED BY <2>1, <3>2
    <2>6. CASE (\E n : ServeCall(n)) \/ QueryStep \/ UNCHANGED coreVars
      <3>1. ui' = ui
        BY <2>0, <2>6 DEF ServeCall, QueryStep, ServeFetch, TakeFetch, Fetched, Refreshed, Interval,
           Traffic, coreVars
      <3> QED BY <2>1, <3>1
    <2> QED BY <2>0, <2>2, <2>3, <2>4, <2>5, <2>6, StepsOfTheTwo
  <1> QED BY <1>1, <1>2, ConsoleInvariant, PTL DEF Spec
=============================================================================
