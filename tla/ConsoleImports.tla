----------------------------- MODULE ConsoleImports ----------------------------
(***************************************************************************)
(* The forms of the same dialog that import accounts from what is pasted:  *)
(* in one request for all of it, or in one request for each account, one   *)
(* after the other.  What is pasted is chosen when it is sent, and is a    *)
(* sequence of pieces of which only counts whether each is understood.     *)
(***************************************************************************)
EXTENDS ConsoleLogins, Sequences

Texts == UNION {[1 .. n -> BOOLEAN] : n \in 1 .. 2}

Understood(text) == Cardinality({i \in DOMAIN text : text[i]})

\* left: how many are still to be sent, this one included; added: one has been.
ImportReq(f, n, left, added) ==
    [Req("import", [form |-> f, left |-> left, added |-> added], AccountsQ) EXCEPT !.n = n]

\* useSubmit: of the form, so a form that is mounted anew is not busy.
Submitting(f) == \E c \in calls : c.op = "import" /\ c.row.form = f

SubmitRow(methods) ==
    FormOfMethod(ui.draft.form, methods) /\ ~Submitting(ui.draft.form)

Import(methods, requests) ==
    /\ SubmitRow(methods)
    /\ Click(ImportReq(ui.draft.form, clicks + 1, requests, FALSE), ui)
    /\ UNCHANGED loginVars

\* onDone: the list is fetched anew, and the dialog that is open is closed.
onDone(c) ==
    /\ Settle(c, AfterAdd(c.n), AccountsQ, Closed(ui))
    /\ cancels' = Cleanup(login)
    /\ UNCHANGED <<login, sessions, relay>>

\* A refusal is kept for the end, and does not stop what follows.  When none was
\* added the form stays, also when it is for a single request.
importCredentials(c) ==
    LET added == c.ok \/ c.row.added
        next == ImportReq(c.row.form, c.n, c.row.left - 1, added)
    IN  /\ Answered(c, {"import"})
        /\ IF c.row.left > 1 \/ ~added
           THEN /\ Settle(c, IF c.row.left > 1 THEN {next} ELSE {}, {}, ui)
                /\ UNCHANGED loginVars
           ELSE onDone(c)

-----------------------------------------------------------------------------
(* One request each. *)

\* Lines, or the elements of a JSON value; what is not understood is skipped.
parseCredentials(text) == Understood(text)

\* With nothing to import, nothing is sent.
useCredentialImport(methods, items) == items > 0 /\ Import(methods, items)

CredentialsForm ==
    \E text \in Texts : useCredentialImport({"credentials"}, parseCredentials(text))

\* Two of the four channels need a client file as well.
parseLocal(idc, token, client) == IF token /\ (idc => client) THEN 1 ELSE 0

LocalCacheForm ==
    \E idc, token, client \in BOOLEAN :
        useCredentialImport({"local"}, parseLocal(idc, token, client))

CookieForm == useCredentialImport({"cookie"}, 1)

CompatForm ==
    \E keyList \in Texts : Import({"openaiCompat", "anthropicCompat"}, Len(keyList))

-----------------------------------------------------------------------------
(* One request for all. *)

SsoTokenForm == Import({"ssotoken"}, 1)

\* JSON as a whole, else line by line; a line that is not JSON is taken as it is.
creds(text, json) == IF json THEN Understood(text) ELSE Len(text)

\* The server is sent the text, and reads it again.
CodeBuddyForm ==
    \E text \in Texts, json \in BOOLEAN : creds(text, json) > 0 /\ Import({"codebuddy"}, 1)

GrokImportForm == Import({"grokImport"}, 1)

CodexImportForm == Import({"codexImport"}, 1)

ClinepassImportForm == Import({"clinepassImport"}, 1)

OpenCodeTokenImportForm ==
    Import({"opencodeZenImport", "opencodeGoImport", "commandCodeImport"}, 1)

-----------------------------------------------------------------------------

ImportSteps ==
    \/ CredentialsForm \/ LocalCacheForm \/ CookieForm \/ CompatForm
    \/ SsoTokenForm \/ CodeBuddyForm \/ GrokImportForm \/ CodexImportForm
    \/ ClinepassImportForm \/ OpenCodeTokenImportForm

AddTake(c) == TakeAfterAdd(c) \/ importCredentials(c)
=============================================================================
