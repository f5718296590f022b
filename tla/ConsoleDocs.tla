------------------------------- MODULE ConsoleDocs ------------------------------
(***************************************************************************)
(* The documentation site (pages/docs), which the same program serves to   *)
(* anybody under /docs.  It is one page that follows the address: links    *)
(* push an entry on the browser's history, and back and forward bring the  *)
(* entries again.                                                          *)
(*                                                                         *)
(* A page's slug is a row; a Spare row in an address names no page.  What  *)
(* the pages say is left out.                                              *)
(***************************************************************************)
EXTENDS ConsoleCore, Sequences

PAGES == Rows \ Spare

DEFAULT_SLUG == CHOOSE s \in PAGES : TRUE

slugFromPath(path) == IF path \in PAGES THEN path ELSE DEFAULT_SLUG

\* ui.open is the slug of the article shown.  In ui.draft, the history and the place
\* in it, whether a key is typed (and so in the session's storage), the text that
\* was copied last, and whether a copy button still says so.
DocsUi(path) ==
    [QuietUi EXCEPT !.kind = "en", !.open = slugFromPath(path),
                    !.draft = [entries |-> <<path>>, at |-> 1, key |-> FALSE,
                               text |-> "none", copied |-> FALSE]]

Address(d) == d.entries[d.at]

\* A new entry drops those ahead.  There are at most MaxClicks behind it.
Pushed(path) ==
    [ui.draft EXCEPT !.entries = Append(SubSeq(@, 1, ui.draft.at), path), !.at = @ + 1]

CanPush == ui.draft.at <= MaxClicks[page]

\* A reload, or a link the page leaves to the browser: everything starts anew from
\* the address, with what is in storage: the key, the language and the theme.
Load(d) ==
    /\ calls' = {}
    /\ ui' = [ui EXCEPT !.draft = [d EXCEPT !.copied = FALSE], !.busy = "none",
                        !.open = slugFromPath(Address(d))]
    /\ UNCHANGED <<page, store, cache, fetch, clicks, missed>>

navigate(s) ==
    /\ s # ui.open /\ CanPush
    /\ Touch([ui EXCEPT !.open = s, !.draft = Pushed(s)])

PickPage == \E s \in PAGES : navigate(s)

\* The list that replaces the menu on small screens.
SelectPage == \E s \in PAGES \ {ui.open} : navigate(s)

\* Followed the way links are.
OpenPath(path) == CanPush /\ Load(Pushed(path))

\* A link in the article: the browser's, when it names no page.
FollowLink ==
    \/ \E s \in PAGES : navigate(s)
    \/ \E path \in Rows \ PAGES : OpenPath(path)

\* The title leads to /docs, which names no page.
Title == \E path \in Spare : OpenPath(path)

\* A heading of the page in the table of contents: the same path again.
FollowHeading == CanPush /\ Touch([ui EXCEPT !.draft = Pushed(Address(ui.draft))])

\* Back and forward, not heard.
onPop_Never(d) == [ui EXCEPT !.draft = d]

onPop(d) == [ui EXCEPT !.draft = d, !.open = slugFromPath(Address(d))]

BackOrForward ==
    \E i \in {ui.draft.at - 1, ui.draft.at + 1} \cap DOMAIN ui.draft.entries :
       Touch(onPop([ui.draft EXCEPT !.at = i]))

Reload == Load(ui.draft)

TypeApiKey == Touch([ui EXCEPT !.draft.key = ~@])

\* A code block shows the key that is typed in place of the placeholder.
CodeText == IF ui.draft.key THEN "key" ELSE "placeholder"

\* The mark goes by itself; writing to the clipboard may fail.
CopyCode ==
    \/ Touch([ui EXCEPT !.draft.text = CodeText, !.draft.copied = TRUE])
    \/ ui.draft.copied /\ Touch([ui EXCEPT !.draft.copied = FALSE])

DocsSteps ==
    /\ On("docs")
    /\ \/ PickPage \/ SelectPage \/ FollowLink \/ Title \/ FollowHeading
       \/ BackOrForward \/ Reload \/ TypeApiKey \/ CopyCode
=============================================================================
