----------------------------- MODULE WikiClient -----------------------------
(***************************************************************************)
(* One browser tab on one page of a project's wiki, and the page itself.   *)
(* A page is a row of versions kept by the data service; the tab keeps     *)
(* drafts in a local database, an editor with a working copy, an autosave  *)
(* timer, and the answers of the calls it made: publish, refresh, restore. *)
(* Calls close over the draft and the text of the moment they were made.   *)
(*                                                                         *)
(* A text is [n, saw]: n is the keystroke that made it (0: not typed here) *)
(* and saw the number of versions of other people it builds on.  A local   *)
(* database write and the reload after it are one step.  One page, one     *)
(* title: renaming and images are left out.                                *)
(***************************************************************************)
EXTENDS Naturals, Sequences

CONSTANTS MaxTyped,     \* keystrokes in the tab
          MaxOthers,    \* versions published by other people
          MaxCalls      \* publishes, refreshes and restores made by the tab

VARIABLES
  versions,   \* the texts published, oldest first; empty: no page
  drafts,     \* key -> draft or NoDraft (the local database)
  tipListed,  \* the tip in the cached page list, 0 when the page is not in it
  content,    \* the cached text of the page, or NoText
  view,       \* what the right pane shows: a draft's key, "remote" or "none"
  editing,    \* the draft in the editor, or NoKey
  working,    \* the editor's text
  saved,      \* the editor says "saved locally"
  timer,      \* the draft captured by the pending autosave, or NoDraft
  pub,        \* the publish under way, or NoCall
  refresh,    \* the refresh under way, or NoCall
  history,    \* the tip the history dialog was opened on, 0 when closed
  restore,    \* the restore under way, or NoCall
  strokes, others, asked

tab == <<view, editing, working, saved, timer>>
bounds == <<strokes, others, asked>>
vars == <<versions, drafts, tipListed, content, tab, pub, refresh, history,
          restore, bounds>>

Keys    == {"new", "page"}     \* a page begun here; a page pulled down
NoKey   == "none"
NoText  == [n |-> 0, saw |-> MaxOthers + 1]
NoDraft == [status |-> "absent"]
NoCall  == [at |-> "idle"]
NewText == [n |-> 0, saw |-> 0]
Texts   == [n : 0..MaxTyped, saw : 0..MaxOthers]
Tip     == Len(versions)
MaxTip  == MaxOthers + MaxCalls
Draft(text, base, status) == [text |-> text, base |-> base, status |-> status]
Drafts  == [text : Texts, base : 0..MaxTip, status : {"draft", "published", "modified"}]

Linked(k) == drafts[k] # NoDraft /\ drafts[k].base # 0
Modal     == history # 0                    \* the dialog covers the page
Free      == ~Modal                         \* a click reaches the page
InReader(k) == Free /\ editing = NoKey /\ view = k /\ drafts[k] # NoDraft

Init ==
  /\ versions = <<>>
  /\ drafts = [k \in Keys |-> NoDraft]
  /\ tipListed = 0 /\ content = NoText
  /\ view = "none" /\ editing = NoKey /\ working = NewText /\ saved = TRUE
  /\ timer = NoDraft
  /\ pub = NoCall /\ refresh = NoCall /\ history = 0 /\ restore = NoCall
  /\ strokes = 0 /\ others = 0 /\ asked = 0

-----------------------------------------------------------------------------
(* The page list and the page's text.                                      *)

\* Tab opened, window focused, a row selected, or a write settled.
RefetchPages ==
  /\ tipListed # Tip
  /\ tipListed' = Tip
  /\ UNCHANGED <<versions, drafts, content, tab, pub, refresh, history, restore, bounds>>

\* The published reader loads the text when it has none or an old one.
ReadPage ==
  /\ Free /\ view = "remote" /\ tipListed # 0
  /\ content' = versions[Tip]
  /\ UNCHANGED <<versions, drafts, tipListed, tab, pub, refresh, history, restore, bounds>>

\* The editor closes, its timer with it; its text is not read again.
leaveEditor == /\ editing' = NoKey /\ timer' = NoDraft
               /\ working' = NewText /\ saved' = TRUE

\* A row of the sidebar: a draft, or the page when no draft is linked to it.
Select(v) ==
  /\ Free
  /\ view # v \/ editing # NoKey
  /\ \/ v \in Keys /\ drafts[v] # NoDraft
     \/ v = "remote" /\ tipListed # 0 /\ \A k \in Keys : ~Linked(k)
  /\ view' = v /\ leaveEditor
  /\ UNCHANGED <<versions, drafts, tipListed, content, pub, refresh, history,
                 restore, bounds>>

-----------------------------------------------------------------------------
(* Drafts and the editor.                                                  *)

beginEdit(k, d) ==
  /\ editing' = k /\ view' = k /\ working' = d.text /\ saved' = TRUE
  /\ timer' = NoDraft

\* The code gives each new page a key of its own: no call under way names it.
handleNew ==
  /\ Free /\ drafts["new"] = NoDraft
  /\ pub # NoCall => pub.key # "new"
  /\ refresh # NoCall => refresh.key # "new"
  /\ LET d == Draft(NewText, 0, "draft")
     IN drafts' = [drafts EXCEPT !["new"] = d] /\ beginEdit("new", d)
  /\ UNCHANGED <<versions, tipListed, content, pub, refresh, history, restore, bounds>>

\* "Edit as draft": the cached text under the listed tip.
importPage ==
  /\ Free /\ view = "remote" /\ content # NoText /\ tipListed # 0
  /\ \A k \in Keys : ~Linked(k)
  /\ LET d == Draft(content, tipListed, "published")
     IN drafts' = [drafts EXCEPT !["page"] = d] /\ beginEdit("page", d)
  /\ UNCHANGED <<versions, tipListed, content, pub, refresh, history, restore, bounds>>

Edit(k) ==
  /\ InReader(k)
  /\ beginEdit(k, drafts[k])
  /\ UNCHANGED <<versions, drafts, tipListed, content, pub, refresh, history, restore, bounds>>

handleDelete(k) ==
  /\ InReader(k)
  /\ drafts' = [drafts EXCEPT ![k] = NoDraft]
  /\ view' = "none"
  /\ UNCHANGED <<versions, tipListed, content, editing, working, saved, timer,
                 pub, refresh, history, restore, bounds>>

\* A keystroke restarts the timer, which captures the draft as it is now.
Type ==
  /\ Free /\ editing # NoKey /\ strokes < MaxTyped
  /\ strokes' = strokes + 1
  /\ working' = [working EXCEPT !.n = strokes + 1]
  /\ timer' = drafts[editing] /\ saved' = FALSE
  /\ UNCHANGED <<versions, drafts, tipListed, content, view, editing, pub,
                 refresh, history, restore, others, asked>>

\* The draft `base` with the editor's text.
Edited(base) == Draft(working, base.base, IF base.base # 0 THEN "modified" ELSE "draft")

Autosave ==
  /\ timer # NoDraft
  /\ drafts' = [drafts EXCEPT ![editing] = Edited(timer)]
  /\ timer' = NoDraft /\ saved' = TRUE
  /\ UNCHANGED <<versions, tipListed, content, view, editing, working, pub,
                 refresh, history, restore, bounds>>

closeEditor ==
  /\ Free /\ editing # NoKey
  /\ drafts' = IF drafts[editing].text # working
               THEN [drafts EXCEPT ![editing] = Edited(drafts[editing])]
               ELSE drafts
  /\ leaveEditor
  /\ UNCHANGED <<versions, tipListed, content, view, pub, refresh, history,
                 restore, bounds>>

-----------------------------------------------------------------------------
(* Publish: the tip is compared, then the file uploaded.                   *)

handlePublish ==
  /\ Free /\ editing # NoKey /\ pub = NoCall /\ asked < MaxCalls
  /\ asked' = asked + 1
  /\ pub' = [at |-> "sent", key |-> editing, draft |-> drafts[editing],
             text |-> working, force |-> FALSE, version |-> 0]
  /\ UNCHANGED <<versions, drafts, tipListed, content, tab, refresh, history,
                 restore, strokes, others>>

\* A linked page must still be at the draft's base; a new one must not exist.
\* A refusal (409) is asked about at once: sent again with force, or left.
Conflict(force, base) == ~force /\ Tip # base

PublishWikiPage ==
  /\ pub.at = "sent"
  /\ IF Conflict(pub.force, pub.draft.base)
     THEN pub' \in {NoCall, [pub EXCEPT !.force = TRUE]}
     ELSE pub' = [pub EXCEPT !.at = "checked"]
  /\ UNCHANGED <<versions, drafts, tipListed, content, tab, refresh, history,
                 restore, bounds>>

\* A new page is a new file, which the data service refuses under a name that
\* has come into use since the check.
PublishUploads ==
  /\ pub.at = "checked"
  /\ Conflict(pub.force, pub.draft.base) => pub.draft.base # 0
  /\ versions' = Append(versions, pub.text)
  /\ pub' = [pub EXCEPT !.at = "done", !.version = Tip + 1]
  /\ UNCHANGED <<drafts, tipListed, content, tab, refresh, history, restore, bounds>>

\* The draft of the click is relinked, with the text of the click.
Published ==
  /\ pub.at = "done"
  /\ drafts' = [drafts EXCEPT ![pub.key] = Draft(pub.text, pub.version, "published")]
  /\ saved' = TRUE
  /\ pub' = NoCall
  /\ UNCHANGED <<versions, tipListed, content, view, editing, working, timer,
                 refresh, history, restore, bounds>>

\* The call fails, before or after its upload: an alert, nothing else.
PublishFails ==
  /\ pub.at \in {"sent", "checked", "done"}
  /\ pub' = NoCall
  /\ UNCHANGED <<versions, drafts, tipListed, content, tab, refresh, history,
                 restore, bounds>>

-----------------------------------------------------------------------------
(* Refresh: the live text under the tip listed when the button was pressed. *)
(* It says "take latest" over a draft with edits, "update" over a clean one.*)

Behind(k) == Linked(k) /\ tipListed # 0 /\ tipListed # drafts[k].base

handleRefresh(k) ==
  /\ InReader(k) /\ Behind(k) /\ refresh = NoCall /\ asked < MaxCalls
  /\ asked' = asked + 1
  /\ refresh' = [at |-> "sent", key |-> k, tip |-> tipListed, draft |-> drafts[k]]
  /\ UNCHANGED <<versions, drafts, tipListed, content, tab, pub, history,
                 restore, strokes, others>>

\* It answers with the text of now, or fails.
Refreshed ==
  /\ refresh.at = "sent"
  /\ refresh' = NoCall
  /\ drafts' \in {drafts, [drafts EXCEPT ![refresh.key] =
                             Draft(versions[Tip], refresh.tip, "published")]}
  /\ UNCHANGED <<versions, tipListed, content, tab, pub, history, restore, bounds>>

-----------------------------------------------------------------------------
(* History and restore.                                                    *)

openHistory ==
  /\ Free /\ editing = NoKey /\ tipListed # 0
  /\ view = "remote" \/ (view \in Keys /\ Linked(view))
  /\ history' = tipListed
  /\ UNCHANGED <<versions, drafts, tipListed, content, tab, pub, refresh,
                 restore, bounds>>

closeHistory ==
  /\ Modal /\ restore = NoCall
  /\ history' = 0
  /\ UNCHANGED <<versions, drafts, tipListed, content, tab, pub, refresh,
                 restore, bounds>>

confirmRestore(v) ==
  /\ Modal /\ restore = NoCall /\ asked < MaxCalls
  /\ v \in 1..Tip /\ v # history
  /\ asked' = asked + 1
  /\ restore' = [at |-> "sent", version |-> v, force |-> FALSE, tip |-> 0]
  /\ UNCHANGED <<versions, drafts, tipListed, content, tab, pub, refresh,
                 history, strokes, others>>

\* Restoring the tip itself is an error; a moved tip is a conflict.
RestoreWikiPageVersion ==
  /\ restore.at = "sent"
  /\ CASE restore.version = Tip -> restore' = NoCall
       [] restore.version # Tip /\ Conflict(restore.force, history) ->
            restore' \in {NoCall, [restore EXCEPT !.force = TRUE]}
       [] OTHER -> restore' = [restore EXCEPT !.at = "checked"]
  /\ UNCHANGED <<versions, drafts, tipListed, content, tab, pub, refresh,
                 history, bounds>>

RestoreUploads ==
  /\ restore.at = "checked"
  /\ versions' = Append(versions, versions[restore.version])
  /\ restore' = [restore EXCEPT !.at = "done", !.tip = Tip + 1]
  /\ UNCHANGED <<drafts, tipListed, content, tab, pub, refresh, history, bounds>>

\* A draft without edits of its own takes the restored text as its base.
Adopts_Always(k) == Linked(k)
Adopts(k) == Linked(k) /\ drafts[k].status # "modified"

Restored ==
  /\ restore.at = "done"
  /\ LET text == versions[restore.version] IN
     /\ content' = text
     /\ IF \E k \in Keys : Adopts(k)
        THEN \E k \in Keys : Adopts(k) /\
               drafts' = [drafts EXCEPT ![k] = Draft(text, restore.tip, "published")]
        ELSE drafts' = drafts
  /\ restore' = NoCall /\ history' = 0
  /\ UNCHANGED <<versions, tipListed, tab, pub, refresh, bounds>>

RestoreFails ==
  /\ restore.at \in {"sent", "checked", "done"}
  /\ restore' = NoCall
  /\ UNCHANGED <<versions, drafts, tipListed, content, tab, pub, refresh,
                 history, bounds>>

-----------------------------------------------------------------------------
\* Another device publishes on top of the tip.
OtherPublishes ==
  /\ others < MaxOthers
  /\ others' = others + 1
  /\ versions' = Append(versions, [n |-> 0, saw |-> others + 1])
  /\ UNCHANGED <<drafts, tipListed, content, tab, pub, refresh, history,
                 restore, strokes, asked>>

User ==
  \/ \E v \in Keys \cup {"remote"} : Select(v)
  \/ handleNew \/ importPage \/ Type \/ closeEditor \/ handlePublish
  \/ \E k \in Keys : Edit(k) \/ handleDelete(k) \/ handleRefresh(k)
  \/ openHistory \/ closeHistory
  \/ \E v \in 1..Tip : confirmRestore(v)

Answers ==
  \/ RefetchPages \/ ReadPage \/ Autosave
  \/ PublishWikiPage \/ PublishUploads \/ Published \/ PublishFails
  \/ Refreshed
  \/ RestoreWikiPageVersion \/ RestoreUploads \/ Restored \/ RestoreFails

Next == User \/ Answers \/ OtherPublishes

Spec     == Init /\ [][Next]_vars
FairSpec == Spec /\ WF_vars(Autosave)

-----------------------------------------------------------------------------
(* Properties.                                                             *)

\* Every draft names a version the page has, or none, and its status says
\* which; the timer only runs under an open editor (WikiApp's autosave effect).
TypeOK ==
  /\ versions \in Seq(Texts) /\ Tip <= MaxTip
  /\ drafts \in [Keys -> Drafts \cup {NoDraft}]
  /\ \A k \in Keys : drafts[k] # NoDraft =>
       /\ drafts[k].base \in 0..Tip
       /\ (drafts[k].status = "draft") <=> (drafts[k].base = 0)
  /\ editing \in Keys \cup {NoKey} /\ view \in Keys \cup {NoKey, "remote"}
  /\ timer # NoDraft => editing # NoKey

\* Text typed here, stored and not yet published leaves the local database
\* only for newer text, by the user's delete or "take latest", or because it
\* was typed while the answer of a publish or a refresh was awaited: never by a
\* restore, an import or an autosave, nor by an answer for another draft.
Unpublished(k) == /\ drafts[k] # NoDraft /\ drafts[k].text.n # 0
                  /\ \A i \in 1..Tip : versions[i] # drafts[k].text
RefreshAnswers(k) == refresh # NoCall /\ refresh' = NoCall /\ refresh.key = k
PublishAnswers(k) == pub # NoCall /\ pub' = NoCall /\ pub.key = k
EditsSurvive ==
  [][\A k \in Keys :
       (Unpublished(k) /\ drafts'[k] # drafts[k]) =>
          \/ drafts'[k] # NoDraft /\ drafts'[k].text.n >= drafts[k].text.n
          \/ view = k /\ drafts'[k] = NoDraft
          \/ /\ RefreshAnswers(k)
             /\ refresh.draft.status = "modified" \/ drafts[k].text # refresh.draft.text
          \/ PublishAnswers(k) /\ drafts[k].text.n > pub.text.n]_vars

\* What the code does not keep, although the comment at handleRefresh says it:
\* an update asked for over a clean draft has nothing local to lose.
SafeUpdateLosesNothing ==
  [][\A k \in Keys :
       (RefreshAnswers(k) /\ refresh.draft.status # "modified" /\ Unpublished(k)) =>
          drafts'[k] = drafts[k]]_vars

\* What the code does not keep: a publish nobody forced replaces a version
\* whose text its author never saw (the base is the listed tip, the text the
\* cached one; and the tip is compared before the upload, not with it).
NoBlindOverwrite ==
  [][(pub.at = "checked" /\ pub'.at = "done" /\ ~pub.force /\ Tip # 0) =>
       pub.text.saw >= versions[Tip].saw]_vars

\* What the code does not keep: "saved" while the database has other text.
SavedMeansStored ==
  (editing # NoKey /\ saved) => drafts[editing].text = working
=============================================================================
