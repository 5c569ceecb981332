---------------------------- MODULE MCWebActions ----------------------------
(***************************************************************************)
(* Three parts of a browser tab that share no state: uploads (Uploads),    *)
(* the overlay of a file drag (FileDrag) and what a document can be asked  *)
(* for (FusionActions).  A behaviour is about the one named by part; the   *)
(* others stand still in one of their initial states.                      *)
(***************************************************************************)
EXTENDS Naturals

CONSTANTS None, NoData,
          Files, Folders, Slots, UploadBudgets,           \* of Uploads
          MaxDepth, MaxDrops                              \* of FileDrag

VARIABLES part,
  place, chosen, batch, post, errors, uploads, upList, upSeen, upCalls, listing, contents,
  told, blind, early, upLeft,
  drag, files, target, dragActive, depth, internal, idle, missed, dropped,
  loops, pending, feedback, tickets, helper, starts, archives, arList, arSeen, bell,
  saving, inbox, notifs, left

\* A behaviour of the uploads is two of them, or one that is cancelled or
\* dismissed, with a change of folder or a failure, or one with two failures.
MCUploads == {[posts |-> 2, calls |-> 0, fails |-> 0, moves |-> 0],
              [posts |-> 1, calls |-> 1, fails |-> 0, moves |-> 1],
              [posts |-> 1, calls |-> 1, fails |-> 1, moves |-> 0],
              [posts |-> 1, calls |-> 0, fails |-> 2, moves |-> 0]}
\* One upload, nothing dismissed, and two failures.
MCUnseen == {[posts |-> 1, calls |-> 0, fails |-> 2, moves |-> 0]}
\* Two actions or two archives on a document, or one with a failure.
MCActions == {[actions |-> 2, archives |-> 0, opens |-> 0, fails |-> 0],
              [actions |-> 1, archives |-> 0, opens |-> 0, fails |-> 1],
              [actions |-> 0, archives |-> 1, opens |-> 1, fails |-> 1],
              [actions |-> 0, archives |-> 2, opens |-> 0, fails |-> 0]}

Up   == INSTANCE Uploads WITH
          Budgets <- UploadBudgets,
          pending <- chosen, jobs <- uploads, list <- upList, seen <- upSeen,
          calls <- upCalls, left <- upLeft
Drag == INSTANCE FileDrag
Fus  == INSTANCE FusionActions WITH
          Docs <- {"doc"}, Slots <- 1, Budgets <- MCActions,
          jobs <- archives, list <- arList, seen <- arSeen

upVars   == <<place, chosen, batch, post, errors, uploads, upList, upSeen, upCalls, listing,
              contents, told, blind, early, upLeft>>
dragVars == <<drag, files, target, dragActive, depth, internal, idle, missed, dropped>>
fusVars  == <<loops, pending, feedback, tickets, helper, starts, archives, arList, arSeen,
              bell, saving, inbox, notifs, left>>

ActionsInit ==
  /\ part \in {"upload", "drag", "fusion"}
  /\ Up!Init /\ Drag!Init /\ Fus!Init
  /\ part # "upload"  => upLeft.posts = 2
  /\ part # "drag"    => target = FALSE
  /\ part # "fusion"  => left.actions = 2

UploadStep  == part = "upload" /\ Up!Next /\ UNCHANGED <<dragVars, fusVars, part>>
DragStep    == part = "drag" /\ Drag!Next /\ UNCHANGED <<upVars, fusVars, part>>
FusionStep  == part = "fusion" /\ Fus!Next /\ UNCHANGED <<upVars, dragVars, part>>

ActionsSpec ==
  /\ ActionsInit
  /\ [][UploadStep \/ DragStep \/ FusionStep]_<<upVars, dragVars, fusVars, part>>
  \* The fairness is that of each part's FairSpec.
  /\ WF_upVars(part = "upload" /\ Up!Poll)
  /\ WF_upVars(part = "upload" /\ Up!ServeList)
  /\ WF_upVars(part = "upload" /\ Up!ApplyList)
  /\ WF_upVars(part = "upload" /\ Up!Accepted)
  /\ WF_upVars(part = "upload" /\ Up!Runs)
  /\ WF_fusVars(part = "fusion" /\ Fus!Asks("doc"))
  /\ WF_fusVars(part = "fusion" /\ Fus!Hands("doc"))
  /\ WF_fusVars(part = "fusion" /\ Fus!Runs)
  /\ WF_fusVars(part = "fusion" /\ Fus!PollNotifs)
  /\ WF_fusVars(part = "fusion" /\ Fus!ServeNotifs)
  /\ WF_fusVars(part = "fusion" /\ Fus!ApplyNotifs)

\* What an upload leaves in its folder, see Uploads.
LandedShows == Up!LandedShows

\* What the overlay promises, see FileDrag.
OverlayGuarded == Drag!OverlayGuarded

\* What has been started is seen to end: an upload by the tab, so that its folder
\* is read again (Noticed of Uploads), an action handed to the helper and an
\* archive (ActionsEnd and ArchiveAnnounced of FusionActions).
EndsAreSeen ==
  /\ part = "upload" => Up!Noticed
  /\ part = "fusion" => Fus!ActionsEnd /\ Fus!ArchiveAnnounced

\* The same of uploads without the exceptions of Noticed, see AllNoticed of Uploads.
UploadsSeen == part = "upload" => Up!AllNoticed
=============================================================================
