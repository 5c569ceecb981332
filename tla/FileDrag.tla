------------------------------ MODULE FileDrag ------------------------------
(***************************************************************************)
(* Dragging files over the window (web/src/state/uploads.tsx): the overlay *)
(* that covers the app while a drop would be taken.  The browser reports   *)
(* entering and leaving each element; the end of a drag may be heard by    *)
(* nobody: a subtree keeps the drop to itself, the source of an in-app     *)
(* drag is unmounted, or the drag is given up outside the window.          *)
(***************************************************************************)
EXTENDS Naturals

CONSTANTS MaxDepth, MaxDrops    \* elements entered, drops taken

VARIABLES
    drag,        \* the drag under way: none, of files, or of an element of the app
    files,       \* the browser says that the drag has files
    target,      \* a folder that takes files is on screen
    dragActive, depth, internal,
    idle,        \* the watchdog's timer is running
    missed,      \* history: an in-app drag whose end was not heard, and no press since
    dropped      \* drops taken

vars == <<drag, files, target, dragActive, depth, internal, idle, missed, dropped>>

Init ==
    /\ drag = "none" /\ files = FALSE /\ target \in BOOLEAN
    /\ dragActive = FALSE /\ depth = 0 /\ internal = FALSE /\ idle = FALSE
    /\ missed = FALSE /\ dropped = 0

stop == depth' = 0 /\ idle' = FALSE /\ dragActive' = FALSE
Calm == UNCHANGED <<dragActive, depth, idle>>
Same == UNCHANGED <<drag, files, target, internal, missed, dropped>>

isFileDrag == ~internal /\ files
Takes(owned) == isFileDrag /\ target /\ ~owned

\* The place shown changes: under a drag only by itself (a lookup ends).
Navigate ==
    /\ target' = ~target
    /\ Calm /\ UNCHANGED <<drag, files, internal, missed, dropped>>

\* Files from outside come over the window, without an event of their own.
FilesCome ==
    /\ drag = "none"
    /\ drag' = "files" /\ files' = TRUE
    /\ Calm /\ UNCHANGED <<target, internal, missed, dropped>>

\* A drag of an element of the app; an image has files in it as well.
onDragStart ==
    /\ drag = "none"
    /\ drag' = "element" /\ files' \in BOOLEAN
    /\ internal' = TRUE /\ stop
    /\ UNCHANGED <<target, missed, dropped>>

\* The end of a drag is reported to its source, if that is still there.
onDragEnd ==
    /\ drag = "element"
    /\ drag' = "none" /\ files' = FALSE
    /\ internal' = FALSE /\ stop
    /\ UNCHANGED <<target, missed, dropped>>
EndUnheard ==
    /\ drag # "none"
    /\ drag' = "none" /\ files' = FALSE
    /\ missed' = (missed \/ drag = "element")
    /\ Calm /\ UNCHANGED <<target, internal, dropped>>

\* A press is only reported while nothing is dragged.
onPointerDown ==
    /\ drag = "none"
    /\ internal' = FALSE /\ missed' = FALSE
    /\ Calm /\ UNCHANGED <<drag, files, target, dropped>>

onDragEnter_NoTimer(owned) ==
    /\ drag # "none" /\ Takes(owned) /\ depth < MaxDepth
    /\ depth' = depth + 1 /\ dragActive' = TRUE
    /\ UNCHANGED idle /\ Same
onDragEnter(owned) ==
    /\ drag # "none" /\ Takes(owned) /\ depth < MaxDepth
    /\ depth' = depth + 1 /\ idle' = TRUE /\ dragActive' = TRUE
    /\ Same

onDragOver(owned) ==
    /\ drag # "none" /\ Takes(owned) /\ depth > 0
    /\ idle' = TRUE
    /\ UNCHANGED <<dragActive, depth>> /\ Same

onDragLeave ==
    /\ drag # "none" /\ isFileDrag
    /\ IF depth > 1 THEN depth' = depth - 1 /\ UNCHANGED <<dragActive, idle>> ELSE stop
    /\ Same

\* A drop that reaches the window; what is dropped ends the drag.
onDrop(owned) ==
    /\ drag # "none" /\ dropped < MaxDrops
    /\ stop
    /\ drag' = "none" /\ files' = FALSE
    /\ dropped' = dropped + (IF Takes(owned) THEN 1 ELSE 0)
    /\ internal' = (internal /\ drag # "element")
    /\ UNCHANGED <<target, missed>>

\* No dragover for 1.2 s.
Watchdog == idle /\ stop /\ Same

Next ==
    \/ Navigate \/ FilesCome \/ onDragStart \/ onDragEnd \/ EndUnheard \/ onPointerDown
    \/ \E owned \in BOOLEAN : onDragEnter(owned) \/ onDragOver(owned) \/ onDrop(owned)
    \/ onDragLeave \/ Watchdog

Spec == Init /\ [][Next]_vars

-----------------------------------------------------------------------------
TypeOK ==
    /\ drag \in {"none", "files", "element"}
    /\ {files, target, dragActive, internal, idle, missed} \subseteq BOOLEAN
    /\ depth \in 0..MaxDepth /\ dropped \in 0..MaxDrops

\* The overlay has no controls, so it may not stay: whatever end of the drag
\* was not heard, the watchdog is running while it is up.  And files from
\* outside are taken for such, unless the end of an in-app drag went unheard
\* and nothing was pressed since.
OverlayGuarded ==
    /\ dragActive => idle /\ depth > 0
    /\ drag = "files" /\ internal => missed
=============================================================================
