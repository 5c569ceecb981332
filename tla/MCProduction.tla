---------------------------- MODULE MCProduction ----------------------------
(***************************************************************************)
(* The production jobs: the store that keeps them (ProductionStore) and    *)
(* the editor that shows and edits one (JobEditor), each on its own.  A    *)
(* behaviour is about the one named by part; the other stands still.       *)
(***************************************************************************)
EXTENDS ProductionStore

CONSTANTS NoData, MaxEdits, MaxCalls, MaxFails
VARIABLES part,
  server, entry, text, typed, focus, drag, dragPos, selected, calls, mine, lost, used

Editor == INSTANCE JobEditor
editorVars == <<server, entry, text, typed, focus, drag, dragPos, selected, calls, mine,
                lost, used>>

ProductionInit == part \in {"store", "editor"} /\ Init /\ Editor!Init
StoreStep  == part = "store" /\ Next /\ UNCHANGED <<editorVars, part>>
\* Edits and calls are bounded together too: three of them.
EditorStep == /\ part = "editor" /\ Editor!Next /\ UNCHANGED <<vars, part>>
              /\ used'.edits + used'.calls <= MaxCalls + 1

\* The fairness is that of the editor's FairSpec.
ProductionSpec ==
  /\ ProductionInit /\ [][StoreStep \/ EditorStep]_<<vars, editorVars, part>>
  /\ WF_editorVars(part = "editor" /\ Editor!Poll)
  /\ WF_editorVars(part = "editor" /\ Editor!ServePoll)
  /\ WF_editorVars(part = "editor" /\ Editor!ApplyPoll)

\* What the editor promises, see JobEditor.
GesturesLand == Editor!GesturesLand
TypingKept   == Editor!TypingKept
JobConverges == part = "editor" => Editor!JobConverges
=============================================================================
