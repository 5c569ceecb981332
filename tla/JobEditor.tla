----------------------------- MODULE JobEditor -----------------------------
(***************************************************************************)
(* One job open in the production editor (production/JobDetail.tsx,        *)
(* JobCanvas.tsx, StepEditor.tsx). The job is one entry of the query cache *)
(* (QueryCache): the poll reads it, and every edit answers with the whole  *)
(* job, which replaces it. On top of that the editor keeps what the server *)
(* has not seen yet: the text of the field being typed in, the position a  *)
(* dragged node is shown at, and the step the next one is chained to.      *)
(*                                                                         *)
(* The job here is a name, the title and the position of step 1, the steps *)
(* in the order they were added, and the edges. A value of a field is the  *)
(* number of the edit that made it, so two edits never write the same.     *)
(***************************************************************************)
EXTENDS QueryCache, Sequences, FiniteSets

CONSTANTS
    MaxEdits,    \* values written or typed, steps added by others
    MaxCalls,    \* mutations of this tab
    MaxFails     \* mutations that fail

VARIABLES
    server,      \* the job
    entry,       \* the tab's cache entry of it
    text,        \* what each text field holds, None when it shows the job's own
    typed,       \* fields typed into since they took their text
    focus,       \* the field with the caret
    drag,        \* the node under the mouse: moved or not
    dragPos,     \* the position shown instead of the job's
    selected,    \* the selected step
    calls,       \* mutations under way
    mine,        \* history: steps this tab's adds created
    lost,        \* history: a later call took the drag's callback
    used

vars == <<server, entry, text, typed, focus, drag, dragPos, selected, calls, mine, lost, used>>

None == MaxEdits + 100               \* no value, no step
Blank == MaxEdits + 101              \* a field emptied
Values == 0..MaxEdits
MainStep == 1

\* The fields: the job's name, the title in the drawer of the selected step,
\* and the title in place on the canvas.
Fields == {"name", "drawer", "node"}
Nowhere == "none"
Target(f) == IF f = "name" THEN "name" ELSE "title"
Hook(f) == IF f = "name" THEN "updateJob" ELSE "updateStep"

Steps(j) == {j.steps[i] : i \in 1..Len(j.steps)}
Loaded == entry.data # NoData
Job == entry.data
SelectedStep == IF Loaded /\ selected \in Steps(Job) THEN selected ELSE None

-----------------------------------------------------------------------------
Init ==
    /\ server = [name |-> 0, title |-> 0, pos |-> 0, steps |-> <<MainStep>>, edges |-> {}]
    /\ entry = Ask(Empty)
    /\ text = [f \in Fields |-> None] /\ typed = {} /\ focus = Nowhere
    /\ drag = "no" /\ dragPos = None /\ selected = None
    /\ calls = {} /\ mine = {} /\ lost = FALSE
    /\ used = [edits |-> 0, steps |-> MainStep, calls |-> 0, fails |-> 0]

Edited == used.edits + 1
CountEdit == used' = [used EXCEPT !.edits = @ + 1]

\* The drawer's fields are seeded when another step is selected (and only then:
\* a refetch must not clobber what is being typed), the others when they open.
Seeded_OnEveryAnswer(was, e, sel) ==
    IF sel = MainStep /\ e.data # NoData /\ MainStep \in Steps(e.data)
    THEN [text EXCEPT !["drawer"] = e.data.title] ELSE [text EXCEPT !["drawer"] = None]
Seeded(was, e, sel) ==
    IF sel = MainStep /\ e.data # NoData /\ MainStep \in Steps(e.data)
    THEN IF was = MainStep THEN text ELSE [text EXCEPT !["drawer"] = e.data.title]
    ELSE [text EXCEPT !["drawer"] = None]

\* What becomes of the fields when the job shown or the selection changes. The
\* drawer and the node's field go with their step, without a blur.
Shown(e, sel) ==
    /\ entry' = e /\ selected' = sel
    /\ LET t    == Seeded(SelectedStep, e, sel)
           gone == {f \in Fields : f # "name" /\ t[f] # None
                                   /\ ~(e.data # NoData /\ MainStep \in Steps(e.data))}
           s    == [f \in Fields |-> IF f \in gone THEN None ELSE t[f]]
       IN  /\ text' = s
           /\ typed' = {f \in typed : s[f] # None /\ ~(f = "drawer" /\ s[f] # text[f])}
           /\ focus' = IF focus # Nowhere /\ s[focus] = None THEN Nowhere ELSE focus

-----------------------------------------------------------------------------
(* The text fields. *)

\* The drawer shows step 1's title only while that step is selected.
Editable(f) ==
    /\ Loaded
    /\ f = "drawer" => SelectedStep = MainStep
    /\ f = "node" => MainStep \in Steps(Job)

Focus(f) ==
    /\ focus = Nowhere /\ drag = "no" /\ Editable(f)
    /\ focus' = f
    /\ text' = IF f = "drawer" THEN text ELSE [text EXCEPT ![f] = Job[Target(f)]]
    /\ typed' = typed \ {f}
    /\ UNCHANGED <<server, entry, drag, dragPos, selected, calls, mine, lost, used>>

Type(value) ==
    /\ focus # Nowhere /\ used.edits < MaxEdits
    /\ text' = [text EXCEPT ![focus] = value]
    /\ typed' = typed \union {focus}
    /\ CountEdit
    /\ UNCHANGED <<server, entry, focus, drag, dragPos, selected, calls, mine, lost>>

\* mutate: the callbacks given to the hook's earlier calls will not run any more.
Called(cs, hook, c) ==
    {[d EXCEPT !.callback = @ /\ d.hook # hook] : d \in cs} \union
    {[c EXCEPT !.id = used.calls + 1, !.hook = hook]}
Call(hook, c) ==
    /\ used.calls < MaxCalls
    /\ calls' = Called(calls, hook, c)
    /\ lost' = (lost \/ (hook = "updateStep" /\ \E d \in calls : d.kind = "pos" /\ d.callback))
    /\ used' = [used EXCEPT !.calls = @ + 1]
Body(kind, value, from) ==
    [id |-> 0, hook |-> "", kind |-> kind, value |-> value, from |-> from, callback |-> TRUE,
     st |-> "asked", ans |-> NoData]

\* A blank or unchanged text is not saved. The name and the node's field close
\* either way; the drawer keeps its text, or takes the job's back.
Closed(f, saved) ==
    IF f # "drawer" THEN [text EXCEPT ![f] = None]
    ELSE IF saved THEN text ELSE [text EXCEPT !["drawer"] = Job.title]
Blur ==
    /\ focus # Nowhere
    /\ LET value == text[focus]
           saved == value # Blank /\ value # Job[Target(focus)]
       IN  /\ text' = Closed(focus, saved)
           /\ IF saved
              THEN Call(Hook(focus), Body(Target(focus), value, None))
              ELSE UNCHANGED <<calls, lost, used>>
    /\ typed' = typed \ {focus} /\ focus' = Nowhere
    /\ UNCHANGED <<server, entry, drag, dragPos, selected, mine>>

\* Escape drops a rename in place.
Cancel ==
    /\ focus = "node"
    /\ text' = [text EXCEPT !["node"] = None] /\ typed' = typed \ {"node"} /\ focus' = Nowhere
    /\ UNCHANGED <<server, entry, drag, dragPos, selected, calls, mine, lost, used>>

-----------------------------------------------------------------------------
(* The canvas. Pressing a node saves the field with the caret first.       *)

Press ==
    /\ focus = Nowhere /\ drag = "no" /\ Loaded /\ MainStep \in Steps(Job)
    /\ drag' = "pressed"
    /\ UNCHANGED <<server, entry, text, typed, focus, dragPos, selected, calls, mine, lost, used>>

Move ==
    /\ drag # "no" /\ used.edits < MaxEdits
    /\ drag' = "moved" /\ dragPos' = Edited
    /\ CountEdit
    /\ UNCHANGED <<server, entry, text, typed, focus, selected, calls, mine, lost>>

\* endInteractions: a node that moved is saved and stays where it was dropped
\* until the call settles; otherwise the press selects it and the override, of
\* this drag or left over from another, is dropped. So is a drop right after an
\* earlier call of the same node has taken its override away.
Release ==
    /\ drag # "no"
    /\ IF drag = "moved" /\ dragPos # None
       THEN Call("updateStep", Body("pos", dragPos, None))
            /\ UNCHANGED <<entry, text, typed, focus, dragPos, selected>>
       ELSE dragPos' = None /\ Shown(entry, IF drag = "moved" THEN selected ELSE MainStep) /\ UNCHANGED <<calls, lost, used>>
    /\ drag' = "no"
    /\ UNCHANGED <<server, mine>>

\* The empty canvas: nothing is selected, and a field of the drawer is gone.
PressCanvas ==
    /\ drag = "no" /\ Loaded /\ focus # "node" /\ selected # None
    /\ Shown(entry, None) /\ dragPos' = None
    /\ UNCHANGED <<server, drag, calls, mine, lost, used>>

\* The + button chains the new step to the selected one, which may be gone.
AddStep ==
    /\ focus = Nowhere /\ drag = "no" /\ Loaded
    /\ Call("addStep", Body("add", None, SelectedStep))
    /\ UNCHANGED <<server, entry, text, typed, focus, drag, dragPos, selected, mine>>

RemoveStep ==
    /\ focus = Nowhere /\ drag = "no" /\ SelectedStep # None
    /\ ~\E c \in calls : c.kind = "remove"
    /\ Call("removeStep", Body("remove", None, SelectedStep))
    /\ UNCHANGED <<server, entry, text, typed, focus, drag, dragPos, selected, mine>>

-----------------------------------------------------------------------------
(* The server, where the calls of this tab and of others meet.             *)

NewStepId == used.steps + 1
WithoutStep(j, s) ==
    LET at == CHOOSE i \in 1..Len(j.steps) : j.steps[i] = s
    IN  [j EXCEPT !.steps = SubSeq(@, 1, at - 1) \o SubSeq(@, at + 1, Len(@)),
                  !.edges = {e \in @ : s \notin {e[1], e[2]}}]
Written(c) ==
    CASE c.kind = "name"   -> [server EXCEPT !.name = c.value]
      [] c.kind = "title"  -> [server EXCEPT !.title = c.value]
      [] c.kind = "pos"    -> [server EXCEPT !.pos = c.value]
      [] c.kind = "add"    -> [server EXCEPT !.steps = Append(@, NewStepId)]
      [] c.kind = "edge"   -> [server EXCEPT !.edges = @ \union {<<c.from, c.value>>}]
      [] c.kind = "remove" -> WithoutStep(server, c.from)
Accepts(c) ==
    CASE c.kind \in {"title", "pos"} -> MainStep \in Steps(server)
      [] c.kind = "edge"             -> {c.from, c.value} \subseteq Steps(server)
      [] c.kind = "remove"           -> c.from \in Steps(server)
      [] OTHER                       -> TRUE

Serve(c) ==
    /\ c.st = "asked" /\ Accepts(c)
    /\ server' = Written(c)
    /\ calls' = (calls \ {c}) \union {[c EXCEPT !.st = "served", !.ans = Written(c)]}
    /\ mine' = IF c.kind = "add" THEN mine \union {NewStepId} ELSE mine
    /\ used' = IF c.kind = "add" THEN [used EXCEPT !.steps = @ + 1] ELSE used
    /\ UNCHANGED <<entry, text, typed, focus, drag, dragPos, selected, lost>>

\* Somebody else edits the job. (A node they move is as a title they write.)
OthersEdit ==
    /\ used.edits < MaxEdits
    /\ \/ /\ \E f \in {"name", "title"} : server' = [server EXCEPT ![f] = Edited]
          /\ CountEdit
       \/ /\ server' = [server EXCEPT !.steps = Append(@, NewStepId)]
          /\ used' = [used EXCEPT !.edits = @ + 1, !.steps = @ + 1]
       \/ /\ MainStep \in Steps(server)
          /\ server' = WithoutStep(server, MainStep)
          /\ CountEdit
    /\ UNCHANGED <<entry, text, typed, focus, drag, dragPos, selected, calls, mine, lost>>

-----------------------------------------------------------------------------
(* Answers. *)

\* onSettled of a node move, if no later call of the hook took its place.
Unpinned_OnSuccessOnly(c, ok) == IF c.kind = "pos" /\ ok /\ c.callback THEN None ELSE dragPos
Unpinned(c, ok) == IF c.kind = "pos" /\ c.callback THEN None ELSE dragPos

\* The step an add created is the last of the answer.
Created_OfTheCache(c) == IF Job.steps = <<>> THEN MainStep ELSE Job.steps[Len(Job.steps)]
Created(c) == c.ans.steps[Len(c.ans.steps)]

\* The answer replaces the job in the cache. Then an add selects its step and
\* draws the edge to it; a removal closes the drawer, whichever step is in it.
Settle(c) ==
    /\ c.st = "served"
    /\ c.kind = "add" /\ c.from # None => used.calls < MaxCalls
    /\ Shown(SetData(entry, c.ans),
             IF c.kind = "add" /\ c.callback THEN Created(c)
             ELSE IF c.kind = "remove" /\ c.callback THEN None
             ELSE selected)
    /\ IF c.kind = "add" /\ c.callback /\ c.from # None
       THEN /\ calls' = Called(calls \ {c}, "addEdge", Body("edge", Created(c), c.from))
            /\ used' = [used EXCEPT !.calls = @ + 1]
       ELSE calls' = calls \ {c} /\ UNCHANGED used
    /\ dragPos' = Unpinned(c, TRUE)
    /\ UNCHANGED <<server, drag, mine, lost>>

\* Refused, or lost on the way there or back.
Fails(c) ==
    /\ used.fails < MaxFails \/ (c.st = "asked" /\ ~Accepts(c))
    /\ calls' = calls \ {c}
    /\ dragPos' = Unpinned(c, FALSE)
    /\ used' = IF used.fails < MaxFails THEN [used EXCEPT !.fails = @ + 1] ELSE used
    /\ UNCHANGED <<server, entry, text, typed, focus, drag, selected, mine, lost>>

\* The 15 s poll; one that would change nothing is left out.
Poll_UntilLoaded ==
    /\ ~InFlight(entry) /\ entry.data = NoData
    /\ entry' = Ask(entry)
    /\ UNCHANGED <<server, text, typed, focus, drag, dragPos, selected, calls, mine, lost, used>>
Poll ==
    /\ ~InFlight(entry) /\ entry # SetData(entry, server)
    /\ entry' = Ask(entry)
    /\ UNCHANGED <<server, text, typed, focus, drag, dragPos, selected, calls, mine, lost, used>>
ServePoll ==
    /\ entry.st = "asked"
    /\ entry' = Answer(entry, server)
    /\ UNCHANGED <<server, text, typed, focus, drag, dragPos, selected, calls, mine, lost, used>>
ApplyPoll ==
    /\ entry.st = "ready"
    /\ Shown(Apply(entry), selected)
    /\ UNCHANGED <<server, drag, dragPos, calls, mine, lost, used>>

Next ==
    \/ \E f \in Fields : Focus(f)
    \/ \E v \in {Edited, Blank} : Type(v)
    \/ Blur \/ Cancel
    \/ Press \/ Move \/ Release \/ PressCanvas \/ AddStep \/ RemoveStep
    \/ \E c \in calls : Serve(c) \/ Settle(c) \/ Fails(c)
    \/ OthersEdit \/ Poll \/ ServePoll \/ ApplyPoll

\* The poll's timer, the server and the event loop keep running.
Fairness ==
    /\ WF_vars(Poll) /\ WF_vars(ServePoll) /\ WF_vars(ApplyPoll)

Spec == Init /\ [][Next]_vars
FairSpec == Spec /\ Fairness

-----------------------------------------------------------------------------
JobType == [name : Values, title : Values, pos : Values, steps : Seq(1..(MaxEdits + MaxCalls + 1)),
            edges : SUBSET ((1..(MaxEdits + MaxCalls + 1)) \X (1..(MaxEdits + MaxCalls + 1)))]
TypeOK ==
    /\ server \in JobType /\ entry.data \in JobType \union {NoData}
    /\ \A f \in Fields : text[f] \in Values \union {None, Blank}
    /\ typed \subseteq {f \in Fields : text[f] # None}
    /\ focus \in Fields \union {Nowhere} /\ dragPos \in Values \union {None}
    /\ \A f \in {"name", "node"} : text[f] # None <=> focus = f
    /\ text["drawer"] # None => SelectedStep = MainStep

\* A position shown in place of the job's is one being dragged, or one whose
\* call is under way, unless a later edit of the step took the callback that
\* would have dropped it.
OverrideReleased ==
    dragPos # None => drag = "moved" \/ lost \/ \E c \in calls : c.kind = "pos" /\ c.value = dragPos

\* A chained edge leads to a step that this tab's + button made.
ChainsOwnStep == \A c \in calls : c.kind = "edge" => c.value \in mine

\* What a gesture on the canvas leads to once its calls are answered.
GesturesLand == OverrideReleased /\ ChainsOwnStep

\* What has been typed into a field stays until the field itself is left, its
\* step goes or is deselected: no answer and no poll replaces it.
TypingKept ==
    [][\A f \in typed : text'[f] # text[f] =>
          \/ focus = f /\ (focus' = Nowhere \/ used'.edits > used.edits)
          \/ text'[f] = None]_vars

\* The tab comes to show the job as it is on the server.
JobConverges == []<>(entry.data = server)

\* A field that was opened and left without typing saves nothing.
UntypedSavesNothing ==
    [][focus # Nowhere /\ focus' = Nowhere /\ calls' # calls => focus \in typed]_vars
=============================================================================
