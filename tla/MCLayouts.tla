------------------------------ MODULE MCLayouts ------------------------------
(***************************************************************************)
(* Five views that lay data out by arithmetic alone and share no state:    *)
(* the date picker (DateField), the Gantt chart (GanttChart), the version  *)
(* history (HistoryTimeline), the heat map of activity (ActivityHeatmap)   *)
(* and the relation graph (RelationGraph).  A behaviour is about the one   *)
(* named by part; the others stand still.                                  *)
(*                                                                         *)
(* One calendar serves all: December to the next January, the clocks set   *)
(* forward on day 92 and back on day 100.                                  *)
(***************************************************************************)
EXTENDS Calendar

CONSTANTS None, NoDay, Now,
          Pickable, Strings,                         \* of DateField
          Charts,                                    \* of GanttChart
          Histories, NoDate, TracksPerDayCap, DayRowsCap, MinDotGap, Widths,
          Reports, DaySeries, MaxSynthEvents,        \* of ActivityHeatmap
          Documents, Viewports, ThumbCap, Rounds     \* of RelationGraph

VARIABLES part,
  value, focus, clearable,
  tasks, unit, collapsed,
  versions, history, arrived, thread, showChanges, showAll, viewW,
  sources, shown, pulse, paused, gran, anchor,
  doc, direction, loadAll, reset, lifted, vp, view, rounds

Picker    == INSTANCE DateField
Chart     == INSTANCE GanttChart
Timeline  == INSTANCE HistoryTimeline
Heatmap   == INSTANCE ActivityHeatmap
Relations == INSTANCE RelationGraph

pickVars  == <<value, focus, clearable>>
chartVars == <<tasks, unit, collapsed>>
timeVars  == <<versions, history, arrived, thread, showChanges, showAll, viewW>>
heatVars  == <<sources, shown, pulse, paused, gran, anchor>>
relVars   == <<doc, direction, loadAll, reset, lifted, vp, view, rounds>>

-----------------------------------------------------------------------------
(* Instances.                                                              *)

MCMonths == <<31, 31, 28, 31, 30, 31, 30, 31, 31, 30, 31, 30, 31, 31>>

\* A field without a date, and with one; a 31 February, and a day out of reach.
MCPickable == 40..113
MCStrings  == {<<2, 31>>, <<3, 31>>, <<3, 1>>}

\* Tasks of three stages, within a week, across months, over the clock changes;
\* a deadline ahead, and one that was long ago.
Task(n, stage, span, due) ==
  [num |-> n, stage |-> stage, start |-> span[1], end |-> span[2], due |-> due,
   progress |-> 10 * n, done |-> n = 3, dependsOn |-> IF n = 1 THEN {} ELSE {n - 1}]
MCCharts ==
  LET spans  == {<<NoDay, NoDay>>, <<80, 80>>, <<75, 120>>, <<118, 119>>}
      stages == {<<"", "", "">>, <<"a", "a", "">>, <<"a", "", "a">>, <<"b", "a", "b">>}
  IN  {<<>>} \cup {<<Task(1, st[1], a, NoDay), Task(2, st[2], b, 95), Task(3, st[3], c, 20)>> :
                     a \in spans, b \in spans, c \in spans, st \in stages}

\* Three versions and two changes over three days, with midnight and late
\* hours and events without a date; a history that agrees, and one with a save
\* missing.
At(d, h) == Midnight[d] + h
Event(kind, n, at, who) ==
  [kind |-> kind, id |-> n, at |-> at, author |-> who, mark |-> None,
   due |-> IF kind = "save" /\ n = 2 THEN "milestone" ELSE None]
MCHistories ==
  {[versions |-> <<>>, behind |-> [saves |-> <<None>>, changes |-> <<>>]]} \cup
  {[versions |-> <<Event("save", 3, x, who), Event("save", 2, y, "b"), Event("save", 1, z, "c")>>,
    behind   |-> [saves |-> saves, changes |-> <<Event("change", 5, w, "b"), Event("change", 4, w, "d")>>]] :
      x \in {At(93, 22), At(127, 23)}, y \in {At(92, 0), At(93, 22), At(94, 0), NoDate},
      z \in {At(92, 0), At(93, 21)}, w \in {At(93, 22), At(92, 0)}, who \in {"a", "b"},
      saves \in {<<None, "milestone", None>>, <<"milestone", None>>}}
\* One author: a save at midnight and two in the last hour of the day.
LateHistories ==
  {[versions |-> [i \in 1..3 |-> Event("save", 4 - i, At(93, <<23, 23, 0>>[i]), "a")],
    behind   |-> [saves |-> <<None, None, None>>, changes |-> <<>>]]}

\* A part, an assembly with children older and newer than itself, an empty
\* report; a hub of three projects, one above the ceiling of events.
Instant(d, h) == 24 * d + h
Report(from, to, events) == [created |-> from, last |-> to, events |-> events]
MCReports ==
  {<<Report(Instant(40, 5), Instant(62, 23),
            <<Instant(62, 23), Instant(41, 0), Instant(40, 6), Instant(40, 6)>>),
     Report(Instant(25, 5), Instant(120, 3),
            <<Instant(62, 23), Instant(41, 0), Instant(40, 6), Instant(40, 6), Instant(25, 6),
              Instant(30, 23), Instant(31, 0), Instant(120, 3)>>)>>,
   <<Report(None, None, <<>>)>>,
   <<Report(Instant(70, 0), Instant(70, 0), <<Instant(70, 0)>>)>>}
MCDaySeries ==
  {<<[d \in 55..65 |-> IF d = 58 THEN 7 ELSE IF d = 64 THEN 2 ELSE IF d = 63 THEN 1 ELSE 0],
     [d \in 55..65 |-> 0],
     [d \in 55..65 |-> IF d = 56 THEN 1 ELSE 0]>>}

\* One relation, a part row, full rows, more than the cap; two documents whose
\* relations come from more than one source.
MCDocuments ==
  {[id |-> n[1], down |-> n[2], up |-> n[3]] :
     n \in {<<"a", 0, 1>>, <<"b", 2, 3>>, <<"b", 4, 27>>, <<"c", 5, 12>>, <<"c", 13, 30>>}}
MCViewports == {<<0, 0>>, <<900, 500>>, <<1600, 900>>}

-----------------------------------------------------------------------------

\* What the views of the other parts hold.
Picker0    == value = NoDay /\ focus = NoDay /\ clearable = TRUE
Chart0     == tasks = <<>> /\ unit = "week" /\ collapsed = {}
Timeline0  == /\ versions = <<>> /\ history = [saves |-> <<None>>, changes |-> <<>>]
              /\ arrived = FALSE /\ thread = FALSE /\ showChanges = FALSE /\ showAll = FALSE
              /\ viewW = 160
Heatmap0   == /\ sources = <<>> /\ shown = 1 /\ pulse = FALSE /\ paused = FALSE
              /\ gran = "year" /\ anchor = 0
Relations0 == /\ doc = [id |-> "a", down |-> 0, up |-> 1] /\ direction = "up"
              /\ loadAll = FALSE /\ reset = FALSE /\ lifted = ""
              /\ vp = <<0, 0>> /\ view = None /\ rounds = 0

LayoutsInit ==
  /\ part \in {"picker", "chart", "timeline", "heatmap", "relations"}
  /\ IF part = "picker"    THEN Picker!Init    ELSE Picker0
  /\ IF part = "chart"     THEN Chart!Init     ELSE Chart0
  /\ IF part = "timeline"  THEN Timeline!Init  ELSE Timeline0
  /\ IF part = "heatmap"   THEN Heatmap!Init   ELSE Heatmap0
  /\ IF part = "relations" THEN Relations!Init ELSE Relations0

PickerStep    == part = "picker" /\ Picker!Next
                   /\ UNCHANGED <<chartVars, timeVars, heatVars, relVars, part>>
ChartStep     == part = "chart" /\ Chart!Next
                   /\ UNCHANGED <<pickVars, timeVars, heatVars, relVars, part>>
TimelineStep  == part = "timeline" /\ Timeline!Next
                   /\ UNCHANGED <<pickVars, chartVars, heatVars, relVars, part>>
HeatmapStep   == part = "heatmap" /\ Heatmap!Next
                   /\ UNCHANGED <<pickVars, chartVars, timeVars, relVars, part>>
RelationsStep == part = "relations" /\ Relations!Next
                   /\ UNCHANGED <<pickVars, chartVars, timeVars, heatVars, part>>

LayoutsSpec ==
  /\ LayoutsInit
  /\ [][PickerStep \/ ChartStep \/ TimelineStep \/ HeatmapStep \/ RelationsStep]_
       <<pickVars, chartVars, timeVars, heatVars, relVars, part>>

\* Every task, version and change is shown once, in the place that is its own,
\* whatever is folded, rolled up, capped or stepped to: see RowsSound,
\* HistoryComplete and EveryChangeCounted of the parts.
ShownOnce ==
  CASE part = "chart"    -> Chart!RowsSound
    [] part = "timeline" -> Timeline!HistoryComplete
    [] part = "heatmap"  -> Heatmap!EveryChangeCounted
    [] OTHER             -> TRUE

\* What is computed apart agrees: pixels and days, the grid and its month, the
\* thread and the dots it runs through, cards, edges and bounds, what is shown
\* and what it was fitted and capped for.  See GridSound,
\* ScaleSound, ThreadInStack, DotsApart, CardsApart and FittedAndCapped of the
\* parts.
LinesUp ==
  CASE part = "picker"    -> Picker!GridSound
    [] part = "chart"     -> Chart!ScaleSound
    [] part = "timeline"  -> Timeline!ThreadInStack /\ Timeline!DotsApart
    [] part = "relations" -> Relations!CardsApart /\ Relations!FittedAndCapped
    [] OTHER              -> TRUE

\* The date picker's months, see DateField.
MonthsTurnByOne == Picker!MonthsTurnByOne

\* historyLayout.test.ts:301, see HistoryTimeline.
DotsInPlot == Timeline!DotsInPlot
=============================================================================
