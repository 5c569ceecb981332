--------------------------- MODULE ActivityHeatmap ---------------------------
(***************************************************************************)
(* The activity heat map (ActivityHeatmap.tsx), in the Activity tab of a   *)
(* document, where the changes of an assembly's children can be rolled up, *)
(* and as the hub's pulse (HubPulse.tsx, pulseReport.ts), which turns from *)
(* one project's local activity to the next.  One window of the design's   *)
(* life is drawn as cells, and a strip of dots, one per window, steps      *)
(* through it.  All of it is UTC: an instant is 24 * day + hour.           *)
(***************************************************************************)
EXTENDS Calendar, FiniteSetsExt, SequencesExt

CONSTANTS Reports,        \* sequences of reports a host may show: own and rolled up
          DaySeries,      \* sequences of the day counts of a hub, project by project
          MaxSynthEvents, \* the most events a pulse is expanded to
          None

VARIABLES sources,  \* the reports of the host
          shown,    \* the one on screen
          pulse,    \* the host is the hub's pulse
          paused,   \* the pointer is over the pulse
          gran, anchor

vars == <<sources, shown, pulse, paused, gran, anchor>>

Grans == {"day", "week", "month", "year"}

-----------------------------------------------------------------------------
(* The pulse: local counts a day as events at noon, scaled to a ceiling,   *)
(* where no day that had a change loses its bar.                           *)

SynthReport(days) ==
  LET busy   == {d \in DOMAIN days : days[d] > 0}
      total  == MapThenSumSet(LAMBDA d : days[d], busy)
      made(d) == IF total <= MaxSynthEvents THEN days[d]
                 ELSE LargerOf(1, (2 * days[d] * MaxSynthEvents + total) \div (2 * total))
  IN  [created |-> IF busy = {} THEN None ELSE 24 * Min(busy),
       last    |-> IF busy = {} THEN None ELSE 24 * Max(busy) + 23,
       events  |-> FlattenSeq([i \in 1..Cardinality(busy) |->
                     LET d == SetToSortSeq(busy, <)[i] IN [k \in 1..made(d) |-> 24 * d + 12]])]

-----------------------------------------------------------------------------
(* Windows.                                                                *)

UtcDay(t)  == t \div 24
Sunday(d)  == (Weekday(d) + 1) % 7

\* January of the day's year, and of the next, within the horizon.
January(d)   == MonthOf[d] - ((MonthOf[d] - 1 + FirstMonth) % 12)
YearStart(d) == MonthStart[LargerOf(1, January(d))]
NextYear(d)  == MonthStart[SmallerOf(Len(MonthLengths) + 1, January(d) + 12)]

\* Windows are named by their first day.
WindowStartOf(g, t) ==
  LET d == UtcDay(t)
  IN  CASE g = "day"   -> d
        [] g = "week"  -> d - Sunday(d)
        [] g = "month" -> MonthStart[MonthOf[d]]
        [] g = "year"  -> YearStart(d)

NextWindow(g, w) ==
  CASE g = "day"   -> w + 1
    [] g = "week"  -> w + 7
    [] g = "month" -> MonthStart[MonthOf[w] + 1]
    [] g = "year"  -> NextYear(w)

Report    == sources[shown]
Created   == IF Report.created = None THEN 24 * Horizon - 1 ELSE Report.created
LastAt    == IF Report.last = None THEN 24 * Horizon - 1 ELSE Report.last
MinWin    == WindowStartOf(gran, Created)
MaxWin    == WindowStartOf(gran, LastAt)

\* The window of the anchor, held inside the design's life.
WinStart_Free == WindowStartOf(gran, anchor)
WinStart == SmallerOf(MaxWin, LargerOf(MinWin, WindowStartOf(gran, anchor)))

InWindow(w) ==
  {i \in DOMAIN Report.events : 24 * w <= Report.events[i] /\ Report.events[i] < 24 * NextWindow(gran, w)}

\* The strip: every window from the first to the last, with its changes.
StripStarts_Half == {w \in MinWin..MaxWin : w # MaxWin /\ WindowStartOf(gran, 24 * w) = w}
StripStarts == {w \in MinWin..MaxWin : WindowStartOf(gran, 24 * w) = w}
Strip == {[start |-> w, changes |-> InWindow(w)] : w \in StripStarts}

\* The cells of a window: hours or days in a row, or weeks by weekdays.
BuildWindow(w) ==
  LET hour(h) == {i \in InWindow(w) : Report.events[i] % 24 = h}
      day(d)  == {i \in InWindow(w) : UtcDay(Report.events[i]) = d}
      week(d) == d - Sunday(d)
      days    == w..NextWindow(gran, w) - 1
  IN  CASE gran = "day"  -> {[col |-> h, row |-> 0, changes |-> hour(h)] : h \in 0..23}
        [] gran = "week" -> {[col |-> d - w, row |-> 0, changes |-> day(d)] : d \in days}
        [] OTHER         -> {[col |-> (week(d) - week(w)) \div 7, row |-> Sunday(d),
                              changes |-> day(d)] : d \in days}

\* Five steps of colour; a bar is as tall as its share of the tallest.
LevelOf(count, max) ==
  IF count = 0 THEN 0 ELSE LargerOf(1, SmallerOf(4, (4 * count + max - 1) \div max))

-----------------------------------------------------------------------------

Mount(i) ==
  /\ shown' = i
  /\ gran' = "year"
  /\ anchor' = IF sources[i].last = None THEN 24 * Horizon - 1 ELSE sources[i].last

Init ==
  /\ pulse \in BOOLEAN
  /\ sources \in IF pulse THEN {[i \in DOMAIN s |-> SynthReport(s[i])] : s \in DaySeries} ELSE Reports
  /\ shown = 1
  /\ paused = FALSE
  /\ gran = "year"
  /\ anchor = LastAt

PickGranularity ==
  /\ gran' \in Grans
  /\ UNCHANGED <<sources, shown, pulse, paused, anchor>>

ClickDot ==
  /\ \E dot \in Strip : anchor' = 24 * dot.start
  /\ UNCHANGED <<sources, shown, pulse, paused, gran>>

\* The tab's chart stays mounted when the roll-up is switched on or off.
ToggleRollup ==
  /\ ~pulse /\ Len(sources) = 2
  /\ shown' = 3 - shown
  /\ UNCHANGED <<sources, pulse, paused, gran, anchor>>

\* The pulse is keyed by its series: turning to another mounts a new chart.
Turn ==
  /\ pulse /\ ~paused /\ Len(sources) > 1
  /\ Mount((shown % Len(sources)) + 1)
  /\ UNCHANGED <<sources, pulse, paused>>
Pin ==
  /\ pulse
  /\ \E i \in DOMAIN sources \ {shown} : Mount(i)
  /\ UNCHANGED <<sources, pulse, paused>>
Hover ==
  /\ pulse
  /\ paused' = ~paused
  /\ UNCHANGED <<sources, shown, pulse, gran, anchor>>

Next == PickGranularity \/ ClickDot \/ ToggleRollup \/ Turn \/ Pin \/ Hover

Spec == Init /\ [][Next]_vars

-----------------------------------------------------------------------------
(* Properties.                                                             *)

\* The strip tells the whole life: every change is under exactly one dot and
\* in exactly one cell of that dot's window, and the window drawn is one of the
\* strip's, whatever was shown when the anchor was set: another granularity, a
\* longer life before the roll-up was switched off (windows, buildWindow, the
\* clamp of winStart).
EveryChangeCounted ==
  Report.created # None =>
    /\ WinStart \in StripStarts
    /\ \A i \in DOMAIN Report.events : Cardinality({dot \in Strip : i \in dot.changes}) = 1
    /\ LET cells == BuildWindow(WinStart)
           max   == Max({Cardinality(c.changes) : c \in cells})
       IN  /\ \A i \in InWindow(WinStart) : Cardinality({c \in cells : i \in c.changes}) = 1
           /\ Cardinality({<<c.col, c.row>> : c \in cells}) = Cardinality(cells)
           /\ \A c \in cells : (LevelOf(Cardinality(c.changes), max) = 0) = (c.changes = {})
=============================================================================
