------------------------------ MODULE GanttChart ------------------------------
(***************************************************************************)
(* What the Gantt chart draws of a project's tasks: the calendar scale and *)
(* its pixels, the rows, the bars and the dependency arrows (ganttMath.ts, *)
(* GanttArrows.tsx), for the zoom unit and the collapsed stages the user   *)
(* chose (TaskGantt.tsx).                                                  *)
(*                                                                         *)
(* Pixels are whole numbers here: the code's fractions of a pixel are      *)
(* rounded down.                                                           *)
(***************************************************************************)
EXTENDS Calendar, SequencesExt, FiniteSetsExt

CONSTANTS Charts,      \* the task lists the server may answer with
          NoDay,       \* an absent date
          Now          \* today, one per mount of the chart

VARIABLES tasks, unit, collapsed

vars == <<tasks, unit, collapsed>>

Units    == {"day", "week", "month"}
ColWidth == [day |-> 36, week |-> 84, month |-> 120]
PadCols  == [day |-> 7, week |-> 4, month |-> 2]
RowH == 36
BarH == 22
ArrowIndent == 16

IsScheduled(t) == t.start # NoDay /\ t.end # NoDay
ScheduledOf(ts) == {t \in ToSet(ts) : IsScheduled(t)}

-----------------------------------------------------------------------------
(* The scale: columns of one unit, padded on both sides.                   *)

UnitStart(d, u) == CASE u = "day" -> d [] u = "week" -> MondayOf(d)
                     [] u = "month" -> MonthStart[MonthOf[d]]
NextUnit(d, u)  == CASE u = "day" -> AddDays(d, 1) [] u = "week" -> AddDays(d, 7)
                     [] u = "month" -> MonthStart[MonthOf[d] + 1]

\* From today's column to the earliest start, and to the last end or deadline.
\* Steps back land in the column before; the cap of 8000 columns is out of sight.
BuildScale(ts, u) ==
  LET here == UnitStart(Now, u)
      min  == Min({here} \cup {t.start : t \in ScheduledOf(ts)})
      max  == Max({here} \cup {t.end : t \in ScheduledOf(ts)}
                        \cup {t.due : t \in {x \in ToSet(ts) : x.due # NoDay}})
      back[n \in 0..PadCols[u]] ==
        IF n = 0 THEN UnitStart(min, u) ELSE UnitStart(back[n - 1] - 1, u)
      grow[c \in 0..Horizon, left \in 0..PadCols[u]] ==
        IF c > max /\ left = 0 THEN <<>>
        ELSE <<[start |-> c, end |-> NextUnit(c, u)]>>
               \o grow[NextUnit(c, u), IF c > max THEN left - 1 ELSE left]
  IN  [unit |-> u, cols |-> grow[back[PadCols[u]], PadCols[u]]]

ScaleStart(s) == s.cols[1].start
ScaleEnd(s)   == s.cols[Len(s.cols)].end
ScaleWidth(s) == Len(s.cols) * ColWidth[s.unit]

\* Whole columns plus the share of the instant's own column.
DateToX(s, t) ==
  LET w == ColWidth[s.unit]
      find[lo \in DOMAIN s.cols, hi \in DOMAIN s.cols] ==
        IF lo >= hi THEN lo
        ELSE LET mid == (lo + hi) \div 2
             IN  IF Midnight[s.cols[mid].end] <= t THEN find[mid + 1, hi] ELSE find[lo, mid]
      i   == find[1, Len(s.cols)]
      at  == Midnight[s.cols[i].start]
  IN  IF t <= Midnight[ScaleStart(s)] THEN 0
      ELSE IF t >= Midnight[ScaleEnd(s)] THEN ScaleWidth(s)
      ELSE (i - 1) * w + (w * (t - at)) \div (Midnight[s.cols[i].end] - at)

\* A bug: the day under the pixel instead of the nearest midnight.
Snap_Floors(t) == DayOf(t)
Snap(t) == IF t - Midnight[DayOf(t)] >= 12 THEN AddDays(DayOf(t), 1) ELSE DayOf(t)

\* The day whose midnight is nearest to the pixel's instant.
XToDate(s, x) ==
  LET w  == ColWidth[s.unit]
      i  == SmallerOf(Len(s.cols), LargerOf(1, x \div w + 1))
      at == Midnight[s.cols[i].start]
      in == SmallerOf(w, LargerOf(0, x - (i - 1) * w))
  IN  Snap(at + (in * (Midnight[s.cols[i].end] - at)) \div w)

\* A drag of dx pixels in whole days, by the width of a day of the first column.
SnapDays(dx, s) ==
  LET days == DaysBetween(s.cols[1].start, s.cols[1].end)
      w    == ColWidth[s.unit]
  IN  (2 * dx * days + w) \div (2 * w)

\* The finest unit in which the scheduled span fits.
UnitToFit(ts, width) ==
  LET fits(u) == LET days == DaysBetween(Min({t.start : t \in ScheduledOf(ts)}),
                                         Max({t.end : t \in ScheduledOf(ts)})) + 1
                 IN  days * ColWidth[u] <= width * [day |-> 1, week |-> 7, month |-> 30][u]
  IN  IF ScheduledOf(ts) = {} THEN "week"
      ELSE IF fits("day") THEN "day" ELSE IF fits("week") THEN "week" ELSE "month"

\* The coarse band: one run of columns per month, or per year on the month scale.
TopBands(s) ==
  LET key(c) == IF s.unit = "month" THEN YearOf(c.start) ELSE MonthOf[c.start]
      n      == Len(s.cols)
      starts == {i \in 1..n : i = 1 \/ key(s.cols[i]) # key(s.cols[i - 1])}
  IN  {[from |-> i, to |-> Min({j \in starts : j > i} \cup {n + 1}) - 1, key |-> key(s.cols[i])] :
         i \in starts}

-----------------------------------------------------------------------------
(* Rows and bars.                                                          *)

\* Scheduled tasks are on the chart, open ones without dates in the backlog.
Backlog(ts) == {t \in ToSet(ts) : ~IsScheduled(t) /\ ~t.done}

DurationDays(t) == IF IsScheduled(t) THEN DaysBetween(t.start, t.end) + 1 ELSE 0
ProgressOf(t)   == IF t.done THEN 100 ELSE t.progress

TaskBefore(t, o) ==
  \/ t.start < o.start
  \/ t.start = o.start /\ t.end < o.end
  \/ t.start = o.start /\ t.end = o.end /\ t.num < o.num

TaskRow(t) == [kind |-> "task", key |-> t.num, start |-> t.start, end |-> t.end,
               progress |-> ProgressOf(t)]
StageRow(stage, children) ==
  LET total == MapThenSumSet(DurationDays, children)
      doing == MapThenSumSet(LAMBDA t : ProgressOf(t) * DurationDays(t), children)
  IN  [kind |-> "stage", key |-> stage,
       start |-> Min({t.start : t \in children}), end |-> Max({t.end : t \in children}),
       progress |-> (2 * doing + total) \div (2 * total)]

\* A stage's place among equals is that of its first task in the list.
FirstOf(ts, stage) == SelectInSeq(ts, LAMBDA t : IsScheduled(t) /\ t.stage = stage)

Flatten(blocks) == FlattenSeq([i \in DOMAIN blocks |-> blocks[i].rows])

\* A bug: a stage is sorted by the end of its span.
BlockKey_End(bar) == bar.end
BlockKey(bar) == bar.start

\* Stages and loose tasks by their first day, a stage's tasks under its bar.
RowModel(ts, folded) ==
  LET stages == {t.stage : t \in ScheduledOf(ts)} \ {""}
      block(stage) ==
        LET children == {t \in ScheduledOf(ts) : t.stage = stage}
            bar      == StageRow(stage, children)
        IN  [sortKey |-> BlockKey(bar), rank |-> FirstOf(ts, stage),
             rows |-> <<bar>> \o
               (IF stage \in folded THEN <<>>
                ELSE LET s == SetToSortSeq(children, TaskBefore)
                     IN  [i \in DOMAIN s |-> TaskRow(s[i])])]
      loose  == SetToSortSeq({t \in ScheduledOf(ts) : t.stage = ""}, TaskBefore)
      blocks == {block(s) : s \in stages}
                \cup {[sortKey |-> loose[i].start, rank |-> Len(ts) + i,
                       rows |-> <<TaskRow(loose[i])>>] : i \in DOMAIN loose}
  IN  Flatten(SetToSortSeq(blocks, LAMBDA a, b : \/ a.sortKey < b.sortKey
                                                 \/ a.sortKey = b.sortKey /\ a.rank < b.rank))

\* End dates are inclusive: the bar ends where the next day starts.
BarRect(s, row, i) ==
  LET y == (i - 1) * RowH + (RowH - BarH) \div 2
  IN  [x1 |-> DateToX(s, Midnight[row.start]), x2 |-> DateToX(s, Midnight[AddDays(row.end, 1)]),
       y |-> y, mid |-> y + BarH \div 2]

\* The flag at the end of a task's last day allowed.
DueX(s, t) == DateToX(s, Midnight[AddDays(t.due, 1)])

Rects(rows, s) ==
  LET at(n) == CHOOSE i \in DOMAIN rows : rows[i].kind = "task" /\ rows[i].key = n
  IN  [n \in {rows[i].key : i \in {j \in DOMAIN rows : rows[j].kind = "task"}} |->
         BarRect(s, rows[at(n)], at(n))]

\* Arrows join bars on the chart, finish to start, through the gutter between
\* the rows when the successor starts too early to go straight.
Arrows(ts, rects) ==
  {<<dep, t>> \in (DOMAIN rects) \X (DOMAIN rects) :
     \E i \in DOMAIN ts : ts[i].num = t /\ dep \in ts[i].dependsOn}

DependencyPath(from, to) ==
  LET stub == from.x2 + ArrowIndent
      turn == to.x1 - ArrowIndent
      out  == <<from.x2, from.mid>>
      in   == <<to.x1, to.mid>>
      gutter == IF to.mid > from.mid THEN from.mid + RowH \div 2 ELSE from.mid - RowH \div 2
  IN  IF stub < turn
      THEN <<out, <<turn, from.mid>>, <<turn, to.mid>>, in>>
      ELSE <<out, <<stub, from.mid>>, <<stub, gutter>>, <<turn, gutter>>, <<turn, to.mid>>, in>>

-----------------------------------------------------------------------------
(* The user zooms and folds.                                               *)

Init ==
  /\ tasks \in Charts
  /\ unit = "week"
  /\ collapsed = {}

Zoom(u) == unit' = u /\ UNCHANGED <<tasks, collapsed>>
ZoomToFit(width) == Zoom(UnitToFit(tasks, width))

ToggleStage(stage) ==
  /\ collapsed' = IF stage \in collapsed THEN collapsed \ {stage} ELSE collapsed \cup {stage}
  /\ UNCHANGED <<tasks, unit>>

Next ==
  \/ \E u \in Units : Zoom(u)
  \/ \E width \in {200, 900} : ZoomToFit(width)
  \/ \E stage \in {t.stage : t \in ScheduledOf(tasks)} \ {""} : ToggleStage(stage)

Spec == Init /\ [][Next]_vars

-----------------------------------------------------------------------------
(* Properties.                                                             *)

\* Every day of the plan and today are on the scale, with room beside them; a
\* deadline extends it to the right only (buildScale), so no flag is past its
\* end and the flag of a deadline before its first column is at the left edge,
\* where that column's own days start (TaskGantt's dueX).  Each day's pixel leads back to that day, across months of any length and the days of 23
\* and 25 hours (dateToX, xToDate); the header's coarse bands cover
\* the columns without a gap (headerBands).
ScaleSound ==
  LET s    == BuildScale(tasks, unit)
      n    == Len(s.cols)
      plan == {t.start : t \in ScheduledOf(tasks)} \cup {t.end : t \in ScheduledOf(tasks)} \cup {Now}
  IN  /\ \A d \in plan : ScaleStart(s) < d /\ d < ScaleEnd(s)
      /\ \A t \in ToSet(tasks) : t.due # NoDay =>
           /\ t.due < ScaleEnd(s) /\ DueX(s, t) < ScaleWidth(s)
           /\ IF t.due < ScaleStart(s) THEN DueX(s, t) = 0
              ELSE XToDate(s, DueX(s, t)) = t.due + 1
      /\ \A i \in 1..n - 1 : s.cols[i].end = s.cols[i + 1].start
      /\ \A d \in ScaleStart(s)..ScaleEnd(s) - 1 :
           /\ XToDate(s, DateToX(s, Midnight[d])) = d
           /\ DateToX(s, Midnight[d]) < DateToX(s, Midnight[d + 1])
      /\ \A i \in 1..n : Cardinality({b \in TopBands(s) : b.from <= i /\ i <= b.to}) = 1

\* A scheduled task has one row, under the bar of its stage unless that is
\* folded; blocks follow each other by their first day; a stage's bar spans its
\* tasks (rowModel).  An open task without dates is in the backlog (scheduledSplit).
\* Arrows come into a bar from its left (dependencyPath).
RowsSound ==
  \A rows \in {RowModel(tasks, collapsed)}, s \in {BuildScale(tasks, unit)} :
    \A rects \in {Rects(rows, s)} :
      LET kids(i) == {j \in DOMAIN rows : rows[j].kind = "task" /\ j > i /\
                        \A k \in i + 1..j : rows[k].kind = "task" /\
                           \E t \in ToSet(tasks) : t.num = rows[k].key /\ t.stage = rows[i].key}
          tops == {i \in DOMAIN rows : ~\E b \in DOMAIN rows : rows[b].kind = "stage" /\ i \in kids(b)}
      IN  /\ \A t \in ToSet(tasks) :
               Cardinality({i \in DOMAIN rows : rows[i].kind = "task" /\ rows[i].key = t.num})
                 = IF IsScheduled(t) /\ t.stage \notin collapsed THEN 1 ELSE 0
          /\ \A t \in ToSet(tasks) : t \in Backlog(tasks) <=> ~IsScheduled(t) /\ ~t.done
          /\ \A i, j \in tops : i < j => rows[i].start <= rows[j].start
          /\ \A t \in ScheduledOf(tasks) : t.stage # "" =>
               \E i \in DOMAIN rows :
                 /\ rows[i].kind = "stage" /\ rows[i].key = t.stage
                 /\ rows[i].start <= t.start /\ t.end <= rows[i].end
                 /\ t.stage \in collapsed \/ \E j \in kids(i) : rows[j].key = t.num
          /\ \A a \in Arrows(tasks, rects) :
               LET p == DependencyPath(rects[a[1]], rects[a[2]])
               IN  /\ p[Len(p)] = <<rects[a[2]].x1, rects[a[2]].mid>>
                   /\ p[Len(p) - 1] = <<rects[a[2]].x1 - ArrowIndent, rects[a[2]].mid>>
                   /\ \A i \in 1..Len(p) - 1 : p[i][1] = p[i + 1][1] \/ p[i][2] = p[i + 1][2]
=============================================================================
