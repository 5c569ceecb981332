--------------------------- MODULE HistoryTimeline ---------------------------
(***************************************************************************)
(* A design's version history as a stack of day rows (HistoryTimeline.tsx, *)
(* DayRow.tsx, ThreadOverlay.tsx over historyLayout.ts): one row per day,  *)
(* newest first, one track per author, and dots placed by the clock or, in *)
(* the thread view, by their position in the whole history with one line   *)
(* through all of them.  The line is drawn by arithmetic over the rows'    *)
(* heights, never measured, so the two have to agree.                      *)
(***************************************************************************)
EXTENDS Calendar, SequencesExt, FiniteSetsExt

CONSTANTS Histories,      \* versions, newest first, with the history behind them
          NoDate,         \* an event without a usable timestamp
          TracksPerDayCap, DayRowsCap,
          MinDotGap,      \* the closest two dots of a track may be
          Widths,         \* panel widths
          None

VARIABLES versions,       \* what the details call answered
          history,        \* the v3 history of the design: its saves and changes
          arrived,        \* its call has answered; a call that fails leaves the saves
          thread, showChanges, showAll, viewW

vars == <<versions, history, arrived, thread, showChanges, showAll, viewW>>

GutterW == 46
PadR    == 14
TrackH  == 30
AxisH   == 20
RowPadY == 8
HeaderH == 22
ColGap  == 38

-----------------------------------------------------------------------------
(* What is shown.                                                          *)

\* Milestones and releases join the versions by position, newest first, and
\* only when there is one history save per version.
ApplyMarkers_AnyLength(vs, saves) ==
  [i \in DOMAIN vs |-> IF i \in DOMAIN saves THEN [vs[i] EXCEPT !.mark = saves[i]] ELSE vs[i]]
ApplyMarkers(vs, saves) ==
  IF Len(saves) # Len(vs) THEN vs
  ELSE [i \in DOMAIN vs |-> IF saves[i] = None THEN vs[i] ELSE [vs[i] EXCEPT !.mark = saves[i]]]

Marked == IF arrived THEN ApplyMarkers(versions, history.saves) ELSE versions
Events == Marked \o (IF showChanges /\ arrived THEN history.changes ELSE <<>>)

\* Oldest first; what has no date comes last, in the order it came.
Ordered(events) ==
  LET before(i, j) ==
        LET a == events[i].at
            b == events[j].at
        IN  IF a = NoDate THEN b = NoDate /\ i < j
            ELSE b = NoDate \/ a < b \/ (a = b /\ i < j)
      order == SetToSortSeq(DOMAIN events, before)
  IN  [i \in DOMAIN order |-> events[order[i]]]

DayOfEvent(e) == IF e.at = NoDate THEN NoDate ELSE DayOf(e.at)
HourOf(e)     == IF e.at = NoDate THEN 0 ELSE e.at - Midnight[DayOf(e.at)]

DotBefore(a, b) == a.index < b.index
Sorted(dots)    == SetToSortSeq(dots, DotBefore)

\* One track per author in the order of their first event; past the cap the
\* tail is merged into one track.
TracksForDay(dots) ==
  LET authors == {d.e.author : d \in dots}
      of(a)   == {d \in dots : d.e.author = a}
      all     == SetToSortSeq(authors, LAMBDA a, b : Min({d.index : d \in of(a)})
                                                       < Min({d.index : d \in of(b)}))
      alone   == IF Len(all) <= TracksPerDayCap THEN Len(all) ELSE TracksPerDayCap - 1
      tail    == {all[i] : i \in alone + 1..Len(all)}
      single  == [i \in 1..alone |-> [authors |-> {all[i]}, dots |-> Sorted(of(all[i]))]]
  IN  IF tail = {} THEN single
      ELSE Append(single, [authors |-> tail, dots |-> Sorted({d \in dots : d.e.author \in tail})])

\* Day rows by the local day, newest first; the undated bucket is the last.
BucketByDay(events) ==
  LET ord  == Ordered(events)
      dots == {[e |-> ord[i], index |-> i - 1] : i \in DOMAIN ord}
      days == SetToSortSeq({DayOfEvent(ord[i]) : i \in DOMAIN ord} \ {NoDate}, LAMBDA a, b : a > b)
      row(d) == LET own == {x \in dots : DayOfEvent(x.e) = d}
                IN  [day |-> d, tracks |-> TracksForDay(own), count |-> Cardinality(own),
                     saves |-> Cardinality({x \in own : x.e.kind = "save"})]
  IN  [i \in DOMAIN days |-> row(days[i])]
        \o (IF \E i \in DOMAIN ord : ord[i].at = NoDate THEN <<row(NoDate)>> ELSE <<>>)

AllRows == BucketByDay(Events)
Capped  == ~showAll /\ Len(AllRows) > DayRowsCap
Rows    == IF Capped THEN SubSeq(AllRows, 1, DayRowsCap) ELSE AllRows

-----------------------------------------------------------------------------
(* Where it is shown.                                                      *)

GapBetween(newer, older) ==
  IF newer.day = NoDate \/ older.day = NoDate THEN None
  ELSE LET days == DaysBetween(older.day, newer.day)
       IN  [tier |-> IF days = 1 THEN "nextDay" ELSE IF days < 7 THEN "days" ELSE "wide",
            days |-> days, breakdown |-> CalendarBreakdown(older.day, newer.day)]
GapHeight(gap) ==
  IF gap = None THEN 0 ELSE [nextDay |-> 18, days |-> 24, wide |-> 32][gap.tier]

RowHeight(row, withAxis) ==
  RowPadY * 2 + LargerOf(1, Len(row.tracks)) * TrackH + (IF withAxis THEN AxisH ELSE 0)
TrackY(i) == RowPadY + (i - 1) * TrackH + TrackH \div 2

PlotWidth(w)       == LargerOf(80, w - GutterW - PadR)
XOfHour(h, w)      == (SmallerOf(24, h) * PlotWidth(w)) \div 24
XOfIndex(i)        == ColGap \div 2 + i * ColGap
ThreadWidth(count) == LargerOf(ColGap, count * ColGap) + PadR

DotsOf(row) == UNION {ToSet(row.tracks[i].dots) : i \in DOMAIN row.tracks}

\* The cap drops the oldest days: the thread starts at the oldest index left.
IndexBase_Zero(rows) == 0
IndexBase(rows) ==
  LET shown == {d.index : d \in UNION {DotsOf(rows[i]) : i \in DOMAIN rows}}
  IN  IF shown = {} THEN 0 ELSE Min(shown)

\* The row's top: headers, rows and the gaps between them have fixed heights.
LayoutTops(rows, withAxis) ==
  LET top[i \in 1..Len(rows)] ==
        IF i = 1 THEN 0
        ELSE top[i - 1] + HeaderH + RowHeight(rows[i - 1], withAxis)
               + GapHeight(GapBetween(rows[i - 1], rows[i]))
  IN  top

\* Dots of a track nudged apart: evenly when the axis cannot separate them,
\* else pushed right and pulled back off the right wall.
Declutter_NoPush(raw, left, right) ==
  [i \in DOMAIN raw |-> SmallerOf(right, LargerOf(left, raw[i]))]
Declutter(raw, left, right) ==
  LET n == Len(raw)
      x == [i \in 1..n |-> SmallerOf(right, LargerOf(left, raw[i]))]
      pushed[i \in 1..n] == IF i = 1 THEN x[1] ELSE LargerOf(x[i], pushed[i - 1] + MinDotGap)
      over == LargerOf(0, pushed[n] - right)
  IN  IF n = 0 THEN <<>>
      ELSE IF (n - 1) * MinDotGap > right - left
      THEN [i \in 1..n |-> IF n = 1 THEN left ELSE left + ((right - left) * (i - 1)) \div (n - 1)]
      ELSE [i \in 1..n |-> pushed[i] - over]

StackW(rows) == IF thread THEN GutterW + ThreadWidth(MapThenSumSet(LAMBDA i : rows[i].count, DOMAIN rows))
                ELSE viewW

\* A row draws its dots at these places, from its own top and the gutter's edge.
PlacedX(rows, track) ==
  IF thread THEN [i \in DOMAIN track.dots |-> XOfIndex(track.dots[i].index - IndexBase(rows))]
  ELSE Declutter([i \in DOMAIN track.dots |-> XOfHour(HourOf(track.dots[i].e), viewW)],
                 0, PlotWidth(viewW))

\* The overlay's line: every dated dot, oldest first.
ThreadPoints(rows) ==
  LET tops == LayoutTops(rows, FALSE)
  IN  Sorted(UNION {UNION {
        {[index |-> d.index, x |-> GutterW + XOfIndex(d.index - IndexBase(rows)),
          y |-> tops[r] + HeaderH + TrackY(k)] : d \in ToSet(rows[r].tracks[k].dots)} :
        k \in DOMAIN rows[r].tracks} : r \in {i \in DOMAIN rows : rows[i].day # NoDate}})

-----------------------------------------------------------------------------
(* The user's switches, the panel, and the history call.                   *)

Init ==
  /\ \E h \in Histories : versions = h.versions /\ history = h.behind
  /\ arrived = FALSE
  /\ thread = FALSE /\ showChanges = FALSE /\ showAll = FALSE
  /\ viewW \in Widths

HistoryAnswers ==
  /\ ~arrived
  /\ arrived' = TRUE
  /\ UNCHANGED <<versions, history, thread, showChanges, showAll, viewW>>

ToggleThread ==
  /\ thread' = ~thread
  /\ UNCHANGED <<versions, history, arrived, showChanges, showAll, viewW>>
ToggleChanges ==
  /\ showChanges' = ~showChanges
  /\ UNCHANGED <<versions, history, arrived, thread, showAll, viewW>>
ShowAllDays ==
  /\ Capped
  /\ showAll' = TRUE
  /\ UNCHANGED <<versions, history, arrived, thread, showChanges, viewW>>
Resize ==
  /\ viewW' \in Widths \ {viewW}
  /\ UNCHANGED <<versions, history, arrived, thread, showChanges, showAll>>

Next == HistoryAnswers \/ ToggleThread \/ ToggleChanges \/ ShowAllDays \/ Resize

Spec == Init /\ [][Next]_vars

-----------------------------------------------------------------------------
(* Properties.                                                             *)

\* Nothing of the history is lost or shown twice: every event is one dot, on
\* the row of its day and the track of its author, rows run from the newest to
\* the oldest day with the undated last, and only whole days are capped away
\* (bucketByDay, tracksForDay, DAY_ROWS_CAP).  A marker is on the version it
\* was given to (applyHistoryMarkers).
HistoryComplete ==
  \A events \in {Events}, all \in {AllRows}, rows \in {Rows} :
    /\ \A dots \in {UNION {DotsOf(all[i]) : i \in DOMAIN all}} :
         /\ Cardinality({d.index : d \in dots}) = Len(events) /\ Cardinality(dots) = Len(events)
         /\ {d.e : d \in dots} = ToSet(events)
    /\ \A i, j \in DOMAIN rows : i < j =>
         rows[j].day = NoDate \/ (rows[i].day # NoDate /\ rows[j].day < rows[i].day)
    /\ \A i \in DOMAIN rows :
         /\ Len(rows[i].tracks) <= TracksPerDayCap
         /\ \A d \in DotsOf(rows[i]) :
              Cardinality({k \in DOMAIN rows[i].tracks : d.e.author \in rows[i].tracks[k].authors}) = 1
    /\ \A i \in DOMAIN Marked : Marked[i].mark \in {None, versions[i].due}

\* The thread takes every dated dot that is shown, once, and one step to the
\* right of the event before it, however many days the cap dropped; the dots
\* drawn by the rows stay inside the stack the line is drawn over, and each row's
\* tracks end above the row below it, whatever gap lies between them
\* (layoutStack, indexBase and threadWidth against DayRow and trackY).
ThreadInStack ==
  thread =>
    \A rows \in {Rows} :
      \A tops \in {LayoutTops(rows, FALSE)}, points \in {ThreadPoints(rows)}, width \in {StackW(rows)} :
        /\ Len(points) = Len(SelectSeq(Events, LAMBDA e :
                           e.at # NoDate /\ \E r \in DOMAIN rows : rows[r].day = DayOfEvent(e)))
        /\ \A i \in 1..Len(points) - 1 : points[i + 1].x - points[i].x = ColGap
        /\ \A r \in DOMAIN rows : \A k \in DOMAIN rows[r].tracks :
             /\ r < Len(rows) => tops[r] + HeaderH + TrackY(k) + TrackH \div 2 <= tops[r + 1]
             /\ \A places \in {PlacedX(rows, rows[r].tracks[k])} : \A i \in DOMAIN places :
                  0 <= places[i] /\ GutterW + places[i] <= width

\* On the clock, the dots of a track keep their order and stay apart when the
\* plot has room for them (declutter).
DotsApart ==
  ~thread =>
    \A rows \in {Rows} : \A r \in DOMAIN rows : \A k \in DOMAIN rows[r].tracks :
      \A x \in {PlacedX(rows, rows[r].tracks[k])} : \A i \in 1..Len(x) - 1 :
        x[i + 1] - x[i] >= IF (Len(x) - 1) * MinDotGap > PlotWidth(viewW) THEN 0 ELSE MinDotGap

\* historyLayout.test.ts: "never leaves the plot bounds".
DotsInPlot ==
  ~thread =>
    \A rows \in {Rows} : \A r \in DOMAIN rows : \A k \in DOMAIN rows[r].tracks :
      \A x \in {PlacedX(rows, rows[r].tracks[k])} : \A i \in DOMAIN x :
        0 <= x[i] /\ x[i] <= PlotWidth(viewW)
=============================================================================
