----------------------------- MODULE RelationGraph -----------------------------
(***************************************************************************)
(* The relation graph of the Uses and Where Used tabs (RelationGraph.tsx,  *)
(* relationCap.ts): the document in the middle, what it is related to in   *)
(* rows that stack away from it, and a view that is fitted, zoomed and     *)
(* dragged.  Cards are placed, joined and bounded by arithmetic alone, and *)
(* only so many of them may ask for a picture.                             *)
(***************************************************************************)
EXTENDS Integers, FiniteSetsExt

CONSTANTS Documents,  \* what is known of a document: its id, its relations each way
          Viewports,  \* sizes of the tab, <<0, 0>> when it is hidden
          ThumbCap,
          Rounds      \* bound: documents opened in a behaviour

VARIABLES doc, direction,  \* what is in the middle, and which tab
          loadAll,         \* every picture was asked for
          reset,           \* the effect that takes loadAll back is due
          lifted,          \* the document every picture was last asked for of
          vp,
          view,            \* what it was fitted to, or <<>> once moved by hand
          rounds

vars == <<doc, direction, loadAll, reset, lifted, vp, view, rounds>>

CardW == 300
CardH == 88
HGap  == CardW + 28
VGap  == 172
Cols  == 3
RowGap == CardH + 56
Pad    == 36

N == doc[direction]

-----------------------------------------------------------------------------
(* Placement, in half pixels so that a row of two is centred.              *)

InRow_Full(i, n) == Cols
InRow(i, n) == Min({Cols, n - (i \div Cols) * Cols})

Slot(i, n, dir) ==
  LET depth == VGap + (i \div Cols) * RowGap
  IN  [x |-> IF InRow(i, n) > 1 THEN (2 * (i % Cols) - (InRow(i, n) - 1)) * HGap ELSE 0,
       y |-> 2 * (IF dir = "down" THEN depth ELSE -depth)]

\* The focus and its relations.
Placed == {[x |-> 0, y |-> 0]} \cup {Slot(i, N, direction) : i \in 0..N - 1}

Bounds ==
  LET xs == {p.x : p \in Placed}
      ys == {p.y : p \in Placed}
  IN  [minX |-> Min(xs) - CardW - 2 * Pad, minY |-> Min(ys) - CardH - 2 * Pad,
       w |-> Max(xs) - Min(xs) + 2 * CardW + 4 * Pad,
       h |-> Max(ys) - Min(ys) + 2 * CardH + 4 * Pad]

\* From the upper card's lower border to the lower card's upper border.
Edge(i) ==
  LET s == Slot(i, N, direction)
  IN  IF direction = "down" THEN [from |-> [x |-> 0, y |-> CardH], to |-> [x |-> s.x, y |-> s.y - CardH]]
      ELSE [from |-> [x |-> s.x, y |-> s.y + CardH], to |-> [x |-> 0, y |-> -CardH]]

HasThumb(i)  == loadAll \/ N <= ThumbCap \/ i < ThumbCap
ThumbsHidden == IF loadAll \/ N <= ThumbCap THEN 0 ELSE N - ThumbCap

\* In percent; a tab that is hidden has no size and gets the floor.
FitScale(size) ==
  Max({30, Min({150, (200 * size[1]) \div Bounds.w, (200 * size[2]) \div Bounds.h})})

\* Both effects that fit run with the sizes of their moment.
Fitted(size) == <<FitScale(size), Bounds.w, Bounds.h, size>>

-----------------------------------------------------------------------------

\* A graph mounted: another tab, or a document whose relations were waited for.
Shows(d, dir) == doc' = d /\ direction' = dir /\ N' > 0
Fresh == loadAll' = FALSE /\ reset' = FALSE /\ view' = Fitted(vp)'

Init ==
  /\ doc \in Documents /\ direction \in {"down", "up"}
  /\ N > 0
  /\ loadAll = FALSE /\ reset = FALSE /\ lifted = ""
  /\ vp \in Viewports
  /\ view = Fitted(vp)
  /\ rounds = 0

Mount(d, dir) ==
  /\ rounds < Rounds /\ rounds' = rounds + 1
  /\ Shows(d, dir)
  /\ UNCHANGED <<lifted, vp>>
  /\ Fresh

\* Relations at hand in the graph that is mounted, of another document or more
\* of the same from another source: it is placed anew and fitted when its size
\* has changed; the cap is back an effect later, of another document only.
Show(d) ==
  /\ rounds < Rounds /\ rounds' = rounds + 1
  /\ Shows(d, direction)
  /\ reset' = (reset \/ d.id # doc.id)
  /\ UNCHANGED <<loadAll, lifted, vp>>
  /\ view' = IF <<Bounds.w, Bounds.h>>' # <<Bounds.w, Bounds.h>> THEN Fitted(vp)' ELSE view

Navigate == \E d \in Documents : Show(d) \/ \E dir \in {"down", "up"} : Mount(d, dir)

TakeCapBack ==
  /\ reset
  /\ loadAll' = FALSE /\ reset' = FALSE
  /\ UNCHANGED <<doc, direction, lifted, vp, view, rounds>>

LoadAllThumbs ==
  /\ ~reset /\ ThumbsHidden > 0
  /\ loadAll' = TRUE /\ lifted' = doc.id
  /\ UNCHANGED <<doc, direction, reset, vp, view, rounds>>

\* The wheel, the buttons and dragging move the view freely.
ZoomOrDrag ==
  /\ view' = <<>>
  /\ UNCHANGED <<doc, direction, loadAll, reset, lifted, vp, rounds>>
FitToView ==
  /\ view' = Fitted(vp)
  /\ UNCHANGED <<doc, direction, loadAll, reset, lifted, vp, rounds>>
Resize ==
  /\ vp' \in Viewports \ {vp}
  /\ view' = Fitted(vp')
  /\ UNCHANGED <<doc, direction, loadAll, reset, lifted, rounds>>

Next == Navigate \/ TakeCapBack \/ LoadAllThumbs \/ ZoomOrDrag \/ FitToView \/ Resize

Spec == Init /\ [][Next]_vars

-----------------------------------------------------------------------------
(* Properties.                                                             *)

\* No two cards overlap, rows are centred on the focus, the bounds hold every
\* card, and every edge ends on the borders of the cards it joins, going down:
\* the layout and the edges are computed apart (slot, placed, edges, bounds).
CardsApart ==
  /\ Cardinality(Placed) = N + 1
  /\ \A p, q \in Placed : p # q => \/ p.x - q.x >= 2 * CardW \/ q.x - p.x >= 2 * CardW
                                   \/ p.y - q.y >= 2 * CardH \/ q.y - p.y >= 2 * CardH
  /\ \A p \in Placed :
       /\ [p EXCEPT !.x = -p.x] \in Placed
       /\ p.x - CardW >= Bounds.minX /\ p.x + CardW <= Bounds.minX + Bounds.w
       /\ p.y - CardH >= Bounds.minY /\ p.y + CardH <= Bounds.minY + Bounds.h
  /\ \A i \in 0..N - 1 :
       /\ Edge(i).from.y < Edge(i).to.y
       /\ [x |-> Edge(i).from.x, y |-> Edge(i).from.y - CardH] \in Placed
       /\ [x |-> Edge(i).to.x, y |-> Edge(i).to.y + CardH] \in Placed

\* A graph that was not moved by hand is fitted to what it shows now, whatever
\* was shown, resized and mounted since.  Once the effects have run no more
\* cards than the cap ask for a picture, unless the button was pressed for this
\* very document: what it lifted for one does not carry over to the next.
FittedAndCapped ==
  /\ view # <<>> => view = Fitted(vp)
  /\ ~reset /\ lifted # doc.id => Cardinality({i \in 0..N - 1 : HasThumb(i)}) <= ThumbCap
=============================================================================
