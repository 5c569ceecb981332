------------------------------ MODULE DateField ------------------------------
(***************************************************************************)
(* The date picker (components/DateField.tsx): a field that holds a day    *)
(* string or nothing, and the month grid it opens.  The grid shows the     *)
(* month of the focused day; arrows, Home, End, PageUp and PageDown and the *)
(* chevrons move the focus, a click picks.                                 *)
(***************************************************************************)
EXTENDS Calendar

CONSTANTS Pickable,   \* the days the focus is let to reach
          NoDay,      \* a field without a date
          Now,        \* today
          Strings     \* the day strings a record may hold, malformed ones included

VARIABLES value,      \* what the field holds: a day string or NoDay
          focus,      \* the focused day of the open grid, or NoDay
          clearable

vars == <<value, focus, clearable>>

Selected == IF value # NoDay /\ IsDay(value) THEN ParseDay(value) ELSE NoDay
IsOpen   == focus # NoDay
Cells    == {MonthGrid(focus)[i] : i \in 1..42}

Init ==
  /\ value \in Strings \cup {NoDay}
  /\ focus = NoDay
  /\ clearable \in BOOLEAN

\* The grid is mounted anew each time: it opens on the selected day.
Open ==
  /\ ~IsOpen
  /\ focus' = IF Selected = NoDay THEN Now ELSE Selected
  /\ UNCHANGED <<value, clearable>>

Focus(d) ==
  /\ IsOpen /\ d \in Pickable
  /\ focus' = d
  /\ UNCHANGED <<value, clearable>>

ArrowKey   == \E step \in {-1, 1, -7, 7} : IsOpen /\ Focus(AddDays(focus, step))
TurnTo(n)  == IsOpen /\ Focus(AddMonths(focus, n))
TurnMonth  == TurnTo(-1) \/ TurnTo(1)
HomeOrEnd  == IsOpen /\ \E d \in {MondayOf(focus), AddDays(MondayOf(focus), 6)} : Focus(d)

Close == focus' = NoDay

\* Pressing the mouse on a cell focuses it, and only a cell that is still under
\* the pointer is picked: a press on a day outside the month shows its month.
FocusCell == IsOpen /\ \E d \in Cells : Focus(d)
Pick ==
  /\ IsOpen
  /\ \E d \in {focus, Now} : value' = FmtDay(d)
  /\ Close /\ UNCHANGED clearable
Clear ==
  /\ IsOpen /\ clearable
  /\ value' = NoDay
  /\ Close /\ UNCHANGED clearable
Dismiss == IsOpen /\ Close /\ UNCHANGED <<value, clearable>>

Next == Open \/ ArrowKey \/ TurnMonth \/ HomeOrEnd \/ FocusCell \/ Pick \/ Clear \/ Dismiss

Spec == Init /\ [][Next]_vars

-----------------------------------------------------------------------------
(* Properties.                                                             *)

\* The open grid holds the focused day and every day of its month, and its weeks
\* start on a Monday (monthGrid, mondayOf).  The cell it marks as selected is the
\* one whose pick would write the string the field holds; a string that names
\* no day ("31 February") marks none, not the day it rolls over to (isDay).
GridSound ==
  IsOpen =>
    /\ focus \in Cells
    /\ \A d \in Days : MonthOf[d] = MonthOf[focus] => d \in Cells
    /\ \A i \in 1..42 : Weekday(MonthGrid(focus)[i]) = (i - 1) % 7
    /\ \A d \in Cells : d = Selected <=> FmtDay(d) = value

\* PageUp, PageDown and the chevrons show the next month over, from every day:
\* the end of a long month does not skip the short one after it (addMonths).
MonthsTurnByOne ==
  [][\A n \in {-1, 1} : TurnTo(n) => MonthOf[focus'] = MonthOf[focus] + n]_vars
=============================================================================
