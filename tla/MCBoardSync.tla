---------------------------- MODULE MCBoardSync ----------------------------
(* Tabs a and b edit, tab w watches; a board of one shape and one page.    *)
EXTENDS BoardSync

CONSTANTS shape, page, u, v, a, b, w
NoEnds == [x \in Vals |-> {}]
BothEdit == [c \in {a, b} |-> {shape}]
OwnRecord == [c \in {a, b} |-> IF c = a THEN {shape} ELSE {page}]
OneEdits == [c \in {a} |-> Ids]
=============================================================================
