---------------------------- MODULE MCBoardStore ----------------------------
(* Instances of BoardStore: the requests whose interleavings are explored. *)
EXTENDS BoardStore
=============================================================================
