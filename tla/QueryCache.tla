----------------------------- MODULE QueryCache -----------------------------
(***************************************************************************)
(* One entry of the react-query cache the web client reads through         *)
(* (@tanstack/query-core, a library: modelled from how web/src uses it).   *)
(*                                                                         *)
(* An entry holds the last data, the flag an invalidation raises and any   *)
(* new data lowers, and the one fetch that may be in flight: asked, then   *)
(* ready with the answer the server gave, then applied.                    *)
(***************************************************************************)
EXTENDS Naturals

CONSTANT NoData    \* an entry that has never held data

Empty == [data |-> NoData, invalid |-> FALSE, st |-> "idle", ans |-> NoData]

InFlight(e) == e.st # "idle"
Ask(e) == IF InFlight(e) THEN e ELSE [e EXCEPT !.st = "asked", !.ans = NoData]

\* setQueryData: the data counts as new, a fetch in flight goes on.
SetData(e, d) == [e EXCEPT !.data = d, !.invalid = FALSE]

\* invalidateQueries: the flag, and for an observed entry a fetch. A fetch in
\* flight is cancelled and restarted only when there is data to fall back on.
Restart(e) ==
    IF InFlight(e) /\ e.data = NoData THEN e
    ELSE [e EXCEPT !.st = "asked", !.ans = NoData]
Invalidate(e, observed) ==
    LET f == [e EXCEPT !.invalid = TRUE] IN IF observed THEN Restart(f) ELSE f

Answer(e, d) == [e EXCEPT !.st = "ready", !.ans = d]
Apply(e) == [e EXCEPT !.st = "idle", !.data = e.ans, !.ans = NoData, !.invalid = FALSE]
Fail(e) == [e EXCEPT !.st = "idle", !.ans = NoData]

\* What an observer may take for current.
Trusted(e) == e.data # NoData /\ ~e.invalid /\ ~InFlight(e)
=============================================================================
