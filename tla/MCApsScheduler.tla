--------------------------- MODULE MCApsScheduler ---------------------------
(***************************************************************************)
(* Instances of ApsScheduler: one GraphQL slot contended by three classes, *)
(* costs that cannot all be afforded at once, or a REST call beside two.   *)
(***************************************************************************)
EXTENDS ApsScheduler

R(l, p, n, d) == [lane |-> l, prio |-> p, cost |-> n, deadline |-> d]

\* A click, a prefetch and a row of a list: the three classes in one lane.
ThreeReq == <<R(GraphQL, 0, 3, NoDeadline), R(GraphQL, 2, 1, 3), R(GraphQL, 1, 2, NoDeadline)>>

\* Two calls that cannot both be afforded, and a REST call.
SmallReq == <<R(GraphQL, 0, 3, NoDeadline), R(GraphQL, 2, 1, 3), R(REST, 1, 0, NoDeadline)>>

Quotas == {NoRemaining, 0}
OneSlot == [l \in Lanes |-> 1]
Floors == [p \in Priorities |-> p]
Waits == [p \in Priorities |-> IF p = 0 THEN 0 ELSE 4 - p]
=============================================================================
