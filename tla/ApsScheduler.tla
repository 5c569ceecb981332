---------------------------- MODULE ApsScheduler ----------------------------
(***************************************************************************)
(* The points scheduler every Autodesk Platform Services call goes through *)
(* (internal/apsbudget/scheduler.go, bucket.go) and the calling convention *)
(* of its clients (api/client.go gqlQueryAt, api/budget.go doREST): acquire *)
(* a slot, make one round trip, release it, and report a 429 with Trip.    *)
(*                                                                         *)
(* Every method of Scheduler runs under s.mu.  kickLocked is a loop inside *)
(* that critical section: here one step per iteration, with mu naming the  *)
(* lane being kicked, so that no other operation can run before it ends.   *)
(* Time is counted in ticks and kept relative: cool, timer and window are  *)
(* what is left of a deadline, since is the time elapsed since the bucket  *)
(* was last refilled (bucket.last), which happens lazily.                  *)
(***************************************************************************)
EXTENDS Integers, FiniteSets, FiniteSetsExt

CONSTANTS
    Calls,            \* the Acquire calls of one run; each is made once
    Req,              \* Req[c]: the Request of call c and its context
    Capacity,         \* Config.Capacity, in points
    Headroom,         \* Config.FullQuota - Config.Capacity
    RefillPer,        \* points credited per tick (Config.RefillPerSec)
    MaxInFlight,      \* per lane: Config.MaxInFlight, MaxInFlightREST
    ReserveFloor,     \* per priority, in points (fraction times Capacity)
    MaxQueueWait,     \* per priority, in ticks; 0 is "no limit of its own"
    DefaultCooldown, MaxCooldown,
    Minute,           \* ticks during which a second 429 escalates
    RetryAfters,      \* Retry-After values a 429 may carry; 0 is absent
    Remainings,       \* remaining quotas a 429 may report
    Actuals,          \* costs the gateway may report; 0 is unknown
    MaxTrips,         \* bound: how many 429s a behaviour contains
    IdleCap           \* bound: elapsed time is counted up to this

GraphQL == "graphql"
REST == "rest"
Lanes == {GraphQL, REST}
Priorities == 0..2
NoDeadline == -1
NoRemaining == -1
Free == "free"
Off == -1

Request == [lane : Lanes, prio : Priorities, cost : Nat, deadline : Nat \cup {NoDeadline}]

(***************************************************************************)
(* What a configuration must satisfy.  CostsFit is the condition under     *)
(* which a queued call can be served at all: deficitWait never reaches     *)
(* zero for a call that wants more than a full bucket.                     *)
(***************************************************************************)
ASSUME CallsFinite == IsFiniteSet(Calls)
ASSUME ReqAssumption == Req \in [Calls -> Request]
ASSUME ConfigAssumption ==
    /\ Capacity \in Nat /\ Headroom \in Nat
    /\ RefillPer \in Nat \ {0}
    /\ MaxInFlight \in [Lanes -> Nat \ {0}]
    /\ ReserveFloor \in [Priorities -> Nat]
    /\ MaxQueueWait \in [Priorities -> Nat]
    /\ DefaultCooldown \in Nat \ {0} /\ MaxCooldown \in Nat
    /\ MaxCooldown >= DefaultCooldown
    /\ Minute \in Nat /\ MaxTrips \in Nat /\ IdleCap \in Nat
ASSUME InputAssumption ==
    /\ RetryAfters \subseteq Nat
    /\ Remainings \subseteq Nat \cup {NoRemaining}
    /\ Actuals \subseteq Nat
ASSUME CostsFit ==
    \A c \in Calls : Req[c].lane = GraphQL =>
                        Req[c].cost + ReserveFloor[Req[c].prio] <= Capacity

VARIABLES
    pc,          \* pc[c]: where call c is in its Acquire / Release protocol
    queue,       \* queue[l]: the waiters in lane l's heap
    seqNo, seq,  \* waiter.seq and the counter it is drawn from
    dispatched,  \* waiter.dispatched
    cancelled,   \* waiter.cancelled
    inFlight,    \* laneState.inFlight
    cool,        \* ticks until laneState.cooldownUntil
    window,      \* ticks left of the minute that began at laneState.lastTrip
    lastCool,    \* laneState.lastCooldown
    timer,       \* ticks until laneState.timer fires, or Off
    ticking,     \* a fired timer's callback waits for the lock
    tokens, since,   \* bucket.tokens, and the time since bucket.last
    trips, closed,   \* Scheduler.trips and closed
    mu           \* Free, or the lane whose kickLocked loop is running

vars == <<pc, queue, seqNo, seq, dispatched, cancelled, inFlight, cool, window,
          lastCool, timer, ticking, tokens, since, trips, closed, mu>>

LaneOf(c) == Req[c].lane
Prio(c) == Req[c].prio

\* Acquire: the REST lane spends no points.
CostOf(c) == IF LaneOf(c) = REST THEN 0 ELSE Req[c].cost

Least(a, b) == IF a <= b THEN a ELSE b
Most(a, b) == IF a >= b THEN a ELSE b

-----------------------------------------------------------------------------
(* The bucket.                                                             *)

\* bucket.refill applied to a level t.
Refill(t) == Least(Capacity, t + since * RefillPer)

\* bucket.correct: an over-estimate is refunded, an under-estimate charged.
Correct(t, c, actual) ==
    IF LaneOf(c) # GraphQL \/ actual = 0 THEN t
    ELSE Least(Capacity, t + CostOf(c) - actual)

\* bucket.setLevel: downwards only, and never below -Capacity.
SetLevel(t, level) == Most(-Capacity, Least(t, level))

\* bucket.deficitWait, in whole ticks.
DeficitWait(t, want) ==
    IF t >= want THEN 0 ELSE (want - t + RefillPer - 1) \div RefillPer

-----------------------------------------------------------------------------
(* The queue: a min-heap by priority, first come first served within one.  *)

Precedes_SeqOnly(a, b) == seqNo[a] < seqNo[b]
Precedes(a, b) ==
    \/ Prio(a) < Prio(b)
    \/ Prio(a) = Prio(b) /\ seqNo[a] < seqNo[b]

IsHead(c, l) == c \in queue[l] /\ \A d \in queue[l] \ {c} : Precedes(c, d)

Want(c) == CostOf(c) + ReserveFloor[Prio(c)]

\* The wait kickLocked computes for a head waiter c of lane l.
HeadWait(c, l) ==
    IF cool[l] > 0 THEN cool[l]
    ELSE IF l = GraphQL THEN DeficitWait(tokens, Want(c)) ELSE 0

\* expectedWaitLocked, on a bucket at level t.
ExpectedWait(c, t) ==
    LET l == LaneOf(c)
        ahead == {w \in queue[l] : Prio(w) <= Prio(c)}
        need == Want(c) + MapThenSumSet(CostOf, ahead)
    IN  IF l = GraphQL THEN Most(cool[l], DeficitWait(t, need)) ELSE cool[l]

\* The longest wait call c accepts: its class's, or its context's if shorter.
Allowed(c) ==
    LET own == MaxQueueWait[Prio(c)]
        dl == Req[c].deadline
    IN  IF dl # NoDeadline /\ (own = 0 \/ dl < own) THEN dl ELSE own

-----------------------------------------------------------------------------
Init ==
    /\ pc = [c \in Calls |-> "idle"]
    /\ queue = [l \in Lanes |-> {}]
    /\ seqNo = [c \in Calls |-> 0] /\ seq = 0
    /\ dispatched = {} /\ cancelled = {}
    /\ inFlight = [l \in Lanes |-> 0]
    /\ cool = [l \in Lanes |-> 0]
    /\ window = [l \in Lanes |-> 0]
    /\ lastCool = [l \in Lanes |-> 0]
    /\ timer = [l \in Lanes |-> Off]
    /\ ticking = [l \in Lanes |-> FALSE]
    /\ tokens = Capacity /\ since = 0
    /\ trips = 0 /\ closed = FALSE
    /\ mu = Free

(***************************************************************************)
(* kickLocked(l): its prologue stops the timer and refills the bucket      *)
(* (here at level t); then Dispatch steps; EndKick arms the timer.         *)
(***************************************************************************)
Kick(l, t) ==
    /\ mu' = l
    /\ timer' = [timer EXCEPT ![l] = Off]
    /\ tokens' = Refill(t) /\ since' = 0

CanGo(c, l) == IsHead(c, l) /\ inFlight[l] < MaxInFlight[l] /\ HeadWait(c, l) = 0

Dispatch(l) ==
    /\ mu = l
    /\ \E c \in queue[l] :
        /\ CanGo(c, l)
        /\ queue' = [queue EXCEPT ![l] = @ \ {c}]
        /\ inFlight' = [inFlight EXCEPT ![l] = @ + 1]
        /\ tokens' = IF l = GraphQL THEN tokens - CostOf(c) ELSE tokens
        /\ dispatched' = dispatched \cup {c}
    /\ UNCHANGED <<pc, seqNo, seq, cancelled, cool, window, lastCool, timer,
                   ticking, since, trips, closed, mu>>

EndKick_NoTimer(l) ==
    /\ mu = l
    /\ \A c \in queue[l] : ~ CanGo(c, l)
    /\ mu' = Free
    /\ UNCHANGED <<pc, queue, seqNo, seq, dispatched, cancelled, inFlight, cool,
                   window, lastCool, timer, ticking, tokens, since, trips, closed>>
EndKick(l) ==
    /\ mu = l
    /\ \A c \in queue[l] : ~ CanGo(c, l)
    /\ mu' = Free
    /\ IF queue[l] # {} /\ inFlight[l] < MaxInFlight[l] /\ ~ closed
       THEN \E c \in queue[l] : IsHead(c, l) /\ timer' = [timer EXCEPT ![l] = HeadWait(c, l)]
       ELSE UNCHANGED timer
    /\ UNCHANGED <<pc, queue, seqNo, seq, dispatched, cancelled, inFlight, cool,
                   window, lastCool, ticking, tokens, since, trips, closed>>

-----------------------------------------------------------------------------
(* Acquire.                                                                *)

\* A closed scheduler refuses; so does one whose expected wait is too long.
Refuse(c) ==
    /\ mu = Free /\ pc[c] = "idle"
    /\ \/ closed /\ UNCHANGED <<tokens, since>>
       \/ /\ ~ closed
          /\ tokens' = Refill(tokens) /\ since' = 0
          /\ Allowed(c) > 0 /\ ExpectedWait(c, tokens') > Allowed(c)
    /\ pc' = [pc EXCEPT ![c] = "refused"]
    /\ UNCHANGED <<queue, seqNo, seq, dispatched, cancelled, inFlight, cool, window,
                   lastCool, timer, ticking, trips, closed, mu>>

Enqueue(c) ==
    /\ mu = Free /\ pc[c] = "idle" /\ ~ closed
    /\ Kick(LaneOf(c), tokens)
    /\ ~ (Allowed(c) > 0 /\ ExpectedWait(c, tokens') > Allowed(c))
    /\ seq' = seq + 1
    /\ seqNo' = [seqNo EXCEPT ![c] = seq + 1]
    /\ queue' = [queue EXCEPT ![LaneOf(c)] = @ \cup {c}]
    /\ pc' = [pc EXCEPT ![c] = "waiting"]
    /\ UNCHANGED <<dispatched, cancelled, inFlight, cool, window, lastCool, ticking,
                   trips, closed>>

\* The select's <-w.ready case: signalled by a dispatch, or by Close.
Ready(c) ==
    /\ pc[c] = "waiting" /\ c \in dispatched \cup cancelled
    /\ pc' = [pc EXCEPT ![c] = IF c \in cancelled THEN "refused" ELSE "holding"]
    /\ UNCHANGED <<queue, seqNo, seq, dispatched, cancelled, inFlight, cool, window,
                   lastCool, timer, ticking, tokens, since, trips, closed, mu>>

(***************************************************************************)
(* The ctx.Done and timeout cases: abandon gives up the wait, unless the   *)
(* call was dispatched in the meantime and the slot is its to return.      *)
(***************************************************************************)
GiveUp(c) ==
    \/ /\ c \in dispatched
       /\ pc' = [pc EXCEPT ![c] = "holding"]
       /\ UNCHANGED <<queue, cancelled, timer, tokens, since, mu>>
    \/ /\ c \notin dispatched
       /\ pc' = [pc EXCEPT ![c] = "refused"]
       /\ cancelled' = cancelled \cup {c}
       /\ queue' = [queue EXCEPT ![LaneOf(c)] = @ \ {c}]
       /\ Kick(LaneOf(c), tokens)

Abandon_LeakSlot(c) ==
    /\ mu = Free /\ pc[c] = "waiting"
    /\ pc' = [pc EXCEPT ![c] = "refused"]
    /\ cancelled' = cancelled \cup {c}
    /\ queue' = [queue EXCEPT ![LaneOf(c)] = @ \ {c}]
    /\ Kick(LaneOf(c), tokens)
    /\ UNCHANGED <<seqNo, seq, dispatched, inFlight, cool, window, lastCool, ticking,
                   trips, closed>>
Abandon(c) ==
    /\ mu = Free /\ pc[c] = "waiting"
    /\ GiveUp(c)
    /\ UNCHANGED <<seqNo, seq, dispatched, inFlight, cool, window, lastCool, ticking,
                   trips, closed>>

-----------------------------------------------------------------------------
(* The round trip ends: Release, and Trip when the answer was a 429.       *)

Release_NoKick(c) ==
    /\ mu = Free /\ pc[c] = "holding"
    /\ \E actual \in Actuals : tokens' = Correct(tokens, c, actual)
    /\ inFlight' = [inFlight EXCEPT ![LaneOf(c)] = @ - 1]
    /\ \E after \in {"done", "limited"} : pc' = [pc EXCEPT ![c] = after]
    /\ UNCHANGED <<queue, seqNo, seq, dispatched, cancelled, cool, window, lastCool,
                   timer, ticking, since, trips, closed, mu>>
Release(c) ==
    /\ mu = Free /\ pc[c] = "holding"
    /\ \E actual \in Actuals : Kick(LaneOf(c), Correct(tokens, c, actual))
    /\ inFlight' = [inFlight EXCEPT ![LaneOf(c)] = @ - 1]
    /\ \E after \in {"done", "limited"} : pc' = [pc EXCEPT ![c] = after]
    /\ UNCHANGED <<queue, seqNo, seq, dispatched, cancelled, cool, window, lastCool,
                   ticking, trips, closed>>

\* Trip's cooldown: Retry-After, else the default, escalated on a repeat.
Cooldown(l, retryAfter) ==
    Least(MaxCooldown,
          IF retryAfter > 0 THEN retryAfter
          ELSE IF window[l] > 0 /\ lastCool[l] > 0 THEN (3 * lastCool[l]) \div 2
          ELSE DefaultCooldown)

Trip(c) ==
    /\ mu = Free /\ pc[c] = "limited" /\ trips < MaxTrips
    /\ \E retryAfter \in RetryAfters, remaining \in Remainings :
        LET l == LaneOf(c)
            d == Cooldown(l, retryAfter)
        IN  /\ cool' = [cool EXCEPT ![l] = Most(@, d)]
            /\ window' = [window EXCEPT ![l] = Minute]
            /\ lastCool' = [lastCool EXCEPT ![l] = d]
            /\ Kick(l, IF l = GraphQL /\ remaining # NoRemaining
                       THEN SetLevel(tokens, remaining - Headroom) ELSE tokens)
    /\ trips' = trips + 1
    /\ pc' = [pc EXCEPT ![c] = "done"]
    /\ UNCHANGED <<queue, seqNo, seq, dispatched, cancelled, inFlight, ticking, closed>>

-----------------------------------------------------------------------------
(* Shutdown, metrics, timers and the passage of time.                      *)

Close_KeepWaiters ==
    /\ mu = Free /\ ~ closed
    /\ closed' = TRUE
    /\ timer' = [l \in Lanes |-> Off]
    /\ queue' = [l \in Lanes |-> {}]
    /\ UNCHANGED <<pc, seqNo, seq, dispatched, cancelled, inFlight, cool, window, lastCool,
                   ticking, tokens, since, trips, mu>>
Close ==
    /\ mu = Free /\ ~ closed
    /\ closed' = TRUE
    /\ timer' = [l \in Lanes |-> Off]
    /\ cancelled' = cancelled \cup UNION {queue[l] : l \in Lanes}
    /\ queue' = [l \in Lanes |-> {}]
    /\ UNCHANGED <<pc, seqNo, seq, dispatched, inFlight, cool, window, lastCool,
                   ticking, tokens, since, trips, mu>>

\* Snapshot reports, but refills the bucket on the way.
Snapshot ==
    /\ mu = Free
    /\ tokens' = Refill(tokens) /\ since' = 0
    /\ UNCHANGED <<pc, queue, seqNo, seq, dispatched, cancelled, inFlight, cool, window,
                   lastCool, timer, ticking, trips, closed, mu>>

\* A due timer starts its callback, which Stop can no longer prevent.
Fire(l) ==
    /\ timer[l] = 0
    /\ timer' = [timer EXCEPT ![l] = Off]
    /\ ticking' = [ticking EXCEPT ![l] = TRUE]
    /\ UNCHANGED <<pc, queue, seqNo, seq, dispatched, cancelled, inFlight, cool, window,
                   lastCool, tokens, since, trips, closed, mu>>

\* tick: the callback re-evaluates its lane.
Tick(l) ==
    /\ mu = Free /\ ticking[l]
    /\ ticking' = [ticking EXCEPT ![l] = FALSE]
    /\ IF closed THEN UNCHANGED <<timer, tokens, since, mu>> ELSE Kick(l, tokens)
    /\ UNCHANGED <<pc, queue, seqNo, seq, dispatched, cancelled, inFlight, cool, window,
                   lastCool, trips, closed>>

\* The clock moves; a critical section is too short to see it move.
TimePasses ==
    /\ mu = Free
    /\ since' = Least(IdleCap, since + 1)
    /\ cool' = [l \in Lanes |-> Most(0, cool[l] - 1)]
    /\ window' = [l \in Lanes |-> Most(0, window[l] - 1)]
    /\ timer' = [l \in Lanes |-> IF timer[l] = Off THEN Off ELSE Most(0, timer[l] - 1)]
    /\ UNCHANGED <<pc, queue, seqNo, seq, dispatched, cancelled, inFlight, lastCool,
                   ticking, tokens, trips, closed, mu>>

Next ==
    \/ \E c \in Calls : \/ Refuse(c) \/ Enqueue(c) \/ Ready(c) \/ Abandon(c)
                        \/ Release(c) \/ Trip(c)
    \/ \E l \in Lanes : Dispatch(l) \/ EndKick(l) \/ Fire(l) \/ Tick(l)
    \/ Close \/ Snapshot \/ TimePasses

Spec == Init /\ [][Next]_vars

(***************************************************************************)
(* What the code's scheduling guarantees: a critical section ends, the     *)
(* clock moves, a due timer fires, a woken goroutine runs, and Go's mutex  *)
(* (which hands over after 1 ms of starvation) lets a blocked locker in.   *)
(* gqlQueryAt and doREST release on every path and HTTP round trips end.   *)
(* Nothing obliges a context to be cancelled, a timeout to be the way out, *)
(* or the scheduler to be closed: no fairness on Abandon or Close.         *)
(***************************************************************************)
Fairness ==
    /\ \A l \in Lanes : /\ WF_vars(Dispatch(l)) /\ WF_vars(EndKick(l))
                        /\ WF_vars(Fire(l)) /\ SF_vars(Tick(l))
    /\ \A c \in Calls : WF_vars(Ready(c)) /\ SF_vars(Release(c))
    /\ SF_vars(TimePasses)

FairSpec == Spec /\ Fairness

-----------------------------------------------------------------------------
(* Properties.                                                             *)

\* Type correctness of the scheduler's state.
TypeOK ==
    /\ pc \in [Calls -> {"idle", "waiting", "holding", "limited", "done", "refused"}]
    /\ queue \in [Lanes -> SUBSET Calls]
    /\ seqNo \in [Calls -> Nat] /\ seq \in Nat
    /\ dispatched \in SUBSET Calls /\ cancelled \in SUBSET Calls
    /\ inFlight \in [Lanes -> Nat]
    /\ cool \in [Lanes -> Nat] /\ window \in [Lanes -> Nat] /\ lastCool \in [Lanes -> Nat]
    /\ timer \in [Lanes -> Nat \cup {Off}] /\ ticking \in [Lanes -> BOOLEAN]
    /\ tokens \in Int /\ since \in Nat
    /\ trips \in Nat /\ closed \in BOOLEAN
    /\ mu \in Lanes \cup {Free}

(***************************************************************************)
(* No lost wake-up: whenever the lock is free and calls are queued in a    *)
(* lane of an open scheduler, something is going to look at that lane      *)
(* again: a full lane's releases, an armed timer, or a callback already on *)
(* its way (kickLocked's "a Release will kick again" and its timer).       *)
(***************************************************************************)
NoLostWakeup ==
    \A l \in Lanes :
        mu # l /\ ~ closed /\ queue[l] # {} =>
            inFlight[l] >= MaxInFlight[l] \/ timer[l] # Off \/ ticking[l]

\* The head of lane l could be dispatched at this very moment.
Admissible(l) ==
    /\ inFlight[l] < MaxInFlight[l] /\ cool[l] = 0
    /\ \E c \in queue[l] : IsHead(c, l) /\ (l = GraphQL => Refill(tokens) >= Want(c))

(***************************************************************************)
(* The wake-up is never late: a head that the budget, the cooldown and the *)
(* slots would admit now has its timer due now, or the callback running,   *)
(* although refills are lazy, the other lane refills the shared bucket,    *)
(* and corrections and 429s move the level between two evaluations.        *)
(***************************************************************************)
WorkConserving ==
    \A l \in Lanes : mu # l /\ ~ closed /\ Admissible(l) => timer[l] = 0 \/ ticking[l]

\* The calls that occupy a slot of lane l: dispatched and not yet released.
Occupants(l) == {c \in dispatched : LaneOf(c) = l /\ pc[c] \in {"waiting", "holding"}}

(***************************************************************************)
(* Slots are never leaked or double-counted: a lane's inFlight is the      *)
(* number of calls that were dispatched and have not released, including   *)
(* those dispatched while they were abandoning, and is within the limit.   *)
(***************************************************************************)
SlotsMatchHolders ==
    \A l \in Lanes : /\ inFlight[l] = Cardinality(Occupants(l))
                    /\ inFlight[l] <= MaxInFlight[l]

(***************************************************************************)
(* A grant and a cancellation never meet: a call in a heap is still        *)
(* waiting and was neither dispatched nor cancelled (so the branch of      *)
(* kickLocked that pops cancelled heads is dead code), a caller that goes  *)
(* on to make its request was dispatched, and no call is both dispatched   *)
(* and cancelled, whatever the order of dispatch, abandon and Close.       *)
(***************************************************************************)
GrantXorCancel ==
    /\ \A l \in Lanes : \A c \in queue[l] :
          LaneOf(c) = l /\ pc[c] = "waiting" /\ c \notin dispatched \cup cancelled
    /\ \A c \in Calls :
          /\ pc[c] \in {"holding", "limited", "done"} => c \in dispatched
          /\ c \in dispatched \cup cancelled => pc[c] # "idle"
    /\ dispatched \cap cancelled = {}

(***************************************************************************)
(* Strict priority, first come first served within a class: a call is      *)
(* never dispatched past one of its lane that is more urgent, or as urgent *)
(* and older ("a P2 never dispatches while a P0 waits").                   *)
(***************************************************************************)
StrictPriority ==
    [][\A c \in dispatched' \ dispatched : \A d \in queue'[LaneOf(c)] :
         Prio(c) < Prio(d) \/ (Prio(c) = Prio(d) /\ seqNo[c] < seqNo[d])]_vars

(***************************************************************************)
(* Reserve floors: what is left in the bucket after a call took its points *)
(* is at least its class's reserve, "so a click always finds something     *)
(* left" (Config.ReserveFloor).                                            *)
(***************************************************************************)
ReserveKept ==
    [][\A c \in dispatched' \ dispatched :
         LaneOf(c) = GraphQL => tokens' >= ReserveFloor[Prio(c)]]_vars

\* A real 429 stops its lane: nothing is dispatched while it cools down.
CooldownHonoured ==
    [][\A c \in dispatched' \ dispatched : cool[LaneOf(c)] = 0]_vars

(***************************************************************************)
(* Every queued call stops waiting, with a slot or with a refusal, without *)
(* any help from its context's deadline: no waiter is forgotten by a       *)
(* dispatch, a cooldown, a correction or Close.                            *)
(***************************************************************************)
EveryWaitEnds == \A c \in Calls : pc[c] = "waiting" ~> pc[c] # "waiting"

(***************************************************************************)
(* docs/quota/STATUS.md on a lane in cooldown: "A P0 waits it out (bounded *)
(* by its deadline); P1/P2 are refused with the countdown."                *)
(***************************************************************************)
BackgroundRefusedInCooldown ==
    [][\A c \in Calls : pc[c] = "idle" /\ pc'[c] = "waiting" /\ Prio(c) > 0 =>
         cool[LaneOf(c)] = 0]_vars
=============================================================================
