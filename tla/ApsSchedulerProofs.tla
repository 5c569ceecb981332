------------------------- MODULE ApsSchedulerProofs -------------------------
(***************************************************************************)
(* Theorems about ApsScheduler, for every set of calls and configuration.  *)
(*                                                                         *)
(* Typing needs slot accounting (inFlight-- stays a natural number only    *)
(* because a releasing call occupies a slot), and slot accounting needs to *)
(* know which calls can be dispatched at all; the three are inductive      *)
(* together.  NoLostWakeup is inductive on top of typing; that a wake-up   *)
(* is never late needs what an armed timer promises (TimersInTime).        *)
(***************************************************************************)
EXTENDS ApsScheduler, FiniteSetTheorems, SequenceTheorems, TLAPS

IndInv == TypeOK /\ SlotsMatchHolders /\ GrantXorCancel

(***************************************************************************)
(* The state a kick leaves behind is well typed whatever level the bucket  *)
(* was corrected to (kickLocked's prologue).                               *)
(***************************************************************************)
LEMMA KickType ==
    ASSUME TypeOK, NEW l \in Lanes, NEW t \in Int, Kick(l, t)
    PROVE  /\ mu' \in Lanes \cup {Free}
           /\ timer' \in [Lanes -> Nat \cup {Off}]
           /\ tokens' \in Int /\ since' \in Nat
BY ConfigAssumption DEF Kick, TypeOK, Refill, Least, Off

\* A request (Request, as Acquire clamps it) has a lane, a cost, a priority.
LEMMA RequestType ==
    ASSUME NEW c \in Calls
    PROVE  LaneOf(c) \in Lanes /\ CostOf(c) \in Nat /\ Prio(c) \in Priorities
BY ReqAssumption DEF LaneOf, CostOf, Prio, Request, Lanes

\* bucket.deficitWait never asks for a negative wait.
LEMMA DeficitWaitType ==
    ASSUME NEW t \in Int, NEW want \in Int
    PROVE  DeficitWait(t, want) \in Nat
<1>1. CASE t >= want
  BY <1>1 DEF DeficitWait
<1>2. CASE ~ (t >= want)
  <2>1. want - t + RefillPer - 1 \in Nat
    BY <1>2, ConfigAssumption
  <2> DEFINE n == want - t + RefillPer - 1
  <2>2. n \div RefillPer \in Nat
    <3> HIDE DEF n
    <3> QED BY <2>1, ConfigAssumption DEF n
  <2> QED BY <1>2, <2>2 DEF DeficitWait
<1> QED BY <1>1, <1>2

\* The wait kickLocked arms its timer with is a natural number.
LEMMA HeadWaitType ==
    ASSUME TypeOK, NEW l \in Lanes, NEW c \in Calls
    PROVE  HeadWait(c, l) \in Nat
<1>1. Want(c) \in Nat
  BY RequestType, ConfigAssumption DEF Want
<1>2. tokens \in Int /\ Want(c) \in Int
  BY <1>1 DEF TypeOK
<1>3. DeficitWait(tokens, Want(c)) \in Nat
  BY <1>2, DeficitWaitType, Zenon
<1> QED BY <1>3 DEF HeadWait, TypeOK

\* The occupants of a lane are finitely many, so they can be counted.
LEMMA OccupantsFinite ==
    ASSUME TypeOK, NEW l \in Lanes
    PROVE  IsFiniteSet(Occupants(l)) /\ Cardinality(Occupants(l)) \in Nat
<1>1. Occupants(l) \subseteq Calls
  BY DEF Occupants, TypeOK
<1> QED BY <1>1, CallsFinite, FS_Subset, FS_CardinalityType

(***************************************************************************)
(* Slot accounting: how each kind of step moves a lane's occupants.  A     *)
(* step that moves none keeps the count; a dispatch adds one occupant, a   *)
(* release removes one.                                                    *)
(***************************************************************************)
LEMMA SlotsKept ==
    ASSUME SlotsMatchHolders, inFlight' = inFlight,
           \A l \in Lanes : Occupants(l)' = Occupants(l)
    PROVE  SlotsMatchHolders'
BY DEF SlotsMatchHolders

LEMMA SlotsGained ==
    ASSUME TypeOK, SlotsMatchHolders, NEW l \in Lanes, NEW c \in Calls,
           c \notin Occupants(l), inFlight[l] < MaxInFlight[l],
           inFlight' = [inFlight EXCEPT ![l] = @ + 1],
           Occupants(l)' = Occupants(l) \cup {c},
           \A k \in Lanes \ {l} : Occupants(k)' = Occupants(k)
    PROVE  SlotsMatchHolders'
<1> SUFFICES ASSUME NEW k \in Lanes
             PROVE  /\ inFlight'[k] = Cardinality(Occupants(k)')
                    /\ inFlight'[k] <= MaxInFlight[k]
  BY DEF SlotsMatchHolders
<1>1. CASE k = l
  <2>1. Cardinality(Occupants(l)') = Cardinality(Occupants(l)) + 1
    BY OccupantsFinite, FS_AddElement
  <2>2. Occupants(k)' = Occupants(l)' /\ Occupants(k) = Occupants(l)
    BY <1>1 DEF Occupants
  <2>3. inFlight[l] \in Nat /\ MaxInFlight[l] \in Nat
    BY ConfigAssumption DEF TypeOK
  <2>4. inFlight'[l] = inFlight[l] + 1 /\ inFlight[l] = Cardinality(Occupants(l))
    BY DEF TypeOK, SlotsMatchHolders
  <2> QED BY <1>1, <2>1, <2>2, <2>3, <2>4
<1>2. CASE k # l
  BY <1>2, ConfigAssumption DEF SlotsMatchHolders, TypeOK
<1> QED BY <1>1, <1>2

LEMMA SlotsLost ==
    ASSUME TypeOK, SlotsMatchHolders, NEW l \in Lanes, NEW c \in Occupants(l),
           inFlight' = [inFlight EXCEPT ![l] = @ - 1],
           Occupants(l)' = Occupants(l) \ {c},
           \A k \in Lanes \ {l} : Occupants(k)' = Occupants(k)
    PROVE  SlotsMatchHolders' /\ inFlight' \in [Lanes -> Nat]
<1>1. /\ Cardinality(Occupants(l)') = Cardinality(Occupants(l)) - 1
      /\ Cardinality(Occupants(l)') \in Nat
  BY OccupantsFinite, FS_RemoveElement, FS_CardinalityType
<1>2. ASSUME NEW k \in Lanes
      PROVE  /\ inFlight'[k] = Cardinality(Occupants(k)')
             /\ inFlight'[k] <= MaxInFlight[k]
             /\ inFlight'[k] \in Nat
  <2>1. CASE k = l
    <3>1. Occupants(k)' = Occupants(l)' /\ Occupants(k) = Occupants(l)
      BY <2>1 DEF Occupants
    <3>2. inFlight[l] \in Nat /\ MaxInFlight[l] \in Nat /\ inFlight[l] <= MaxInFlight[l]
      BY ConfigAssumption DEF TypeOK, SlotsMatchHolders
    <3>3. inFlight'[l] = inFlight[l] - 1 /\ inFlight[l] = Cardinality(Occupants(l))
      BY DEF TypeOK, SlotsMatchHolders
    <3> QED BY <1>1, <2>1, <3>1, <3>2, <3>3
  <2>2. CASE k # l
    BY <2>2, ConfigAssumption DEF SlotsMatchHolders, TypeOK
  <2> QED BY <2>1, <2>2
<1>3. SlotsMatchHolders'
  BY <1>2 DEF SlotsMatchHolders
<1> QED BY <1>2, <1>3 DEF TypeOK

\* The initial state (New) satisfies the inductive invariant.
LEMMA InitInd == Init => IndInv
<1> SUFFICES ASSUME Init PROVE IndInv
  OBVIOUS
<1>1. TypeOK
  <2>1. tokens \in Int
    BY ConfigAssumption DEF Init
  <2> QED BY <2>1 DEF Init, TypeOK
<1>2. SlotsMatchHolders
  <2>1. \A l \in Lanes : Occupants(l) = {}
    BY DEF Init, Occupants
  <2>2. \A l \in Lanes : inFlight[l] = 0 /\ MaxInFlight[l] \in Nat
    BY ConfigAssumption DEF Init
  <2>3. Cardinality({}) = 0
    BY FS_EmptySet
  <2> QED BY <2>1, <2>2, <2>3 DEF SlotsMatchHolders
<1>3. GrantXorCancel
  BY DEF Init, GrantXorCancel
<1> QED BY <1>1, <1>2, <1>3 DEF IndInv

\* The steps of a call's Acquire and Release protocol preserve it.
LEMMA CallInd ==
    ASSUME IndInv, NEW c \in Calls,
           Refuse(c) \/ Enqueue(c) \/ Ready(c) \/ Abandon(c) \/ Release(c) \/ Trip(c)
    PROVE  IndInv'
<1> USE DEF IndInv
<1>0. LaneOf(c) \in Lanes /\ CostOf(c) \in Nat
  BY RequestType
<1>1. CASE Refuse(c)
  <2>1. TypeOK'
    BY <1>1, ConfigAssumption DEF Refuse, TypeOK, Refill, Least
  <2>2. \A l \in Lanes : Occupants(l)' = Occupants(l)
    BY <1>1 DEF Refuse, Occupants, TypeOK, GrantXorCancel
  <2>3. GrantXorCancel'
    BY <1>1 DEF Refuse, GrantXorCancel, TypeOK
  <2> QED BY <1>1, <2>1, <2>2, <2>3, SlotsKept DEF Refuse
<1>2. CASE Enqueue(c)
  <2>1. Kick(LaneOf(c), tokens)
    BY <1>2 DEF Enqueue
  <2>2. TypeOK'
    BY <1>0, <1>2, <2>1, KickType DEF Enqueue, TypeOK
  <2>3. \A l \in Lanes : Occupants(l)' = Occupants(l)
    BY <1>2 DEF Enqueue, Occupants, TypeOK, GrantXorCancel
  <2>4. GrantXorCancel'
    BY <1>0, <1>2 DEF Enqueue, GrantXorCancel, TypeOK
  <2> QED BY <1>2, <2>2, <2>3, <2>4, SlotsKept DEF Enqueue
<1>3. CASE Ready(c)
  <2>1. TypeOK'
    BY <1>3 DEF Ready, TypeOK
  <2>2. \A l \in Lanes : Occupants(l)' = Occupants(l)
    BY <1>3 DEF Ready, Occupants, TypeOK, GrantXorCancel
  <2>3. GrantXorCancel'
    BY <1>3 DEF Ready, GrantXorCancel, TypeOK
  <2> QED BY <1>3, <2>1, <2>2, <2>3, SlotsKept DEF Ready
<1>4. CASE Abandon(c) /\ c \in dispatched
  <2>1. TypeOK'
    BY <1>4 DEF Abandon, GiveUp, TypeOK
  <2>2. \A l \in Lanes : Occupants(l)' = Occupants(l)
    BY <1>4 DEF Abandon, GiveUp, Occupants, TypeOK, GrantXorCancel
  <2>3. GrantXorCancel'
    BY <1>4 DEF Abandon, GiveUp, GrantXorCancel, TypeOK
  <2> QED BY <1>4, <2>1, <2>2, <2>3, SlotsKept DEF Abandon
<1>5. CASE Abandon(c) /\ c \notin dispatched
  <2>1. Kick(LaneOf(c), tokens)
    BY <1>5 DEF Abandon, GiveUp
  <2>2. TypeOK'
    BY <1>0, <1>5, <2>1, KickType DEF Abandon, GiveUp, TypeOK
  <2>3. \A l \in Lanes : Occupants(l)' = Occupants(l)
    BY <1>5 DEF Abandon, GiveUp, Occupants, TypeOK, GrantXorCancel
  <2>4. GrantXorCancel'
    BY <1>0, <1>5 DEF Abandon, GiveUp, GrantXorCancel, TypeOK
  <2> QED BY <1>5, <2>2, <2>3, <2>4, SlotsKept DEF Abandon
<1>6. CASE Release(c)
  <2> DEFINE l == LaneOf(c)
  <2>1. PICK actual \in Actuals : Kick(l, Correct(tokens, c, actual))
    BY <1>6 DEF Release
  <2>2. Correct(tokens, c, actual) \in Int
    BY <1>0, ConfigAssumption, InputAssumption DEF Correct, Least, TypeOK
  <2>3. c \in Occupants(l)
    BY <1>6 DEF Release, Occupants, GrantXorCancel
  <2>4. /\ Occupants(l)' = Occupants(l) \ {c}
        /\ \A k \in Lanes \ {l} : Occupants(k)' = Occupants(k)
    BY <1>6 DEF Release, Occupants, TypeOK
  <2>5. inFlight' = [inFlight EXCEPT ![l] = @ - 1]
    BY <1>6 DEF Release
  <2>6. SlotsMatchHolders' /\ inFlight' \in [Lanes -> Nat]
    BY <1>0, <2>3, <2>4, <2>5, SlotsLost
  <2>7. TypeOK'
    BY <1>0, <1>6, <2>1, <2>2, <2>6, KickType DEF Release, TypeOK
  <2>8. GrantXorCancel'
    BY <1>6 DEF Release, GrantXorCancel, TypeOK
  <2> QED BY <2>6, <2>7, <2>8
<1>7. CASE Trip(c)
  <2> DEFINE l == LaneOf(c)
  <2>1. PICK retryAfter \in RetryAfters, remaining \in Remainings :
           /\ cool' = [cool EXCEPT ![l] = Most(@, Cooldown(l, retryAfter))]
           /\ window' = [window EXCEPT ![l] = Minute]
           /\ lastCool' = [lastCool EXCEPT ![l] = Cooldown(l, retryAfter)]
           /\ Kick(l, IF l = GraphQL /\ remaining # NoRemaining
                      THEN SetLevel(tokens, remaining - Headroom) ELSE tokens)
    BY <1>7 DEF Trip
  <2>2. Cooldown(l, retryAfter) \in Nat
    BY <1>0, ConfigAssumption, InputAssumption DEF Cooldown, Least, TypeOK
  <2>3. (IF l = GraphQL /\ remaining # NoRemaining
         THEN SetLevel(tokens, remaining - Headroom) ELSE tokens) \in Int
    BY ConfigAssumption, InputAssumption DEF SetLevel, Least, Most, TypeOK, NoRemaining
  <2>4. /\ mu' \in Lanes \cup {Free} /\ timer' \in [Lanes -> Nat \cup {Off}]
        /\ tokens' \in Int /\ since' \in Nat
    BY <1>0, <2>1, <2>3, KickType
  <2>5. TypeOK'
    <3>1. cool' \in [Lanes -> Nat]
      BY <1>0, <2>1, <2>2 DEF TypeOK, Most
    <3>2. window' \in [Lanes -> Nat] /\ lastCool' \in [Lanes -> Nat]
      BY <1>0, <2>1, <2>2, ConfigAssumption DEF TypeOK
    <3>3. trips' \in Nat /\ pc' = [pc EXCEPT ![c] = "done"]
      BY <1>7 DEF Trip, TypeOK
    <3> QED BY <1>7, <2>4, <3>1, <3>2, <3>3 DEF Trip, TypeOK
  <2>6. \A k \in Lanes : Occupants(k)' = Occupants(k)
    BY <1>7 DEF Trip, Occupants, TypeOK
  <2>7. GrantXorCancel'
    BY <1>7 DEF Trip, GrantXorCancel, TypeOK
  <2> QED BY <1>7, <2>5, <2>6, <2>7, SlotsKept DEF Trip
<1> QED BY <1>1, <1>2, <1>3, <1>4, <1>5, <1>6, <1>7

\* So do the steps of a lane: dispatching, arming its timer, waking up.
LEMMA LaneInd ==
    ASSUME IndInv, NEW l \in Lanes,
           Dispatch(l) \/ EndKick(l) \/ Fire(l) \/ Tick(l)
    PROVE  IndInv'
<1> USE DEF IndInv
<1>1. CASE Dispatch(l)
  <2>1. PICK c \in queue[l] :
           /\ CanGo(c, l)
           /\ queue' = [queue EXCEPT ![l] = @ \ {c}]
           /\ inFlight' = [inFlight EXCEPT ![l] = @ + 1]
           /\ tokens' = IF l = GraphQL THEN tokens - CostOf(c) ELSE tokens
           /\ dispatched' = dispatched \cup {c}
    BY <1>1 DEF Dispatch
  <2>2. c \in Calls /\ CostOf(c) \in Nat /\ LaneOf(c) = l /\ pc[c] = "waiting"
        /\ c \notin dispatched \cup cancelled
    BY RequestType DEF TypeOK, GrantXorCancel
  <2>3. /\ Occupants(l)' = Occupants(l) \cup {c} /\ c \notin Occupants(l)
        /\ \A k \in Lanes \ {l} : Occupants(k)' = Occupants(k)
    BY <1>1, <2>1, <2>2 DEF Dispatch, Occupants
  <2>4. SlotsMatchHolders'
    BY <2>1, <2>2, <2>3, SlotsGained DEF CanGo
  <2>5. inFlight' \in [Lanes -> Nat] /\ tokens' \in Int
    BY <2>1, <2>2 DEF TypeOK
  <2>6. TypeOK'
    BY <1>1, <2>1, <2>2, <2>5 DEF Dispatch, TypeOK
  <2>7. GrantXorCancel'
    BY <1>1, <2>1, <2>2 DEF Dispatch, GrantXorCancel, TypeOK
  <2> QED BY <2>4, <2>6, <2>7
<1>2. CASE EndKick(l)
  <2>1. timer' \in [Lanes -> Nat \cup {Off}]
    <3>1. CASE UNCHANGED timer
      BY <3>1 DEF TypeOK
    <3>2. CASE timer' # timer
      <4>1. PICK c \in queue[l] : timer' = [timer EXCEPT ![l] = HeadWait(c, l)]
        BY <1>2, <3>2 DEF EndKick
      <4>2. HeadWait(c, l) \in Nat
        BY <4>1, HeadWaitType DEF TypeOK
      <4> QED BY <4>1, <4>2 DEF TypeOK
    <3> QED BY <3>1, <3>2
  <2>2. TypeOK'
    BY <1>2, <2>1 DEF EndKick, TypeOK
  <2>3. \A k \in Lanes : Occupants(k)' = Occupants(k)
    BY <1>2 DEF EndKick, Occupants
  <2>4. GrantXorCancel'
    BY <1>2 DEF EndKick, GrantXorCancel
  <2> QED BY <1>2, <2>2, <2>3, <2>4, SlotsKept DEF EndKick
<1>3. CASE Fire(l)
  <2>1. TypeOK'
    BY <1>3 DEF Fire, TypeOK
  <2>2. \A k \in Lanes : Occupants(k)' = Occupants(k)
    BY <1>3 DEF Fire, Occupants
  <2>3. GrantXorCancel'
    BY <1>3 DEF Fire, GrantXorCancel
  <2> QED BY <1>3, <2>1, <2>2, <2>3, SlotsKept DEF Fire
<1>4. CASE Tick(l)
  <2>1. /\ mu' \in Lanes \cup {Free} /\ timer' \in [Lanes -> Nat \cup {Off}]
        /\ tokens' \in Int /\ since' \in Nat
    <3>1. CASE closed
      BY <1>4, <3>1 DEF Tick, TypeOK
    <3>2. CASE ~ closed
      <4>1. Kick(l, tokens) /\ tokens \in Int
        BY <1>4, <3>2 DEF Tick, TypeOK
      <4> QED BY <4>1, KickType
    <3> QED BY <3>1, <3>2
  <2>2. TypeOK'
    BY <1>4, <2>1 DEF Tick, TypeOK
  <2>3. \A k \in Lanes : Occupants(k)' = Occupants(k)
    BY <1>4 DEF Tick, Occupants
  <2>4. GrantXorCancel'
    BY <1>4 DEF Tick, GrantXorCancel
  <2> QED BY <1>4, <2>2, <2>3, <2>4, SlotsKept DEF Tick
<1> QED BY <1>1, <1>2, <1>3, <1>4

\* And the steps of the whole scheduler: Close, Snapshot, the clock.
LEMMA GlobalInd ==
    ASSUME IndInv, Close \/ Snapshot \/ TimePasses \/ UNCHANGED vars
    PROVE  IndInv'
<1> USE DEF IndInv
<1>1. CASE Close
  <2>1. TypeOK'
    BY <1>1 DEF Close, TypeOK
  <2>2. \A k \in Lanes : Occupants(k)' = Occupants(k)
    BY <1>1 DEF Close, Occupants
  <2>3. GrantXorCancel'
    BY <1>1 DEF Close, GrantXorCancel, TypeOK
  <2> QED BY <1>1, <2>1, <2>2, <2>3, SlotsKept DEF Close
<1>2. CASE Snapshot
  <2>1. TypeOK'
    BY <1>2, ConfigAssumption DEF Snapshot, TypeOK, Refill, Least
  <2>2. \A k \in Lanes : Occupants(k)' = Occupants(k)
    BY <1>2 DEF Snapshot, Occupants
  <2>3. GrantXorCancel'
    BY <1>2 DEF Snapshot, GrantXorCancel
  <2> QED BY <1>2, <2>1, <2>2, <2>3, SlotsKept DEF Snapshot
<1>3. CASE TimePasses
  <2>1. TypeOK'
    BY <1>3, ConfigAssumption DEF TimePasses, TypeOK, Least, Most, Off
  <2>2. \A k \in Lanes : Occupants(k)' = Occupants(k)
    BY <1>3 DEF TimePasses, Occupants
  <2>3. GrantXorCancel'
    BY <1>3 DEF TimePasses, GrantXorCancel
  <2> QED BY <1>3, <2>1, <2>2, <2>3, SlotsKept DEF TimePasses
<1>4. CASE UNCHANGED vars
  <2>1. TypeOK'
    BY <1>4 DEF vars, TypeOK
  <2>2. \A k \in Lanes : Occupants(k)' = Occupants(k)
    BY <1>4 DEF vars, Occupants
  <2>3. GrantXorCancel'
    BY <1>4 DEF vars, GrantXorCancel
  <2> QED BY <1>4, <2>1, <2>2, <2>3, SlotsKept DEF vars
<1> QED BY <1>1, <1>2, <1>3, <1>4

\* IndInv is an invariant of the scheduler.
LEMMA Inductive == Spec => []IndInv
<1>1. IndInv /\ [Next]_vars => IndInv'
  BY CallInd, LaneInd, GlobalInd DEF Next
<1> QED BY InitInd, <1>1, PTL DEF Spec

(***************************************************************************)
(* Type correctness of the scheduler's state under every operation; in     *)
(* particular inFlight-- in releaseFor never takes a lane below zero, and  *)
(* no dispatch takes it above the lane's limit.                            *)
(***************************************************************************)
InFlightInRange == \A l \in Lanes : inFlight[l] \in 0..MaxInFlight[l]

THEOREM TypeCorrect == Spec => [](TypeOK /\ InFlightInRange)
<1>1. IndInv => TypeOK /\ InFlightInRange
  <2> SUFFICES ASSUME IndInv PROVE InFlightInRange
    BY DEF IndInv
  <2>1. ASSUME NEW l \in Lanes PROVE inFlight[l] \in 0..MaxInFlight[l]
    <3>1. inFlight[l] \in Nat /\ MaxInFlight[l] \in Nat
      BY ConfigAssumption DEF IndInv, TypeOK
    <3>2. inFlight[l] <= MaxInFlight[l]
      BY DEF IndInv, SlotsMatchHolders
    <3> QED BY <3>1, <3>2
  <2> QED BY <2>1 DEF InFlightInRange
<1> QED BY Inductive, <1>1, PTL

(***************************************************************************)
(* Slots are never leaked or granted past the limit: inFlight is always    *)
(* the number of dispatched calls that have not released.                  *)
(***************************************************************************)
THEOREM SlotAccounting == Spec => []SlotsMatchHolders
<1>1. IndInv => SlotsMatchHolders
  BY DEF IndInv
<1> QED BY Inductive, <1>1, PTL

(***************************************************************************)
(* Dispatch, abandon and Close agree on every call: it is granted a slot   *)
(* or cancelled, never both, and a cancelled call is in no queue.          *)
(***************************************************************************)
THEOREM GrantsExclusive == Spec => []GrantXorCancel
<1>1. IndInv => GrantXorCancel
  BY DEF IndInv
<1> QED BY Inductive, <1>1, PTL

-----------------------------------------------------------------------------
(* Wake-ups.                                                               *)

(***************************************************************************)
(* A step that only kicks lane l (kickLocked's prologue) leaves the other  *)
(* lanes their wake-up, and lane l is being looked at.                     *)
(***************************************************************************)
LEMMA KickWakes ==
    ASSUME TypeOK, NoLostWakeup, NEW l \in Lanes, NEW t, Kick(l, t), mu = Free,
           closed' = closed,
           \A k \in Lanes \ {l} : /\ queue'[k] = queue[k] /\ inFlight'[k] = inFlight[k]
                                  /\ ticking'[k] = ticking[k]
    PROVE  NoLostWakeup'
<1> SUFFICES ASSUME NEW k \in Lanes, mu' # k, ~ closed', queue'[k] # {}
             PROVE  inFlight'[k] >= MaxInFlight[k] \/ timer'[k] # Off \/ ticking'[k]
  BY DEF NoLostWakeup
<1>1. k # l /\ timer'[k] = timer[k]
  BY DEF Kick, TypeOK
<1>2. mu # k
  BY DEF Free, Lanes, GraphQL, REST
<1> QED BY <1>1, <1>2 DEF NoLostWakeup

(***************************************************************************)
(* No lost wake-up: as long as the scheduler is open, a lane with queued   *)
(* calls is full, has its timer armed or its callback on the way.          *)
(***************************************************************************)
THEOREM WakeupsKept == Spec => []NoLostWakeup
<1>1. Init => NoLostWakeup
  BY DEF Init, NoLostWakeup
<1>2. IndInv /\ NoLostWakeup /\ [Next]_vars => NoLostWakeup'
  <2> SUFFICES ASSUME IndInv, NoLostWakeup, [Next]_vars PROVE NoLostWakeup'
    OBVIOUS
  <2> USE DEF IndInv
  <2>1. ASSUME NEW c \in Calls, Refuse(c) PROVE NoLostWakeup'
    BY <2>1 DEF Refuse, NoLostWakeup
  <2>2. ASSUME NEW c \in Calls, Enqueue(c) PROVE NoLostWakeup'
    BY <2>2, RequestType, KickWakes DEF Enqueue, TypeOK
  <2>3. ASSUME NEW c \in Calls, Ready(c) PROVE NoLostWakeup'
    BY <2>3 DEF Ready, NoLostWakeup
  <2>4. ASSUME NEW c \in Calls, Abandon(c) PROVE NoLostWakeup'
    <3>1. CASE c \in dispatched
      BY <2>4, <3>1 DEF Abandon, GiveUp, NoLostWakeup
    <3>2. CASE c \notin dispatched
      BY <2>4, <3>2, RequestType, KickWakes DEF Abandon, GiveUp, TypeOK
    <3> QED BY <3>1, <3>2
  <2>5. ASSUME NEW c \in Calls, Release(c) PROVE NoLostWakeup'
    <3>1. PICK actual \in Actuals : Kick(LaneOf(c), Correct(tokens, c, actual))
      BY <2>5 DEF Release
    <3> QED BY <2>5, <3>1, RequestType, KickWakes DEF Release, TypeOK
  <2>6. ASSUME NEW c \in Calls, Trip(c) PROVE NoLostWakeup'
    <3>1. PICK t : Kick(LaneOf(c), t)
      BY <2>6 DEF Trip
    <3> QED BY <2>6, <3>1, RequestType, KickWakes DEF Trip, TypeOK
  <2>7. ASSUME NEW l \in Lanes, Dispatch(l) PROVE NoLostWakeup'
    BY <2>7 DEF Dispatch, NoLostWakeup, TypeOK
  <2>8. ASSUME NEW l \in Lanes, EndKick(l) PROVE NoLostWakeup'
    <3> SUFFICES ASSUME NEW k \in Lanes, mu' # k, ~ closed', queue'[k] # {},
                        inFlight'[k] < MaxInFlight[k]
                 PROVE  timer'[k] # Off \/ ticking'[k]
      BY <2>8, ConfigAssumption DEF NoLostWakeup, EndKick, TypeOK
    <3>1. CASE k = l
      <4>1. PICK c \in queue[l] : timer' = [timer EXCEPT ![l] = HeadWait(c, l)]
        BY <2>8, <3>1 DEF EndKick
      <4>2. HeadWait(c, l) \in Nat
        BY <4>1, HeadWaitType DEF TypeOK
      <4> QED BY <3>1, <4>1, <4>2 DEF TypeOK, Off
    <3>2. CASE k # l
      <4>1. timer'[k] = timer[k]
        BY <2>8, <3>2 DEF EndKick, TypeOK
      <4>2. inFlight[k] \in Nat /\ MaxInFlight[k] \in Nat
        BY ConfigAssumption DEF TypeOK
      <4> QED BY <2>8, <3>2, <4>1, <4>2 DEF EndKick, NoLostWakeup
    <3> QED BY <3>1, <3>2
  <2>9. ASSUME NEW l \in Lanes, Fire(l) PROVE NoLostWakeup'
    BY <2>9 DEF Fire, NoLostWakeup, TypeOK
  <2>10. ASSUME NEW l \in Lanes, Tick(l) PROVE NoLostWakeup'
    <3>1. CASE closed
      BY <2>10, <3>1 DEF Tick, NoLostWakeup
    <3>2. CASE ~ closed
      BY <2>10, <3>2, KickWakes DEF Tick, TypeOK
    <3> QED BY <3>1, <3>2
  <2>11. CASE Close
    BY <2>11 DEF Close, NoLostWakeup
  <2>12. CASE Snapshot
    BY <2>12 DEF Snapshot, NoLostWakeup
  <2>13. CASE TimePasses
    <3>1. \A k \in Lanes : timer[k] # Off => timer'[k] # Off
      BY <2>13 DEF TimePasses, TypeOK, Most, Off
    <3> QED BY <2>13, <3>1 DEF TimePasses, NoLostWakeup
  <2>14. CASE UNCHANGED vars
    BY <2>14 DEF vars, NoLostWakeup
  <2> QED BY <2>1, <2>2, <2>3, <2>4, <2>5, <2>6, <2>7, <2>8, <2>9, <2>10, <2>11,
             <2>12, <2>13, <2>14 DEF Next
<1> QED BY Inductive, <1>1, <1>2, PTL DEF Spec

-----------------------------------------------------------------------------
(* Wake-ups in time.                                                       *)

(***************************************************************************)
(* What an armed timer promises: until it fires, the head of the lane is   *)
(* held back by the cooldown, or by points that no refill brings before.   *)
(* A critical section has just refilled the bucket.                        *)
(***************************************************************************)
HeldBack(c, l) ==
    \/ cool[l] >= timer[l]
    \/ l = GraphQL /\ tokens + since * RefillPer + (timer[l] - 1) * RefillPer < Want(c)
TimersInTime ==
    /\ mu # Free => since = 0
    /\ \A l \in Lanes : mu # l /\ ~ closed /\ inFlight[l] < MaxInFlight[l] /\ timer[l] > 0 =>
           \A c \in queue[l] : IsHead(c, l) => HeldBack(c, l)

\* A lane has one head at most.
LEMMA OneHead ==
    ASSUME TypeOK, NEW l \in Lanes, NEW c, NEW d, IsHead(c, l), IsHead(d, l)
    PROVE  c = d
<1> SUFFICES ASSUME c # d PROVE FALSE
  OBVIOUS
<1>1. c \in Calls /\ d \in Calls /\ Precedes(c, d) /\ Precedes(d, c)
  BY DEF IsHead, TypeOK
<1>2. Prio(c) \in Int /\ Prio(d) \in Int /\ seqNo[c] \in Int /\ seqNo[d] \in Int
  BY <1>1, RequestType DEF TypeOK, Priorities
<1> QED BY <1>1, <1>2 DEF Precedes

\* deficitWait asks for the least number of ticks that brings enough.
LEMMA DeficitIsLeast ==
    ASSUME NEW t \in Int, NEW want \in Int, NEW n \in Nat, n = DeficitWait(t, want), n > 0
    PROVE  t + (n - 1) * RefillPer < want
<1>1. t < want /\ n = (want - t + RefillPer - 1) \div RefillPer
  BY DEF DeficitWait
<1> DEFINE m == want - t + RefillPer - 1
<1>2. m \in Nat /\ RefillPer \in Nat \ {0}
  BY <1>1, ConfigAssumption
<1>3. n * RefillPer <= m
  <2> HIDE DEF m
  <2>1. n = m \div RefillPer
    BY <1>1 DEF m
  <2> QED BY <1>2, <2>1
<1>4. (n - 1) * RefillPer = n * RefillPer - RefillPer /\ n * RefillPer \in Int
  BY <1>2
<1> QED BY <1>2, <1>3, <1>4

\* A refill moves elapsed time into the bucket and never credits more.
LEMMA RefillCredits ==
    ASSUME TypeOK, NEW t \in Int
    PROVE  Refill(t) \in Int /\ Refill(t) <= t + since * RefillPer /\ since * RefillPer \in Nat
<1>1. since * RefillPer \in Nat
  BY ConfigAssumption DEF TypeOK
<1> QED BY <1>1, ConfigAssumption DEF Refill, Least

\* A step that leaves lane l's queue, slots, cooldown and timer alone, and
\* the bucket or refills it, leaves its head held back.
LEMMA HeldStays ==
    ASSUME TypeOK, TimersInTime, NEW l \in Lanes, mu # l, ~ closed,
           inFlight[l] < MaxInFlight[l], timer'[l] = timer[l], timer[l] > 0,
           cool'[l] = cool[l], queue'[l] = queue[l], seqNo' = seqNo,
           \/ tokens' = tokens /\ since' = since
           \/ tokens' = Refill(tokens) /\ since' = 0,
           NEW c \in queue'[l], IsHead(c, l)'
    PROVE  HeldBack(c, l)'
<1>1. IsHead(c, l)
  BY DEF IsHead, Precedes
<1>2. HeldBack(c, l)
  BY <1>1 DEF TimersInTime
<1>3. UNCHANGED <<tokens, since>> => HeldBack(c, l)'
  BY <1>2 DEF HeldBack, Want
<1>4. ASSUME tokens' = Refill(tokens), since' = 0
      PROVE  HeldBack(c, l)'
  <2>1. c \in Calls /\ timer[l] \in Nat
    BY DEF TypeOK, Off
  <2>2. Want(c) \in Int /\ (timer[l] - 1) * RefillPer \in Int /\ 0 * RefillPer = 0
    BY <2>1, RequestType, ConfigAssumption DEF Want
  <2>3. /\ tokens' \in Int /\ tokens' <= tokens + since * RefillPer
        /\ since * RefillPer \in Int /\ tokens \in Int
    BY <1>4, RefillCredits DEF TypeOK
  <2>4. CASE cool[l] >= timer[l]
    BY <2>4 DEF HeldBack
  <2>5. CASE /\ l = GraphQL
             /\ tokens + since * RefillPer + (timer[l] - 1) * RefillPer < Want(c)
    <3>1. tokens' + since' * RefillPer + (timer[l] - 1) * RefillPer < Want(c)
      BY <1>4, <2>2, <2>3, <2>5
    <3> QED BY <2>5, <3>1 DEF HeldBack, Want
  <2> QED BY <1>2, <2>4, <2>5 DEF HeldBack
<1> QED BY <1>3, <1>4

\* A step that only kicks lane l leaves the heads of the others held back.
LEMMA KickInTime ==
    ASSUME TypeOK, TimersInTime, NEW l \in Lanes, NEW t \in Int, Kick(l, t), mu = Free,
           closed' = closed, l = GraphQL \/ t = tokens,
           \A k \in Lanes \ {l} : /\ queue'[k] = queue[k] /\ inFlight'[k] = inFlight[k]
                                  /\ cool'[k] = cool[k],
           \A k \in Lanes \ {l} : \A c \in queue[k] : seqNo'[c] = seqNo[c]
    PROVE  TimersInTime'
<1>1. since' = 0 /\ mu' = l /\ tokens' = Refill(t)
  BY DEF Kick
<1> SUFFICES ASSUME NEW k \in Lanes, mu' # k, ~ closed', inFlight'[k] < MaxInFlight[k],
                    timer'[k] > 0, NEW c \in queue'[k], IsHead(c, k)'
             PROVE  HeldBack(c, k)'
  BY <1>1 DEF TimersInTime
<1>2. k # l /\ timer'[k] = timer[k] /\ mu # k
  BY DEF Kick, TypeOK, Free, Lanes, GraphQL, REST
<1>3. HeldBack(c, k)
  BY <1>2 DEF TimersInTime, IsHead, Precedes
<1>4. cool[k] >= timer[k] => HeldBack(c, k)'
  BY <1>2 DEF HeldBack
<1>5. ASSUME k = GraphQL,
             tokens + since * RefillPer + (timer[k] - 1) * RefillPer < Want(c)
      PROVE  HeldBack(c, k)'
  <2>1. tokens' = Refill(tokens)
    BY <1>1, <1>2, <1>5
  <2>2. c \in Calls /\ timer[k] \in Nat
    BY <1>2 DEF TypeOK, Off
  <2>3. Want(c) \in Int /\ (timer[k] - 1) * RefillPer \in Int /\ 0 * RefillPer = 0
    BY <2>2, RequestType, ConfigAssumption DEF Want
  <2>4. /\ tokens' \in Int /\ tokens' <= tokens + since * RefillPer
        /\ since * RefillPer \in Int /\ tokens \in Int
    BY <2>1, RefillCredits DEF TypeOK
  <2>5. tokens' + since' * RefillPer + (timer'[k] - 1) * RefillPer < Want(c)
    BY <1>1, <1>2, <1>5, <2>3, <2>4
  <2> QED BY <1>5, <2>5 DEF HeldBack, Want
<1> QED BY <1>3, <1>4, <1>5 DEF HeldBack

\* A step that leaves every lane's queue, slots, cooldown and timer alone.
LEMMA QuietInTime ==
    ASSUME TypeOK, TimersInTime,
           mu' = mu, closed' = closed, inFlight' = inFlight, timer' = timer, cool' = cool,
           queue' = queue, seqNo' = seqNo,
           \/ tokens' = tokens /\ since' = since
           \/ tokens' = Refill(tokens) /\ since' = 0
    PROVE  TimersInTime'
<1>1. mu' # Free => since' = 0
  BY DEF TimersInTime
<1>2. ASSUME NEW l \in Lanes, mu' # l, ~ closed', inFlight'[l] < MaxInFlight[l], timer'[l] > 0,
             NEW c \in queue'[l], IsHead(c, l)'
      PROVE  HeldBack(c, l)'
  BY <1>2, HeldStays
<1> QED BY <1>1, <1>2 DEF TimersInTime

\* kickLocked arms its timer with the wait of the head it leaves.
LEMMA ArmedInTime ==
    ASSUME IndInv, TimersInTime, NEW l \in Lanes, EndKick(l)
    PROVE  TimersInTime'
<1> USE DEF IndInv
<1> SUFFICES ASSUME NEW k \in Lanes, ~ closed', inFlight'[k] < MaxInFlight[k], timer'[k] > 0,
                    NEW c \in queue'[k], IsHead(c, k)'
             PROVE  HeldBack(c, k)'
  BY DEF TimersInTime, EndKick
<1>1. CASE k # l
  <2>1. mu # k /\ timer'[k] = timer[k]
    BY <1>1 DEF EndKick, TypeOK
  <2> QED BY <1>1, <2>1, HeldStays DEF EndKick, IsHead, Precedes, HeldBack, Want
<1>2. CASE k = l
  <2>1. IsHead(c, l) /\ c \in queue[l] /\ c \in Calls
    BY <1>2 DEF EndKick, IsHead, Precedes, TypeOK
  <2>2. PICK d \in queue[l] : IsHead(d, l) /\ timer' = [timer EXCEPT ![l] = HeadWait(d, l)]
    BY <1>2, <2>1 DEF EndKick
  <2>3. timer'[l] = HeadWait(c, l)
    BY <2>1, <2>2, OneHead DEF TypeOK
  <2>4. since = 0 /\ UNCHANGED <<tokens, since, cool>>
    BY DEF EndKick, TimersInTime, Free, Lanes, GraphQL, REST
  <2>5. CASE cool[l] > 0
    BY <1>2, <2>3, <2>4, <2>5 DEF HeadWait, HeldBack, TypeOK
  <2>6. CASE ~ (cool[l] > 0)
    <3>1. l = GraphQL /\ timer'[l] = DeficitWait(tokens, Want(c))
      BY <1>2, <2>3, <2>6 DEF HeadWait
    <3>2. Want(c) \in Int /\ tokens \in Int
      BY <2>1, RequestType, ConfigAssumption DEF Want, TypeOK
    <3>3. DeficitWait(tokens, Want(c)) \in Nat
      BY <3>2, DeficitWaitType, Zenon
    <3>4. tokens + (timer'[l] - 1) * RefillPer < Want(c)
      BY <1>2, <3>1, <3>2, <3>3, DeficitIsLeast
    <3>5. 0 * RefillPer = 0
      BY ConfigAssumption
    <3>6. tokens' + since' * RefillPer + (timer'[l] - 1) * RefillPer < Want(c)
      BY <2>4, <3>2, <3>4, <3>5
    <3> QED BY <1>2, <3>1, <3>6 DEF HeldBack, Want
  <2> QED BY <2>5, <2>6
<1> QED BY <1>1, <1>2

\* The clock brings cooldown, timer and refill closer at the same pace.
LEMMA ClockInTime ==
    ASSUME TypeOK, TimersInTime, TimePasses
    PROVE  TimersInTime'
<1> SUFFICES ASSUME NEW l \in Lanes, ~ closed', inFlight'[l] < MaxInFlight[l], timer'[l] > 0,
                    NEW c \in queue'[l], IsHead(c, l)'
             PROVE  HeldBack(c, l)'
  BY DEF TimersInTime, TimePasses
<1>1. mu # l /\ UNCHANGED <<tokens, queue, inFlight, closed, seqNo>>
  BY DEF TimePasses, Free, Lanes, GraphQL, REST
<1>2. timer[l] \in Nat /\ timer[l] > 1 /\ timer'[l] = timer[l] - 1
  BY DEF TimePasses, TypeOK, Most, Off
<1>3. HeldBack(c, l) /\ c \in Calls
  BY <1>1, <1>2 DEF TimersInTime, IsHead, Precedes, TypeOK
<1>4. cool[l] \in Nat /\ cool'[l] >= cool[l] - 1 /\ cool'[l] \in Nat
  BY DEF TimePasses, TypeOK, Most
<1>5. since \in Nat /\ since' \in Nat /\ since' <= since + 1
  BY ConfigAssumption DEF TimePasses, TypeOK, Least
<1>6. since' * RefillPer + (timer'[l] - 1) * RefillPer
        <= since * RefillPer + (timer[l] - 1) * RefillPer
  <2> DEFINE a == since'
             b == timer[l]
             R == RefillPer
  <2>1. a \in Nat /\ a <= since + 1 /\ b \in Nat /\ R \in Nat /\ timer'[l] = b - 1
    BY <1>2, <1>5, ConfigAssumption
  <2> HIDE DEF a, b, R
  <2>2. a * R <= (since + 1) * R
    BY <1>5, <2>1
  <2>3. (since + 1) * R = since * R + R /\ (b - 1 - 1) * R = (b - 1) * R - R
    BY <1>5, <2>1
  <2>4. a * R \in Int /\ since * R \in Int /\ (b - 1) * R \in Int /\ (b - 1 - 1) * R \in Int
    BY <1>5, <2>1
  <2>5. a * R + (b - 1 - 1) * R <= since * R + (b - 1) * R
    BY <2>1, <2>2, <2>3, <2>4
  <2> QED BY <1>2, <2>5 DEF a, b, R
<1>7. CASE cool[l] >= timer[l]
  BY <1>2, <1>4, <1>7 DEF HeldBack
<1>8. CASE l = GraphQL /\ tokens + since * RefillPer + (timer[l] - 1) * RefillPer < Want(c)
  <2>1. tokens \in Int /\ Want(c) \in Int /\ RefillPer \in Int
    BY <1>3, RequestType, ConfigAssumption DEF Want, TypeOK
  <2>2. /\ since * RefillPer \in Int /\ since' * RefillPer \in Int
        /\ (timer[l] - 1) * RefillPer \in Int /\ (timer'[l] - 1) * RefillPer \in Int
    BY <1>2, <1>5, <2>1
  <2>3. tokens + since' * RefillPer + (timer'[l] - 1) * RefillPer < Want(c)
    BY <1>6, <1>8, <2>1, <2>2
  <2> QED BY <1>1, <1>8, <2>3 DEF HeldBack, Want
<1> QED BY <1>3, <1>7, <1>8 DEF HeldBack

(***************************************************************************)
(* Wake-ups in time: a head that the budget, the cooldown and the slots    *)
(* admit has its timer due or its callback running, although the bucket is *)
(* refilled lazily, by both lanes, and corrected in between.               *)
(***************************************************************************)
THEOREM WakeupsInTime == Spec => []WorkConserving
<1>1. Init => TimersInTime
  BY DEF Init, TimersInTime
<1>2. IndInv /\ TimersInTime /\ [Next]_vars => TimersInTime'
  <2> SUFFICES ASSUME IndInv, TimersInTime, [Next]_vars PROVE TimersInTime'
    OBVIOUS
  <2> USE DEF IndInv
  <2>0. tokens \in Int /\ Free \notin Lanes
    BY DEF TypeOK, Free, Lanes, GraphQL, REST
  <2>1. ASSUME NEW c \in Calls, Refuse(c) PROVE TimersInTime'
    BY <2>1, QuietInTime DEF Refuse
  <2>2. ASSUME NEW c \in Calls, Enqueue(c) PROVE TimersInTime'
    <3>1. \A k \in Lanes : \A d \in queue[k] : d \in Calls /\ seqNo'[d] = seqNo[d]
      BY <2>2 DEF Enqueue, TypeOK, GrantXorCancel
    <3> QED BY <2>0, <2>2, <3>1, RequestType, KickInTime DEF Enqueue, TypeOK
  <2>3. ASSUME NEW c \in Calls, Ready(c) PROVE TimersInTime'
    BY <2>3, QuietInTime DEF Ready
  <2>4. ASSUME NEW c \in Calls, Abandon(c) PROVE TimersInTime'
    <3>1. CASE c \in dispatched /\ c \notin cancelled /\ UNCHANGED queue
      BY <2>4, <3>1, QuietInTime DEF Abandon, GiveUp, GrantXorCancel
    <3>2. CASE c \notin dispatched
      BY <2>0, <2>4, <3>2, RequestType, KickInTime DEF Abandon, GiveUp, TypeOK
    <3> QED BY <2>4, <3>1, <3>2 DEF Abandon, GiveUp, GrantXorCancel
  <2>5. ASSUME NEW c \in Calls, Release(c) PROVE TimersInTime'
    <3>1. PICK actual \in Actuals : Kick(LaneOf(c), Correct(tokens, c, actual))
      BY <2>5 DEF Release
    <3>2. /\ Correct(tokens, c, actual) \in Int
          /\ LaneOf(c) = GraphQL \/ Correct(tokens, c, actual) = tokens
      BY <2>0, RequestType, ConfigAssumption, InputAssumption DEF Correct, Least
    <3> QED BY <2>5, <3>1, <3>2, RequestType, KickInTime DEF Release, TypeOK
  <2>6. ASSUME NEW c \in Calls, Trip(c) PROVE TimersInTime'
    <3> DEFINE l == LaneOf(c)
    <3>1. PICK retryAfter \in RetryAfters, remaining \in Remainings :
             /\ cool' = [cool EXCEPT ![l] = Most(@, Cooldown(l, retryAfter))]
             /\ Kick(l, IF l = GraphQL /\ remaining # NoRemaining
                        THEN SetLevel(tokens, remaining - Headroom) ELSE tokens)
      BY <2>6 DEF Trip
    <3> DEFINE t == IF l = GraphQL /\ remaining # NoRemaining
                    THEN SetLevel(tokens, remaining - Headroom) ELSE tokens
    <3>2. t \in Int /\ (l = GraphQL \/ t = tokens)
      BY <2>0, ConfigAssumption, InputAssumption DEF SetLevel, Least, Most, NoRemaining
    <3>3. \A k \in Lanes \ {l} : cool'[k] = cool[k]
      BY <3>1 DEF TypeOK
    <3>4. Kick(l, t) /\ l \in Lanes
      BY <3>1, RequestType
    <3> HIDE DEF t, l
    <3> QED BY <2>6, <3>2, <3>3, <3>4, KickInTime DEF Trip
  <2>7. ASSUME NEW l \in Lanes, Dispatch(l) PROVE TimersInTime'
    <3>1. since' = 0 /\ mu' = l
      BY <2>0, <2>7 DEF Dispatch, TimersInTime
    <3>2. ASSUME NEW k \in Lanes, k # l, ~ closed', inFlight'[k] < MaxInFlight[k],
                 timer'[k] > 0, NEW c \in queue'[k], IsHead(c, k)'
          PROVE  HeldBack(c, k)'
      <4>1. /\ mu # k /\ queue'[k] = queue[k] /\ inFlight'[k] = inFlight[k]
            /\ UNCHANGED <<cool, timer, since, seqNo, closed>>
            /\ k = GraphQL => UNCHANGED tokens
        BY <2>7, <3>2 DEF Dispatch, TypeOK
      <4>2. HeldBack(c, k)
        BY <3>2, <4>1 DEF TimersInTime, IsHead, Precedes
      <4> QED BY <4>1, <4>2 DEF HeldBack, Want
    <3> QED BY <3>1, <3>2 DEF TimersInTime
  <2>8. ASSUME NEW l \in Lanes, EndKick(l) PROVE TimersInTime'
    BY <2>8, ArmedInTime
  <2>9. ASSUME NEW l \in Lanes, Fire(l) PROVE TimersInTime'
    <3>1. mu' # Free => since' = 0
      BY <2>9 DEF Fire, TimersInTime
    <3>2. \A k \in Lanes : timer'[k] > 0 => timer'[k] = timer[k]
      BY <2>9 DEF Fire, TypeOK, Off
    <3>3. ASSUME NEW k \in Lanes, mu' # k, ~ closed', inFlight'[k] < MaxInFlight[k],
                 timer'[k] > 0, NEW c \in queue'[k], IsHead(c, k)'
          PROVE  HeldBack(c, k)'
      BY <2>9, <3>2, <3>3, HeldStays DEF Fire, IsHead, Precedes, HeldBack, Want
    <3> QED BY <3>1, <3>3 DEF TimersInTime
  <2>10. ASSUME NEW l \in Lanes, Tick(l) PROVE TimersInTime'
    <3>1. CASE closed
      BY <2>10, <3>1, QuietInTime DEF Tick
    <3>2. CASE ~ closed
      BY <2>0, <2>10, <3>2, KickInTime DEF Tick
    <3> QED BY <3>1, <3>2
  <2>11. CASE Close
    BY <2>11 DEF Close, TimersInTime
  <2>12. CASE Snapshot
    BY <2>12, QuietInTime DEF Snapshot
  <2>13. CASE TimePasses
    BY <2>13, ClockInTime
  <2>14. CASE UNCHANGED vars
    BY <2>14, QuietInTime DEF vars
  <2> QED BY <2>1, <2>2, <2>3, <2>4, <2>5, <2>6, <2>7, <2>8, <2>9, <2>10, <2>11,
             <2>12, <2>13, <2>14 DEF Next
<1>3. IndInv /\ NoLostWakeup /\ TimersInTime => WorkConserving
  <2> SUFFICES ASSUME IndInv, NoLostWakeup, TimersInTime, NEW l \in Lanes, mu # l, ~ closed,
                      Admissible(l), timer[l] # 0, ~ ticking[l]
               PROVE  FALSE
    BY DEF WorkConserving
  <2>1. PICK c \in queue[l] : IsHead(c, l) /\ (l = GraphQL => Refill(tokens) >= Want(c))
    BY DEF Admissible
  <2>2. inFlight[l] < MaxInFlight[l] /\ cool[l] = 0
    BY DEF Admissible
  <2>3. timer[l] \in Nat /\ timer[l] > 0
    BY <2>1, <2>2, ConfigAssumption DEF NoLostWakeup, IndInv, TypeOK, Off
  <2>4. /\ l = GraphQL
        /\ tokens + since * RefillPer + (timer[l] - 1) * RefillPer < Want(c)
    BY <2>1, <2>2, <2>3 DEF TimersInTime, HeldBack
  <2>5. /\ Refill(tokens) \in Int /\ Refill(tokens) <= tokens + since * RefillPer
        /\ since * RefillPer \in Int /\ tokens \in Int
    BY RefillCredits DEF IndInv, TypeOK
  <2>6. (timer[l] - 1) * RefillPer \in Nat /\ Want(c) \in Int
    BY <2>1, <2>3, RequestType, ConfigAssumption DEF Want, IndInv, TypeOK
  <2> QED BY <2>1, <2>4, <2>5, <2>6
<1> QED BY Inductive, WakeupsKept, <1>1, <1>2, <1>3, PTL DEF Spec

-----------------------------------------------------------------------------
(* What a dispatch may never do.                                           *)

\* Only kickLocked dispatches, and only the head of the lane it was called for.
LEMMA OnlyHeadsGo ==
    ASSUME IndInv, [Next]_vars, NEW c \in dispatched' \ dispatched
    PROVE  /\ c \in Calls /\ CanGo(c, LaneOf(c))
           /\ queue'[LaneOf(c)] = queue[LaneOf(c)] \ {c}
           /\ tokens' = IF LaneOf(c) = GraphQL THEN tokens - CostOf(c) ELSE tokens
<1>1. PICK l \in Lanes : Dispatch(l)
  BY DEF Next, vars, Refuse, Enqueue, Ready, Abandon, Release, Trip, EndKick, Fire, Tick,
         Close, Snapshot, TimePasses
<1>2. c \in queue[l] /\ CanGo(c, l) /\ queue' = [queue EXCEPT ![l] = @ \ {c}]
      /\ tokens' = IF l = GraphQL THEN tokens - CostOf(c) ELSE tokens
  BY <1>1 DEF Dispatch
<1>3. LaneOf(c) = l /\ c \in Calls
  BY <1>2 DEF IndInv, GrantXorCancel, TypeOK
<1> QED BY <1>2, <1>3 DEF IndInv, TypeOK

(***************************************************************************)
(* Strict priority: kickLocked never dispatches past a more urgent call of *)
(* the lane, or an older one of the same class.                            *)
(***************************************************************************)
THEOREM PriorityStrict == Spec => StrictPriority
<1>1. IndInv /\ [Next]_vars =>
        [\A c \in dispatched' \ dispatched : \A d \in queue'[LaneOf(c)] :
           Prio(c) < Prio(d) \/ (Prio(c) = Prio(d) /\ seqNo[c] < seqNo[d])]_vars
  BY OnlyHeadsGo DEF CanGo, IsHead, Precedes
<1> QED BY Inductive, <1>1, PTL DEF Spec, StrictPriority

\* deficitWait is zero only when the bucket holds what is wanted.
LEMMA NoDeficit ==
    ASSUME NEW t \in Int, NEW want \in Int, DeficitWait(t, want) = 0
    PROVE  t >= want
<1> SUFFICES ASSUME want > t PROVE FALSE
  OBVIOUS
<1> DEFINE n == want - t + RefillPer - 1
<1>1. n \in Nat /\ n >= RefillPer /\ n \div RefillPer = 0
  BY ConfigAssumption DEF DeficitWait
<1>2. n \div RefillPer >= 1
  <2> HIDE DEF n
  <2> QED BY <1>1, ConfigAssumption
<1> QED BY <1>1, <1>2

(***************************************************************************)
(* Reserve floors: after kickLocked spent a call's points, the bucket      *)
(* still holds the reserve of the call's class.                            *)
(***************************************************************************)
THEOREM ReservesKept == Spec => ReserveKept
<1>1. IndInv /\ [Next]_vars =>
        [\A c \in dispatched' \ dispatched :
           LaneOf(c) = GraphQL => tokens' >= ReserveFloor[Prio(c)]]_vars
  <2> SUFFICES ASSUME IndInv, [Next]_vars, NEW c \in dispatched' \ dispatched,
                      LaneOf(c) = GraphQL
               PROVE  tokens' >= ReserveFloor[Prio(c)]
    OBVIOUS
  <2>1. CanGo(c, GraphQL) /\ tokens' = tokens - CostOf(c) /\ c \in Calls
    BY OnlyHeadsGo
  <2>2. CostOf(c) \in Nat /\ ReserveFloor[Prio(c)] \in Nat
    BY <2>1, RequestType, ConfigAssumption
  <2>3. tokens \in Int /\ Want(c) \in Int /\ DeficitWait(tokens, Want(c)) = 0
    BY <2>1, <2>2 DEF CanGo, HeadWait, IndInv, TypeOK, Want, Lanes
  <2>4. tokens >= Want(c)
    BY <2>3, NoDeficit, Zenon
  <2> QED BY <2>1, <2>2, <2>3, <2>4 DEF Want
<1> QED BY Inductive, <1>1, PTL DEF Spec, ReserveKept

\* A lane cooling down after a 429 (Trip) dispatches nothing.
THEOREM CooldownsHonoured == Spec => CooldownHonoured
<1>1. IndInv /\ [Next]_vars =>
        [\A c \in dispatched' \ dispatched : cool[LaneOf(c)] = 0]_vars
  <2> SUFFICES ASSUME IndInv, [Next]_vars, NEW c \in dispatched' \ dispatched
               PROVE  cool[LaneOf(c)] = 0
    OBVIOUS
  <2>1. HeadWait(c, LaneOf(c)) = 0 /\ cool[LaneOf(c)] \in Nat
    BY OnlyHeadsGo, RequestType DEF CanGo, IndInv, TypeOK
  <2> QED BY <2>1 DEF HeadWait
<1> QED BY Inductive, <1>1, PTL DEF Spec, CooldownHonoured
=============================================================================
