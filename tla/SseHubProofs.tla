---------------------------- MODULE SseHubProofs ----------------------------
(***************************************************************************)
(* Theorems about SseHub, for every set of tabs and every bound.  The      *)
(* process may drain and restart; meta.json is not taken back.             *)
(*                                                                         *)
(* The ids of a room's events are 1, 2, ... of its epoch, which no earlier *)
(* event has (Numbered), and the ring is the end of that list.  So a       *)
(* cursor names one event (CursorKnown), and what Subscribe replays for it *)
(* begins right after it.  A client that was sent a reset keeps a cursor   *)
(* that lies behind where it stands: Uncovered says that such a cursor     *)
(* would be answered with another reset, never with events it has.         *)
(*                                                                         *)
(* The last part is about the cache before the GraphQL gateway             *)
(* (CoalescingCache), which shares no state with the hub.                  *)
(***************************************************************************)
EXTENDS MCRoomAndHub, SequenceTheorems, TLAPS

Entries == [epoch : Nat, seq : Nat, private : BOOLEAN]

\* What metaEpoch, the store and the room know of the epoch.
EpochsAgree ==
    /\ metaEpoch >= Fresh /\ storeEpoch = epoch
    /\ IF epoch = NoEpoch THEN seq = 0 /\ ring = <<>> ELSE epoch = metaEpoch

\* The room's events are the last seq ones, and no other has its epoch.
Numbered ==
    /\ seq <= Len(log) /\ Len(ring) <= seq
    /\ \A k \in 1..Len(log) : Fresh <= log[k].epoch /\ log[k].epoch <= metaEpoch
    /\ \A k \in 1..Len(log) :
          IF k > Len(log) - seq THEN log[k].epoch = epoch /\ log[k].seq = k - (Len(log) - seq)
                                ELSE log[k].epoch # epoch

\* Some event after this cursor has left the ring, or the cursor is of another
\* epoch: Subscribe would answer it with a reset, now and ever after.
Uncovered(id) == id[1] # epoch \/ id[2] < seq - Len(ring)

\* A cursor is the id of the event its tab stands at, or of an earlier one
\* from which nothing is replayed.
CursorKnown(c) ==
    cursor[c] # None =>
        \E e \in 1..pos[c] : /\ e <= Len(log) /\ cursor[c] = <<log[e].epoch, log[e].seq>>
                             /\ e = pos[c] \/ Uncovered(cursor[c])

\* Covered, but for the gap before the first event of a tab without a cursor.
Queued(c) ==
    \E first \in From(c) + 1..Len(log) + 1, last \in 0..Len(log) :
        /\ Lists(pending[c] \o buf[c], first, last)
        /\ c \in subs => last = Len(log)
        /\ cursor[c] # None => (From(c) + 1..first - 1) \subseteq Hidden

ResetSound(c) ==
    /\ pending[c] = <<Reset>> \/ pending[c] \in Seq(Nat)
    /\ ResetDue(c) => cursor[c] # None /\ Uncovered(cursor[c]) /\ pos[c] <= resetAt[c]

Streaming(c) ==
    /\ pos[c] <= Len(log) /\ resetAt[c] <= Len(log)
    /\ conn[c] = "closed" => cursor[c] = None
    /\ CursorKnown(c)
    /\ IF Up(c) THEN ResetSound(c) /\ Queued(c)
                ELSE pending[c] = <<>> /\ buf[c] = <<>>

RoomInv == EpochsAgree /\ Numbered /\ RingIsSuffix /\ IdsNeverAlias
HubInv == TypeOK /\ RoomInv /\ \A c \in Tabs : Streaming(c)

-----------------------------------------------------------------------------
(* Lists of frames.                                                        *)

InRange(q, first, last) == \A i \in 1..Len(q) : q[i] > 0 => q[i] \in first..last
AllThere(q, first, last) == \A k \in first..last : \E i \in 1..Len(q) : q[i] > 0 /\ q[i] = k
Ordered(q) == \A i, j \in 1..Len(q) : q[i] > 0 /\ q[j] > 0 /\ i < j => q[i] < q[j]

LEMMA ListsMeans ==
    ASSUME NEW q, NEW first, NEW last
    PROVE  Lists(q, first, last) <=>
             InRange(q, first, last) /\ AllThere(q, first, last) /\ Ordered(q)
BY DEF Lists, InRange, AllThere, Ordered

\* An empty list, and any list without events.
LEMMA ListsNone ==
    ASSUME NEW q, NEW first \in Nat, NEW last \in Nat, last < first,
           \A i \in 1..Len(q) : ~ (q[i] > 0)
    PROVE  Lists(q, first, last)
BY ListsMeans DEF InRange, AllThere, Ordered

LEMMA ListsEmpty ==
    ASSUME NEW n \in Nat
    PROVE  Lists(<<>>, n + 1, n) /\ Lists(<<Reset>>, n + 1, n)
<1>1. n + 1 \in Nat /\ n < n + 1
  OBVIOUS
<1>2. Lists(<<>>, n + 1, n)
  BY <1>1, ListsNone
<1>3. \A i \in 1..Len(<<Reset>>) : ~ (<<Reset>>[i] > 0)
  BY DEF Reset
<1>4. Lists(<<Reset>>, n + 1, n)
  BY <1>1, <1>3, ListsNone
<1> QED BY <1>2, <1>4

\* The next event joins the end of a list, and so does a frame that is none.
LEMMA ListsAppend ==
    ASSUME NEW q \in Seq(Int), NEW first \in Nat, NEW last \in Nat, NEW frame \in Int,
           Lists(q, first, last)
    PROVE  /\ ~ (frame > 0) => Lists(Append(q, frame), first, last)
           /\ frame = last + 1 /\ first <= frame => Lists(Append(q, frame), first, frame)
<1> DEFINE r == Append(q, frame)
<1>1. /\ Len(r) = Len(q) + 1 /\ r[Len(q) + 1] = frame /\ Len(q) \in Nat
      /\ \A i \in 1..Len(q) : r[i] = q[i] /\ q[i] \in Int
  OBVIOUS
<1>2. \A i \in 1..Len(r) : i \in 1..Len(q) \/ i = Len(q) + 1
  BY <1>1
<1> HIDE DEF r
<1>3. InRange(q, first, last) /\ AllThere(q, first, last) /\ Ordered(q)
  BY ListsMeans
<1>4. ASSUME ~ (frame > 0) PROVE Lists(r, first, last)
  <2>1. InRange(r, first, last)
    BY <1>1, <1>2, <1>3, <1>4 DEF InRange
  <2>2. AllThere(r, first, last)
    <3>1. ASSUME NEW k \in first..last PROVE \E i \in 1..Len(r) : r[i] > 0 /\ r[i] = k
      <4>1. PICK i \in 1..Len(q) : q[i] > 0 /\ q[i] = k
        BY <1>3 DEF AllThere
      <4>2. i \in 1..Len(r) /\ r[i] = q[i]
        BY <1>1
      <4> QED BY <4>1, <4>2
    <3> QED BY <3>1 DEF AllThere
  <2>3. Ordered(r)
    BY <1>1, <1>2, <1>3, <1>4 DEF Ordered
  <2> QED BY <2>1, <2>2, <2>3, ListsMeans
<1>5. ASSUME frame = last + 1, first <= frame PROVE Lists(r, first, frame)
  <2>1. InRange(r, first, frame)
    BY <1>1, <1>2, <1>3, <1>5 DEF InRange
  <2>2. AllThere(r, first, frame)
    <3>1. ASSUME NEW k \in first..frame PROVE \E i \in 1..Len(r) : r[i] > 0 /\ r[i] = k
      <4>1. CASE k = frame
        BY <1>1, <1>5, <4>1
      <4>2. CASE k \in first..last
        <5>1. PICK i \in 1..Len(q) : q[i] > 0 /\ q[i] = k
          BY <1>3, <4>2 DEF AllThere
        <5>2. i \in 1..Len(r) /\ r[i] = q[i]
          BY <1>1
        <5> QED BY <5>1, <5>2
      <4> QED BY <1>5, <3>1, <4>1, <4>2
    <3> QED BY <3>1 DEF AllThere
  <2>3. Ordered(r)
    <3>1. ASSUME NEW i \in 1..Len(r), NEW j \in 1..Len(r), r[i] > 0, r[j] > 0, i < j
          PROVE  r[i] < r[j]
      <4>1. i \in 1..Len(q) /\ r[i] = q[i] /\ q[i] <= last
        BY <1>1, <1>3, <3>1 DEF InRange
      <4>2. CASE j \in 1..Len(q)
        BY <1>1, <1>3, <3>1, <4>1, <4>2 DEF Ordered
      <4>3. CASE r[j] = frame
        BY <1>1, <1>5, <4>1, <4>3
      <4> QED BY <1>1, <1>2, <4>2, <4>3
    <3> QED BY ONLY <3>1 DEF Ordered
  <2> QED BY <2>1, <2>2, <2>3, ListsMeans
<1> QED BY <1>4, <1>5 DEF r

\* The head of a list is its first event, or no event.
LEMMA ListsTail ==
    ASSUME NEW q \in Seq(Int), q # <<>>, NEW first \in Nat, NEW last \in Nat,
           Lists(q, first, last)
    PROVE  /\ ~ (q[1] > 0) => Lists(Tail(q), first, last)
           /\ q[1] > 0 => q[1] = first /\ first <= last /\ Lists(Tail(q), first + 1, last)
<1> DEFINE r == Tail(q)
<1>1. /\ Len(q) = Len(r) + 1 /\ Len(r) \in Nat /\ q[1] \in Int
      /\ \A i \in 1..Len(r) : r[i] = q[i + 1] /\ q[i + 1] \in Int /\ i + 1 \in 1..Len(q)
  OBVIOUS
<1>2. \A i \in 1..Len(q) : i = 1 \/ (i - 1 \in 1..Len(r) /\ q[i] = r[i - 1])
  <2>1. \A i \in 1..Len(q) : i = 1 \/ (i - 1 \in 1..Len(r) /\ i - 1 + 1 = i)
    BY <1>1
  <2> QED BY <1>1, <2>1
<1> HIDE DEF r
<1>3. InRange(q, first, last) /\ AllThere(q, first, last) /\ Ordered(q)
  BY ListsMeans
<1>4. Ordered(r)
  <2>1. ASSUME NEW i \in 1..Len(r), NEW j \in 1..Len(r), r[i] > 0, r[j] > 0, i < j
        PROVE  r[i] < r[j]
    <3>1. i + 1 < j + 1 /\ i + 1 \in 1..Len(q) /\ j + 1 \in 1..Len(q)
      BY <1>1, <2>1
    <3> QED BY <1>1, <1>3, <2>1, <3>1 DEF Ordered
  <2> QED BY <2>1 DEF Ordered
<1>5. ASSUME ~ (q[1] > 0) PROVE Lists(r, first, last)
  <2>1. InRange(r, first, last)
    BY <1>1, <1>3 DEF InRange
  <2>2. AllThere(r, first, last)
    BY <1>2, <1>3, <1>5 DEF AllThere
  <2> QED BY <1>4, <2>1, <2>2, ListsMeans
<1>6. ASSUME q[1] > 0 PROVE q[1] = first /\ first <= last /\ Lists(r, first + 1, last)
  <2>1. 1 \in 1..Len(q) /\ q[1] \in first..last
    BY <1>1, <1>3, <1>6 DEF InRange
  <2>2. PICK i \in 1..Len(q) : q[i] > 0 /\ q[i] = first
    BY <1>3, <2>1 DEF AllThere
  <2>3. q[1] = first
    BY <1>3, <1>6, <2>1, <2>2 DEF InRange, Ordered
  <2>4. InRange(r, first + 1, last)
    <3>1. ASSUME NEW j \in 1..Len(r), r[j] > 0 PROVE r[j] \in first + 1..last
      <4>1. 1 < j + 1 /\ j + 1 \in 1..Len(q) /\ q[j + 1] = r[j]
        BY <1>1
      <4>2. q[1] < q[j + 1] /\ q[j + 1] \in first..last
        BY <1>3, <1>6, <2>1, <3>1, <4>1 DEF InRange, Ordered
      <4> QED BY <2>3, <4>1, <4>2
    <3> QED BY <3>1 DEF InRange
  <2>5. AllThere(r, first + 1, last)
    <3>1. ASSUME NEW k \in first + 1..last PROVE \E j \in 1..Len(r) : r[j] > 0 /\ r[j] = k
      <4>1. k \in first..last /\ k # first
        BY <3>1
      <4>2. PICK j \in 1..Len(q) : q[j] > 0 /\ q[j] = k
        BY <1>3, <4>1 DEF AllThere
      <4>3. j # 1
        BY ONLY <2>3, <4>1, <4>2
      <4>4. j - 1 \in 1..Len(r) /\ q[j] = r[j - 1]
        BY <1>2, <4>3
      <4> QED BY <4>2, <4>4
    <3> QED BY <3>1 DEF AllThere
  <2> QED BY <1>4, <2>1, <2>3, <2>4, <2>5, ListsMeans
<1> QED BY <1>5, <1>6 DEF r

\* A run of successive events.
LEMMA ListsRun ==
    ASSUME NEW q \in Seq(Nat), NEW first \in Nat \ {0}, NEW last \in Nat,
           Len(q) = last - first + 1, \A i \in 1..Len(q) : q[i] = first + i - 1
    PROVE  Lists(q, first, last)
<1>1. InRange(q, first, last)
  BY DEF InRange
<1>2. AllThere(q, first, last)
  <2>1. ASSUME NEW k \in first..last PROVE \E i \in 1..Len(q) : q[i] > 0 /\ q[i] = k
    <3> DEFINE i == k - first + 1
    <3>1. i \in 1..Len(q) /\ first + i - 1 = k /\ k > 0
      OBVIOUS
    <3> HIDE DEF i
    <3> QED BY <3>1
  <2> QED BY <2>1 DEF AllThere
<1>3. Ordered(q)
  BY DEF Ordered
<1> QED BY <1>1, <1>2, <1>3, ListsMeans

\* The end of a sequence, after its first d elements.
LEMMA EndOf ==
    ASSUME NEW q \in Seq(Nat), NEW d \in 0..Len(q)
    PROVE  /\ SubSeq(q, d + 1, Len(q)) \in Seq(Nat)
           /\ Len(SubSeq(q, d + 1, Len(q))) = Len(q) - d
           /\ \A i \in 1..Len(q) - d : SubSeq(q, d + 1, Len(q))[i] = q[d + i]
<1> DEFINE m == d + 1
           n == Len(q)
           s == SubSeq(q, m, n)
<1>1. /\ m \in Int /\ n \in Int /\ m <= n + 1 /\ n - m + 1 = n - d /\ d \in Int
      /\ \A i \in Int : m + i - 1 = d + i
  OBVIOUS
<1>5. m \in Int /\ n \in Int /\ \A i \in m..n : q[i] \in Nat
  OBVIOUS
<1> HIDE DEF m, n
<1>2. s \in Seq(Nat) /\ Len(s) = IF m <= n THEN n - m + 1 ELSE 0
  BY <1>5, SubSeqProperties
<1>6. \A i \in 1..n - m + 1 : s[i] = q[m + i - 1]
  BY <1>5, SubSeqProperties
<1> HIDE DEF s
<1>3. Len(s) = n - d
  BY <1>1, <1>2
<1>4. ASSUME NEW i \in 1..n - d PROVE s[i] = q[d + i]
  <2>1. i \in 1..n - m + 1 /\ m + i - 1 = d + i
    BY <1>1
  <2> QED BY <1>6, <2>1
<1> QED BY <1>2, <1>3, <1>4 DEF s, m, n

\* What joins the end of the second half joins the end of the whole.
LEMMA ConcatAppend ==
    ASSUME NEW p \in Seq(Int), NEW b \in Seq(Int), NEW frame \in Int
    PROVE  p \o b \in Seq(Int) /\ p \o Append(b, frame) = Append(p \o b, frame)
<1> DEFINE r == Append(b, frame)
           s == p \o r
           t == Append(p \o b, frame)
<1>1. p \o b \in Seq(Int) /\ r \in Seq(Int) /\ s \in Seq(Int) /\ t \in Seq(Int)
  OBVIOUS
<1>2. Len(s) = Len(t)
  OBVIOUS
<1>3. ASSUME NEW i \in 1..Len(s) PROVE s[i] = t[i]
  OBVIOUS
<1> HIDE DEF s, t
<1>4. s = t
  BY <1>1, <1>2, <1>3, SeqEqual
<1> QED BY <1>1, <1>4 DEF s, t

\* The head of a concatenation is taken from its first half, if there is one.
LEMMA ConcatTail ==
    ASSUME NEW p \in Seq(Int), p # <<>>, NEW b \in Seq(Int)
    PROVE  p \o b # <<>> /\ (p \o b)[1] = p[1] /\ Tail(p \o b) = Tail(p) \o b
<1> DEFINE x == p[1]
           r == Tail(p)
<1>1. x \in Int /\ r \in Seq(Int) /\ <<x>> \in Seq(Int) /\ p = <<x>> \o r
  OBVIOUS
<1>2. p \o b = <<x>> \o (r \o b) /\ r \o b \in Seq(Int)
  BY <1>1, ConcatAssociative
<1> HIDE DEF x, r
<1>3. ASSUME NEW s \in Seq(Int)
      PROVE  <<x>> \o s # <<>> /\ (<<x>> \o s)[1] = x /\ Tail(<<x>> \o s) = s
  BY <1>1, <1>3
<1>4. p \o b # <<>> /\ (p \o b)[1] = x /\ Tail(p \o b) = r \o b
  BY <1>2, <1>3
<1> QED BY <1>4 DEF x, r

-----------------------------------------------------------------------------
(* The room.                                                               *)

LEMMA LogTyped ==
    ASSUME TypeOK
    PROVE  /\ Len(log) \in Nat /\ log \in Seq(Entries)
           /\ \A k \in 1..Len(log) : log[k].epoch \in Nat /\ log[k].seq \in Nat
           /\ seq \in Nat /\ ring \in Seq(Nat) /\ Len(ring) \in Nat
           /\ metaEpoch \in Nat /\ storeEpoch \in Nat /\ epoch \in Nat
<1>1. /\ log \in Seq(Entries) /\ ring \in Seq(Nat)
      /\ seq \in Nat /\ metaEpoch \in Nat /\ storeEpoch \in Nat /\ epoch \in Nat
  BY DEF TypeOK, Entries
<1>2. ASSUME NEW k \in 1..Len(log) PROVE log[k].epoch \in Nat /\ log[k].seq \in Nat
  <2>1. log[k] \in Entries
    BY <1>1, ElementOfSeq
  <2> QED BY <2>1 DEF Entries
<1> QED BY <1>1, <1>2

\* roomLocked leaves a room of the latest epoch, which is new when the room is.
LEMMA RoomMade ==
    ASSUME TypeOK, RoomInv, Room
    PROVE  /\ metaEpoch' \in Nat /\ metaEpoch <= metaEpoch' /\ Fresh <= metaEpoch'
           /\ epoch' = metaEpoch' /\ storeEpoch' = epoch' /\ epoch' # NoEpoch
           /\ \/ epoch' = epoch
              \/ seq = 0 /\ ring = <<>> /\ \A k \in 1..Len(log) : log[k].epoch # epoch'
<1>1. metaEpoch \in Nat /\ metaEpoch >= Fresh /\ storeEpoch = epoch
  BY LogTyped DEF RoomInv, EpochsAgree
<1>2. CASE epoch = NoEpoch
  <2>1. metaEpoch' = metaEpoch + 1 /\ storeEpoch' = metaEpoch' /\ epoch' = storeEpoch'
    BY <1>1, <1>2 DEF Room, LoadProject
  <2>2. seq = 0 /\ ring = <<>>
    BY <1>2 DEF RoomInv, EpochsAgree
  <2>3. \A k \in 1..Len(log) : log[k].epoch \in Nat /\ log[k].epoch <= metaEpoch
    BY LogTyped DEF RoomInv, Numbered
  <2>4. \A k \in 1..Len(log) : log[k].epoch # epoch'
    BY <1>1, <2>1, <2>3
  <2> QED BY <1>1, <2>1, <2>2, <2>4 DEF Fresh, NoEpoch
<1>3. CASE epoch # NoEpoch
  <2>1. metaEpoch' = metaEpoch /\ storeEpoch' = storeEpoch /\ epoch' = epoch
    BY <1>3 DEF Room
  <2> QED BY <1>1, <1>3, <2>1 DEF RoomInv, EpochsAgree
<1> QED BY <1>2, <1>3

\* The log only grows.
LogGrows ==
    /\ Len(log) <= Len(log') /\ Len(log') \in Nat
    /\ \A k \in 1..Len(log) : log'[k] = log[k]

\* What the room holds moves forward, or the room is one no event is of.
RoomMoves ==
    \/ epoch' = epoch /\ seq - Len(ring) <= seq' - Len(ring')
    \/ \A k \in 1..Len(log) : log[k].epoch # epoch'

LEMMA RoomKept ==
    ASSUME TypeOK, RoomInv, UNCHANGED <<log, seq, ring>>,
           Room \/ UNCHANGED <<metaEpoch, storeEpoch, epoch>>
    PROVE  /\ RoomInv' /\ LogGrows /\ RoomMoves
           /\ metaEpoch' \in Nat /\ storeEpoch' \in Nat /\ epoch' \in Nat
<1>1. CASE UNCHANGED <<metaEpoch, storeEpoch, epoch>>
  <2>1. RoomInv'
    BY <1>1 DEF RoomInv, EpochsAgree, Numbered, RingIsSuffix, IdsNeverAlias
  <2> QED BY <1>1, <2>1, LogTyped DEF LogGrows, RoomMoves
<1>2. CASE Room
  <2>1. /\ metaEpoch' \in Nat /\ metaEpoch \in Nat /\ metaEpoch <= metaEpoch'
        /\ Fresh <= metaEpoch' /\ epoch' = metaEpoch' /\ storeEpoch' = epoch' /\ epoch' # NoEpoch
        /\ \/ epoch' = epoch
           \/ seq = 0 /\ ring = <<>> /\ \A k \in 1..Len(log) : log[k].epoch # epoch'
    BY <1>2, RoomMade, LogTyped
  <2>2. EpochsAgree'
    BY <2>1 DEF EpochsAgree, Fresh
  <2>3. Numbered'
    <3>1. /\ Len(log) \in Nat /\ seq \in Nat /\ seq <= Len(log) /\ Len(ring) <= seq
          /\ \A k \in 1..Len(log) : /\ log[k].epoch \in Nat
                                    /\ Fresh <= log[k].epoch /\ log[k].epoch <= metaEpoch
      BY LogTyped DEF RoomInv, Numbered
    <3>2. \A k \in 1..Len(log) : Fresh <= log[k].epoch /\ log[k].epoch <= metaEpoch'
      BY <2>1, <3>1
    <3>3. ASSUME NEW k \in 1..Len(log)
          PROVE  IF k > Len(log) - seq
                 THEN log[k].epoch = epoch' /\ log[k].seq = k - (Len(log) - seq)
                 ELSE log[k].epoch # epoch'
      <4>1. CASE epoch' = epoch
        BY <4>1 DEF RoomInv, Numbered
      <4>2. CASE seq = 0 /\ log[k].epoch # epoch'
        <5>1. ~ (k > Len(log) - seq)
          BY <3>1, <4>2
        <5> QED BY <4>2, <5>1
      <4> QED BY <2>1, <4>1, <4>2
    <3> QED BY <3>1, <3>2, <3>3 DEF Numbered
  <2>4. RingIsSuffix'
    <3>1. CASE epoch' = epoch
      BY <3>1 DEF RoomInv, RingIsSuffix
    <3>2. CASE ring = <<>>
      BY <3>2 DEF RoomInv, RingIsSuffix
    <3> QED BY <2>1, <3>1, <3>2
  <2>5. IdsNeverAlias'
    BY DEF RoomInv, IdsNeverAlias
  <2> QED BY <2>1, <2>2, <2>3, <2>4, <2>5, LogTyped DEF RoomInv, LogGrows, RoomMoves
<1> QED BY <1>1, <1>2

\* Publish numbers the next event, which ends the ring.
LEMMA RoomPublishes ==
    ASSUME TypeOK, RoomInv, NEW private \in BOOLEAN, Publish(private)
    PROVE  /\ RoomInv' /\ LogGrows /\ RoomMoves
           /\ Len(log') = Len(log) + 1
           /\ log' \in Seq(Entries)
           /\ seq' \in Nat /\ ring' \in Seq(Nat)
           /\ metaEpoch' \in Nat /\ storeEpoch' \in Nat /\ epoch' \in Nat
<1> DEFINE n == Len(log)
           event == [epoch |-> epoch', seq |-> seq + 1, private |-> private]
<1>1. /\ n \in Nat /\ log \in Seq(Entries)
      /\ seq \in Nat /\ ring \in Seq(Nat) /\ Len(ring) \in Nat
      /\ \A k \in 1..n : log[k].epoch \in Nat /\ log[k].seq \in Nat
  BY LogTyped
<1>2. /\ metaEpoch \in Nat /\ metaEpoch' \in Nat /\ metaEpoch <= metaEpoch'
      /\ Fresh <= metaEpoch' /\ epoch' = metaEpoch' /\ storeEpoch' = epoch' /\ epoch' # NoEpoch
      /\ \/ epoch' = epoch
         \/ seq = 0 /\ ring = <<>> /\ \A k \in 1..n : log[k].epoch # epoch'
  BY RoomMade, LogTyped DEF Publish
<1>3. seq' = seq + 1 /\ log' = Append(log, event)
  BY DEF Publish
<1>4. event \in Entries /\ event.epoch = epoch'
      /\ event.seq = seq + 1
  BY <1>1, <1>2 DEF Entries
<1> HIDE DEF event
<1>5. /\ log' \in Seq(Entries)
      /\ Len(log') = n + 1 /\ log'[n + 1] = event
      /\ \A k \in 1..n : log'[k] = log[k]
  BY <1>1, <1>3, <1>4, AppendProperties
<1> HIDE DEF n
<1>6. \A k \in 1..n + 1 : k \in 1..n \/ k = n + 1
  BY <1>1
<1>7. PICK d \in 0..Len(ring) : ring' = SubSeq(Append(ring, n + 1), d + 1, Len(ring) + 1)
  BY <1>5 DEF Publish, Trimmed
<1>8. /\ ring' \in Seq(Nat) /\ Len(ring') = Len(ring) + 1 - d
      /\ \A i \in 1..Len(ring') :
            ring'[i] = IF d + i = Len(ring) + 1 THEN n + 1 ELSE ring[d + i]
  <2> DEFINE s == Append(ring, n + 1)
  <2>1. /\ s \in Seq(Nat) /\ Len(s) = Len(ring) + 1
        /\ \A i \in 1..Len(s) : s[i] = IF i = Len(ring) + 1 THEN n + 1 ELSE ring[i]
    BY <1>1, AppendProperties
  <2> HIDE DEF s
  <2>2. /\ SubSeq(s, d + 1, Len(ring) + 1) \in Seq(Nat)
        /\ Len(SubSeq(s, d + 1, Len(ring) + 1)) = Len(ring) + 1 - d
        /\ \A i \in 1..Len(ring) + 1 - d : SubSeq(s, d + 1, Len(ring) + 1)[i] = s[d + i]
    <3>1. \A i \in d + 1..Len(ring) + 1 : s[i] \in Nat
      BY <1>1, <2>1, ElementOfSeq
    <3>2. /\ d + 1 \in Int /\ Len(ring) + 1 \in Int /\ d + 1 <= Len(ring) + 1
          /\ Len(ring) + 1 - (d + 1) + 1 = Len(ring) + 1 - d
          /\ \A i \in Int : d + 1 + i - 1 = d + i
      BY <1>1
    <3> QED BY <3>1, <3>2, SubSeqProperties
  <2>3. \A i \in 1..Len(ring) + 1 - d : d + i \in 1..Len(s)
    BY <1>1, <2>1
  <2> QED BY <1>7, <2>1, <2>2, <2>3 DEF s
<1>9. EpochsAgree'
  BY <1>2 DEF EpochsAgree
<1>10. /\ seq <= n /\ Len(ring) <= seq
       /\ \A k \in 1..n : /\ Fresh <= log[k].epoch /\ log[k].epoch <= metaEpoch
                          /\ IF k > n - seq THEN log[k].epoch = epoch /\ log[k].seq = k - (n - seq)
                                            ELSE log[k].epoch # epoch
  BY DEF RoomInv, Numbered, n
<1>11. \A k \in 1..n : IF k > n - seq THEN log[k].epoch = epoch' /\ log[k].seq = k - (n - seq)
                                      ELSE log[k].epoch # epoch'
  <2>1. ASSUME NEW k \in 1..n
        PROVE  IF k > n - seq THEN log[k].epoch = epoch' /\ log[k].seq = k - (n - seq)
                              ELSE log[k].epoch # epoch'
    <3>1. CASE epoch' = epoch
      BY <1>10, <3>1
    <3>2. CASE seq = 0 /\ log[k].epoch # epoch'
      BY <1>1, <3>2
    <3> QED BY <1>2, <3>1, <3>2
  <2> QED BY <2>1
<1>12. Numbered'
  <2>1. seq' <= Len(log') /\ Len(ring') <= seq'
    BY <1>1, <1>3, <1>5, <1>8, <1>10
  <2>2. ASSUME NEW k \in 1..n + 1
        PROVE  Fresh <= log'[k].epoch /\ log'[k].epoch <= metaEpoch'
    <3>1. CASE k \in 1..n
      <4>1. log'[k].epoch = log[k].epoch /\ log[k].epoch \in Nat
        BY <1>1, <1>5, <3>1
      <4>2. Fresh <= log[k].epoch /\ log[k].epoch <= metaEpoch
        BY <1>10, <3>1
      <4>3. metaEpoch \in Nat /\ metaEpoch' \in Nat /\ metaEpoch <= metaEpoch'
        BY <1>2
      <4>4. log[k].epoch <= metaEpoch'
        BY ONLY <4>1, <4>2, <4>3
      <4> QED BY <4>1, <4>2, <4>4
    <3>2. CASE k = n + 1
      BY <1>2, <1>4, <1>5, <3>2
    <3> QED BY <1>6, <3>1, <3>2
  <2>3. Len(log') - seq' = n - seq
    BY <1>1, <1>3, <1>5
  <2>4. ASSUME NEW k \in 1..n + 1
        PROVE  IF k > n - seq THEN log'[k].epoch = epoch' /\ log'[k].seq = k - (n - seq)
                              ELSE log'[k].epoch # epoch'
    <3>1. CASE k \in 1..n
      BY <1>5, <1>11, <3>1
    <3>2. CASE k = n + 1
      <4>1. k > n - seq /\ k - (n - seq) = seq + 1
        BY <1>1, <3>2
      <4> QED BY <1>4, <1>5, <3>2, <4>1
    <3> QED BY <1>6, <3>1, <3>2
  <2> QED BY <1>5, <2>1, <2>2, <2>3, <2>4 DEF Numbered
<1>13. RingIsSuffix'
  <2>1. /\ Len(ring) <= seq /\ Len(ring) <= RingCap
        /\ \A i \in 1..Len(ring) : ring[i] = n - Len(ring) + i
    BY DEF RoomInv, Numbered, RingIsSuffix, n
  <2>2. Len(ring') <= RingCap
    BY DEF Publish
  <2>3. ASSUME NEW i \in 1..Len(ring')
        PROVE  /\ ring'[i] = n + 1 - Len(ring') + i
               /\ log'[ring'[i]].epoch = epoch' /\ log'[ring'[i]].seq = seq' - Len(ring') + i
    <3>4. /\ d \in Nat /\ i \in Nat /\ 1 <= i /\ d + i <= Len(ring) + 1
          /\ n + 1 - Len(ring') + i = n - Len(ring) + (d + i)
          /\ seq' - Len(ring') + i = seq - Len(ring) + (d + i)
      BY <1>1, <1>3, <1>8
    <3>1. ring'[i] = n + 1 - Len(ring') + i
      <4>1. CASE d + i = Len(ring) + 1
        <5>1. ring'[i] = n + 1
          BY <1>8, <4>1
        <5> QED BY <1>1, <3>4, <4>1, <5>1
      <4>2. CASE d + i # Len(ring) + 1
        <5>3. d + i \in 1..Len(ring)
          <6>1. Len(ring) \in Nat
            BY <1>1
          <6> QED BY ONLY <3>4, <4>2, <6>1, d \in Nat, i \in Nat
        <5>1. ring'[i] = ring[d + i] /\ d + i \in 1..Len(ring)
          BY <1>8, <4>2, <5>3
        <5>2. ring[d + i] = n - Len(ring) + (d + i)
          BY <2>1, <5>1
        <5> QED BY <3>4, <5>1, <5>2
      <4> QED BY <4>1, <4>2
    <3>2. ring'[i] \in 1..n + 1 /\ ring'[i] > n - seq /\ ring'[i] - (n - seq) = seq' - Len(ring') + i
      <4>1. ring'[i] = n - Len(ring) + (d + i)
        BY <3>1, <3>4
      <4>2. ASSUME NEW m \in Nat, NEW k \in Nat, m <= seq, seq <= n, 1 <= k, k <= m + 1
            PROVE  /\ n - m + k \in 1..n + 1 /\ n - m + k > n - seq
                   /\ n - m + k - (n - seq) = seq - m + k
        BY <1>1, <4>2
      <4>3. d + i \in Nat /\ Len(ring) \in Nat /\ Len(ring) <= seq /\ seq <= n
            /\ 1 <= d + i /\ d + i <= Len(ring) + 1
        BY <1>1, <1>10, <3>4
      <4>4. /\ n - Len(ring) + (d + i) \in 1..n + 1 /\ n - Len(ring) + (d + i) > n - seq
            /\ n - Len(ring) + (d + i) - (n - seq) = seq - Len(ring) + (d + i)
        BY <4>2, <4>3
      <4>5. seq' - Len(ring') + i = seq - Len(ring) + (d + i)
        BY <3>4
      <4>6. ring'[i] > n - seq
        BY <4>1, <4>4
      <4>7. ring'[i] \in 1..n + 1
        BY <4>1, <4>4
      <4>8. ring'[i] - (n - seq) = seq' - Len(ring') + i
        BY <1>1, <1>3, <1>8, <4>1, <4>4, <4>5, <4>7
      <4> QED BY <4>6, <4>7, <4>8
    <3>3. Len(log') - seq' = n - seq
      BY <1>1, <1>3, <1>5
    <3> QED BY <1>5, <1>12, <3>1, <3>2, <3>3 DEF Numbered
  <2>4. Len(log') = n + 1
    BY <1>5
  <2>5. ASSUME NEW i \in 1..Len(ring')
        PROVE  /\ ring'[i] = Len(log') - Len(ring') + i
               /\ log'[ring'[i]].epoch = epoch' /\ log'[ring'[i]].seq = seq' - Len(ring') + i
    BY <1>1, <2>3, <2>4
  <2> QED BY <2>2, <2>5 DEF RingIsSuffix
<1>14. IdsNeverAlias'
  <2>1. ASSUME NEW i \in 1..n + 1, NEW j \in 1..n + 1,
               log'[i].epoch = log'[j].epoch, log'[i].seq = log'[j].seq
        PROVE  i = j
    <3>1. CASE i \in 1..n /\ j \in 1..n
      BY <1>5, <2>1, <3>1 DEF RoomInv, IdsNeverAlias, n
    <3>2. ASSUME NEW k \in 1..n, log'[k].epoch = log'[n + 1].epoch,
                 log'[k].seq = log'[n + 1].seq
          PROVE  FALSE
      <4>1. log[k].epoch = epoch' /\ log[k].seq = seq + 1
        BY <1>4, <1>5, <3>2
      <4>2. log[k].seq = k - (n - seq)
        BY <1>11, <4>1
      <4> QED BY <1>1, <4>1, <4>2
    <3> QED BY <1>6, <2>1, <3>1, <3>2
  <2> QED BY <1>5, <2>1 DEF IdsNeverAlias
<1>15. RoomMoves
  <2>1. seq' - Len(ring') = seq - Len(ring) + d
    BY <1>1, <1>3, <1>8
  <2> QED BY <1>1, <1>2, <2>1 DEF RoomMoves, n
<1> QED BY <1>1, <1>2, <1>3, <1>5, <1>8, <1>9, <1>12, <1>13, <1>14, <1>15
        DEF RoomInv, LogGrows, n

-----------------------------------------------------------------------------
(* The tabs.                                                               *)

LEMMA TabTyped ==
    ASSUME TypeOK, NEW c \in Tabs
    PROVE  /\ pending[c] \in Seq({Reset} \cup Nat) /\ pending[c] \in Seq(Int)
           /\ buf[c] \in Seq(Nat) /\ buf[c] \in Seq(Int) /\ Len(buf[c]) <= SubBuf
           /\ cursor[c] \in {None} \cup (Nat \X Nat)
           /\ pos[c] \in Nat /\ resetAt[c] \in Nat /\ resets[c] \in Nat
           /\ From(c) \in Nat
           /\ c \in subs => Up(c)
           /\ conn[c] \in {"closed", "down", "up"}
<1>1. /\ pending[c] \in Seq({Reset} \cup Nat) /\ buf[c] \in Seq(Nat) /\ Len(buf[c]) <= SubBuf
      /\ cursor[c] \in {None} \cup (Nat \X Nat)
      /\ pos[c] \in Nat /\ resetAt[c] \in Nat /\ resets[c] \in Nat
      /\ c \in subs => Up(c)
      /\ conn[c] \in {"closed", "down", "up"}
  BY DEF TypeOK
<1>2. Seq({Reset} \cup Nat) \subseteq Seq(Int) /\ Seq(Nat) \subseteq Seq(Int)
  BY DEF Reset
<1> QED BY <1>1, <1>2 DEF From

\* A cursor keeps naming its event, and what does not cover it never will.
LEMMA CursorMoves ==
    ASSUME TypeOK, LogGrows, RoomMoves, NEW c \in Tabs,
           cursor'[c] = cursor[c], pos'[c] = pos[c], CursorKnown(c),
           seq' \in Nat, Len(ring') \in Nat
    PROVE  /\ CursorKnown(c)'
           /\ cursor[c] # None /\ Uncovered(cursor[c]) => Uncovered(cursor[c])'
<1>1. CASE cursor[c] = None
  BY <1>1 DEF CursorKnown
<1>2. CASE cursor[c] # None
  <2>1. PICK e \in 1..pos[c] : /\ e <= Len(log) /\ cursor[c] = <<log[e].epoch, log[e].seq>>
                               /\ e = pos[c] \/ Uncovered(cursor[c])
    BY <1>2 DEF CursorKnown
  <2>2. /\ e \in 1..Len(log) /\ Len(log) \in Nat /\ seq \in Nat /\ Len(ring) \in Nat
        /\ cursor[c][1] = log[e].epoch /\ cursor[c][2] = log[e].seq /\ cursor[c][2] \in Nat
    BY <2>1, LogTyped, TabTyped
  <2>3. /\ e <= Len(log') /\ log'[e] = log[e]
    BY <2>2 DEF LogGrows
  <2>4. Uncovered(cursor[c]) => Uncovered(cursor[c])'
    <3>1. CASE epoch' = epoch /\ seq - Len(ring) <= seq' - Len(ring')
      <4> DEFINE n == cursor[c][2]
                 old == seq - Len(ring)
                 new == seq' - Len(ring')
      <4>1. n \in Int /\ old \in Int /\ new \in Int /\ old <= new
        BY <2>2, <3>1
      <4>2. n < old => n < new
        <5> HIDE DEF n, old, new
        <5> QED BY <4>1
      <4> QED BY <3>1, <4>2 DEF Uncovered
    <3>2. CASE \A k \in 1..Len(log) : log[k].epoch # epoch'
      BY <2>2, <3>2 DEF Uncovered
    <3> QED BY <3>1, <3>2 DEF RoomMoves
  <2>5. CursorKnown(c)'
    BY <2>1, <2>3, <2>4 DEF CursorKnown
  <2> QED BY <2>4, <2>5
<1> QED BY <1>1, <1>2

\* What is hidden stays hidden.
LEMMA HiddenGrows ==
    ASSUME LogGrows, Len(log) \in Nat
    PROVE  Hidden \subseteq Hidden'
BY DEF LogGrows, Hidden

\* A tab that a step does not touch, unless it leaves it behind and drops it.
LEMMA TabKept ==
    ASSUME TypeOK, LogGrows, RoomMoves, NEW c \in Tabs, Streaming(c),
           seq' \in Nat, Len(ring') \in Nat,
           conn'[c] = conn[c], pending'[c] = pending[c], buf'[c] = buf[c],
           cursor'[c] = cursor[c], pos'[c] = pos[c], resetAt'[c] = resetAt[c],
           c \in subs' => c \in subs /\ Len(log') = Len(log)
    PROVE  Streaming(c)'
<1>1. /\ Len(log) \in Nat /\ Len(log') \in Nat /\ Len(log) <= Len(log')
      /\ pos[c] \in Nat /\ resetAt[c] \in Nat /\ From(c) \in Nat
  BY LogTyped, TabTyped DEF LogGrows
<1>2. /\ CursorKnown(c)'
      /\ cursor[c] # None /\ Uncovered(cursor[c]) => Uncovered(cursor[c])'
  BY CursorMoves DEF Streaming
<1>3. pos'[c] <= Len(log') /\ resetAt'[c] <= Len(log')
  BY <1>1 DEF Streaming
<1>4. ASSUME Up(c) PROVE ResetSound(c)' /\ Queued(c)'
  <2>1. ResetSound(c)'
    BY <1>2, <1>4 DEF Streaming, ResetSound, ResetDue
  <2>2. From(c)' = From(c)
    BY DEF From, ResetDue
  <2>3. PICK first \in From(c) + 1..Len(log) + 1, last \in 0..Len(log) :
           /\ Lists(pending[c] \o buf[c], first, last)
           /\ c \in subs => last = Len(log)
           /\ cursor[c] # None => (From(c) + 1..first - 1) \subseteq Hidden
    BY <1>4 DEF Streaming, Queued
  <2>4. first \in From(c) + 1..Len(log') + 1 /\ last \in 0..Len(log')
    BY <1>1
  <2>5. Hidden \subseteq Hidden'
    BY <1>1, HiddenGrows
  <2>6. Lists(pending'[c] \o buf'[c], first, last)
    BY <2>3
  <2>7. c \in subs' => last = Len(log')
    BY <2>3
  <2>8. cursor'[c] # None => (From(c) + 1..first - 1) \subseteq Hidden'
    BY <2>3, <2>5
  <2>9. Queued(c)'
    BY <2>2, <2>4, <2>6, <2>7, <2>8 DEF Queued
  <2> QED BY <2>1, <2>9
<1> QED BY <1>2, <1>3, <1>4 DEF Streaming, Up

\* A frame joins the channel of a subscriber: the next event, or none.
LEMMA TabQueues ==
    ASSUME TypeOK, LogGrows, RoomMoves, NEW c \in Tabs, Streaming(c), c \in subs,
           seq' \in Nat, Len(ring') \in Nat,
           conn'[c] = conn[c], pending'[c] = pending[c],
           cursor'[c] = cursor[c], pos'[c] = pos[c], resetAt'[c] = resetAt[c],
           NEW frame \in Nat, buf'[c] = Append(buf[c], frame),
           \/ frame = Ephemeral /\ Len(log') = Len(log)
           \/ frame = Len(log') /\ Len(log') = Len(log) + 1
    PROVE  Streaming(c)'
<1>1. /\ Len(log) \in Nat /\ Len(log') \in Nat /\ Len(log) <= Len(log')
      /\ pos[c] \in Nat /\ resetAt[c] \in Nat /\ From(c) \in Nat /\ Up(c)
      /\ pending[c] \in Seq(Int) /\ buf[c] \in Seq(Int)
  BY LogTyped, TabTyped DEF LogGrows
<1>2. /\ CursorKnown(c)'
      /\ cursor[c] # None /\ Uncovered(cursor[c]) => Uncovered(cursor[c])'
  BY CursorMoves DEF Streaming
<1>3. pos'[c] <= Len(log') /\ resetAt'[c] <= Len(log')
  BY <1>1 DEF Streaming
<1>4. ResetSound(c)'
  BY <1>1, <1>2 DEF Streaming, ResetSound, ResetDue
<1>5. From(c)' = From(c)
  BY DEF From, ResetDue
<1>6. PICK first \in From(c) + 1..Len(log) + 1 :
         /\ Lists(pending[c] \o buf[c], first, Len(log))
         /\ cursor[c] # None => (From(c) + 1..first - 1) \subseteq Hidden
  BY <1>1 DEF Streaming, Queued
<1>7. pending'[c] \o buf'[c] = Append(pending[c] \o buf[c], frame)
      /\ pending[c] \o buf[c] \in Seq(Int)
  <2>1. frame \in Int
    OBVIOUS
  <2>2. /\ pending[c] \o buf[c] \in Seq(Int)
        /\ pending[c] \o Append(buf[c], frame) = Append(pending[c] \o buf[c], frame)
    BY ONLY <1>1, <2>1, ConcatAppend
  <2>3. pending'[c] \o buf'[c] = pending[c] \o Append(buf[c], frame)
    OBVIOUS
  <2> QED BY ONLY <2>2, <2>3, Zenon
<1>8. Lists(pending'[c] \o buf'[c], first, Len(log'))
  <2> DEFINE q == pending[c] \o buf[c]
  <2> HIDE DEF q
  <2>1. q \in Seq(Int) /\ first \in Nat /\ Len(log) \in Nat /\ frame \in Int /\ first <= Len(log) + 1
    BY <1>1, <1>7 DEF q
  <2>2. Lists(q, first, Len(log))
    BY <1>6 DEF q
  <2>3. /\ ~ (frame > 0) => Lists(Append(q, frame), first, Len(log))
        /\ frame = Len(log) + 1 /\ first <= frame => Lists(Append(q, frame), first, frame)
    BY <2>1, <2>2, ListsAppend
  <2>4. Lists(Append(q, frame), first, Len(log'))
    <3>1. CASE frame = Ephemeral /\ Len(log') = Len(log)
      BY <2>3, <3>1 DEF Ephemeral
    <3>2. CASE frame = Len(log') /\ Len(log') = Len(log) + 1
      BY <2>1, <2>3, <3>2
    <3> QED BY <3>1, <3>2
  <2> QED BY <1>7, <2>4 DEF q
<1>9. Hidden \subseteq Hidden'
  BY <1>1, HiddenGrows
<1>10. first \in From(c) + 1..Len(log') + 1 /\ Len(log') \in 0..Len(log')
  BY <1>1
<1>11. cursor'[c] # None => (From(c) + 1..first - 1) \subseteq Hidden'
  BY <1>6, <1>9
<1>12. Queued(c)'
  BY <1>5, <1>8, <1>10, <1>11 DEF Queued
<1> QED BY <1>1, <1>2, <1>3, <1>4, <1>12 DEF Streaming, Up

-----------------------------------------------------------------------------
(* Subscribing.                                                            *)

\* The retained events after number n of the room's epoch.
LEMMA AfterMeans ==
    ASSUME TypeOK, RoomInv, NEW n \in Nat, seq - Len(ring) <= n, n <= seq
    PROVE  /\ After(n) \in Seq(Nat) /\ Len(After(n)) = seq - n
           /\ \A i \in 1..Len(After(n)) : After(n)[i] = Len(log) - seq + n + i
<1> DEFINE d == n - (seq - Len(ring))
           Fits(e) == \A i \in 1..Len(ring) : log[ring[i]].seq > n <=> i > e
           older == CHOOSE e \in 0..Len(ring) : Fits(e)
<1>1. /\ seq \in Nat /\ Len(ring) \in Nat /\ Len(ring) <= seq /\ Len(log) \in Nat
      /\ ring \in Seq(Nat)
  BY LogTyped DEF RoomInv, Numbered
<1>2. d \in 0..Len(ring)
  BY <1>1
<1>3. \A i \in 1..Len(ring) : /\ ring[i] = Len(log) - Len(ring) + i
                              /\ log[ring[i]].seq = seq - Len(ring) + i
  BY DEF RoomInv, RingIsSuffix
<1>4. \A i \in 1..Len(ring) : log[ring[i]].seq > n <=> i > d
  <2>1. \A i \in 1..Len(ring) : seq - Len(ring) + i > n <=> i > d
    BY <1>1
  <2> QED BY <1>3, <2>1
<1> HIDE DEF d
<1>5. Fits(d)
  BY <1>4
<1>6. older \in 0..Len(ring) /\ Fits(older)
  <2> HIDE DEF Fits
  <2> QED BY <1>2, <1>5
<1>7. older = d
  <2>1. \A i \in 1..Len(ring) : i > d <=> i > older
    BY <1>4, <1>6
  <2> HIDE DEF older, Fits
  <2>2. ~ (older < d)
    <3>1. SUFFICES ASSUME older < d PROVE FALSE
      OBVIOUS
    <3>2. older + 1 \in 1..Len(ring) /\ older + 1 > older /\ ~ (older + 1 > d)
      BY <1>1, <1>2, <1>6, <3>1
    <3> QED BY <2>1, <3>2
  <2>3. ~ (d < older)
    <3>1. SUFFICES ASSUME d < older PROVE FALSE
      OBVIOUS
    <3>2. d + 1 \in 1..Len(ring) /\ d + 1 > d /\ ~ (d + 1 > older)
      BY <1>1, <1>2, <1>6, <3>1
    <3> QED BY <2>1, <3>2
  <2> QED BY <1>1, <1>2, <1>6, <2>2, <2>3
<1>8. After(n) = SubSeq(ring, d + 1, Len(ring))
  BY <1>7 DEF After
<1>9. /\ SubSeq(ring, d + 1, Len(ring)) \in Seq(Nat)
      /\ Len(SubSeq(ring, d + 1, Len(ring))) = Len(ring) - d
      /\ \A i \in 1..Len(ring) - d : SubSeq(ring, d + 1, Len(ring))[i] = ring[d + i]
  BY <1>1, <1>2, EndOf
<1>10. Len(ring) - d = seq - n
  BY <1>1 DEF d
<1>11. \A i \in 1..Len(ring) - d : ring[d + i] = Len(log) - seq + n + i
  <2>1. \A i \in 1..Len(ring) - d : /\ d + i \in 1..Len(ring)
                                    /\ Len(log) - Len(ring) + (d + i) = Len(log) - seq + n + i
    BY <1>1, <1>2 DEF d
  <2> QED BY <1>3, <2>1
<1> QED BY <1>8, <1>9, <1>10, <1>11

\* Nothing is missing, a reset, or the events right after the cursor.
LEMMA Replayed ==
    ASSUME TypeOK, RoomInv, NEW id \in {None} \cup (Nat \X Nat)
    PROVE  \/ Replay(id) = <<>> /\ (id # None => id[1] = epoch' /\ id[2] = seq)
           \/ /\ Replay(id) = <<Reset>> /\ id # None
              /\ id[1] # epoch' \/ id[2] > seq \/ id[2] < seq - Len(ring)
           \/ /\ id # None /\ id[1] = epoch' /\ seq - Len(ring) <= id[2] /\ id[2] < seq
              /\ Replay(id) \in Seq(Nat) /\ Len(Replay(id)) = seq - id[2]
              /\ \A i \in 1..Len(Replay(id)) : Replay(id)[i] = Len(log) - seq + id[2] + i
<1>1. CASE id = None
  BY <1>1 DEF Replay
<1>2. CASE id # None
  <2>1. /\ id[2] \in Nat /\ seq \in Nat /\ Len(ring) \in Nat /\ ring \in Seq(Nat)
    BY <1>2, LogTyped
  <2>2. CASE id[1] # epoch' \/ id[2] > seq
    BY <1>2, <2>2 DEF Replay
  <2>3. CASE id[1] = epoch' /\ id[2] = seq
    BY <1>2, <2>1, <2>3 DEF Replay
  <2>4. CASE id[1] = epoch' /\ id[2] < seq
    <3>1. CASE id[2] < seq - Len(ring)
      <4>1. ring = <<>> \/ log[ring[1]].seq > id[2] + 1
        <5>1. ASSUME ring # <<>> PROVE log[ring[1]].seq = seq - Len(ring) + 1
          BY <2>1, <5>1 DEF RoomInv, RingIsSuffix
        <5> QED BY <2>1, <3>1, <5>1
      <4>2. Replay(id) = <<Reset>>
        BY <1>2, <2>1, <2>4, <4>1 DEF Replay
      <4> QED BY <1>2, <3>1, <4>2
    <3>2. CASE seq - Len(ring) <= id[2]
      <4>1. ring # <<>> /\ ~ (log[ring[1]].seq > id[2] + 1)
        <5>1. ring # <<>>
          BY <2>1, <2>4, <3>2
        <5>2. log[ring[1]].seq = seq - Len(ring) + 1
          BY <2>1, <5>1 DEF RoomInv, RingIsSuffix
        <5> QED BY <2>1, <3>2, <5>1, <5>2
      <4>2. Replay(id) = After(id[2])
        BY <1>2, <2>1, <2>4, <4>1 DEF Replay
      <4>3. id[2] <= seq
        BY <2>1, <2>4
      <4> QED BY <1>2, <2>1, <2>4, <3>2, <4>2, <4>3, AfterMeans
    <3> QED BY <2>1, <3>1, <3>2
  <2> QED BY <2>1, <2>2, <2>3, <2>4
<1> QED BY <1>1, <1>2

-----------------------------------------------------------------------------
(* Publishing keeps the invariant.                                         *)

\* Each subscriber gets the frame or is dropped; the others are left alone.
LEMMA FanOutMeans ==
    ASSUME TypeOK, NEW frame \in Nat, FanOut(frame)
    PROVE  /\ subs' \subseteq subs
           /\ buf' \in [Tabs -> Seq(Nat)]
           /\ \A c \in Tabs : /\ Len(buf'[c]) <= SubBuf
                              /\ IF c \in subs' THEN buf'[c] = Append(buf[c], frame)
                                                ELSE buf'[c] = buf[c]
<1>1. /\ subs' = {c \in subs : Len(buf[c]) < SubBuf}
      /\ buf' = [c \in Tabs |-> IF c \in subs' THEN Append(buf[c], frame) ELSE buf[c]]
  BY DEF FanOut
<1>2. ASSUME NEW c \in Tabs
      PROVE  /\ buf'[c] \in Seq(Nat) /\ Len(buf'[c]) <= SubBuf
             /\ IF c \in subs' THEN buf'[c] = Append(buf[c], frame) ELSE buf'[c] = buf[c]
  <2>1. buf[c] \in Seq(Nat) /\ Len(buf[c]) <= SubBuf
    BY TabTyped
  <2>2. /\ Append(buf[c], frame) \in Seq(Nat)
        /\ Len(Append(buf[c], frame)) = Len(buf[c]) + 1 /\ Len(buf[c]) \in Nat
    BY <2>1, AppendProperties
  <2>3. CASE c \in subs'
    <3>1. Len(buf[c]) < SubBuf /\ buf'[c] = Append(buf[c], frame)
      BY <1>1, <2>3
    <3> QED BY <2>2, <2>3, <3>1, HubConfig
  <2>4. CASE c \notin subs'
    BY <1>1, <2>1, <2>4
  <2> QED BY <2>3, <2>4
<1>3. DOMAIN buf' = Tabs /\ buf' = [c \in Tabs |-> buf'[c]]
  BY <1>1
<1>4. buf' \in [Tabs -> Seq(Nat)]
  BY <1>2, <1>3
<1> QED BY <1>1, <1>2, <1>4

LEMMA PublishKeeps ==
    ASSUME HubInv, NEW private \in BOOLEAN, Publish(private)
    PROVE  HubInv'
<1> USE DEF HubInv
<1>1. /\ RoomInv' /\ LogGrows /\ RoomMoves /\ Len(log') = Len(log) + 1
      /\ log' \in Seq(Entries) /\ seq' \in Nat /\ ring' \in Seq(Nat)
      /\ metaEpoch' \in Nat /\ storeEpoch' \in Nat /\ epoch' \in Nat
  BY RoomPublishes
<1>2. UNCHANGED <<conn, pending, cursor, pos, resetAt, resets, breaks>> /\ FanOut(Len(log'))
  BY DEF Publish
<1>3. Len(log) \in Nat /\ Len(log') \in Nat /\ Len(ring') \in Nat
  BY <1>1, LogTyped
<1>4. /\ subs' \subseteq subs /\ buf' \in [Tabs -> Seq(Nat)]
      /\ \A c \in Tabs : /\ Len(buf'[c]) <= SubBuf
                         /\ IF c \in subs' THEN buf'[c] = Append(buf[c], Len(log'))
                                           ELSE buf'[c] = buf[c]
  BY <1>2, <1>3, FanOutMeans
<1>5. TypeOK'
  BY <1>1, <1>2, <1>4 DEF TypeOK, Entries, Up
<1>6. ASSUME NEW c \in Tabs PROVE Streaming(c)'
  <2>1. CASE c \in subs'
    <3>1. c \in subs /\ buf'[c] = Append(buf[c], Len(log'))
      BY <1>4, <2>1
    <3> QED BY <1>1, <1>2, <1>3, <3>1, TabQueues
  <2>2. CASE c \notin subs'
    <3>1. buf'[c] = buf[c]
      BY <1>4, <2>2
    <3> QED BY <1>1, <1>2, <1>3, <2>2, <3>1, TabKept
  <2> QED BY <2>1, <2>2
<1> QED BY <1>1, <1>5, <1>6

LEMMA EphemeralKeeps ==
    ASSUME HubInv, PublishEphemeral
    PROVE  HubInv'
<1> USE DEF HubInv
<1>1. /\ UNCHANGED <<log, seq, ring, conn, pending, cursor, pos, resetAt, resets>>
      /\ FanOut(Ephemeral) /\ Room /\ breaks' \in 0..MaxBreaks
  <2>1. breaks \in 0..MaxBreaks
    BY DEF TypeOK
  <2> QED BY <2>1, HubConfig DEF PublishEphemeral
<1>2. /\ RoomInv' /\ LogGrows /\ RoomMoves
      /\ metaEpoch' \in Nat /\ storeEpoch' \in Nat /\ epoch' \in Nat
  BY <1>1, RoomKept
<1>3. seq' \in Nat /\ Len(ring') \in Nat
  BY <1>1, LogTyped
<1>4. /\ subs' \subseteq subs /\ buf' \in [Tabs -> Seq(Nat)]
      /\ \A c \in Tabs : /\ Len(buf'[c]) <= SubBuf
                         /\ IF c \in subs' THEN buf'[c] = Append(buf[c], Ephemeral)
                                           ELSE buf'[c] = buf[c]
  <2>1. Ephemeral \in Nat
    BY DEF Ephemeral
  <2> QED BY <1>1, <2>1, FanOutMeans
<1>5. TypeOK'
  BY <1>1, <1>2, <1>4 DEF TypeOK, Up
<1>6. ASSUME NEW c \in Tabs PROVE Streaming(c)'
  <2>1. CASE c \in subs'
    <3>1. c \in subs /\ buf'[c] = Append(buf[c], Ephemeral) /\ Ephemeral \in Nat
      BY <1>4, <2>1 DEF Ephemeral
    <3> QED BY <1>1, <1>2, <1>3, <3>1, TabQueues
  <2>2. CASE c \notin subs'
    <3>1. buf'[c] = buf[c]
      BY <1>4, <2>2
    <3> QED BY <1>1, <1>2, <1>3, <2>2, <3>1, TabKept
  <2> QED BY <2>1, <2>2
<1> QED BY <1>2, <1>5, <1>6

-----------------------------------------------------------------------------
(* Opening and reconnecting keep the invariant.                            *)

\* What a subscription does to the types and to the other tabs.
LEMMA SubscribeKeeps ==
    ASSUME HubInv, NEW c \in Tabs, Subscribe(c, cursor[c]), ~ Up(c), cursor' = cursor,
           pos' \in [Tabs -> Nat], \A d \in Tabs \ {c} : pos'[d] = pos[d]
    PROVE  /\ TypeOK' /\ RoomInv' /\ LogGrows /\ RoomMoves
           /\ seq' \in Nat /\ Len(ring') \in Nat
           /\ log' = log /\ seq' = seq /\ ring' = ring
           /\ conn'[c] = "up" /\ buf'[c] = <<>> /\ pending'[c] = Replay(cursor[c])
           /\ resetAt'[c] = IF pending'[c] = <<Reset>> THEN Len(log) ELSE 0
           /\ \A d \in Tabs \ {c} : Streaming(d)'
<1> USE DEF HubInv
<1>1. /\ UNCHANGED <<log, seq, ring, buf, resets, breaks>> /\ Room
      /\ subs' = subs \cup {c}
      /\ conn' = [conn EXCEPT ![c] = "up"]
      /\ pending' = [pending EXCEPT ![c] = Replay(cursor[c])]
      /\ resetAt' = [resetAt EXCEPT ![c] = IF pending'[c] = <<Reset>> THEN Len(log) ELSE 0]
  BY DEF Subscribe, Len0
<1>2. /\ RoomInv' /\ LogGrows /\ RoomMoves
      /\ metaEpoch' \in Nat /\ storeEpoch' \in Nat /\ epoch' \in Nat
  BY <1>1, RoomKept
<1>3. seq' \in Nat /\ Len(ring') \in Nat /\ Len(log) \in Nat
  BY <1>1, LogTyped
<1>4. /\ conn \in [Tabs -> {"closed", "down", "up"}] /\ pending \in [Tabs -> Seq({Reset} \cup Nat)]
      /\ resetAt \in [Tabs -> Nat] /\ subs \subseteq {d \in Tabs : Up(d)}
  BY DEF TypeOK
<1>5. Replay(cursor[c]) \in Seq({Reset} \cup Nat)
  <2>1. cursor[c] \in {None} \cup (Nat \X Nat)
    BY TabTyped
  <2>2. <<>> \in Seq({Reset} \cup Nat) /\ <<Reset>> \in Seq({Reset} \cup Nat)
    OBVIOUS
  <2>3. Seq(Nat) \subseteq Seq({Reset} \cup Nat)
    OBVIOUS
  <2> QED BY <2>1, <2>2, <2>3, Replayed
<1>6. /\ conn' \in [Tabs -> {"closed", "down", "up"}]
      /\ pending' \in [Tabs -> Seq({Reset} \cup Nat)]
      /\ resetAt' \in [Tabs -> Nat]
      /\ subs' \subseteq {d \in Tabs : Up(d)'}
  <2> DEFINE S == Seq({Reset} \cup Nat)
             r == Replay(cursor[c])
  <2>1. pending \in [Tabs -> S] /\ r \in S /\ pending' = [pending EXCEPT ![c] = r]
    BY <1>1, <1>4, <1>5
  <2> HIDE DEF S, r
  <2>2. pending' \in [Tabs -> S]
    BY <2>1
  <2>3. (IF pending'[c] = <<Reset>> THEN Len(log) ELSE 0) \in Nat
    BY <1>3
  <2>4. resetAt' \in [Tabs -> Nat]
    BY <1>1, <1>4, <2>3
  <2>5. conn' \in [Tabs -> {"closed", "down", "up"}] /\ subs' \subseteq {d \in Tabs : Up(d)'}
    BY <1>1, <1>4 DEF Up
  <2> QED BY <2>2, <2>4, <2>5 DEF S
<1>7. TypeOK'
  <2>1. /\ log' \in Seq([epoch : Nat, seq : Nat, private : BOOLEAN]) /\ seq' \in Nat
        /\ ring' \in Seq(Nat) /\ buf' \in [Tabs -> Seq(Nat)]
        /\ \A d \in Tabs : Len(buf'[d]) <= SubBuf
        /\ cursor' \in [Tabs -> {None} \cup (Nat \X Nat)] /\ resets' \in [Tabs -> Nat]
        /\ breaks' \in 0..MaxBreaks
    BY <1>1 DEF TypeOK
  <2> QED BY <1>2, <1>6, <2>1 DEF TypeOK
<1>8. ASSUME NEW d \in Tabs \ {c} PROVE Streaming(d)'
  <2>1. /\ conn'[d] = conn[d] /\ pending'[d] = pending[d] /\ buf'[d] = buf[d]
        /\ cursor'[d] = cursor[d] /\ pos'[d] = pos[d] /\ resetAt'[d] = resetAt[d]
        /\ Len(log') = Len(log) /\ (d \in subs' => d \in subs)
    BY <1>1
  <2> QED BY <1>2, <1>3, <2>1, TabKept
<1>9. conn'[c] = "up" /\ buf'[c] = <<>> /\ pending'[c] = Replay(cursor[c])
      /\ resetAt'[c] = IF pending'[c] = <<Reset>> THEN Len(log) ELSE 0
  <2>1. buf[c] = <<>>
    BY DEF Streaming
  <2> QED BY <1>1, <1>4, <2>1
<1> QED BY <1>1, <1>2, <1>3, <1>7, <1>8, <1>9

LEMMA OpenKeeps ==
    ASSUME HubInv, NEW c \in Tabs, Open(c)
    PROVE  HubInv'
<1>1. conn[c] = "closed" /\ cursor[c] = None /\ ~ Up(c)
  BY DEF Open, HubInv, Streaming, Up
<1>2. /\ Subscribe(c, cursor[c]) /\ cursor' = cursor
      /\ pos' = [pos EXCEPT ![c] = Len(log)] /\ pos \in [Tabs -> Nat] /\ Len(log) \in Nat
  BY <1>1, LogTyped DEF Open, HubInv, TypeOK, Len0
<1>3. pos' \in [Tabs -> Nat] /\ pos'[c] = Len(log) /\ \A d \in Tabs \ {c} : pos'[d] = pos[d]
  BY <1>2
<1>4. /\ TypeOK' /\ RoomInv' /\ log' = log /\ \A d \in Tabs \ {c} : Streaming(d)'
      /\ conn'[c] = "up" /\ buf'[c] = <<>> /\ pending'[c] = Replay(cursor[c])
      /\ resetAt'[c] = IF pending'[c] = <<Reset>> THEN Len(log) ELSE 0
  BY <1>1, <1>2, <1>3, SubscribeKeeps
<1>5. pending'[c] = <<>> /\ resetAt'[c] <= Len(log)
  BY <1>1, <1>2, <1>4 DEF Replay
<1>6. ResetSound(c)' /\ From(c)' = Len(log)
  BY <1>3, <1>5 DEF ResetSound, ResetDue, From
<1>7. Queued(c)'
  <2>1. Lists(pending'[c] \o buf'[c], Len(log) + 1, Len(log))
    <3>1. pending'[c] \o buf'[c] = <<>>
      BY <1>4, <1>5
    <3> QED BY <1>2, <3>1, ListsEmpty
  <2>2. Len(log) + 1 \in Len(log) + 1..Len(log) + 1 /\ Len(log) \in 0..Len(log)
    BY <1>2
  <2> QED BY <1>1, <1>2, <1>4, <1>6, <2>1, <2>2 DEF Queued
<1>8. Streaming(c)'
  BY <1>1, <1>2, <1>3, <1>4, <1>5, <1>6, <1>7 DEF Streaming, CursorKnown, Up
<1> QED BY <1>4, <1>8 DEF HubInv

LEMMA ReconnectKeeps ==
    ASSUME HubInv, NEW c \in Tabs, Reconnect(c)
    PROVE  HubInv'
<1> DEFINE id == cursor[c]
<1>1. conn[c] = "down" /\ ~ Up(c) /\ TypeOK /\ RoomInv /\ Streaming(c)
  BY DEF Reconnect, HubInv, Up
<1>2. /\ Subscribe(c, cursor[c]) /\ cursor' = cursor /\ pos' = pos
      /\ pos \in [Tabs -> Nat] /\ Len(log) \in Nat /\ pos[c] \in Nat /\ pos[c] <= Len(log)
      /\ seq \in Nat /\ Len(ring) \in Nat /\ seq <= Len(log) /\ Len(ring) <= seq
  BY <1>1, LogTyped DEF Reconnect, TypeOK, Streaming, RoomInv, Numbered
<1>3. /\ TypeOK' /\ RoomInv' /\ LogGrows /\ RoomMoves
      /\ log' = log /\ seq' = seq /\ ring' = ring
      /\ \A d \in Tabs \ {c} : Streaming(d)'
      /\ conn'[c] = "up" /\ buf'[c] = <<>> /\ pending'[c] = Replay(id)
      /\ resetAt'[c] = IF pending'[c] = <<Reset>> THEN Len(log) ELSE 0
  BY <1>1, <1>2, SubscribeKeeps
<1>4. CursorKnown(c)'
  BY <1>1, <1>2, <1>3, CursorMoves DEF Streaming
<1>5. id \in {None} \cup (Nat \X Nat)
  BY <1>1, TabTyped
\* An event of this epoch that a cursor names.
<1>6. ASSUME id # None, id[1] = epoch'
      PROVE  \E e \in 1..pos[c] : /\ e > Len(log) - seq /\ id[2] = e - (Len(log) - seq)
                                  /\ e = pos[c] \/ id[2] < seq - Len(ring)
  <2>1. PICK e \in 1..pos[c] : /\ e <= Len(log) /\ id = <<log[e].epoch, log[e].seq>>
                               /\ e = pos[c] \/ Uncovered(id)'
    BY <1>2, <1>3, <1>4, <1>6 DEF CursorKnown
  <2>2. e \in 1..Len(log) /\ log[e].epoch = epoch' /\ log[e].seq = id[2]
    BY <1>2, <1>6, <2>1
  <2>3. e > Len(log) - seq /\ log[e].seq = e - (Len(log) - seq)
    BY <1>3, <2>2 DEF RoomInv, Numbered
  <2>4. e = pos[c] \/ id[2] < seq - Len(ring)
    BY <1>2, <1>3, <1>6, <2>1 DEF Uncovered
  <2> QED BY <2>2, <2>3, <2>4
\* The queue is what was replayed.
<1>7. pending'[c] \o buf'[c] = Replay(id)
  <2>1. Replay(id) \in Seq({Reset} \cup Nat)
    BY <1>3, TabTyped DEF TypeOK
  <2> QED BY <1>3, <2>1, ConcatEmptySeq
<1>8. CASE Replay(id) = <<>> /\ (id # None => id[1] = epoch' /\ id[2] = seq)
  <2>1. ResetSound(c)' /\ From(c)' = pos[c] /\ resetAt'[c] <= Len(log)
    BY <1>2, <1>3, <1>8 DEF ResetSound, ResetDue, From
  <2>2. id # None => pos[c] = Len(log)
    BY <1>2, <1>6, <1>8
  <2>3. Lists(pending'[c] \o buf'[c], Len(log) + 1, Len(log))
    BY <1>2, <1>7, <1>8, ListsEmpty
  <2>4. /\ Len(log) + 1 \in pos[c] + 1..Len(log) + 1 /\ Len(log) \in 0..Len(log)
        /\ id # None => (pos[c] + 1..Len(log) + 1 - 1) = {}
    BY <1>2, <2>2
  <2>5. Queued(c)'
    BY <1>2, <1>3, <2>1, <2>3, <2>4 DEF Queued
  <2> QED BY <1>2, <1>3, <1>4, <2>1, <2>5 DEF HubInv, Streaming, Up
<1>9. CASE /\ Replay(id) = <<Reset>> /\ id # None
           /\ id[1] # epoch' \/ id[2] > seq \/ id[2] < seq - Len(ring)
  <2>1. Uncovered(id)'
    <3>1. CASE id[1] = epoch' /\ id[2] > seq
      BY <1>2, <1>6, <1>9, <3>1
    <3>2. CASE id[1] # epoch' \/ id[2] < seq - Len(ring)
      BY <1>2, <1>3, <3>2 DEF Uncovered
    <3> QED BY <1>9, <3>1, <3>2
  <2>2. resetAt'[c] = Len(log) /\ ResetSound(c)' /\ From(c)' = Len(log)
    BY <1>2, <1>3, <1>9, <2>1 DEF ResetSound, ResetDue, From
  <2>3. Lists(pending'[c] \o buf'[c], Len(log) + 1, Len(log))
    BY <1>2, <1>7, <1>9, ListsEmpty
  <2>4. /\ Len(log) + 1 \in Len(log) + 1..Len(log) + 1 /\ Len(log) \in 0..Len(log)
        /\ (Len(log) + 1..Len(log) + 1 - 1) = {}
    BY <1>2
  <2>5. Queued(c)'
    BY <1>2, <1>3, <2>2, <2>3, <2>4 DEF Queued
  <2> QED BY <1>2, <1>3, <1>4, <2>2, <2>5 DEF HubInv, Streaming, Up
<1>10. CASE /\ id # None /\ id[1] = epoch' /\ seq - Len(ring) <= id[2] /\ id[2] < seq
            /\ Replay(id) \in Seq(Nat) /\ Len(Replay(id)) = seq - id[2]
            /\ \A i \in 1..Len(Replay(id)) : Replay(id)[i] = Len(log) - seq + id[2] + i
  <2>1. id[2] \in Nat
    BY <1>5, <1>10
  <2>2. pos[c] > Len(log) - seq /\ id[2] = pos[c] - (Len(log) - seq) /\ pos[c] >= 1
    <3>1. PICK e \in 1..pos[c] :
            /\ e > Len(log) - seq /\ id[2] = e - (Len(log) - seq)
            /\ (e = pos[c] \/ id[2] < seq - Len(ring))
      BY <1>6, <1>10
    <3>2. seq \in Nat /\ Len(ring) \in Nat /\ pos[c] \in Nat
      BY <1>2
    <3>3. e = pos[c]
      BY ONLY <1>10, <2>1, <3>1, <3>2
    <3>4. e >= 1
      BY <3>2
    <3> QED BY <3>1, <3>3, <3>4
  <2>3. /\ Len(Replay(id)) = Len(log) - (pos[c] + 1) + 1
        /\ \A i \in 1..Len(Replay(id)) : Replay(id)[i] = pos[c] + 1 + i - 1
    <3>1. Len(Replay(id)) = Len(log) - (pos[c] + 1) + 1
      BY <1>2, <1>10, <2>1, <2>2
    <3>2. \A i \in 1..Len(Replay(id)) : Replay(id)[i] = Len(log) - seq + id[2] + i
      BY <1>10
    <3>3. \A i \in Nat : Len(log) - seq + id[2] + i = pos[c] + 1 + i - 1
      BY <1>2, <2>1, <2>2
    <3>4. \A i \in 1..Len(Replay(id)) : i \in Nat
      OBVIOUS
    <3>5. ASSUME NEW i \in 1..Len(Replay(id)) PROVE Replay(id)[i] = pos[c] + 1 + i - 1
      <4>1. i \in Nat
        BY <3>4
      <4> QED BY <3>2, <3>3, <4>1
    <3> QED BY <3>1, <3>5
  <2>4. Lists(pending'[c] \o buf'[c], pos[c] + 1, Len(log))
    <3>1. pos[c] + 1 \in Nat \ {0}
      BY <1>2
    <3> QED BY <1>2, <1>7, <1>10, <2>3, <3>1, ListsRun
  <2>5. ResetSound(c)' /\ From(c)' = pos[c] /\ resetAt'[c] <= Len(log)
    <3>1. ASSUME NEW i \in 1..Len(Replay(id)) PROVE Replay(id)[i] # Reset
      <4>1. i \in Nat /\ i >= 1 /\ pos[c] \in Nat
        BY <1>2, <3>1
      <4>2. pos[c] + 1 + i - 1 # Reset
        BY ONLY <4>1 DEF Reset
      <4> QED BY <2>3, <3>1, <4>2
    <3>2. 1 \in 1..Len(Replay(id))
      <4>1. seq \in Nat /\ id[2] \in Nat /\ id[2] < seq /\ Len(Replay(id)) = seq - id[2]
        BY <1>2, <1>10, <2>1
      <4> QED BY ONLY <4>1
    <3>3. pending'[c] \in Seq(Nat) /\ pending'[c] # <<Reset>>
      <4>1. Replay(id) # <<Reset>>
        <5>1. Replay(id)[1] # Reset
          BY ONLY <3>1, <3>2
        <5>2. <<Reset>>[1] = Reset
          OBVIOUS
        <5> QED BY <5>1, <5>2, Zenon
      <4> QED BY <1>3, <1>10, <4>1
    <3>4. ~ ResetDue(c)'
      BY <1>3, <3>1, <3>2 DEF ResetDue
    <3>5. resetAt'[c] = 0
      BY <1>3, <3>3
    <3> QED BY <1>2, <3>3, <3>4, <3>5 DEF ResetSound, From
  <2>6. /\ pos[c] + 1 \in pos[c] + 1..Len(log) + 1 /\ Len(log) \in 0..Len(log)
        /\ (pos[c] + 1..pos[c] + 1 - 1) = {}
    BY <1>2
  <2>7. Queued(c)'
    BY <1>2, <1>3, <2>4, <2>5, <2>6 DEF Queued
  <2> QED BY <1>2, <1>3, <1>4, <2>5, <2>7 DEF HubInv, Streaming, Up
<1> QED BY <1>1, <1>5, <1>8, <1>9, <1>10, Replayed

-----------------------------------------------------------------------------
(* Delivering keeps the invariant.                                         *)

\* Deliver takes the head of what is queued, first from what was replayed.
LEMMA NextFrame ==
    ASSUME HubInv, NEW c \in Tabs, Deliver(c), NEW q, q = pending[c] \o buf[c]
    PROVE  /\ q \in Seq(Int) /\ q # <<>> /\ q[1] \in {Reset} \cup Nat
           /\ WriteEntitled(c, q[1])
           /\ pending'[c] \o buf'[c] = Tail(q)
           /\ pending'[c] \in Seq(Nat) /\ ~ ResetDue(c)'
           /\ ResetDue(c) <=> q[1] = Reset
           /\ pending' \in [Tabs -> Seq({Reset} \cup Nat)] /\ buf' \in [Tabs -> Seq(Nat)]
           /\ \A d \in Tabs : Len(buf'[d]) <= SubBuf
           /\ \A d \in Tabs \ {c} : pending'[d] = pending[d] /\ buf'[d] = buf[d]
<1>1. /\ TypeOK /\ Up(c) /\ Streaming(c)
      /\ pending[c] = <<Reset>> \/ pending[c] \in Seq(Nat)
      /\ pending \in [Tabs -> Seq({Reset} \cup Nat)] /\ buf \in [Tabs -> Seq(Nat)]
      /\ \A d \in Tabs : Len(buf[d]) <= SubBuf
  BY DEF HubInv, Deliver, Streaming, ResetSound, TypeOK
<1>2. /\ pending[c] \in Seq(Int) /\ buf[c] \in Seq(Int) /\ buf[c] \in Seq(Nat)
      /\ pending[c] \in Seq({Reset} \cup Nat)
  BY <1>1, TabTyped
<1>3. q \in Seq(Int)
  BY <1>2
<1>4. CASE pending[c] # <<>>
  <2>1. /\ WriteEntitled(c, Head(pending[c]))
        /\ pending' = [pending EXCEPT ![c] = Tail(pending[c])] /\ buf' = buf
    BY <1>4 DEF Deliver
  <2>2. q # <<>> /\ q[1] = pending[c][1] /\ Tail(q) = Tail(pending[c]) \o buf[c]
    BY <1>2, <1>4, ConcatTail
  <2>3. Head(pending[c]) = q[1] /\ q[1] \in {Reset} \cup Nat
    <3>1. Head(pending[c]) = pending[c][1]
      BY <1>2
    <3>2. pending[c][1] \in {Reset} \cup Nat
      BY <1>2, <1>4
    <3> QED BY <2>2, <3>1, <3>2
  <2>4. Tail(pending[c]) \in Seq(Nat)
    <3>1. CASE pending[c] = <<Reset>>
      <4>1. Tail(<<Reset>>) = <<>>
        OBVIOUS
      <4>2. Tail(pending[c]) = <<>>
        BY ONLY <3>1, <4>1, Zenon
      <4>3. <<>> \in Seq(Nat)
        OBVIOUS
      <4> QED BY ONLY <4>2, <4>3, Zenon
    <3>2. CASE pending[c] \in Seq(Nat)
      BY <1>4, <3>2, HeadTailProperties
    <3> QED BY <1>1, <3>1, <3>2
  <2>5. Tail(pending[c]) \in Seq({Reset} \cup Nat)
    BY <1>2, <1>4
  <2>6. /\ pending'[c] = Tail(pending[c])
        /\ pending' \in [Tabs -> Seq({Reset} \cup Nat)] /\ buf' \in [Tabs -> Seq(Nat)]
        /\ \A d \in Tabs \ {c} : pending'[d] = pending[d]
    <3> DEFINE S == Seq({Reset} \cup Nat)
               r == Tail(pending[c])
    <3>1. pending \in [Tabs -> S] /\ r \in S /\ pending' = [pending EXCEPT ![c] = r]
      BY <1>1, <2>1, <2>5
    <3> HIDE DEF S, r
    <3>2. pending'[c] = r /\ pending' \in [Tabs -> S] /\ \A d \in Tabs \ {c} : pending'[d] = pending[d]
      BY <3>1
    <3> QED BY <1>1, <2>1, <3>2 DEF S, r
  <2>7. ~ ResetDue(c)'
    <3>1. SUFFICES ASSUME pending'[c] # <<>>, pending'[c][1] = Reset PROVE FALSE
      BY DEF ResetDue
    <3>2. pending'[c][1] \in Nat
      <4> DEFINE s == pending'[c]
      <4>1. s \in Seq(Nat) /\ s # <<>>
        BY ONLY <2>4, <2>6, <3>1
      <4> HIDE DEF s
      <4>2. s[1] \in Nat
        BY ONLY <4>1
      <4> QED BY <4>2 DEF s
    <3> QED BY <3>1, <3>2 DEF Reset
  <2>8. ResetDue(c) <=> q[1] = Reset
    BY <1>4, <2>2 DEF ResetDue
  <2>9. pending'[c] \o buf'[c] = Tail(q)
    BY <2>1, <2>2, <2>6
  <2> QED BY <1>1, <1>3, <2>1, <2>2, <2>3, <2>4, <2>6, <2>7, <2>8, <2>9
<1>5. CASE pending[c] = <<>>
  <2>1. /\ buf[c] # <<>> /\ WriteEntitled(c, Head(buf[c]))
        /\ buf' = [buf EXCEPT ![c] = Tail(buf[c])] /\ pending' = pending
    BY <1>5 DEF Deliver
  <2>2. q = buf[c]
    BY <1>2, <1>5, ConcatEmptySeq
  <2>3. Head(buf[c]) = q[1] /\ q[1] \in Nat /\ Tail(buf[c]) \in Seq(Nat)
        /\ Len(Tail(buf[c])) = Len(buf[c]) - 1 /\ Len(buf[c]) \in Nat
    BY <1>2, <2>1, <2>2, HeadTailProperties
  <2>4. /\ buf'[c] = Tail(buf[c]) /\ buf' \in [Tabs -> Seq(Nat)]
        /\ \A d \in Tabs \ {c} : buf'[d] = buf[d]
    <3> DEFINE S == Seq(Nat)
               r == Tail(buf[c])
    <3>1. buf \in [Tabs -> S] /\ r \in S /\ buf' = [buf EXCEPT ![c] = r]
      BY <1>1, <2>1, <2>3
    <3> HIDE DEF S, r
    <3>2. buf'[c] = r /\ buf' \in [Tabs -> S] /\ \A d \in Tabs \ {c} : buf'[d] = buf[d]
      BY <3>1
    <3> QED BY <3>2 DEF S, r
  <2>5. \A d \in Tabs : Len(buf'[d]) <= SubBuf
    <3>1. Len(buf'[c]) <= SubBuf
      BY <1>1, <2>3, <2>4, HubConfig
    <3> QED BY <1>1, <2>4, <3>1
  <2>6. pending'[c] = <<>> /\ ~ ResetDue(c)' /\ ~ ResetDue(c) /\ q[1] # Reset
    BY <1>5, <2>1, <2>3 DEF ResetDue, Reset
  <2>7. pending'[c] \o buf'[c] = Tail(q)
    <3>1. Tail(buf[c]) \in Seq(Nat)
      BY <2>3
    <3> QED BY <2>2, <2>4, <2>6, <3>1, ConcatEmptySeq
  <2> QED BY <1>1, <1>3, <2>1, <2>2, <2>3, <2>4, <2>5, <2>6, <2>7
<1> QED BY <1>4, <1>5

\* The three things that a frame does to its client.
Obtained(c) ==
    /\ \E k \in pos[c] + 1..Len(log) :
          /\ cursor[c] # None => (pos[c] + 1..k - 1) \subseteq Hidden
          /\ pos' = [pos EXCEPT ![c] = k]
          /\ cursor' = [cursor EXCEPT ![c] = <<log[k].epoch, log[k].seq>>]
    /\ resets' = resets
Told(c) ==
    /\ cursor[c] # None /\ pos[c] <= resetAt[c] /\ resetAt[c] <= Len(log)
    /\ pos' = [pos EXCEPT ![c] = resetAt[c]]
    /\ resets' = [resets EXCEPT ![c] = @ + 1]
    /\ cursor' = cursor
Passed == UNCHANGED <<pos, cursor, resets>>

LEMMA Delivered ==
    ASSUME HubInv, NEW c \in Tabs, Deliver(c)
    PROVE  HubInv' /\ (Obtained(c) \/ Told(c) \/ Passed)
<1> DEFINE q == pending[c] \o buf[c]
<1>1. /\ TypeOK /\ RoomInv /\ Up(c) /\ Streaming(c) /\ ResetSound(c) /\ CursorKnown(c)
      /\ UNCHANGED <<log, hubVars, subs, conn, resetAt, breaks>>
      /\ pos[c] <= Len(log) /\ resetAt[c] <= Len(log)
  BY DEF HubInv, Deliver, Streaming
<1>2. /\ q \in Seq(Int) /\ q # <<>> /\ q[1] \in {Reset} \cup Nat
      /\ WriteEntitled(c, q[1])
      /\ pending'[c] \o buf'[c] = Tail(q)
      /\ pending'[c] \in Seq(Nat) /\ ~ ResetDue(c)'
      /\ ResetDue(c) <=> q[1] = Reset
      /\ pending' \in [Tabs -> Seq({Reset} \cup Nat)] /\ buf' \in [Tabs -> Seq(Nat)]
      /\ \A d \in Tabs : Len(buf'[d]) <= SubBuf
      /\ \A d \in Tabs \ {c} : pending'[d] = pending[d] /\ buf'[d] = buf[d]
  BY NextFrame
<1>3. /\ pos \in [Tabs -> Nat] /\ resetAt \in [Tabs -> Nat] /\ resets \in [Tabs -> Nat]
      /\ cursor \in [Tabs -> {None} \cup (Nat \X Nat)]
      /\ pos[c] \in Nat /\ resetAt[c] \in Nat /\ Len(log) \in Nat
      /\ seq' \in Nat /\ Len(ring') \in Nat
  BY <1>1, LogTyped DEF TypeOK, hubVars
<1>4. /\ LogGrows /\ RoomMoves /\ RoomInv'
  BY <1>1, RoomKept DEF hubVars
<1>5. PICK first \in From(c) + 1..Len(log) + 1, last \in 0..Len(log) :
         /\ Lists(q, first, last)
         /\ c \in subs => last = Len(log)
         /\ cursor[c] # None => (From(c) + 1..first - 1) \subseteq Hidden
  BY <1>1 DEF Streaming, Queued
<1> HIDE DEF q
<1>6. /\ first \in Nat /\ last \in Nat /\ From(c) \in Nat
      /\ ~ (q[1] > 0) => Lists(Tail(q), first, last)
      /\ q[1] > 0 => q[1] = first /\ first <= last /\ Lists(Tail(q), first + 1, last)
  <2>1. first \in Nat /\ last \in Nat /\ From(c) \in Nat
    BY <1>1, <1>3, <1>5, TabTyped
  <2> QED BY <1>2, <1>5, <2>1, ListsTail
\* What is left to show of a frame: the client's new place.
<1> DEFINE Stands(next) ==
         /\ pos' \in [Tabs -> Nat] /\ resets' \in [Tabs -> Nat]
         /\ cursor' \in [Tabs -> {None} \cup (Nat \X Nat)]
         /\ \A d \in Tabs \ {c} : pos'[d] = pos[d] /\ cursor'[d] = cursor[d]
         /\ pos'[c] <= Len(log) /\ CursorKnown(c)'
         /\ next \in pos'[c] + 1..Len(log) + 1 /\ Lists(Tail(q), next, last)
         /\ cursor'[c] # None => (pos'[c] + 1..next - 1) \subseteq Hidden
<1>7. ASSUME NEW next, Stands(next)
      PROVE  HubInv'
  <2>1. TypeOK'
    BY <1>1, <1>2, <1>7 DEF TypeOK, hubVars, Up
  <2>2. ASSUME NEW d \in Tabs \ {c} PROVE Streaming(d)'
    <3>1. /\ Streaming(d) /\ conn'[d] = conn[d] /\ resetAt'[d] = resetAt[d]
          /\ subs' = subs /\ log' = log
      BY <1>1 DEF HubInv
    <3> QED BY <1>1, <1>2, <1>3, <1>4, <1>7, <3>1, TabKept
  <2>3. From(c)' = pos'[c] /\ ResetSound(c)'
    BY <1>2 DEF From, ResetSound
  <2>4. Queued(c)'
    <3>1. log' = log /\ subs' = subs /\ Hidden' = Hidden /\ pending'[c] \o buf'[c] = Tail(q)
      BY <1>1, <1>2 DEF Hidden
    <3>2. next \in From(c)' + 1..Len(log') + 1 /\ last \in 0..Len(log')
      BY <1>5, <1>7, <2>3, <3>1
    <3>3. Lists(pending'[c] \o buf'[c], next, last) /\ (c \in subs' => last = Len(log'))
      BY <1>5, <1>7, <3>1
    <3>4. cursor'[c] # None => (From(c)' + 1..next - 1) \subseteq Hidden'
      BY <1>7, <2>3, <3>1
    <3> QED BY ONLY <3>2, <3>3, <3>4 DEF Queued
  <2>5. Streaming(c)'
    BY <1>1, <1>7, <2>3, <2>4 DEF Streaming, Up
  <2> QED BY <1>4, <2>1, <2>2, <2>5 DEF HubInv
<1> HIDE DEF Stands
<1>8. CASE q[1] = Reset
  <2>1. ~ (q[1] \in Hidden) /\ ~ (q[1] > 0)
    BY <1>3, <1>8 DEF Reset, Hidden
  <2>2. /\ pos' = [pos EXCEPT ![c] = resetAt[c]]
        /\ resets' = [resets EXCEPT ![c] = @ + 1] /\ cursor' = cursor
    <3>1. Write(c, q[1])
      BY <1>2, <2>1 DEF WriteEntitled
    <3>2. q[1] # Ephemeral
      BY <1>8 DEF Reset, Ephemeral
    <3> QED BY <1>8, <3>1, <3>2 DEF Write
  <2>3. cursor[c] # None /\ Uncovered(cursor[c]) /\ pos[c] <= resetAt[c] /\ From(c) = resetAt[c]
    BY <1>1, <1>2, <1>8 DEF ResetSound, From
  <2>4. /\ pos' \in [Tabs -> Nat] /\ resets' \in [Tabs -> Nat] /\ pos'[c] = resetAt[c]
        /\ \A d \in Tabs \ {c} : pos'[d] = pos[d]
    BY <1>3, <2>2
  <2>5. CursorKnown(c)'
    <3>1. Uncovered(cursor[c])'
      BY <1>1, <2>2, <2>3 DEF Uncovered, hubVars
    <3>2. PICK e \in 1..pos[c] : e <= Len(log) /\ cursor[c] = <<log[e].epoch, log[e].seq>>
      BY <1>1, <2>3 DEF CursorKnown
    <3>3. e \in 1..pos'[c]
      BY <1>3, <2>3, <2>4
    <3> QED BY <1>1, <2>2, <3>1, <3>2, <3>3 DEF CursorKnown
  <2>6. Stands(first)
    BY <1>1, <1>3, <1>5, <1>6, <2>1, <2>2, <2>3, <2>4, <2>5 DEF Stands
  <2>7. HubInv'
    BY ONLY <1>7, <2>6
  <2> QED BY <1>1, <2>2, <2>3, <2>7 DEF Told
<1>9. CASE q[1] = Ephemeral
  <2>1. /\ ~ (q[1] > 0) /\ ~ ResetDue(c) /\ q[1] # Reset
    BY <1>2, <1>9 DEF Ephemeral, Reset
  <2>2. pos' = pos /\ cursor' = cursor /\ resets' = resets
    BY <1>2, <1>9, <2>1 DEF WriteEntitled, Write
  <2>3. From(c) = pos[c] /\ CursorKnown(c)'
    BY <1>1, <2>1, <2>2 DEF From, CursorKnown, Uncovered, hubVars
  <2>4. Stands(first)
    BY <1>1, <1>3, <1>5, <1>6, <2>1, <2>2, <2>3 DEF Stands
  <2>5. HubInv'
    BY ONLY <1>7, <2>4
  <2> QED BY <2>2, <2>5 DEF Passed
<1>10. CASE q[1] > 0
  <2>1. /\ q[1] = first /\ first <= last /\ Lists(Tail(q), first + 1, last)
        /\ q[1] # Reset /\ q[1] # Ephemeral /\ ~ ResetDue(c) /\ From(c) = pos[c]
        /\ first \in pos[c] + 1..Len(log) /\ first \in 1..Len(log)
    <3>1. q[1] # Reset /\ q[1] # Ephemeral
      BY <1>2, <1>10 DEF Reset, Ephemeral
    <3>2. ~ ResetDue(c) /\ From(c) = pos[c]
      BY <1>2, <3>1 DEF From
    <3>3. q[1] = first /\ first <= last /\ Lists(Tail(q), first + 1, last)
      BY <1>6, <1>10
    <3>4. first \in pos[c] + 1..Len(log) /\ first \in 1..Len(log)
      BY <1>3, <1>5, <3>2, <3>3
    <3> QED BY <3>1, <3>2, <3>3, <3>4
  <2>2. CASE Write(c, first)
    <3>1. /\ cursor' = [cursor EXCEPT ![c] = <<log[first].epoch, log[first].seq>>]
          /\ pos' = [pos EXCEPT ![c] = first] /\ resets' = resets
      BY <2>1, <2>2 DEF Write
    <3>2. log[first].epoch \in Nat /\ log[first].seq \in Nat
      BY <1>1, <2>1, LogTyped
    <3>3. /\ pos' \in [Tabs -> Nat] /\ pos'[c] = first
          /\ \A d \in Tabs \ {c} : pos'[d] = pos[d] /\ cursor'[d] = cursor[d]
      BY <1>3, <1>6, <3>1
    <3>4. /\ cursor' \in [Tabs -> {None} \cup (Nat \X Nat)]
          /\ cursor'[c] = <<log[first].epoch, log[first].seq>>
      <4> DEFINE S == {None} \cup (Nat \X Nat)
                 id == <<log[first].epoch, log[first].seq>>
      <4>1. id \in S
        BY <3>2
      <4>2. cursor \in [Tabs -> S] /\ cursor' = [cursor EXCEPT ![c] = id]
        BY <1>3, <3>1
      <4> HIDE DEF S, id
      <4>3. cursor' \in [Tabs -> S] /\ cursor'[c] = id
        BY <4>1, <4>2
      <4> QED BY <4>3 DEF S, id
    <3>5. CursorKnown(c)'
      <4>1. first \in 1..pos'[c] /\ first <= Len(log')
        BY <1>1, <1>6, <2>1, <3>3
      <4> QED BY <1>1, <3>3, <3>4, <4>1 DEF CursorKnown
    <3> DEFINE next == first + 1
    <3>6. /\ next \in pos'[c] + 1..Len(log) + 1 /\ pos'[c] <= Len(log)
          /\ (pos'[c] + 1..next - 1) = {}
      BY <1>3, <1>6, <2>1, <3>3
    <3>7. resets' \in [Tabs -> Nat] /\ Lists(Tail(q), next, last)
      BY <1>3, <2>1, <3>1
    <3> HIDE DEF next
    <3>8. cursor'[c] # None => (pos'[c] + 1..next - 1) \subseteq Hidden
      BY ONLY <3>6
    <3>9. Stands(next)
      BY ONLY <3>3, <3>4, <3>5, <3>6, <3>7, <3>8 DEF Stands
    <3>10. HubInv'
      BY ONLY <1>7, <3>9
    <3>11. Obtained(c)
      BY <1>5, <2>1, <3>1 DEF Obtained
    <3> QED BY <3>10, <3>11
  <2>3. CASE first \in Hidden /\ UNCHANGED <<cursor, pos, resets>>
    <3>1. CursorKnown(c)'
      BY <1>1, <2>3 DEF CursorKnown, Uncovered, hubVars
    <3>2. first + 1 \in pos[c] + 1..Len(log) + 1
      BY <1>3, <1>6, <2>1
    <3>3. cursor[c] # None => (pos[c] + 1..first + 1 - 1) \subseteq Hidden
      <4>1. ASSUME NEW k \in pos[c] + 1..first + 1 - 1 PROVE k = first \/ k \in pos[c] + 1..first - 1
        BY <1>3, <1>6
      <4> QED BY <1>5, <2>1, <2>3, <4>1
    <3>4. /\ pos' \in [Tabs -> Nat] /\ resets' \in [Tabs -> Nat]
          /\ cursor' \in [Tabs -> {None} \cup (Nat \X Nat)]
          /\ \A d \in Tabs \ {c} : pos'[d] = pos[d] /\ cursor'[d] = cursor[d]
          /\ pos'[c] <= Len(log)
      BY <1>1, <1>3, <2>3
    <3> DEFINE next == first + 1
    <3>5. /\ next \in pos'[c] + 1..Len(log) + 1 /\ Lists(Tail(q), next, last)
          /\ cursor'[c] # None => (pos'[c] + 1..next - 1) \subseteq Hidden
      BY <2>1, <2>3, <3>2, <3>3
    <3> HIDE DEF next
    <3>6. Stands(next)
      BY ONLY <3>1, <3>4, <3>5 DEF Stands
    <3>7. HubInv'
      BY ONLY <1>7, <3>6
    <3> QED BY <2>3, <3>7 DEF Passed
  <2> QED BY <1>2, <2>1, <2>2, <2>3 DEF WriteEntitled
<1>11. q[1] = Reset \/ q[1] = Ephemeral \/ q[1] > 0
  BY <1>2 DEF Ephemeral
<1> QED BY <1>8, <1>9, <1>10, <1>11

-----------------------------------------------------------------------------
(* The ends of a stream, and of the process.                               *)

\* Quit, Disconnect and CloseTab: the tab lets go of what was queued.
LEMMA EndKeeps ==
    ASSUME HubInv, NEW c \in Tabs, NEW after \in {"down", "closed"}, EndStream(c, after),
           pos' = pos, breaks' \in 0..MaxBreaks,
           IF after = "closed" THEN cursor' = [cursor EXCEPT ![c] = None] ELSE cursor' = cursor
    PROVE  HubInv'
<1>1. /\ TypeOK /\ RoomInv /\ subs' = subs \ {c}
      /\ conn' = [conn EXCEPT ![c] = after]
      /\ pending' = [pending EXCEPT ![c] = <<>>] /\ buf' = [buf EXCEPT ![c] = <<>>]
      /\ UNCHANGED <<log, metaEpoch, storeEpoch, epoch, seq, ring, resetAt, resets>>
  BY DEF HubInv, EndStream, hubVars
<1>2. /\ conn \in [Tabs -> {"closed", "down", "up"}] /\ subs \subseteq {d \in Tabs : Up(d)}
      /\ pending \in [Tabs -> Seq({Reset} \cup Nat)] /\ buf \in [Tabs -> Seq(Nat)]
      /\ \A d \in Tabs : Len(buf[d]) <= SubBuf
      /\ cursor \in [Tabs -> {None} \cup (Nat \X Nat)]
  BY <1>1 DEF TypeOK
<1>3. /\ LogGrows /\ RoomMoves /\ RoomInv' /\ seq' \in Nat /\ Len(ring') \in Nat
  BY <1>1, LogTyped, RoomKept
<1>4. /\ conn' \in [Tabs -> {"closed", "down", "up"}] /\ conn'[c] = after
      /\ subs' \subseteq {d \in Tabs : Up(d)'}
      /\ \A d \in Tabs \ {c} : conn'[d] = conn[d]
  BY <1>1, <1>2 DEF Up
<1>5. /\ pending' \in [Tabs -> Seq({Reset} \cup Nat)] /\ pending'[c] = <<>>
      /\ \A d \in Tabs \ {c} : pending'[d] = pending[d]
  <2> DEFINE S == Seq({Reset} \cup Nat)
  <2>1. <<>> \in S
    OBVIOUS
  <2> HIDE DEF S
  <2>2. pending \in [Tabs -> S]
    BY <1>2 DEF S
  <2>3. /\ pending' \in [Tabs -> S] /\ pending'[c] = <<>>
        /\ \A d \in Tabs \ {c} : pending'[d] = pending[d]
    BY <1>1, <2>1, <2>2
  <2> QED BY <2>3 DEF S
<1>6. /\ buf' \in [Tabs -> Seq(Nat)] /\ buf'[c] = <<>>
      /\ \A d \in Tabs \ {c} : buf'[d] = buf[d]
      /\ \A d \in Tabs : Len(buf'[d]) <= SubBuf
  <2> DEFINE S == Seq(Nat)
  <2>1. <<>> \in S /\ Len(<<>>) = 0 /\ 0 <= SubBuf
    BY HubConfig
  <2> HIDE DEF S
  <2>2. buf \in [Tabs -> S]
    BY <1>2 DEF S
  <2>3. /\ buf' \in [Tabs -> S] /\ buf'[c] = <<>> /\ \A d \in Tabs \ {c} : buf'[d] = buf[d]
    BY <1>1, <2>1, <2>2
  <2>4. \A d \in Tabs : Len(buf'[d]) <= SubBuf
    BY <1>2, <2>1, <2>3
  <2> QED BY <2>3, <2>4 DEF S
<1>7. /\ cursor' \in [Tabs -> {None} \cup (Nat \X Nat)]
      /\ \A d \in Tabs \ {c} : cursor'[d] = cursor[d]
      /\ IF after = "closed" THEN cursor'[c] = None ELSE cursor'[c] = cursor[c]
  <2> DEFINE S == {None} \cup (Nat \X Nat)
  <2>1. None \in S /\ cursor \in [Tabs -> S]
    BY <1>2
  <2> HIDE DEF S
  <2>2. /\ cursor' \in [Tabs -> S] /\ \A d \in Tabs \ {c} : cursor'[d] = cursor[d]
        /\ IF after = "closed" THEN cursor'[c] = None ELSE cursor'[c] = cursor[c]
    BY <2>1
  <2> QED BY <2>2 DEF S
<1>8. TypeOK'
  BY <1>1, <1>4, <1>5, <1>6, <1>7 DEF TypeOK
<1>9. ASSUME NEW d \in Tabs \ {c} PROVE Streaming(d)'
  <2>1. Streaming(d) /\ pos'[d] = pos[d] /\ resetAt'[d] = resetAt[d]
        /\ (d \in subs' => d \in subs) /\ Len(log') = Len(log)
    BY <1>1 DEF HubInv
  <2> QED BY <1>1, <1>3, <1>4, <1>5, <1>6, <1>7, <2>1, TabKept
<1>10. Streaming(c)'
  <2>1. Streaming(c)
    BY DEF HubInv
  <2>2. CursorKnown(c)'
    <3>1. CASE cursor'[c] = None
      BY <3>1 DEF CursorKnown
    <3>2. CASE cursor'[c] = cursor[c]
      BY <1>1, <1>3, <2>1, <3>2, CursorMoves DEF Streaming
    <3> QED BY <1>7, <3>1, <3>2
  <2> QED BY <1>1, <1>4, <1>5, <1>6, <1>7, <2>1, <2>2 DEF Streaming, Up
<1> QED BY <1>3, <1>8, <1>9, <1>10 DEF HubInv

LEMMA CloseAllKeeps ==
    ASSUME HubInv, CloseAll
    PROVE  HubInv'
<1>1. /\ TypeOK /\ RoomInv /\ subs' = {} /\ breaks' \in 0..MaxBreaks
      /\ UNCHANGED <<log, metaEpoch, storeEpoch, epoch, seq, ring,
                     conn, pending, buf, cursor, pos, resetAt, resets>>
  <2>1. TypeOK /\ RoomInv
    BY DEF HubInv
  <2>2. breaks \in 0..MaxBreaks
    BY <2>1 DEF TypeOK
  <2>3. breaks < MaxBreaks /\ breaks' = breaks + 1
    BY DEF CloseAll
  <2>4. breaks' \in 0..MaxBreaks
    BY ONLY <2>2, <2>3, HubConfig
  <2>5. /\ subs' = {}
        /\ UNCHANGED <<log, metaEpoch, storeEpoch, epoch, seq, ring,
                       conn, pending, buf, cursor, pos, resetAt, resets>>
    BY DEF CloseAll, hubVars
  <2> QED BY ONLY <2>1, <2>4, <2>5
<1>2. /\ LogGrows /\ RoomMoves /\ RoomInv' /\ seq' \in Nat /\ Len(ring') \in Nat
  BY <1>1, LogTyped, RoomKept
<1>3. TypeOK'
  BY <1>1 DEF TypeOK
<1>4. ASSUME NEW d \in Tabs PROVE Streaming(d)'
  <2>1. Streaming(d) /\ d \notin subs'
    BY <1>1 DEF HubInv
  <2> QED BY <1>1, <1>2, <2>1, TabKept
<1> QED BY <1>2, <1>3, <1>4 DEF HubInv

\* A process that starts has no room: the next one has a new epoch.
LEMMA RestartKeeps ==
    ASSUME HubInv, Restart
    PROVE  HubInv'
<1>1. /\ TypeOK /\ RoomInv /\ subs' = {} /\ breaks' \in 0..MaxBreaks
      /\ storeEpoch' = NoEpoch /\ epoch' = NoEpoch /\ seq' = 0 /\ ring' = <<>>
      /\ conn' = [c \in Tabs |-> IF Up(c) THEN "down" ELSE conn[c]]
      /\ pending' = [c \in Tabs |-> <<>>] /\ buf' = [c \in Tabs |-> <<>>]
      /\ UNCHANGED <<log, metaEpoch, cursor, pos, resetAt, resets>>
  <2>1. TypeOK /\ RoomInv
    BY DEF HubInv
  <2>2. breaks \in 0..MaxBreaks
    BY <2>1 DEF TypeOK
  <2>3. breaks < MaxBreaks /\ breaks' = breaks + 1
    BY DEF Restart
  <2>4. breaks' \in 0..MaxBreaks
    BY ONLY <2>2, <2>3, HubConfig
  <2>5. /\ subs' = {}
        /\ storeEpoch' = NoEpoch /\ epoch' = NoEpoch /\ seq' = 0 /\ ring' = <<>>
        /\ conn' = [c \in Tabs |-> IF Up(c) THEN "down" ELSE conn[c]]
        /\ pending' = [c \in Tabs |-> <<>>] /\ buf' = [c \in Tabs |-> <<>>]
        /\ UNCHANGED <<log, metaEpoch, cursor, pos, resetAt, resets>>
    BY DEF Restart
  <2> QED BY ONLY <2>1, <2>4, <2>5
<1>2. /\ Len(log) \in Nat /\ metaEpoch \in Nat /\ metaEpoch >= Fresh
      /\ Len(ring') = 0 /\ RingCap >= 0
      /\ \A k \in 1..Len(log) : /\ log[k].epoch \in Nat /\ Fresh <= log[k].epoch
                                /\ log[k].epoch <= metaEpoch
  <2>1. Len(log) \in Nat /\ metaEpoch \in Nat /\ \A k \in 1..Len(log) : log[k].epoch \in Nat
    BY <1>1, LogTyped
  <2>2. metaEpoch >= Fresh
    BY <1>1 DEF RoomInv, EpochsAgree
  <2>3. \A k \in 1..Len(log) : Fresh <= log[k].epoch /\ log[k].epoch <= metaEpoch
    BY <1>1 DEF RoomInv, Numbered
  <2>4. Len(ring') = 0 /\ RingCap >= 0
    BY <1>1, HubConfig
  <2> QED BY <2>1, <2>2, <2>3, <2>4
<1>3. \A k \in 1..Len(log) : log[k].epoch # NoEpoch
  BY <1>2 DEF Fresh, NoEpoch
<1>4. RoomInv'
  <2>1. EpochsAgree'
    BY <1>1, <1>2 DEF EpochsAgree
  <2>2. Numbered'
    BY <1>1, <1>2, <1>3 DEF Numbered
  <2>3. RingIsSuffix'
    BY <1>1, <1>2 DEF RingIsSuffix
  <2>4. IdsNeverAlias'
    BY <1>1 DEF RoomInv, IdsNeverAlias
  <2> QED BY <2>1, <2>2, <2>3, <2>4 DEF RoomInv
<1>5. LogGrows /\ RoomMoves
  BY <1>1, <1>2, <1>3 DEF LogGrows, RoomMoves
<1>6. /\ pending' \in [Tabs -> Seq({Reset} \cup Nat)] /\ buf' \in [Tabs -> Seq(Nat)]
      /\ \A c \in Tabs : Len(buf'[c]) <= SubBuf
  BY <1>1, HubConfig
<1>7. conn' \in [Tabs -> {"closed", "down", "up"}]
  BY <1>1 DEF TypeOK
<1>8. TypeOK'
  <2>1. ring' \in Seq(Nat) /\ NoEpoch \in Nat
    BY <1>1 DEF NoEpoch
  <2> QED BY <1>1, <1>6, <1>7, <2>1 DEF TypeOK
<1>9. ASSUME NEW c \in Tabs PROVE Streaming(c)'
  <2>1. Streaming(c)
    BY DEF HubInv
  <2>2. CursorKnown(c)'
    BY <1>1, <1>2, <1>5, <2>1, CursorMoves DEF Streaming
  <2>3. /\ ~ Up(c)' /\ (conn'[c] = "closed" => conn[c] = "closed")
        /\ pending'[c] = <<>> /\ buf'[c] = <<>>
    BY <1>1 DEF Up
  <2> QED BY <1>1, <2>1, <2>2, <2>3 DEF Streaming
<1> QED BY <1>4, <1>8, <1>9 DEF HubInv

-----------------------------------------------------------------------------
(* The theorems.                                                           *)

LEMMA HubInit == Init => HubInv
<1> SUFFICES ASSUME Init PROVE HubInv
  OBVIOUS
<1>1. /\ log = <<>> /\ Len(log) = 0 /\ metaEpoch = Fresh /\ storeEpoch = NoEpoch
      /\ epoch = NoEpoch /\ seq = 0 /\ ring = <<>> /\ Len(ring) = 0 /\ subs = {}
      /\ conn = [c \in Tabs |-> "closed"] /\ pending = [c \in Tabs |-> <<>>]
      /\ buf = [c \in Tabs |-> <<>>] /\ cursor = [c \in Tabs |-> None]
      /\ pos = [c \in Tabs |-> 0] /\ resetAt = [c \in Tabs |-> 0]
      /\ resets = [c \in Tabs |-> 0] /\ breaks = 0
  BY DEF Init
<1>2. TypeOK
  <2>1. /\ log \in Seq([epoch : Nat, seq : Nat, private : BOOLEAN]) /\ ring \in Seq(Nat)
        /\ pending \in [Tabs -> Seq({Reset} \cup Nat)] /\ buf \in [Tabs -> Seq(Nat)]
    BY <1>1
  <2>2. cursor \in [Tabs -> {None} \cup (Nat \X Nat)]
    BY <1>1
  <2> QED BY <1>1, <2>1, <2>2, HubConfig DEF TypeOK, Fresh, NoEpoch
<1>3. RoomInv
  BY <1>1, HubConfig DEF RoomInv, EpochsAgree, Numbered, RingIsSuffix, IdsNeverAlias, Fresh, NoEpoch
<1>4. ASSUME NEW c \in Tabs PROVE Streaming(c)
  BY <1>1 DEF Streaming, CursorKnown, Up
<1> QED BY <1>2, <1>3, <1>4 DEF HubInv

LEMMA HubNext == HubInv /\ [Next]_vars => HubInv'
<1> SUFFICES ASSUME HubInv, [Next]_vars PROVE HubInv'
  OBVIOUS
<1>1. ASSUME NEW private \in BOOLEAN, Publish(private) PROVE HubInv'
  BY <1>1, PublishKeeps
<1>2. CASE PublishEphemeral
  BY <1>2, EphemeralKeeps
<1>3. ASSUME NEW c \in Tabs, Open(c) PROVE HubInv'
  BY <1>3, OpenKeeps
<1>4. ASSUME NEW c \in Tabs, Reconnect(c) PROVE HubInv'
  BY <1>4, ReconnectKeeps
<1>5. ASSUME NEW c \in Tabs, Deliver(c) PROVE HubInv'
  BY <1>5, Delivered
<1>6. ASSUME NEW c \in Tabs, Quit(c) PROVE HubInv'
  <2>1. breaks' \in 0..MaxBreaks
    BY <1>6 DEF HubInv, TypeOK, Quit
  <2> QED BY <1>6, <2>1, EndKeeps DEF Quit
<1>7. ASSUME NEW c \in Tabs, Disconnect(c) PROVE HubInv'
  <2>1. breaks' \in 0..MaxBreaks
    BY <1>7, HubConfig DEF HubInv, TypeOK, Disconnect
  <2> QED BY <1>7, <2>1, EndKeeps DEF Disconnect
<1>8. ASSUME NEW c \in Tabs, CloseTab(c) PROVE HubInv'
  <2>1. breaks' \in 0..MaxBreaks
    BY <1>8 DEF HubInv, TypeOK, CloseTab
  <2> QED BY <1>8, <2>1, EndKeeps DEF CloseTab
<1>9. CASE CloseAll
  BY <1>9, CloseAllKeeps
<1>10. CASE Restart
  BY <1>10, RestartKeeps
<1>11. CASE UNCHANGED vars
  <2>1. /\ TypeOK /\ RoomInv
        /\ UNCHANGED <<log, metaEpoch, storeEpoch, epoch, seq, ring, subs, conn, pending, buf,
                       cursor, pos, resetAt, resets, breaks>>
    BY <1>11 DEF HubInv, vars, hubVars
  <2>2. TypeOK'
    BY <2>1 DEF TypeOK, Up
  <2>3. RoomInv' /\ LogGrows /\ RoomMoves /\ seq' \in Nat /\ Len(ring') \in Nat
    BY <2>1, LogTyped, RoomKept
  <2>4. ASSUME NEW c \in Tabs PROVE Streaming(c)'
    <3>1. Streaming(c)
      BY DEF HubInv
    <3> QED BY <2>1, <2>3, <3>1, TabKept
  <2> QED BY <2>2, <2>3, <2>4 DEF HubInv
<1> QED BY <1>1, <1>2, <1>3, <1>4, <1>5, <1>6, <1>7, <1>8, <1>9, <1>10, <1>11 DEF Next

LEMMA HubAlways == Spec => []HubInv
BY HubInit, HubNext, PTL DEF Spec

\* handlers_chat_events.go, Subscribe, project: ids are never used twice, the
\* ring is the end of the room's events, and what is queued for a stream whose
\* client has a cursor continues where the client stands, without a hole.
THEOREM StreamsComplete == Spec => []StreamComplete
<1>1. HubInv => StreamComplete
  <2> SUFFICES ASSUME HubInv PROVE StreamComplete
    OBVIOUS
  <2>1. RingSound
    BY DEF HubInv, RoomInv, RingSound
  <2>2. ASSUME NEW c \in Tabs, Up(c), cursor[c] # None PROVE Covered(c)
    BY <2>2 DEF HubInv, Streaming, ResetSound, Queued, Covered
  <2> QED BY <2>1, <2>2 DEF StreamComplete
<1> QED BY <1>1, HubAlways, PTL

-----------------------------------------------------------------------------
(* The hub keeps the promise of EventStream.                               *)

LEMMA StreamInit == Init => Stream!Init
BY DEF Init, Stream!Init, Hidden

LEMMA StreamStep ==
    ASSUME HubInv, HubInv', [Next]_vars
    PROVE  [Stream!Next]_(Stream!vars)
<1> DEFINE open == {c \in Tabs : conn[c] # "closed"}
           known == {c \in Tabs : cursor[c] # None}
<1>1. Len(log) \in Nat /\ log \in Seq(Entries) /\ TypeOK
  BY LogTyped DEF HubInv
<1>2. ASSUME NEW private \in BOOLEAN, Publish(private) PROVE Stream!Publish
  <2> DEFINE event == [epoch |-> epoch', seq |-> seq + 1, private |-> private]
  <2>1. log' = Append(log, event) /\ conn' = conn /\ cursor' = cursor /\ pos' = pos /\ resets' = resets
    BY <1>2 DEF Publish
  <2>2. event \in Entries
    <3>1. epoch' \in Nat /\ seq \in Nat
      BY <1>1 DEF HubInv, TypeOK
    <3> QED BY <3>1 DEF Entries
  <2>3. event.private = private
    OBVIOUS
  <2> HIDE DEF event
  <2>4. /\ Len(log') = Len(log) + 1 /\ log'[Len(log) + 1] = event
        /\ \A k \in 1..Len(log) : log'[k] = log[k]
    BY <1>1, <2>1, <2>2, AppendProperties
  <2>5. \A k \in 1..Len(log) + 1 : k \in 1..Len(log) \/ k = Len(log) + 1
    BY <1>1
  <2>6. Hidden' = IF private THEN Hidden \cup {Len(log) + 1} ELSE Hidden
    <3>1. Hidden' = {k \in 1..Len(log) + 1 : log'[k].private}
      BY <2>4 DEF Hidden
    <3>2. ASSUME NEW k \in 1..Len(log) PROVE k \in Hidden' <=> k \in Hidden
      <4>1. k \in 1..Len(log) + 1 /\ log'[k] = log[k]
        BY <1>1, <2>4
      <4> QED BY <3>1, <4>1 DEF Hidden
    <3>3. Len(log) + 1 \in Hidden' <=> private
      BY <1>1, <2>3, <2>4, <3>1
    <3>4. Hidden' \subseteq 1..Len(log) + 1 /\ Hidden \subseteq 1..Len(log)
      BY <3>1 DEF Hidden
    <3>5. Hidden' \subseteq Hidden \cup {Len(log) + 1} /\ Hidden \subseteq Hidden'
      BY <2>5, <3>2, <3>4
    <3>6. CASE private
      <4>1. Hidden' = Hidden \cup {Len(log) + 1}
        BY <3>3, <3>5, <3>6
      <4> QED BY <3>6, <4>1
    <3>7. CASE ~ private
      <4>1. Hidden' = Hidden
        BY <3>3, <3>5, <3>7
      <4> QED BY <3>7, <4>1
    <3> QED BY <3>6, <3>7
  <2> QED BY <2>1, <2>4, <2>6 DEF Stream!Publish
<1>3. ASSUME NEW c \in Tabs, Open(c) PROVE Stream!Join(c)
  <2>1. /\ conn[c] = "closed" /\ conn' = [conn EXCEPT ![c] = "up"] /\ log' = log
        /\ cursor' = cursor /\ resets' = resets /\ pos' = [pos EXCEPT ![c] = Len(log)]
    BY <1>3 DEF Open, Subscribe, Len0
  <2>2. open' = open \cup {c}
    BY <1>1, <2>1 DEF TypeOK
  <2> QED BY <2>1, <2>2 DEF Stream!Join, Hidden
<1>4. ASSUME NEW c \in Tabs, CloseTab(c) PROVE Stream!Leave(c)
  <2>1. /\ conn[c] # "closed" /\ conn' = [conn EXCEPT ![c] = "closed"] /\ log' = log
        /\ cursor' = [cursor EXCEPT ![c] = None] /\ resets' = resets /\ pos' = pos
    BY <1>4 DEF CloseTab, EndStream
  <2>2. open' = open \ {c} /\ known' = known \ {c}
    BY <1>1, <2>1 DEF TypeOK
  <2> QED BY <2>1, <2>2 DEF Stream!Leave, Hidden
<1>5. ASSUME NEW c \in Tabs, Deliver(c)
      PROVE  Stream!Deliver(c) \/ Stream!Reset(c) \/ UNCHANGED Stream!vars
  <2>1. conn' = conn /\ log' = log /\ conn[c] = "up" /\ Hidden' = Hidden
    BY <1>5 DEF Deliver, Up, Hidden
  <2>2. CASE Obtained(c)
    <3>1. PICK k \in pos[c] + 1..Len(log) :
             /\ cursor[c] # None => (pos[c] + 1..k - 1) \subseteq Hidden
             /\ pos' = [pos EXCEPT ![c] = k]
             /\ cursor' = [cursor EXCEPT ![c] = <<log[k].epoch, log[k].seq>>]
      BY <2>2 DEF Obtained
    <3>2. known' = known \cup {c}
      <4>1. <<log[k].epoch, log[k].seq>> # None
        BY DEF None
      <4> QED BY <1>1, <3>1, <4>1 DEF TypeOK
    <3>3. resets' = resets
      BY <2>2 DEF Obtained
    <3> QED BY <2>1, <3>1, <3>2, <3>3 DEF Stream!Deliver
  <2>3. CASE Told(c)
    <3>1. /\ c \in known /\ pos' = [pos EXCEPT ![c] = resetAt[c]]
          /\ resets' = [resets EXCEPT ![c] = @ + 1] /\ cursor' = cursor
      BY <2>3 DEF Told
    <3>2. resetAt[c] \in pos[c]..Len(log)
      BY <1>1, <2>3, TabTyped DEF Told
    <3> QED BY <2>1, <3>1, <3>2 DEF Stream!Reset
  <2>4. CASE Passed
    BY <2>1, <2>4 DEF Passed, Stream!vars
  <2> QED BY <1>5, <2>2, <2>3, <2>4, Delivered
\* Every other step keeps what EventStream sees.
<1>6. ASSUME log' = log, cursor' = cursor, pos' = pos, resets' = resets,
             \A c \in Tabs : conn'[c] = "closed" <=> conn[c] = "closed"
      PROVE  UNCHANGED Stream!vars
  BY <1>6 DEF Stream!vars, Hidden
<1>7. CASE PublishEphemeral
  BY <1>6, <1>7 DEF PublishEphemeral
<1>8. ASSUME NEW c \in Tabs, Reconnect(c) PROVE UNCHANGED Stream!vars
  <2>1. /\ log' = log /\ cursor' = cursor /\ pos' = pos /\ resets' = resets
        /\ conn[c] = "down" /\ conn' = [conn EXCEPT ![c] = "up"]
    BY <1>8 DEF Reconnect, Subscribe
  <2>2. \A d \in Tabs : conn'[d] = "closed" <=> conn[d] = "closed"
    BY <1>1, <2>1 DEF TypeOK
  <2> QED BY <1>6, <2>1, <2>2
<1>9. ASSUME NEW c \in Tabs, Quit(c) \/ Disconnect(c) PROVE UNCHANGED Stream!vars
  <2>1. /\ log' = log /\ cursor' = cursor /\ pos' = pos /\ resets' = resets
        /\ conn[c] = "up" /\ conn' = [conn EXCEPT ![c] = "down"]
    BY <1>9 DEF Quit, Disconnect, EndStream, Up
  <2>2. \A d \in Tabs : conn'[d] = "closed" <=> conn[d] = "closed"
    BY <1>1, <2>1 DEF TypeOK
  <2> QED BY <1>6, <2>1, <2>2
<1>10. CASE CloseAll
  BY <1>6, <1>10 DEF CloseAll
<1>11. CASE Restart
  BY <1>6, <1>11 DEF Restart, Up
<1>12. CASE UNCHANGED vars
  BY <1>6, <1>12 DEF vars
<1> QED BY <1>2, <1>3, <1>4, <1>5, <1>7, <1>8, <1>9, <1>10, <1>11, <1>12 DEF Next, Stream!Next

\* hub.go, "Anything the ring cannot replay is answered with a reset": each
\* behaviour of the hub is one of EventStream, so no client is ever moved past
\* an event that it neither received nor was told to refetch.
THEOREM NoGapIsSilent == Spec => NoSilentGap
BY StreamInit, StreamStep, HubAlways, PTL DEF Spec, NoSilentGap, Stream!Spec
-----------------------------------------------------------------------------
(* The coalescing cache. Ages add up along the path of an answer: what is     *)
(* left to a flight bounds the age of what it stores, what is left to an      *)
(* entry the age of what it serves.                                           *)
\* The configuration: durations, and what each call comes with.
CacheConfig ==
    /\ TTL \in Nat /\ LeaderTimeout \in Nat
    /\ Deadline \in [Callers -> Nat] /\ KeyOf \in [Callers -> Keys]

Held == [key : Keys, val : Nat, age : Nat, left : Nat]
Flights == [pc : {"none", "fetching", "read", "stored"}, val : Nat, age : Nat, left : Nat]

\* An entry is served until its time is up, and was not old when it was stored.
Young(e) == e \in Held /\ (e.left > 0 => e.age + e.left <= TTL + LeaderTimeout)
\* A flight has as much time as its leader had, less what has passed.
InTime(f) == f \in Flights /\ (f.pc # "none" => f.age + f.left <= LeaderTimeout)

LruYoung == lru \in Seq(Held) /\ \A i \in 1..Len(lru) : Young(lru[i])
FlightsInTime == DOMAIN flight = Keys /\ \A k \in Keys : InTime(flight[k])
AnswersYoung == /\ DOMAIN answer = Callers
                /\ \A c \in Callers : answer[c].age <= TTL + LeaderTimeout
CacheInv == truth \in [Keys -> Nat] /\ LruYoung /\ FlightsInTime /\ AnswersYoung

\* What is left of a list of entries, and one more in front of it.
YoungList(l) == l \in Seq(Held) /\ \A i \in 1..Len(l) : Young(l[i])

LEMMA Prefix == ASSUME NEW l, YoungList(l), NEW n \in 0..Len(l) PROVE YoungList(SubSeq(l, 1, n))
BY DEF YoungList

\* An entry taken out of the list leaves the others.
LEMMA Dropped == ASSUME NEW l, YoungList(l), NEW k PROVE YoungList(Cache!Without(l, k))
<1>1. CASE \A i \in 1..Len(l) : l[i].key # k
  BY <1>1 DEF Cache!Without
<1>2. CASE \E i \in 1..Len(l) : l[i].key = k
  <2> DEFINE i == CHOOSE n \in 1..Len(l) : l[n].key = k
             a == SubSeq(l, 1, i - 1)
             b == SubSeq(l, i + 1, Len(l))
  <2>1. i \in 1..Len(l) /\ Cache!Without(l, k) = a \o b /\ l \in Seq(Held) /\ Len(l) \in Nat
    <3>1. i \in 1..Len(l)
      BY <1>2
    <3>2. ~(\A n \in 1..Len(l) : l[n].key # k)
      BY <1>2
    <3>3. Cache!Without(l, k) = SubSeq(l, 1, i - 1) \o SubSeq(l, i + 1, Len(l))
      BY <3>2, Zenon DEF Cache!Without
    <3> HIDE DEF i
    <3> QED BY <3>1, <3>3 DEF YoungList
  <2> HIDE DEF i
  <2>2. /\ a \in Seq(Held) /\ Len(a) = i - 1
        /\ \A n \in 1..(i - 1) : n \in 1..Len(l) /\ a[n] = l[n]
    BY <2>1
  <2>3. /\ b \in Seq(Held) /\ Len(b) = Len(l) - i
        /\ \A n \in 1..(Len(l) - i) : n + i \in 1..Len(l) /\ b[n] = l[n + i]
    BY <2>1
  <2> HIDE DEF a, b
  <2>4. /\ a \o b \in Seq(Held) /\ Len(a \o b) = Len(a) + Len(b)
        /\ \A n \in 1..Len(a) + Len(b) : (a \o b)[n] = IF n <= Len(a) THEN a[n] ELSE b[n - Len(a)]
    <3>1. a \in Seq(Held) /\ b \in Seq(Held)
      BY <2>2, <2>3
    <3> QED BY <3>1, ConcatProperties
  <2>5. ASSUME NEW n \in 1..Len(a \o b) PROVE Young((a \o b)[n])
    <3>1. CASE n <= Len(a)
      BY <2>1, <2>2, <2>4, <3>1 DEF YoungList
    <3>2. CASE n > Len(a)
      <4>1. n - Len(a) \in 1..(Len(l) - i) /\ n \in 1..Len(a) + Len(b) /\ ~(n <= Len(a))
        BY <2>1, <2>2, <2>3, <2>4, <3>2
      <4> QED BY <2>3, <2>4, <4>1 DEF YoungList
    <3> QED BY <2>1, <2>2, <3>1, <3>2
  <2> QED BY <2>1, <2>4, <2>5 DEF YoungList
<1> QED BY <1>1, <1>2

\* An entry put in front of it.
LEMMA InFront ==
    ASSUME NEW l, YoungList(l), NEW e, Young(e)
    PROVE  YoungList(<<e>> \o l)
<1>1. /\ e \in Held /\ <<e>> \in Seq(Held) /\ Len(<<e>>) = 1 /\ <<e>>[1] = e
      /\ l \in Seq(Held) /\ Len(l) \in Nat
  BY DEF Young, YoungList
<1> DEFINE s == <<e>> \o l
<1>2. /\ s \in Seq(Held) /\ Len(s) = Len(l) + 1 /\ s[1] = e
      /\ \A n \in 2..(Len(l) + 1) : s[n] = l[n - 1]
  BY <1>1
<1> HIDE DEF s
<1>3. ASSUME NEW n \in 1..Len(s) PROVE Young(s[n])
  <2>1. CASE n = 1
    BY <1>2, <2>1
  <2>2. CASE n # 1
    <3>1. n \in 2..(Len(l) + 1) /\ n - 1 \in 1..Len(l)
      BY <1>1, <1>2, <2>2
    <3> QED BY <1>2, <3>1 DEF YoungList
  <2> QED BY <2>1, <2>2
<1> QED BY <1>2, <1>3 DEF YoungList, s

\* Nothing is cached, nothing in flight.
LEMMA CacheStart == ASSUME CacheConfig PROVE Cache!Init => CacheInv
<1> SUFFICES ASSUME Cache!Init
             PROVE  CacheInv
  OBVIOUS
<1>1. truth \in [Keys -> Nat] /\ LruYoung
  BY EmptySeq DEF Cache!Init, LruYoung
<1>2. FlightsInTime
  BY DEF Cache!Init, FlightsInTime, InTime, Flights, Cache!NoFlight
<1>3. AnswersYoung
  BY DEF Cache!Init, AnswersYoung, Cache!NoAnswer, CacheConfig
<1> QED BY <1>1, <1>2, <1>3 DEF CacheInv

\* A call: a hit, the start of a flight, or a wait for one.
LEMMA DoStep == ASSUME CacheConfig, CacheInv, NEW c \in Callers, Cache!Do(c) PROVE CacheInv'
<1> USE DEF CacheInv
<1>1. YoungList(lru) /\ UNCHANGED truth
  BY DEF LruYoung, YoungList, Cache!Do
<1>2. ASSUME NEW i \in Cache!Cached(KeyOf[c]), Cache!Hit(c, i) PROVE CacheInv'
  <2>1. /\ lru[i].left > 0 /\ lru' = <<lru[i]>> \o Cache!Without(lru, KeyOf[c])
        /\ answer' = [answer EXCEPT ![c] = [val |-> lru[i].val, age |-> lru[i].age]]
        /\ UNCHANGED flight
    BY <1>2 DEF Cache!Hit
  <2>2. Young(lru[i])
    BY <1>2 DEF LruYoung, Cache!Cached
  <2>3. LruYoung'
    BY <1>1, <2>1, <2>2, Dropped, InFront DEF LruYoung, YoungList
  <2>4. lru[i].age <= TTL + LeaderTimeout
    BY <2>1, <2>2 DEF Young, Held, CacheConfig
  <2>5. AnswersYoung'
    BY <2>1, <2>4 DEF AnswersYoung
  <2> QED BY <1>1, <2>1, <2>3, <2>5 DEF FlightsInTime
<1>3. CASE Cache!Miss(c)
  <2>1. lru' = lru \/ lru' = Cache!Without(lru, KeyOf[c])
    BY <1>3 DEF Cache!Miss, Cache!Keep
  <2>2. LruYoung'
    BY <1>1, <2>1, Dropped DEF LruYoung, YoungList
  <2>3. KeyOf[c] \in Keys /\ Cache!Least(LeaderTimeout, Deadline[c]) \in 0..LeaderTimeout
    BY DEF CacheConfig, Cache!Least
  <2> DEFINE f == [pc |-> "fetching", val |-> 0, age |-> 0, left |-> Cache!Least(LeaderTimeout, Deadline[c])]
  <2>4. flight' = flight \/ flight' = [flight EXCEPT ![KeyOf[c]] = f]
    BY <1>3 DEF Cache!Miss, Cache!Join
  <2>5. InTime(f)
    <3> DEFINE n == Cache!Least(LeaderTimeout, Deadline[c])
    <3>1. n \in Nat /\ n <= LeaderTimeout
      BY <2>3 DEF CacheConfig
    <3> HIDE DEF n
    <3>2. [pc |-> "fetching", val |-> 0, age |-> 0, left |-> n] \in Flights
      BY <3>1 DEF Flights
    <3> QED BY <3>1, <3>2 DEF InTime, n
  <2> HIDE DEF f
  <2>6. FlightsInTime'
    BY <2>3, <2>4, <2>5 DEF FlightsInTime
  <2>7. UNCHANGED answer
    BY <1>3 DEF Cache!Miss, Cache!Join
  <2> QED BY <1>1, <2>2, <2>6, <2>7 DEF AnswersYoung
<1> QED BY <1>2, <1>3 DEF Cache!Do

\* A flight takes a step of its own.
LEMMA FlightStep ==
    ASSUME CacheInv, NEW k \in Keys, NEW f, InTime(f), flight' = [flight EXCEPT ![k] = f],
           truth' \in [Keys -> Nat], LruYoung', AnswersYoung'
    PROVE  CacheInv'
BY DEF CacheInv, FlightsInTime

\* The mark for no flight.
LEMMA NoFlightInTime == ASSUME CacheConfig PROVE InTime(Cache!NoFlight)
BY DEF InTime, Cache!NoFlight, Flights

\* The leader reads the gateway, and its answer is new.
LEMMA ReadStep == ASSUME CacheConfig, CacheInv, NEW k \in Keys, Cache!Read(k) PROVE CacheInv'
<1> USE DEF CacheInv
<1> DEFINE f == [flight[k] EXCEPT !.pc = "read", !.val = truth[k], !.age = 0]
<1>1. flight[k].pc = "fetching" /\ flight' = [flight EXCEPT ![k] = f]
        /\ UNCHANGED <<truth, lru, answer>>
  BY DEF Cache!Read
<1>2. truth[k] \in Nat /\ flight[k] \in Flights /\ flight[k].age + flight[k].left <= LeaderTimeout
  BY <1>1 DEF FlightsInTime, InTime
<1>3. f \in Flights /\ f.age = 0 /\ f.left = flight[k].left
  BY <1>2 DEF Flights
<1>4. InTime(f)
  BY <1>2, <1>3 DEF InTime, Flights, CacheConfig
<1> HIDE DEF f
<1>5. LruYoung' /\ AnswersYoung'
  BY <1>1 DEF LruYoung, AnswersYoung
<1> QED BY <1>1, <1>4, <1>5, FlightStep

\* It stores what it read, no older than its own time allows.
LEMMA StoreStep == ASSUME CacheConfig, CacheInv, NEW k \in Keys, Cache!Store(k) PROVE CacheInv'
<1> USE DEF CacheInv
<1> DEFINE f == flight[k]
           e == [key |-> k, val |-> f.val, age |-> f.age, left |-> TTL]
           added == <<e>> \o Cache!Without(lru, k)
           g == [f EXCEPT !.pc = "stored"]
<1>1. /\ f.pc = "read" /\ flight' = [flight EXCEPT ![k] = g] /\ UNCHANGED <<truth, answer>>
      /\ lru' = lru \/ \E n \in 0..Len(added) : lru' = SubSeq(added, 1, n)
  BY DEF Cache!Store, Cache!Put
<1>2. f \in Flights /\ f.age + f.left <= LeaderTimeout
  BY <1>1 DEF FlightsInTime, InTime
<1>3. f.age \in Nat /\ f.val \in Nat /\ f.age <= LeaderTimeout /\ TTL \in Nat /\ LeaderTimeout \in Nat
  BY <1>2 DEF Flights, CacheConfig
<1>4. Young(e)
  BY <1>3 DEF Young, Held
<1>5. InTime(g)
  BY <1>2 DEF InTime, Flights
<1> HIDE DEF e, g
<1>6. YoungList(added) /\ YoungList(lru)
  BY <1>4, Dropped, InFront DEF LruYoung, YoungList
<1> HIDE DEF added
<1>7. LruYoung'
  BY <1>1, <1>6, Prefix DEF LruYoung, YoungList
<1>8. AnswersYoung'
  BY <1>1 DEF AnswersYoung
<1> QED BY <1>1, <1>5, <1>7, <1>8, FlightStep

\* A flight ends, and answers the calls that wait for it.
LEMMA EndStep ==
    ASSUME CacheConfig, CacheInv, NEW k \in Keys, Cache!Finish(k) \/ Cache!Fail(k)
    PROVE  CacheInv'
<1> USE DEF CacheInv
<1>1. flight' = [flight EXCEPT ![k] = Cache!NoFlight] /\ UNCHANGED <<truth, lru>>
  BY DEF Cache!Finish, Cache!Fail
<1>2. AnswersYoung'
  <2>1. CASE UNCHANGED answer
    BY <2>1 DEF AnswersYoung
  <2>2. CASE Cache!Finish(k)
    <3>1. flight[k].pc = "stored" /\ InTime(flight[k])
      BY <2>2 DEF Cache!Finish, FlightsInTime
    <3>2. flight[k].age <= TTL + LeaderTimeout
      BY <3>1 DEF InTime, Flights, CacheConfig
    <3>3. answer' = [c \in Callers |-> IF c \in Cache!Waiting(k)
                       THEN [val |-> flight[k].val, age |-> flight[k].age] ELSE answer[c]]
      BY <2>2 DEF Cache!Finish
    <3> QED BY <3>2, <3>3 DEF AnswersYoung
  <2> QED BY <2>1, <2>2 DEF Cache!Fail
<1>3. LruYoung'
  BY <1>1 DEF LruYoung
<1> QED BY <1>1, <1>2, <1>3, FlightStep, NoFlightInTime

\* A write, and the invalidation that follows it.
LEMMA WriteStep ==
    ASSUME CacheInv, NEW k \in Keys, Cache!Write(k) \/ Cache!InvalidateSubject(k)
    PROVE  CacheInv'
<1> USE DEF CacheInv
<1>1. UNCHANGED <<flight, answer>> /\ (lru' = lru \/ lru' = Cache!Without(lru, k))
  BY DEF Cache!Write, Cache!InvalidateSubject, Cache!Keep
<1>2. truth' \in [Keys -> Nat]
  BY DEF Cache!Write, Cache!InvalidateSubject
<1>3. LruYoung'
  BY <1>1, Dropped DEF LruYoung, YoungList
<1> QED BY <1>1, <1>2, <1>3 DEF FlightsInTime, AnswersYoung

\* A tick takes from an entry's time what it adds to its age.
LEMMA OlderHeld == ASSUME CacheConfig, NEW e, Young(e) PROVE Young(Cache!Older(e))
<1>1. e.age \in Nat /\ e.left \in Nat /\ e \in Held /\ TTL \in Nat /\ LeaderTimeout \in Nat
  BY DEF Young, Held, CacheConfig
<1> DEFINE a == Cache!Least(Cache!MaxAge, e.age + 1)
           l == IF e.left = 0 THEN 0 ELSE e.left - 1
<1>2. a \in Nat /\ a <= e.age + 1 /\ l \in Nat /\ (l > 0 => l = e.left - 1 /\ e.left > 0)
  BY <1>1 DEF Cache!Least, Cache!MaxAge
<1>3. Cache!Older(e) = [e EXCEPT !.age = a, !.left = l]
  BY DEF Cache!Older
<1> HIDE DEF a, l
<1>4. Cache!Older(e) \in Held /\ Cache!Older(e).age = a /\ Cache!Older(e).left = l
  BY <1>1, <1>2, <1>3 DEF Held
<1> QED BY <1>1, <1>2, <1>4 DEF Young

\* And so it does with a flight, which has time left.
LEMMA OlderFlight ==
    ASSUME CacheConfig, NEW f, InTime(f), f.left > 0
    PROVE  InTime(Cache!Older(f))
<1>1. f.age \in Nat /\ f.left \in Nat /\ f \in Flights /\ TTL \in Nat /\ LeaderTimeout \in Nat
  BY DEF InTime, Flights, CacheConfig
<1> DEFINE a == Cache!Least(Cache!MaxAge, f.age + 1)
           l == IF f.left = 0 THEN 0 ELSE f.left - 1
<1>2. a \in Nat /\ a <= f.age + 1 /\ l \in Nat /\ l = f.left - 1
  BY <1>1 DEF Cache!Least, Cache!MaxAge
<1>3. Cache!Older(f) = [f EXCEPT !.age = a, !.left = l]
  BY DEF Cache!Older
<1> HIDE DEF a, l
<1>4. Cache!Older(f) \in Flights /\ Cache!Older(f).age = a /\ Cache!Older(f).left = l
        /\ Cache!Older(f).pc = f.pc
  BY <1>1, <1>2, <1>3 DEF Flights
<1> QED BY <1>1, <1>2, <1>4 DEF InTime

\* Time passes for all of them at once.
LEMMA ClockStep == ASSUME CacheConfig, CacheInv, Cache!TimePasses PROVE CacheInv'
<1> USE DEF CacheInv
<1>1. /\ lru' = [i \in 1..Len(lru) |-> Cache!Older(lru[i])]
      /\ flight' = [k \in Keys |-> IF flight[k].pc = "none" THEN Cache!NoFlight ELSE Cache!Older(flight[k])]
      /\ UNCHANGED <<truth, answer>>
      /\ \A k \in Keys : flight[k].pc # "none" => flight[k].left > 0
  <2>1. \A k \in Keys : flight[k].pc \in {"none", "fetching", "read", "stored"}
    BY DEF FlightsInTime, InTime, Flights
  <2> QED BY <2>1 DEF Cache!TimePasses
<1>2. LruYoung'
  <2>1. \A i \in 1..Len(lru) : Young(Cache!Older(lru[i]))
    BY OlderHeld DEF LruYoung
  <2>2. Len(lru) \in Nat
    BY DEF LruYoung
  <2>3. lru' \in [1..Len(lru) -> Held]
    BY <1>1, <2>1 DEF Young
  <2>4. lru' \in Seq(Held) /\ Len(lru') = Len(lru)
    BY <2>2, <2>3, SeqDef
  <2> QED BY <1>1, <2>1, <2>4 DEF LruYoung
<1>3. FlightsInTime'
  <2>1. \A k \in Keys : InTime(flight'[k])
    BY <1>1, OlderFlight, NoFlightInTime DEF FlightsInTime
  <2> QED BY <1>1, <2>1 DEF FlightsInTime
<1> QED BY <1>1, <1>2, <1>3 DEF AnswersYoung

\* Every step keeps the invariant.
LEMMA CacheNext == ASSUME CacheConfig, CacheInv, [Cache!Next]_(Cache!vars) PROVE CacheInv'
<1>1. ASSUME NEW c \in Callers, Cache!Do(c) \/ Cache!Cancel(c) PROVE CacheInv'
  BY <1>1, DoStep DEF Cache!Cancel, CacheInv, LruYoung, FlightsInTime, AnswersYoung
<1>2. ASSUME NEW k \in Keys, \/ Cache!Read(k) \/ Cache!Store(k) \/ Cache!Finish(k) \/ Cache!Fail(k)
                             \/ Cache!Write(k) \/ Cache!InvalidateSubject(k)
      PROVE  CacheInv'
  BY <1>2, ReadStep, StoreStep, EndStep, WriteStep
<1>3. CASE Cache!TimePasses
  BY <1>3, ClockStep
<1>4. CASE UNCHANGED Cache!vars
  BY <1>4 DEF Cache!vars, CacheInv, LruYoung, FlightsInTime, AnswersYoung
<1> QED BY <1>1, <1>2, <1>3, <1>4 DEF Cache!Next

\* Whichever of hit, join and late-stored answer a call of the cache meets, what
\* it is given is no older than the TTL and one leader's timeout: for any keys,
\* callers, deadlines and sizes.
THEOREM CacheAnswersFresh == ASSUME CacheConfig PROVE Cache!Spec => []FreshEnough
<1>1. Cache!Init => CacheInv
  BY CacheStart
<1>2. CacheInv /\ [Cache!Next]_(Cache!vars) => CacheInv'
  BY CacheNext
<1>3. CacheInv => FreshEnough
  BY DEF CacheInv, AnswersYoung, FreshEnough, Cache!FreshEnough
<1> QED BY <1>1, <1>2, <1>3, PTL DEF Cache!Spec
=============================================================================
