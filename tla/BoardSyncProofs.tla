-------------------------- MODULE BoardSyncProofs --------------------------
(***************************************************************************)
(* Theorems about BoardRoom and, in the second part, about BoardSync that  *)
(* extends it, for every set of tabs, records and values and every bound,  *)
(* about a server that does not crash.                                     *)
(*                                                                         *)
(* The room.  Typing holds as it is.  The other invariants need a room no  *)
(* patch takes past the size limit (RoomFits): a refused oversized patch   *)
(* leaves its changes behind, unannounced.  BroadcastComplete is inductive *)
(* with typing.  DeleteWins rests on what the tombstones say (TombsTrue)   *)
(* and on what they have not forgotten yet (Remembered).                   *)
(*                                                                         *)
(* The tabs.  Typing holds whatever the size of the room.                  *)
(* ViewerConsistent needs RoomFits, as the completeness of the broadcast   *)
(* it rests on does, and that what a tab has read over REST is a document  *)
(* of the board and that no patch is a viewer's.                           *)
(***************************************************************************)
EXTENDS BoardSync, FiniteSetTheorems, TLAPS

RoomFits == Cardinality(Ids) <= MaxRecords

(***************************************************************************)
(* A request a tab may send has the shape of DocPatchRequest.              *)
(***************************************************************************)
LEMMA RequestTyped ==
    ASSUME RoomTypeOK, NEW req \in ClientRequests
    PROVE  req \in Requests
BY LimitsAssumption DEF ClientRequests, Requests, RoomTypeOK

\* What is removed is a set of ids, the cascade included.
LEMMA RemovedTyped ==
    ASSUME NEW req \in Requests
    PROVE  Removed(req) \subseteq Ids /\ Accepted(req) \subseteq Ids
<1>1. Cascade(req) \subseteq Ids
  BY IdsAssumption DEF Cascade, Present
<1>2. req.remove \subseteq Ids
  BY DEF Requests
<1> QED BY <1>1, <1>2 DEF Removed, Accepted, Present

(***************************************************************************)
(* apply leaves documents, tombstones and a frame of their types behind.   *)
(***************************************************************************)
LEMMA AfterTyped ==
    ASSUME RoomTypeOK, NEW req \in Requests
    PROVE  /\ RecordsAfter(req) \in Docs
           /\ TombsAfter(req) \in [Ids -> Nat]
           /\ \A i \in Ids : TombsAfter(req)[i] <= room.rev + 1
           /\ Broadcast(req) \in Frames
<1> USE RemovedTyped
<1>1. req.put \in Docs /\ req.client \in Clients /\ req.base \in Nat
  BY DEF Requests
<1>2. room.records \in Docs /\ room.rev \in Nat /\ room.tombs \in [Ids -> Nat]
  BY DEF RoomTypeOK
<1>3. RecordsAfter(req) \in Docs
  BY <1>1, <1>2 DEF RecordsAfter, Docs
<1>4. TombsAfterRemoves(req) \in [Ids -> Nat]
  BY <1>2 DEF TombsAfterRemoves
<1>5. \A i \in Ids : TombsAfterRemoves(req)[i] <= room.rev + 1
  BY <1>2 DEF TombsAfterRemoves, RoomTypeOK
<1>6. TombsAfter(req) \in [Ids -> Nat]
  BY <1>4 DEF TombsAfter
<1>7. \A i \in Ids : TombsAfter(req)[i] <= room.rev + 1
  BY <1>2, <1>5 DEF TombsAfter
<1>8. Broadcast(req) \in Frames
  <2> DEFINE put == [i \in Ids |-> IF i \in Accepted(req) THEN req.put[i] ELSE Absent]
  <2>1. put \in Docs
    BY <1>1 DEF Docs
  <2>2. Removed(req) \in SUBSET Ids
    OBVIOUS
  <2> HIDE DEF put
  <2>3. [kind |-> "patch", client |-> req.client, base |-> req.base,
         put |-> put, remove |-> Removed(req)] \in Frames
    BY <1>1, <2>1, <2>2 DEF Frames
  <2> QED BY <2>3 DEF put, Broadcast
<1> QED BY <1>3, <1>6, <1>7, <1>8

\* trimTombs only forgets.
LEMMA TrimTyped ==
    ASSUME NEW tombs \in [Ids -> Nat], NEW left \in TrimTombs(tombs)
    PROVE  /\ left \in [Ids -> Nat]
           /\ \A i \in Ids : left[i] = tombs[i] \/ left[i] = 0
<1>1. CASE left = tombs
  BY <1>1
<1>2. CASE \E kept \in SUBSET Dead(tombs) :
             left = [i \in Ids |-> IF i \in kept THEN tombs[i] ELSE 0]
  BY <1>2
<1> QED BY <1>1, <1>2 DEF TrimTombs

-----------------------------------------------------------------------------
(* Type correctness.                                                       *)

LEMMA TypeInit == RoomInit => RoomTypeOK
<1> SUFFICES ASSUME RoomInit PROVE RoomTypeOK
  OBVIOUS
<1>1. Blank \in Docs
  BY DEF Blank, Docs
<1>2. room = NewRoom(Blank, 0)
  BY DEF RoomInit
<1>3. room \in [records : Docs, rev : Nat, tombs : [Ids -> Nat], lastSeq : [Clients -> Nat]]
  BY <1>1, <1>2 DEF NewRoom
<1>4. \A i \in Ids : room.tombs[i] <= room.rev + 1
  BY <1>2 DEF NewRoom
<1>5. hist \in Seq(Docs) /\ Len(hist) = room.rev + 1
  BY <1>1, <1>2 DEF NewRoom, RoomInit
<1>6. sent \in Seq(Frames) /\ Len(sent) = room.rev
  BY <1>2 DEF NewRoom, RoomInit
<1> QED BY <1>3, <1>4, <1>5, <1>6 DEF RoomTypeOK

LEMMA TypeApply ==
    ASSUME RoomTypeOK, NEW req \in Requests, Apply(req)
    PROVE  RoomTypeOK'
<1>1. room.rev \in Nat /\ hist \in Seq(Docs) /\ sent \in Seq(Frames)
  BY DEF RoomTypeOK
<1>2. req.client \in Clients /\ req.seq \in Nat
  BY DEF Requests
<1>3. CASE /\ room' = Unpublished(req) /\ UNCHANGED <<hist, sent>>
  <2>1. CASE room' = room
    BY <1>3, <2>1 DEF RoomTypeOK
  <2>2. CASE room' = [room EXCEPT !.records = RecordsAfter(req), !.tombs = TombsAfter(req)]
    <3>1. /\ room'.records = RecordsAfter(req) /\ room'.tombs = TombsAfter(req)
          /\ room'.rev = room.rev
          /\ room' \in [records : Docs, rev : Nat, tombs : [Ids -> Nat],
                        lastSeq : [Clients -> Nat]]
      BY <2>2, AfterTyped DEF RoomTypeOK
    <3> QED BY <1>3, <3>1, AfterTyped DEF RoomTypeOK
  <2>3. CASE room' = [room EXCEPT !.lastSeq[req.client] = req.seq]
    <3>1. room.lastSeq \in [Clients -> Nat]
      BY DEF RoomTypeOK
    <3>2. [room.lastSeq EXCEPT ![req.client] = req.seq] \in [Clients -> Nat]
      BY ONLY <1>2, <3>1
    <3>3. /\ room' \in [records : Docs, rev : Nat, tombs : [Ids -> Nat],
                        lastSeq : [Clients -> Nat]]
          /\ room'.rev = room.rev /\ room'.tombs = room.tombs
      <4> DEFINE q == [room.lastSeq EXCEPT ![req.client] = req.seq]
      <4>1. room' = [room EXCEPT !.lastSeq = q]
        BY ONLY <2>3
      <4> HIDE DEF q
      <4>2. room' \in [records : Docs, rev : Nat, tombs : [Ids -> Nat], lastSeq : {q}]
            /\ room'.rev = room.rev /\ room'.tombs = room.tombs
        BY <4>1 DEF RoomTypeOK
      <4>3. q \in [Clients -> Nat]
        BY <3>2 DEF q
      <4> QED BY ONLY <4>2, <4>3
    <3> QED BY <1>3, <3>3 DEF RoomTypeOK
  <2> QED BY <1>3, <2>1, <2>2, <2>3 DEF Unpublished
<1>4. CASE /\ \E tombs \in TrimTombs(TombsAfter(req)) :
                room' = [records |-> RecordsAfter(req), rev |-> room.rev + 1, tombs |-> tombs,
                         lastSeq |-> [room.lastSeq EXCEPT ![req.client] = req.seq]]
           /\ hist' = Append(hist, RecordsAfter(req))
           /\ sent' = Append(sent, Broadcast(req))
  <2>1. PICK tombs \in TrimTombs(TombsAfter(req)) :
          room' = [records |-> RecordsAfter(req), rev |-> room.rev + 1, tombs |-> tombs,
                   lastSeq |-> [room.lastSeq EXCEPT ![req.client] = req.seq]]
    BY <1>4
  <2>2. tombs \in [Ids -> Nat] /\ \A i \in Ids : tombs[i] <= room.rev + 1
    <3>1. TombsAfter(req) \in [Ids -> Nat] /\ \A i \in Ids : TombsAfter(req)[i] <= room.rev + 1
      BY AfterTyped
    <3>2. tombs \in [Ids -> Nat] /\ \A i \in Ids : tombs[i] = TombsAfter(req)[i] \/ tombs[i] = 0
      BY <3>1, TrimTyped, Zenon
    <3>3. ASSUME NEW i \in Ids PROVE tombs[i] <= room.rev + 1
      <4>1. room.rev + 1 >= 0
        BY ONLY <1>1
      <4>2. CASE tombs[i] = 0
        BY ONLY <4>1, <4>2
      <4>3. CASE tombs[i] = TombsAfter(req)[i]
        BY ONLY <3>1, <4>3
      <4> QED BY ONLY <3>2, <4>2, <4>3
    <3> QED BY ONLY <3>2, <3>3
  <2>3. [room.lastSeq EXCEPT ![req.client] = req.seq] \in [Clients -> Nat]
    BY <1>2 DEF RoomTypeOK
  <2>4. room' \in [records : Docs, rev : Nat, tombs : [Ids -> Nat], lastSeq : [Clients -> Nat]]
    BY <1>1, <2>1, <2>2, <2>3, AfterTyped
  <2>5. room'.rev = room.rev + 1 /\ \A i \in Ids : room'.tombs[i] <= room'.rev + 1
    BY <1>1, <2>1, <2>2
  <2>6. hist' \in Seq(Docs) /\ Len(hist') = Len(hist) + 1
    BY <1>1, <1>4, AfterTyped
  <2>7. sent' \in Seq(Frames) /\ Len(sent') = Len(sent) + 1
    BY <1>1, <1>4, AfterTyped
  <2> QED BY <2>4, <2>5, <2>6, <2>7 DEF RoomTypeOK
<1> QED BY <1>3, <1>4 DEF Apply

LEMMA TypeReplace ==
    ASSUME RoomTypeOK, NEW doc \in Docs, Replace(doc)
    PROVE  RoomTypeOK'
<1>1. room.rev \in Nat /\ hist \in Seq(Docs) /\ sent \in Seq(Frames)
  BY DEF RoomTypeOK
<1>2. [i \in Ids |-> 0] \in [Ids -> Nat]
  OBVIOUS
<1>3. room' = [records |-> doc, rev |-> room.rev + 1, tombs |-> [i \in Ids |-> 0],
               lastSeq |-> room.lastSeq]
  BY DEF Replace, RoomTypeOK
<1>8. room' \in [records : Docs, rev : Nat, tombs : [Ids -> Nat], lastSeq : [Clients -> Nat]]
  BY <1>1, <1>2, <1>3 DEF RoomTypeOK
<1>4. room'.rev = room.rev + 1 /\ \A i \in Ids : room'.tombs[i] <= room'.rev + 1
  BY <1>1, <1>3
<1>5. hist' \in Seq(Docs) /\ Len(hist') = Len(hist) + 1
  BY <1>1 DEF Replace
<1>6. [kind |-> "replaced"] \in Frames
  BY DEF Frames
<1>7. sent' \in Seq(Frames) /\ Len(sent') = Len(sent) + 1
  BY <1>1, <1>6 DEF Replace
<1> QED BY <1>8, <1>4, <1>5, <1>7 DEF RoomTypeOK

LEMMA DocumentsTyped == Documents \subseteq Docs
BY DEF Documents

(***************************************************************************)
(* The room is well typed, and each revision has its document and frame.   *)
(***************************************************************************)
THEOREM RoomTypeCorrect == RoomSpec => []RoomTypeOK
<1>1. RoomInit => RoomTypeOK
  BY TypeInit
<1>2. RoomTypeOK /\ [RoomNext]_roomVars => RoomTypeOK'
  <2> SUFFICES ASSUME RoomTypeOK, [RoomNext]_roomVars PROVE RoomTypeOK'
    OBVIOUS
  <2>1. ASSUME NEW req \in ClientRequests, Apply(req) PROVE RoomTypeOK'
    BY <2>1, RequestTyped, TypeApply
  <2>2. ASSUME NEW doc \in Documents, Replace(doc) PROVE RoomTypeOK'
    BY <2>2, DocumentsTyped, TypeReplace
  <2>3. CASE UNCHANGED roomVars
    BY <2>3 DEF roomVars, RoomTypeOK
  <2> QED BY <2>1, <2>2, <2>3 DEF RoomNext
<1> QED BY <1>1, <1>2, PTL DEF RoomSpec

-----------------------------------------------------------------------------
(* A step of a room below its size limit.                                  *)

LEMMA NeverTooBig ==
    ASSUME RoomFits, NEW req \in Requests
    PROVE  ~ TooBig(req)
<1>1. Present(RecordsAfter(req)) \in SUBSET Ids
  BY DEF Present
<1>2. /\ Cardinality(Present(RecordsAfter(req))) <= Cardinality(Ids)
      /\ IsFiniteSet(Present(RecordsAfter(req)))
  BY <1>1, FS_Subset, IdsAssumption
<1>3. Cardinality(Present(RecordsAfter(req))) \in Nat /\ Cardinality(Ids) \in Nat
  BY <1>2, FS_CardinalityType, IdsAssumption
<1> QED BY <1>2, <1>3, LimitsAssumption DEF TooBig, RoomFits

\* A patch that is not published leaves records and tombstones alone.
LEMMA QuietStep ==
    ASSUME RoomFits, RoomTypeOK, NEW req \in Requests, Apply(req), ~ Publishes(req)
    PROVE  /\ room'.records = room.records /\ room'.tombs = room.tombs
           /\ room'.rev = room.rev
           /\ UNCHANGED <<hist, sent>>
<1>1. room' = Unpublished(req) /\ UNCHANGED <<hist, sent>>
  BY DEF Apply
<1>2. room' = room \/ room' = [room EXCEPT !.lastSeq[req.client] = req.seq]
  BY <1>1, NeverTooBig DEF Unpublished
<1> QED BY <1>1, <1>2 DEF RoomTypeOK

\* A published one makes the next revision.
LEMMA PublishedStep ==
    ASSUME RoomTypeOK, NEW req \in Requests, Apply(req), Publishes(req)
    PROVE  /\ room'.records = RecordsAfter(req) /\ room'.rev = room.rev + 1
           /\ room'.tombs \in TrimTombs(TombsAfter(req))
           /\ hist' = Append(hist, RecordsAfter(req))
           /\ sent' = Append(sent, Broadcast(req))
           /\ req.base <= room.rev
<1>1. req.base <= room.rev
  BY DEF Publishes, Conflicts, Requests, RoomTypeOK
<1>2. PICK tombs \in TrimTombs(TombsAfter(req)) :
        room' = [records |-> RecordsAfter(req), rev |-> room.rev + 1, tombs |-> tombs,
                 lastSeq |-> [room.lastSeq EXCEPT ![req.client] = req.seq]]
  BY DEF Apply
<1> QED BY <1>1, <1>2 DEF Apply

(***************************************************************************)
(* A put is never accepted for a record that the same patch removes: its   *)
(* sender cannot have seen the revision that the patch is making.          *)
(***************************************************************************)
LEMMA AcceptedNotRemoved ==
    ASSUME RoomTypeOK, NEW req \in Requests, req.base <= room.rev,
           NEW i \in Accepted(req)
    PROVE  /\ i \in Ids /\ i \notin Removed(req)
           /\ room.tombs[i] <= req.base /\ TombsAfter(req)[i] = 0
           /\ req.put[i] # Absent
<1>1. i \in Ids /\ i \in Present(req.put) /\ i \notin Refused(req) /\ req.put[i] # Absent
  BY DEF Accepted, Present
<1>2. ~ (req.base < TombsAfterRemoves(req)[i])
  BY <1>1 DEF Refused
<1>3. req.base \in Nat /\ room.rev \in Nat /\ room.tombs[i] \in Nat
  BY <1>1 DEF Requests, RoomTypeOK
<1>4. i \notin Removed(req)
  BY <1>1, <1>2, <1>3 DEF TombsAfterRemoves
<1>5. room.tombs[i] <= req.base
  BY <1>1, <1>2, <1>3, <1>4 DEF TombsAfterRemoves
<1> QED BY <1>1, <1>4, <1>5 DEF TombsAfter

-----------------------------------------------------------------------------
(* The broadcast is the whole change.                                      *)

LEMMA BroadcastIsChange ==
    ASSUME RoomTypeOK, NEW req \in Requests, req.base <= room.rev
    PROVE  Received(room.records, Broadcast(req)) = RecordsAfter(req)
<1> DEFINE put == [i \in Ids |-> IF i \in Accepted(req) THEN req.put[i] ELSE Absent]
<1>1. Broadcast(req).put = put /\ Broadcast(req).remove = Removed(req)
  BY DEF Broadcast
<1>2. ASSUME NEW i \in Ids
      PROVE  (IF i \in Removed(req) THEN Absent
              ELSE IF put[i] # Absent THEN put[i] ELSE room.records[i])
             = (IF i \in Accepted(req) THEN req.put[i]
                ELSE IF i \in Removed(req) THEN Absent ELSE room.records[i])
  <2>1. CASE i \in Accepted(req)
    BY <2>1, AcceptedNotRemoved
  <2>2. CASE i \notin Accepted(req)
    BY <2>2
  <2> QED BY <2>1, <2>2
<1> HIDE DEF put
<1> QED BY <1>1, <1>2 DEF Received, RecordsAfter

(***************************************************************************)
(* BroadcastComplete survives the step to revision rev + 1, whatever it is.*)
(***************************************************************************)
LEMMA BroadcastAppend ==
    ASSUME RoomTypeOK, BroadcastComplete,
           NEW doc \in Docs, NEW frame \in Frames,
           frame.kind = "patch" => Received(room.records, frame) = doc,
           room'.records = doc,
           hist' = Append(hist, doc), sent' = Append(sent, frame)
    PROVE  BroadcastComplete'
<1>1. /\ hist \in Seq(Docs) /\ sent \in Seq(Frames) /\ room.rev \in Nat
      /\ Len(hist) = room.rev + 1 /\ Len(sent) = room.rev
  BY DEF RoomTypeOK
<1>2. Len(hist') = Len(hist) + 1 /\ hist'[Len(hist')] = doc
  BY <1>1
<1>3. ASSUME NEW r \in 1..Len(sent'), sent'[r].kind = "patch"
      PROVE  Received(hist'[r], sent'[r]) = hist'[r + 1]
  <2>1. CASE r = Len(sent) + 1
    <3>1. sent'[r] = frame /\ hist'[r + 1] = doc /\ hist'[r] = hist[Len(hist)]
      BY <1>1, <2>1
    <3>2. hist[Len(hist)] = room.records
      BY DEF BroadcastComplete
    <3> QED BY <1>3, <3>1, <3>2
  <2>2. CASE r \in 1..Len(sent)
    <3>1. sent'[r] = sent[r] /\ hist'[r] = hist[r] /\ hist'[r + 1] = hist[r + 1]
      BY <1>1, <2>2
    <3> QED BY <1>3, <2>2, <3>1 DEF BroadcastComplete
  <2>3. Len(sent') = Len(sent) + 1
    BY <1>1
  <2> QED BY <1>1, <2>1, <2>2, <2>3
<1> QED BY <1>2, <1>3 DEF BroadcastComplete

(***************************************************************************)
(* In a room below its limit, a receiver that applies the broadcasts in    *)
(* order has the room's document at every revision.                        *)
(***************************************************************************)
THEOREM BroadcastsComplete == ASSUME RoomFits PROVE RoomSpec => []BroadcastComplete
<1> DEFINE Inv == RoomTypeOK /\ BroadcastComplete
<1>1. RoomInit => Inv
  <2>1. RoomInit => BroadcastComplete
    BY DEF RoomInit, BroadcastComplete, NewRoom
  <2> QED BY <2>1, TypeInit
<1>2. Inv /\ [RoomNext]_roomVars => Inv'
  <2> SUFFICES ASSUME RoomTypeOK, BroadcastComplete, [RoomNext]_roomVars PROVE Inv'
    OBVIOUS
  <2>1. ASSUME NEW r \in ClientRequests, Apply(r) PROVE Inv'
    <3>1. PICK req \in Requests : Apply(req)
      BY <2>1, RequestTyped
    <3>2. RoomTypeOK'
      BY <3>1, TypeApply
    <3>3. CASE ~ Publishes(req)
      BY <3>1, <3>2, <3>3, QuietStep DEF BroadcastComplete
    <3>4. CASE Publishes(req)
      <4>1. /\ room'.records = RecordsAfter(req) /\ req.base <= room.rev
            /\ hist' = Append(hist, RecordsAfter(req)) /\ sent' = Append(sent, Broadcast(req))
        BY <3>1, <3>4, PublishedStep
      <4>2. RecordsAfter(req) \in Docs /\ Broadcast(req) \in Frames
        BY AfterTyped
      <4>3. Received(room.records, Broadcast(req)) = RecordsAfter(req)
        BY <4>1, BroadcastIsChange
      <4>4. BroadcastComplete'
        BY <4>1, <4>2, <4>3, BroadcastAppend
      <4> QED BY <3>2, <4>4
    <3> QED BY <3>3, <3>4
  <2>2. ASSUME NEW doc \in Documents, Replace(doc) PROVE Inv'
    <3>1. doc \in Docs /\ [kind |-> "replaced"] \in Frames
      BY DocumentsTyped DEF Frames
    <3>2. room'.records = doc
      BY <2>2 DEF Replace, RoomTypeOK
    <3>3. hist' = Append(hist, doc) /\ sent' = Append(sent, [kind |-> "replaced"])
      BY <2>2 DEF Replace
    <3>4. BroadcastComplete'
      BY <3>1, <3>2, <3>3, BroadcastAppend
    <3> QED BY <2>2, <3>1, <3>4, TypeReplace
  <2>3. CASE UNCHANGED roomVars
    BY <2>3 DEF roomVars, RoomTypeOK, BroadcastComplete
  <2> QED BY <2>1, <2>2, <2>3 DEF RoomNext
<1> QED BY <1>1, <1>2, PTL DEF RoomSpec

-----------------------------------------------------------------------------
(* The memory of deletions.                                                *)

\* The dead among ids are finitely many.
LEMMA DeadFinite ==
    ASSUME NEW tombs
    PROVE  /\ Dead(tombs) \in SUBSET Ids
           /\ \A k \in SUBSET Dead(tombs) : IsFiniteSet(k) /\ Cardinality(k) \in Nat
<1>1. Dead(tombs) \in SUBSET Ids
  BY DEF Dead
<1>2. ASSUME NEW k \in SUBSET Dead(tombs)
      PROVE  IsFiniteSet(k) /\ Cardinality(k) \in Nat
  <2>1. k \in SUBSET Ids
    BY <1>1
  <2>2. IsFiniteSet(k)
    BY <2>1, FS_Subset, IdsAssumption
  <2> QED BY <2>2, FS_CardinalityType
<1> QED BY <1>1, <1>2

\* trimTombs leaves at most MaxTombstones of them.
LEMMA TrimBounds ==
    ASSUME NEW tombs \in [Ids -> Nat], NEW left \in TrimTombs(tombs)
    PROVE  Cardinality(Dead(left)) <= MaxTombstones
<1>1. CASE Cardinality(Dead(tombs)) <= MaxTombstones
  BY <1>1 DEF TrimTombs
<1>2. CASE ~ (Cardinality(Dead(tombs)) <= MaxTombstones)
  <2>1. PICK kept \in SUBSET Dead(tombs) :
          /\ Cardinality(kept) = MaxTombstones
          /\ left = [i \in Ids |-> IF i \in kept THEN tombs[i] ELSE 0]
    BY <1>2 DEF TrimTombs
  <2>2. Dead(left) = kept
    BY <2>1 DEF Dead
  <2> QED BY <2>1, <2>2, LimitsAssumption
<1> QED BY <1>1, <1>2

(***************************************************************************)
(* trimTombs keeps a deletion that is among the MaxTombstones latest: if   *)
(* those at least as late all lie in a set that small, it is not dropped.  *)
(***************************************************************************)
LEMMA TrimKeepsLatest ==
    ASSUME NEW tombs \in [Ids -> Nat], NEW left \in TrimTombs(tombs),
           NEW d \in Nat \ {0}, NEW i \in Ids, tombs[i] >= d,
           NEW late \in SUBSET Ids, Cardinality(late) <= MaxTombstones,
           \A j \in Ids : tombs[j] >= d => j \in late
    PROVE  left[i] = tombs[i]
<1>1. CASE left = tombs
  BY <1>1
<1>2. CASE left # tombs
  <2>1. PICK kept \in SUBSET Dead(tombs) :
          /\ Cardinality(kept) = MaxTombstones
          /\ \A k \in kept, j \in Dead(tombs) \ kept : tombs[k] >= tombs[j]
          /\ left = [j \in Ids |-> IF j \in kept THEN tombs[j] ELSE 0]
    BY <1>2 DEF TrimTombs
  <2>2. SUFFICES ASSUME i \notin kept PROVE FALSE
    BY <2>1
  <2>3. i \in Dead(tombs)
    BY DEF Dead
  <2>4. \A k \in kept : k \in Ids /\ tombs[k] >= tombs[i]
    BY <2>1, <2>2, <2>3, DeadFinite
  <2>5. kept \cup {i} \in SUBSET late
    BY <2>4
  <2>6. IsFiniteSet(kept) /\ Cardinality(kept \cup {i}) = MaxTombstones + 1
    BY <2>1, <2>2, DeadFinite, FS_AddElement
  <2>7. IsFiniteSet(late)
    BY FS_Subset, IdsAssumption
  <2>8. Cardinality(kept \cup {i}) <= Cardinality(late) /\ Cardinality(late) \in Nat
    BY <2>5, <2>7, FS_Subset, FS_CardinalityType
  <2> QED BY <2>6, <2>8, LimitsAssumption
<1> QED BY <1>1, <1>2

(***************************************************************************)
(* trimTombs bounds the memory of deletions, and it never holds a record   *)
(* that is there.                                                          *)
(***************************************************************************)
THEOREM TombstonesBounded == ASSUME RoomFits PROVE RoomSpec => []TombsBounded
<1> DEFINE Inv == RoomTypeOK /\ TombsBounded
<1>1. RoomInit => Inv
  <2> SUFFICES ASSUME RoomInit PROVE TombsBounded
    BY TypeInit
  <2>1. Dead(room.tombs) = {}
    BY DEF RoomInit, NewRoom, Dead
  <2> QED BY <2>1, FS_EmptySet, LimitsAssumption DEF TombsBounded
<1>2. Inv /\ [RoomNext]_roomVars => Inv'
  <2> SUFFICES ASSUME RoomTypeOK, TombsBounded, [RoomNext]_roomVars PROVE Inv'
    OBVIOUS
  <2>1. ASSUME NEW r \in ClientRequests, Apply(r) PROVE Inv'
    <3>1. PICK req \in Requests : Apply(req)
      BY <2>1, RequestTyped
    <3>2. RoomTypeOK'
      BY <3>1, TypeApply
    <3>3. CASE ~ Publishes(req)
      BY <3>1, <3>2, <3>3, QuietStep DEF TombsBounded
    <3>4. CASE Publishes(req)
      <4>1. /\ room'.records = RecordsAfter(req)
            /\ room'.tombs \in TrimTombs(TombsAfter(req))
        BY <3>1, <3>4, PublishedStep
      <4>2. TombsAfter(req) \in [Ids -> Nat]
        BY AfterTyped
      <4>3. Cardinality(Dead(room'.tombs)) <= MaxTombstones
        BY <4>1, <4>2, TrimBounds, Zenon
      <4>4. \A i \in Ids : room'.tombs[i] = TombsAfter(req)[i] \/ room'.tombs[i] = 0
        BY <4>1, <4>2, TrimTyped, Zenon
      <4>5. ASSUME NEW i \in Ids, room'.tombs[i] # 0 PROVE room'.records[i] = Absent
        <5>1. TombsAfter(req)[i] # 0
          BY <4>4, <4>5
        <5>2. i \notin Accepted(req) /\ TombsAfterRemoves(req)[i] # 0
          BY <5>1 DEF TombsAfter
        <5>3. i \in Removed(req) \/ room.tombs[i] # 0
          BY <5>2 DEF TombsAfterRemoves
        <5>4. i \in Removed(req) \/ room.records[i] = Absent
          BY <5>3 DEF TombsBounded, Dead
        <5> QED BY <4>1, <5>2, <5>4 DEF RecordsAfter
      <4> QED BY <3>2, <4>3, <4>5 DEF TombsBounded, Dead
    <3> QED BY <3>3, <3>4
  <2>2. ASSUME NEW doc \in Documents, Replace(doc) PROVE Inv'
    <3>1. room'.tombs = [i \in Ids |-> 0]
      BY <2>2 DEF Replace, RoomTypeOK
    <3>2. Dead(room'.tombs) = {}
      BY <3>1 DEF Dead
    <3>3. TombsBounded'
      BY <3>2, FS_EmptySet, LimitsAssumption DEF TombsBounded
    <3> QED BY <2>2, <3>3, DocumentsTyped, TypeReplace
  <2>3. CASE UNCHANGED roomVars
    BY <2>3 DEF roomVars, RoomTypeOK, TombsBounded
  <2> QED BY <2>1, <2>2, <2>3 DEF RoomNext
<1> QED BY <1>1, <1>2, PTL DEF RoomSpec

-----------------------------------------------------------------------------
(* Delete wins.                                                            *)

\* A tombstone names the revision that deleted the record.
TombsTrue ==
    \A i \in Ids : room.tombs[i] # 0 =>
        /\ room.tombs[i] \in 1..Len(sent) /\ sent[room.tombs[i]].kind = "patch"
        /\ i \in sent[room.tombs[i]].remove

\* A deletion that nobody undid and that is recent enough has a tombstone.
Remembered ==
    \A d \in 1..Len(sent) : \A i \in Ids :
        /\ sent[d].kind = "patch" /\ i \in sent[d].remove
        /\ \A u \in d + 1..Len(sent) :
              sent[u].kind # "replaced" /\ i \notin Present(sent[u].put)
        /\ Cardinality(RemovedIn(d, Len(sent))) <= MaxTombstones
        => room.tombs[i] >= d

DeleteInv == RoomTypeOK /\ TombsTrue /\ Remembered /\ DeleteWins

\* Membership in what revisions d..r of the frames s removed.
Gone(s, d, r) == UNION {s[e].remove : e \in {e \in d..r : s[e].kind = "patch"}}

LEMMA GoneMeans ==
    ASSUME NEW s, NEW d, NEW r, NEW x
    PROVE  x \in Gone(s, d, r) <=> \E e \in d..r : s[e].kind = "patch" /\ x \in s[e].remove
BY DEF Gone

LEMMA RemovedIsGone ==
    ASSUME NEW d, NEW r
    PROVE  RemovedIn(d, r) = Gone(sent, d, r) /\ RemovedIn(d, r)' = Gone(sent', d, r)
BY DEF RemovedIn, Gone

\* What well-typed frames removed is a finite set of ids.
LEMMA GoneTyped ==
    ASSUME NEW s \in Seq(Frames), NEW d \in Nat \ {0}, NEW r \in Nat, r <= Len(s)
    PROVE  /\ Gone(s, d, r) \in SUBSET Ids
           /\ IsFiniteSet(Gone(s, d, r)) /\ Cardinality(Gone(s, d, r)) \in Nat
<1>1. ASSUME NEW e \in d..r, s[e].kind = "patch" PROVE s[e].remove \in SUBSET Ids
  <2>1. s[e] \in Frames
    BY <1>1
  <2> QED BY <1>1, <2>1 DEF Frames
<1>2. Gone(s, d, r) \in SUBSET Ids
  BY <1>1, GoneMeans
<1>3. IsFiniteSet(Gone(s, d, r))
  BY <1>2, FS_Subset, IdsAssumption
<1> QED BY <1>2, <1>3, FS_CardinalityType

(***************************************************************************)
(* A new frame, number n + 1, changes no earlier one.                      *)
(***************************************************************************)
LEMMA FrameAppended ==
    ASSUME RoomTypeOK, NEW frame \in Frames, sent' = Append(sent, frame),
           NEW n \in Nat, n = Len(sent)
    PROVE  /\ sent' \in Seq(Frames) /\ Len(sent') = n + 1 /\ sent'[n + 1] = frame
           /\ \A e \in 1..n : sent'[e] = sent[e]
           /\ \A d \in 1..n, r \in 0..n : Gone(sent', d, r) = Gone(sent, d, r)
<1>1. sent \in Seq(Frames)
  BY DEF RoomTypeOK
<1>2. /\ sent' \in Seq(Frames) /\ Len(sent') = n + 1 /\ sent'[n + 1] = frame
      /\ \A e \in 1..n : sent'[e] = sent[e]
  BY <1>1
<1>3. ASSUME NEW d \in 1..n, NEW r \in 0..n PROVE Gone(sent', d, r) = Gone(sent, d, r)
  <2>1. \A e \in d..r : sent'[e] = sent[e]
    BY <1>2
  <2>2. ASSUME NEW x PROVE x \in Gone(sent', d, r) <=> x \in Gone(sent, d, r)
    <3>1. x \in Gone(sent', d, r) <=> \E e \in d..r : sent'[e].kind = "patch" /\ x \in sent'[e].remove
      BY GoneMeans
    <3>2. x \in Gone(sent, d, r) <=> \E e \in d..r : sent[e].kind = "patch" /\ x \in sent[e].remove
      BY GoneMeans
    <3> QED BY <2>1, <3>1, <3>2
  <2> QED BY <2>2
<1> QED BY <1>2, <1>3

(***************************************************************************)
(* The part of DeleteWins that is about revisions already made.            *)
(***************************************************************************)
LEMMA DeleteWinsStays ==
    ASSUME RoomTypeOK, DeleteWins, NEW frame \in Frames, sent' = Append(sent, frame),
           NEW n \in Nat, n = Len(sent),
           NEW r \in 1..n, NEW d \in 1..r - 1, NEW i \in Ids, Resurrects(i, d, r)'
    PROVE  Excused(i, d, r)'
<1>1. /\ sent'[r] = sent[r] /\ sent'[d] = sent[d] /\ \A u \in d + 1..r - 1 : sent'[u] = sent[u]
  BY FrameAppended
<1>2. Gone(sent', d, r - 1) = Gone(sent, d, r - 1)
  <2>1. d \in 1..n /\ r - 1 \in 0..n
    OBVIOUS
  <2> QED BY <2>1, FrameAppended
<1>3. Resurrects(i, d, r)
  BY <1>1 DEF Resurrects
<1>4. Excused(i, d, r)
  BY <1>3 DEF DeleteWins
<1>5. RemovedIn(d, r - 1)' = RemovedIn(d, r - 1)
  BY <1>2, RemovedIsGone
<1> QED BY <1>1, <1>4, <1>5 DEF Excused

(***************************************************************************)
(* The put of a published patch: had it undone a deletion that was neither *)
(* undone before nor forgotten, the tombstone would have refused it.       *)
(***************************************************************************)
LEMMA PutIsExcused ==
    ASSUME DeleteInv, NEW req \in Requests, req.base <= room.rev,
           sent' = Append(sent, Broadcast(req)),
           NEW n \in Nat, n = Len(sent),
           NEW d \in 1..n, NEW i \in Ids, Resurrects(i, d, n + 1)'
    PROVE  Excused(i, d, n + 1)'
<1>1. RoomTypeOK /\ Remembered /\ Broadcast(req) \in Frames
  BY AfterTyped DEF DeleteInv
<1>2. /\ sent'[n + 1] = Broadcast(req) /\ \A e \in 1..n : sent'[e] = sent[e]
      /\ Gone(sent', d, n) = Gone(sent, d, n)
  <2>1. n \in 0..n
    OBVIOUS
  <2> QED BY <1>1, <2>1, FrameAppended
<1>3. /\ sent[d].kind = "patch" /\ i \in sent[d].remove
      /\ i \in Present(Broadcast(req).put) /\ Broadcast(req).base < d
  <2>1. sent'[d] = sent[d]
    BY <1>2
  <2> QED BY <1>2, <2>1 DEF Resurrects
<1>4. i \in Accepted(req) /\ req.base < d
  BY <1>3 DEF Broadcast, Present
<1>5. ~ (room.tombs[i] >= d)
  <2>1. room.tombs[i] <= req.base /\ room.tombs[i] \in Nat /\ req.base \in Nat
    BY <1>1, <1>4, AcceptedNotRemoved DEF RoomTypeOK, Requests
  <2> QED BY <1>4, <2>1
<1>6. \/ \E u \in d + 1..n : sent[u].kind = "replaced" \/ i \in Present(sent[u].put)
      \/ ~ (Cardinality(RemovedIn(d, n)) <= MaxTombstones)
  BY <1>1, <1>3, <1>5 DEF Remembered
<1>7. Cardinality(Gone(sent, d, n)) \in Nat
  <2>1. sent \in Seq(Frames)
    BY <1>1 DEF RoomTypeOK
  <2>2. d \in Nat \ {0} /\ n \in Nat /\ n <= Len(sent)
    OBVIOUS
  <2> QED BY ONLY <2>1, <2>2, GoneTyped
<1>8. \/ \E u \in d + 1..n : sent'[u].kind = "replaced" \/ i \in Present(sent'[u].put)
      \/ Cardinality(RemovedIn(d, n)') > MaxTombstones
  BY <1>2, <1>6, <1>7, RemovedIsGone, LimitsAssumption
<1>9. n + 1 - 1 = n
  OBVIOUS
<1> QED BY <1>8, <1>9 DEF Excused

(***************************************************************************)
(* A published patch keeps the tombstones true...                          *)
(***************************************************************************)
LEMMA TombsStayTrue ==
    ASSUME RoomTypeOK, TombsTrue, NEW req \in Requests,
           room'.tombs \in TrimTombs(TombsAfter(req)),
           sent' = Append(sent, Broadcast(req)), NEW n \in Nat, n = Len(sent)
    PROVE  TombsTrue'
<1>1. Broadcast(req) \in Frames /\ TombsAfter(req) \in [Ids -> Nat] /\ room.rev = n
  BY AfterTyped DEF RoomTypeOK
<1>2. /\ Len(sent') = n + 1 /\ sent'[n + 1] = Broadcast(req)
      /\ \A e \in 1..n : sent'[e] = sent[e]
  BY <1>1, FrameAppended
<1>3. \A i \in Ids : room'.tombs[i] = TombsAfter(req)[i] \/ room'.tombs[i] = 0
  BY <1>1, TrimTyped, Zenon
<1>4. ASSUME NEW i \in Ids, room'.tombs[i] # 0
      PROVE  /\ room'.tombs[i] \in 1..n + 1 /\ sent'[room'.tombs[i]].kind = "patch"
             /\ i \in sent'[room'.tombs[i]].remove
  <2>1. room'.tombs[i] = TombsAfterRemoves(req)[i]
    BY <1>3, <1>4 DEF TombsAfter
  <2>2. CASE i \in Removed(req)
    <3>1. room'.tombs[i] = n + 1
      BY <1>1, <2>1, <2>2 DEF TombsAfterRemoves
    <3>2. Broadcast(req).kind = "patch" /\ i \in Broadcast(req).remove
      BY <2>2 DEF Broadcast
    <3> QED BY <1>2, <3>1, <3>2
  <2>3. CASE i \notin Removed(req)
    <3>1. room'.tombs[i] = room.tombs[i]
      BY <2>1, <2>3 DEF TombsAfterRemoves
    <3>2. /\ room.tombs[i] \in 1..n /\ sent[room.tombs[i]].kind = "patch"
          /\ i \in sent[room.tombs[i]].remove
      BY <1>4, <3>1 DEF TombsTrue
    <3> QED BY <1>2, <3>1, <3>2
  <2> QED BY <2>2, <2>3
<1> QED BY <1>2, <1>4 DEF TombsTrue

(***************************************************************************)
(* ...and forgets none of the latest MaxTombstones deletions.              *)
(***************************************************************************)
LEMMA StaysRemembered ==
    ASSUME RoomTypeOK, TombsTrue, Remembered, NEW req \in Requests, req.base <= room.rev,
           room'.tombs \in TrimTombs(TombsAfter(req)),
           sent' = Append(sent, Broadcast(req)), NEW n \in Nat, n = Len(sent)
    PROVE  Remembered'
<1>1. Broadcast(req) \in Frames /\ TombsAfter(req) \in [Ids -> Nat] /\ room.rev = n
  BY AfterTyped DEF RoomTypeOK
<1>2. /\ sent' \in Seq(Frames) /\ Len(sent') = n + 1 /\ sent'[n + 1] = Broadcast(req)
      /\ \A e \in 1..n : sent'[e] = sent[e]
  BY <1>1, FrameAppended
<1>3. ASSUME NEW d \in 1..n + 1, NEW i \in Ids, sent'[d].kind = "patch", i \in sent'[d].remove,
             \A u \in d + 1..n + 1 : sent'[u].kind # "replaced" /\ i \notin Present(sent'[u].put),
             Cardinality(Gone(sent', d, n + 1)) <= MaxTombstones
      PROVE  room'.tombs[i] >= d
  <2> DEFINE late == Gone(sent', d, n + 1)
  <2>1. late \in SUBSET Ids /\ IsFiniteSet(late) /\ Cardinality(late) \in Nat
    <3>1. d \in Nat \ {0} /\ n + 1 \in Nat /\ n + 1 <= Len(sent')
      BY <1>2
    <3> QED BY <1>2, <3>1, GoneTyped
  <2>2. ASSUME NEW j \in Ids, TombsAfter(req)[j] >= d PROVE j \in late
    <3>1. TombsAfter(req)[j] = TombsAfterRemoves(req)[j]
      BY <2>2 DEF TombsAfter
    <3>2. CASE j \in Removed(req)
      <4>1. sent'[n + 1].kind = "patch" /\ j \in sent'[n + 1].remove
        BY <1>2, <3>2 DEF Broadcast
      <4>2. n + 1 \in d..n + 1
        OBVIOUS
      <4> QED BY <4>1, <4>2, GoneMeans
    <3>3. CASE j \notin Removed(req)
      <4>1. room.tombs[j] >= d /\ room.tombs[j] # 0
        BY <2>2, <3>1, <3>3 DEF TombsAfterRemoves
      <4>2. /\ room.tombs[j] \in 1..n /\ sent[room.tombs[j]].kind = "patch"
            /\ j \in sent[room.tombs[j]].remove
        BY <4>1 DEF TombsTrue
      <4>3. room.tombs[j] \in d..n + 1 /\ sent'[room.tombs[j]] = sent[room.tombs[j]]
        BY <1>2, <4>1, <4>2
      <4> QED BY <4>2, <4>3, GoneMeans
    <3> QED BY <3>2, <3>3
  <2>3. TombsAfter(req)[i] >= d
    <3>1. CASE d = n + 1
      <4>1. i \in Removed(req)
        BY <1>2, <1>3, <3>1 DEF Broadcast
      <4>2. i \notin Accepted(req)
        BY <4>1, AcceptedNotRemoved
      <4> QED BY <1>1, <3>1, <4>1, <4>2 DEF TombsAfter, TombsAfterRemoves
    <3>2. CASE d \in 1..n
      <4>1. sent[d].kind = "patch" /\ i \in sent[d].remove
        BY <1>2, <1>3, <3>2
      <4>2. \A u \in d + 1..n : sent[u].kind # "replaced" /\ i \notin Present(sent[u].put)
        BY <1>2, <1>3, <3>2
      <4>3. Cardinality(Gone(sent, d, n)) <= MaxTombstones
        <5>1. ASSUME NEW x \in Gone(sent, d, n) PROVE x \in late
          <6>1. PICK e \in d..n : sent[e].kind = "patch" /\ x \in sent[e].remove
            BY <5>1, GoneMeans
          <6>2. e \in d..n + 1 /\ sent'[e] = sent[e]
            BY <1>2, <3>2
          <6> QED BY <6>1, <6>2, GoneMeans
        <5>2. Cardinality(Gone(sent, d, n)) <= Cardinality(late)
          BY <2>1, <5>1, FS_Subset
        <5>3. Cardinality(Gone(sent, d, n)) \in Nat
          <6>1. sent \in Seq(Frames)
            BY DEF RoomTypeOK
          <6>2. d \in Nat \ {0} /\ n \in Nat /\ n <= Len(sent)
            BY <3>2
          <6> QED BY ONLY <6>1, <6>2, GoneTyped
        <5> QED BY <1>3, <2>1, <5>2, <5>3, LimitsAssumption
      <4>4. room.tombs[i] >= d
        BY <3>2, <4>1, <4>2, <4>3, RemovedIsGone DEF Remembered
      <4>5. i \notin Accepted(req)
        <5>1. i \notin Present(Broadcast(req).put)
          BY <1>2, <1>3, <3>2
        <5> QED BY <5>1, AcceptedNotRemoved DEF Broadcast, Present
      <4>6. room.tombs[i] \in Nat /\ room.tombs[i] <= n + 1
        BY <1>1 DEF RoomTypeOK
      <4> QED BY <1>1, <3>2, <4>4, <4>5, <4>6 DEF TombsAfter, TombsAfterRemoves
    <3> QED BY <3>1, <3>2
  <2>4. room'.tombs[i] = TombsAfter(req)[i]
    <3>1. d \in Nat \ {0}
      OBVIOUS
    <3> HIDE DEF late
    <3>2. Cardinality(late) <= MaxTombstones
      BY <1>3 DEF late
    <3> QED BY <1>1, <2>1, <2>2, <2>3, <3>1, <3>2, TrimKeepsLatest
  <2> QED BY <2>3, <2>4
<1> QED BY <1>2, <1>3, RemovedIsGone DEF Remembered

(***************************************************************************)
(* In a room below its limit, no put brings back a record that its sender  *)
(* had not seen deleted, but for the cases that Excused names.             *)
(***************************************************************************)
THEOREM DeletesWin == ASSUME RoomFits PROVE RoomSpec => []DeleteWins
<1>1. RoomInit => DeleteInv
  <2> SUFFICES ASSUME RoomInit PROVE TombsTrue /\ Remembered /\ DeleteWins
    BY TypeInit DEF DeleteInv
  <2>1. sent = <<>> /\ \A i \in Ids : room.tombs[i] = 0
    BY DEF RoomInit, NewRoom
  <2> QED BY <2>1 DEF TombsTrue, Remembered, DeleteWins
<1>2. DeleteInv /\ [RoomNext]_roomVars => DeleteInv'
  <2> SUFFICES ASSUME DeleteInv, [RoomNext]_roomVars PROVE DeleteInv'
    OBVIOUS
  <2>1. RoomTypeOK /\ TombsTrue /\ Remembered /\ DeleteWins
    BY DEF DeleteInv
  <2>2. PICK n \in Nat : n = Len(sent) /\ n = room.rev
    BY <2>1 DEF RoomTypeOK
  <2>3. ASSUME NEW r \in ClientRequests, Apply(r) PROVE DeleteInv'
    <3>1. PICK req \in Requests : Apply(req)
      BY <2>1, <2>3, RequestTyped
    <3>2. RoomTypeOK'
      BY <2>1, <3>1, TypeApply
    <3>3. CASE ~ Publishes(req)
      <4>1. room'.tombs = room.tombs /\ sent' = sent
        BY <2>1, <3>1, <3>3, QuietStep
      <4>2. TombsTrue'
        BY <2>1, <4>1 DEF TombsTrue
      <4>3. \A d, e : RemovedIn(d, e)' = RemovedIn(d, e)
        BY <4>1 DEF RemovedIn
      <4>4. Remembered'
        BY <2>1, <4>1, <4>3 DEF Remembered
      <4>5. DeleteWins'
        BY <2>1, <4>1, <4>3 DEF DeleteWins, Resurrects, Excused
      <4> QED BY <3>2, <4>2, <4>4, <4>5 DEF DeleteInv
    <3>4. CASE Publishes(req)
      <4>1. /\ room'.tombs \in TrimTombs(TombsAfter(req)) /\ req.base <= room.rev
            /\ sent' = Append(sent, Broadcast(req)) /\ Broadcast(req) \in Frames
        BY <2>1, <3>1, <3>4, PublishedStep, AfterTyped
      <4>2. TombsTrue' /\ Remembered'
        BY <2>1, <2>2, <4>1, TombsStayTrue, StaysRemembered
      <4>3. Len(sent') = n + 1
        BY <2>1, <2>2, <4>1, FrameAppended
      <4>4. ASSUME NEW q \in 1..n + 1, NEW d \in 1..q - 1, NEW i \in Ids, Resurrects(i, d, q)'
            PROVE  Excused(i, d, q)'
        <5>1. CASE q \in 1..n
          BY <2>1, <2>2, <4>1, <4>4, <5>1, DeleteWinsStays
        <5>2. CASE q = n + 1
          BY <2>2, <4>1, <4>4, <5>2, PutIsExcused
        <5> QED BY <5>1, <5>2
      <4> QED BY <3>2, <4>2, <4>3, <4>4 DEF DeleteInv, DeleteWins
    <3> QED BY <3>3, <3>4
  <2>4. ASSUME NEW doc \in Documents, Replace(doc) PROVE DeleteInv'
    <3> DEFINE frame == [kind |-> "replaced"]
    <3>1. RoomTypeOK' /\ frame \in Frames
      BY <2>1, <2>4, DocumentsTyped, TypeReplace DEF Frames
    <3>2. (\A i \in Ids : room'.tombs[i] = 0) /\ sent' = Append(sent, frame)
      BY <2>1, <2>4 DEF Replace, RoomTypeOK
    <3>3. Len(sent') = n + 1 /\ sent'[n + 1].kind = "replaced"
      BY <2>1, <2>2, <3>1, <3>2, FrameAppended
    <3>4. TombsTrue'
      BY <3>2 DEF TombsTrue
    <3>5. Remembered'
      <4>1. \A d \in 1..n + 1 : d = n + 1 \/ n + 1 \in d + 1..n + 1
        OBVIOUS
      <4> QED BY <3>3, <4>1 DEF Remembered
    <3>6. ASSUME NEW q \in 1..n + 1, NEW d \in 1..q - 1, NEW i \in Ids, Resurrects(i, d, q)'
          PROVE  Excused(i, d, q)'
      <4>1. q # n + 1
        BY <3>3, <3>6 DEF Resurrects
      <4> QED BY <2>1, <2>2, <3>1, <3>2, <3>6, <4>1, DeleteWinsStays
    <3> QED BY <3>1, <3>3, <3>4, <3>5, <3>6 DEF DeleteInv, DeleteWins
  <2>5. CASE UNCHANGED roomVars
    <3>1. room' = room /\ hist' = hist /\ sent' = sent
      BY <2>5 DEF roomVars
    <3>2. RoomTypeOK' /\ TombsTrue'
      BY <2>1, <3>1 DEF RoomTypeOK, TombsTrue
    <3>3. Remembered'
      BY <2>1, <3>1 DEF Remembered, RemovedIn
    <3>4. DeleteWins'
      BY <2>1, <3>1 DEF DeleteWins, Resurrects, Excused, RemovedIn
    <3> QED BY <3>2, <3>3, <3>4 DEF DeleteInv
  <2> QED BY <2>3, <2>4, <2>5 DEF RoomNext
<1>3. DeleteInv => DeleteWins
  BY DEF DeleteInv
<1> QED BY <1>1, <1>2, <1>3, PTL DEF RoomSpec

-----------------------------------------------------------------------------
(* The tabs: BoardSync.                                                    *)

\* What squash keeps: a patch never puts and removes one record.
Patches == {p \in [put : Docs, remove : SUBSET Ids] : p.remove \cap Present(p.put) = {}}

Flights ==
    {Idle} \cup [kind : {"patch"}, patch : Patches] \cup [kind : {"resync"}, slot : Slots]
Reads ==
    {Idle} \cup [kind : {"asked"}] \cup [kind : {"read"}, doc : Docs, rev : Nat]

TabsTyped ==
    /\ store \in [Clients -> Docs]
    /\ applied \in [Clients -> Nat]
    /\ seqNo \in [Clients -> Nat]
    /\ queue \in [Clients -> Patches]
    /\ flight \in [Clients -> Flights]
    /\ gets \in [Clients -> [Slots -> Reads]]

Answers ==
    [status : {"conflict", "invalid"}] \cup [status : {"ok"}, rev : Nat, rejected : SUBSET Ids]
Replies == [client : Clients, seq : Nat, answer : Answers]
Pending == [rev : Nat \ {0}, reply : {Idle} \cup Replies]

TravelTyped ==
    /\ posts \subseteq Requests /\ replies \subseteq Replies /\ handlers \subseteq Pending
    /\ events \in Seq(Nat \ {0})
    /\ at \in [Clients -> Nat] /\ \A c \in Clients : at[c] <= Len(events)

\* An answer that names a revision.
Known(r, rev) == r.answer.status = "ok" => r.answer.rev \in Nat /\ r.answer.rev <= rev

\* No tab, frame, answer or read is ahead of the room.
NoneAhead ==
    /\ \A c \in Clients : applied[c] <= room.rev
    /\ \A c \in Clients, s \in Slots : gets[c][s].kind = "read" => gets[c][s].rev <= room.rev
    /\ \A r \in replies : Known(r, room.rev)
    /\ \A h \in handlers : /\ h.rev \in Nat \ {0} /\ h.rev <= room.rev
                           /\ h.reply = Idle \/ Known(h.reply, room.rev)
    /\ \A k \in 1..Len(events) : events[k] <= room.rev

SyncTyped == RoomTypeOK /\ TabsTyped /\ TravelTyped /\ NoneAhead

\* Patches come from tabs that may write.
WritersPatch ==
    /\ \A c \in Viewers : queue[c] = NoPatch /\ flight[c] = Idle
    /\ \A r \in posts : r.client \in Writers
    /\ \A r \in 1..Len(sent) : sent[r].kind = "patch" => sent[r].client \in Writers

\* What was read is the document the board had at that revision.
ReadsTrue ==
    \A c \in Clients, s \in Slots :
        gets[c][s].kind = "read" => gets[c][s].doc = hist[gets[c][s].rev + 1]

ViewsTrue == \A c \in Viewers : store[c] = hist[applied[c] + 1]

SyncInv ==
    SyncTyped /\ BroadcastComplete /\ WritersPatch /\ ReadsTrue /\ ViewsTrue

-----------------------------------------------------------------------------
(* Patches, documents and answers.                                         *)

LEMMA BlankTyped == Blank \in Docs /\ Present(Blank) = {} /\ NoPatch \in Patches
BY DEF Blank, Docs, Present, NoPatch, Patches

\* squash keeps a patch one that never puts and removes one record.
LEMMA SquashTyped ==
    ASSUME NEW p \in Patches, NEW q \in Patches
    PROVE  Squash(p, q) \in Patches
<1> DEFINE put == [i \in Ids |-> IF q.put[i] # Absent THEN q.put[i]
                                 ELSE IF i \in q.remove THEN Absent ELSE p.put[i]]
           remove == (p.remove \ Present(q.put)) \cup q.remove
<1>1. /\ p.put \in Docs /\ p.remove \subseteq Ids /\ p.remove \cap Present(p.put) = {}
      /\ q.put \in Docs /\ q.remove \subseteq Ids /\ q.remove \cap Present(q.put) = {}
  BY DEF Patches
<1>2. put \in Docs /\ remove \in SUBSET Ids
  BY <1>1 DEF Docs
<1>3. remove \cap Present(put) = {}
  BY <1>1 DEF Present
<1>4. Squash(p, q) = [put |-> put, remove |-> remove]
  BY DEF Squash
<1> HIDE DEF put, remove
<1> QED BY <1>2, <1>3, <1>4 DEF Patches

\* What a user does to a canvas is such a patch.
LEMMA EditsTyped ==
    ASSUME TabsTyped, NEW c \in Writers, NEW p \in Draws(c) \cup Erases(c)
    PROVE  p \in Patches
<1>1. EditIds[c] \subseteq Ids /\ Bindings \subseteq Ids
  BY WritersAssumption, IdsAssumption
<1>2. CASE p \in Draws(c)
  <2>1. PICK i \in EditIds[c], x \in Vals : p = [put |-> [Blank EXCEPT ![i] = x], remove |-> {}]
    BY <1>2 DEF Draws
  <2>2. [Blank EXCEPT ![i] = x] \in Docs
    BY <1>1, BlankTyped DEF Docs
  <2> QED BY <2>1, <2>2 DEF Patches
<1>3. CASE p \in Erases(c)
  <2>1. PICK i \in EditIds[c] \cap Present(store[c]) :
          p = [put |-> Blank,
               remove |-> {i} \cup {b \in Bindings \cap Present(store[c]) :
                                       i \in Ends[store[c][b]]}]
    BY <1>3 DEF Erases
  <2>2. p.remove \in SUBSET Ids
    BY <1>1, <2>1
  <2> QED BY <2>1, <2>2, BlankTyped DEF Patches
<1> QED BY <1>2, <1>3

LEMMA ReceivedTyped ==
    ASSUME NEW doc \in Docs, NEW patch, patch.put \in Docs
    PROVE  Received(doc, patch) \in Docs
BY DEF Received, Docs

\* A frame on the stream is one of the room's.
LEMMA FramesTyped ==
    ASSUME RoomTypeOK, NEW rev \in 1..room.rev
    PROVE  sent[rev] \in Frames /\ (sent[rev].kind = "patch" => sent[rev].put \in Docs)
BY DEF RoomTypeOK, Frames

\* The room's revision never goes back, and a published patch makes the next.
LEMMA RevGrows ==
    ASSUME RoomTypeOK, NEW req \in Requests, Apply(req)
    PROVE  /\ room'.rev \in Nat /\ room.rev <= room'.rev
           /\ Publishes(req) => room'.rev = room.rev + 1
           /\ Known([answer |-> Answer(req)], room'.rev)
<1>1. room.rev \in Nat
  BY DEF RoomTypeOK
<1>2. CASE Publishes(req)
  <2>1. room'.rev = room.rev + 1
    BY <1>2, PublishedStep
  <2> QED BY <1>1, <2>1 DEF Known, Answer
<1>3. CASE ~ Publishes(req)
  <2>1. room' = Unpublished(req)
    BY <1>3 DEF Apply
  <2>2. room'.rev = room.rev
    BY <2>1 DEF Unpublished, RoomTypeOK
  <2> QED BY <1>1, <1>3, <2>2 DEF Known, Answer, Publishes
<1> QED BY <1>2, <1>3

\* apply's answer is an error, or a revision with the puts it refused.
LEMMA AnswersTyped ==
    ASSUME RoomTypeOK, NEW req \in Requests
    PROVE  Answer(req) \in Answers
<1>1. room.rev \in Nat /\ room.rev + 1 \in Nat
  BY DEF RoomTypeOK
<1>2. Refused(req) \in SUBSET Ids
  BY DEF Refused, Present
<1> QED BY <1>1, <1>2 DEF Answer, Answers

-----------------------------------------------------------------------------
(* Type correctness, action by action.                                     *)

LEMMA SyncTypeInit == Init => SyncTyped
<1> SUFFICES ASSUME Init PROVE SyncTyped
  OBVIOUS
<1>1. RoomTypeOK
  BY TypeInit DEF Init
<1>2. room.rev = 0
  BY DEF Init, RoomInit, NewRoom
<1>3. TabsTyped
  BY BlankTyped DEF Init, TabsTyped, Flights, Reads
<1>4. TravelTyped
  BY DEF Init, TravelTyped
<1>5. NoneAhead
  BY <1>2 DEF Init, NoneAhead, Idle
<1> QED BY <1>1, <1>3, <1>4, <1>5 DEF SyncTyped

\* The room stands still.
RoomStays == UNCHANGED roomVars

LEMMA RoomStaysTyped == ASSUME RoomTypeOK, RoomStays PROVE RoomTypeOK' /\ room' = room
BY DEF RoomStays, roomVars, RoomTypeOK

LEMMA AskTyped ==
    ASSUME TabsTyped, NEW c \in Clients, NEW s \in Slots, AskIn(c, s)
    PROVE  /\ gets' \in [Clients -> [Slots -> Reads]]
           /\ \A d \in Clients, x \in Slots :
                 gets'[d][x] = gets[d][x] \/ gets'[d][x] = [kind |-> "asked"]
BY DEF TabsTyped, AskIn, Reads

LEMMA TypeDocGet ==
    ASSUME SyncTyped, NEW c \in Clients, NEW s \in Slots, DocGet(c, s)
    PROVE  SyncTyped'
<1> DEFINE answer == [kind |-> "read", doc |-> room.records, rev |-> room.rev]
<1>1. RoomTypeOK' /\ room' = room /\ room.rev \in Nat /\ room.records \in Docs
  BY RoomStaysTyped DEF SyncTyped, DocGet, RoomStays, RoomTypeOK
<1>2. answer \in Reads
  BY <1>1 DEF Reads
<1>3. answer.rev = room.rev
  OBVIOUS
<1>4. gets' = [gets EXCEPT ![c][s] = answer]
  BY DEF DocGet
<1> HIDE DEF answer
<1>5. TabsTyped'
  BY <1>2, <1>4 DEF SyncTyped, TabsTyped, DocGet, clientVars
<1>6. TravelTyped'
  BY DEF SyncTyped, TravelTyped, DocGet
<1>7. \A d \in Clients, x \in Slots : gets'[d][x].kind = "read" => gets'[d][x].rev <= room.rev
  BY <1>1, <1>3, <1>4 DEF SyncTyped, TabsTyped, NoneAhead
<1>8. NoneAhead'
  BY <1>1, <1>7 DEF SyncTyped, NoneAhead, DocGet, clientVars, Known
<1> QED BY <1>1, <1>5, <1>6, <1>8 DEF SyncTyped

\* A read that was answered holds a document and its revision.
LEMMA AnswerTyped ==
    ASSUME TabsTyped, NEW c \in Clients, NEW s \in Slots, gets[c][s].kind = "read"
    PROVE  gets[c][s].doc \in Docs /\ gets[c][s].rev \in Nat
<1>1. gets[c][s] \in Reads
  BY DEF TabsTyped
<1> QED BY <1>1 DEF Reads, Idle

LEMMA TypeLoad ==
    ASSUME SyncTyped, NEW c \in Clients, NEW s \in Slots, Load(c, s)
    PROVE  SyncTyped'
<1>1. RoomTypeOK' /\ room' = room
  BY RoomStaysTyped DEF SyncTyped, Load, RoomStays
<1>2. gets[c][s].doc \in Docs /\ gets[c][s].rev \in Nat /\ gets[c][s].rev <= room.rev
  BY AnswerTyped DEF SyncTyped, Load, NoneAhead
<1>3. flight' \in [Clients -> Flights]
  BY DEF SyncTyped, TabsTyped, Load, Flights
<1>4. gets' \in [Clients -> [Slots -> Reads]]
  BY DEF SyncTyped, TabsTyped, Load, Reads
<1>5. TabsTyped'
  BY <1>2, <1>3, <1>4, BlankTyped DEF SyncTyped, TabsTyped, Load
<1>6. TravelTyped'
  BY DEF SyncTyped, TravelTyped, Load
<1>7. \A d \in Clients, x \in Slots : gets'[d][x].kind = "read" => gets'[d][x].rev <= room.rev
  BY DEF SyncTyped, TabsTyped, Load, NoneAhead, Idle
<1>8. \A d \in Clients : applied'[d] <= room.rev
  BY <1>2 DEF SyncTyped, TabsTyped, Load, NoneAhead
<1>9. NoneAhead'
  BY <1>1, <1>7, <1>8 DEF SyncTyped, NoneAhead, Load, Known
<1> QED BY <1>1, <1>5, <1>6, <1>9 DEF SyncTyped

LEMMA TypeLoadFails ==
    ASSUME SyncTyped, NEW c \in Clients, NEW s \in Slots, LoadFails(c, s)
    PROVE  SyncTyped'
<1>1. RoomTypeOK' /\ room' = room
  BY RoomStaysTyped DEF SyncTyped, LoadFails, RoomStays
<1>2. flight' \in [Clients -> Flights]
  BY DEF SyncTyped, TabsTyped, LoadFails, Flights
<1>3. gets' \in [Clients -> [Slots -> Reads]]
  BY DEF SyncTyped, TabsTyped, LoadFails, Reads
<1>4. TabsTyped'
  BY <1>2, <1>3 DEF SyncTyped, TabsTyped, LoadFails
<1>5. TravelTyped'
  BY DEF SyncTyped, TravelTyped, LoadFails
<1>6. \A d \in Clients, x \in Slots : gets'[d][x].kind = "read" => gets'[d][x].rev <= room.rev
  BY DEF SyncTyped, TabsTyped, LoadFails, NoneAhead, Idle
<1>7. NoneAhead'
  BY <1>1, <1>6 DEF SyncTyped, NoneAhead, LoadFails, Known
<1> QED BY <1>1, <1>4, <1>5, <1>7 DEF SyncTyped

LEMMA TypeEdit ==
    ASSUME SyncTyped, NEW c \in Clients, Edit(c)
    PROVE  SyncTyped'
<1>1. RoomTypeOK' /\ room' = room
  BY RoomStaysTyped DEF SyncTyped, Edit, RoomStays
<1>2. PICK p \in Draws(c) \cup Erases(c) :
        /\ store' = [store EXCEPT ![c] = Received(@, p)]
        /\ queue' = [queue EXCEPT ![c] = Squash(@, p)]
  BY DEF Edit
<1>3. p \in Patches /\ p.put \in Docs
  BY EditsTyped DEF Edit, SyncTyped, Patches
<1>4. store[c] \in Docs /\ queue[c] \in Patches
  BY DEF SyncTyped, TabsTyped
<1>5. Received(store[c], p) \in Docs /\ Squash(queue[c], p) \in Patches
  BY <1>3, <1>4, ReceivedTyped, SquashTyped
<1>6. TabsTyped'
  BY <1>2, <1>5 DEF SyncTyped, TabsTyped, Edit, netVars
<1>7. TravelTyped'
  BY DEF SyncTyped, TravelTyped, Edit, netVars
<1>8. NoneAhead'
  BY <1>1 DEF SyncTyped, NoneAhead, Edit, netVars, Known
<1> QED BY <1>1, <1>6, <1>7, <1>8 DEF SyncTyped

LEMMA TypeSend ==
    ASSUME SyncTyped, NEW c \in Clients, Send(c)
    PROVE  SyncTyped'
<1>1. RoomTypeOK' /\ room' = room
  BY RoomStaysTyped DEF SyncTyped, Send, RoomStays
<1>2. queue[c] \in Patches /\ seqNo[c] \in Nat /\ applied[c] \in Nat
  BY DEF SyncTyped, TabsTyped
<1>3. [kind |-> "patch", patch |-> queue[c]] \in Flights
  BY <1>2 DEF Flights
<1>4. [client |-> c, seq |-> seqNo[c] + 1, base |-> applied[c],
       put |-> queue[c].put, remove |-> queue[c].remove] \in Requests
  BY <1>2 DEF Requests, Patches
<1>5. TabsTyped'
  BY <1>2, <1>3, BlankTyped DEF SyncTyped, TabsTyped, Send
<1>6. TravelTyped'
  BY <1>4 DEF SyncTyped, TravelTyped, Send
<1>7. NoneAhead'
  BY <1>1 DEF SyncTyped, NoneAhead, Send, Known
<1> QED BY <1>1, <1>5, <1>6, <1>7 DEF SyncTyped

\* A request reaches the room: its answer names no later revision.
LEMMA TypeReceive ==
    ASSUME SyncTyped, NEW req \in posts, Receive(req)
    PROVE  SyncTyped'
<1> DEFINE reply == [client |-> req.client, seq |-> req.seq, answer |-> Answer(req)]
<1>1. req \in Requests /\ RoomTypeOK /\ Apply(req)
  BY DEF SyncTyped, TravelTyped, Receive
<1>2. RoomTypeOK'
  BY <1>1, TypeApply
<1>3. /\ room.rev \in Nat /\ room'.rev \in Nat /\ room.rev <= room'.rev
      /\ Publishes(req) => room'.rev = room.rev + 1
      /\ Known([answer |-> Answer(req)], room'.rev)
  BY <1>1, RevGrows DEF RoomTypeOK
<1>4. Known(reply, room'.rev)
  BY <1>3 DEF Known
<1>5. /\ handlers' \subseteq handlers \cup {[rev |-> room.rev + 1, reply |-> reply]}
      /\ Publishes(req) \/ handlers' = handlers
      /\ replies' \subseteq replies \cup {reply}
  BY DEF Receive
<1> HIDE DEF reply
<1>6. TabsTyped'
  BY DEF SyncTyped, TabsTyped, Receive, clientVars
<1>7. TravelTyped'
  <2>1. reply \in Replies
    BY <1>1, AnswersTyped DEF reply, Replies, Requests
  <2>2. [rev |-> room.rev + 1, reply |-> reply] \in Pending
    BY <1>3, <2>1 DEF Pending
  <2>3. replies' \subseteq Replies /\ handlers' \subseteq Pending
    BY <1>5, <2>1, <2>2 DEF SyncTyped, TravelTyped
  <2> QED BY <2>3 DEF SyncTyped, TravelTyped, Receive
<1>8. /\ \A c \in Clients : applied'[c] <= room'.rev
      /\ \A c \in Clients, s \in Slots :
            gets'[c][s].kind = "read" => gets'[c][s].rev <= room'.rev
  <2>1. applied' = applied /\ gets' = gets
    BY DEF Receive, clientVars
  <2>2. \A c \in Clients : applied[c] <= room'.rev
    BY <1>3 DEF SyncTyped, TabsTyped, NoneAhead
  <2>3. ASSUME NEW c \in Clients, NEW s \in Slots, gets[c][s].kind = "read"
        PROVE  gets[c][s].rev <= room'.rev
    <3>1. gets[c][s].rev \in Nat /\ gets[c][s].rev <= room.rev
      BY <2>3, AnswerTyped DEF SyncTyped, NoneAhead
    <3> QED BY <1>3, <3>1
  <2> QED BY <2>1, <2>2, <2>3
<1>9. \A r : Known(r, room.rev) => Known(r, room'.rev)
  BY <1>3 DEF Known
<1>10. \A r \in replies' : Known(r, room'.rev)
  BY <1>4, <1>5, <1>9 DEF SyncTyped, NoneAhead
<1>11. \A h \in handlers' : /\ h.rev \in Nat \ {0} /\ h.rev <= room'.rev
                            /\ h.reply = Idle \/ Known(h.reply, room'.rev)
  BY <1>3, <1>4, <1>5, <1>9 DEF SyncTyped, NoneAhead
<1>12. \A k \in 1..Len(events') : events'[k] <= room'.rev
  <2>1. events' = events /\ events \in Seq(Nat \ {0})
    BY DEF Receive, SyncTyped, TravelTyped
  <2> QED BY <1>3, <2>1 DEF SyncTyped, NoneAhead
<1>13. NoneAhead'
  BY <1>8, <1>10, <1>11, <1>12 DEF NoneAhead
<1> QED BY <1>2, <1>6, <1>7, <1>13 DEF SyncTyped

LEMMA TypeImport ==
    ASSUME SyncTyped, NEW doc \in Documents, Import(doc)
    PROVE  SyncTyped'
<1>1. RoomTypeOK /\ Replace(doc) /\ doc \in Docs
  BY DocumentsTyped DEF SyncTyped, Import
<1>2. RoomTypeOK'
  BY <1>1, TypeReplace
<1>3. room.rev \in Nat /\ room'.rev = room.rev + 1
  BY <1>1 DEF RoomTypeOK, Replace
<1>4. handlers' = handlers \cup {[rev |-> room.rev + 1, reply |-> Idle]}
  BY DEF Import
<1>5. TabsTyped'
  BY DEF SyncTyped, TabsTyped, Import, clientVars
<1>6. TravelTyped'
  <2>1. [rev |-> room.rev + 1, reply |-> Idle] \in Pending
    BY <1>3 DEF Pending
  <2> QED BY <1>4, <2>1 DEF SyncTyped, TravelTyped, Import
<1>7. /\ \A c \in Clients : applied'[c] <= room'.rev
      /\ \A c \in Clients, s \in Slots :
            gets'[c][s].kind = "read" => gets'[c][s].rev <= room'.rev
  <2>1. applied' = applied /\ gets' = gets
    BY DEF Import, clientVars
  <2>2. \A c \in Clients : applied[c] <= room'.rev
    BY <1>3 DEF SyncTyped, TabsTyped, NoneAhead
  <2>3. ASSUME NEW c \in Clients, NEW s \in Slots, gets[c][s].kind = "read"
        PROVE  gets[c][s].rev <= room'.rev
    <3>1. gets[c][s].rev \in Nat /\ gets[c][s].rev <= room.rev
      BY <2>3, AnswerTyped DEF SyncTyped, NoneAhead
    <3> QED BY <1>3, <3>1
  <2> QED BY <2>1, <2>2, <2>3
<1>8. \A r : Known(r, room.rev) => Known(r, room'.rev)
  BY <1>3 DEF Known
<1>9. \A r \in replies' : Known(r, room'.rev)
  BY <1>8 DEF SyncTyped, NoneAhead, Import
<1>10. \A h \in handlers' : /\ h.rev \in Nat \ {0} /\ h.rev <= room'.rev
                            /\ h.reply = Idle \/ Known(h.reply, room'.rev)
  BY <1>3, <1>4, <1>8 DEF SyncTyped, NoneAhead
<1>11. \A k \in 1..Len(events') : events'[k] <= room'.rev
  <2>1. events' = events /\ events \in Seq(Nat \ {0})
    BY DEF Import, SyncTyped, TravelTyped
  <2> QED BY <1>3, <2>1 DEF SyncTyped, NoneAhead
<1>12. NoneAhead'
  BY <1>7, <1>9, <1>10, <1>11 DEF NoneAhead
<1> QED BY <1>2, <1>5, <1>6, <1>12 DEF SyncTyped

LEMMA TypePublish ==
    ASSUME SyncTyped, NEW h \in handlers, Publish(h)
    PROVE  SyncTyped'
<1>1. RoomTypeOK' /\ room' = room
  BY RoomStaysTyped DEF SyncTyped, Publish, RoomStays
<1>2. /\ h.rev \in Nat \ {0} /\ h.rev <= room.rev
      /\ h.reply = Idle \/ Known(h.reply, room.rev)
  BY DEF SyncTyped, NoneAhead
<1>3. events \in Seq(Nat \ {0}) /\ events' = Append(events, h.rev)
  BY DEF SyncTyped, TravelTyped, Publish
<1>4. events' \in Seq(Nat \ {0}) /\ Len(events') = Len(events) + 1
  BY <1>2, <1>3
<1>5. TabsTyped'
  BY DEF SyncTyped, TabsTyped, Publish, clientVars
<1>6. TravelTyped'
  <2>1. at' = at /\ posts' = posts
    BY DEF Publish
  <2>2. at \in [Clients -> Nat] /\ \A c \in Clients : at[c] <= Len(events)
    BY DEF SyncTyped, TravelTyped
  <2>3. \A c \in Clients : at[c] <= Len(events')
    BY <1>3, <1>4, <2>2
  <2>4. h.reply = Idle \/ h.reply \in Replies
    BY DEF SyncTyped, TravelTyped, Pending
  <2>5. replies' \subseteq Replies /\ handlers' \subseteq Pending
    BY <2>4 DEF SyncTyped, TravelTyped, Publish
  <2> QED BY <1>4, <2>1, <2>2, <2>3, <2>5 DEF SyncTyped, TravelTyped
<1>7. \A k \in 1..Len(events') : events'[k] <= room.rev
  <2>1. ASSUME NEW k \in 1..Len(events') PROVE events'[k] <= room.rev
    <3>1. CASE k = Len(events) + 1
      BY <1>2, <1>3, <3>1
    <3>2. CASE k \in 1..Len(events)
      BY <1>3, <3>2 DEF SyncTyped, NoneAhead
    <3> QED BY <1>3, <1>4, <2>1, <3>1, <3>2
  <2> QED BY <2>1
<1>8. \A r \in replies' : Known(r, room.rev)
  BY <1>2 DEF SyncTyped, NoneAhead, Publish
<1>9. /\ \A c \in Clients : applied'[c] <= room.rev
      /\ \A c \in Clients, s \in Slots : gets'[c][s].kind = "read" => gets'[c][s].rev <= room.rev
      /\ \A g \in handlers' : /\ g.rev \in Nat \ {0} /\ g.rev <= room.rev
                              /\ g.reply = Idle \/ Known(g.reply, room.rev)
  BY DEF SyncTyped, NoneAhead, Publish, clientVars
<1>10. NoneAhead'
  BY <1>1, <1>7, <1>8, <1>9 DEF NoneAhead
<1> QED BY <1>1, <1>5, <1>6, <1>10 DEF SyncTyped

LEMMA TypeSendFails ==
    ASSUME SyncTyped, NEW c \in Clients, SendFails(c)
    PROVE  SyncTyped'
<1>1. RoomTypeOK' /\ room' = room
  BY RoomStaysTyped DEF SyncTyped, SendFails, RoomStays
<1>2. flight[c].patch \in Patches /\ queue[c] \in Patches
  <2>1. flight[c] \in Flights /\ flight[c].kind = "patch" /\ queue[c] \in Patches
    BY DEF SyncTyped, TabsTyped, SendFails
  <2> QED BY <2>1 DEF Flights, Idle
<1>3. Squash(flight[c].patch, queue[c]) \in Patches
  BY <1>2, SquashTyped
<1>4. Idle \in Flights
  BY DEF Flights
<1>5. TabsTyped'
  BY <1>3, <1>4 DEF SyncTyped, TabsTyped, SendFails
<1>6. posts' \subseteq posts
  BY DEF SendFails
<1>7. TravelTyped'
  BY <1>6 DEF SyncTyped, TravelTyped, SendFails
<1>8. NoneAhead'
  BY <1>1 DEF SyncTyped, NoneAhead, SendFails, Known
<1> QED BY <1>1, <1>5, <1>7, <1>8 DEF SyncTyped

LEMMA TypeAccept ==
    ASSUME SyncTyped, NEW c \in Clients, Accept(c)
    PROVE  SyncTyped'
<1>1. RoomTypeOK' /\ room' = room /\ room.rev \in Nat
  BY RoomStaysTyped DEF SyncTyped, Accept, RoomStays, RoomTypeOK
<1>2. PICK r \in replies :
        /\ r.answer.status = "ok"
        /\ replies' = replies \ {r}
        /\ applied' = [applied EXCEPT ![c] = Highest(@, r.answer.rev)]
        /\ store' = [store EXCEPT ![c] =
                        [i \in Ids |-> IF i \in r.answer.rejected THEN Absent ELSE @[i]]]
  BY DEF Accept
<1>3. r.answer.rev \in Nat /\ r.answer.rev <= room.rev
  BY <1>2 DEF SyncTyped, NoneAhead, Known
<1>4. applied[c] \in Nat /\ applied[c] <= room.rev /\ store[c] \in Docs
  BY DEF SyncTyped, TabsTyped, NoneAhead
<1>5. Highest(applied[c], r.answer.rev) \in Nat /\ Highest(applied[c], r.answer.rev) <= room.rev
  BY <1>3, <1>4 DEF Highest
<1>6. [i \in Ids |-> IF i \in r.answer.rejected THEN Absent ELSE store[c][i]] \in Docs
  BY <1>4 DEF Docs
<1>7. store' \in [Clients -> Docs]
  BY <1>2, <1>6 DEF SyncTyped, TabsTyped
<1>8. applied' \in [Clients -> Nat] /\ \A d \in Clients : applied'[d] <= room.rev
  BY <1>2, <1>5 DEF SyncTyped, TabsTyped, NoneAhead
<1>9. Idle \in Flights
  BY DEF Flights
<1>10. TabsTyped'
  BY <1>7, <1>8, <1>9 DEF SyncTyped, TabsTyped, Accept
<1>11. TravelTyped'
  BY DEF SyncTyped, TravelTyped, Accept
<1>12. NoneAhead'
  BY <1>1, <1>2, <1>8 DEF SyncTyped, NoneAhead, Accept, Known
<1> QED BY <1>1, <1>10, <1>11, <1>12 DEF SyncTyped

LEMMA TypeRefuse ==
    ASSUME SyncTyped, NEW c \in Clients, Refuse(c)
    PROVE  SyncTyped'
<1>1. RoomTypeOK' /\ room' = room
  BY RoomStaysTyped DEF SyncTyped, Refuse, RoomStays
<1>2. flight[c].patch \in Patches /\ queue[c] \in Patches
  <2>1. flight[c] \in Flights /\ flight[c].kind = "patch" /\ queue[c] \in Patches
    BY DEF SyncTyped, TabsTyped, Refuse, Heard
  <2> QED BY <2>1 DEF Flights, Idle
<1>3. Squash(flight[c].patch, queue[c]) \in Patches
  BY <1>2, SquashTyped
<1>4. queue' \in [Clients -> Patches]
  BY <1>3 DEF SyncTyped, TabsTyped, Refuse
<1>5. Idle \in Flights /\ \A s \in Slots : [kind |-> "resync", slot |-> s] \in Flights
  BY DEF Flights
<1>6. flight' \in [Clients -> Flights]
  BY <1>5 DEF SyncTyped, TabsTyped, Refuse
<1>7. /\ gets' \in [Clients -> [Slots -> Reads]]
      /\ \A d \in Clients, s \in Slots :
            gets'[d][s] = gets[d][s] \/ gets'[d][s] = [kind |-> "asked"]
  BY AskTyped DEF SyncTyped, TabsTyped, Refuse
<1>8. TabsTyped'
  BY <1>4, <1>6, <1>7 DEF SyncTyped, TabsTyped, Refuse
<1>9. TravelTyped'
  BY DEF SyncTyped, TravelTyped, Refuse
<1>10. \A d \in Clients, s \in Slots : gets'[d][s].kind = "read" => gets'[d][s].rev <= room.rev
  BY <1>7 DEF SyncTyped, NoneAhead
<1>11. replies' \subseteq replies
  BY DEF Refuse
<1>12. NoneAhead'
  BY <1>1, <1>10, <1>11 DEF SyncTyped, NoneAhead, Refuse, Known
<1> QED BY <1>1, <1>8, <1>9, <1>12 DEF SyncTyped

\* The next frame of a tab is about a revision the room has made.
LEMMA NextFrame ==
    ASSUME SyncTyped, NEW c \in Clients, at[c] < Len(events)
    PROVE  events[at[c] + 1] \in 1..room.rev /\ room.rev \in Nat
<1>1. events \in Seq(Nat \ {0}) /\ at[c] \in Nat /\ room.rev \in Nat
  BY DEF SyncTyped, TravelTyped, RoomTypeOK
<1>2. at[c] + 1 \in 1..Len(events)
  BY <1>1
<1>3. events[at[c] + 1] \in Nat \ {0} /\ events[at[c] + 1] <= room.rev
  BY <1>1, <1>2 DEF SyncTyped, NoneAhead
<1> QED BY <1>1, <1>3

(***************************************************************************)
(* What a frame does to its tab: nothing but a read of the document, or    *)
(* the next revision's change, or the revision alone.                      *)
(***************************************************************************)
LEMMA FrameStep ==
    ASSUME SyncTyped, NEW c \in Clients, Frame(c), NEW rev, rev = events[at[c] + 1]
    PROVE  \/ /\ UNCHANGED <<store, applied>>
              /\ UNCHANGED gets \/ Ask(c)
           \/ /\ sent[rev].kind = "patch" /\ rev = applied[c] + 1
              /\ store' = [store EXCEPT ![c] = Received(store[c], sent[rev])]
              /\ applied' = [applied EXCEPT ![c] = rev]
              /\ UNCHANGED gets
           \/ /\ sent[rev].kind = "patch" /\ (rev <= applied[c] \/ sent[rev].client = c)
              /\ applied' = [applied EXCEPT ![c] = Highest(applied[c], rev)]
              /\ UNCHANGED <<store, gets>>
<1>1. rev \in Nat /\ applied[c] \in Nat
  BY NextFrame DEF Frame, SyncTyped, TabsTyped
<1>2. CASE sent[rev].kind # "patch"
  BY <1>2 DEF Frame, ReplacedFrame
<1>3. CASE sent[rev].kind = "patch"
  <2>1. PatchFrame(c, rev)
    BY <1>3 DEF Frame
  <2>2. CASE ClassifyFrame(rev, sent[rev].client, c) = "resync"
    BY <2>1, <2>2 DEF PatchFrame
  <2>3. CASE ClassifyFrame(rev, sent[rev].client, c) = "apply"
    <3>1. rev = applied[c] + 1
      BY <1>1, <2>3 DEF ClassifyFrame
    <3>2. /\ store' = [store EXCEPT ![c] = Received(@, sent[rev])]
          /\ applied' = [applied EXCEPT ![c] = rev]
          /\ UNCHANGED gets
      BY <2>1, <2>3 DEF PatchFrame
    <3> QED BY <1>3, <3>1, <3>2
  <2>4. CASE ClassifyFrame(rev, sent[rev].client, c) = "skip"
    <3>1. rev <= applied[c] \/ sent[rev].client = c
      BY <2>4 DEF ClassifyFrame
    <3>2. /\ applied' = [applied EXCEPT ![c] = Highest(@, rev)]
          /\ UNCHANGED <<store, gets>>
      BY <2>1, <2>4 DEF PatchFrame
    <3> QED BY <1>3, <3>1, <3>2
  <2> QED BY <2>2, <2>3, <2>4 DEF ClassifyFrame
<1> QED BY <1>2, <1>3

LEMMA TypeFrame ==
    ASSUME SyncTyped, NEW c \in Clients, Frame(c)
    PROVE  SyncTyped'
<1> DEFINE rev == events[at[c] + 1]
<1>1. RoomTypeOK' /\ room' = room
  BY RoomStaysTyped DEF SyncTyped, Frame, RoomStays
<1>2. rev \in 1..room.rev /\ room.rev \in Nat
  BY NextFrame DEF Frame
<1>3. applied[c] \in Nat /\ applied[c] <= room.rev /\ store[c] \in Docs
  BY DEF SyncTyped, TabsTyped, NoneAhead
<1>4. /\ UNCHANGED gets \/ Ask(c)
      /\ \/ UNCHANGED store
         \/ /\ sent[rev].kind = "patch"
            /\ store' = [store EXCEPT ![c] = Received(store[c], sent[rev])]
      /\ \/ UNCHANGED applied
         \/ applied' = [applied EXCEPT ![c] = rev]
         \/ applied' = [applied EXCEPT ![c] = Highest(applied[c], rev)]
  BY FrameStep
<1> HIDE DEF rev
<1>5. store' \in [Clients -> Docs]
  <2>1. sent[rev].kind = "patch" => Received(store[c], sent[rev]) \in Docs
    BY <1>2, <1>3, FramesTyped, ReceivedTyped DEF SyncTyped
  <2> QED BY <1>4, <2>1 DEF SyncTyped, TabsTyped
<1>6. Highest(applied[c], rev) \in Nat /\ Highest(applied[c], rev) <= room.rev
  BY <1>2, <1>3 DEF Highest
<1>7. applied' \in [Clients -> Nat] /\ \A d \in Clients : applied'[d] <= room.rev
  <2>1. applied \in [Clients -> Nat] /\ \A d \in Clients : applied[d] <= room.rev
    BY DEF SyncTyped, TabsTyped, NoneAhead
  <2>2. CASE UNCHANGED applied
    BY <2>1, <2>2
  <2>3. ASSUME NEW m \in Nat, m <= room.rev, applied' = [applied EXCEPT ![c] = m]
        PROVE  applied' \in [Clients -> Nat] /\ \A d \in Clients : applied'[d] <= room.rev
    BY <2>1, <2>3
  <2> QED BY <1>2, <1>4, <1>6, <2>2, <2>3
<1>8. /\ gets' \in [Clients -> [Slots -> Reads]]
      /\ \A d \in Clients, s \in Slots :
            gets'[d][s] = gets[d][s] \/ gets'[d][s] = [kind |-> "asked"]
  BY <1>4, AskTyped DEF SyncTyped, TabsTyped, Ask
<1>9. TabsTyped'
  BY <1>5, <1>7, <1>8 DEF SyncTyped, TabsTyped, Frame
<1>10. TravelTyped'
  <2>1. /\ at' = [at EXCEPT ![c] = @ + 1] /\ at[c] < Len(events)
        /\ events' = events /\ posts' = posts
    BY DEF Frame
  <2>2. /\ at \in [Clients -> Nat] /\ events \in Seq(Nat \ {0})
        /\ \A d \in Clients : at[d] <= Len(events)
    BY DEF SyncTyped, TravelTyped
  <2>3. at' \in [Clients -> Nat] /\ \A d \in Clients : at'[d] <= Len(events)
    BY <2>1, <2>2
  <2>4. replies' = replies /\ handlers' = handlers
    BY DEF Frame
  <2> QED BY <2>1, <2>3, <2>4 DEF SyncTyped, TravelTyped
<1>11. \A d \in Clients, s \in Slots : gets'[d][s].kind = "read" => gets'[d][s].rev <= room.rev
  BY <1>8 DEF SyncTyped, NoneAhead
<1>12. NoneAhead'
  BY <1>1, <1>7, <1>11 DEF SyncTyped, NoneAhead, Frame, Known
<1> QED BY <1>1, <1>9, <1>10, <1>12 DEF SyncTyped

LEMMA TypeStreamReset ==
    ASSUME SyncTyped, NEW c \in Clients, StreamReset(c)
    PROVE  SyncTyped'
<1>1. RoomTypeOK' /\ room' = room
  BY RoomStaysTyped DEF SyncTyped, StreamReset, RoomStays
<1>2. TabsTyped'
  BY DEF SyncTyped, TabsTyped, StreamReset, clientVars
<1>3. TravelTyped'
  <2>1. at' = [at EXCEPT ![c] = Len(events)] /\ events' = events /\ posts' = posts
    BY DEF StreamReset
  <2>2. /\ at \in [Clients -> Nat] /\ events \in Seq(Nat \ {0})
        /\ \A d \in Clients : at[d] <= Len(events)
    BY DEF SyncTyped, TravelTyped
  <2>3. replies' = replies /\ handlers' = handlers
    BY DEF StreamReset
  <2> QED BY <2>1, <2>2, <2>3 DEF SyncTyped, TravelTyped
<1>4. NoneAhead'
  BY <1>1 DEF SyncTyped, NoneAhead, StreamReset, clientVars, Known
<1> QED BY <1>1, <1>2, <1>3, <1>4 DEF SyncTyped

LEMMA TypeStep == SyncTyped /\ [Next]_vars => SyncTyped'
<1> SUFFICES ASSUME SyncTyped, [Next]_vars PROVE SyncTyped'
  OBVIOUS
<1>1. ASSUME NEW c \in Clients,
             \/ Edit(c) \/ Send(c) \/ SendFails(c) \/ Accept(c) \/ Refuse(c)
             \/ Frame(c) \/ StreamReset(c)
      PROVE  SyncTyped'
  BY <1>1, TypeEdit, TypeSend, TypeSendFails, TypeAccept, TypeRefuse, TypeFrame, TypeStreamReset
<1>2. ASSUME NEW c \in Clients, NEW s \in Slots, DocGet(c, s) \/ Load(c, s) \/ LoadFails(c, s)
      PROVE  SyncTyped'
  BY <1>2, TypeDocGet, TypeLoad, TypeLoadFails
<1>3. ASSUME NEW req \in posts, Receive(req) PROVE SyncTyped'
  BY <1>3, TypeReceive
<1>4. ASSUME NEW h \in handlers, Publish(h) PROVE SyncTyped'
  BY <1>4, TypePublish
<1>5. ASSUME NEW doc \in Documents, Import(doc) PROVE SyncTyped'
  BY <1>5, TypeImport
<1>6. CASE UNCHANGED vars
  BY <1>6 DEF vars, roomVars, clientVars, netVars, bounds, SyncTyped, RoomTypeOK, TabsTyped,
              TravelTyped, NoneAhead, Known
<1> QED BY <1>1, <1>2, <1>3, <1>4, <1>5, <1>6 DEF Next

(***************************************************************************)
(* Tabs, requests, answers, waiting handlers, frames and reads are well    *)
(* typed, however large the room; no tab is ahead of the room, and neither *)
(* is an answer, a frame or a read on its way to one; no queued patch puts *)
(* and removes one record, after whatever the tab squashed into it.        *)
(***************************************************************************)
THEOREM SyncIsTyped == Spec => [](TypeOK /\ TabsTyped /\ TravelTyped /\ NoneAhead)
<1>1. SyncTyped => TypeOK /\ TabsTyped /\ TravelTyped /\ NoneAhead
  <2> SUFFICES ASSUME SyncTyped PROVE TypeOK
    BY DEF SyncTyped
  <2>1. room.rev \in Nat
    BY DEF SyncTyped, RoomTypeOK
  <2>2. applied \in [Clients -> 0..room.rev]
    BY <2>1 DEF SyncTyped, TabsTyped, NoneAhead
  <2>3. /\ queue \in [Clients -> [put : Docs, remove : SUBSET Ids]]
        /\ \A c \in Clients : queue[c].remove \cap Present(queue[c].put) = {}
    BY DEF SyncTyped, TabsTyped, Patches
  <2>4. at \in [Clients -> 0..Len(events)]
    BY DEF SyncTyped, TravelTyped
  <2> QED BY <2>2, <2>3, <2>4 DEF SyncTyped, TabsTyped, TravelTyped, TypeOK
<1> QED BY <1>1, SyncTypeInit, TypeStep, PTL DEF Spec

-----------------------------------------------------------------------------
(* What a viewer shows.                                                    *)

\* The room grew by at most one revision, and kept the earlier ones.
LEMMA EarlierKept ==
    ASSUME RoomTypeOK, RoomTypeOK',
           \/ hist' = hist /\ sent' = sent
           \/ \E doc, frame : hist' = Append(hist, doc) /\ sent' = Append(sent, frame)
    PROVE  /\ \A r \in Nat : r <= room.rev => hist'[r + 1] = hist[r + 1]
           /\ \A r \in 1..room.rev : sent'[r] = sent[r]
<1>1. /\ hist \in Seq(Docs) /\ sent \in Seq(Frames) /\ room.rev \in Nat
      /\ Len(hist) = room.rev + 1 /\ Len(sent) = room.rev
  BY DEF RoomTypeOK
<1>2. CASE \E doc, frame : hist' = Append(hist, doc) /\ sent' = Append(sent, frame)
  <2>1. PICK doc, frame : hist' = Append(hist, doc) /\ sent' = Append(sent, frame)
    BY <1>2
  <2>2. \A r \in 1..Len(hist) : hist'[r] = hist[r]
    BY <1>1, <2>1
  <2>3. \A r \in 1..Len(sent) : sent'[r] = sent[r]
    BY <1>1, <2>1
  <2>4. \A r \in Nat : r <= room.rev => r + 1 \in 1..Len(hist)
    BY <1>1
  <2> QED BY <1>1, <2>2, <2>3, <2>4
<1> QED BY <1>2

(***************************************************************************)
(* A step of the room, by a request or an import: the broadcast stays      *)
(* complete, and what tabs have read and viewers show stays true.          *)
(***************************************************************************)
LEMMA RoomStep ==
    ASSUME RoomFits, SyncInv,
           \/ \E req \in posts : Receive(req)
           \/ \E doc \in Documents : Import(doc)
    PROVE  BroadcastComplete' /\ WritersPatch' /\ ReadsTrue' /\ ViewsTrue'
<1>1. RoomTypeOK /\ BroadcastComplete /\ room.rev \in Nat /\ Len(sent) = room.rev
  BY DEF SyncInv, SyncTyped, RoomTypeOK
<1>2. SyncTyped'
  BY TypeReceive, TypeImport DEF SyncInv
<1>3. /\ UNCHANGED clientVars /\ UNCHANGED gets /\ posts' \subseteq posts
      /\ BroadcastComplete'
      /\ \/ hist' = hist /\ sent' = sent
         \/ \E doc, frame : /\ hist' = Append(hist, doc) /\ sent' = Append(sent, frame)
                            /\ frame.kind = "patch" => frame.client \in Writers
  <2>1. CASE \E req \in posts : Receive(req)
    <3>1. PICK req \in posts : Receive(req)
      BY <2>1
    <3>2. req \in Requests /\ Apply(req) /\ req.client \in Writers
      BY <3>1 DEF Receive, SyncInv, SyncTyped, TravelTyped, WritersPatch
    <3>3. UNCHANGED clientVars /\ UNCHANGED gets /\ posts' \subseteq posts
      BY <3>1 DEF Receive
    <3>4. CASE ~ Publishes(req)
      <4>1. room'.records = room.records /\ hist' = hist /\ sent' = sent
        BY <1>1, <3>2, <3>4, QuietStep
      <4> QED BY <1>1, <3>3, <4>1 DEF BroadcastComplete
    <3>5. CASE Publishes(req)
      <4>1. /\ room'.records = RecordsAfter(req) /\ req.base <= room.rev
            /\ hist' = Append(hist, RecordsAfter(req)) /\ sent' = Append(sent, Broadcast(req))
        BY <1>1, <3>2, <3>5, PublishedStep
      <4>2. RecordsAfter(req) \in Docs /\ Broadcast(req) \in Frames
        BY <1>1, <3>2, AfterTyped
      <4>3. Received(room.records, Broadcast(req)) = RecordsAfter(req)
        BY <1>1, <3>2, <4>1, BroadcastIsChange
      <4>4. BroadcastComplete'
        BY <1>1, <4>1, <4>2, <4>3, BroadcastAppend
      <4>5. Broadcast(req).client \in Writers
        BY <3>2 DEF Broadcast
      <4> QED BY <3>3, <4>1, <4>4, <4>5
    <3> QED BY <3>4, <3>5
  <2>2. CASE \E doc \in Documents : Import(doc)
    <3>1. PICK doc \in Documents : Import(doc)
      BY <2>2
    <3> DEFINE frame == [kind |-> "replaced"]
    <3>2. /\ doc \in Docs /\ frame \in Frames /\ frame.kind # "patch"
          /\ hist' = Append(hist, doc) /\ sent' = Append(sent, frame)
      BY <3>1, DocumentsTyped DEF Import, Replace, Frames
    <3>3. room'.records = doc
      BY <1>1, <3>1 DEF Import, Replace, RoomTypeOK
    <3>4. UNCHANGED clientVars /\ UNCHANGED gets /\ posts' = posts
      BY <3>1 DEF Import
    <3> HIDE DEF frame
    <3>5. BroadcastComplete'
      BY <1>1, <3>2, <3>3, BroadcastAppend
    <3> QED BY <3>2, <3>4, <3>5
  <2> QED BY <2>1, <2>2
<1>4. /\ \A r \in Nat : r <= room.rev => hist'[r + 1] = hist[r + 1]
      /\ \A r \in 1..room.rev : sent'[r] = sent[r]
  BY <1>1, <1>2, <1>3, EarlierKept DEF SyncTyped
<1>5. WritersPatch'
  <2>1. /\ \A c \in Viewers : queue'[c] = NoPatch /\ flight'[c] = Idle
        /\ \A r \in posts' : r.client \in Writers
    BY <1>3 DEF SyncInv, WritersPatch, clientVars
  <2>2. ASSUME NEW r \in 1..Len(sent'), sent'[r].kind = "patch" PROVE sent'[r].client \in Writers
    <3>1. CASE r \in 1..Len(sent)
      BY <1>1, <1>4, <2>2, <3>1 DEF SyncInv, WritersPatch
    <3>2. CASE r \notin 1..Len(sent)
      <4>1. PICK doc, frame : /\ sent' = Append(sent, frame)
                              /\ frame.kind = "patch" => frame.client \in Writers
        BY <1>3, <2>2, <3>2
      <4>2. sent \in Seq(Frames)
        BY <1>1 DEF RoomTypeOK
      <4>3. r = Len(sent) + 1 /\ sent'[r] = frame
        BY <2>2, <3>2, <4>1, <4>2
      <4> QED BY <2>2, <4>1, <4>3
    <3> QED BY <3>1, <3>2
  <2> QED BY <2>1, <2>2 DEF WritersPatch
<1>6. ReadsTrue'
  <2>1. ASSUME NEW c \in Clients, NEW s \in Slots, gets[c][s].kind = "read"
        PROVE  gets[c][s].doc = hist'[gets[c][s].rev + 1]
    <3>1. gets[c][s].rev \in Nat /\ gets[c][s].rev <= room.rev
      BY <2>1, AnswerTyped DEF SyncInv, SyncTyped, NoneAhead
    <3> QED BY <1>4, <2>1, <3>1 DEF SyncInv, ReadsTrue
  <2> QED BY <1>3, <2>1 DEF ReadsTrue
<1>7. ViewsTrue'
  <2>1. \A c \in Viewers : applied[c] \in Nat /\ applied[c] <= room.rev
    BY DEF SyncInv, SyncTyped, TabsTyped, NoneAhead, Viewers
  <2> QED BY <1>3, <1>4, <2>1 DEF SyncInv, ViewsTrue, clientVars
<1> QED BY <1>3, <1>5, <1>6, <1>7

(***************************************************************************)
(* What a tab that may write does: viewers keep what they have, new        *)
(* patches are the tab's own, and no read is answered.                     *)
(***************************************************************************)
LEMMA WriterStep ==
    ASSUME SyncInv, NEW c \in Clients,
           Edit(c) \/ Send(c) \/ SendFails(c) \/ Accept(c) \/ Refuse(c)
    PROVE  WritersPatch' /\ ReadsTrue' /\ ViewsTrue'
<1>1. c \in Writers /\ c \notin Viewers
  <2>1. CASE Edit(c)
    BY <2>1 DEF Edit, Viewers
  <2>2. CASE Send(c)
    BY <2>2 DEF Send, SyncInv, WritersPatch, Viewers
  <2>3. CASE SendFails(c) \/ Accept(c) \/ Refuse(c)
    <3>1. flight[c].kind = "patch"
      BY <2>3 DEF SendFails, Accept, Refuse, Heard
    <3> QED BY <3>1 DEF SyncInv, WritersPatch, Viewers, Idle
  <2> QED BY <2>1, <2>2, <2>3
<1>2. UNCHANGED <<hist, sent>>
  BY DEF Edit, Send, SendFails, Accept, Refuse, roomVars
<1>3. \A d \in Viewers : /\ d \in Clients /\ d # c
                         /\ store'[d] = store[d] /\ applied'[d] = applied[d]
                         /\ queue'[d] = queue[d] /\ flight'[d] = flight[d]
  <2>1. /\ store \in [Clients -> Docs] /\ applied \in [Clients -> Nat]
        /\ queue \in [Clients -> Patches] /\ flight \in [Clients -> Flights]
    BY DEF SyncInv, SyncTyped, TabsTyped
  <2>2. \A d \in Viewers : d \in Clients /\ d # c
    BY <1>1 DEF Viewers
  <2>3. CASE Edit(c)
    BY <2>1, <2>2, <2>3 DEF Edit
  <2>4. CASE Send(c)
    BY <2>1, <2>2, <2>4 DEF Send
  <2>5. CASE SendFails(c)
    BY <2>1, <2>2, <2>5 DEF SendFails
  <2>6. CASE Accept(c)
    BY <2>1, <2>2, <2>6 DEF Accept
  <2>7. CASE Refuse(c)
    BY <2>1, <2>2, <2>7 DEF Refuse
  <2> QED BY <2>2, <2>3, <2>4, <2>5, <2>6, <2>7
<1>4. \A r \in posts' : r \in posts \/ r.client = c
  BY DEF Edit, Send, SendFails, Accept, Refuse, netVars
<1>5. \A d \in Clients, s \in Slots : gets'[d][s] = gets[d][s] \/ gets'[d][s] = [kind |-> "asked"]
  <2>1. UNCHANGED gets \/ \E s \in Slots : AskIn(c, s)
    BY DEF Edit, Send, SendFails, Accept, Refuse, netVars
  <2> QED BY <2>1, AskTyped DEF SyncInv, SyncTyped
<1>6. WritersPatch'
  BY <1>1, <1>2, <1>3, <1>4 DEF SyncInv, WritersPatch
<1>7. ReadsTrue'
  BY <1>2, <1>5 DEF SyncInv, ReadsTrue
<1>8. ViewsTrue'
  BY <1>2, <1>3 DEF SyncInv, ViewsTrue
<1> QED BY <1>6, <1>7, <1>8

\* A read is answered with the room's document, which is the latest in hist.
LEMMA DocGetTrue ==
    ASSUME SyncInv, NEW c \in Clients, NEW s \in Slots, DocGet(c, s)
    PROVE  WritersPatch' /\ ReadsTrue' /\ ViewsTrue'
<1> DEFINE answer == [kind |-> "read", doc |-> room.records, rev |-> room.rev]
<1>1. UNCHANGED <<hist, sent, posts, clientVars>> /\ gets' = [gets EXCEPT ![c][s] = answer]
  BY DEF DocGet, roomVars
<1>2. answer.doc = hist[answer.rev + 1]
  BY DEF SyncInv, SyncTyped, RoomTypeOK, BroadcastComplete
<1> HIDE DEF answer
<1>3. ReadsTrue'
  BY <1>1, <1>2 DEF SyncInv, SyncTyped, TabsTyped, ReadsTrue
<1>4. WritersPatch' /\ ViewsTrue'
  BY <1>1 DEF SyncInv, WritersPatch, ViewsTrue, clientVars
<1> QED BY <1>3, <1>4

\* A read replaces the canvas, or fails and leaves it.
LEMMA LoadTrue ==
    ASSUME SyncInv, NEW c \in Clients, NEW s \in Slots, Load(c, s) \/ LoadFails(c, s)
    PROVE  WritersPatch' /\ ReadsTrue' /\ ViewsTrue'
<1>1. UNCHANGED <<hist, sent, posts>> /\ gets' = [gets EXCEPT ![c][s] = Idle]
  BY DEF Load, LoadFails, roomVars
<1>2. /\ store \in [Clients -> Docs] /\ applied \in [Clients -> Nat]
      /\ queue \in [Clients -> Patches] /\ flight \in [Clients -> Flights]
      /\ Viewers \subseteq Clients
  BY DEF SyncInv, SyncTyped, TabsTyped, Viewers
<1>3. ReadsTrue'
  BY <1>1 DEF SyncInv, SyncTyped, TabsTyped, ReadsTrue, Idle
<1>4. \A d \in Viewers : flight'[d] = Idle
  BY <1>2 DEF SyncInv, WritersPatch, Load, LoadFails
<1>5. \A d \in Viewers : queue'[d] = NoPatch
  BY <1>2 DEF SyncInv, WritersPatch, Load, LoadFails
<1>6. WritersPatch'
  BY <1>1, <1>4, <1>5 DEF SyncInv, WritersPatch
<1>7. ViewsTrue'
  <2>1. CASE LoadFails(c, s)
    BY <1>1, <2>1 DEF SyncInv, ViewsTrue, LoadFails
  <2>2. CASE Load(c, s)
    <3>1. gets[c][s].doc = hist[gets[c][s].rev + 1]
      BY <2>2 DEF SyncInv, ReadsTrue, Load
    <3>2. /\ store' = [store EXCEPT ![c] = gets[c][s].doc]
          /\ applied' = [applied EXCEPT ![c] = gets[c][s].rev]
      BY <2>2 DEF Load
    <3> QED BY <1>1, <1>2, <3>1, <3>2 DEF SyncInv, ViewsTrue
  <2> QED BY <2>1, <2>2
<1> QED BY <1>3, <1>6, <1>7

(***************************************************************************)
(* A frame: a viewer takes the change of the next revision and no other,   *)
(* and it never finds a patch of its own that it would skip.               *)
(***************************************************************************)
LEMMA FrameTrue ==
    ASSUME SyncInv, NEW c \in Clients, Frame(c)
    PROVE  WritersPatch' /\ ReadsTrue' /\ ViewsTrue'
<1> DEFINE rev == events[at[c] + 1]
<1>1. rev \in 1..room.rev /\ room.rev \in Nat /\ Len(sent) = room.rev
  BY NextFrame DEF Frame, SyncInv, SyncTyped, RoomTypeOK
<1>2. UNCHANGED <<hist, sent, posts, queue, flight>>
  BY DEF Frame, roomVars
<1>3. \/ /\ UNCHANGED <<store, applied>>
         /\ UNCHANGED gets \/ Ask(c)
      \/ /\ sent[rev].kind = "patch" /\ rev = applied[c] + 1
         /\ store' = [store EXCEPT ![c] = Received(store[c], sent[rev])]
         /\ applied' = [applied EXCEPT ![c] = rev]
         /\ UNCHANGED gets
      \/ /\ sent[rev].kind = "patch" /\ (rev <= applied[c] \/ sent[rev].client = c)
         /\ applied' = [applied EXCEPT ![c] = Highest(applied[c], rev)]
         /\ UNCHANGED <<store, gets>>
  BY FrameStep DEF SyncInv
<1> HIDE DEF rev
<1>4. WritersPatch'
  BY <1>2 DEF SyncInv, WritersPatch
<1>5. ReadsTrue'
  <2>1. \A d \in Clients, s \in Slots :
          gets'[d][s] = gets[d][s] \/ gets'[d][s] = [kind |-> "asked"]
    BY <1>3, AskTyped DEF SyncInv, SyncTyped, Ask
  <2> QED BY <1>2, <2>1 DEF SyncInv, ReadsTrue
<1>6. /\ store \in [Clients -> Docs] /\ applied \in [Clients -> Nat]
      /\ Viewers \subseteq Clients
  BY DEF SyncInv, SyncTyped, TabsTyped, Viewers
<1>7. ViewsTrue'
  <2>1. CASE UNCHANGED <<store, applied>>
    BY <1>2, <2>1 DEF SyncInv, ViewsTrue
  <2>2. CASE /\ sent[rev].kind = "patch" /\ rev = applied[c] + 1
             /\ store' = [store EXCEPT ![c] = Received(store[c], sent[rev])]
             /\ applied' = [applied EXCEPT ![c] = rev]
    <3>1. Received(hist[rev], sent[rev]) = hist[rev + 1]
      BY <1>1, <2>2 DEF SyncInv, BroadcastComplete
    <3>2. c \in Viewers => store[c] = hist[rev]
      BY <2>2 DEF SyncInv, ViewsTrue
    <3>3. c \in Viewers => store'[c] = hist[applied'[c] + 1]
      BY <1>6, <2>2, <3>1, <3>2
    <3>4. \A d \in Viewers : d # c => store'[d] = hist[applied'[d] + 1]
      BY <1>6, <2>2 DEF SyncInv, ViewsTrue
    <3> QED BY <1>2, <3>3, <3>4 DEF ViewsTrue
  <2>3. CASE /\ sent[rev].kind = "patch" /\ (rev <= applied[c] \/ sent[rev].client = c)
             /\ applied' = [applied EXCEPT ![c] = Highest(applied[c], rev)]
             /\ UNCHANGED store
    <3>1. c \in Viewers => rev <= applied[c]
      BY <1>1, <2>3 DEF SyncInv, WritersPatch, Viewers
    <3>2. c \in Viewers => Highest(applied[c], rev) = applied[c]
      BY <1>1, <1>6, <3>1 DEF Highest
    <3>3. \A d \in Viewers : applied'[d] = applied[d]
      BY <1>6, <2>3, <3>2
    <3> QED BY <1>2, <2>3, <3>3 DEF SyncInv, ViewsTrue
  <2> QED BY <1>3, <2>1, <2>2, <2>3
<1> QED BY <1>4, <1>5, <1>7

LEMMA SyncStep == ASSUME RoomFits PROVE SyncInv /\ [Next]_vars => SyncInv'
<1> SUFFICES ASSUME SyncInv, [Next]_vars PROVE SyncInv'
  OBVIOUS
<1>1. SyncTyped'
  BY TypeStep DEF SyncInv
<1>2. ASSUME RoomStays PROVE BroadcastComplete'
  BY <1>2 DEF RoomStays, roomVars, SyncInv, BroadcastComplete, Received
<1>3. ASSUME NEW c \in Clients, Edit(c) \/ Send(c) \/ SendFails(c) \/ Accept(c) \/ Refuse(c)
      PROVE  SyncInv'
  <2>1. RoomStays
    BY <1>3 DEF Edit, Send, SendFails, Accept, Refuse, RoomStays
  <2> QED BY <1>1, <1>2, <1>3, <2>1, WriterStep DEF SyncInv
<1>4. ASSUME NEW c \in Clients, Frame(c) PROVE SyncInv'
  <2>1. RoomStays
    BY <1>4 DEF Frame, RoomStays
  <2> QED BY <1>1, <1>2, <1>4, <2>1, FrameTrue DEF SyncInv
<1>5. ASSUME NEW c \in Clients, NEW s \in Slots, DocGet(c, s) \/ Load(c, s) \/ LoadFails(c, s)
      PROVE  SyncInv'
  <2>1. RoomStays
    BY <1>5 DEF DocGet, Load, LoadFails, RoomStays
  <2> QED BY <1>1, <1>2, <1>5, <2>1, DocGetTrue, LoadTrue DEF SyncInv
<1>6. CASE (\E req \in posts : Receive(req)) \/ (\E doc \in Documents : Import(doc))
  BY <1>1, <1>6, RoomStep DEF SyncInv
<1>7. CASE UNCHANGED <<roomVars, clientVars, posts, gets>>
  <2>1. RoomStays
    BY <1>7 DEF RoomStays
  <2>2. WritersPatch' /\ ReadsTrue' /\ ViewsTrue'
    BY <1>7 DEF SyncInv, WritersPatch, ReadsTrue, ViewsTrue, roomVars, clientVars
  <2> QED BY <1>1, <1>2, <2>1, <2>2 DEF SyncInv
<1>8. ASSUME NEW c \in Clients, StreamReset(c) PROVE SyncInv'
  BY <1>7, <1>8 DEF StreamReset
<1>9. ASSUME NEW h \in handlers, Publish(h) PROVE SyncInv'
  BY <1>7, <1>9 DEF Publish
<1>10. CASE UNCHANGED vars
  BY <1>7, <1>10 DEF vars, netVars
<1> QED BY <1>3, <1>4, <1>5, <1>6, <1>8, <1>9, <1>10 DEF Next

(***************************************************************************)
(* In a room below its limit, a canvas that does not edit always shows a   *)
(* document the board had, at the revision the tab believes it has, for    *)
(* every order in which frames are published and reads are answered.       *)
(***************************************************************************)
THEOREM ViewersConsistent == ASSUME RoomFits PROVE Spec => []ViewerConsistent
<1>1. Init => SyncInv
  <2> SUFFICES ASSUME Init PROVE SyncInv
    OBVIOUS
  <2>1. SyncTyped
    BY SyncTypeInit
  <2>2. BroadcastComplete
    BY DEF Init, RoomInit, NewRoom, BroadcastComplete
  <2>3. WritersPatch
    BY DEF Init, RoomInit, WritersPatch, Viewers
  <2>4. ReadsTrue
    BY DEF Init, ReadsTrue, Idle
  <2>5. ViewsTrue
    BY DEF Init, RoomInit, ViewsTrue, Viewers
  <2> QED BY <2>1, <2>2, <2>3, <2>4, <2>5 DEF SyncInv
<1>2. SyncInv => ViewerConsistent
  BY DEF SyncInv, ViewsTrue, ViewerConsistent
<1> QED BY <1>1, <1>2, SyncStep, PTL DEF Spec
=============================================================================
