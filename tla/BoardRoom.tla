----------------------------- MODULE BoardRoom -----------------------------
(***************************************************************************)
(* A whiteboard's live room (whiteboards/room.go, patch.go): the record    *)
(* map every patch is applied to, in one order, under Rooms.mu.            *)
(*                                                                         *)
(* Records are opaque to the server: a value is a member of Vals, and the  *)
(* only thing the server reads in one is which shapes a binding joins.     *)
(* Every record counts one towards the size limit.  hist and sent keep     *)
(* what a room forgets: the document of every revision, and the change     *)
(* that made it, as it is broadcast.                                       *)
(***************************************************************************)
EXTENDS Naturals, Sequences, FiniteSets

CONSTANTS
    Ids,            \* record ids
    Shapes, Bindings, Structural,   \* shape:, binding:, and page: or document:
    Vals,           \* record values
    Ends,           \* Ends[v]: the shapes that a binding of value v joins
    Absent,         \* no such record
    Clients,        \* browser tabs
    MaxRecords,     \* MaxSnapshotBytes, in records
    MaxTombstones,
    MaxRev          \* bound: revisions a behaviour reaches

ASSUME IdsAssumption ==
    /\ IsFiniteSet(Ids)
    /\ Shapes \subseteq Ids /\ Bindings \subseteq Ids /\ Structural \subseteq Ids
    /\ Shapes \cap Bindings = {} /\ Structural \cap (Shapes \cup Bindings) = {}
ASSUME ValsAssumption == Absent \notin Vals /\ Ends \in [Vals -> SUBSET Shapes]
ASSUME LimitsAssumption ==
    MaxRecords \in Nat /\ MaxTombstones \in Nat /\ MaxRev \in Nat

Docs == [Ids -> Vals \cup {Absent}]
Blank == [i \in Ids |-> Absent]
Present(doc) == {i \in Ids : doc[i] # Absent}

\* DocPatchRequest.  An id in put is one whose entry is not Absent.
Requests == [client : Clients, seq : Nat, base : Nat, put : Docs, remove : SUBSET Ids]

VARIABLES
    room,    \* Room: records, tombs (0: none), rev, lastSeq
    hist,    \* hist[r + 1]: the document at revision r
    sent     \* sent[r]: what made revision r, as broadcast

roomVars == <<room, hist, sent>>

\* newRoom: a document just read from its file, with no memory of deletions.
NewRoom(doc, rev) ==
    [records |-> doc, rev |-> rev,
     tombs |-> [i \in Ids |-> 0], lastSeq |-> [c \in Clients |-> 0]]

RoomInit == room = NewRoom(Blank, 0) /\ hist = <<Blank>> /\ sent = <<>>

-----------------------------------------------------------------------------
(* Room.apply.                                                             *)

\* The response was lost, not the request.
Retried(req) == req.seq <= room.lastSeq[req.client]

\* A revision the room never had, or a racing page or document record.
Conflicts(req) ==
    \/ req.base > room.rev
    \/ /\ (Present(req.put) \cup req.remove) \cap Structural # {}
       /\ req.base # room.rev

\* Bindings of removed shapes go too.
Cascade(req) ==
    {b \in Bindings \cap Present(room.records) :
        Ends[room.records[b]] \cap req.remove # {}}
Removed(req) == req.remove \cup Cascade(req)

TombsAfterRemoves(req) ==
    [i \in Ids |-> IF i \in Removed(req) THEN room.rev + 1 ELSE room.tombs[i]]

\* Puts of records deleted after the sender last heard are refused.
Refused_Never(req) == {}
Refused(req) == {i \in Present(req.put) : req.base < TombsAfterRemoves(req)[i]}
Accepted(req) == Present(req.put) \ Refused(req)

RecordsAfter(req) ==
    [i \in Ids |-> IF i \in Accepted(req) THEN req.put[i]
                   ELSE IF i \in Removed(req) THEN Absent ELSE room.records[i]]
TombsAfter(req) ==
    [i \in Ids |-> IF i \in Accepted(req) THEN 0 ELSE TombsAfterRemoves(req)[i]]

TooBig(req) == Cardinality(Present(RecordsAfter(req))) > MaxRecords
Changes(req) == Accepted(req) \cup Removed(req) # {}

\* trimTombs: the oldest deletions are forgotten; which of equals is open.
Dead(tombs) == {i \in Ids : tombs[i] # 0}
TrimTombs(tombs) ==
    IF Cardinality(Dead(tombs)) <= MaxTombstones THEN {tombs}
    ELSE {[i \in Ids |-> IF i \in kept THEN tombs[i] ELSE 0] :
             kept \in {k \in SUBSET Dead(tombs) :
                          /\ Cardinality(k) = MaxTombstones
                          /\ \A i \in k, j \in Dead(tombs) \ k : tombs[i] >= tombs[j]}}

\* Applied.Patch, and the request it came from.
Broadcast_AsRequested(req) ==
    [kind |-> "patch", client |-> req.client, base |-> req.base,
     put |-> [i \in Ids |-> IF i \in Accepted(req) THEN req.put[i] ELSE Absent],
     remove |-> req.remove]
Broadcast(req) ==
    [kind |-> "patch", client |-> req.client, base |-> req.base,
     put |-> [i \in Ids |-> IF i \in Accepted(req) THEN req.put[i] ELSE Absent],
     remove |-> Removed(req)]

(***************************************************************************)
(* apply's answer: the revision and the refused puts, or an error.  The    *)
(* size is checked after the records were changed, and an oversized patch  *)
(* is refused without undoing that.                                        *)
(***************************************************************************)
Answer(req) ==
    IF Retried(req) THEN [status |-> "ok", rev |-> room.rev, rejected |-> {}]
    ELSE IF Conflicts(req) THEN [status |-> "conflict"]
    ELSE IF TooBig(req) THEN [status |-> "invalid"]
    ELSE [status |-> "ok", rejected |-> Refused(req),
          rev |-> IF Changes(req) THEN room.rev + 1 ELSE room.rev]

Publishes(req) == ~ Retried(req) /\ ~ Conflicts(req) /\ ~ TooBig(req) /\ Changes(req)

Unpublished(req) ==
    IF Retried(req) \/ Conflicts(req) THEN room
    ELSE IF TooBig(req)
         THEN [room EXCEPT !.records = RecordsAfter(req), !.tombs = TombsAfter(req)]
    ELSE [room EXCEPT !.lastSeq[req.client] = req.seq]

Apply(req) ==
    \/ ~ Publishes(req) /\ room' = Unpublished(req) /\ UNCHANGED <<hist, sent>>
    \/ /\ Publishes(req)
       /\ \E tombs \in TrimTombs(TombsAfter(req)) :
            room' = [records |-> RecordsAfter(req), rev |-> room.rev + 1, tombs |-> tombs,
                     lastSeq |-> [room.lastSeq EXCEPT ![req.client] = req.seq]]
       /\ hist' = Append(hist, RecordsAfter(req))
       /\ sent' = Append(sent, Broadcast(req))

\* Room.replace: an import or an acknowledged overwrite of the whole document.
Replace(doc) ==
    /\ room' = [room EXCEPT !.records = doc, !.rev = @ + 1, !.tombs = [i \in Ids |-> 0]]
    /\ hist' = Append(hist, doc)
    /\ sent' = Append(sent, [kind |-> "replaced"])

-----------------------------------------------------------------------------
(***************************************************************************)
(* The room among arbitrary clients.  A tab builds its diff on a document  *)
(* it has seen, and tldraw keeps that self-consistent: a binding is put    *)
(* only between shapes that are there, squash never puts and removes one   *)
(* record.  A request may be late, repeated, or come from a tab that is    *)
(* ahead of a room that was restored underneath it.                        *)
(***************************************************************************)
Joined(doc) == \A b \in Bindings \cap Present(doc) : Ends[doc[b]] \subseteq Present(doc)
Documents == {doc \in Docs : Joined(doc) /\ Cardinality(Present(doc)) <= MaxRecords}

SelfConsistent(req) ==
    /\ req.remove \cap Present(req.put) = {}
    /\ req.remove # {} \/ Present(req.put) # {}
    /\ req.base < Len(hist) =>
          LET seen == Present(hist[req.base + 1]) \cup Present(req.put)
          IN  \A b \in Present(req.put) \cap Bindings :
                 Ends[req.put[b]] \subseteq seen \ req.remove

ClientRequests ==
    {req \in [client : Clients, seq : 1..MaxRev + 1, base : 0..room.rev + 1,
              put : {p \in Docs : Cardinality(Present(p)) <= 1},
              remove : {s \in SUBSET Ids : Cardinality(s) <= 1}] :
        /\ SelfConsistent(req)
        /\ req.seq \in {room.lastSeq[req.client], room.lastSeq[req.client] + 1}}

RoomNext ==
    \/ room.rev < MaxRev /\ \E req \in ClientRequests : Apply(req)
    \/ room.rev < MaxRev /\ \E doc \in Documents : Replace(doc)

RoomSpec == RoomInit /\ [][RoomNext]_roomVars

-----------------------------------------------------------------------------
(* Properties.                                                             *)

Frames ==
    [kind : {"patch"}, client : Clients, base : Nat, put : Docs, remove : SUBSET Ids]
        \cup [kind : {"replaced"}]

\* Type correctness of the room; every revision has its document and its frame.
RoomTypeOK ==
    /\ room \in [records : Docs, rev : Nat, tombs : [Ids -> Nat], lastSeq : [Clients -> Nat]]
    /\ \A i \in Ids : room.tombs[i] <= room.rev + 1
    /\ hist \in Seq(Docs) /\ Len(hist) = room.rev + 1
    /\ sent \in Seq(Frames) /\ Len(sent) = room.rev

\* onFrame: what a receiver makes of a broadcast patch.
Received(doc, patch) ==
    [i \in Ids |-> IF i \in patch.remove THEN Absent
                   ELSE IF patch.put[i] # Absent THEN patch.put[i] ELSE doc[i]]

(***************************************************************************)
(* What is broadcast is the whole change: a receiver that has a revision   *)
(* and applies the next patch, puts first and removes last, has the room's *)
(* next document, refused puts and cascaded bindings included.             *)
(***************************************************************************)
BroadcastComplete ==
    /\ room.records = hist[Len(hist)]
    /\ \A r \in 1..Len(sent) :
          sent[r].kind = "patch" => Received(hist[r], sent[r]) = hist[r + 1]

\* The records deleted by revisions d..r.
RemovedIn(d, r) == UNION {sent[e].remove : e \in {e \in d..r : sent[e].kind = "patch"}}

(***************************************************************************)
(* Delete wins: a put never brings back a record that was deleted at a     *)
(* revision its sender had not seen, unless someone who had seen the       *)
(* deletion put it back or the whole document was replaced since, or the   *)
(* deletion was forgotten, which takes more than MaxTombstones of them.    *)
(***************************************************************************)
Resurrects(i, d, r) ==
    /\ sent[d].kind = "patch" /\ i \in sent[d].remove
    /\ sent[r].kind = "patch" /\ i \in Present(sent[r].put) /\ sent[r].base < d
Excused(i, d, r) ==
    \/ \E u \in d + 1..r - 1 : sent[u].kind = "replaced" \/ i \in Present(sent[u].put)
    \/ Cardinality(RemovedIn(d, r - 1)) > MaxTombstones
DeleteWins ==
    \A r \in 1..Len(sent) : \A d \in 1..r - 1 : \A i \in Ids :
        Resurrects(i, d, r) => Excused(i, d, r)

\* The memory of deletions is bounded, and a live record is never in it.
TombsBounded ==
    /\ Cardinality(Dead(room.tombs)) <= MaxTombstones
    /\ \A i \in Dead(room.tombs) : room.records[i] = Absent

(***************************************************************************)
(* patch.go: "when a shape goes its bindings must go with it or peers are  *)
(* left with an arrow pointing at nothing".                                *)
(***************************************************************************)
NoDanglingBinding == Joined(room.records)

(***************************************************************************)
(* room.go apply: "Refusing here rather than at save time means the room   *)
(* never reaches a state it cannot persist."                               *)
(***************************************************************************)
AlwaysPersistable == Cardinality(Present(room.records)) <= MaxRecords
=============================================================================
