-------------------------- MODULE BoardStoreProofs --------------------------
(***************************************************************************)
(* Theorems about BoardStore, for any number of boards, requests, streams, *)
(* loads and failures, and every mix of requests.                          *)
(***************************************************************************)
EXTENDS BoardStore, FiniteSetTheorems, TLAPS

Docs == SUBSET (Excess..MaxEdits)
File == [next : Nat \ {0}, rev : [Boards -> Nat \cup {NoBoard}]]
Room == [doc : Docs, rev : Nat, dirty : BOOLEAN, behind : BOOLEAN, subs : Nat]
Holds == [op : {"open", "patch", "flush"}, board : Boards, at : Nat]
Saves == [op : {"put", "force", "replace"}, board : Boards, base : Int, doc : Docs, at : Nat]
Calls == {Idle, [op |-> "purge"]} \cup Saves \cup [op : {"create"}, at : Nat]
           \cup [op : {"rename", "delete"}, board : Boards, at : Nat]
Backups == [op : {"backup"}, seen : SUBSET Edits, unsaved : SUBSET Boards]
Restores == [op : {"writing", "reset"}, seen : SUBSET Edits, left : SUBSET ({0} \cup Boards)]

StoreTyped ==
    /\ meta \in File /\ ps \in Seq(File) /\ cur \in {0, Len(ps)}
    /\ doc \in [Boards -> Docs]
RoomsTyped ==
    /\ rooms \in [Boards -> Room \cup {NoRoom}] /\ streams \in [Boards -> Nat]
    /\ \A b \in Live : rooms[b].subs <= streams[b]
HolderTyped ==
    /\ rs \in {Idle} \cup Holds
    /\ rs # Idle => rs.at \in 1..Len(ps) /\ (rs.op = "flush" <=> rs.board \in Live)
CallsTyped ==
    /\ call \in [Handlers -> Calls]
    /\ \A h \in Handlers : call[h].op \notin {"idle", "purge"} => call[h].at \in 1..Len(ps)
    /\ view \in [Handlers -> [board : Boards, doc : Docs, rev : Int]]
AdminTyped ==
    /\ admin \in {Idle} \cup Backups \cup Restores
    /\ snap \in [meta : File, doc : [Boards -> Docs], of : Backups]
HistoryTyped ==
    /\ edits \in 0..MaxEdits /\ patched \in [Boards -> SUBSET (1..edits)]
    /\ gone \subseteq Edits /\ wiped \subseteq 1..edits
    /\ admin # Idle => admin.seen \subseteq 1..edits
    /\ snap.of.seen \subseteq 1..edits

Typed == StoreTyped /\ RoomsTyped /\ HolderTyped /\ CallsTyped /\ AdminTyped /\ HistoryTyped

\* The cap: whoever is loading a room has a place for it.
CapHolds ==
    /\ Cardinality(Live) <= MaxLiveRooms
    /\ rs.op \in {"open", "patch"} => Cardinality(Live) < MaxLiveRooms

(***************************************************************************)
(* Where the acknowledged strokes are: all in the room when there is one,  *)
(* and all in the file unless a dirty room stands before it.               *)
(***************************************************************************)
Dirty(b) == b \in Live /\ rooms[b].dirty
StrokesKept ==
    \A b \in Boards :
        /\ b \in Live => patched[b] \ gone \subseteq rooms[b].doc
        /\ ~ Dirty(b) => patched[b] \ gone \subseteq doc[b]

\* What the backup under way is going to find, and what the last one found.
BackupKept ==
    /\ admin.op = "backup" => \A b \in Boards \ admin.unsaved :
           (patched[b] \cap admin.seen) \ gone \subseteq doc[b]
    /\ \A b \in Boards \ snap.of.unsaved :
           (patched[b] \cap snap.of.seen) \ gone \subseteq snap.doc[b]

-----------------------------------------------------------------------------
(* The store's operations.                                                 *)

LEMMA BodyTyped ==
    ASSUME NEW d \in Docs
    PROVE  Body(d) \subseteq Edits
BY StoreConfig DEF Body, Edits

LEMMA DocsHaveNone == NoDoc \in Docs /\ Garbled \in Docs
BY StoreConfig DEF NoDoc, Garbled, Docs, Excess

\* NoRoom is none of the rooms.
LEMMA RoomIsLive ==
    ASSUME RoomsTyped, NEW b \in Boards
    PROVE  b \in Live <=> rooms[b] \in Room
BY DEF RoomsTyped, Live, Room, NoRoom, NoBoard

\* Store.project only adds state objects, and its result is one of them.
LEMMA ProjectTyped ==
    ASSUME StoreTyped, Project
    PROVE  /\ ps' \in Seq(File) /\ cur' = Len(ps') /\ cur' \in 1..Len(ps')
           /\ Len(ps) \in Nat /\ Len(ps) <= Len(ps')
           /\ \A k \in 1..Len(ps) : ps'[k] = ps[k]
           /\ ps'[cur'] = Cached
BY DEF Project, StoreTyped, Cached

LEMMA CachedTyped ==
    ASSUME StoreTyped
    PROVE  Cached \in File
BY DEF StoreTyped, Cached

\* Replacing a state object leaves the others.
LEMMA FileWritten ==
    ASSUME StoreTyped, NEW k \in 1..Len(ps), NEW file \in File
    PROVE  /\ [ps EXCEPT ![k] = file] \in Seq(File) /\ Len([ps EXCEPT ![k] = file]) = Len(ps)
           /\ [ps EXCEPT ![k] = file][k] = file
BY DEF StoreTyped

LEMMA RevWritten ==
    ASSUME StoreTyped, NEW k \in 1..Len(ps), NEW b \in Boards, NEW rev \in Nat \cup {NoBoard}
    PROVE  [ps[k] EXCEPT !.rev[b] = rev] \in File
<1>1. ps[k] \in File
  BY DEF StoreTyped
<1> QED BY <1>1 DEF File

LEMMA WriteBoardTyped ==
    ASSUME StoreTyped, NEW k \in 1..Len(ps), NEW b \in Boards, NEW d \in Docs,
           NEW rev \in Nat, NEW out \in Outcomes, WriteBoard(k, b, d, rev, out)
    PROVE  StoreTyped' /\ Len(ps') = Len(ps)
<1> DEFINE file == [ps[k] EXCEPT !.rev[b] = rev]
<1>1. file \in File
  BY RevWritten
<1>2. [ps EXCEPT ![k] = file] \in Seq(File) /\ Len([ps EXCEPT ![k] = file]) = Len(ps)
  BY <1>1, FileWritten
<1> HIDE DEF file
<1> QED BY <1>1, <1>2 DEF WriteBoard, StoreTyped, file

LEMMA WriteMetaTyped ==
    ASSUME StoreTyped, NEW k \in 1..Len(ps), NEW file \in File, NEW out,
           WriteMeta(k, file, out), doc' \in [Boards -> Docs]
    PROVE  StoreTyped' /\ Len(ps') = Len(ps)
BY FileWritten DEF WriteMeta, StoreTyped

-----------------------------------------------------------------------------
(* Typing.                                                                 *)

\* The lookups under way stay in range while no state object is dropped.
LEMMA AtStays ==
    ASSUME HolderTyped, CallsTyped, Len(ps) \in Nat, Len(ps') \in Nat, Len(ps) <= Len(ps')
    PROVE  /\ rs # Idle => rs.at \in 1..Len(ps')
           /\ \A h \in Handlers : call[h].op \notin {"idle", "purge"} => call[h].at \in 1..Len(ps')
BY DEF HolderTyped, CallsTyped

LEMMA TypedInit == Init => Typed
<1> SUFFICES ASSUME Init PROVE Typed
  OBVIOUS
<1> USE StoreConfig DEF Init, Boards, NoBoard, NoDoc, Idle
<1>0. NoDoc \in Docs
  BY DocsHaveNone
<1>1. StoreTyped
  BY <1>0 DEF StoreTyped, File
<1>2. RoomsTyped /\ HolderTyped
  BY DEF RoomsTyped, HolderTyped, Live
<1>3. CallsTyped
  BY <1>0 DEF CallsTyped, Calls
<1>4. AdminTyped
  BY <1>1 DEF AdminTyped, Backups, StoreTyped
<1>5. HistoryTyped
  BY DEF HistoryTyped
<1> QED BY <1>1, <1>2, <1>3, <1>4, <1>5 DEF Typed

\* A room with another document, and what becomes of one that is saved.
LEMMA RoomChanged ==
    ASSUME NEW room \in Room, NEW d \in Docs
    PROVE  /\ Changed(room, d) \in Room /\ Changed(room, d).subs = room.subs
           /\ Changed(room, d).doc = d /\ Changed(room, d).rev = room.rev + 1
           /\ Changed(room, d).dirty = TRUE /\ Changed(room, d).behind = room.behind
           /\ Changed(room, d) # NoRoom
<1>1. room.rev + 1 \in Nat
  BY DEF Room
<1> QED BY <1>1 DEF Changed, Room, NoRoom

LEMMA RoomCleaned ==
    ASSUME NEW room \in Room
    PROVE  /\ Cleaned(room) \in Room /\ Cleaned(room).subs = room.subs
           /\ Cleaned(room).doc = room.doc /\ Cleaned(room).rev = room.rev
           /\ Cleaned(room).dirty = FALSE /\ Cleaned(room).behind = FALSE
           /\ Cleaned(room) # NoRoom
BY DEF Cleaned, Room, NoRoom

\* What a patch does to its room, accepted or refused for its size.
LEMMA ServePatches ==
    ASSUME NEW b \in Boards, NEW room \in Room, HistoryTyped, Serve("patch", b, room)
    PROVE  \E r \in Room :
             /\ rooms' = [rooms EXCEPT ![b] = r] /\ r.subs = room.subs /\ r.behind = room.behind
             /\ \/ /\ r.rev = room.rev + 1 /\ r.dirty = TRUE
                   /\ patched' = [patched EXCEPT ![b] = @ \cup {edits + 1}]
                   /\ room.doc \ {Excess} \subseteq r.doc /\ edits + 1 \in r.doc
                \/ /\ r.rev = room.rev /\ r.dirty = room.dirty /\ patched' = patched
                   /\ room.doc \subseteq r.doc /\ TooLong(r.doc)
             /\ edits < MaxEdits /\ edits' = edits + 1
             /\ UNCHANGED <<streams, gone, wiped, torn>>
<1> DEFINE e == edits + 1
<1>1. edits < MaxEdits /\ edits' = e /\ UNCHANGED <<streams, gone, wiped, torn>>
  BY DEF Serve
<1>2. e \in Excess..MaxEdits /\ Excess \in Excess..MaxEdits /\ room.doc \in Docs
  BY <1>1, StoreConfig DEF HistoryTyped, Excess, Room
<1>3. ASSUME NEW size \in {{}, {Excess}},
             rooms' = [rooms EXCEPT ![b] = Changed(room, (room.doc \ {Excess}) \cup size \cup {e})],
             patched' = [patched EXCEPT ![b] = @ \cup {e}]
      PROVE  \E r \in Room :
               /\ rooms' = [rooms EXCEPT ![b] = r] /\ r.subs = room.subs /\ r.behind = room.behind
               /\ r.rev = room.rev + 1 /\ r.dirty = TRUE
               /\ patched' = [patched EXCEPT ![b] = @ \cup {e}]
               /\ room.doc \ {Excess} \subseteq r.doc /\ e \in r.doc
  <2> DEFINE d == (room.doc \ {Excess}) \cup size \cup {e}
  <2>1. d \in Docs
    BY <1>2 DEF Docs
  <2> QED BY <1>3, <2>1, RoomChanged
<1>4. ASSUME rooms' = [rooms EXCEPT ![b] = [room EXCEPT !.doc = @ \cup {Excess, e}]],
             patched' = patched
      PROVE  \E r \in Room :
               /\ rooms' = [rooms EXCEPT ![b] = r] /\ r.subs = room.subs /\ r.behind = room.behind
               /\ r.rev = room.rev /\ r.dirty = room.dirty /\ patched' = patched
               /\ room.doc \subseteq r.doc /\ TooLong(r.doc)
  <2> DEFINE r == [room EXCEPT !.doc = @ \cup {Excess, e}]
  <2>1. room.doc \cup {Excess, e} \in Docs
    BY <1>2 DEF Docs
  <2>2. r \in Room /\ r.subs = room.subs /\ r.behind = room.behind /\ r.rev = room.rev
        /\ r.dirty = room.dirty /\ r.doc = room.doc \cup {Excess, e}
    BY <2>1 DEF Room
  <2> HIDE DEF r
  <2>3. TooLong(r.doc) /\ room.doc \subseteq r.doc
    BY <2>2 DEF TooLong
  <2> QED BY <1>4, <2>2, <2>3 DEF r
<1>5. \/ \E size \in {{}, {Excess}} :
           /\ rooms' = [rooms EXCEPT ![b] = Changed(room, (room.doc \ {Excess}) \cup size \cup {e})]
           /\ patched' = [patched EXCEPT ![b] = @ \cup {e}]
      \/ /\ rooms' = [rooms EXCEPT ![b] = [room EXCEPT !.doc = @ \cup {Excess, e}]]
         /\ patched' = patched
  BY DEF Serve
<1> HIDE DEF e
<1> QED BY <1>1, <1>3, <1>4, <1>5 DEF e

\* Open and Apply, on a room that is live or about to be.
LEMMA ServeTyped ==
    ASSUME Typed, NEW op \in {"open", "patch"}, NEW b \in Boards, NEW room \in Room,
           room.subs <= streams[b], Serve(op, b, room), UNCHANGED <<admin, snap>>
    PROVE  /\ RoomsTyped' /\ HistoryTyped' /\ Live' = Live \cup {b}
<1> USE DEF Typed
<1>1. CASE op = "open"
  <2>1. /\ rooms' = [rooms EXCEPT ![b] = [room EXCEPT !.subs = @ + 1]]
        /\ streams' = [streams EXCEPT ![b] = @ + 1] /\ UNCHANGED history
    BY <1>1 DEF Serve
  <2>2. [room EXCEPT !.subs = @ + 1] \in Room /\ [room EXCEPT !.subs = @ + 1].subs = room.subs + 1
    BY DEF Room
  <2>3. rooms' \in [Boards -> Room \cup {NoRoom}] /\ streams' \in [Boards -> Nat]
    BY <2>1, <2>2 DEF RoomsTyped
  <2>4. Live' = Live \cup {b}
    BY <2>1, <2>2 DEF Live, RoomsTyped, Room, NoRoom, NoBoard
  <2>5. \A x \in Live' : rooms'[x].subs <= streams'[x]
    BY <2>1, <2>2, <2>4 DEF RoomsTyped, Live, Room
  <2> QED BY <2>1, <2>3, <2>4, <2>5 DEF RoomsTyped, HistoryTyped, history
<1>2. CASE op = "patch"
  <2> DEFINE e == edits + 1
  <2>1. PICK r \in Room :
          /\ rooms' = [rooms EXCEPT ![b] = r] /\ r.subs = room.subs /\ edits < MaxEdits /\ edits' = e
          /\ patched' = patched \/ patched' = [patched EXCEPT ![b] = @ \cup {e}]
          /\ UNCHANGED <<streams, gone, wiped>>
    BY <1>2, ServePatches
  <2>2. e \in 0..MaxEdits
    BY <2>1, StoreConfig DEF HistoryTyped
  <2>4. rooms' \in [Boards -> Room \cup {NoRoom}] /\ streams' \in [Boards -> Nat]
    BY <2>1 DEF RoomsTyped
  <2>5. Live' = Live \cup {b}
    BY <2>1 DEF Live, RoomsTyped, Room, NoRoom, NoBoard
  <2>6. \A x \in Live' : rooms'[x].subs <= streams'[x]
    BY <2>1, <2>5 DEF RoomsTyped, Live
  <2>7. patched' \in [Boards -> SUBSET (1..edits')]
    BY <2>1, <2>2 DEF HistoryTyped
  <2>8. HistoryTyped'
    BY <2>1, <2>2, <2>7 DEF HistoryTyped
  <2> QED BY <2>4, <2>5, <2>6, <2>8 DEF RoomsTyped
<1> QED BY <1>1, <1>2

LEMMA TypedJoin ==
    ASSUME Typed, NEW op \in {"open", "patch"}, NEW b \in Boards, Join(op, b)
    PROVE  Typed'
<1>1. rooms[b] \in Room /\ rooms[b].subs <= streams[b]
  BY RoomIsLive DEF Join, Typed, RoomsTyped
<1>2. RoomsTyped' /\ HistoryTyped'
  BY <1>1, ServeTyped DEF Join
<1>3. StoreTyped' /\ HolderTyped' /\ CallsTyped' /\ AdminTyped'
  BY DEF Join, Typed, StoreTyped, HolderTyped, CallsTyped, AdminTyped, store
<1> QED BY <1>2, <1>3 DEF Typed

\* A holder of rs.mu looks a project up: the actions before Loaded and Flushed.
LEMMA TypedHold ==
    ASSUME Typed, NEW b \in Boards, NEW op \in {"open", "patch", "flush"}, Project,
           rs' = [op |-> op, board |-> b, at |-> cur'], op = "flush" <=> b \in Live,
           UNCHANGED <<meta, doc, rooms, streams, call, view, admin, snap, history>>
    PROVE  Typed'
<1> USE DEF Typed
<1>1. StoreTyped'
  BY ProjectTyped DEF StoreTyped
<1>2. RoomsTyped' /\ AdminTyped' /\ HistoryTyped' /\ Live' = Live
  BY DEF RoomsTyped, AdminTyped, HistoryTyped, Live, history
<1>3. HolderTyped'
  BY <1>2, ProjectTyped DEF HolderTyped, Holds
<1>4. CallsTyped'
  BY ProjectTyped, AtStays DEF CallsTyped
<1> QED BY <1>1, <1>2, <1>3, <1>4

LEMMA TypedLoaded == ASSUME Typed, Loaded PROVE Typed'
<1> USE DEF Typed
<1>1. rs \in Holds /\ rs.op \in {"open", "patch"} /\ rs' = Idle
  BY DEF Loaded, HolderTyped, Idle
<1>2. StoreTyped' /\ CallsTyped' /\ AdminTyped' /\ HolderTyped'
  BY <1>1 DEF Loaded, StoreTyped, CallsTyped, AdminTyped, HolderTyped, store
<1> DEFINE read == Known(ps[rs.at], rs.board) /\ doc[rs.board] # Garbled
<1>3. CASE ~ read
  BY <1>2, <1>3 DEF Loaded, RoomsTyped, HistoryTyped, Live, history
<1>4. CASE read
  <2> DEFINE room == [doc |-> doc[rs.board], rev |-> ps[rs.at].rev[rs.board],
                      dirty |-> FALSE, behind |-> FALSE, subs |-> 0]
  <2>1. rs.board \in Boards /\ rs.at \in 1..Len(ps)
    BY <1>1 DEF Holds, HolderTyped, Idle
  <2>2. ps[rs.at] \in File
    BY <2>1 DEF StoreTyped
  <2>3. room \in Room
    BY <1>4, <2>1, <2>2 DEF Room, File, Known, StoreTyped
  <2>4. Serve(rs.op, rs.board, room) /\ UNCHANGED <<admin, snap>>
    BY <1>4 DEF Loaded
  <2>5. room.subs <= streams[rs.board]
    BY <2>1 DEF RoomsTyped
  <2> HIDE DEF room
  <2> QED BY <1>1, <1>2, <2>1, <2>3, <2>4, <2>5, ServeTyped
<1> QED BY <1>3, <1>4

\* A room that is replaced, dropped or marked clean among typed rooms.
LEMMA RoomsReplaced ==
    ASSUME RoomsTyped, UNCHANGED streams, rooms' \in [Boards -> Room \cup {NoRoom}],
           \A b \in Boards : \/ rooms'[b] = NoRoom
                             \/ b \in Live /\ rooms'[b].subs <= rooms[b].subs
    PROVE  RoomsTyped'
BY DEF RoomsTyped, Live, Room, NoRoom, NoBoard

LEMMA TypedRelease == ASSUME Typed, NEW b \in Boards, Release(b) PROVE Typed'
<1> USE DEF Typed
<1>1. StoreTyped' /\ CallsTyped' /\ AdminTyped' /\ HistoryTyped'
  BY DEF Release, StoreTyped, CallsTyped, AdminTyped, HistoryTyped, store, history
<1>2. streams' \in [Boards -> Nat] /\ streams'[b] = streams[b] - 1
  BY DEF Release, RoomsTyped
<1>3. CASE ~ (b \in Live /\ rooms[b].subs > 0)
  <2>1. \A x \in Live : rooms[x].subs \in Nat
    BY RoomIsLive DEF Room, Live
  <2> QED BY <1>1, <1>2, <1>3, <2>1 DEF Release, RoomsTyped, HolderTyped, Live
<1>4. CASE b \in Live /\ rooms[b].subs > 0
  <2> DEFINE r == [rooms[b] EXCEPT !.subs = @ - 1]
  <2>1. rooms[b] \in Room
    BY <1>4, RoomIsLive
  <2>2. r \in Room /\ r.subs = rooms[b].subs - 1
    BY <1>4, <2>1 DEF Room
  <2>3. rooms' = [rooms EXCEPT ![b] = r]
    BY <1>4 DEF Release
  <2> HIDE DEF r
  <2>4. rooms' \in [Boards -> Room \cup {NoRoom}] /\ Live' = Live
    BY <1>4, <2>2, <2>3 DEF RoomsTyped, Live, Room, NoRoom, NoBoard
  <2>5. \A x \in Live' : rooms'[x].subs <= streams'[x]
    BY <1>2, <1>4, <2>1, <2>2, <2>3, <2>4 DEF RoomsTyped, Release, Live, Room
  <2> QED BY <1>1, <1>2, <2>4, <2>5 DEF Release, RoomsTyped, HolderTyped
<1> QED BY <1>3, <1>4

LEMMA TypedFlushed == ASSUME Typed, Flushed PROVE Typed'
<1> USE DEF Typed
<1> DEFINE b == rs.board
<1>1. rs \in Holds /\ b \in Live /\ rs.at \in 1..Len(ps) /\ b \in Boards /\ rs' = Idle
  BY DEF Flushed, HolderTyped, Idle, Live
<1>2. rooms[b] \in Room
  BY <1>1, RoomIsLive
<1>3. AdminTyped' /\ HistoryTyped'
  BY DEF Flushed, AdminTyped, HistoryTyped
<1>4. CASE ~ Known(ps[rs.at], b)
  BY <1>1, <1>3, <1>4 DEF Flushed, StoreTyped, RoomsTyped, HolderTyped, CallsTyped, Live, store
<1>5. CASE Known(ps[rs.at], b)
  <2>1. PICK out \in Outcomes : /\ WriteBoard(rs.at, b, rooms[b].doc, rooms[b].rev, out)
                                /\ rooms' = Clean(b, out)
    BY <1>5 DEF Flushed
  <2>2. StoreTyped' /\ Len(ps') = Len(ps)
    BY <1>1, <1>2, <2>1, WriteBoardTyped DEF Room
  <2>3. CallsTyped' /\ HolderTyped'
    BY <1>1, <2>2 DEF Flushed, CallsTyped, HolderTyped
  <2>4. Cleaned(rooms[b]) \in Room
    BY <1>2, RoomCleaned
  <2>5. \/ rooms' = rooms
        \/ rooms' = [rooms EXCEPT ![b] = Cleaned(rooms[b])]
    BY <2>1 DEF Clean
  <2>6. rooms' \in [Boards -> Room \cup {NoRoom}]
    BY <1>1, <2>4, <2>5 DEF RoomsTyped
  <2>7. \A x \in Boards : rooms'[x] = NoRoom \/ (x \in Live /\ rooms'[x].subs <= rooms[x].subs)
    <3>1. \A x \in Live : rooms[x].subs \in Nat
      BY RoomIsLive DEF Room, Live
    <3>2. Cleaned(rooms[b]).subs = rooms[b].subs
      BY <1>2, RoomCleaned
    <3>3. \A x \in Boards : rooms'[x] = rooms[x] \/ (x = b /\ rooms'[x].subs = rooms[x].subs)
      BY <2>5, <3>2 DEF RoomsTyped
    <3> QED BY <1>1, <3>1, <3>3 DEF Live
  <2>8. RoomsTyped'
    BY <2>6, <2>7, RoomsReplaced DEF Flushed
  <2> QED BY <1>3, <2>2, <2>3, <2>8
<1> QED BY <1>4, <1>5

LEMMA TypedEvict == ASSUME Typed, NEW b \in Boards, Evict(b) PROVE Typed'
<1> USE DEF Typed
<1>1. \A x \in Live : rooms[x].subs \in Nat
  BY RoomIsLive DEF Room, Live
<1>2. rooms' \in [Boards -> Room \cup {NoRoom}]
  BY DEF Evict, RoomsTyped
<1>3. RoomsTyped'
  BY <1>1, <1>2, RoomsReplaced DEF Evict, RoomsTyped, Live
<1> QED BY <1>3 DEF Evict, StoreTyped, HolderTyped, CallsTyped, AdminTyped, HistoryTyped,
                    store, history

\* The document a GET answers.
LEMMA SnapshotTyped ==
    ASSUME Typed, NEW b \in Boards
    PROVE  Snapshot(b) \in [board : Boards, doc : Docs, rev : Int]
<1> USE DEF Typed
<1>1. CASE b \in Live
  BY <1>1, RoomIsLive DEF Snapshot, Room
<1>2. CASE b \notin Live
  <2>1. Cached.rev[b] \in Int /\ doc[b] \in Docs
    BY CachedTyped DEF File, NoBoard, StoreTyped
  <2> QED BY <1>2, <2>1 DEF Snapshot
<1> QED BY <1>1, <1>2

LEMMA TypedDocGet == ASSUME Typed, NEW h \in Handlers, NEW b \in Boards, DocGet(h, b) PROVE Typed'
<1> USE DEF Typed
<1>1. RoomsTyped' /\ AdminTyped' /\ HistoryTyped' /\ Live' = Live
  BY DEF DocGet, RoomsTyped, AdminTyped, HistoryTyped, Live, live, history
<1>2. /\ StoreTyped' /\ Len(ps) \in Nat /\ Len(ps') \in Nat /\ Len(ps) <= Len(ps')
  <2>1. CASE b \in Live
    BY <2>1 DEF DocGet, StoreTyped
  <2>2. CASE b \notin Live
    BY <2>2, ProjectTyped DEF DocGet, StoreTyped
  <2> QED BY <2>1, <2>2
<1>3. CallsTyped'
  BY <1>2, AtStays, SnapshotTyped DEF DocGet, CallsTyped
<1>4. HolderTyped'
  BY <1>1, <1>2, AtStays DEF DocGet, HolderTyped, live
<1> QED BY <1>1, <1>2, <1>3, <1>4

\* A request begins: it looks the project up, and keeps what it found.
LEMMA BeginTyped ==
    ASSUME Typed, NEW h \in Handlers, NEW request \in Calls, Begin(h, request),
           request.at = cur', UNCHANGED <<meta, doc, view, rs>>
    PROVE  /\ StoreTyped' /\ CallsTyped'
           /\ rs # Idle => rs'.at \in 1..Len(ps')
<1> USE DEF Typed
<1>1. StoreTyped'
  BY ProjectTyped DEF Begin, StoreTyped
<1>2. call' = [call EXCEPT ![h] = request] /\ request.at \in 1..Len(ps')
  BY ProjectTyped DEF Begin
<1>3. /\ rs # Idle => rs.at \in 1..Len(ps')
      /\ \A x \in Handlers : call[x].op \notin {"idle", "purge"} => call[x].at \in 1..Len(ps')
  BY ProjectTyped, AtStays DEF Begin
<1>4. CallsTyped'
  BY <1>2, <1>3 DEF CallsTyped
<1> QED BY <1>1, <1>3, <1>4

LEMMA TypedBegin ==
    ASSUME Typed, NEW h \in Handlers,
           \/ DocPut(h, "put") \/ DocPut(h, "force") \/ Create(h)
           \/ \E b \in Boards : Update(h, b) \/ Delete(h, b)
    PROVE  Typed'
<1> USE DEF Typed
<1>1. CASE DocPut(h, "put") \/ DocPut(h, "force")
  <2>1. PICK op \in {"put", "force"} : DocPut(h, op)
    BY <1>1
  <2>2. cur' \in Nat /\ edits + 1 \in 0..MaxEdits
    BY <2>1, ProjectTyped, StoreConfig DEF DocPut, Begin, HistoryTyped
  <2>3. view[h] \in [board : Boards, doc : Docs, rev : Int]
    BY DEF CallsTyped
  <2>4. PICK body \in {Body(view[h].doc) \cup {edits + 1}, Garbled} :
           Begin(h, [op |-> op, board |-> view[h].board, base |-> view[h].rev,
                     doc |-> body, at |-> cur'])
    BY <2>1 DEF DocPut
  <2>10. Body(view[h].doc) \cup {edits + 1} \in Docs
    BY <2>2, <2>3 DEF Body, Docs, Excess
  <2> DEFINE c == [op |-> op, board |-> view[h].board, base |-> view[h].rev,
                   doc |-> body, at |-> cur']
  <2>5. c \in Saves
    BY <2>2, <2>3, <2>4, <2>10, DocsHaveNone DEF Saves
  <2>6. Begin(h, c) /\ c \in Calls /\ c.at = cur'
    BY <2>4, <2>5 DEF Calls
  <2> HIDE DEF c
  <2>7. /\ UNCHANGED <<meta, doc, view, rs, rooms, streams, admin, snap, gone, patched, wiped>>
        /\ edits' = edits + 1
    BY <2>1 DEF DocPut, live
  <2>8. HistoryTyped'
    BY <2>2, <2>7 DEF HistoryTyped
  <2>9. RoomsTyped' /\ AdminTyped' /\ Live' = Live
    BY <2>7 DEF RoomsTyped, AdminTyped, Live
  <2> QED BY <2>6, <2>7, <2>8, <2>9, BeginTyped DEF HolderTyped
<1>2. CASE Create(h)
  <2> DEFINE c == [op |-> "create", at |-> cur']
  <2>1. c \in Calls
    BY <1>2, ProjectTyped DEF Create, Begin, Calls
  <2>2. StoreTyped' /\ CallsTyped' /\ (rs # Idle => rs'.at \in 1..Len(ps'))
    BY <1>2, <2>1, BeginTyped DEF Create, live
  <2> QED BY <1>2, <2>2 DEF Create, RoomsTyped, AdminTyped, HistoryTyped, HolderTyped,
                            Live, live, history
<1>3. CASE \E b \in Boards : Update(h, b)
  <2>1. PICK b \in Boards : Update(h, b)
    BY <1>3
  <2> DEFINE c == [op |-> "rename", board |-> b, at |-> cur']
  <2>2. c \in Calls
    BY <2>1, ProjectTyped DEF Update, Begin, Calls
  <2>3. StoreTyped' /\ CallsTyped' /\ (rs # Idle => rs'.at \in 1..Len(ps'))
    BY <2>1, <2>2, BeginTyped DEF Update, live
  <2> QED BY <2>1, <2>3 DEF Update, RoomsTyped, AdminTyped, HistoryTyped, HolderTyped,
                            Live, live, history
<1>4. CASE \E b \in Boards : Delete(h, b)
  <2>1. PICK b \in Boards : Delete(h, b)
    BY <1>4
  <2> DEFINE c == [op |-> "delete", board |-> b, at |-> cur']
  <2>2. c \in Calls
    BY <2>1, ProjectTyped DEF Delete, Begin, Calls
  <2>3. StoreTyped' /\ CallsTyped'
    BY <2>1, <2>2, BeginTyped DEF Delete
  <2>4. HolderTyped' /\ AdminTyped'
    BY <2>1 DEF Delete, HolderTyped, AdminTyped
  <2>5. RoomsTyped'
    <3>1. rooms' \in [Boards -> Room \cup {NoRoom}] /\ UNCHANGED streams
      BY <2>1 DEF Delete, RoomsTyped
    <3>2. \A x \in Live : rooms[x].subs \in Nat
      BY RoomIsLive DEF Room, Live
    <3> QED BY <2>1, <3>1, <3>2, RoomsReplaced DEF Delete, RoomsTyped, Live
  <2>6. HistoryTyped'
    <3>1. b \in Live => rooms[b].doc \in Docs
      BY RoomIsLive DEF Room
    <3>2. b \in Live => Body(rooms[b].doc) \subseteq Edits
      BY <3>1, BodyTyped
    <3>3. gone' \subseteq Edits
      BY <2>1, <3>2 DEF Delete, HistoryTyped
    <3> QED BY <2>1, <3>3 DEF Delete, HistoryTyped
  <2> QED BY <2>3, <2>4, <2>5, <2>6
<1> QED BY <1>1, <1>2, <1>3, <1>4

LEMMA TypedSaveSnapshot == ASSUME Typed, NEW h \in Handlers, SaveSnapshot(h) PROVE Typed'
<1> USE DEF Typed
<1> DEFINE c == call[h]
           b == c.board
           rev == ps[c.at].rev[b] + 1
<1>1. c \in Saves /\ c.at \in 1..Len(ps) /\ b \in Boards /\ c.doc \in Docs
  BY DEF SaveSnapshot, CallsTyped, Calls, Saves, Idle
<1>2. RoomsTyped' /\ AdminTyped' /\ Live' = Live
  BY DEF SaveSnapshot, RoomsTyped, AdminTyped, Live, live
<1>3. CASE ~ (Known(ps[c.at], b) /\ (c.op = "force" \/ c.base = ps[c.at].rev[b]))
  <2>1. call' = [call EXCEPT ![h] = Idle] /\ UNCHANGED <<store, gone>>
    BY <1>3 DEF SaveSnapshot
  <2> QED BY <1>2, <2>1 DEF SaveSnapshot, StoreTyped, HolderTyped, CallsTyped, HistoryTyped,
                            Calls, Idle, store, live
<1>4. CASE Known(ps[c.at], b) /\ (c.op = "force" \/ c.base = ps[c.at].rev[b])
  <2> DEFINE left(out) == IF out # "saved" THEN Idle
                          ELSE [c EXCEPT !.op = "replace", !.base = ps'[c.at].rev[b]]
  <2>1. PICK out \in Outcomes :
              /\ WriteBoard(c.at, b, c.doc, rev, out)
              /\ call' = [call EXCEPT ![h] = left(out)]
              /\ gone' = IF out = "failed" THEN gone ELSE gone \cup (Body(doc[b]) \ c.doc)
    BY <1>4 DEF SaveSnapshot
  <2>2. rev \in Nat
    <3>1. ps[c.at] \in File
      BY <1>1 DEF StoreTyped
    <3> QED BY <1>1, <1>4, <3>1 DEF File, Known
  <2>3. StoreTyped' /\ Len(ps') = Len(ps)
    BY <1>1, <2>1, <2>2, WriteBoardTyped
  <2>4. ps'[c.at].rev[b] \in Int
    <3>1. ps'[c.at] \in File
      BY <1>1, <2>3 DEF StoreTyped
    <3> QED BY <1>1, <3>1 DEF File, NoBoard
  <2>5. left(out) \in Calls /\ (left(out).op \notin {"idle", "purge"} => left(out).at \in 1..Len(ps'))
    BY <1>1, <2>3, <2>4 DEF Calls, Saves, Idle
  <2> HIDE DEF left
  <2>6. CallsTyped'
    BY <2>1, <2>3, <2>5 DEF SaveSnapshot, CallsTyped
  <2>7. HolderTyped'
    BY <1>2, <2>3 DEF SaveSnapshot, HolderTyped, live
  <2>8. Body(doc[b]) \subseteq Edits
    BY <1>1, BodyTyped DEF StoreTyped
  <2>9. HistoryTyped'
    BY <2>1, <2>8 DEF SaveSnapshot, HistoryTyped
  <2> QED BY <1>2, <2>3, <2>6, <2>7, <2>9
<1> QED BY <1>3, <1>4

\* What Replace does: a room that can read the document takes it.
LEMMA ReplaceSteps ==
    ASSUME Typed, NEW h \in Handlers, Replace(h)
    PROVE  /\ call[h] \in Saves /\ call[h].op = "replace" /\ call[h].board \in Boards
           /\ call[h].doc \in Docs /\ call[h].base \in Int /\ call' = [call EXCEPT ![h] = Idle]
           /\ \/ rooms' = rooms /\ gone' = gone /\ call[h].board \notin Live
              \/ /\ call[h].board \in Live /\ rooms[call[h].board] \in Room
                 /\ \E r \in Room :
                      /\ rooms' = [rooms EXCEPT ![call[h].board] = r]
                      /\ r.subs = rooms[call[h].board].subs
                      /\ \/ /\ r.doc = call[h].doc /\ r.rev = rooms[call[h].board].rev + 1
                            /\ r.dirty = TRUE /\ r.behind = rooms[call[h].board].behind
                            /\ gone' = gone \cup (Body(rooms[call[h].board].doc) \ call[h].doc)
                         \/ /\ r.doc = rooms[call[h].board].doc /\ r.rev = rooms[call[h].board].rev
                            /\ r.dirty = rooms[call[h].board].dirty /\ r.behind = TRUE
                            /\ gone' = gone
<1> USE DEF Typed
<1> DEFINE c == call[h]
           b == c.board
<1>1. c \in Saves /\ c.op = "replace"
  <2>1. c.op = "replace"
    BY DEF Replace
  <2>2. c \in Calls
    BY DEF CallsTyped
  <2> HIDE DEF c
  <2> QED BY ONLY <2>1, <2>2 DEF Calls, Idle
<1>2. b \in Boards /\ c.doc \in Docs /\ c.base \in Int
  BY <1>1 DEF Saves
<1>3. b \in Live => rooms[b] \in Room
  BY <1>2, RoomIsLive
<1> DEFINE taken == b \in Live /\ c.doc # Garbled
           room == IF taken THEN Changed(rooms[b], c.doc) ELSE [rooms[b] EXCEPT !.behind = TRUE]
<1>4. call' = [call EXCEPT ![h] = Idle]
  BY DEF Replace
<1>5. rooms' = IF b \in Live THEN [rooms EXCEPT ![b] = room] ELSE rooms
  BY DEF Replace
<1>6. gone' = IF taken THEN gone \cup (Body(rooms[b].doc) \ c.doc) ELSE gone
  BY DEF Replace
<1>7. b \in Live =>
        /\ room \in Room /\ room.subs = rooms[b].subs
        /\ taken => /\ room.doc = c.doc /\ room.rev = rooms[b].rev + 1
                    /\ room.dirty = TRUE /\ room.behind = rooms[b].behind
        /\ ~ taken => /\ room.doc = rooms[b].doc /\ room.rev = rooms[b].rev
                      /\ room.dirty = rooms[b].dirty /\ room.behind = TRUE
  <2> HIDE DEF b, c
  <2>1. CASE taken
    BY <1>2, <1>3, <2>1, RoomChanged
  <2>2. CASE ~ taken
    BY <1>3, <2>2 DEF Room
  <2> QED BY <2>1, <2>2
<1>8. taken => b \in Live
  OBVIOUS
<1> HIDE DEF room, taken
<1> QED BY ONLY <1>1, <1>2, <1>3, <1>4, <1>5, <1>6, <1>7, <1>8

LEMMA TypedReplace == ASSUME Typed, NEW h \in Handlers, Replace(h) PROVE Typed'
<1> USE DEF Typed
<1> DEFINE c == call[h]
           b == c.board
<1>1. /\ b \in Boards /\ c.doc \in Docs /\ c.base \in Int /\ call' = [call EXCEPT ![h] = Idle]
      /\ b \in Live => rooms[b] \in Room
  BY ReplaceSteps, RoomIsLive
<1>2. \/ rooms' = rooms
      \/ b \in Live /\ \E r \in Room : rooms' = [rooms EXCEPT ![b] = r] /\ r.subs = rooms[b].subs
  BY ReplaceSteps
<1>3. rooms' \in [Boards -> Room \cup {NoRoom}]
  BY <1>1, <1>2 DEF RoomsTyped
<1>4. \A x \in Boards : rooms'[x] = rooms[x] \/ (x \in Live /\ rooms'[x].subs = rooms[x].subs)
  BY <1>1, <1>2 DEF RoomsTyped
<1>5. \A x \in Live : rooms[x].subs \in Nat
  BY RoomIsLive DEF Room, Live
<1>6. RoomsTyped'
  BY <1>3, <1>4, <1>5, RoomsReplaced DEF Replace, Live
<1> DEFINE taken == b \in Live /\ c.doc # Garbled
           room == IF taken THEN Changed(rooms[b], c.doc) ELSE [rooms[b] EXCEPT !.behind = TRUE]
<1>7. view' \in [Handlers -> [board : Boards, doc : Docs, rev : Int]]
  <2>1. ASSUME taken PROVE room.rev \in Int
    <3>1. room = Changed(rooms[b], c.doc)
      BY <2>1
    <3>2. rooms[b] \in Room /\ c.doc \in Docs
      BY <1>1, <2>1
    <3>3. Changed(rooms[b], c.doc).rev = rooms[b].rev + 1 /\ rooms[b].rev \in Nat
      BY <3>2, RoomChanged DEF Room
    <3> HIDE DEF room
    <3> QED BY <3>1, <3>3
  <2>2. view' = [view EXCEPT ![h] = [board |-> b, doc |-> c.doc,
                                     rev |-> IF taken THEN room.rev ELSE c.base]]
    BY DEF Replace
  <2>3. (IF taken THEN room.rev ELSE c.base) \in Int
    BY <1>1, <2>1
  <2> HIDE DEF b, c, room, taken
  <2> QED BY <1>1, <2>2, <2>3 DEF CallsTyped
<1>8. CallsTyped'
  BY <1>1, <1>7 DEF Replace, CallsTyped, Calls, Idle, store
<1>9. HistoryTyped'
  <2>1. gone' = gone \/ (b \in Live /\ gone' = gone \cup (Body(rooms[b].doc) \ c.doc))
    BY ReplaceSteps
  <2>2. b \in Live => Body(rooms[b].doc) \subseteq Edits
    BY <1>1, BodyTyped DEF Room
  <2>3. gone' \subseteq Edits
    BY <2>1, <2>2 DEF HistoryTyped
  <2> QED BY <2>3 DEF Replace, HistoryTyped
<1> QED BY <1>6, <1>8, <1>9 DEF Replace, StoreTyped, HolderTyped, AdminTyped, store

\* The metadata writes: create, rename and delete, each saved or rolled back.
LEMMA TypedWriteMeta ==
    ASSUME Typed, NEW h \in Handlers, Created(h) \/ Updated(h) \/ Deleted(h)
    PROVE  Typed'
<1> USE DEF Typed
<1> DEFINE c == call[h]
           k == c.at
           b == c.board
<1>1. k \in 1..Len(ps) /\ call' = [call EXCEPT ![h] = Idle] /\ UNCHANGED <<live, view, admin, snap>>
  BY DEF Created, Updated, Deleted, CallsTyped
<1>2. ps[k] \in File
  BY <1>1 DEF StoreTyped
<1>3. StoreTyped' /\ Len(ps') = Len(ps) /\ HistoryTyped'
  <2>1. CASE Created(h)
    <3> DEFINE id == ps[k].next
               file == [next |-> id + 1, rev |-> [ps[k].rev EXCEPT ![id] = 0]]
    <3>1. id \in Boards => file \in File
      BY <1>2 DEF File
    <3>2. doc' \in [Boards -> Docs] /\ HistoryTyped'
      BY <2>1 DEF Created, StoreTyped, HistoryTyped, history
    <3>3. CASE id \in Boards
      <4>1. PICK out \in {"saved", "failed"} : WriteMeta(k, file, out)
        BY <2>1, <3>3 DEF Created
      <4> HIDE DEF file
      <4> QED BY <1>1, <3>1, <3>2, <3>3, <4>1, WriteMetaTyped
    <3>4. CASE id \notin Boards
      BY <2>1, <3>2, <3>4 DEF Created, StoreTyped
    <3> QED BY <3>3, <3>4
  <2>2. CASE Updated(h)
    <3>1. doc' \in [Boards -> Docs] /\ HistoryTyped'
      BY <2>2 DEF Updated, StoreTyped, HistoryTyped, history
    <3>2. CASE Known(ps[k], b)
      BY <1>1, <1>2, <2>2, <3>1, <3>2, WriteMetaTyped DEF Updated
    <3>3. CASE ~ Known(ps[k], b)
      BY <2>2, <3>1, <3>3 DEF Updated, StoreTyped
    <3> QED BY <3>2, <3>3
  <2>3. CASE Deleted(h)
    <3>1. b \in Boards
      BY <2>3 DEF Deleted, CallsTyped, Calls, Idle, Saves
    <3> DEFINE file == [ps[k] EXCEPT !.rev[b] = NoBoard]
    <3>2. file \in File
      BY <1>1, <3>1, RevWritten
    <3> HIDE DEF file
    <3>3. CASE Known(ps[k], b)
      <4>1. PICK out \in {"saved", "failed"} :
                  /\ WriteMeta(k, file, out)
                  /\ doc' = IF out = "saved" THEN [doc EXCEPT ![b] = NoDoc] ELSE doc
                  /\ gone' = IF out = "saved" THEN gone \cup patched[b] ELSE gone
        BY <2>3, <3>3 DEF Deleted, file
      <4>2. doc' \in [Boards -> Docs]
        <5>1. NoDoc \in Docs
          BY DocsHaveNone
        <5> QED BY <4>1, <5>1 DEF StoreTyped
      <4>3. HistoryTyped'
        <5>1. patched[b] \subseteq Edits
          BY <3>1, StoreConfig DEF HistoryTyped, Edits
        <5> QED BY <2>3, <4>1, <5>1 DEF Deleted, HistoryTyped
      <4> QED BY <1>1, <3>2, <4>1, <4>2, <4>3, WriteMetaTyped
    <3>4. CASE ~ Known(ps[k], b)
      BY <2>3, <3>4 DEF Deleted, StoreTyped, HistoryTyped, store
    <3> QED BY <3>3, <3>4
  <2> QED BY <2>1, <2>2, <2>3
<1>4. RoomsTyped' /\ HolderTyped' /\ AdminTyped' /\ CallsTyped'
  BY <1>1, <1>3 DEF RoomsTyped, HolderTyped, AdminTyped, CallsTyped, Calls, Idle, Live, live
<1> QED BY <1>3, <1>4

\* Every room is dropped: DeleteProject, the end of a restore, a crash.
LEMMA RoomsDropped ==
    ASSUME RoomsTyped, rooms' = [b \in Boards |-> NoRoom], streams' \in [Boards -> Nat]
    PROVE  RoomsTyped' /\ Live' = {}
BY DEF RoomsTyped, Live

LEMMA DrawnTyped ==
    ASSUME HistoryTyped
    PROVE  Drawn \subseteq 1..edits /\ Drawn \subseteq Edits
BY StoreConfig DEF HistoryTyped, Drawn, Edits

LEMMA TypedPurge ==
    ASSUME Typed, NEW h \in Handlers, Purge(h) \/ Purged(h)
    PROVE  Typed'
<1> USE DEF Typed
<1>1. CASE Purge(h)
  <2>1. call' = [call EXCEPT ![h] = [op |-> "purge"]] /\ rs = Idle /\ rs' = Idle
    BY <1>1 DEF Purge
  <2>2. CallsTyped' /\ HolderTyped'
    BY <1>1, <2>1 DEF Purge, CallsTyped, HolderTyped, Calls, store
  <2>3. RoomsTyped'
    BY <1>1, RoomsDropped DEF Purge, RoomsTyped
  <2>4. HistoryTyped'
    BY <1>1, DrawnTyped DEF Purge, HistoryTyped
  <2> QED BY <1>1, <2>2, <2>3, <2>4 DEF Purge, StoreTyped, AdminTyped, store
<1>2. CASE Purged(h)
  <2>1. StoreTyped'
    <3>1. Fresh \in File
      BY DEF Fresh, File
    <3>2. NoDoc \in Docs
      BY DocsHaveNone
    <3> QED BY <1>2, <3>1, <3>2 DEF Purged, StoreTyped
  <2>2. call' = [call EXCEPT ![h] = Idle] /\ UNCHANGED <<rs, view, ps, rooms, streams, admin, snap>>
    BY <1>2 DEF Purged, live
  <2>3. HistoryTyped'
    BY <1>2, DrawnTyped DEF Purged, HistoryTyped
  <2>4. CallsTyped' /\ HolderTyped' /\ RoomsTyped' /\ AdminTyped'
    BY <2>2 DEF CallsTyped, Calls, Idle, HolderTyped, RoomsTyped, AdminTyped, Live
  <2> QED BY <2>1, <2>3, <2>4
<1> QED BY <1>1, <1>2

\* FlushAll writes some of the dirty rooms to their files and marks them clean.
LEMMA FlushAllTyped ==
    ASSUME Typed, NEW written \in SUBSET Live, FlushAll(written)
    PROVE  /\ StoreTyped' /\ Len(ps) \in Nat /\ Len(ps') \in Nat /\ Len(ps) <= Len(ps')
           /\ rooms' \in [Boards -> Room \cup {NoRoom}]
           /\ \A b \in Boards : /\ b \notin written => rooms'[b] = rooms[b]
                                /\ b \in written => rooms'[b] = Cleaned(rooms[b])
<1> USE DEF Typed
<1> DEFINE k == IF cur # 0 THEN cur ELSE Len(ps) + 1
           file == [Cached EXCEPT !.rev =
                       [b \in Boards |-> IF b \in written THEN rooms[b].rev ELSE @[b]]]
           revs == [b \in Boards |-> IF b \in written THEN rooms[b].rev ELSE Cached.rev[b]]
<1>1. \A b \in Live : rooms[b] \in Room
  BY RoomIsLive DEF Live
<1>2. revs \in [Boards -> Nat \cup {NoBoard}]
  BY <1>1, CachedTyped DEF Room, File
<1>3. file = [Cached EXCEPT !.rev = revs]
  OBVIOUS
<1>4. file \in File
  BY <1>2, <1>3, CachedTyped DEF File
<1>5. k \in Nat \ {0} /\ Len(ps) \in Nat /\ k >= Len(ps) /\ k <= Len(ps) + 1
  BY DEF StoreTyped
<1>6. /\ cur' = k /\ ps' = [j \in 1..k |-> IF j = k THEN file ELSE ps[j]]
      /\ meta' = IF written = {} THEN meta ELSE file
      /\ doc' = [b \in Boards |-> IF b \in written THEN rooms[b].doc ELSE doc[b]]
      /\ rooms' = [b \in Boards |-> IF b \in written THEN Cleaned(rooms[b])
                                    ELSE rooms[b]]
  BY DEF FlushAll
<1> HIDE DEF k, file, revs
<1>7. ps' \in Seq(File) /\ Len(ps') = k
  <2>1. ps \in Seq(File)
    BY DEF StoreTyped
  <2>2. ASSUME NEW j \in 1..k PROVE (IF j = k THEN file ELSE ps[j]) \in File
    <3>1. j # k => j \in 1..Len(ps)
      BY ONLY <1>5
    <3> QED BY <1>4, <2>1, <3>1
  <2> QED BY <1>5, <1>6, <2>2
<1>8. doc' \in [Boards -> Docs]
  BY <1>1, <1>6 DEF StoreTyped, Room
<1>9. StoreTyped'
  BY <1>4, <1>5, <1>6, <1>7, <1>8 DEF StoreTyped
<1>10. \A b \in written : Cleaned(rooms[b]) \in Room
  BY <1>1, RoomCleaned
<1>11. rooms' \in [Boards -> Room \cup {NoRoom}]
  BY <1>6, <1>10 DEF RoomsTyped
<1> QED BY <1>5, <1>6, <1>7, <1>9, <1>11

LEMMA FlushAllRooms ==
    ASSUME Typed, NEW written \in SUBSET Live, FlushAll(written), UNCHANGED streams
    PROVE  RoomsTyped' /\ Live' = Live
<1> USE DEF Typed
<1>1. \A b \in Live : rooms[b] \in Room
  BY RoomIsLive DEF Live
<1>2. \A b \in written : /\ Cleaned(rooms[b]).subs = rooms[b].subs
                         /\ Cleaned(rooms[b]).rev = rooms[b].rev
  BY <1>1, RoomCleaned
<1>3. Live' = Live
  <2>1. \A b \in written : rooms[b].rev \in Nat
    BY <1>1 DEF Room
  <2>2. \A b \in written : rooms'[b] # NoRoom
    <3>1. \A b \in written : rooms'[b].rev \in Nat
      BY <1>2, <2>1, FlushAllTyped DEF Live
    <3>2. NoRoom.rev \notin Nat
      BY DEF NoRoom, NoBoard
    <3> QED BY <3>1, <3>2
  <2> QED BY <2>2, FlushAllTyped DEF Live
<1>4. \A b \in Live' : rooms'[b].subs <= streams'[b]
  BY <1>2, <1>3, FlushAllTyped DEF RoomsTyped, Live
<1> QED BY <1>3, <1>4, FlushAllTyped DEF RoomsTyped

LEMMA TypedFlushAll ==
    ASSUME Typed, Backup \/ Restore
    PROVE  Typed'
<1> USE DEF Typed
<1>1. PICK written \in SUBSET Live : FlushAll(written) /\ UNCHANGED streams
  BY DEF Backup, Restore
<1>2. /\ UNCHANGED <<rs, call, view, snap, edits, patched, gone, wiped>> /\ rs = Idle
  BY <1>1 DEF Backup, Restore, history, FlushAll
<1>3. StoreTyped' /\ RoomsTyped' /\ HolderTyped'
  BY <1>1, <1>2, FlushAllTyped, FlushAllRooms DEF HolderTyped
<1>4. CallsTyped'
  BY <1>1, <1>2, FlushAllTyped, AtStays DEF CallsTyped
<1>5. AdminTyped' /\ admin'.seen = Drawn
  <2>1. CASE Backup
    <3> DEFINE u == {b \in Boards : b \in Live /\ rooms'[b].dirty}
    <3>1. admin' = [op |-> "backup", seen |-> Drawn, unsaved |-> u] /\ u \in SUBSET Boards
      BY <2>1 DEF Backup
    <3> HIDE DEF u
    <3> QED BY <3>1, <1>2, DrawnTyped DEF AdminTyped, Backups
  <2>2. CASE Restore
    BY <2>2, <1>2, DrawnTyped DEF Restore, AdminTyped, Restores
  <2> QED BY <2>1, <2>2
<1>6. HistoryTyped'
  BY <1>2, <1>5, DrawnTyped DEF HistoryTyped
<1> QED BY <1>3, <1>4, <1>5, <1>6

LEMMA TypedAdmin ==
    ASSUME Typed, BackedUp \/ RestoreFails \/ DropAll \/ Reset
                  \/ \E f \in {0} \cup Boards : RestoreFile(f)
    PROVE  Typed'
<1> USE DEF Typed
<1>1. CASE BackedUp
  <2>1. admin \in Backups /\ snap' = [meta |-> meta, doc |-> doc, of |-> admin] /\ admin' = Idle
    BY <1>1 DEF BackedUp, AdminTyped, Idle, Restores
  <2>2. AdminTyped' /\ HistoryTyped'
    BY <1>1, <2>1 DEF BackedUp, AdminTyped, HistoryTyped, StoreTyped, history, Idle, Backups
  <2> QED BY <1>1, <2>2 DEF BackedUp, StoreTyped, RoomsTyped, HolderTyped, CallsTyped, Live,
                            store, live
<1>2. CASE RestoreFails
  BY <1>2 DEF RestoreFails, StoreTyped, RoomsTyped, HolderTyped, CallsTyped, AdminTyped,
              HistoryTyped, Live, store, live, history, Idle
<1>3. CASE DropAll
  <2>1. admin \in Restores /\ admin' = [admin EXCEPT !.op = "reset"] /\ rs' = Idle /\ rs = Idle
    BY <1>3 DEF DropAll, AdminTyped, Idle, Backups
  <2>2. admin' \in Restores /\ admin'.seen = admin.seen
    BY <2>1 DEF Restores
  <2>3. HistoryTyped' /\ AdminTyped'
    BY <1>3, <2>1, <2>2, DrawnTyped DEF DropAll, HistoryTyped, AdminTyped, Idle, Restores
  <2>4. RoomsTyped'
    BY <1>3, RoomsDropped DEF DropAll, RoomsTyped
  <2> QED BY <1>3, <2>1, <2>3, <2>4 DEF DropAll, StoreTyped, HolderTyped, CallsTyped, store
<1>4. CASE Reset
  <2>1. admin \in Restores /\ admin' = Idle /\ cur' = 0
    BY <1>4 DEF Reset, AdminTyped, Idle, Backups
  <2>2. admin.seen \subseteq 1..edits
    BY <2>1 DEF HistoryTyped, Idle, Restores
  <2>3. HistoryTyped' /\ AdminTyped'
    BY <1>4, <2>1, <2>2 DEF Reset, HistoryTyped, AdminTyped
  <2> QED BY <1>4, <2>1, <2>3 DEF Reset, StoreTyped, RoomsTyped, HolderTyped, CallsTyped,
                                  Live, live
<1>5. CASE \E f \in {0} \cup Boards : RestoreFile(f)
  <2>1. PICK f \in {0} \cup Boards : RestoreFile(f)
    BY <1>5
  <2>2. /\ admin \in Restores /\ admin' = [admin EXCEPT !.left = @ \ {f}]
        /\ UNCHANGED <<ps, cur, live, call, view, snap, patched, wiped, edits>>
    BY <2>1 DEF RestoreFile, AdminTyped, Idle, Backups
  <2>3. admin' \in Restores /\ admin'.seen = admin.seen
    BY <2>2 DEF Restores
  <2>4. HistoryTyped' /\ AdminTyped'
    BY <2>1, <2>2, <2>3, DrawnTyped DEF RestoreFile, HistoryTyped, AdminTyped, Idle, Restores
  <2>5. StoreTyped'
    <3>1. f # 0 => snap.doc[f] \in Docs
      BY <2>1 DEF AdminTyped
    <3>2. snap.meta \in File /\ snap.doc \in [Boards -> Docs]
      BY DEF AdminTyped
    <3> QED BY <2>1, <2>2, <3>1, <3>2 DEF RestoreFile, StoreTyped
  <2> QED BY <2>2, <2>4, <2>5 DEF RoomsTyped, HolderTyped, CallsTyped, Live, live
<1> QED BY <1>1, <1>2, <1>3, <1>4, <1>5

LEMMA TypedCrash == ASSUME Typed, Crash PROVE Typed'
<1> USE DEF Typed
<1>1. StoreTyped'
  BY DEF Crash, StoreTyped
<1>2. RoomsTyped'
  BY RoomsDropped DEF Crash
<1>3. HolderTyped' /\ CallsTyped' /\ AdminTyped'
  BY DEF Crash, HolderTyped, CallsTyped, Calls, AdminTyped, Idle
<1>4. HistoryTyped'
  <2>1. \A b \in Live : Body(rooms[b].doc) \subseteq Edits
    BY RoomIsLive, BodyTyped DEF Room, Live
  <2>2. gone' \subseteq Edits
    BY <2>1 DEF Crash, HistoryTyped
  <2> QED BY <2>2 DEF Crash, HistoryTyped
<1> QED BY <1>1, <1>2, <1>3, <1>4

(***************************************************************************)
(* What the files, the state objects, the rooms and the calls under way    *)
(* can hold: a lookup under way has an object that was loaded, a flush a   *)
(* live room (Sweep and FlushAll hold rs.mu), and no room is released by   *)
(* more streams than opened it.                                            *)
(***************************************************************************)
THEOREM StoreIsTyped == Spec => []Typed
<1>1. Typed /\ [Next]_<<vars, ops>> => Typed'
  <2> SUFFICES ASSUME Typed, [Next]_<<vars, ops>> PROVE Typed'
    OBVIOUS
  <2>1. ASSUME NEW b \in Boards, NEW op \in {"open", "patch"}, Join(op, b) \/ Load(op, b)
        PROVE  Typed'
    <3>1. CASE Load(op, b)
      BY <3>1, TypedHold DEF Load
    <3> QED BY <2>1, <3>1, TypedJoin
  <2>2. ASSUME NEW b \in Boards, Release(b) \/ Flush(b) \/ Evict(b) PROVE Typed'
    <3>1. CASE Flush(b)
      BY <3>1, TypedHold DEF Flush
    <3> QED BY <2>2, <3>1, TypedRelease, TypedEvict
  <2>3. CASE Loaded \/ Flushed
    BY <2>3, TypedLoaded, TypedFlushed
  <2>4. ASSUME NEW h \in Handlers, NEW b \in Boards, DocGet(h, b) \/ Update(h, b) \/ Delete(h, b)
        PROVE  Typed'
    BY <2>4, TypedDocGet, TypedBegin
  <2>5. ASSUME NEW h \in Handlers, NEW op \in {"put", "force"}, DocPut(h, op) PROVE Typed'
    BY <2>5, TypedBegin
  <2>6. ASSUME NEW h \in Handlers, SaveSnapshot(h) \/ Replace(h) PROVE Typed'
    BY <2>6, TypedSaveSnapshot, TypedReplace
  <2>7. ASSUME NEW h \in Handlers, Create(h) \/ Created(h) \/ Updated(h) \/ Deleted(h) PROVE Typed'
    BY <2>7, TypedBegin, TypedWriteMeta
  <2>8. ASSUME NEW h \in Handlers, Purge(h) \/ Purged(h) PROVE Typed'
    BY <2>8, TypedPurge
  <2>9. CASE Backup \/ Restore
    BY <2>9, TypedFlushAll
  <2>10. CASE BackedUp \/ RestoreFails \/ DropAll \/ Reset \/ \E f \in {0} \cup Boards : RestoreFile(f)
    BY <2>10, TypedAdmin
  <2>11. CASE Crash
    BY <2>11, TypedCrash
  <2>12. CASE UNCHANGED <<vars, ops>>
    BY <2>12 DEF Typed, StoreTyped, RoomsTyped, HolderTyped, CallsTyped, AdminTyped,
                 HistoryTyped, Live, vars, store, live, history
  <2> QED BY <2>1, <2>2, <2>3, <2>4, <2>5, <2>6, <2>7, <2>8, <2>9, <2>10, <2>11, <2>12 DEF Next
<1> QED BY <1>1, TypedInit, PTL DEF Spec

-----------------------------------------------------------------------------
(* The cap on live rooms.                                                  *)

LEMMA LiveFinite == IsFiniteSet(Live) /\ Cardinality(Live) \in Nat
<1>1. IsFiniteSet(Boards) /\ Live \in SUBSET Boards
  BY StoreConfig, FS_Interval DEF Boards, Live
<1> QED BY <1>1, FS_Subset, FS_CardinalityType

\* Nothing but Open and Apply makes a board live, and they keep to the cap.
LEMMA LiveShrinks ==
    ASSUME Typed, [Next]_<<vars, ops>>, ~ Loaded
    PROVE  /\ Live' \subseteq Live
           /\ \/ rs' = rs \/ rs' = Idle \/ rs'.op = "flush"
              \/ Cardinality(Live) < MaxLiveRooms
<1> USE DEF Live, live, Typed, RoomsTyped
<1>1. ASSUME NEW b \in Boards, NEW op \in {"open", "patch"}, Join(op, b)
      PROVE  rs' = rs /\ Live' \subseteq Live
  BY <1>1 DEF Join, Serve
<1>2. ASSUME NEW b \in Boards, NEW op \in {"open", "patch"}, Load(op, b)
      PROVE  Cardinality(Live) < MaxLiveRooms /\ Live' \subseteq Live
  BY <1>2 DEF Load
<1>3. ASSUME NEW b \in Boards, Release(b) \/ Flush(b) \/ Evict(b)
      PROVE  (rs' = rs \/ rs'.op = "flush") /\ Live' \subseteq Live
  BY <1>3 DEF Release, Flush, Evict
<1>4. ASSUME Flushed
      PROVE  rs' = Idle /\ Live' \subseteq Live
  <2>1. rs.board \in Live /\ rs' = Idle
    BY <1>4 DEF Flushed, HolderTyped, Idle
  <2>2. rooms' = rooms \/ rooms' = [rooms EXCEPT ![rs.board] = rooms'[rs.board]]
    BY <1>4, <2>1 DEF Flushed, Clean
  <2> QED BY <2>1, <2>2
<1>5. ASSUME NEW h \in Handlers, NEW b \in Boards, DocGet(h, b) \/ Update(h, b) \/ Delete(h, b)
      PROVE  rs' = rs /\ Live' \subseteq Live
  BY <1>5 DEF DocGet, Update, Delete
<1>6. ASSUME NEW h \in Handlers, NEW op \in {"put", "force"}, DocPut(h, op)
      PROVE  rs' = rs /\ Live' \subseteq Live
  BY <1>6 DEF DocPut
<1>7. ASSUME NEW h \in Handlers, \/ SaveSnapshot(h) \/ Create(h) \/ Created(h)
                                 \/ Updated(h) \/ Deleted(h) \/ Purge(h) \/ Purged(h)
      PROVE  rs' = rs /\ Live' \subseteq Live
  BY <1>7 DEF SaveSnapshot, Create, Created, Updated, Deleted, Purge, Purged
<1>8. ASSUME NEW h \in Handlers, Replace(h)
      PROVE  rs' = rs /\ Live' \subseteq Live
  BY <1>8 DEF Replace
<1>9. ASSUME Backup \/ Restore
      PROVE  rs' = rs /\ Live' \subseteq Live
  BY <1>9, FlushAllRooms DEF Backup, Restore
<1>10. ASSUME BackedUp \/ RestoreFails \/ DropAll \/ Reset \/ \E f \in {0} \cup Boards : RestoreFile(f)
       PROVE  rs' = rs /\ Live' \subseteq Live
  BY <1>10 DEF BackedUp, RestoreFails, DropAll, Reset, RestoreFile
<1>11. ASSUME Crash
       PROVE  rs' = Idle /\ Live' \subseteq Live
  BY <1>11 DEF Crash
<1>12. ASSUME UNCHANGED <<vars, ops>>
       PROVE  rs' = rs /\ Live' \subseteq Live
  BY <1>12 DEF vars
<1> QED BY <1>1, <1>2, <1>3, <1>4, <1>5, <1>6, <1>7, <1>8, <1>9, <1>10, <1>11, <1>12 DEF Next

LEMMA CapStep ==
    ASSUME Typed, CapHolds, [Next]_<<vars, ops>>
    PROVE  CapHolds'
<1>1. CASE Loaded
  <2>1. rs.board \in Boards /\ rs.op \in {"open", "patch"} /\ rs' = Idle
    BY <1>1 DEF Loaded, Typed, HolderTyped, Holds, Idle
  <2>2. Live' \subseteq Live \cup {rs.board}
    BY <1>1, <2>1 DEF Loaded, Serve, Live, Typed, RoomsTyped
  <2>3. IsFiniteSet(Live \cup {rs.board}) /\ Cardinality(Live \cup {rs.board}) <= Cardinality(Live) + 1
    BY LiveFinite, FS_AddElement
  <2>4. Cardinality(Live') <= Cardinality(Live \cup {rs.board}) /\ Cardinality(Live') \in Nat
    BY <2>2, <2>3, FS_Subset, FS_CardinalityType
  <2>5. Cardinality(Live \cup {rs.board}) \in Nat
    BY <2>3, FS_CardinalityType
  <2> QED BY <2>1, <2>3, <2>4, <2>5, LiveFinite, StoreConfig DEF CapHolds, Idle
<1>2. CASE ~ Loaded
  <2>1. Cardinality(Live') <= Cardinality(Live) /\ Cardinality(Live') \in Nat
    BY <1>2, LiveShrinks, LiveFinite, FS_Subset, FS_CardinalityType
  <2> QED BY <1>2, <2>1, LiveShrinks, LiveFinite, StoreConfig DEF CapHolds, Idle
<1> QED BY <1>1, <1>2

(***************************************************************************)
(* roomLocked admits a board only while there is a place for it, and no    *)
(* room counts more subscribers than there are streams to release them.    *)
(***************************************************************************)
THEOREM CapOnRooms == Spec => []TypeOK
<1>1. Init => CapHolds
  <2> SUFFICES ASSUME Init PROVE CapHolds
    OBVIOUS
  <2>1. Live = {} /\ rs = Idle
    BY DEF Init, Live
  <2> QED BY <2>1, FS_EmptySet, StoreConfig DEF CapHolds, Idle
<1>2. Typed /\ CapHolds => TypeOK
  <2> SUFFICES ASSUME Typed, CapHolds PROVE TypeOK
    OBVIOUS
  <2> USE DEF Typed
  <2>1. meta \in Files /\ ps \in Seq(Files) /\ cur \in {0, Len(ps)}
    <3>1. File \subseteq Files
      BY DEF File, Files, NoBoard
    <3>2. meta \in File /\ ps \in Seq(File) /\ cur \in {0, Len(ps)}
      BY DEF StoreTyped
    <3> QED BY <3>1, <3>2
  <2>2. \A b \in Live : rooms[b] \in Room /\ rooms[b].subs <= streams[b] /\ streams[b] \in Nat
    BY RoomIsLive DEF Live, RoomsTyped
  <2>3. \A b \in Live : /\ rooms[b].doc \subseteq Excess..MaxEdits /\ rooms[b].rev \in Nat
                        /\ rooms[b].dirty \in BOOLEAN /\ rooms[b].behind \in BOOLEAN
                        /\ rooms[b].subs \in 0..streams[b]
    BY <2>2 DEF Room, Docs
  <2>4. doc \in [Boards -> SUBSET (Excess..MaxEdits)]
    BY DEF StoreTyped, Docs
  <2>5. gone \subseteq Edits /\ wiped \subseteq Edits
    BY StoreConfig DEF HistoryTyped, Edits
  <2> QED BY <2>1, <2>3, <2>4, <2>5 DEF CapHolds, TypeOK
<1>3. Typed /\ CapHolds /\ [Next]_<<vars, ops>> => CapHolds'
  BY CapStep
<1> QED BY <1>1, <1>2, <1>3, StoreIsTyped, PTL DEF Spec

-----------------------------------------------------------------------------
(* The acknowledged strokes.                                               *)

LEMMA StrokesAreEdits ==
    ASSUME Typed
    PROVE  \A b \in Boards : patched[b] \subseteq Edits
BY StoreConfig DEF Typed, HistoryTyped, Edits

\* A step that leaves documents alone, and at most drops a clean room.
LEMMA StrokesQuiet ==
    ASSUME Typed, StrokesKept, UNCHANGED <<doc, patched>>, gone \subseteq gone',
           \A b \in Boards : \/ rooms'[b] = NoRoom /\ ~ Dirty(b)
                             \/ /\ b \in Live <=> b \in Live'
                                /\ rooms'[b].doc = rooms[b].doc
                                /\ rooms'[b].dirty = rooms[b].dirty
    PROVE  StrokesKept'
BY DEF StrokesKept, Dirty, Live

\* A step that takes everything.
LEMMA StrokesTaken ==
    ASSUME Drawn \subseteq gone', UNCHANGED patched
    PROVE  StrokesKept'
BY DEF StrokesKept, Drawn, Dirty

\* An edit joins the room and what its author was told.
LEMMA StrokesServed ==
    ASSUME Typed, StrokesKept, NEW op \in {"open", "patch"}, NEW b \in Boards,
           NEW room \in Room, Serve(op, b, room), UNCHANGED doc, room.subs <= streams[b],
           patched[b] \ gone \subseteq room.doc, room.dirty <=> Dirty(b),
           UNCHANGED <<admin, snap>>
    PROVE  StrokesKept'
<1>1. Live' = Live \cup {b} /\ gone' = gone
  BY ServeTyped DEF Serve, history
<1>2. rooms \in [Boards -> Room \cup {NoRoom}] /\ patched \in [Boards -> SUBSET (1..edits)]
  BY DEF Typed, RoomsTyped, HistoryTyped
<1>3. CASE op = "open"
  <2>1. rooms' = [rooms EXCEPT ![b] = [room EXCEPT !.subs = @ + 1]] /\ UNCHANGED patched
    BY <1>3 DEF Serve, history
  <2>2. rooms'[b].doc = room.doc /\ rooms'[b].dirty = room.dirty
    BY <1>2, <2>1 DEF Room
  <2>3. \A x \in Boards : x # b => rooms'[x] = rooms[x]
    BY <1>2, <2>1
  <2> QED BY <1>1, <2>1, <2>2, <2>3 DEF StrokesKept, Dirty
<1>4. CASE op = "patch"
  <2>1. PICK r \in Room :
          /\ rooms' = [rooms EXCEPT ![b] = r]
          /\ \/ /\ r.dirty = TRUE /\ patched' = [patched EXCEPT ![b] = @ \cup {edits + 1}]
                /\ room.doc \ {Excess} \subseteq r.doc /\ edits + 1 \in r.doc
             \/ /\ r.dirty = room.dirty /\ patched' = patched /\ room.doc \subseteq r.doc
    BY <1>4, ServePatches DEF Typed
  <2>2. rooms'[b] = r /\ \A x \in Boards : x # b => rooms'[x] = rooms[x] /\ patched'[x] = patched[x]
    BY <1>2, <2>1
  <2>3. Excess \notin patched[b]
    <3>1. Excess \notin 1..edits
      BY DEF Excess
    <3> QED BY <1>2, <3>1
  <2>4. /\ patched'[b] \ gone \subseteq r.doc
        /\ ~ r.dirty => patched'[b] = patched[b] /\ ~ Dirty(b)
    <3>1. CASE patched' = patched /\ r.dirty = room.dirty /\ room.doc \subseteq r.doc
      BY <3>1
    <3>2. CASE /\ r.dirty = TRUE /\ patched' = [patched EXCEPT ![b] = @ \cup {edits + 1}]
               /\ room.doc \ {Excess} \subseteq r.doc /\ edits + 1 \in r.doc
      <4>1. patched'[b] = patched[b] \cup {edits + 1}
        BY <1>2, <3>2
      <4> QED BY <2>3, <3>2, <4>1
    <3> QED BY <2>1, <3>1, <3>2
  <2> HIDE DEF Live, Dirty
  <2>5. \A x \in Boards : x # b => (x \in Live' <=> x \in Live)
    BY <1>1
  <2> QED BY <1>1, <2>2, <2>4, <2>5 DEF StrokesKept, Dirty
<1> QED BY <1>3, <1>4

LEMMA StrokesRooms ==
    ASSUME Typed, StrokesKept, NEW b \in Boards, NEW op \in {"open", "patch"},
           Join(op, b) \/ Load(op, b) \/ Release(b) \/ Flush(b) \/ Evict(b) \/ Loaded
    PROVE  StrokesKept'
<1> USE DEF Typed
<1>1. CASE Join(op, b)
  <2>1. rooms[b] \in Room /\ rooms[b].subs <= streams[b] /\ b \in Live
    BY <1>1, RoomIsLive DEF Join, RoomsTyped
  <2>2. patched[b] \ gone \subseteq rooms[b].doc /\ (rooms[b].dirty <=> Dirty(b))
    BY <2>1 DEF StrokesKept, Dirty
  <2> QED BY <1>1, <2>1, <2>2, StrokesServed DEF Join, store
<1>2. CASE Load(op, b) \/ Flush(b)
  BY <1>2, StrokesQuiet DEF Load, Flush, Live, history
<1>3. CASE Evict(b)
  BY <1>3, StrokesQuiet DEF Evict, Live, Dirty, RoomsTyped, store, history
<1>4. CASE Release(b)
  <2>1. /\ UNCHANGED <<doc, patched, gone>>
        /\ rooms' = rooms \/ (b \in Live /\ rooms' = [rooms EXCEPT ![b] = [rooms[b] EXCEPT !.subs = @ - 1]])
    BY <1>4 DEF Release, store, history
  <2>2. b \in Live => rooms[b] \in Room
    BY RoomIsLive
  <2>3. CASE b \in Live /\ rooms' = [rooms EXCEPT ![b] = [rooms[b] EXCEPT !.subs = @ - 1]]
    <3>1. /\ rooms'[b].doc = rooms[b].doc /\ rooms'[b].dirty = rooms[b].dirty
          /\ rooms'[b].rev = rooms[b].rev /\ rooms[b].rev \in Nat
      BY <2>2, <2>3 DEF Room, RoomsTyped
    <3>2. \A x \in Boards : x # b => rooms'[x] = rooms[x]
      BY <2>3 DEF RoomsTyped
    <3>3. b \in Live' /\ b \in Live
      BY <2>3, <3>1 DEF Live, NoRoom, NoBoard
    <3> QED BY <2>1, <3>1, <3>2, <3>3, StrokesQuiet DEF Live
  <2> QED BY <2>1, <2>3, StrokesQuiet DEF Live
<1>5. CASE Loaded
  <2>1. rs \in Holds /\ rs.op \in {"open", "patch"} /\ rs.board \notin Live /\ rs.board \in Boards
        /\ rs.at \in 1..Len(ps)
    BY <1>5 DEF Loaded, HolderTyped, Idle, Holds
  <2> DEFINE read == Known(ps[rs.at], rs.board) /\ doc[rs.board] # Garbled
  <2>2. CASE ~ read
    BY <1>5, <2>2, StrokesQuiet DEF Loaded, Live, store, history
  <2>3. CASE read
    <3> DEFINE room == [doc |-> doc[rs.board], rev |-> ps[rs.at].rev[rs.board],
                        dirty |-> FALSE, behind |-> FALSE, subs |-> 0]
    <3>1. ps[rs.at] \in File
      BY <2>1 DEF StoreTyped
    <3>2. room \in Room
      BY <2>1, <2>3, <3>1 DEF Room, File, Known, StoreTyped
    <3>3. Serve(rs.op, rs.board, room) /\ UNCHANGED <<doc, admin, snap>>
      BY <1>5, <2>3 DEF Loaded, store
    <3>4. room.subs <= streams[rs.board]
      BY <2>1 DEF RoomsTyped
    <3>5. patched[rs.board] \ gone \subseteq room.doc /\ (room.dirty <=> Dirty(rs.board))
      BY <2>1 DEF StrokesKept, Dirty
    <3> HIDE DEF room
    <3> QED BY <2>1, <3>2, <3>3, <3>4, <3>5, StrokesServed
  <2> QED BY <2>2, <2>3
<1> QED BY <1>1, <1>2, <1>3, <1>4, <1>5

\* A step that writes documents from the rooms, marks some of these clean,
\* and leaves the strokes alone.
LEMMA StrokesWritten ==
    ASSUME Typed, StrokesKept, UNCHANGED <<patched, gone>>, Live' = Live,
           \A b \in Boards : \/ doc'[b] = doc[b] /\ rooms'[b] = rooms[b]
                             \/ /\ b \in Live /\ doc'[b] = rooms[b].doc
                                /\ rooms'[b].doc = rooms[b].doc
    PROVE  StrokesKept'
BY DEF StrokesKept, Dirty

LEMMA StrokesFlushed == ASSUME Typed, StrokesKept, Flushed PROVE StrokesKept'
<1> USE DEF Typed
<1> DEFINE b == rs.board
<1>1. rs.at \in 1..Len(ps) /\ b \in Live /\ b \in Boards /\ UNCHANGED <<patched, gone>>
  BY DEF Flushed, HolderTyped, Idle, Live
<1>2. rooms[b] \in Room
  BY <1>1, RoomIsLive
<1>3. CASE ~ Known(ps[rs.at], b)
  BY <1>1, <1>3, StrokesQuiet DEF Flushed, Live, store
<1>4. CASE Known(ps[rs.at], b)
  <2>1. PICK out \in Outcomes : /\ WriteBoard(rs.at, b, rooms[b].doc, rooms[b].rev, out)
                                /\ rooms' = Clean(b, out)
    BY <1>4 DEF Flushed
  <2>2. CASE out = "failed"
    <3>1. rooms' = rooms /\ doc' = doc
      BY <2>1, <2>2 DEF Clean, WriteBoard
    <3> QED BY <1>1, <3>1, StrokesQuiet DEF Live
  <2>3. CASE out # "failed"
    <3>1. doc' = [doc EXCEPT ![b] = rooms[b].doc]
      BY <2>1, <2>3 DEF WriteBoard
    <3>2. rooms' = rooms \/ rooms' = [rooms EXCEPT ![b] = Cleaned(rooms[b])]
      BY <2>1 DEF Clean
    <3>3. rooms'[b].doc = rooms[b].doc /\ rooms'[b].rev = rooms[b].rev /\ rooms[b].rev \in Nat
      <4>1. rooms'[b] = rooms[b] \/ rooms'[b] = Cleaned(rooms[b])
        BY <1>1, <3>2 DEF RoomsTyped
      <4>2. rooms[b].rev \in Nat
        BY <1>2 DEF Room
      <4> QED BY <1>2, <4>1, <4>2, RoomCleaned
    <3>4. \A x \in Boards : x # b => rooms'[x] = rooms[x] /\ doc'[x] = doc[x]
      BY <3>1, <3>2 DEF RoomsTyped, StoreTyped
    <3>5. doc'[b] = rooms[b].doc
      BY <1>1, <3>1 DEF StoreTyped
    <3>6. Live' = Live
      BY <1>1, <3>3, <3>4 DEF Live, NoRoom, NoBoard
    <3> QED BY <1>1, <3>3, <3>4, <3>5, <3>6, StrokesWritten
  <2> QED BY <2>2, <2>3
<1> QED BY <1>3, <1>4

LEMMA StrokesFlushAll == ASSUME Typed, StrokesKept, Backup \/ Restore PROVE StrokesKept'
<1>1. PICK written \in SUBSET Live : FlushAll(written) /\ UNCHANGED <<streams, patched, gone>>
  BY DEF Backup, Restore, history
<1>2. Live' = Live
  BY <1>1, FlushAllRooms
<1>3. \A b \in Boards : doc'[b] = IF b \in written THEN rooms[b].doc ELSE doc[b]
  BY <1>1 DEF FlushAll
<1>4. \A b \in written : Cleaned(rooms[b]).doc = rooms[b].doc
  BY RoomIsLive, RoomCleaned DEF Typed, Live
<1> QED BY <1>1, <1>2, <1>3, <1>4, FlushAllTyped, StrokesWritten DEF Live

LEMMA StrokesSaved == ASSUME Typed, StrokesKept, NEW h \in Handlers, SaveSnapshot(h) PROVE StrokesKept'
<1> USE DEF Typed
<1> DEFINE c == call[h]
           b == c.board
<1>1. c \in Saves /\ b \in Boards /\ UNCHANGED <<rooms, patched>>
  <2>1. c \in Calls /\ c.op \in {"put", "force"} /\ UNCHANGED <<live, patched>>
    BY DEF SaveSnapshot, CallsTyped
  <2> QED BY <2>1 DEF Calls, Saves, Idle, live
<1>2. \/ UNCHANGED <<doc, gone>>
      \/ /\ doc' = [doc EXCEPT ![b] = c.doc]
         /\ gone' = gone \cup (Body(doc[b]) \ c.doc)
  <2>1. CASE ~ (Known(ps[c.at], b) /\ (c.op = "force" \/ c.base = ps[c.at].rev[b]))
    BY <2>1 DEF SaveSnapshot, store
  <2>2. CASE Known(ps[c.at], b) /\ (c.op = "force" \/ c.base = ps[c.at].rev[b])
    BY <2>2 DEF SaveSnapshot, WriteBoard
  <2> QED BY <2>1, <2>2
<1>3. CASE UNCHANGED <<doc, gone>>
  BY <1>1, <1>3, StrokesQuiet DEF Live
<1>4. CASE /\ doc' = [doc EXCEPT ![b] = c.doc]
           /\ gone' = gone \cup (Body(doc[b]) \ c.doc)
  <2>1. doc'[b] = c.doc /\ \A x \in Boards : x # b => doc'[x] = doc[x]
    BY <1>1, <1>4 DEF StoreTyped
  <2>2. patched[b] \subseteq Edits
    BY <1>1, StrokesAreEdits
  <2> QED BY <1>1, <1>4, <2>1, <2>2 DEF StrokesKept, Dirty, Live, Body
<1> QED BY <1>2, <1>3, <1>4

LEMMA StrokesReplaced == ASSUME Typed, StrokesKept, NEW h \in Handlers, Replace(h) PROVE StrokesKept'
<1> USE DEF Typed
<1> DEFINE c == call[h]
           b == c.board
<1>1. b \in Boards /\ UNCHANGED <<doc, patched>>
  BY ReplaceSteps DEF Replace, store
<1>2. CASE rooms' = rooms /\ gone' = gone
  BY <1>1, <1>2, StrokesQuiet DEF Live
<1>3. CASE /\ b \in Live /\ rooms[b] \in Room
           /\ \E r \in Room :
                /\ rooms' = [rooms EXCEPT ![b] = r]
                /\ \/ /\ r.doc = c.doc /\ r.dirty = TRUE
                      /\ gone' = gone \cup (Body(rooms[b].doc) \ c.doc)
                   \/ r.doc = rooms[b].doc /\ r.dirty = rooms[b].dirty /\ gone' = gone
  <2>1. PICK r \in Room :
                /\ rooms' = [rooms EXCEPT ![b] = r]
                /\ \/ /\ r.doc = c.doc /\ r.dirty = TRUE
                      /\ gone' = gone \cup (Body(rooms[b].doc) \ c.doc)
                   \/ r.doc = rooms[b].doc /\ r.dirty = rooms[b].dirty /\ gone' = gone
    BY <1>3
  <2> HIDE DEF b, c
  <2>2. rooms'[b] = r /\ \A x \in Boards : x # b => rooms'[x] = rooms[x]
    BY <1>1, <2>1 DEF RoomsTyped
  <2>3. r # NoRoom /\ rooms[b] # NoRoom
    BY <1>3 DEF Room, NoRoom, NoBoard
  <2>4. Live' = Live
    BY <1>1, <2>2, <2>3 DEF Live
  <2>5. CASE r.doc = rooms[b].doc /\ r.dirty = rooms[b].dirty /\ gone' = gone
    BY <1>1, <2>2, <2>4, <2>5 DEF StrokesKept, Dirty
  <2>6. CASE r.doc = c.doc /\ r.dirty = TRUE /\ gone' = gone \cup (Body(rooms[b].doc) \ c.doc)
    <3>1. patched[b] \ gone' \subseteq r.doc
      BY <1>1, <1>3, <2>6, StrokesAreEdits DEF StrokesKept, Body
    <3> QED BY <1>1, <2>2, <2>4, <2>6, <3>1 DEF StrokesKept, Dirty
  <2> QED BY <2>1, <2>5, <2>6
<1> QED BY <1>2, <1>3, ReplaceSteps

\* A board is deleted, or its room dropped: what was only there is gone.
LEMMA StrokesDropped ==
    ASSUME Typed, StrokesKept, UNCHANGED <<doc, patched>>, gone \subseteq gone',
           \A b \in Boards : \/ rooms'[b] = rooms[b]
                             \/ rooms'[b] = NoRoom /\ (b \in Live => Body(rooms[b].doc) \ doc[b] \subseteq gone')
    PROVE  StrokesKept'
<1>1. \A b \in Boards : patched[b] \subseteq Edits
  BY StrokesAreEdits
<1> QED BY <1>1 DEF StrokesKept, Dirty, Live, Body

LEMMA StrokesRequests ==
    ASSUME Typed, StrokesKept, NEW h \in Handlers,
           \/ DocPut(h, "put") \/ DocPut(h, "force") \/ Create(h) \/ Created(h)
           \/ Updated(h) \/ Deleted(h) \/ Purge(h) \/ Purged(h)
           \/ \E b \in Boards : DocGet(h, b) \/ Update(h, b) \/ Delete(h, b)
    PROVE  StrokesKept'
<1> USE DEF Typed
<1>1. CASE \/ DocPut(h, "put") \/ DocPut(h, "force") \/ Create(h) \/ Created(h) \/ Updated(h)
           \/ \E b \in Boards : DocGet(h, b) \/ Update(h, b)
  <2>1. UNCHANGED <<doc, patched, gone, rooms>>
    BY <1>1 DEF DocPut, Create, Created, Updated, DocGet, Update, live, history
  <2> QED BY <2>1, StrokesQuiet DEF Live
<1>2. CASE \E b \in Boards : Delete(h, b)
  BY <1>2, StrokesDropped DEF Delete, RoomsTyped
<1>3. CASE Deleted(h)
  <2> DEFINE b == call[h].board
  <2>1. b \in Boards /\ UNCHANGED <<rooms, patched>>
    BY <1>3 DEF Deleted, CallsTyped, Calls, Idle, Saves, live
  <2>2. \/ UNCHANGED <<doc, gone>>
        \/ doc' = [doc EXCEPT ![b] = NoDoc] /\ gone' = gone \cup patched[b]
    BY <1>3 DEF Deleted, store
  <2> QED BY <2>1, <2>2 DEF StrokesKept, Dirty, Live, StoreTyped
<1>4. CASE Purge(h) \/ Purged(h)
  BY <1>4, StrokesTaken DEF Purge, Purged
<1> QED BY <1>1, <1>2, <1>3, <1>4

LEMMA StrokesAdmin ==
    ASSUME Typed, StrokesKept, BackedUp \/ RestoreFails \/ DropAll \/ Reset \/ Crash
                               \/ \E f \in {0} \cup Boards : RestoreFile(f)
    PROVE  StrokesKept'
<1> USE DEF Typed
<1>1. CASE BackedUp \/ RestoreFails \/ Reset
  BY <1>1, StrokesQuiet DEF BackedUp, RestoreFails, Reset, Live, store, live, history
<1>2. CASE DropAll \/ \E f \in {0} \cup Boards : RestoreFile(f)
  BY <1>2, StrokesTaken DEF DropAll, RestoreFile
<1>3. CASE Crash
  <2>1. \A b \in Boards : b \in Live => Body(rooms[b].doc) \ doc[b] \subseteq gone'
    BY <1>3 DEF Crash
  <2> QED BY <1>3, <2>1, StrokesDropped DEF Crash
<1> QED BY <1>1, <1>2, <1>3

LEMMA StrokesStep ==
    ASSUME Typed, StrokesKept, [Next]_<<vars, ops>>
    PROVE  StrokesKept'
<1>1. CASE UNCHANGED <<vars, ops>>
  BY <1>1 DEF vars, store, live, history, StrokesKept, Dirty, Live
<1>2. CASE Loaded
  BY <1>2, StrokesRooms, StoreConfig DEF Boards
<1>3. ASSUME NEW b \in Boards, NEW op \in {"open", "patch"},
             Join(op, b) \/ Load(op, b) \/ Release(b) \/ Flush(b) \/ Evict(b)
      PROVE  StrokesKept'
  BY <1>3, StrokesRooms
<1>4. CASE Flushed \/ Backup \/ Restore
  BY <1>4, StrokesFlushed, StrokesFlushAll
<1>5. ASSUME NEW h \in Handlers, SaveSnapshot(h) \/ Replace(h)
      PROVE  StrokesKept'
  BY <1>5, StrokesSaved, StrokesReplaced
<1>6. ASSUME NEW h \in Handlers,
             \/ \E op \in {"put", "force"} : DocPut(h, op)
             \/ Create(h) \/ Created(h) \/ Updated(h) \/ Deleted(h) \/ Purge(h) \/ Purged(h)
             \/ \E b \in Boards : DocGet(h, b) \/ Update(h, b) \/ Delete(h, b)
      PROVE  StrokesKept'
  BY <1>6, StrokesRequests
<1>7. CASE BackedUp \/ RestoreFails \/ DropAll \/ Reset \/ Crash
           \/ \E f \in {0} \cup Boards : RestoreFile(f)
  BY <1>7, StrokesAdmin
<1> QED BY <1>1, <1>2, <1>3, <1>4, <1>5, <1>6, <1>7 DEF Next

(***************************************************************************)
(* No acknowledged stroke is lost by failed flushes, retries, evictions,   *)
(* reloads, the cap on rooms or saves that bypass the room: whatever the   *)
(* mix of requests, it is shown until something took it.                   *)
(***************************************************************************)
THEOREM NoStrokeLost == Spec => []NoPatchLost
<1>1. Init => StrokesKept
  BY DEF Init, StrokesKept
<1>2. StrokesKept => NoPatchLost
  BY DEF StrokesKept, NoPatchLost, Shown, Dirty
<1>3. Typed /\ StrokesKept /\ [Next]_<<vars, ops>> => StrokesKept'
  BY StrokesStep
<1> QED BY <1>1, <1>2, <1>3, StoreIsTyped, PTL DEF Spec

-----------------------------------------------------------------------------
(* Backups.                                                                *)

\* What every step does to the strokes a backup has seen: no older stroke is
\* added to a board, and a document is only replaced by one with the same
\* strokes or by the room's, what the new one misses being gone.
LEMMA DocsCarryOver ==
    ASSUME Typed, StrokesKept, [Next]_<<vars, ops>>
    PROVE  /\ gone \subseteq gone'
           /\ \A b \in Boards : patched'[b] \subseteq patched[b] \cup {edits + 1}
           /\ \A b \in Boards : (patched[b] \cap doc[b]) \ gone' \subseteq doc'[b]
<1> USE DEF Typed
<1>0. \A b \in Boards : patched[b] \subseteq 1..edits
  BY DEF HistoryTyped
<1> DEFINE Goal == /\ gone \subseteq gone'
                   /\ \A b \in Boards : patched'[b] \subseteq patched[b] \cup {edits + 1}
                   /\ \A b \in Boards : (patched[b] \cap doc[b]) \ gone' \subseteq doc'[b]
<1>1. ASSUME NEW b \in Boards, NEW op \in {"open", "patch"},
             Join(op, b) \/ Load(op, b) \/ Release(b) \/ Flush(b) \/ Evict(b)
      PROVE  Goal
  BY <1>1 DEF Join, Load, Release, Flush, Evict, Serve, store, history, HistoryTyped
<1>2. CASE Loaded
  BY <1>2 DEF Loaded, Serve, store, history, HistoryTyped
<1>3. CASE Flushed
  <2> DEFINE b == rs.board
  <2>1. b \in Live /\ b \in Boards /\ UNCHANGED <<patched, gone>>
    BY <1>3 DEF Flushed, HolderTyped, Idle, Live
  <2>2. doc' = doc \/ doc' = [doc EXCEPT ![b] = rooms[b].doc]
    BY <1>3 DEF Flushed, WriteBoard, store
  <2>3. patched[b] \ gone \subseteq rooms[b].doc
    BY <2>1 DEF StrokesKept
  <2> QED BY <2>1, <2>2, <2>3 DEF StoreTyped
<1>4. CASE Backup \/ Restore
  <2>1. PICK written \in SUBSET Live : FlushAll(written) /\ UNCHANGED <<patched, gone>>
    BY <1>4 DEF Backup, Restore, history
  <2>2. \A b \in Boards : doc'[b] = IF b \in written THEN rooms[b].doc ELSE doc[b]
    BY <2>1 DEF FlushAll
  <2> QED BY <2>1, <2>2 DEF StrokesKept
<1>5. ASSUME NEW h \in Handlers, SaveSnapshot(h)
      PROVE  Goal
  <2> DEFINE c == call[h]
             b == c.board
  <2>1. b \in Boards /\ UNCHANGED patched
    BY <1>5 DEF SaveSnapshot, CallsTyped, Calls, Saves, Idle
  <2>2. \/ UNCHANGED <<doc, gone>>
        \/ doc' = [doc EXCEPT ![b] = c.doc] /\ gone' = gone \cup (Body(doc[b]) \ c.doc)
    <3>1. CASE ~ (Known(ps[c.at], b) /\ (c.op = "force" \/ c.base = ps[c.at].rev[b]))
      BY <1>5, <3>1 DEF SaveSnapshot, store
    <3>2. CASE Known(ps[c.at], b) /\ (c.op = "force" \/ c.base = ps[c.at].rev[b])
      BY <1>5, <3>2 DEF SaveSnapshot, WriteBoard
    <3> QED BY <3>1, <3>2
  <2>3. patched[b] \subseteq Edits
    BY <2>1, StrokesAreEdits
  <2> QED BY <2>1, <2>2, <2>3 DEF StoreTyped, Body
<1>6. ASSUME NEW h \in Handlers, Replace(h)
      PROVE  Goal
  BY <1>6 DEF Replace, store
<1>7. ASSUME NEW h \in Handlers,
             \/ \E op \in {"put", "force"} : DocPut(h, op)
             \/ Create(h) \/ Created(h) \/ Updated(h)
             \/ \E b \in Boards : DocGet(h, b) \/ Update(h, b) \/ Delete(h, b)
      PROVE  Goal
  BY <1>7 DEF DocPut, Create, Created, Updated, DocGet, Update, Delete, history
<1>8. ASSUME NEW h \in Handlers, Deleted(h)
      PROVE  Goal
  <2> DEFINE b == call[h].board
  <2>1. b \in Boards /\ UNCHANGED patched
    BY <1>8 DEF Deleted, CallsTyped, Calls, Idle, Saves
  <2>2. \/ UNCHANGED <<doc, gone>>
        \/ doc' = [doc EXCEPT ![b] = NoDoc] /\ gone' = gone \cup patched[b]
    BY <1>8 DEF Deleted, store
  <2> QED BY <2>1, <2>2 DEF StoreTyped
<1>9. ASSUME NEW h \in Handlers, Purge(h) \/ Purged(h)
      PROVE  Goal
  BY <1>9 DEF Purge, Purged, Drawn
<1>10. CASE BackedUp \/ RestoreFails \/ Reset \/ Crash \/ UNCHANGED <<vars, ops>>
  BY <1>10 DEF BackedUp, RestoreFails, Reset, Crash, vars, store, history
<1>11. CASE DropAll \/ \E f \in {0} \cup Boards : RestoreFile(f)
  BY <1>11 DEF DropAll, RestoreFile, Drawn
<1> QED BY <1>1, <1>2, <1>3, <1>4, <1>5, <1>6, <1>7, <1>8, <1>9, <1>10, <1>11 DEF Next

\* Who touches the backup under way, and the last one.
LEMMA BackupSteps ==
    ASSUME Typed, [Next]_<<vars, ops>>
    PROVE  \/ UNCHANGED <<admin, snap>>
           \/ UNCHANGED snap /\ admin'.op # "backup"
           \/ Backup
           \/ BackedUp
<1>1. ASSUME NEW b \in Boards, NEW op \in {"open", "patch"},
             Join(op, b) \/ Load(op, b) \/ Release(b) \/ Flush(b) \/ Evict(b)
      PROVE  UNCHANGED <<admin, snap>>
  BY <1>1 DEF Join, Load, Release, Flush, Evict
<1>2. ASSUME NEW h \in Handlers, NEW op \in {"put", "force"}, DocPut(h, op)
      PROVE  UNCHANGED <<admin, snap>>
  BY <1>2 DEF DocPut
<1>3. ASSUME NEW h \in Handlers, NEW b \in Boards, DocGet(h, b) \/ Update(h, b) \/ Delete(h, b)
      PROVE  UNCHANGED <<admin, snap>>
  BY <1>3 DEF DocGet, Update, Delete
<1>4. ASSUME NEW h \in Handlers,
             \/ SaveSnapshot(h) \/ Replace(h) \/ Create(h) \/ Created(h) \/ Updated(h)
             \/ Deleted(h) \/ Purge(h) \/ Purged(h)
      PROVE  UNCHANGED <<admin, snap>>
  BY <1>4 DEF SaveSnapshot, Replace, Create, Created, Updated, Deleted, Purge, Purged
<1>5. CASE Loaded \/ Flushed \/ UNCHANGED <<vars, ops>>
  BY <1>5 DEF Loaded, Flushed, vars
<1>6. CASE Restore \/ RestoreFails \/ Reset \/ Crash
  BY <1>6 DEF Restore, RestoreFails, Reset, Crash, Idle
<1>7. CASE DropAll \/ \E f \in {0} \cup Boards : RestoreFile(f)
  <2>1. admin \in Restores /\ UNCHANGED snap
    BY <1>7 DEF DropAll, RestoreFile, Typed, AdminTyped, Idle, Backups
  <2> QED BY <1>7, <2>1 DEF DropAll, RestoreFile, Restores
<1> QED BY <1>1, <1>2, <1>3, <1>4, <1>5, <1>6, <1>7 DEF Next

LEMMA BackupStep ==
    ASSUME Typed, StrokesKept, BackupKept, [Next]_<<vars, ops>>
    PROVE  BackupKept'
<1>0. /\ admin # Idle => admin.seen \subseteq 1..edits
      /\ snap.of.seen \subseteq 1..edits /\ edits + 1 \notin 1..edits
  BY DEF Typed, HistoryTyped
<1>1. ASSUME UNCHANGED snap
      PROVE  \A b \in Boards \ snap.of.unsaved :
                 (patched'[b] \cap snap.of.seen) \ gone' \subseteq snap.doc[b]
  BY <1>0, <1>1, DocsCarryOver DEF BackupKept
<1>2. ASSUME admin.op = "backup"
      PROVE  \A b \in Boards \ admin.unsaved :
                 (patched'[b] \cap admin.seen) \ gone' \subseteq doc'[b]
  <2>1. admin # Idle
    BY <1>2 DEF Idle
  <2> QED BY <1>0, <1>2, <2>1, DocsCarryOver DEF BackupKept
<1>3. CASE UNCHANGED <<admin, snap>>
  BY <1>1, <1>2, <1>3 DEF BackupKept
<1>4. CASE UNCHANGED snap /\ admin'.op # "backup"
  BY <1>1, <1>4 DEF BackupKept
<1>5. CASE Backup
  <2>1. UNCHANGED <<snap, patched, gone>>
    BY <1>5 DEF Backup, history
  <2>2. StrokesKept' /\ Live' = Live
    <3>1. PICK written \in SUBSET Live : FlushAll(written) /\ UNCHANGED streams
      BY <1>5 DEF Backup
    <3> QED BY <1>5, <3>1, StrokesFlushAll, FlushAllRooms
  <2>3. \A b \in Boards \ admin'.unsaved : ~ (b \in Live /\ rooms'[b].dirty)
    BY <1>5 DEF Backup
  <2> QED BY <1>1, <2>1, <2>2, <2>3 DEF BackupKept, StrokesKept, Dirty
<1>6. CASE BackedUp
  <2>1. /\ snap' = [meta |-> meta, doc |-> doc, of |-> admin] /\ admin' = Idle
        /\ UNCHANGED <<patched, gone>> /\ admin.op = "backup"
    BY <1>6 DEF BackedUp, history
  <2> QED BY <2>1 DEF BackupKept, Idle
<1> QED BY <1>3, <1>4, <1>5, <1>6, BackupSteps

(***************************************************************************)
(* "So a backup captures what is on screen" (snapshot.go): every stroke    *)
(* acknowledged before the backup began is in it, unless its room could    *)
(* not be flushed or something took it.                                    *)
(***************************************************************************)
THEOREM BackupHasItAll == Spec => []BackupComplete
<1>1. Init => StrokesKept /\ BackupKept
  BY DEF Init, StrokesKept, BackupKept, Idle
<1>2. BackupKept => BackupComplete
  BY DEF BackupKept, BackupComplete
<1>3. Typed /\ StrokesKept /\ [Next]_<<vars, ops>> => StrokesKept'
  BY StrokesStep
<1>4. Typed /\ StrokesKept /\ BackupKept /\ [Next]_<<vars, ops>> => BackupKept'
  BY BackupStep
<1> QED BY <1>1, <1>2, <1>3, <1>4, StoreIsTyped, PTL DEF Spec

-----------------------------------------------------------------------------
(* The file and the room.                                                  *)

\* Without a DeleteProject and a restore there is one state object at a time,
\* it is what whiteboards.json says, and every lookup under way has it.
OneObject ==
    /\ cur # 0 => ps[cur] = meta
    /\ rs # Idle => rs.at = cur
    /\ \A h \in Handlers : call[h] # Idle => call[h].op # "purge" /\ call[h].at = cur
    /\ admin = Idle \/ admin.op = "backup"

\* Ids are not used twice.
NewIds == \A b \in Boards : b >= meta.next => ~ Known(meta, b) /\ b \notin Live

\* The saves of b between the file and the room: each has moved the file's
\* revision on, and will move the room's.
Saving(b) == {h \in Handlers : call[h].op = "replace" /\ call[h].board = b}

\* A room that could not read a document saved is behind the file until it is
\* saved over it.
Follows(b) ==
    /\ meta.rev[b] <= rooms[b].rev + Cardinality(Saving(b))
    /\ Saving(b) = {} /\ ~ rooms[b].dirty /\ b \notin torn /\ ~ TooLong(rooms[b].doc) =>
          meta.rev[b] = rooms[b].rev /\ doc[b] = rooms[b].doc
FileFollows == \A b \in Live : Known(meta, b) => rooms[b].behind \/ Follows(b)

Undisturbed == {"restore", "purge"} \cap ops = {}
Ahead == Undisturbed => OneObject /\ NewIds /\ FileFollows

LEMMA OpsFixed == ASSUME [Next]_<<vars, ops>> PROVE ops' = ops
<1>1. ASSUME NEW b \in Boards, NEW op \in {"open", "patch"}, Join(op, b) \/ Load(op, b)
      PROVE  ops' = ops
  BY <1>1 DEF Join, Load
<1>2. ASSUME NEW b \in Boards, Release(b) \/ Flush(b) \/ Evict(b)
      PROVE  ops' = ops
  BY <1>2 DEF Release, Flush, Evict
<1>3. ASSUME NEW h \in Handlers, NEW b \in Boards, DocGet(h, b) \/ Update(h, b) \/ Delete(h, b)
      PROVE  ops' = ops
  BY <1>3 DEF DocGet, Update, Delete, Serve
<1>4. ASSUME NEW h \in Handlers, NEW op \in {"put", "force"}, DocPut(h, op)
      PROVE  ops' = ops
  BY <1>4 DEF DocPut, Serve
<1>5. ASSUME NEW h \in Handlers, SaveSnapshot(h) \/ Replace(h)
      PROVE  ops' = ops
  BY <1>5 DEF SaveSnapshot, Replace
<1>6. ASSUME NEW h \in Handlers, Create(h) \/ Created(h) \/ Updated(h) \/ Deleted(h)
      PROVE  ops' = ops
  BY <1>6 DEF Create, Created, Updated, Deleted, Serve
<1>7. ASSUME NEW h \in Handlers, Purge(h) \/ Purged(h)
      PROVE  ops' = ops
  BY <1>7 DEF Purge, Purged
<1>8. ASSUME Loaded \/ Flushed \/ Backup \/ BackedUp
      PROVE  ops' = ops
  BY <1>8 DEF Loaded, Flushed, Backup, BackedUp
<1>9. ASSUME Restore \/ RestoreFails \/ DropAll \/ Reset \/ Crash
      PROVE  ops' = ops
  BY <1>9 DEF Restore, RestoreFails, DropAll, Reset, Crash
<1>10. ASSUME NEW f \in {0} \cup Boards, RestoreFile(f)
       PROVE  ops' = ops
  BY <1>10 DEF RestoreFile
<1>11. CASE UNCHANGED <<vars, ops>>
  BY <1>11
<1> QED BY <1>1, <1>2, <1>3, <1>4, <1>5, <1>6, <1>7, <1>8, <1>9, <1>10, <1>11 DEF Next

\* A lookup finds or loads the object the others have.
LEMMA ProjectAgrees ==
    ASSUME Typed, OneObject, Project
    PROVE  /\ cur' # 0 /\ ps'[cur'] = meta
           /\ rs # Idle => rs.at = cur'
           /\ \A h \in Handlers : call[h] # Idle => call[h].at = cur'
<1> USE DEF Typed
<1>1. cur' = Len(ps') /\ cur' # 0 /\ ps'[cur'] = Cached
  BY ProjectTyped
<1>2. Cached = meta
  BY DEF OneObject, Cached
<1>3. CASE cur # 0
  BY <1>1, <1>2, <1>3 DEF OneObject, Project
<1>4. CASE cur = 0
  <2>1. rs = Idle
    BY <1>4 DEF HolderTyped, OneObject
  <2>2. \A h \in Handlers : call[h] = Idle
    <3> SUFFICES ASSUME NEW h \in Handlers, call[h] # Idle PROVE FALSE
      OBVIOUS
    <3>1. call[h] \in Calls /\ call[h].op # "purge" /\ call[h].at = 0
      BY <1>4 DEF OneObject, CallsTyped
    <3>2. call[h].op # "idle"
      BY <3>1 DEF Calls, Saves
    <3> QED BY <3>1, <3>2 DEF CallsTyped
  <2> QED BY <1>1, <1>2, <2>1, <2>2
<1> QED BY <1>3, <1>4

LEMMA CachedIsMeta == ASSUME OneObject PROVE Cached = meta
BY DEF OneObject, Cached

\* A flush of every room writes the object it has.
LEMMA FlushAllAgrees ==
    ASSUME Typed, OneObject, NEW written \in SUBSET Live, FlushAll(written)
    PROVE  /\ cur' # 0 /\ ps'[cur'] = meta' /\ (cur # 0 => cur' = cur)
           /\ meta'.next = meta.next
           /\ \A b \in Boards : meta'.rev[b] = IF b \in written THEN rooms[b].rev ELSE meta.rev[b]
<1> DEFINE k == IF cur # 0 THEN cur ELSE Len(ps) + 1
           revs == [b \in Boards |-> IF b \in written THEN rooms[b].rev ELSE Cached.rev[b]]
           file == [Cached EXCEPT !.rev = revs]
<1>1. Cached = meta /\ Cached \in File
  BY CachedIsMeta, CachedTyped DEF Typed
<1>2. k \in Nat \ {0}
  BY DEF Typed, StoreTyped
<1>3. /\ cur' = k /\ ps' = [j \in 1..k |-> IF j = k THEN file ELSE ps[j]]
      /\ meta' = IF written = {} THEN meta ELSE file
  BY DEF FlushAll
<1>4. file.next = meta.next /\ file.rev = revs
  BY <1>1 DEF File
<1>5. ASSUME written = {}
      PROVE  file = meta
  <2>1. meta.rev \in [Boards -> Nat \cup {NoBoard}]
    BY <1>1 DEF File
  <2>2. revs = meta.rev
    BY <1>1, <1>5, <2>1
  <2> QED BY <1>1, <2>2 DEF File
<1>6. ps'[cur'] = file
  BY <1>2, <1>3
<1>7. meta' = file
  BY <1>3, <1>5
<1> HIDE DEF file
<1>8. \A b \in Boards : revs[b] = IF b \in written THEN rooms[b].rev ELSE meta.rev[b]
  BY <1>1
<1> QED BY <1>2, <1>3, <1>4, <1>6, <1>7, <1>8

LEMMA OneObjectStep ==
    ASSUME Typed, Undisturbed, OneObject, [Next]_<<vars, ops>>
    PROVE  OneObject'
<1> USE DEF Typed
<1>1. ASSUME NEW b \in Boards, NEW op \in {"open", "patch"},
             Join(op, b) \/ Load(op, b) \/ Release(b) \/ Flush(b) \/ Evict(b)
      PROVE  OneObject'
  <2>1. CASE Join(op, b) \/ Release(b) \/ Evict(b)
    BY <1>1, <2>1 DEF Join, Release, Evict, OneObject, store
  <2>2. CASE Load(op, b) \/ Flush(b)
    BY <1>1, <2>2, ProjectAgrees DEF Load, Flush, OneObject
  <2> QED BY <1>1, <2>1, <2>2
<1>2. CASE Loaded
  BY <1>2 DEF Loaded, OneObject, store
<1>3. CASE Flushed
  <2>1. rs # Idle /\ rs.at = cur /\ rs.at \in 1..Len(ps) /\ rs' = Idle
    BY <1>3 DEF Flushed, OneObject, Idle, HolderTyped
  <2>2. \/ UNCHANGED store
        \/ \E out \in Outcomes : WriteBoard(rs.at, rs.board, rooms[rs.board].doc, rooms[rs.board].rev, out)
    BY <1>3 DEF Flushed
  <2>3. cur' = cur /\ ps'[cur] = meta'
    BY <2>1, <2>2, FileWritten DEF WriteBoard, OneObject, store, StoreTyped
  <2> QED BY <1>3, <2>1, <2>3 DEF Flushed, OneObject
<1>4. ASSUME NEW h \in Handlers, NEW b \in Boards, DocGet(h, b)
      PROVE  OneObject'
  <2>1. CASE b \in Live
    BY <1>4, <2>1 DEF DocGet, OneObject, live
  <2>2. CASE b \notin Live
    BY <1>4, <2>2, ProjectAgrees DEF DocGet, OneObject, live
  <2> QED BY <2>1, <2>2
<1>5. ASSUME NEW h \in Handlers, NEW request, Begin(h, request), request.op # "purge",
             request.at = cur', UNCHANGED <<meta, rs, admin>>
      PROVE  OneObject'
  BY <1>5, ProjectAgrees DEF Begin, OneObject, CallsTyped
<1>6. ASSUME NEW h \in Handlers, NEW op \in {"put", "force"}, DocPut(h, op)
      PROVE  OneObject'
  BY <1>5, <1>6 DEF DocPut, live
<1>7. ASSUME NEW h \in Handlers, NEW b \in Boards, Update(h, b) \/ Delete(h, b)
      PROVE  OneObject'
  BY <1>5, <1>7 DEF Update, Delete, live
<1>8. ASSUME NEW h \in Handlers, Create(h)
      PROVE  OneObject'
  BY <1>5, <1>8 DEF Create, live
<1>9. ASSUME NEW h \in Handlers, Replace(h)
      PROVE  OneObject'
  BY <1>9 DEF Replace, OneObject, CallsTyped, store
<1>10. ASSUME NEW h \in Handlers, Purge(h) \/ Purged(h)
       PROVE  FALSE
  BY <1>10 DEF Purge, Purged, OneObject, Undisturbed, Idle
<1>11. CASE Backup
  <2>1. PICK written \in SUBSET Live : FlushAll(written)
    BY <1>11 DEF Backup
  <2>2. rs = Idle /\ rs' = rs /\ call' = call
    BY <1>11, <2>1 DEF Backup, FlushAll
  <2>3. \A h \in Handlers : call[h] # Idle => call[h].at = cur /\ cur # 0
    <3> SUFFICES ASSUME NEW h \in Handlers, call[h] # Idle PROVE call[h].at = cur /\ cur # 0
      OBVIOUS
    <3>1. call[h] \in Calls /\ call[h].op # "purge" /\ call[h].at = cur
      BY DEF OneObject, CallsTyped
    <3>2. call[h].op # "idle"
      BY <3>1 DEF Calls, Saves
    <3> QED BY <3>1, <3>2 DEF CallsTyped
  <2> QED BY <1>11, <2>1, <2>2, <2>3, FlushAllAgrees DEF Backup, OneObject
<1>12. CASE BackedUp \/ UNCHANGED <<vars, ops>>
  BY <1>12 DEF BackedUp, vars, OneObject, store, live
<1>13. CASE \/ Restore \/ RestoreFails \/ DropAll \/ Reset
            \/ \E f \in {0} \cup Boards : RestoreFile(f)
  <2>1. admin.op # "writing" /\ admin.op # "reset" /\ "restore" \notin ops
    BY DEF OneObject, Undisturbed, Idle
  <2> QED BY <1>13, <2>1 DEF Restore, RestoreFails, DropAll, Reset, RestoreFile
<1>14. CASE Crash
  BY <1>14 DEF Crash, OneObject, CallsTyped
<1>15. ASSUME NEW h \in Handlers, SaveSnapshot(h)
       PROVE  OneObject'
  <2> DEFINE c == call[h]
             b == c.board
  <2>1. c \in Calls /\ c \in Saves /\ c # Idle /\ c.at = cur /\ c.at \in 1..Len(ps)
    BY <1>15 DEF SaveSnapshot, CallsTyped, Calls, Saves, Idle, OneObject
  <2>2. CASE ~ (Known(ps[c.at], b) /\ (c.op = "force" \/ c.base = ps[c.at].rev[b]))
    BY <1>15, <2>2 DEF SaveSnapshot, OneObject, CallsTyped, store, live
  <2>3. CASE Known(ps[c.at], b) /\ (c.op = "force" \/ c.base = ps[c.at].rev[b])
    <3>1. PICK out \in Outcomes :
                /\ WriteBoard(c.at, b, c.doc, ps[c.at].rev[b] + 1, out)
                /\ call' = [call EXCEPT ![h] = IF out # "saved" THEN Idle
                                ELSE [c EXCEPT !.op = "replace", !.base = ps'[c.at].rev[b]]]
      BY <1>15, <2>3 DEF SaveSnapshot
    <3>2. cur' = cur /\ ps'[cur] = meta'
      <4>1. /\ cur' = cur
            /\ \/ UNCHANGED <<meta, ps>>
               \/ \E file : meta' = file /\ ps' = [ps EXCEPT ![c.at] = file]
        BY <3>1 DEF WriteBoard
      <4> HIDE DEF c
      <4> QED BY <2>1, <4>1 DEF OneObject, StoreTyped
    <3>3. call'[h] # Idle => call'[h].op # "purge" /\ call'[h].at = cur
      BY <2>1, <3>1 DEF Saves, CallsTyped
    <3> QED BY <1>15, <3>1, <3>2, <3>3 DEF SaveSnapshot, OneObject, CallsTyped, live
  <2> QED BY <2>2, <2>3
<1>16. ASSUME NEW h \in Handlers, Created(h) \/ Updated(h) \/ Deleted(h)
       PROVE  OneObject'
  <2>1. call[h].at = cur /\ call[h].at \in 1..Len(ps) /\ call' = [call EXCEPT ![h] = Idle]
    BY <1>16 DEF Created, Updated, Deleted, CallsTyped, OneObject, Idle
  <2>2. \/ UNCHANGED <<meta, ps, cur>>
        \/ \E file, out : WriteMeta(call[h].at, file, out)
    BY <1>16 DEF Created, Updated, Deleted, store
  <2>3. cur' = cur /\ ps'[cur] = meta'
    BY <2>1, <2>2 DEF WriteMeta, OneObject, StoreTyped
  <2> QED BY <1>16, <2>1, <2>3 DEF Created, Updated, Deleted, OneObject, CallsTyped, live
<1> QED BY <1>1, <1>2, <1>3, <1>4, <1>6, <1>7, <1>8, <1>9, <1>10, <1>11, <1>12, <1>13,
           <1>14, <1>15, <1>16 DEF Next

LEMMA SavingFinite ==
    ASSUME NEW b
    PROVE  IsFiniteSet(Saving(b)) /\ Cardinality(Saving(b)) \in Nat
<1>1. Saving(b) \in SUBSET Handlers
  BY DEF Saving
<1> QED BY <1>1, StoreConfig, FS_Subset, FS_CardinalityType

LEMMA SavingSame ==
    ASSUME \A h \in Handlers : \/ call'[h] = call[h]
                               \/ call[h].op # "replace" /\ call'[h].op # "replace"
    PROVE  \A b \in Boards : Saving(b)' = Saving(b)
BY DEF Saving

\* A step that leaves the files and the saves alone, and of the rooms keeps,
\* drops or edits some.
LEMMA FollowQuiet ==
    ASSUME Typed, NewIds, FileFollows, UNCHANGED <<meta, doc, torn>>,
           \A b \in Boards : Saving(b)' = Saving(b),
           \A b \in Live' : /\ b \in Live
                            /\ rooms[b].behind => rooms'[b].behind
                            /\ \/ rooms'[b].rev = rooms[b].rev /\ rooms'[b].doc = rooms[b].doc
                                  /\ rooms'[b].dirty = rooms[b].dirty
                               \/ rooms'[b].rev = rooms[b].rev + 1 /\ rooms'[b].dirty
                               \/ rooms'[b].rev = rooms[b].rev /\ TooLong(rooms'[b].doc)
    PROVE  NewIds' /\ FileFollows'
<1>1. NewIds'
  BY DEF NewIds, Known, Live
<1>2. \A b \in Live : rooms[b].rev \in Nat
  BY RoomIsLive DEF Typed, Room, Live
<1>3. \A b \in Boards : meta.rev[b] \in Int
  BY DEF Typed, StoreTyped, File, NoBoard
<1>4. FileFollows'
  <2> SUFFICES ASSUME NEW b \in Live', Known(meta, b), ~ rooms'[b].behind
               PROVE  /\ meta.rev[b] <= rooms'[b].rev + Cardinality(Saving(b))
                      /\ Saving(b) = {} /\ ~ rooms'[b].dirty /\ b \notin torn /\ ~ TooLong(rooms'[b].doc) =>
                            meta.rev[b] = rooms'[b].rev /\ doc[b] = rooms'[b].doc
    BY DEF FileFollows, Follows, Known, Live
  <2>1. b \in Live /\ b \in Boards
    BY DEF Live
  <2>2. Follows(b)
    BY <2>1 DEF FileFollows
  <2> QED BY <1>2, <1>3, <2>1, <2>2, SavingFinite DEF Follows
<1> QED BY <1>1, <1>4

\* An edit or a stream joins a live room, or one just read from the files.
LEMMA FollowServed ==
    ASSUME Typed, NewIds, FileFollows, NEW op \in {"open", "patch"}, NEW b \in Boards,
           NEW room \in Room, room.subs <= streams[b], Serve(op, b, room), Known(meta, b),
           \/ b \in Live /\ room = rooms[b]
           \/ room.rev = meta.rev[b] /\ room.doc = doc[b],
           UNCHANGED <<meta, doc, torn, call, admin, snap>>
    PROVE  NewIds' /\ FileFollows'
<1>1. Live' = Live \cup {b}
  BY ServeTyped
<1>2. \A x \in Boards : x # b => rooms'[x] = rooms[x]
  BY DEF Serve, Typed, RoomsTyped
<1>3. /\ rooms'[b].behind = room.behind
      /\ \/ rooms'[b].rev = room.rev /\ rooms'[b].doc = room.doc /\ rooms'[b].dirty = room.dirty
         \/ rooms'[b].rev = room.rev + 1 /\ rooms'[b].dirty
         \/ rooms'[b].rev = room.rev /\ TooLong(rooms'[b].doc)
  <2>1. CASE op = "open"
    BY <2>1 DEF Serve, Room, Typed, RoomsTyped
  <2>2. CASE op = "patch"
    <3>1. PICK r \in Room :
             /\ rooms' = [rooms EXCEPT ![b] = r] /\ r.behind = room.behind
             /\ \/ r.rev = room.rev + 1 /\ r.dirty = TRUE
                \/ r.rev = room.rev /\ TooLong(r.doc)
      BY <2>2, ServePatches DEF Typed
    <3>2. rooms'[b] = r
      BY <3>1 DEF Typed, RoomsTyped
    <3> QED BY <3>1, <3>2
  <2> QED BY <2>1, <2>2
<1>4. NewIds'
  BY <1>1 DEF NewIds, Known
<1>5. \A x \in Boards : Saving(x)' = Saving(x)
  BY SavingSame
<1>6. room.rev \in Nat /\ meta.rev[b] \in Int
  BY DEF Room, Typed, StoreTyped, File, NoBoard
<1>7. FileFollows'
  <2> SUFFICES ASSUME NEW x \in Live', Known(meta, x), ~ rooms'[x].behind
               PROVE  /\ meta.rev[x] <= rooms'[x].rev + Cardinality(Saving(x))
                      /\ Saving(x) = {} /\ ~ rooms'[x].dirty /\ x \notin torn /\ ~ TooLong(rooms'[x].doc) =>
                            meta.rev[x] = rooms'[x].rev /\ doc[x] = rooms'[x].doc
    BY <1>5 DEF FileFollows, Follows, Known, Live
  <2>1. CASE x # b
    BY <1>1, <1>2, <2>1 DEF FileFollows, Follows, Live
  <2>2. CASE x = b
    <3>1. /\ meta.rev[b] <= room.rev + Cardinality(Saving(b))
          /\ Saving(b) = {} /\ ~ room.dirty /\ b \notin torn /\ ~ TooLong(room.doc) =>
                meta.rev[b] = room.rev /\ doc[b] = room.doc
      BY <1>3, <1>6, <2>2, SavingFinite DEF FileFollows, Follows
    <3> QED BY <1>3, <1>6, <2>2, <3>1, SavingFinite
  <2> QED BY <2>1, <2>2
<1> QED BY <1>4, <1>7

\* A room is written to its file.
LEMMA FollowWritten ==
    ASSUME Typed, NewIds, FileFollows, meta'.next = meta.next,
           \A b \in Boards : Saving(b)' = Saving(b), Live' = Live,
           \A b \in Boards :
               \/ /\ meta'.rev[b] = meta.rev[b] /\ doc'[b] = doc[b] /\ rooms'[b] = rooms[b]
                  /\ b \in torn' <=> b \in torn
               \/ /\ b \in Live /\ Known(meta, b) /\ meta'.rev[b] = rooms[b].rev
                  /\ doc'[b] = rooms[b].doc
                  /\ rooms'[b].rev = rooms[b].rev /\ rooms'[b].doc = rooms[b].doc
               \/ /\ meta'.rev[b] = meta.rev[b] /\ rooms'[b] = rooms[b] /\ b \in torn'
    PROVE  NewIds' /\ FileFollows'
<1>1. NewIds'
  BY DEF NewIds, Known
<1>2. \A b \in Live : rooms[b].rev \in Nat
  BY RoomIsLive DEF Typed, Room, Live
<1>3. FileFollows'
  <2> SUFFICES ASSUME NEW b \in Live, Known(meta', b), ~ rooms'[b].behind
               PROVE  /\ meta'.rev[b] <= rooms'[b].rev + Cardinality(Saving(b))
                      /\ Saving(b) = {} /\ ~ rooms'[b].dirty /\ b \notin torn' /\ ~ TooLong(rooms'[b].doc) =>
                            meta'.rev[b] = rooms'[b].rev /\ doc'[b] = rooms'[b].doc
    BY DEF FileFollows, Follows, Known, Live
  <2>1. b \in Boards
    BY DEF Live
  <2> QED BY <1>2, <2>1, SavingFinite DEF FileFollows, Follows, Known
<1> QED BY <1>1, <1>3

LEMMA FollowRooms ==
    ASSUME Typed, OneObject, NewIds, FileFollows, NEW b \in Boards, NEW op \in {"open", "patch"},
           Join(op, b) \/ Load(op, b) \/ Release(b) \/ Flush(b) \/ Evict(b)
    PROVE  NewIds' /\ FileFollows'
<1> USE DEF Typed
<1>1. \A x \in Boards : Saving(x)' = Saving(x)
  BY SavingSame DEF Join, Load, Release, Flush, Evict
<1>2. CASE Load(op, b) \/ Flush(b)
  BY <1>1, <1>2, FollowQuiet DEF Load, Flush, Live, history
<1>3. CASE Evict(b)
  BY <1>1, <1>3, FollowQuiet DEF Evict, Live, RoomsTyped, store, history
<1>4. CASE Release(b)
  <2>1. b \in Live => rooms[b] \in Room
    BY RoomIsLive
  <2>2. \A x \in Boards : /\ rooms'[x] = NoRoom <=> rooms[x] = NoRoom
                          /\ x \in Live => /\ rooms'[x].rev = rooms[x].rev /\ rooms'[x].doc = rooms[x].doc
                                           /\ rooms'[x].dirty = rooms[x].dirty
                                           /\ rooms'[x].behind = rooms[x].behind
    <3>1. CASE b \in Live /\ rooms[b].subs > 0
      <4>1. rooms' = [rooms EXCEPT ![b] = [rooms[b] EXCEPT !.subs = @ - 1]]
        BY <1>4, <3>1 DEF Release
      <4>2. /\ rooms'[b].rev = rooms[b].rev /\ rooms'[b].doc = rooms[b].doc
            /\ rooms'[b].dirty = rooms[b].dirty /\ rooms[b].rev \in Nat
            /\ rooms'[b].behind = rooms[b].behind
        BY <2>1, <3>1, <4>1 DEF Room, RoomsTyped
      <4>3. \A x \in Boards : x # b => rooms'[x] = rooms[x]
        BY <4>1 DEF RoomsTyped
      <4> QED BY <3>1, <4>2, <4>3 DEF Live, NoRoom, NoBoard
    <3>2. CASE ~ (b \in Live /\ rooms[b].subs > 0)
      BY <1>4, <3>2 DEF Release
    <3> QED BY <3>1, <3>2
  <2> QED BY <1>1, <1>4, <2>2, FollowQuiet DEF Release, Live, store, history
<1>5. CASE Join(op, b)
  <2>1. rooms[b] \in Room /\ rooms[b].subs <= streams[b] /\ b \in Live /\ Serve(op, b, rooms[b])
        /\ UNCHANGED <<meta, doc, call, admin, snap>>
    BY <1>5, RoomIsLive DEF Join, RoomsTyped, store
  <2>2. UNCHANGED torn
    BY <2>1 DEF Serve, history
  <2>3. CASE Known(meta, b)
    BY <2>1, <2>2, <2>3, FollowServed
  <2>4. CASE ~ Known(meta, b)
    <3>1. \A x \in Boards : x # b => rooms'[x] = rooms[x]
      BY <2>1 DEF Serve, RoomsTyped
    <3>2. Live' = Live
      BY <2>1, ServeTyped
    <3> QED BY <1>1, <2>1, <2>2, <2>4, <3>1, <3>2 DEF NewIds, FileFollows, Follows, Known, Live
  <2> QED BY <2>3, <2>4
<1> QED BY <1>2, <1>3, <1>4, <1>5

LEMMA FollowLoaded ==
    ASSUME Typed, OneObject, NewIds, FileFollows, Loaded
    PROVE  NewIds' /\ FileFollows'
<1> USE DEF Typed
<1>1. rs \in Holds /\ rs.op \in {"open", "patch"} /\ rs.board \in Boards /\ rs.at \in 1..Len(ps)
      /\ rs.at = cur /\ rs.board \notin Live
  BY DEF Loaded, HolderTyped, Idle, Holds, OneObject
<1>2. ps[rs.at] = meta
  BY <1>1 DEF OneObject
<1>3. CASE ~ Known(meta, rs.board) \/ doc[rs.board] = Garbled
  <2>1. UNCHANGED <<meta, doc, torn, rooms, call>>
    BY <1>2, <1>3 DEF Loaded, store, history
  <2> QED BY <2>1, SavingSame, FollowQuiet DEF Live
<1>4. CASE Known(meta, rs.board) /\ doc[rs.board] # Garbled
  <2> DEFINE room == [doc |-> doc[rs.board], rev |-> meta.rev[rs.board], dirty |-> FALSE, behind |-> FALSE, subs |-> 0]
  <2>1. room \in Room
    BY <1>1, <1>4 DEF Room, File, Known, StoreTyped
  <2>2. Serve(rs.op, rs.board, room) /\ UNCHANGED <<meta, doc, call, admin, snap>>
    BY <1>2, <1>4 DEF Loaded, store
  <2>3. UNCHANGED torn
    BY <2>2 DEF Serve, history
  <2>4. room.subs <= streams[rs.board]
    BY <1>1 DEF RoomsTyped
  <2>5. room.rev = meta.rev[rs.board] /\ room.doc = doc[rs.board]
    OBVIOUS
  <2> HIDE DEF room
  <2> QED BY <1>1, <1>4, <2>1, <2>2, <2>3, <2>4, <2>5, FollowServed
<1> QED BY <1>3, <1>4

LEMMA FollowFlushed ==
    ASSUME Typed, OneObject, NewIds, FileFollows, Flushed
    PROVE  NewIds' /\ FileFollows'
<1> USE DEF Typed
<1> DEFINE b == rs.board
<1>1. rs.at \in 1..Len(ps) /\ b \in Live /\ b \in Boards /\ UNCHANGED call /\ rs.at = cur
  BY DEF Flushed, HolderTyped, Idle, Live, OneObject
<1>2. ps[rs.at] = meta /\ rooms[b] \in Room
  BY <1>1, RoomIsLive DEF OneObject
<1>3. \A x \in Boards : Saving(x)' = Saving(x)
  BY <1>1, SavingSame
<1>4. CASE ~ Known(meta, b)
  BY <1>2, <1>3, <1>4, FollowQuiet DEF Flushed, Live, store
<1>5. CASE Known(meta, b)
  <2>1. PICK out \in Outcomes : /\ WriteBoard(rs.at, b, rooms[b].doc, rooms[b].rev, out)
                                /\ rooms' = Clean(b, out) /\ torn' = Torn(b, out)
    BY <1>2, <1>5 DEF Flushed
  <2>2. CASE out = "failed"
    BY <1>3, <2>1, <2>2, FollowQuiet DEF WriteBoard, Clean, Torn, Live
  <2>3. CASE out = "torn"
    <3>1. UNCHANGED <<meta, rooms>> /\ doc' = [doc EXCEPT ![b] = rooms[b].doc] /\ torn' = torn \cup {b}
      BY <2>1, <2>3 DEF WriteBoard, Clean, Torn
    <3> QED BY <1>3, <3>1, FollowWritten DEF StoreTyped, Live
  <2>4. CASE out = "saved"
    <3>1. /\ meta' = [meta EXCEPT !.rev[b] = rooms[b].rev] /\ doc' = [doc EXCEPT ![b] = rooms[b].doc]
          /\ rooms' = [rooms EXCEPT ![b] = Cleaned(rooms[b])] /\ torn' = torn \ {b}
      BY <1>2, <2>1, <2>4 DEF WriteBoard, Clean, Torn
    <3>2. meta'.next = meta.next /\ meta'.rev = [meta.rev EXCEPT ![b] = rooms[b].rev]
      BY <1>2, <3>1 DEF StoreTyped, File
    <3>3. meta'.rev[b] = rooms[b].rev /\ \A x \in Boards : x # b => meta'.rev[x] = meta.rev[x]
      BY <1>1, <3>2 DEF StoreTyped, File
    <3>4. rooms'[b].rev = rooms[b].rev /\ rooms'[b].doc = rooms[b].doc /\ rooms[b].rev \in Nat
      <4>1. rooms'[b] = Cleaned(rooms[b])
        BY <1>1, <3>1 DEF RoomsTyped
      <4>2. rooms[b].rev \in Nat
        BY <1>2 DEF Room
      <4> QED BY <1>2, <4>1, <4>2, RoomCleaned
    <3>5. doc'[b] = rooms[b].doc /\ \A x \in Boards : x # b => doc'[x] = doc[x] /\ rooms'[x] = rooms[x]
                                                         /\ (x \in torn' <=> x \in torn)
      BY <1>1, <3>1 DEF StoreTyped, RoomsTyped
    <3>6. Live' = Live
      BY <1>1, <3>4, <3>5 DEF Live, NoRoom, NoBoard
    <3> QED BY <1>1, <1>3, <1>5, <3>2, <3>3, <3>4, <3>5, <3>6, FollowWritten
  <2> QED BY <2>2, <2>3, <2>4 DEF Outcomes
<1> QED BY <1>4, <1>5

LEMMA FollowSaved ==
    ASSUME Typed, OneObject, NewIds, FileFollows, NEW h \in Handlers, SaveSnapshot(h)
    PROVE  NewIds' /\ FileFollows'
<1> USE DEF Typed
<1> DEFINE c == call[h]
           b == c.board
<1>1. c \in Saves /\ c.op \in {"put", "force"}
  <2>1. c \in Calls /\ c.op \in {"put", "force"}
    BY DEF SaveSnapshot, CallsTyped
  <2> HIDE DEF c
  <2> QED BY <2>1 DEF Calls, Idle
<1>2. b \in Boards /\ c.at \in 1..Len(ps) /\ UNCHANGED rooms
  BY <1>1 DEF SaveSnapshot, CallsTyped, Saves, live
<1>3. ps[c.at] = meta
  <2>1. c # Idle
    BY <1>1 DEF Idle
  <2> QED BY <1>2, <2>1 DEF OneObject
<1>4. CASE ~ (Known(meta, b) /\ (c.op = "force" \/ c.base = meta.rev[b]))
  <2>1. UNCHANGED <<meta, doc, torn>> /\ call' = [call EXCEPT ![h] = Idle]
    BY <1>3, <1>4 DEF SaveSnapshot, store
  <2>2. \A x \in Boards : Saving(x)' = Saving(x)
    BY <1>1, <2>1, SavingSame DEF CallsTyped, Idle
  <2> QED BY <1>2, <2>1, <2>2, FollowQuiet DEF Live
<1>5. CASE Known(meta, b) /\ (c.op = "force" \/ c.base = meta.rev[b])
  <2>1. PICK out \in Outcomes :
              /\ WriteBoard(c.at, b, c.doc, meta.rev[b] + 1, out)
              /\ call' = [call EXCEPT ![h] = IF out # "saved" THEN Idle
                              ELSE [c EXCEPT !.op = "replace", !.base = ps'[c.at].rev[b]]]
              /\ torn' = Torn(b, out)
    BY <1>3, <1>5 DEF SaveSnapshot
  <2>2. ASSUME out # "saved"
        PROVE  \A x \in Boards : Saving(x)' = Saving(x)
    BY <1>1, <2>1, <2>2, SavingSame DEF CallsTyped, Idle
  <2>3. CASE out = "failed"
    BY <1>2, <2>1, <2>2, <2>3, FollowQuiet DEF WriteBoard, Torn, Live
  <2>4. CASE out = "torn"
    <3>1. UNCHANGED meta /\ doc' = [doc EXCEPT ![b] = c.doc] /\ torn' = torn \cup {b}
      BY <2>1, <2>4 DEF WriteBoard, Torn
    <3>2. \A x \in Boards : \/ /\ meta'.rev[x] = meta.rev[x] /\ doc'[x] = doc[x]
                               /\ rooms'[x] = rooms[x] /\ (x \in torn' <=> x \in torn)
                            \/ /\ meta'.rev[x] = meta.rev[x] /\ rooms'[x] = rooms[x] /\ x \in torn'
      BY <1>2, <3>1 DEF StoreTyped
    <3> QED BY <1>2, <2>2, <2>4, <3>1, <3>2, FollowWritten DEF Live
  <2>5. CASE out = "saved"
    <3>1. /\ meta' = [meta EXCEPT !.rev[b] = meta.rev[b] + 1]
          /\ doc' = [doc EXCEPT ![b] = c.doc]
          /\ torn' = torn \ {b}
          /\ call' = [call EXCEPT ![h] = [c EXCEPT !.op = "replace", !.base = ps'[c.at].rev[b]]]
      BY <1>3, <2>1, <2>5 DEF WriteBoard, Torn
    <3>2. meta'.next = meta.next /\ meta'.rev = [meta.rev EXCEPT ![b] = meta.rev[b] + 1]
      BY <3>1 DEF StoreTyped, File
    <3>3. meta'.rev[b] = meta.rev[b] + 1 /\ \A x \in Boards : x # b => meta'.rev[x] = meta.rev[x]
      BY <1>2, <3>2 DEF StoreTyped, File
    <3>4. \A x \in Boards : x # b => doc'[x] = doc[x] /\ (x \in torn' <=> x \in torn)
      BY <3>1 DEF StoreTyped
    <3>5. call'[h].op = "replace" /\ call'[h].board = b /\ \A g \in Handlers : g # h => call'[g] = call[g]
      BY <1>1, <3>1 DEF Saves, CallsTyped
    <3>6. \A x \in Boards : /\ x = b => {g \in Handlers : call'[g].op = "replace" /\ call'[g].board = x} = Saving(x) \cup {h} /\ h \notin Saving(x)
                            /\ x # b => {g \in Handlers : call'[g].op = "replace" /\ call'[g].board = x} = Saving(x)
      BY <1>1, <3>5 DEF Saving
    <3>7. \A x \in Boards : /\ x = b => Cardinality(Saving(x)') = Cardinality(Saving(x)) + 1 /\ Saving(x)' # {}
                            /\ x # b => Saving(x)' = Saving(x)
      <4>1. \A x : IsFiniteSet(Saving(x))
        BY SavingFinite
      <4>2. \A x \in Boards : x = b => Cardinality(Saving(x) \cup {h}) = Cardinality(Saving(x)) + 1
        BY <3>6, <4>1, FS_AddElement
      <4> QED BY <3>6, <4>2 DEF Saving
    <3> HIDE DEF c
    <3>8. NewIds'
      BY <1>2, <1>5, <3>2, <3>3 DEF NewIds, Known, Live
    <3>9. \A x \in Live : rooms[x].rev \in Nat
      BY RoomIsLive DEF Room, Live
    <3>10. FileFollows'
      <4> SUFFICES ASSUME NEW x \in Live, Known(meta', x), ~ rooms[x].behind
                   PROVE  /\ meta'.rev[x] <= rooms[x].rev + Cardinality(Saving(x)')
                          /\ Saving(x)' = {} /\ ~ rooms[x].dirty /\ x \notin torn' /\ ~ TooLong(rooms[x].doc) =>
                                meta'.rev[x] = rooms[x].rev /\ doc'[x] = rooms[x].doc
        BY <1>2 DEF FileFollows, Follows, Known, Live
      <4>1. x \in Boards /\ meta.rev[x] \in Int
        BY DEF Live, StoreTyped, File, NoBoard
      <4>2. CASE x = b
        BY <1>5, <3>3, <3>7, <3>9, <4>1, <4>2, SavingFinite DEF FileFollows, Follows
      <4>3. CASE x # b
        BY <3>3, <3>4, <3>7, <4>1, <4>3 DEF FileFollows, Follows, Known
      <4> QED BY <4>2, <4>3
    <3> QED BY <3>8, <3>10
  <2> QED BY <2>3, <2>4, <2>5 DEF Outcomes
<1> QED BY <1>4, <1>5

LEMMA FollowReplaced ==
    ASSUME Typed, NewIds, FileFollows, NEW h \in Handlers, Replace(h)
    PROVE  NewIds' /\ FileFollows'
<1> USE DEF Typed
<1> DEFINE c == call[h]
           b == c.board
<1>1. b \in Boards /\ c.op = "replace" /\ UNCHANGED <<meta, doc, torn>> /\ call' = [call EXCEPT ![h] = Idle]
  BY ReplaceSteps DEF Replace, store
<1>2. \/ rooms' = rooms /\ b \notin Live
      \/ /\ b \in Live /\ rooms[b] \in Room
         /\ \E r \in Room :
              /\ rooms' = [rooms EXCEPT ![b] = r]
              /\ \/ r.rev = rooms[b].rev + 1 /\ r.dirty = TRUE /\ r.behind = rooms[b].behind
                 \/ r.behind = TRUE
  BY ReplaceSteps
<1>3. \A x \in Boards : x # b => rooms'[x] = rooms[x]
  BY <1>2 DEF RoomsTyped
<1>4. b \in Live =>
        /\ rooms[b].rev \in Nat /\ rooms'[b] # NoRoom
        /\ \/ rooms'[b].rev = rooms[b].rev + 1 /\ rooms'[b].dirty /\ rooms'[b].behind = rooms[b].behind
           \/ rooms'[b].behind
  <2> SUFFICES ASSUME b \in Live
               PROVE  /\ rooms[b].rev \in Nat /\ rooms'[b] # NoRoom
                      /\ \/ rooms'[b].rev = rooms[b].rev + 1 /\ rooms'[b].dirty
                            /\ rooms'[b].behind = rooms[b].behind
                         \/ rooms'[b].behind
    OBVIOUS
  <2>1. PICK r \in Room :
              /\ rooms' = [rooms EXCEPT ![b] = r]
              /\ \/ r.rev = rooms[b].rev + 1 /\ r.dirty = TRUE /\ r.behind = rooms[b].behind
                 \/ r.behind = TRUE
    BY <1>2
  <2> HIDE DEF b, c
  <2>2. rooms'[b] = r
    BY <1>1, <2>1 DEF RoomsTyped
  <2>3. r # NoRoom
    BY DEF Room, NoRoom, NoBoard
  <2>4. rooms[b].rev \in Nat
    BY <1>2 DEF Room
  <2> QED BY <2>1, <2>2, <2>3, <2>4
<1>5. Live' = Live
  <2>1. b \in Live <=> b \in Live'
    BY <1>1, <1>2, <1>4 DEF Live
  <2> QED BY <1>3, <2>1 DEF Live
<1>6. \A x \in Boards : /\ x = b => {g \in Handlers : call'[g].op = "replace" /\ call'[g].board = x} = Saving(x) \ {h} /\ h \in Saving(x)
                        /\ x # b => {g \in Handlers : call'[g].op = "replace" /\ call'[g].board = x} = Saving(x)
  BY <1>1 DEF Saving, CallsTyped, Idle
<1>7. \A x \in Boards : /\ x = b => Cardinality(Saving(x)') = Cardinality(Saving(x)) - 1
                        /\ x # b => Saving(x)' = Saving(x)
  <2>1. \A x : IsFiniteSet(Saving(x))
    BY SavingFinite
  <2>2. \A x \in Boards : x = b => Cardinality(Saving(x) \ {h}) = Cardinality(Saving(x)) - 1
    BY <1>6, <2>1, FS_RemoveElement
  <2> QED BY <1>6, <2>2 DEF Saving
<1> HIDE DEF c
<1>8. NewIds'
  BY <1>1, <1>5 DEF NewIds, Known
<1>9. FileFollows'
  <2> SUFFICES ASSUME NEW x \in Live, Known(meta, x), ~ rooms'[x].behind
               PROVE  /\ meta.rev[x] <= rooms'[x].rev + Cardinality(Saving(x)')
                      /\ Saving(x)' = {} /\ ~ rooms'[x].dirty /\ x \notin torn /\ ~ TooLong(rooms'[x].doc) =>
                            meta.rev[x] = rooms'[x].rev /\ doc[x] = rooms'[x].doc
    BY <1>1, <1>5 DEF FileFollows, Follows, Known
  <2>1. x \in Boards /\ meta.rev[x] \in Int
    BY DEF Live, StoreTyped, File, NoBoard
  <2>2. CASE x = b
    BY <1>4, <1>7, <2>1, <2>2, SavingFinite DEF FileFollows, Follows
  <2>3. CASE x # b
    BY <1>3, <1>7, <2>1, <2>3 DEF FileFollows, Follows
  <2> QED BY <2>2, <2>3
<1> QED BY <1>8, <1>9

\* The requests that save no document.
LEMMA FollowBegun ==
    ASSUME Typed, NewIds, FileFollows, NEW h \in Handlers, NEW b \in Boards, NEW op \in {"put", "force"},
           \/ DocGet(h, b) \/ DocPut(h, op) \/ Create(h) \/ Update(h, b) \/ Delete(h, b)
    PROVE  NewIds' /\ FileFollows'
<1> USE DEF Typed
<1>1. \A x \in Boards : Saving(x)' = Saving(x)
  BY SavingSame DEF DocGet, DocPut, Create, Update, Delete, Begin, CallsTyped, Idle
<1>2. UNCHANGED <<meta, doc, torn>>
  BY DEF DocGet, DocPut, Create, Update, Delete, history
<1>3. \A x \in Live' : x \in Live /\ rooms'[x] = rooms[x]
  BY DEF DocGet, DocPut, Create, Update, Delete, live, Live, RoomsTyped
<1> QED BY <1>1, <1>2, <1>3, FollowQuiet

LEMMA FollowMeta ==
    ASSUME Typed, OneObject, NewIds, FileFollows, NEW h \in Handlers,
           Created(h) \/ Updated(h) \/ Deleted(h)
    PROVE  NewIds' /\ FileFollows'
<1> USE DEF Typed
<1> DEFINE k == call[h].at
           b == call[h].board
<1>1. k \in 1..Len(ps) /\ ps[k] = meta /\ UNCHANGED <<rooms, torn>>
  BY DEF Created, Updated, Deleted, CallsTyped, OneObject, Idle, live, history
<1>2. \A x \in Boards : Saving(x)' = Saving(x)
  BY SavingSame DEF Created, Updated, Deleted, CallsTyped, Idle
<1>3. Live' = Live
  BY <1>1 DEF Live
<1>4. CASE UNCHANGED <<meta, doc>>
  BY <1>1, <1>2, <1>3, <1>4, FollowQuiet
<1>5. CASE Created(h) /\ meta' # meta
  <2>1. /\ meta.next \in Boards /\ UNCHANGED doc
        /\ meta' = [next |-> meta.next + 1, rev |-> [meta.rev EXCEPT ![meta.next] = 0]]
    BY <1>1, <1>5 DEF Created, WriteMeta
  <2>2. /\ meta'.next = meta.next + 1 /\ meta'.rev[meta.next] = 0 /\ meta.next \in Nat
        /\ \A x \in Boards : x # meta.next => meta'.rev[x] = meta.rev[x]
    BY <2>1 DEF StoreTyped, File
  <2>3. NewIds'
    BY <1>3, <2>2 DEF NewIds, Known, Boards
  <2>4. meta.next \notin Live
    BY <2>1, <2>2 DEF NewIds
  <2>5. FileFollows'
    BY <1>1, <1>2, <1>3, <2>1, <2>2, <2>4 DEF FileFollows, Follows, Known, Live
  <2> QED BY <2>3, <2>5
<1>6. CASE Updated(h)
  BY <1>1, <1>4, <1>6 DEF Updated, WriteMeta
<1>7. CASE Deleted(h) /\ ~ UNCHANGED <<meta, doc>>
  <2>1. b \in Boards
    BY <1>7 DEF Deleted, CallsTyped, Calls, Saves, Idle
  <2>2. meta' = [meta EXCEPT !.rev[b] = NoBoard] /\ doc' = [doc EXCEPT ![b] = NoDoc]
    BY <1>1, <1>7 DEF Deleted, WriteMeta, store
  <2>3. /\ meta'.next = meta.next /\ meta'.rev[b] = NoBoard
        /\ \A x \in Boards : x # b => meta'.rev[x] = meta.rev[x] /\ doc'[x] = doc[x]
    <3>1. meta'.next = meta.next /\ meta'.rev = [meta.rev EXCEPT ![b] = NoBoard]
      BY <2>2 DEF StoreTyped, File
    <3> HIDE DEF b
    <3> QED BY <2>1, <2>2, <3>1 DEF StoreTyped, File
  <2> HIDE DEF b
  <2>4. NewIds'
    BY <1>3, <2>1, <2>3 DEF NewIds, Known
  <2>5. FileFollows'
    BY <1>1, <1>2, <1>3, <2>1, <2>3 DEF FileFollows, Follows, Known, Live
  <2> QED BY <2>4, <2>5
<1>8. Created(h) => UNCHANGED doc
  BY DEF Created
<1> QED BY <1>4, <1>5, <1>6, <1>7, <1>8

LEMMA FollowBackup ==
    ASSUME Typed, OneObject, NewIds, FileFollows, Backup
    PROVE  NewIds' /\ FileFollows'
<1> USE DEF Typed
<1>1. PICK written \in SUBSET Live : FlushAll(written)
  BY DEF Backup
<1>2. /\ meta'.next = meta.next
      /\ \A b \in Boards : meta'.rev[b] = IF b \in written THEN rooms[b].rev ELSE meta.rev[b]
  BY <1>1, FlushAllAgrees
<1>3. \A b \in written : b \in Boards /\ b \in Live /\ Known(meta, b)
  BY <1>1, CachedIsMeta DEF FlushAll, Live
<1>4. \A b \in Boards : /\ doc'[b] = IF b \in written THEN rooms[b].doc ELSE doc[b]
                        /\ rooms'[b] = IF b \in written THEN Cleaned(rooms[b]) ELSE rooms[b]
  BY <1>1 DEF FlushAll
<1>5. \A b \in written : rooms'[b].rev = rooms[b].rev /\ rooms'[b].doc = rooms[b].doc /\ rooms[b].rev \in Nat
  BY <1>3, <1>4, RoomIsLive, RoomCleaned DEF Room
<1>6. Live' = Live
  <2>1. \A b \in written : rooms'[b] # NoRoom
    BY <1>5 DEF NoRoom, NoBoard
  <2> QED BY <1>3, <1>4, <2>1 DEF Live
<1>7. \A b \in Boards : Saving(b)' = Saving(b)
  BY SavingSame DEF Backup
<1>8. torn' = torn
  BY DEF Backup, history
<1> QED BY <1>2, <1>3, <1>4, <1>5, <1>6, <1>7, <1>8, FollowWritten

LEMMA AheadStep ==
    ASSUME Typed, Undisturbed, OneObject, NewIds, FileFollows, [Next]_<<vars, ops>>
    PROVE  NewIds' /\ FileFollows'
<1>1. ASSUME NEW b \in Boards, NEW op \in {"open", "patch"},
             Join(op, b) \/ Load(op, b) \/ Release(b) \/ Flush(b) \/ Evict(b)
      PROVE  NewIds' /\ FileFollows'
  BY <1>1, FollowRooms
<1>2. CASE Loaded \/ Flushed
  BY <1>2, FollowLoaded, FollowFlushed
<1>3. ASSUME NEW h \in Handlers, NEW b \in Boards, NEW op \in {"put", "force"},
             \/ DocGet(h, b) \/ DocPut(h, op) \/ Create(h) \/ Update(h, b) \/ Delete(h, b)
      PROVE  NewIds' /\ FileFollows'
  BY <1>3, FollowBegun
<1>4. ASSUME NEW h \in Handlers, Created(h) \/ Updated(h) \/ Deleted(h)
      PROVE  NewIds' /\ FileFollows'
  BY <1>4, FollowMeta
<1>5. ASSUME NEW h \in Handlers, SaveSnapshot(h) \/ Replace(h)
      PROVE  NewIds' /\ FileFollows'
  BY <1>5, FollowSaved, FollowReplaced
<1>6. ASSUME NEW h \in Handlers, Purge(h) \/ Purged(h)
      PROVE  FALSE
  BY <1>6 DEF Purge, Purged, OneObject, Undisturbed, Idle
<1>7. CASE BackedUp \/ UNCHANGED <<vars, ops>>
  <2>1. UNCHANGED <<meta, doc, rooms, call, torn>>
    BY <1>7 DEF BackedUp, vars, store, live, history
  <2> QED BY <2>1 DEF NewIds, FileFollows, Follows, Known, Live, Saving
<1>8. CASE \/ Restore \/ RestoreFails \/ DropAll \/ Reset
           \/ \E f \in {0} \cup Boards : RestoreFile(f)
  BY <1>8 DEF Restore, RestoreFails, DropAll, Reset, RestoreFile, OneObject, Undisturbed, Idle
<1>9. CASE Crash
  <2>1. Live' = {} /\ UNCHANGED meta
    BY <1>9 DEF Crash, Live
  <2> QED BY <2>1 DEF NewIds, FileFollows, Known
<1>10. CASE Backup
  BY <1>10, FollowBackup
<1>11. 1 \in Boards
  BY StoreConfig DEF Boards
<1> QED BY <1>1, <1>2, <1>3, <1>4, <1>5, <1>6, <1>7, <1>8, <1>9, <1>10, <1>11 DEF Next

LEMMA AheadIsProperty == Typed /\ Ahead => RoomAheadOfFile
<1> SUFFICES ASSUME Typed, OneObject, FileFollows, NEW b \in Live, Known(meta, b), ~ Pending(b),
                    ~ rooms[b].behind
             PROVE  /\ meta.rev[b] <= rooms[b].rev
                    /\ ~ rooms[b].dirty /\ b \notin torn /\ ~ TooLong(rooms[b].doc) =>
                          meta.rev[b] = rooms[b].rev /\ Body(doc[b]) = Body(rooms[b].doc)
  BY DEF Ahead, Undisturbed, RoomAheadOfFile
<1>1. Saving(b) = {} /\ Cardinality(Saving(b)) = 0
  <2>1. Saving(b) = {}
    BY DEF Pending, Saving
  <2> QED BY <2>1, FS_EmptySet
<1>2. rooms[b].rev \in Nat
  <2>1. RoomsTyped /\ b \in Boards
    BY DEF Typed, Live
  <2>2. rooms[b] \in Room
    BY <2>1, RoomIsLive
  <2> QED BY ONLY <2>2 DEF Room
<1>3. /\ meta.rev[b] <= rooms[b].rev + Cardinality(Saving(b))
      /\ Saving(b) = {} /\ ~ rooms[b].dirty /\ b \notin torn /\ ~ TooLong(rooms[b].doc) =>
            meta.rev[b] = rooms[b].rev /\ doc[b] = rooms[b].doc
  BY DEF FileFollows, Follows
<1>4. meta.rev[b] <= rooms[b].rev
  BY ONLY <1>1, <1>2, <1>3
<1> QED BY <1>1, <1>3, <1>4

(***************************************************************************)
(* "While a room exists it, not the file, is the truth" (room.go): with    *)
(* any number of requests, failed and half-done writes, reloads and        *)
(* crashes, the file is never ahead of the room and a clean room is on     *)
(* disk, under its own revision.                                           *)
(***************************************************************************)
THEOREM FileNeverAhead == Spec => []RoomAheadOfFile
<1>1. Init => Ahead
  BY DEF Init, Ahead, OneObject, NewIds, FileFollows, Known, Live, Boards, NoBoard, Idle
<1>2. Typed /\ Ahead /\ [Next]_<<vars, ops>> => Ahead'
  <2> SUFFICES ASSUME Typed, Ahead, [Next]_<<vars, ops>>, Undisturbed'
               PROVE  OneObject' /\ NewIds' /\ FileFollows'
    BY DEF Ahead
  <2>1. Undisturbed /\ OneObject /\ NewIds /\ FileFollows
    BY OpsFixed DEF Undisturbed, Ahead
  <2> QED BY <2>1, OneObjectStep, AheadStep
<1>3. Typed /\ Ahead => RoomAheadOfFile
  BY AheadIsProperty
<1> QED BY <1>1, <1>2, <1>3, StoreIsTyped, PTL DEF Spec
=============================================================================
