----------------------------- MODULE BoardStore -----------------------------
(***************************************************************************)
(* Where a project's whiteboards live: the live rooms and their janitor    *)
(* (whiteboards/rooms.go), the store behind them (whiteboards/store.go,    *)
(* snapshot.go), the handler of a whole-document PUT                       *)
(* (server/handlers_whiteboards.go), and the administrator's delete,       *)
(* backup and restore (handlers_admin_data.go, handlers_backup.go,         *)
(* backup/restore.go).                                                     *)
(*                                                                         *)
(* A document is the set of edits it contains; an edit is a number, and    *)
(* the marks below are what else the code tells apart in one: that there   *)
(* is none, that it is too long to be saved, that it is JSON and not a     *)
(* board.  Which records an edit touches is the business of BoardRoom.     *)
(* Every store                                                             *)
(* operation first looks the project's state object up (Store.mu), then    *)
(* works under that object's mutex: two steps, because Reset and           *)
(* DeleteProject may evict the object in between.  Every operation of      *)
(* Rooms holds rs.mu, also across its two store steps (rs).  The quiet,    *)
(* overdue and idle timers of Sweep are left open: it may flush any dirty  *)
(* room and evict any unused one at any time.                              *)
(***************************************************************************)
EXTENDS Integers, Sequences, FiniteSets

CONSTANTS
    MaxBoards,      \* bound: board ids are 1..MaxBoards
    Handlers,       \* concurrent HTTP requests on the project
    Mixes,          \* the kinds of requests made in one behaviour, see Requests
    MaxLiveRooms,
    MaxStreams,     \* bound: open streams of one board
    MaxEdits,       \* bound: edits made
    MaxFails,       \* bound: failed writes and crashes
    MaxLoads        \* bound: how often whiteboards.json is loaded

\* "garbled": documents saved may be JSON that is no board; "large": patches
\* may grow a board past MaxSnapshotBytes.
Requests == {"put", "force", "garbled", "large", "create", "rename", "delete", "purge",
             "backup", "restore", "crash"}
ASSUME StoreConfig ==
    /\ MaxBoards \in Nat \ {0} /\ MaxLiveRooms \in Nat \ {0} /\ IsFiniteSet(Handlers)
    /\ MaxStreams \in Nat /\ MaxEdits \in Nat /\ MaxFails \in Nat /\ MaxLoads \in Nat
    /\ \A m \in Mixes : m \subseteq Requests

Boards == 1..MaxBoards
Edits == 1..MaxEdits
NoBoard == -1
NoDoc == {0}           \* no doc-<id>.json: an empty canvas
Garbled == {-1}        \* valid JSON that json.Unmarshal does not take for a liveDoc
Excess == -2           \* in a document longer than MaxSnapshotBytes
NoRoom == [rev |-> NoBoard]
Idle == [op |-> "idle"]
Fresh == [next |-> 1, rev |-> [b \in Boards |-> NoBoard]]

VARIABLES
    meta,      \* whiteboards.json: NextBoardID, and DocRev of each board
    doc,       \* doc[b]: the file doc-<b>.json
    ps,        \* ps[k]: projectState.file of the k-th load of whiteboards.json
    cur,       \* the one in Store.projects, or 0
    rooms,     \* Rooms.rooms: doc, rev, dirty and subs of each live board;
               \* behind (history): it has not taken a document that was saved
    rs,        \* what the holder of rs.mu is doing in the store, or Idle
    streams,   \* event streams of each board, each of which will Release
    call,      \* call[h]: the request handler h is in, or Idle
    view,      \* view[h]: the document and revision h's user last loaded
    admin,     \* the backup or restore in progress, or Idle
    snap,      \* the files of the last backup
    patched,   \* patched[b]: edits of b acknowledged to those who drew them
    gone,      \* edits overwritten, deleted or lost in a crash
    wiped,     \* edits that a finished restore or DeleteProject took away
    torn,      \* boards whose document was written and revision was not
    edits, fails,
    ops        \* the mix of this behaviour

store == <<meta, doc, ps, cur>>
live == <<rooms, rs, streams>>
history == <<patched, gone, wiped, torn, edits>>
vars == <<store, live, call, view, admin, snap, history, fails>>

Live == {b \in Boards : rooms[b] # NoRoom}
Known(m, b) == m.rev[b] # NoBoard
Body(d) == d \cap Edits
TooLong(d) == Excess \in d
Drawn == UNION {patched[b] : b \in Boards}

Init ==
    /\ ops \in Mixes
    /\ meta = [next |-> 2, rev |-> [b \in Boards |-> IF b = 1 THEN 0 ELSE NoBoard]]
    /\ doc = [b \in Boards |-> NoDoc]
    /\ ps = <<>> /\ cur = 0
    /\ rooms = [b \in Boards |-> NoRoom]
    /\ rs = Idle
    /\ streams = [b \in Boards |-> 0]
    /\ call = [h \in Handlers |-> Idle]
    /\ view = [h \in Handlers |-> [board |-> 1, doc |-> NoDoc, rev |-> 0]]
    /\ admin = Idle
    /\ snap = [meta |-> meta, doc |-> doc, of |-> [op |-> "backup", seen |-> {}, unsaved |-> {}]]
    /\ patched = [b \in Boards |-> {}] /\ gone = {} /\ wiped = {} /\ torn = {}
    /\ edits = 0 /\ fails = 0

-----------------------------------------------------------------------------
(* The store.                                                              *)

\* Store.project: the cached state object, loaded when there is none.
Cached == IF cur # 0 THEN ps[cur] ELSE meta
Project ==
    /\ cur' = IF cur # 0 THEN cur ELSE Len(ps) + 1
    /\ ps' = IF cur # 0 THEN ps ELSE Append(ps, meta)
    /\ Len(ps') <= MaxLoads

\* A failed write is counted; how much of it reached the disk is in out.
Outcomes == {"saved", "torn", "failed"}
Counted(out) ==
    /\ fails' = IF out = "saved" THEN fails ELSE fails + 1
    /\ fails' <= MaxFails

(***************************************************************************)
(* The common body of SaveSnapshot and saveSnapshotAtRev under ps[k].mu:   *)
(* the document, then whiteboards.json; a failure of the second leaves the *)
(* new document under the old revision, and ps.file as it was.             *)
(***************************************************************************)
WriteBoard(k, b, d, rev, out) ==
    LET file == [ps[k] EXCEPT !.rev[b] = rev]
    IN  /\ Counted(out)
        /\ doc' = IF out = "failed" THEN doc ELSE [doc EXCEPT ![b] = d]
        /\ meta' = IF out = "saved" THEN file ELSE meta
        /\ ps' = IF out = "saved" THEN [ps EXCEPT ![k] = file] ELSE ps
        /\ UNCHANGED cur

Torn(b, out) == CASE out = "saved" -> torn \ {b} [] out = "torn" -> torn \cup {b} [] OTHER -> torn

\* saveFile of a changed state object: written, or rolled back.
WriteMeta(k, file, out) ==
    /\ Counted(out)
    /\ meta' = IF out = "saved" THEN file ELSE meta
    /\ ps' = IF out = "saved" THEN [ps EXCEPT ![k] = file] ELSE ps
    /\ UNCHANGED cur

-----------------------------------------------------------------------------
(* Rooms: a stream opens or closes, a patch is applied, the janitor works. *)

(***************************************************************************)
(* What Open and Apply do to the room they found or loaded.  Apply adds up *)
(* its records without the JSON around them, so a document it accepts may  *)
(* be too long to save; and what it refuses for its size stays in the      *)
(* room, unannounced (apply checks after it has changed the records).      *)
(***************************************************************************)
Changed(room, d) == [room EXCEPT !.doc = d, !.rev = @ + 1, !.dirty = TRUE]
Serve(op, b, room) ==
    \/ /\ op = "open" /\ streams[b] < MaxStreams
       /\ rooms' = [rooms EXCEPT ![b] = [room EXCEPT !.subs = @ + 1]]
       /\ streams' = [streams EXCEPT ![b] = @ + 1]
       /\ UNCHANGED history
    \/ /\ op = "patch" /\ edits < MaxEdits
       /\ \E size \in {{}} \cup IF "large" \in ops THEN {{Excess}} ELSE {} :
             rooms' = [rooms EXCEPT ![b] =
                          Changed(room, (room.doc \ {Excess}) \cup size \cup {edits + 1})]
       /\ patched' = [patched EXCEPT ![b] = @ \cup {edits + 1}]
       /\ edits' = edits + 1
       /\ UNCHANGED <<streams, gone, wiped, torn, ops>>
    \/ /\ op = "patch" /\ edits < MaxEdits /\ "large" \in ops
       /\ rooms' = [rooms EXCEPT ![b] = [room EXCEPT !.doc = @ \cup {Excess, edits + 1}]]
       /\ edits' = edits + 1
       /\ UNCHANGED <<streams, patched, gone, wiped, torn, ops>>

\* Open or Apply on a live board.
Join(op, b) ==
    /\ rs = Idle /\ b \in Live
    /\ Serve(op, b, rooms[b])
    /\ UNCHANGED <<store, rs, call, view, admin, snap, fails, ops>>

\* roomLocked, when the board is not live: it reads the store.
Load(op, b) ==
    /\ op = "open" => streams[b] < MaxStreams
    /\ op = "patch" => edits < MaxEdits
    /\ rs = Idle /\ b \notin Live /\ Cardinality(Live) < MaxLiveRooms
    /\ Project
    /\ rs' = [op |-> op, board |-> b, at |-> cur']
    /\ UNCHANGED <<meta, doc, rooms, streams, call, view, admin, snap, history, fails, ops>>

Loaded ==
    /\ rs.op \in {"open", "patch"}
    /\ IF Known(ps[rs.at], rs.board) /\ doc[rs.board] # Garbled
       THEN Serve(rs.op, rs.board, [doc |-> doc[rs.board], rev |-> ps[rs.at].rev[rs.board],
                                    dirty |-> FALSE, behind |-> FALSE, subs |-> 0])
       ELSE UNCHANGED <<rooms, streams, history, ops>>
    /\ rs' = Idle
    /\ UNCHANGED <<store, call, view, admin, snap, fails, ops>>

Release(b) ==
    /\ rs = Idle /\ streams[b] > 0
    /\ streams' = [streams EXCEPT ![b] = @ - 1]
    /\ rooms' = IF b \in Live /\ rooms[b].subs > 0
                THEN [rooms EXCEPT ![b].subs = @ - 1] ELSE rooms
    /\ UNCHANGED <<store, rs, call, view, admin, snap, history, fails, ops>>

(***************************************************************************)
(* flushLocked: a document that is too long is refused before anything is  *)
(* looked up; otherwise it is saved at the room's revision.                *)
(***************************************************************************)
Flush_Unwatched(b) ==
    /\ rs = Idle /\ b \in Live /\ rooms[b].dirty /\ ~ TooLong(rooms[b].doc) /\ rooms[b].subs = 0
    /\ Project
    /\ rs' = [op |-> "flush", board |-> b, at |-> cur']
    /\ UNCHANGED <<meta, doc, rooms, streams, call, view, admin, snap, history, fails, ops>>
Flush(b) ==
    /\ rs = Idle /\ b \in Live /\ rooms[b].dirty /\ ~ TooLong(rooms[b].doc)
    /\ Project
    /\ rs' = [op |-> "flush", board |-> b, at |-> cur']
    /\ UNCHANGED <<meta, doc, rooms, streams, call, view, admin, snap, history, fails, ops>>

Cleaned(room) == [room EXCEPT !.dirty = FALSE, !.behind = FALSE]
Clean_AnyOutcome(b, out) == [rooms EXCEPT ![b] = Cleaned(@)]
Clean(b, out) == IF out = "saved" THEN [rooms EXCEPT ![b] = Cleaned(@)] ELSE rooms

Flushed ==
    /\ rs.op = "flush"
    /\ LET b == rs.board
       IN  IF Known(ps[rs.at], b)
           THEN \E out \in Outcomes :
                  /\ WriteBoard(rs.at, b, rooms[b].doc, rooms[b].rev, out)
                  /\ rooms' = Clean(b, out)
                  /\ torn' = Torn(b, out)
           ELSE UNCHANGED <<store, rooms, torn, fails, ops>>
    /\ rs' = Idle
    /\ UNCHANGED <<streams, call, view, admin, snap, patched, gone, wiped, edits, ops>>

\* Sweep and evictIdleLocked: a room goes once its work is on disk.
Evict_Dirty(b) ==
    /\ rs = Idle /\ b \in Live /\ rooms[b].subs = 0
    /\ rooms' = [rooms EXCEPT ![b] = NoRoom]
    /\ UNCHANGED <<store, rs, streams, call, view, admin, snap, history, fails, ops>>
Evict(b) ==
    /\ rs = Idle /\ b \in Live /\ rooms[b].subs = 0 /\ ~ rooms[b].dirty
    /\ rooms' = [rooms EXCEPT ![b] = NoRoom]
    /\ UNCHANGED <<store, rs, streams, call, view, admin, snap, history, fails, ops>>

-----------------------------------------------------------------------------
(* Requests on one board.                                                  *)

\* The document a GET answers, from the room when there is one.
Snapshot(b) ==
    IF b \in Live THEN [board |-> b, doc |-> rooms[b].doc, rev |-> rooms[b].rev]
    ELSE [board |-> b, doc |-> doc[b], rev |-> Cached.rev[b]]

DocGet(h, b) ==
    /\ {"put", "force"} \cap ops # {} /\ rs = Idle /\ call[h] = Idle
    /\ IF b \in Live THEN UNCHANGED <<ps, cur, ops>> ELSE Known(Cached, b) /\ Project
    /\ view' = [view EXCEPT ![h] = Snapshot(b)]
    /\ UNCHANGED <<meta, doc, live, call, admin, snap, history, fails, ops>>

Begin(h, request) ==
    /\ call[h] = Idle
    /\ Project
    /\ call' = [call EXCEPT ![h] = request]

\* A whole-document PUT: its author's view and one more edit, or something
\* else that is JSON.  One that is too long is refused before all else.
DocPut(h, op) ==
    /\ op \in ops \cap {"put", "force"} /\ edits < MaxEdits
    /\ \E body \in {Body(view[h].doc) \cup {edits + 1}}
                     \cup IF "garbled" \in ops THEN {Garbled} ELSE {} :
          Begin(h, [op |-> op, board |-> view[h].board, base |-> view[h].rev,
                    doc |-> body, at |-> cur'])
    /\ edits' = edits + 1
    /\ UNCHANGED <<meta, doc, live, view, admin, snap, patched, gone, wiped, torn, fails, ops>>

\* SaveSnapshot: an unforced save must be based on the file's revision.
SaveSnapshot(h) ==
    LET c == call[h]
        b == c.board
    IN  /\ c.op \in {"put", "force"}
        /\ IF Known(ps[c.at], b) /\ (c.op = "force" \/ c.base = ps[c.at].rev[b])
           THEN \E out \in Outcomes :
                  /\ WriteBoard(c.at, b, c.doc, ps[c.at].rev[b] + 1, out)
                  /\ call' = [call EXCEPT ![h] = IF out # "saved" THEN Idle
                                                 ELSE [c EXCEPT !.op = "replace", !.base = ps'[c.at].rev[b]]]
                  /\ gone' = IF out = "failed" THEN gone ELSE gone \cup (Body(doc[b]) \ c.doc)
                  /\ torn' = Torn(b, out)
           ELSE call' = [call EXCEPT ![h] = Idle] /\ UNCHANGED <<store, gone, torn, fails, ops>>
        /\ UNCHANGED <<live, view, admin, snap, patched, wiped, edits, ops>>

(***************************************************************************)
(* Rooms.Replace, then the 200.  A live room that can read the document    *)
(* takes it, and the author's view is the room's; a room that cannot keeps *)
(* what it has, and its error is ignored.                                  *)
(***************************************************************************)
Replace(h) ==
    LET c == call[h]
        b == c.board
        taken == b \in Live /\ c.doc # Garbled
        room == IF taken THEN Changed(rooms[b], c.doc)
                ELSE [rooms[b] EXCEPT !.behind = TRUE]
    IN  /\ c.op = "replace" /\ rs = Idle
        /\ rooms' = IF b \in Live THEN [rooms EXCEPT ![b] = room] ELSE rooms
        /\ gone' = IF taken THEN gone \cup (Body(rooms[b].doc) \ c.doc) ELSE gone
        /\ view' = [view EXCEPT ![h] = [board |-> b, doc |-> c.doc,
                                        rev |-> IF taken THEN room.rev ELSE c.base]]
        /\ call' = [call EXCEPT ![h] = Idle]
        /\ UNCHANGED <<store, rs, streams, admin, snap, patched, wiped, torn, edits, fails, ops>>

Create(h) ==
    /\ "create" \in ops
    /\ Begin(h, [op |-> "create", at |-> cur'])
    /\ UNCHANGED <<meta, doc, live, view, admin, snap, history, fails, ops>>

Created(h) ==
    LET k == call[h].at
        id == ps[k].next
    IN  /\ call[h].op = "create"
        /\ IF id \in Boards
           THEN \E out \in {"saved", "failed"} :
                  WriteMeta(k, [next |-> id + 1, rev |-> [ps[k].rev EXCEPT ![id] = 0]], out)
           ELSE UNCHANGED <<meta, ps, cur, fails, ops>>
        /\ call' = [call EXCEPT ![h] = Idle]
        /\ UNCHANGED <<doc, live, view, admin, snap, history, ops>>

\* Update: the name is not modelled, that the file is rewritten is.
Update(h, b) ==
    /\ "rename" \in ops
    /\ Begin(h, [op |-> "rename", board |-> b, at |-> cur'])
    /\ UNCHANGED <<meta, doc, live, view, admin, snap, history, fails, ops>>

Updated(h) ==
    LET k == call[h].at
    IN  /\ call[h].op = "rename"
        /\ IF Known(ps[k], call[h].board)
           THEN \E out \in {"saved", "failed"} : WriteMeta(k, ps[k], out)
           ELSE UNCHANGED <<meta, ps, cur, fails, ops>>
        /\ call' = [call EXCEPT ![h] = Idle]
        /\ UNCHANGED <<doc, live, view, admin, snap, history, ops>>

\* Delete drops the room, unsaved, before it touches the metadata.
Delete(h, b) ==
    /\ "delete" \in ops /\ rs = Idle
    /\ rooms' = [rooms EXCEPT ![b] = NoRoom]
    /\ gone' = IF b \in Live THEN gone \cup (Body(rooms[b].doc) \ doc[b]) ELSE gone
    /\ Begin(h, [op |-> "delete", board |-> b, at |-> cur'])
    /\ UNCHANGED <<meta, doc, rs, streams, view, admin, snap, patched, wiped, torn, edits, fails, ops>>

Deleted(h) ==
    LET k == call[h].at
        b == call[h].board
    IN  /\ call[h].op = "delete"
        /\ IF Known(ps[k], b)
           THEN \E out \in {"saved", "failed"} :
                  /\ WriteMeta(k, [ps[k] EXCEPT !.rev[b] = NoBoard], out)
                  /\ doc' = IF out = "saved" THEN [doc EXCEPT ![b] = NoDoc] ELSE doc
                  /\ gone' = IF out = "saved" THEN gone \cup patched[b] ELSE gone
           ELSE UNCHANGED <<store, gone, fails, ops>>
        /\ call' = [call EXCEPT ![h] = Idle]
        /\ UNCHANGED <<live, view, admin, snap, patched, wiped, torn, edits, ops>>

-----------------------------------------------------------------------------
(* The administrator.                                                      *)

\* DeleteProject: the rooms first, then the state object and the directory.
Purge(h) ==
    /\ "purge" \in ops /\ rs = Idle /\ call[h] = Idle
    /\ rooms' = [b \in Boards |-> NoRoom]
    /\ call' = [call EXCEPT ![h] = [op |-> "purge"]]
    /\ gone' = gone \cup Drawn
    /\ UNCHANGED <<store, rs, streams, view, admin, snap, patched, wiped, torn, edits, fails, ops>>

Purged(h) ==
    /\ call[h].op = "purge"
    /\ meta' = Fresh /\ doc' = [b \in Boards |-> NoDoc]
    /\ cur' = 0
    /\ call' = [call EXCEPT ![h] = Idle]
    /\ gone' = gone \cup Drawn /\ wiped' = wiped \cup 1..edits
    /\ UNCHANGED <<ps, live, view, admin, snap, patched, torn, edits, fails, ops>>

(***************************************************************************)
(* FlushAll, as a backup calls it: every dirty room, in one hold of rs.mu. *)
(* A room whose write fails, whose board is gone or whose document is too  *)
(* long stays dirty.                                                       *)
(***************************************************************************)
FlushAll(written) ==
    LET k == IF cur # 0 THEN cur ELSE Len(ps) + 1
        dirty == {b \in Live : rooms[b].dirty}
        flushable == {b \in dirty : Known(Cached, b) /\ ~ TooLong(rooms[b].doc)}
        file == [Cached EXCEPT !.rev =
                    [b \in Boards |-> IF b \in written THEN rooms[b].rev ELSE @[b]]]
    IN  /\ rs = Idle
        /\ written \subseteq flushable
        /\ fails' = fails + Cardinality(flushable \ written) /\ fails' <= MaxFails
        /\ cur' = k /\ k <= MaxLoads
        /\ ps' = [j \in 1..k |-> IF j = k THEN file ELSE ps[j]]
        /\ meta' = IF written = {} THEN meta ELSE file
        /\ doc' = [b \in Boards |-> IF b \in written THEN rooms[b].doc ELSE doc[b]]
        /\ rooms' = [b \in Boards |-> IF b \in written THEN Cleaned(rooms[b])
                                      ELSE rooms[b]]

\* A backup flushes the rooms, then reads each project's files under its lock.
Backup_NoFlush ==
    /\ "backup" \in ops /\ admin = Idle
    /\ admin' = [op |-> "backup", seen |-> Drawn, unsaved |-> {}]
    /\ UNCHANGED <<store, live, call, view, snap, history, fails, ops>>
Backup ==
    /\ "backup" \in ops /\ admin = Idle
    /\ \E written \in SUBSET Live : FlushAll(written)
    /\ admin' = [op |-> "backup", seen |-> Drawn,
                 unsaved |-> {b \in Boards : b \in Live /\ rooms'[b].dirty}]
    /\ UNCHANGED <<rs, streams, call, view, snap, history, ops>>

BackedUp ==
    /\ admin.op = "backup"
    /\ snap' = [meta |-> meta, doc |-> doc, of |-> admin]
    /\ admin' = Idle
    /\ UNCHANGED <<store, live, call, view, history, fails, ops>>

(***************************************************************************)
(* A restore takes a backup of its own first (which flushes), then writes  *)
(* the snapshot's files one by one, under no lock of the store, and at     *)
(* last Reset drops the rooms and then the state objects.  A file the      *)
(* snapshot does not have stays.  A failed write ends it without a Reset.  *)
(***************************************************************************)
Restore ==
    /\ "restore" \in ops /\ admin = Idle
    /\ \E written \in SUBSET Live : FlushAll(written)
    /\ admin' = [op |-> "writing", seen |-> Drawn,
                 left |-> {0} \cup {b \in Boards : snap.doc[b] # NoDoc}]
    /\ UNCHANGED <<rs, streams, call, view, snap, history, ops>>

RestoreFile(f) ==
    /\ admin.op = "writing" /\ f \in admin.left
    /\ admin' = [admin EXCEPT !.left = @ \ {f}]
    /\ meta' = IF f = 0 THEN snap.meta ELSE meta
    /\ doc' = IF f = 0 THEN doc ELSE [doc EXCEPT ![f] = snap.doc[f]]
    /\ gone' = gone \cup Drawn
    /\ UNCHANGED <<ps, cur, live, call, view, snap, patched, wiped, torn, edits, fails, ops>>

RestoreFails ==
    /\ admin.op = "writing" /\ admin.left # {} /\ fails < MaxFails
    /\ fails' = fails + 1
    /\ admin' = Idle
    /\ UNCHANGED <<store, live, call, view, snap, history, ops>>

DropAll ==
    /\ admin.op = "writing" /\ admin.left = {} /\ rs = Idle
    /\ rooms' = [b \in Boards |-> NoRoom]
    /\ gone' = gone \cup Drawn
    /\ admin' = [admin EXCEPT !.op = "reset"]
    /\ UNCHANGED <<store, rs, streams, call, view, snap, patched, wiped, torn, edits, fails, ops>>

Reset ==
    /\ admin.op = "reset"
    /\ cur' = 0
    /\ wiped' = wiped \cup (admin.seen \ UNION {snap.doc[b] : b \in Boards})
    /\ admin' = Idle
    /\ UNCHANGED <<meta, doc, ps, live, call, view, snap, patched, gone, torn, edits, fails, ops>>

\* The process dies and comes back: only the files are left.
Crash ==
    /\ "crash" \in ops /\ fails < MaxFails
    /\ fails' = fails + 1
    /\ cur' = 0
    /\ rooms' = [b \in Boards |-> NoRoom] /\ rs' = Idle
    /\ streams' = [b \in Boards |-> 0]
    /\ call' = [h \in Handlers |-> Idle] /\ admin' = Idle
    /\ gone' = gone \cup UNION {Body(rooms[b].doc) \ doc[b] : b \in Live}
    /\ UNCHANGED <<meta, doc, ps, view, snap, patched, wiped, torn, edits, ops>>

Next ==
    \/ \E b \in Boards : \/ \E op \in {"open", "patch"} : Join(op, b) \/ Load(op, b)
                         \/ Release(b) \/ Flush(b) \/ Evict(b)
    \/ Loaded \/ Flushed
    \/ \E h \in Handlers : \/ \E b \in Boards : DocGet(h, b) \/ Update(h, b) \/ Delete(h, b)
                           \/ \E op \in {"put", "force"} : DocPut(h, op)
                           \/ SaveSnapshot(h) \/ Replace(h)
                           \/ Create(h) \/ Created(h) \/ Updated(h) \/ Deleted(h)
                           \/ Purge(h) \/ Purged(h)
    \/ Backup \/ BackedUp
    \/ Restore \/ RestoreFails \/ DropAll \/ Reset
    \/ \E f \in {0} \cup Boards : RestoreFile(f)
    \/ Crash

Spec == Init /\ [][Next]_<<vars, ops>>

(***************************************************************************)
(* The sweeper runs every second and no room stays dirty longer than       *)
(* RoomSaveMax without a flush; a store call under way ends.  Failures are *)
(* finitely many: the disk recovers.                                       *)
(***************************************************************************)
FairSpec ==
    /\ Spec
    /\ WF_vars(Loaded) /\ WF_vars(Flushed)
    /\ \A b \in Boards : SF_vars(Flush(b)) /\ SF_vars(Evict(b))
    /\ \A h \in Handlers : /\ WF_vars(SaveSnapshot(h)) /\ SF_vars(Replace(h))
                           /\ WF_vars(Created(h)) /\ WF_vars(Updated(h)) /\ WF_vars(Deleted(h))

-----------------------------------------------------------------------------
(* Properties.                                                             *)

Files == [next : Nat, rev : [Boards -> Int]]

\* Type correctness; the cap on live rooms; a room has no more subscribers
\* than there are streams to release them.
TypeOK ==
    /\ meta \in Files /\ ps \in Seq(Files) /\ cur \in {0, Len(ps)}
    /\ doc \in [Boards -> SUBSET (Excess..MaxEdits)]
    /\ Cardinality(Live) <= MaxLiveRooms
    /\ \A b \in Live : /\ rooms[b].doc \subseteq Excess..MaxEdits /\ rooms[b].rev \in Nat
                       /\ rooms[b].dirty \in BOOLEAN /\ rooms[b].behind \in BOOLEAN
                       /\ rooms[b].subs \in 0..streams[b]
    /\ gone \subseteq Edits /\ wiped \subseteq Edits

\* A whole-document save of b is between the file and the room.
Pending(b) == \E h \in Handlers : call[h].op = "replace" /\ call[h].board = b

\* What a user who opens b now is shown.
Shown(b) == IF b \in Live THEN rooms[b].doc ELSE doc[b]

(***************************************************************************)
(* No acknowledged stroke is lost by the machinery itself (failed flushes, *)
(* retries, eviction, reloads, the cap, a save that bypasses the room): it *)
(* is shown to whoever opens the board next, unless someone's whole        *)
(* document, a deletion, a restore or a crash took it.                     *)
(***************************************************************************)
NoPatchLost ==
    \A b \in Boards : Known(meta, b) => patched[b] \ gone \subseteq Shown(b)

(***************************************************************************)
(* "While a room exists it, not the file, is the truth" (room.go): the     *)
(* file is never ahead of the room, and a clean room is on disk, under its *)
(* own revision.  Excepted: a PUT on its way from the file to the room,    *)
(* one of which only the document was written, one that the file took and  *)
(* the room could not read (until the room is saved over it), what a room  *)
(* keeps of a patch it refused for its size, and behaviours with a restore *)
(* or a DeleteProject, which change the files under the rooms.             *)
(***************************************************************************)
RoomAheadOfFile ==
    {"restore", "purge"} \cap ops = {} =>
      \A b \in Live : Known(meta, b) /\ ~ Pending(b) /\ ~ rooms[b].behind =>
        /\ meta.rev[b] <= rooms[b].rev
        /\ ~ rooms[b].dirty /\ b \notin torn /\ ~ TooLong(rooms[b].doc) =>
              meta.rev[b] = rooms[b].rev /\ Body(doc[b]) = Body(rooms[b].doc)

(***************************************************************************)
(* room.go: a whole-document save goes through the room "rather than       *)
(* leaving the room and the file disagreeing about what the board          *)
(* contains": one revision, one document.  Two saves at once break it, see *)
(* the README.                                                             *)
(***************************************************************************)
OneDocumentPerRevision ==
    "restore" \notin ops => \A b \in Live :
        Known(meta, b) /\ ~ Pending(b) /\ b \notin torn /\ meta.rev[b] = rooms[b].rev =>
            Body(doc[b]) = Body(rooms[b].doc)

(***************************************************************************)
(* handlers_whiteboards.go: "the room - not the file - is the authority,   *)
(* so a whole-document write has to land there too": when a save has been  *)
(* answered, the room has the document.  A document the room cannot read   *)
(* is answered the same, see the README.                                   *)
(***************************************************************************)
SavesLand ==
    [][\A h \in Handlers : call[h].op = "replace" /\ call'[h] = Idle /\ "crash" \notin ops =>
         LET b == call[h].board
         IN  b \in Live => rooms'[b].doc = call[h].doc]_vars

(***************************************************************************)
(* snapshot.go: "Write out anything being edited right now, so a backup    *)
(* captures what is on screen": every stroke acknowledged before the       *)
(* backup began is in it, unless its room could not be flushed.            *)
(***************************************************************************)
BackupComplete ==
    \A b \in Boards : Known(snap.meta, b) /\ b \notin snap.of.unsaved =>
        (patched[b] \cap snap.of.seen) \ gone \subseteq snap.doc[b]

(***************************************************************************)
(* handlers_whiteboards.go: "A save based on a revision the board has      *)
(* moved past is refused with 409 - the guard against two people on one    *)
(* board overwriting each other": an unforced save goes through only if    *)
(* its author has seen what is on the board.                               *)
(***************************************************************************)
StaleSaveRefused ==
    [][\A h \in Handlers : call[h].op = "put" /\ call'[h].op = "replace" =>
         LET b == call[h].board
         IN  b \in Live => call[h].base = rooms[b].rev]_vars

(***************************************************************************)
(* What a restore or DeleteProject took away stays away: "the restored     *)
(* content wins, and the live room does not write its pre-restore state    *)
(* back" (docs/whiteboards/STATUS.md), "no in-flight autosave can rewrite  *)
(* a document mid-delete" (store.go DeleteProject).                        *)
(***************************************************************************)
WipedStaysWiped == \A b \in Boards : Known(meta, b) => Shown(b) \cap wiped = {}

\* A stroke reaches the disk: a dirty room is saved, unless its board is gone
\* or its document has grown too long, which no later flush can mend.
\* (A run that has used up its loads of whiteboards.json ends here.)
OutOfLoads == cur = 0 /\ Len(ps) = MaxLoads
EventuallySaved ==
    \A b \in Boards : b \in Live /\ rooms[b].dirty ~>
        b \notin Live \/ ~ rooms[b].dirty \/ ~ Known(Cached, b)
        \/ TooLong(rooms[b].doc) \/ OutOfLoads
=============================================================================
