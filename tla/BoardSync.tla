----------------------------- MODULE BoardSync -----------------------------
(***************************************************************************)
(* Live editing of one board: the tabs of web/src/whiteboards/             *)
(* (useBoardSync.ts, sync/protocol.ts, useBoardEvents.ts), the handlers of *)
(* server/handlers_whiteboard_sync.go and handlers_whiteboards.go, and the *)
(* room they share (BoardRoom).                                            *)
(*                                                                         *)
(* Requests and answers travel separately from the event stream, and a     *)
(* handler publishes after it left the room's lock: the frames of two      *)
(* patches may be published in the other order, and an answer may overtake *)
(* frames.  The stream itself is what EventStream promises: in order, with *)
(* a jump where the server sends a reset, which a board's tab ignores.     *)
(* The queue of unsent patches is kept squashed, as send sends it.         *)
(***************************************************************************)
EXTENDS BoardRoom

CONSTANTS
    Writers,      \* the tabs with canWrite; the others only receive
    EditIds,      \* EditIds[c]: the records the user of tab c edits
    Slots,        \* 1..n: document reads a tab may have on their way at once
    MaxEdits,     \* bound: user edits
    MaxImports,   \* bound: whole-document writes
    MaxFails,     \* bound: requests that fail from the tab's point of view
    MaxSkips,     \* bound: stream resets
    MaxCrashes    \* bound: server crashes

ASSUME SlotsAssumption == Slots \subseteq Nat
ASSUME WritersAssumption == Writers \subseteq Clients /\ EditIds \in [Writers -> SUBSET Ids]

Viewers == Clients \ Writers
Idle == [kind |-> "idle"]
NoPatch == [put |-> Blank, remove |-> {}]

VARIABLES
    store,       \* store[c]: the document on tab c's canvas
    applied,     \* appliedRev
    seqNo,       \* seq
    queue,       \* queue, squashed
    flight,      \* inFlight: Idle, the patch being sent, or the resync awaited
    posts,       \* patch requests on their way
    handlers,    \* handlers past Rooms.Apply or Replace, about to publish
    replies,     \* answers on their way
    events,      \* the revisions announced on the stream, in order
    at,          \* at[c]: how many of them tab c has handled
    gets,        \* gets[c][s]: a read of the document: Idle, asked, or the answer
    edits, imports, fails, skips, crashes

clientVars == <<store, applied, seqNo, queue, flight>>
netVars == <<posts, handlers, replies, events, at, gets>>
bounds == <<edits, imports, fails, skips, crashes>>
vars == <<roomVars, clientVars, netVars, bounds>>

\* Every tab has opened the board, new and empty, and its first read has been
\* answered: that read, which WhiteboardCanvas starts beside the stream, is not
\* modelled, nor are the frames that may overtake it.
Init ==
    /\ RoomInit
    /\ store = [c \in Clients |-> Blank]
    /\ applied = [c \in Clients |-> 0]
    /\ seqNo = [c \in Clients |-> 0]
    /\ queue = [c \in Clients |-> NoPatch]
    /\ flight = [c \in Clients |-> Idle]
    /\ posts = {} /\ handlers = {} /\ replies = {}
    /\ events = <<>> /\ at = [c \in Clients |-> 0]
    /\ gets = [c \in Clients |-> [s \in Slots |-> Idle]]
    /\ edits = 0 /\ imports = 0 /\ fails = 0 /\ skips = 0 /\ crashes = 0

-----------------------------------------------------------------------------
(* protocol.ts.                                                            *)

\* squash of an earlier and a later patch.
Squash(p, q) ==
    [put |-> [i \in Ids |-> IF q.put[i] # Absent THEN q.put[i]
                            ELSE IF i \in q.remove THEN Absent ELSE p.put[i]],
     remove |-> (p.remove \ Present(q.put)) \cup q.remove]

ClassifyFrame_NoGap(rev, client, c) ==
    IF rev <= applied[c] THEN "skip"
    ELSE IF client = c THEN "skip" ELSE "apply"
ClassifyFrame(rev, client, c) ==
    IF rev <= applied[c] THEN "skip"
    ELSE IF rev > applied[c] + 1 THEN "resync"
    ELSE IF client = c THEN "skip" ELSE "apply"

Highest(m, n) == IF m >= n THEN m ELSE n

-----------------------------------------------------------------------------
(* resync: the document is read over REST and replaces everything.         *)

AskIn(c, s) ==
    /\ gets[c][s] = Idle
    /\ \A t \in Slots : t < s => gets[c][t] # Idle
    /\ gets' = [gets EXCEPT ![c][s] = [kind |-> "asked"]]
Ask(c) == \E s \in Slots : AskIn(c, s)

\* handleWhiteboardDocGet, Rooms.Snapshot.
DocGet(c, s) ==
    /\ gets[c][s].kind = "asked"
    /\ gets' = [gets EXCEPT ![c][s] =
                   [kind |-> "read", doc |-> room.records, rev |-> room.rev]]
    /\ UNCHANGED <<roomVars, clientVars, posts, handlers, replies, events, at, bounds>>

Awaits(c, s) == flight[c] = [kind |-> "resync", slot |-> s]

Load(c, s) ==
    /\ gets[c][s].kind = "read"
    /\ store' = [store EXCEPT ![c] = gets[c][s].doc]
    /\ applied' = [applied EXCEPT ![c] = gets[c][s].rev]
    /\ queue' = [queue EXCEPT ![c] = NoPatch]
    /\ flight' = [flight EXCEPT ![c] = IF Awaits(c, s) THEN Idle ELSE @]
    /\ gets' = [gets EXCEPT ![c][s] = Idle]
    /\ UNCHANGED <<roomVars, seqNo, posts, handlers, replies, events, at, bounds>>

\* The read fails: the tab shows an error and keeps what it has.
LoadFails(c, s) ==
    /\ gets[c][s].kind # "idle" /\ fails < MaxFails
    /\ fails' = fails + 1
    /\ flight' = [flight EXCEPT ![c] = IF Awaits(c, s) THEN Idle ELSE @]
    /\ gets' = [gets EXCEPT ![c][s] = Idle]
    /\ UNCHANGED <<roomVars, store, applied, seqNo, queue, posts, handlers, replies,
                   events, at, edits, imports, skips, crashes>>

-----------------------------------------------------------------------------
(* Outbound.                                                               *)

\* The user draws, or erases (tldraw erases the bindings of a shape with it);
\* the store's listener queues the diff.
Draws(c) ==
    {[put |-> [Blank EXCEPT ![i] = x], remove |-> {}] : i \in EditIds[c], x \in Vals}
Erases(c) ==
    {[put |-> Blank,
      remove |-> {i} \cup {b \in Bindings \cap Present(store[c]) : i \in Ends[store[c][b]]}] :
        i \in EditIds[c] \cap Present(store[c])}

Edit(c) ==
    /\ c \in Writers /\ edits < MaxEdits
    /\ \E p \in Draws(c) \cup Erases(c) :
        /\ Joined(Received(store[c], p))
        /\ Received(store[c], p) # store[c]
        /\ store' = [store EXCEPT ![c] = Received(@, p)]
        /\ queue' = [queue EXCEPT ![c] = Squash(@, p)]
    /\ edits' = edits + 1
    /\ UNCHANGED <<roomVars, applied, seqNo, flight, netVars, imports, fails, skips, crashes>>

Send(c) ==
    /\ flight[c] = Idle /\ queue[c] # NoPatch
    /\ seqNo' = [seqNo EXCEPT ![c] = @ + 1]
    /\ flight' = [flight EXCEPT ![c] = [kind |-> "patch", patch |-> queue[c]]]
    /\ queue' = [queue EXCEPT ![c] = NoPatch]
    /\ posts' = posts \cup {[client |-> c, seq |-> seqNo[c] + 1, base |-> applied[c],
                             put |-> queue[c].put, remove |-> queue[c].remove]}
    /\ UNCHANGED <<roomVars, store, applied, handlers, replies, events, at, gets, bounds>>

\* handleWhiteboardPatch up to Rooms.Apply; the answer follows the broadcast.
Receive(req) ==
    /\ req \in posts
    /\ Publishes(req) => room.rev < MaxRev
    /\ posts' = posts \ {req}
    /\ Apply(req)
    /\ LET reply == [client |-> req.client, seq |-> req.seq, answer |-> Answer(req)]
       IN  IF Publishes(req)
           THEN handlers' = handlers \cup {[rev |-> room.rev + 1, reply |-> reply]}
                /\ UNCHANGED replies
           ELSE replies' = replies \cup {reply} /\ UNCHANGED handlers
    /\ UNCHANGED <<clientVars, events, at, gets, bounds>>

\* publishPatch, then the response; or publishDocChanged.
Publish(h) ==
    /\ h \in handlers
    /\ handlers' = handlers \ {h}
    /\ events' = Append(events, h.rev)
    /\ replies' = IF h.reply = Idle THEN replies ELSE replies \cup {h.reply}
    /\ UNCHANGED <<roomVars, clientVars, posts, at, gets, bounds>>

\* handleWhiteboardDocPut with a live room.
Import(doc) ==
    /\ imports < MaxImports /\ room.rev < MaxRev
    /\ imports' = imports + 1
    /\ Replace(doc)
    /\ handlers' = handlers \cup {[rev |-> room.rev + 1, reply |-> Idle]}
    /\ UNCHANGED <<clientVars, posts, replies, events, at, gets, edits, fails, skips, crashes>>

\* A failed request is retried with the next send; it may have arrived, or
\* still arrive, and its answer is not heard.
SendFails(c) ==
    /\ flight[c].kind = "patch" /\ fails < MaxFails
    /\ fails' = fails + 1
    /\ queue' = [queue EXCEPT ![c] = Squash(flight[c].patch, @)]
    /\ flight' = [flight EXCEPT ![c] = Idle]
    /\ posts' \in {posts, {r \in posts : r.client # c \/ r.seq # seqNo[c]}}
    /\ UNCHANGED <<roomVars, store, applied, seqNo, handlers, replies, events, at, gets,
                   edits, imports, skips, crashes>>

Heard(c, r) == flight[c].kind = "patch" /\ r.client = c /\ r.seq = seqNo[c]

\* send's answers: success, whiteboard_resync, any other refusal.
Accept_StillInFlight(c) ==
    /\ \E r \in replies :
        /\ Heard(c, r) /\ r.answer.status = "ok"
        /\ replies' = replies \ {r}
        /\ applied' = [applied EXCEPT ![c] = Highest(@, r.answer.rev)]
    /\ UNCHANGED <<roomVars, store, seqNo, queue, flight, posts, handlers, events, at,
                   gets, bounds>>
Accept(c) ==
    /\ \E r \in replies :
        /\ Heard(c, r) /\ r.answer.status = "ok"
        /\ replies' = replies \ {r}
        /\ applied' = [applied EXCEPT ![c] = Highest(@, r.answer.rev)]
        /\ store' = [store EXCEPT ![c] =
                        [i \in Ids |-> IF i \in r.answer.rejected THEN Absent ELSE @[i]]]
    /\ flight' = [flight EXCEPT ![c] = Idle]
    /\ UNCHANGED <<roomVars, seqNo, queue, posts, handlers, events, at, gets, bounds>>

Refuse(c) ==
    /\ \E r \in replies :
        /\ Heard(c, r) /\ r.answer.status # "ok"
        /\ replies' = replies \ {r}
        /\ IF r.answer.status = "conflict"
           THEN /\ \E s \in Slots :
                    /\ AskIn(c, s)
                    /\ flight' = [flight EXCEPT ![c] = [kind |-> "resync", slot |-> s]]
                /\ UNCHANGED queue
           ELSE /\ queue' = [queue EXCEPT ![c] = Squash(flight[c].patch, @)]
                /\ flight' = [flight EXCEPT ![c] = Idle]
                /\ UNCHANGED gets
    /\ UNCHANGED <<roomVars, store, applied, seqNo, posts, handlers, events, at, bounds>>

-----------------------------------------------------------------------------
(* Inbound.                                                                *)

\* onFrame for the patch of revision rev.
PatchFrame(c, rev) ==
    LET action == ClassifyFrame(rev, sent[rev].client, c)
    IN  CASE action = "resync" -> Ask(c) /\ UNCHANGED <<store, applied>>
          [] action = "apply" -> /\ store' = [store EXCEPT ![c] = Received(@, sent[rev])]
                                 /\ applied' = [applied EXCEPT ![c] = rev]
                                 /\ UNCHANGED gets
          [] action = "skip" -> /\ applied' = [applied EXCEPT ![c] = Highest(@, rev)]
                                /\ UNCHANGED <<store, gets>>

\* onReplaced.
ReplacedFrame(c, rev) ==
    /\ IF rev <= applied[c] THEN UNCHANGED gets ELSE Ask(c)
    /\ UNCHANGED <<store, applied>>

Frame(c) ==
    /\ at[c] < Len(events)
    /\ at' = [at EXCEPT ![c] = @ + 1]
    /\ LET rev == events[at[c] + 1]
       IN  IF sent[rev].kind = "patch" THEN PatchFrame(c, rev) ELSE ReplacedFrame(c, rev)
    /\ UNCHANGED <<roomVars, seqNo, queue, flight, posts, handlers, replies, events, bounds>>

\* The stream jumps: the ring no longer had the next frame.
StreamReset(c) ==
    /\ at[c] < Len(events) /\ skips < MaxSkips
    /\ skips' = skips + 1
    /\ at' = [at EXCEPT ![c] = Len(events)]
    /\ UNCHANGED <<roomVars, clientVars, posts, handlers, replies, events, gets,
                   edits, imports, fails, crashes>>

(***************************************************************************)
(* The server stops without a flush and starts again: the room is read     *)
(* back from the last document saved, requests and handlers are gone, and  *)
(* every stream, whose ids are of another epoch, is reset.                 *)
(***************************************************************************)
Crash ==
    /\ crashes < MaxCrashes
    /\ crashes' = crashes + 1
    /\ \E saved \in 0..room.rev :
        /\ room' = NewRoom(hist[saved + 1], saved)
        /\ hist' = SubSeq(hist, 1, saved + 1)
        /\ sent' = SubSeq(sent, 1, saved)
    /\ posts' = {} /\ handlers' = {} /\ replies' = {}
    /\ events' = <<>> /\ at' = [c \in Clients |-> 0]
    /\ UNCHANGED <<clientVars, gets, edits, imports, fails, skips>>

Next ==
    \/ \E c \in Clients : \/ Edit(c) \/ Send(c) \/ SendFails(c) \/ Accept(c) \/ Refuse(c)
                          \/ Frame(c) \/ StreamReset(c)
    \/ \E c \in Clients, s \in Slots : DocGet(c, s) \/ Load(c, s) \/ LoadFails(c, s)
    \/ \E req \in posts : Receive(req)
    \/ \E h \in handlers : Publish(h)
    \/ \E doc \in Documents : Import(doc)

Spec == Init /\ [][Next]_vars

\* The same with a server that may crash.
CrashSpec == Init /\ [][Next \/ Crash]_vars

(***************************************************************************)
(* Requests are handled, answers and frames arrive, timers fire.  Nothing  *)
(* obliges a user to edit, a request to fail or a stream to be reset.      *)
(***************************************************************************)
FairSpec ==
    /\ Spec
    /\ \A c \in Clients : WF_vars(Send(c)) /\ WF_vars(Accept(c)) /\ WF_vars(Refuse(c))
                          /\ WF_vars(Frame(c))
    /\ \A c \in Clients, s \in Slots : WF_vars(DocGet(c, s)) /\ WF_vars(Load(c, s))
    /\ WF_vars(\E req \in posts : Receive(req))
    /\ WF_vars(\E h \in handlers : Publish(h))

-----------------------------------------------------------------------------
(* Properties.                                                             *)

\* Type correctness of the tabs and of what travels between them and the room.
TypeOK ==
    /\ RoomTypeOK
    /\ store \in [Clients -> Docs]
    /\ applied \in [Clients -> 0..room.rev]
    /\ queue \in [Clients -> [put : Docs, remove : SUBSET Ids]]
    /\ \A c \in Clients : queue[c].remove \cap Present(queue[c].put) = {}
    /\ posts \subseteq Requests
    /\ at \in [Clients -> 0..Len(events)]

(***************************************************************************)
(* A canvas that does not edit always shows a document the board really    *)
(* had, at the revision the tab believes it has, although frames are       *)
(* published out of order, streams jump, whole documents are replaced and  *)
(* documents are read while all this goes on.                              *)
(***************************************************************************)
ViewerConsistent ==
    \A c \in Viewers : applied[c] <= room.rev => store[c] = hist[applied[c] + 1]

\* Everything was sent, handled, published, answered and received.
Quiescent ==
    /\ posts = {} /\ handlers = {} /\ replies = {}
    /\ \A c \in Clients : /\ queue[c] = NoPatch /\ flight[c] = Idle /\ at[c] = Len(events)
                          /\ \A s \in Slots : gets[c][s] = Idle

\* docs/whiteboards/STATUS.md: "Two people dragging the same shape will see it
\* settle on the last writer": when all is quiet, every canvas is the room's.
Settles == Quiescent => \A c \in Clients : store[c] = room.records

\* The board was replaced as a whole, a request failed or a stream jumped.
Disturbed == imports + fails + skips > 0

\* Left alone with its writer, a board settles: after the last edit every
\* canvas ends up as the room's document, and nothing is left under way.
EventuallySettled ==
    <>Disturbed \/ <>[](Quiescent /\ \A c \in Clients : store[c] = room.records)

(***************************************************************************)
(* patch.go: "Seq is that client's own counter so a retried POST is        *)
(* recognised"; room.go: "A retried POST (the response was lost, not the   *)
(* request) must not apply twice."  So no more revisions than edits.       *)
(***************************************************************************)
AppliedOnce == room.rev <= edits + imports

\* docs/whiteboards/STATUS.md: "A read-only member receives every edit".
ViewerSettles == Quiescent => \A c \in Viewers : store[c] = room.records
=============================================================================
