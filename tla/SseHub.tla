------------------------------- MODULE SseHub -------------------------------
(***************************************************************************)
(* One room of the server-sent-events hub (internal/sse/hub.go), the       *)
(* stream handlers that drain it (server/handlers_chat_events.go,          *)
(* handlers_whiteboard_events.go), the browsers' EventSources that resume  *)
(* it with Last-Event-ID, and the durable epoch of chat's event ids        *)
(* (chat/store.go project, EventEpoch).                                    *)
(*                                                                         *)
(* Every method of Hub is one critical section under h.mu.  A frame is the *)
(* number of the event it carries, in order of publication, or one of two  *)
(* frames that carry no id.  log keeps the id and the visibility of every  *)
(* event ever published: the hub itself remembers only what ring holds.    *)
(***************************************************************************)
EXTENDS Integers, Sequences, FiniteSets

CONSTANTS
    Tabs,        \* browser tabs, one EventSource each
    RingCap,     \* Config.RingCap
    SubBuf,      \* Config.SubBuf
    MaxEvents,   \* bound: events a behaviour publishes
    MaxBreaks    \* bound: disconnections, drains, restarts, overflow bursts

ASSUME HubConfig ==
    RingCap \in Nat /\ SubBuf \in Nat /\ MaxEvents \in Nat /\ MaxBreaks \in Nat

NoEpoch == 0             \* no room, or no loaded store
None == <<>>             \* no Last-Event-ID
Ephemeral == 0           \* a typing or presence frame
Reset == -1              \* the named "reset" frame
Fresh == 1               \* EventEpoch of an absent meta.json

VARIABLES
    log,        \* log[k]: id (epoch, seq) and visibility of event k
    metaEpoch,  \* EventEpoch in the project's meta.json
    storeEpoch, \* EventEpoch of the loaded projectState, or NoEpoch
    epoch,      \* room.epoch, or NoEpoch when the hub has no such room
    seq,        \* room.seq
    ring,       \* room.ring: the retained events, oldest first
    subs,       \* room.subs, by client
    conn,       \* conn[c]: "closed", "down" (EventSource retries) or "up"
    pending,    \* pending[c]: replay, or the reset, not written yet
    buf,        \* buf[c]: the subscriber's channel
    cursor,     \* cursor[c]: the EventSource's last event id, or None
    pos,        \* pos[c]: the last event client c accounts for
    resetAt,    \* resetAt[c]: how many events precede the reset due to c
    resets,     \* resets[c]: reset frames client c received
    breaks

hubVars == <<metaEpoch, storeEpoch, epoch, seq, ring>>
vars == <<log, hubVars, subs, conn, pending, buf, cursor, pos, resetAt, resets, breaks>>

Len0 == Len(log)
Hidden == {k \in 1..Len(log) : log[k].private}
Up(c) == conn[c] = "up"

Init ==
    /\ log = <<>>
    /\ metaEpoch = Fresh /\ storeEpoch = NoEpoch
    /\ epoch = NoEpoch /\ seq = 0 /\ ring = <<>>
    /\ subs = {}
    /\ conn = [c \in Tabs |-> "closed"]
    /\ pending = [c \in Tabs |-> <<>>]
    /\ buf = [c \in Tabs |-> <<>>]
    /\ cursor = [c \in Tabs |-> None]
    /\ pos = [c \in Tabs |-> 0]
    /\ resetAt = [c \in Tabs |-> 0]
    /\ resets = [c \in Tabs |-> 0]
    /\ breaks = 0

-----------------------------------------------------------------------------
(* The epoch, and the room that is created from it.                        *)

\* chat.Store.project: the first access of a process run bumps and saves it.
LoadProject ==
    IF storeEpoch # NoEpoch THEN UNCHANGED <<metaEpoch, storeEpoch>>
    ELSE metaEpoch' = metaEpoch + 1 /\ storeEpoch' = metaEpoch'

\* roomLocked.
Room ==
    IF epoch # NoEpoch THEN UNCHANGED <<metaEpoch, storeEpoch, epoch>>
    ELSE LoadProject /\ epoch' = storeEpoch'

-----------------------------------------------------------------------------
(* Publishing.                                                             *)

\* Subscribers whose channel is full are dropped and closed, not waited for.
FanOut_DropFrame(frame) ==
    /\ buf' = [c \in Tabs |-> IF c \in subs /\ Len(buf[c]) < SubBuf
                                 THEN Append(buf[c], frame) ELSE buf[c]]
    /\ UNCHANGED subs
FanOut(frame) ==
    LET fits == {c \in subs : Len(buf[c]) < SubBuf}
    IN  /\ subs' = fits
        /\ buf' = [c \in Tabs |-> IF c \in fits THEN Append(buf[c], frame) ELSE buf[c]]

\* The ring after event k: at most RingCap entries, none older than RingTTL.
\* Which entries have expired is left open; the one just added has not.
Trimmed(k) ==
    {SubSeq(Append(ring, k), d + 1, Len(ring) + 1) : d \in 0..Len(ring)}

Publish(private) ==
    /\ Len0 < MaxEvents
    /\ Room
    /\ seq' = seq + 1
    /\ log' = Append(log, [epoch |-> epoch', seq |-> seq + 1, private |-> private])
    /\ ring' \in Trimmed(Len(log')) /\ Len(ring') <= RingCap
    /\ FanOut(Len(log'))
    /\ UNCHANGED <<conn, pending, cursor, pos, resetAt, resets, breaks>>

\* No id, no sequence number, not in the ring; it takes room in the channels.
PublishEphemeral ==
    /\ Room
    /\ FanOut(Ephemeral)
    /\ breaks' = IF subs' = subs THEN breaks ELSE breaks + 1
    /\ breaks' <= MaxBreaks
    /\ UNCHANGED <<log, seq, ring, conn, pending, cursor, pos, resetAt, resets>>

-----------------------------------------------------------------------------
(* Subscribing.                                                            *)

\* The retained events after number n: the ring is in order, so they are its end.
After(n) ==
    LET older == CHOOSE d \in 0..Len(ring) :
                    \A i \in 1..Len(ring) : log[ring[i]].seq > n <=> i > d
    IN  SubSeq(ring, older + 1, Len(ring))

\* What Subscribe answers to the cursor id: frames to replay, or a reset.
Replay_KeepRing(id) ==
    IF id = None THEN <<>>
    ELSE IF id[1] # epoch' \/ id[2] > seq THEN <<Reset>>
    ELSE After(id[2])
Replay(id) ==
    IF id = None THEN <<>>
    ELSE IF id[1] # epoch' \/ id[2] > seq THEN <<Reset>>
    ELSE IF id[2] = seq THEN <<>>
    ELSE IF ring = <<>> \/ log[ring[1]].seq > id[2] + 1 THEN <<Reset>>
    ELSE After(id[2])

Subscribe(c, id) ==
    /\ Room
    /\ subs' = subs \cup {c}
    /\ conn' = [conn EXCEPT ![c] = "up"]
    /\ pending' = [pending EXCEPT ![c] = Replay(id)]
    /\ resetAt' = [resetAt EXCEPT ![c] = IF pending'[c] = <<Reset>> THEN Len0 ELSE 0]
    /\ UNCHANGED <<log, seq, ring, buf, resets, breaks>>

\* A tab mounts useChatEvents or useBoardEvents.
Open(c) ==
    /\ conn[c] = "closed"
    /\ Subscribe(c, None)
    /\ pos' = [pos EXCEPT ![c] = Len0]
    /\ UNCHANGED cursor

\* The EventSource retries, with the last id it received as Last-Event-ID.
Reconnect(c) ==
    /\ conn[c] = "down"
    /\ Subscribe(c, cursor[c])
    /\ UNCHANGED <<cursor, pos>>

-----------------------------------------------------------------------------
(* The stream handler writes, first the replay, then the live frames.      *)

Write(c, frame) ==
    CASE frame = Reset ->
            /\ pos' = [pos EXCEPT ![c] = resetAt[c]]
            /\ resets' = [resets EXCEPT ![c] = @ + 1]
            /\ UNCHANGED cursor
      [] frame = Ephemeral -> UNCHANGED <<cursor, pos, resets>>
      [] OTHER ->
            /\ cursor' = [cursor EXCEPT ![c] = <<log[frame].epoch, log[frame].seq>>]
            /\ pos' = [pos EXCEPT ![c] = frame]
            /\ UNCHANGED resets

\* writeEntitledFrame: a private frame is passed over when the subscriber is
\* not entitled to it, or when the check fails.
WriteEntitled(c, frame) ==
    \/ Write(c, frame)
    \/ frame \in Hidden /\ UNCHANGED <<cursor, pos, resets>>

Deliver_LiveFirst(c) ==
    /\ Up(c)
    /\ IF buf[c] # <<>>
       THEN /\ WriteEntitled(c, Head(buf[c]))
            /\ buf' = [buf EXCEPT ![c] = Tail(@)] /\ UNCHANGED pending
       ELSE /\ pending[c] # <<>>
            /\ WriteEntitled(c, Head(pending[c]))
            /\ pending' = [pending EXCEPT ![c] = Tail(@)] /\ UNCHANGED buf
    /\ UNCHANGED <<log, hubVars, subs, conn, resetAt, breaks>>
Deliver(c) ==
    /\ Up(c)
    /\ IF pending[c] # <<>>
       THEN /\ WriteEntitled(c, Head(pending[c]))
            /\ pending' = [pending EXCEPT ![c] = Tail(@)] /\ UNCHANGED buf
       ELSE /\ buf[c] # <<>>
            /\ WriteEntitled(c, Head(buf[c]))
            /\ buf' = [buf EXCEPT ![c] = Tail(@)] /\ UNCHANGED pending
    /\ UNCHANGED <<log, hubVars, subs, conn, resetAt, breaks>>

\* The handler returns: Unsubscribe.  What it had not written is lost.
EndStream(c, after) ==
    /\ subs' = subs \ {c}
    /\ conn' = [conn EXCEPT ![c] = after]
    /\ pending' = [pending EXCEPT ![c] = <<>>]
    /\ buf' = [buf EXCEPT ![c] = <<>>]
    /\ UNCHANGED <<log, hubVars, resetAt, resets>>

\* <-sub.Closed(): the hub dropped the subscriber.
Quit(c) ==
    /\ Up(c) /\ c \notin subs
    /\ EndStream(c, "down")
    /\ UNCHANGED <<cursor, pos, breaks>>

\* The connection fails, a write fails, or the revocation check says no.
Disconnect(c) ==
    /\ Up(c) /\ breaks < MaxBreaks
    /\ breaks' = breaks + 1
    /\ EndStream(c, "down")
    /\ UNCHANGED <<cursor, pos>>

\* es.close(): the next EventSource starts without a cursor.
CloseTab(c) ==
    /\ conn[c] # "closed"
    /\ EndStream(c, "closed")
    /\ cursor' = [cursor EXCEPT ![c] = None]
    /\ UNCHANGED <<pos, breaks>>

-----------------------------------------------------------------------------
(* The process.                                                            *)

\* drain / rebind: every subscriber is closed, the room and its ring stay.
CloseAll ==
    /\ subs # {} /\ breaks < MaxBreaks
    /\ breaks' = breaks + 1
    /\ subs' = {}
    /\ UNCHANGED <<log, hubVars, conn, pending, buf, cursor, pos, resetAt, resets>>

\* The process stops and starts: only meta.json survives.
Restart ==
    /\ breaks < MaxBreaks
    /\ breaks' = breaks + 1
    /\ storeEpoch' = NoEpoch /\ epoch' = NoEpoch /\ seq' = 0 /\ ring' = <<>>
    /\ subs' = {}
    /\ conn' = [c \in Tabs |-> IF Up(c) THEN "down" ELSE conn[c]]
    /\ pending' = [c \in Tabs |-> <<>>]
    /\ buf' = [c \in Tabs |-> <<>>]
    /\ UNCHANGED <<log, metaEpoch, cursor, pos, resetAt, resets>>

(***************************************************************************)
(* meta.json goes back to an earlier EventEpoch: a restored snapshot, or a *)
(* file that was deleted or set aside as corrupt.  The store's cache is    *)
(* evicted with it (Reset, DeleteProject); the hub's room is not.          *)
(***************************************************************************)
MetaRolledBack ==
    /\ breaks < MaxBreaks
    /\ breaks' = breaks + 1
    /\ metaEpoch' \in Fresh..metaEpoch
    /\ storeEpoch' = NoEpoch
    /\ UNCHANGED <<log, epoch, seq, ring, subs, conn, pending, buf, cursor, pos,
                   resetAt, resets>>

Next ==
    \/ \E private \in BOOLEAN : Publish(private)
    \/ PublishEphemeral
    \/ \E c \in Tabs : \/ Open(c) \/ Reconnect(c) \/ Deliver(c)
                          \/ Quit(c) \/ Disconnect(c) \/ CloseTab(c)
    \/ CloseAll \/ Restart

Spec == Init /\ [][Next]_vars

\* The same system with a meta.json that may be restored or deleted.
RollbackSpec == Init /\ [][Next \/ MetaRolledBack]_vars

(***************************************************************************)
(* EventSource retries until it is closed, the handler's loop keeps        *)
(* writing, and it notices that it was closed.  Nothing obliges a tab to   *)
(* be opened or closed, an event to be published, or a stream to break.    *)
(***************************************************************************)
FairSpec ==
    /\ Spec
    /\ \A c \in Tabs : WF_vars(Reconnect(c)) /\ WF_vars(Deliver(c)) /\ WF_vars(Quit(c))

-----------------------------------------------------------------------------
(* Properties.                                                             *)

\* Type correctness of the room, of the streams and of the cursors.
TypeOK ==
    /\ log \in Seq([epoch : Nat, seq : Nat, private : BOOLEAN])
    /\ metaEpoch \in Nat /\ storeEpoch \in Nat /\ epoch \in Nat
    /\ seq \in Nat /\ ring \in Seq(Nat)
    /\ subs \subseteq {c \in Tabs : Up(c)}
    /\ conn \in [Tabs -> {"closed", "down", "up"}]
    /\ pending \in [Tabs -> Seq({Reset} \cup Nat)]
    /\ buf \in [Tabs -> Seq(Nat)]
    /\ \A c \in Tabs : Len(buf[c]) <= SubBuf
    /\ cursor \in [Tabs -> {None} \cup (Nat \X Nat)]
    /\ pos \in [Tabs -> Nat] /\ resetAt \in [Tabs -> Nat] /\ resets \in [Tabs -> Nat]
    /\ breaks \in 0..MaxBreaks

(***************************************************************************)
(* chat/store.go project: "SSE event ids minted by different process runs  *)
(* can never alias".                                                       *)
(***************************************************************************)
IdsNeverAlias ==
    \A i, j \in 1..Len(log) :
        log[i].epoch = log[j].epoch /\ log[i].seq = log[j].seq => i = j

\* The ring holds the room's latest events, all of its own epoch, without a
\* hole, and never more than RingCap: what Subscribe's coverage test assumes.
RingIsSuffix ==
    /\ Len(ring) <= RingCap
    /\ \A i \in 1..Len(ring) :
          /\ ring[i] = Len(log) - Len(ring) + i
          /\ log[ring[i]].epoch = epoch
          /\ log[ring[i]].seq = seq - Len(ring) + i

\* What every subscriber relies on, taken together (Subscribe, project).
RingSound == TypeOK /\ IdsNeverAlias /\ RingIsSuffix

\* The events among frames are first..last, each once and in order.
Lists(frames, first, last) ==
    LET events == {i \in 1..Len(frames) : frames[i] > 0}
    IN  /\ {frames[i] : i \in events} = first..last
        /\ \A i, j \in events : i < j => frames[i] < frames[j]

ResetDue(c) == pending[c] # <<>> /\ pending[c][1] = Reset
From(c) == IF ResetDue(c) THEN resetAt[c] ELSE pos[c]

(***************************************************************************)
(* What is queued for an open stream continues where its client stands:    *)
(* after a reset, from the event the reset announces; otherwise from the   *)
(* last one the client received, private ones it was not shown excepted.   *)
(* A stream that is still subscribed has everything up to the last event.  *)
(***************************************************************************)
Covered(c) ==
    /\ ResetDue(c) => pos[c] <= resetAt[c]
    /\ \E first \in From(c) + 1..Len(log) + 1, last \in 0..Len(log) :
          /\ Lists(pending[c] \o buf[c], first, last)
          /\ c \in subs => last = Len(log)
          /\ (From(c) + 1..first - 1) \subseteq Hidden

\* A client that has a cursor is covered, through reconnections, overflows,
\* drains, restarts and expired rings.
StreamComplete ==
    /\ RingSound
    /\ \A c \in Tabs : Up(c) /\ cursor[c] # None => Covered(c)

(***************************************************************************)
(* The promise of the hub, refined by the ring, the channels, the cursors  *)
(* and the epochs: no client is ever moved past an event without either    *)
(* receiving it or being told to refetch.                                  *)
(***************************************************************************)
Stream == INSTANCE EventStream WITH
    Clients <- Tabs, len <- Len(log), hidden <- Hidden,
    open <- {c \in Tabs : conn[c] # "closed"},
    known <- {c \in Tabs : cursor[c] # None}
NoSilentGap == Stream!Spec

(***************************************************************************)
(* Every event reaches every client that has a cursor, as a frame or       *)
(* behind a reset, however often its stream breaks.                        *)
(***************************************************************************)
CatchesUp ==
    \A c \in Tabs : \A k \in 1..MaxEvents :
        (cursor[c] # None /\ Len(log) >= k)
            ~> (cursor[c] = None \/ (pos[c] + 1..k) \subseteq Hidden)

(***************************************************************************)
(* internal/sse/hub.go: "Anything the ring cannot replay is answered with  *)
(* a reset, and the client refetches over REST, so losing hub state can    *)
(* never lose data", for every client, also one whose stream broke before  *)
(* it received its first event.                                            *)
(***************************************************************************)
NothingLost == \A c \in Tabs : Up(c) => Covered(c)
=============================================================================
