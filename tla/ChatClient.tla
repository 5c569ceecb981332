----------------------------- MODULE ChatClient -----------------------------
(***************************************************************************)
(* The chat of one browser tab (web/src/chat and the chat hooks of         *)
(* web/src/api/queries.ts): the cached timelines and threads, the          *)
(* optimistic copy of a message being sent, the frames of the project's    *)
(* event stream folded into the caches, and the fetches that replace them. *)
(*                                                                         *)
(* The server side is kept to what the tab can see of it: a log of         *)
(* messages for each channel, the frames it publishes (after a commit, not *)
(* under its lock) and a ring that can replay the last RingCap of them.    *)
(* Threads are modelled for the first message of each channel.             *)
(***************************************************************************)
EXTENDS Naturals, Sequences, FiniteSets

CONSTANTS
    Channels,     \* the channels of the open project
    MaxMsgs,      \* messages ever posted, by the tab and by others
    MaxChanges,   \* edits, reactions and deletions
    MaxFetches,   \* fetches started
    MaxDrops,     \* times the event stream breaks
    RingCap,      \* frames the server can replay
    NoData        \* a cache that does not exist yet

ASSUME BoundsAssumption ==
    /\ MaxMsgs \in Nat /\ MaxChanges \in Nat /\ MaxFetches \in Nat
    /\ MaxDrops \in Nat /\ RingCap \in Nat

VARIABLES
    log,      \* server: log[c][seq] is a message [id, root, stage]
    unpub,    \* server: frames committed and not yet published
    frames,   \* server: frames published, in order
    live,     \* the tab's EventSource is open
    at,       \* frames the tab has received or skipped
    heard,    \* it has received one, so it has a cursor to resume from
    open,     \* the channel on screen
    threadOpen,
    tl, th,   \* the cached timeline and thread of each channel
    fetch,    \* the fetch in flight for each cache
    send,     \* the send in flight
    act,      \* the edit, reaction or deletion in flight
    used,     \* counters of what the bounds limit
    misfiled, \* history: the channels a write of another channel ended in, or left
    drift     \* history: the channels whose timeline another race has touched

server == <<log, unpub, frames>>
stream == <<live, at, heard>>
screen == <<open, threadOpen>>
caches == <<tl, th, fetch>>
writes == <<send, act>>
races == <<misfiled, drift>>
vars == <<server, stream, screen, caches, writes, used, races>>

-----------------------------------------------------------------------------
(* Messages.  stage 0 is as posted, 1 edited or reacted to, 2 deleted.     *)

Root    == 1
Keys    == {"timeline", "thread"} \X Channels
IdleFetch == [st |-> "idle", snap |-> <<>>, upto |-> 0]
NoWrite == [st |-> "none"]

Larger(a, b) == IF a > b THEN a ELSE b
RepliesIn(l, s) == {r \in 1..Len(l) : l[r].root = s}

\* What the server says of message s of channel c: messageDTO.
DTO(l, s) ==
    [seq |-> s, id |-> l[s].id, root |-> l[s].root, stage |-> l[s].stage,
     replies |-> Cardinality({r \in RepliesIn(l, s) : l[r].stage < 2}),
     last |-> IF RepliesIn(l, s) = {} THEN 0
              ELSE CHOOSE r \in RepliesIn(l, s) : \A q \in RepliesIn(l, s) : q <= r]

\* The optimistic copy: no seq yet.
Pending(id, root) ==
    [seq |-> 0, id |-> id, root |-> root, stage |-> 0, replies |-> 0, last |-> 0]

\* The elements of s at the indexes in S, in their order: a set with one element
\* (SelectSeq, without the recursion that a proof could not follow).
Orders(S) == {g \in [1..Cardinality(S) -> S] :
                 /\ \A x \in S : \E i \in DOMAIN g : g[i] = x
                 /\ \A i, j \in DOMAIN g : i < j => g[i] < g[j]}
Picks(s, S) == {[i \in DOMAIN g |-> s[g[i]]] : g \in Orders(S)}

DTOs(l)      == [s \in 1..Len(l) |-> DTO(l, s)]
TopLevel(l)  == {s \in 1..Len(l) : l[s].root = 0}
InThread(l)  == {s \in 1..Len(l) : s = Root \/ l[s].root = Root}
ListMessages(l) == Picks(DTOs(l), TopLevel(l))
ListThread(l)   == Picks(DTOs(l), InThread(l))
Snapshots(k) ==
    IF k[1] = "timeline" THEN ListMessages(log[k[2]]) ELSE ListThread(log[k[2]])

-----------------------------------------------------------------------------
(* The cache appliers of chat/cache.ts.                                    *)

Matches_SeqOnly(m, x) == m.seq > 0 /\ x.seq = m.seq
Matches(m, x) == (m.seq > 0 /\ x.seq = m.seq) \/ x.id = m.id

upsertIntoList(cur, m) ==
    LET hits == {i \in 1..Len(cur) : Matches(m, cur[i])}
        ix   == CHOOSE i \in hits : \A j \in hits : i <= j
    IN  IF hits = {} THEN Append(cur, m)
        ELSE [cur EXCEPT ![ix] = [m EXCEPT !.replies = Larger(m.replies, cur[ix].replies)]]

Upserted(list, m) == IF list = NoData THEN NoData ELSE upsertIntoList(list, m)

\* upsertMessage: a top-level message goes to the timeline; any message goes
\* to the thread its root (or it) names.
tlWith(c, m) == IF m.root = 0 THEN [tl EXCEPT ![c] = Upserted(@, m)] ELSE tl
thWith(c, m) ==
    IF m.root = Root \/ m.seq = Root THEN [th EXCEPT ![c] = Upserted(@, m)] ELSE th

strip(list, id) == IF list = NoData THEN {NoData}
                   ELSE Picks(list, {i \in 1..Len(list) : list[i].id # id})

\* bumpRootCounters, over a timeline that already took the reply: of the root x,
\* by a reply m that came (delta 1) or went.
bump(x, m, delta) ==
    IF delta = 1
    THEN IF x.last > 0 /\ x.last >= m.seq THEN x
         ELSE [x EXCEPT !.replies = x.replies + 1, !.last = Larger(x.last, m.seq)]
    ELSE [x EXCEPT !.replies = IF x.replies = 0 THEN 0 ELSE x.replies - 1]
bumpRootCounters(list, m, delta) ==
    IF list = NoData \/ m.root = 0 THEN list
    ELSE [i \in 1..Len(list) |->
            IF list[i].seq = m.root THEN bump(list[i], m, delta) ELSE list[i]]

\* applyChatEvent for the three kinds of message frame.
applyFrame(f) ==
    /\ th' = thWith(f.c, f.m)
    /\ tl' = CASE f.type = "created" -> [tlWith(f.c, f.m) EXCEPT ![f.c] = bumpRootCounters(@, f.m, 1)]
               [] f.type = "deleted" -> [tlWith(f.c, f.m) EXCEPT ![f.c] = bumpRootCounters(@, f.m, 0)]
               [] OTHER -> tlWith(f.c, f.m)

-----------------------------------------------------------------------------
Init ==
    /\ log = [c \in Channels |-> <<>>] /\ unpub = {} /\ frames = <<>>
    /\ live = FALSE /\ at = 0 /\ heard = FALSE
    /\ open \in Channels /\ threadOpen = FALSE
    /\ tl = [c \in Channels |-> NoData] /\ th = [c \in Channels |-> NoData]
    /\ fetch = [k \in Keys |-> IF k = <<"timeline", open>> THEN [IdleFetch EXCEPT !.st = "asked"]
                               ELSE IdleFetch]
    /\ send = NoWrite /\ act = NoWrite
    /\ used = [ids |-> 0, changes |-> 0, fetches |-> 1, drops |-> 0]
    /\ misfiled = {} /\ drift = {}

Posted == used.ids

(* The server.  A handler commits under the store's lock, publishes after   *)
(* releasing it, then answers.                                             *)

Frame(type, c, l, s) == [type |-> type, c |-> c, m |-> DTO(l, s)]

CommitMessage(c, id, root) ==
    LET l == Append(log[c], [id |-> id, root |-> root, stage |-> 0])
    IN  /\ log' = [log EXCEPT ![c] = l]
        /\ unpub' = unpub \union {Frame("created", c, l, Len(l))}

CommitChange(c, s, stage) ==
    LET l == [log[c] EXCEPT ![s].stage = stage]
    IN  /\ log' = [log EXCEPT ![c] = l]
        /\ unpub' = unpub \union {Frame(IF stage = 2 THEN "deleted" ELSE "updated", c, l, s)}

\* A reply needs a live top-level root.
RootAccepts(c, root) ==
    \/ root = 0
    \/ root = Root /\ Len(log[c]) >= Root /\ log[c][Root].stage < 2

OtherPosts(c, root) ==
    /\ Posted < MaxMsgs /\ RootAccepts(c, root)
    /\ CommitMessage(c, Posted + 1, root)
    /\ used' = [used EXCEPT !.ids = @ + 1]
    /\ UNCHANGED <<frames, stream, screen, caches, writes, races>>

OtherChanges(c, s, stage) ==
    /\ used.changes < MaxChanges
    /\ s \in 1..Len(log[c]) /\ log[c][s].stage < stage
    /\ CommitChange(c, s, stage)
    /\ used' = [used EXCEPT !.changes = @ + 1]
    /\ UNCHANGED <<frames, stream, screen, caches, writes, races>>

\* chatPublish.  Two handlers may publish in the other order than they
\* committed.
Publish(f) ==
    /\ f \in unpub
    /\ unpub' = unpub \ {f}
    /\ frames' = Append(frames, f)
    /\ UNCHANGED <<log, stream, screen, caches, writes, used, races>>

-----------------------------------------------------------------------------
(* The tab's writes (useChatMutations).                                    *)

\* Newer news of message s than stage has been received already.
Outdated(c, s, stage) ==
    \E i \in 1..at : frames[i].c = c /\ frames[i].m.seq = s /\ frames[i].m.stage > stage

\* MessageComposer.send and onMutate: one send at a time, and the copy shown
\* at once.
Send(root) ==
    /\ send.st = "none" /\ Posted < MaxMsgs /\ tl[open] # NoData
    /\ root = Root => threadOpen
    /\ LET m == Pending(Posted + 1, root)
       IN  tl' = tlWith(open, m) /\ th' = thWith(open, m)
    /\ send' = [st |-> "asked", id |-> Posted + 1, c |-> open, root |-> root]
    /\ used' = [used EXCEPT !.ids = @ + 1]
    /\ UNCHANGED <<server, stream, screen, fetch, act, races>>

ServeSend ==
    /\ send.st = "asked" /\ RootAccepts(send.c, send.root)
    /\ CommitMessage(send.c, send.id, send.root)
    /\ send' = [st |-> "served", id |-> send.id, c |-> send.c, root |-> send.root,
                m |-> DTO(log'[send.c], Len(log'[send.c]))]
    /\ UNCHANGED <<frames, stream, screen, caches, act, used, races>>

\* The mutation's callbacks are those of the latest render, so they write to
\* the channel on screen when the answer comes, not to the one written to.
SettleChannel(w) == open

SendAnswered ==
    /\ send.st = "served"
    /\ ~ \E f \in unpub : f.type = "created" /\ f.m.id = send.id
    /\ tl' = tlWith(SettleChannel(send), send.m)
    /\ th' = thWith(SettleChannel(send), send.m)
    /\ misfiled' = misfiled \union {c \in {open, send.c} : open # send.c}
    /\ drift' = drift \union {c \in {send.c} : Outdated(c, send.m.seq, 0)}
    /\ send' = NoWrite
    /\ UNCHANGED <<server, stream, screen, fetch, act, used>>

\* The send fails: refused, or never arrived, or its answer was lost.
SendFails ==
    /\ send.st \in {"asked", "served"}
    /\ \E l \in strip(tl[SettleChannel(send)], send.id) : tl' = [tl EXCEPT ![SettleChannel(send)] = l]
    /\ \E l \in strip(th[SettleChannel(send)], send.id) : th' = [th EXCEPT ![SettleChannel(send)] = l]
    /\ misfiled' = misfiled \union {c \in {open, send.c} : open # send.c}
    /\ drift' = drift \union {c \in {send.c} : send.st = "served"}
    /\ send' = NoWrite
    /\ UNCHANGED <<server, stream, screen, fetch, act, used>>

\* doDelete and doToggleReaction, on a confirmed message of the timeline.
Act(s, stage) ==
    /\ act.st = "none" /\ used.changes < MaxChanges
    /\ tl[open] # NoData
    /\ \E i \in 1..Len(tl[open]) : tl[open][i].seq = s /\ s > 0 /\ tl[open][i].stage < 2
    /\ act' = [st |-> "asked", c |-> open, s |-> s, stage |-> stage]
    /\ used' = [used EXCEPT !.changes = @ + 1]
    /\ UNCHANGED <<server, stream, screen, caches, send, races>>

ServeAct ==
    /\ act.st = "asked" /\ act.s \in 1..Len(log[act.c]) /\ log[act.c][act.s].stage < act.stage
    /\ CommitChange(act.c, act.s, act.stage)
    /\ act' = [st |-> "served", c |-> act.c, s |-> act.s, stage |-> act.stage,
               m |-> DTO(log'[act.c], act.s)]
    /\ UNCHANGED <<frames, stream, screen, caches, send, used, races>>

ActAnswered ==
    /\ act.st = "served"
    /\ ~ \E f \in unpub : f.c = act.c /\ f.m.seq = act.s /\ f.m.stage = act.stage
    /\ tl' = tlWith(SettleChannel(act), act.m)
    /\ th' = thWith(SettleChannel(act), act.m)
    /\ misfiled' = misfiled \union {c \in {open} : open # act.c}
    /\ drift' = drift \union {c \in {act.c} : Outdated(c, act.s, act.stage)}
    /\ act' = NoWrite
    /\ UNCHANGED <<server, stream, screen, fetch, send, used>>

ActFails ==
    /\ act.st \in {"asked", "served"}
    /\ act' = NoWrite
    /\ UNCHANGED <<server, stream, screen, caches, send, used, races>>

-----------------------------------------------------------------------------
(* Fetches.  A fetch that finds one in flight joins it, unless it was asked *)
(* to cancel it and the cache already holds data.                          *)

Data(k) == IF k[1] = "timeline" THEN tl[k[2]] ELSE th[k[2]]
Observed(k) == k[2] = open /\ (k[1] = "timeline" \/ threadOpen)
Asked == [IdleFetch EXCEPT !.st = "asked"]

MayFetch == used.fetches < MaxFetches
StartFetch(f, k) == IF f[k].st = "idle" THEN [f EXCEPT ![k] = Asked] ELSE f

\* nav.selectChannel: the thread closes, the channel's timeline is stale.
OpenChannel(c) ==
    /\ c # open /\ MayFetch
    /\ open' = c /\ threadOpen' = FALSE
    /\ fetch' = StartFetch(fetch, <<"timeline", c>>)
    /\ used' = [used EXCEPT !.fetches = @ + 1]
    /\ UNCHANGED <<server, stream, tl, th, writes, races>>

OpenThread ==
    /\ ~threadOpen /\ MayFetch
    /\ tl[open] # NoData
    /\ \E i \in 1..Len(tl[open]) : LET m == tl[open][i] IN
          m.seq = Root /\ (m.stage < 2 \/ m.replies > 0)
    /\ threadOpen' = TRUE
    /\ fetch' = StartFetch(fetch, <<"thread", open>>)
    /\ used' = [used EXCEPT !.fetches = @ + 1]
    /\ UNCHANGED <<server, stream, open, tl, th, writes, races>>

CloseThread ==
    /\ threadOpen /\ threadOpen' = FALSE
    /\ UNCHANGED <<server, stream, open, caches, writes, used, races>>

\* refetchInterval: only while the stream is down.
Poll(k) ==
    /\ ~live /\ Observed(k) /\ MayFetch /\ fetch[k].st = "idle"
    /\ fetch' = StartFetch(fetch, k)
    /\ used' = [used EXCEPT !.fetches = @ + 1]
    /\ UNCHANGED <<server, stream, screen, tl, th, writes, races>>

ServeFetch(k) ==
    /\ fetch[k].st = "asked"
    /\ k[1] = "thread" => Len(log[k[2]]) >= Root
    /\ \E snap \in Snapshots(k) :
          fetch' = [fetch EXCEPT ![k] = [st |-> "ready", snap |-> snap, upto |-> Len(frames)]]
    /\ UNCHANGED <<server, stream, screen, tl, th, writes, used, races>>

FetchFails(k) ==
    /\ fetch[k].st # "idle"
    /\ fetch' = [fetch EXCEPT ![k] = IdleFetch]
    /\ drift' = drift \union {c \in {k[2]} : k[1] = "timeline"}
    /\ UNCHANGED <<server, stream, screen, tl, th, writes, used, misfiled>>

\* The answer replaces the cache: frames that came while it was on its way
\* are overwritten.
Overtaken(k) == \E i \in (fetch[k].upto + 1)..at : frames[i].c = k[2]

ApplyFetch(k) ==
    /\ fetch[k].st = "ready"
    /\ IF k[1] = "timeline"
       THEN /\ tl' = [tl EXCEPT ![k[2]] = fetch[k].snap] /\ th' = th
            /\ drift' = IF Overtaken(k) THEN drift \union {k[2]} ELSE drift \ {k[2]}
            /\ misfiled' = misfiled \ {c \in {k[2]} : th[c] = NoData}
       ELSE th' = [th EXCEPT ![k[2]] = fetch[k].snap] /\ UNCHANGED <<tl, races>>
    /\ fetch' = [fetch EXCEPT ![k] = IdleFetch]
    /\ UNCHANGED <<server, stream, screen, writes, used>>

-----------------------------------------------------------------------------
(* The event stream (useChatEvents).                                       *)

Deliver ==
    /\ live /\ at < Len(frames)
    /\ LET f == frames[at + 1]
       IN  /\ applyFrame(f)
           /\ drift' = drift \union {c \in {f.c} : Outdated(c, f.m.seq, f.m.stage)}
    /\ at' = at + 1 /\ heard' = TRUE
    /\ UNCHANGED <<server, live, screen, fetch, writes, used, misfiled>>

StreamBreaks ==
    /\ live /\ used.drops < MaxDrops
    /\ live' = FALSE
    /\ used' = [used EXCEPT !.drops = @ + 1]
    /\ UNCHANGED <<server, at, heard, screen, caches, writes, races>>

Missed(c) == \E i \in (at + 1)..Len(frames) : frames[i].c = c

\* A connection resumes after the last frame received while the ring still has
\* what follows it.  Without a cursor it starts at the newest frame.
StreamOpens ==
    /\ ~live /\ live' = TRUE
    /\ heard => Len(frames) - at <= RingCap
    /\ at' = IF heard THEN at ELSE Len(frames)
    /\ drift' = IF heard THEN drift
                ELSE drift \union {c \in Channels : tl[c] # NoData /\ Missed(c)}
    /\ UNCHANGED <<server, heard, screen, caches, writes, used, misfiled>>

StreamResets_NoRefetch ==
    /\ ~live /\ live' = TRUE
    /\ heard /\ Len(frames) - at > RingCap
    /\ at' = Len(frames)
    /\ UNCHANGED <<server, heard, screen, caches, writes, used, races>>

\* Otherwise the server sends "reset": every chat query is invalidated and the
\* observed ones are fetched again.
StreamResets ==
    /\ ~live /\ live' = TRUE
    /\ heard /\ Len(frames) - at > RingCap
    /\ at' = Len(frames)
    /\ fetch' = [k \in Keys |-> IF Observed(k) /\ (fetch[k].st = "idle" \/ Data(k) # NoData)
                                THEN Asked ELSE fetch[k]]
    /\ UNCHANGED <<server, heard, screen, tl, th, writes, used, races>>

-----------------------------------------------------------------------------
Next ==
    \/ \E c \in Channels, r \in {0, Root} : OtherPosts(c, r)
    \/ \E c \in Channels, s \in 1..MaxMsgs, g \in 1..2 : OtherChanges(c, s, g)
    \/ \E f \in unpub : Publish(f)
    \/ \E r \in {0, Root} : Send(r)
    \/ ServeSend \/ SendAnswered \/ SendFails
    \/ \E s \in 1..MaxMsgs, g \in 1..2 : Act(s, g)
    \/ ServeAct \/ ActAnswered \/ ActFails
    \/ \E c \in Channels : OpenChannel(c)
    \/ OpenThread \/ CloseThread
    \/ \E k \in Keys : Poll(k) \/ ServeFetch(k) \/ FetchFails(k) \/ ApplyFetch(k)
    \/ Deliver \/ StreamBreaks \/ StreamOpens \/ StreamResets

Spec == Init /\ [][Next]_vars

-----------------------------------------------------------------------------
Lists(c) == {l \in {tl[c], th[c]} : l # NoData}

TypeOK ==
    /\ \A c \in Channels : \A l \in Lists(c) : \A i \in DOMAIN l :
          l[i].seq \in 0..MaxMsgs /\ l[i].stage \in 0..2 /\ l[i].replies \in Nat
    /\ at \in 0..Len(frames) /\ open \in Channels /\ drift \union misfiled \subseteq Channels
    /\ \A k \in Keys : fetch[k].st \in {"idle", "asked", "ready"}

\* A message is shown once: the optimistic copy, the answer to the POST, the
\* frame and a fetch all land on one entry, in whatever order they come.
NoTwin ==
    \A c \in Channels : \A l \in Lists(c) : \A i, j \in DOMAIN l :
        i # j => c \in misfiled \/ (l[i].id # l[j].id /\ (l[i].seq > 0 => l[i].seq # l[j].seq))

\* An optimistic copy is on screen only while its send is in flight, unless the
\* user has changed channels in between.
PendingHasSend ==
    \A c \in Channels : \A l \in Lists(c) : \A i \in DOMAIN l :
        l[i].seq = 0 => (send.st # "none" /\ send.id = l[i].id) \/ c \in misfiled

\* A cached timeline holds messages of its own channel, unless the user changed
\* channels while a write was in flight.
NoForeign ==
    \A c \in Channels : tl[c] # NoData =>
        \A i \in DOMAIN tl[c] : LET m == tl[c][i] IN
            m.seq > 0 => (m.seq <= Len(log[c]) /\ log[c][m.seq].id = m.id) \/ c \in misfiled

\* Every post is one row, pending or sent, on every list it belongs to and on
\* no other.
OneRowPerPost == TypeOK /\ NoTwin /\ PendingHasSend /\ NoForeign

\* "The stream IS the refetch": on a stream that is open and has nothing left
\* to deliver, the timeline on screen is the server's, unless one of the races
\* recorded in drift has touched it since it was last fetched.
Shown(l) == {[seq |-> l[i].seq, stage |-> l[i].stage] : i \in {j \in DOMAIN l : l[j].seq > 0}}
Caught ==
    /\ live /\ at = Len(frames) /\ unpub = {}
    /\ tl[open] # NoData /\ fetch[<<"timeline", open>>].st = "idle"
StreamIsRefetch ==
    Caught /\ open \notin drift \union misfiled =>
        Shown(tl[open]) = {[seq |-> s, stage |-> log[open][s].stage] : s \in TopLevel(log[open])}
\* A thread badge counts the live replies, under the same conditions.
Badges(l) == {<<l[i].seq, l[i].replies>> : i \in {j \in DOMAIN l : l[j].seq > 0}}
BadgeExact ==
    Caught /\ open \notin drift \union misfiled /\ fetch[<<"thread", open>>].st = "idle"
        => Badges(tl[open]) = {<<s, DTO(log[open], s).replies>> : s \in TopLevel(log[open])}
=============================================================================
