----------------------------- MODULE WebQueries -----------------------------
(***************************************************************************)
(* The server state a browser tab holds in its query cache                 *)
(* (web/src/api/queries.ts) and keeps true by three means: a mutation puts *)
(* its answer into some entries and invalidates others, the views that are *)
(* on screen poll, and a view that comes back refetches what is stale.     *)
(* Drags of the Kanban board and the Gantt chart also show their effect    *)
(* before the server has it.                                               *)
(*                                                                         *)
(* Entries do not read one another, so a behaviour follows one of them,    *)
(* chosen at the start, through the writes of its part of the app. Data is *)
(* the version of the server's state it was read at, with the local edits  *)
(* made on top of it since.                                                *)
(***************************************************************************)
EXTENDS QueryCache, FiniteSets

CONSTANTS
    Keys,        \* the entries a run follows, one in each behaviour
    MaxWrites,   \* writes of this tab
    MaxOthers,   \* writes of other clients
    MaxFails,    \* requests that fail
    MaxFlips     \* times a view is opened or closed

VARIABLES
    key,
    version,  \* the server's state
    entry,
    shown,    \* a view on screen observes the entry
    editor,   \* the view a drag starts in is mounted
    writes,   \* mutations of the tab
    own,      \* history: the newest of the tab's settled writes the entry must show
    raced,    \* history: one of the races below has touched the entry
    used

vars == <<key, version, entry, shown, editor, writes, own, raced, used>>

-----------------------------------------------------------------------------
(* What each kind of write does to the entries, hook by hook: those that   *)
(* take its answer, those it invalidates, those it edits in place once     *)
(* accepted, and those it edits beforehand.                                *)

Row(set, inv, edit, guess) == [set |-> set, inv |-> inv, edit |-> edit, guess |-> guess]

TaskRows_NotMine ==
    [create |-> Row({}, {"tasks"}, {}, {}),
     update |-> Row({"task"}, {"tasks"}, {}, {}),
     drag   |-> Row({"task"}, {"tasks"}, {}, {"tasks"})]
TaskRows ==
    [create |-> Row({}, {"tasks", "tasksMine"}, {}, {}),
     update |-> Row({"task"}, {"tasks", "tasksMine"}, {}, {}),
     drag   |-> Row({"task"}, {"tasks", "tasksMine"}, {}, {"tasks"})]
BoardRows == [change |-> Row({}, {"whiteboards"}, {}, {})]
PinRows == [change |-> Row({"pins"}, {"pins"}, {}, {})]
NotifRows == [mark |-> Row({}, {}, {"notifs"}, {})]
ChannelRows ==
    [create |-> Row({}, {"chatChannels"}, {}, {}),
     admin  |-> Row({}, {"chatChannels", "chatUnreads"}, {}, {})]
AdminRows ==
    [backupRun |-> Row({}, {"adminBackups"}, {}, {}),
     configSet |-> Row({}, {"adminBackups", "adminBackupConfig"}, {}, {}),
     cleanup   |-> Row({}, {"adminDisk"}, {}, {}),
     logo      |-> Row({}, {"meta"}, {}, {})]

Rows(k) == CASE k \in {"tasks", "task", "tasksMine"}     -> TaskRows
             [] k \in {"chatChannels", "chatUnreads"}    -> ChannelRows
             [] k = "whiteboards"                        -> BoardRows
             [] k = "pins"                               -> PinRows
             [] k = "notifs"                             -> NotifRows
             [] OTHER                                    -> AdminRows

\* The kinds of write that change what the entry reads on the server.
Concerns == [task |-> {"update", "drag"}, tasks |-> DOMAIN TaskRows, tasksMine |-> DOMAIN TaskRows,
             whiteboards |-> {"change"}, pins |-> {"change"}, notifs |-> {"mark"},
             chatChannels |-> DOMAIN ChannelRows, chatUnreads |-> {"admin"},
             adminBackups |-> {"backupRun", "configSet"}, adminBackupConfig |-> {"configSet"},
             adminDisk |-> {"cleanup"}, meta |-> {"logo"}]

\* refetchInterval. The channel list is polled only while the chat stream is
\* down.
Polled == {"tasks", "tasksMine", "whiteboards", "notifs", "chatChannels", "chatUnreads"}
\* refetchOnReconnect.
OnReconnect == Polled \union {"task"}

-----------------------------------------------------------------------------
Data(v, local) == [v |-> v, local |-> local]
Local(e, id) == IF e.data = NoData THEN e ELSE SetData(e, [e.data EXCEPT !.local = @ \union {id}])

Init ==
    /\ key \in Keys
    /\ version = 0 /\ entry = Ask(Empty) /\ shown = TRUE /\ editor = TRUE
    /\ writes = {} /\ own = 0 /\ raced = FALSE
    /\ used = [own |-> 0, others |-> 0, fails |-> 0, flips |-> 0]

OtherWrites ==
    /\ used.others < MaxOthers
    /\ version' = version + 1
    /\ used' = [used EXCEPT !.others = @ + 1]
    /\ UNCHANGED <<key, entry, shown, editor, writes, own, raced>>

\* A mutation starts. One that edits the list beforehand needs its editor on
\* screen and the list loaded; setting the data lowers the invalidation flag,
\* even when the refetch it asked for has not answered.
Mutate(kind) ==
    /\ used.own < MaxWrites
    /\ LET row   == Rows(key)[kind]
           id    == used.own + 1
           guess == key \in row.guess
       IN  /\ row.guess # {} => editor
           /\ guess => entry.data # NoData
           /\ entry' = IF guess THEN Local(entry, id) ELSE entry
           /\ raced' = (raced \/ (guess /\ entry.invalid))
           /\ writes' = writes \union
                {[id |-> id, kind |-> kind, st |-> "asked", ver |-> 0, call |-> row.guess # {}]}
    /\ used' = [used EXCEPT !.own = @ + 1]
    /\ UNCHANGED <<key, version, shown, editor, own>>

ServeWrite(w) ==
    /\ w.st = "asked"
    /\ version' = version + 1
    /\ writes' = (writes \ {w}) \union {[w EXCEPT !.st = "served", !.ver = version + 1]}
    /\ UNCHANGED <<key, entry, shown, editor, own, raced, used>>

\* onSuccess: the answer or the local edit goes in, then the invalidation.
SettleEntry(e, w, row) ==
    LET s == IF key \in row.set THEN SetData(e, Data(w.ver, {}))
             ELSE IF key \in row.edit THEN Local(e, w.id) ELSE e
    IN  IF key \in row.inv THEN Invalidate(s, shown) ELSE s

\* A settled write races with a fetch in flight that it does not restart (the
\* entry is not invalidated, or has no data, or is off screen), and an answer
\* put into an entry with one that came before it.
Newer(w) == entry.data # NoData /\ entry.data.v > w.ver
Crossed(w, row) ==
    \/ InFlight(entry) /\ (key \notin row.inv \/ entry.data = NoData \/ ~shown)
    \/ key \in (row.set \union row.edit) \ row.inv /\ (entry.invalid \/ Newer(w))

Settle(w) ==
    /\ w.st = "served"
    /\ LET row == Rows(key)[w.kind]
       IN  /\ entry' = SettleEntry(entry, w, row)
           /\ raced' = (raced \/ (w.kind \in Concerns[key] /\ Crossed(w, row)))
           /\ own' = IF w.kind \in Concerns[key] /\ w.ver > own /\ key \notin row.edit
                     THEN w.ver ELSE own
    /\ writes' = writes \ {w}
    /\ UNCHANGED <<key, version, shown, editor, used>>

\* The callback given to mutate() runs only for the last call of that hook, and
\* only while the component that called it is mounted.
Latest(w) == editor /\ \A x \in writes : x.call => x.id <= w.id

\* The write fails: it never reached the server, was refused, or its answer was
\* lost. A drag's own onError invalidates the list it had edited.
WriteFails(w) ==
    /\ used.fails < MaxFails
    /\ entry' = IF key \in Rows(key)[w.kind].guess /\ Latest(w) THEN Invalidate(entry, shown)
                ELSE entry
    /\ writes' = writes \ {w}
    /\ used' = [used EXCEPT !.fails = @ + 1]
    /\ UNCHANGED <<key, version, shown, editor, own, raced>>

\* The list, board and chart of the Tasks tab replace one another.
SwitchView ==
    /\ key \in {"tasks", "task", "tasksMine"} /\ used.flips < MaxFlips
    /\ editor' = ~editor
    /\ used' = [used EXCEPT !.flips = @ + 1]
    /\ UNCHANGED <<key, version, entry, shown, writes, own, raced>>

-----------------------------------------------------------------------------
\* A view opens: what is stale, by the flag or by age, is fetched.
Show ==
    /\ ~shown /\ used.flips < MaxFlips
    /\ shown' = TRUE
    /\ \/ entry' = Ask(entry)
       \/ Trusted(entry) /\ UNCHANGED entry
    /\ used' = [used EXCEPT !.flips = @ + 1]
    /\ UNCHANGED <<key, version, editor, writes, own, raced>>

Hide ==
    /\ shown /\ used.flips < MaxFlips
    /\ shown' = FALSE
    /\ used' = [used EXCEPT !.flips = @ + 1]
    /\ UNCHANGED <<key, version, entry, editor, writes, own, raced>>

\* A poll that would change nothing is left out.
Poll_WhenInvalid ==
    /\ shown /\ key \in Polled /\ ~InFlight(entry) /\ entry.invalid
    /\ entry' = Ask(entry)
    /\ UNCHANGED <<key, version, shown, editor, writes, own, raced, used>>
Poll ==
    /\ shown /\ key \in Polled /\ ~InFlight(entry)
    /\ entry # SetData(entry, Data(version, {}))
    /\ entry' = Ask(entry)
    /\ UNCHANGED <<key, version, shown, editor, writes, own, raced, used>>

\* The network comes back: what is stale on screen is fetched again.
Reconnect ==
    /\ shown /\ key \in OnReconnect /\ entry.invalid /\ ~InFlight(entry)
    /\ entry' = Ask(entry)
    /\ UNCHANGED <<key, version, shown, editor, writes, own, raced, used>>

ServeFetch ==
    /\ entry.st = "asked"
    /\ entry' = Answer(entry, Data(version, {}))
    /\ UNCHANGED <<key, version, shown, editor, writes, own, raced, used>>

ApplyFetch ==
    /\ entry.st = "ready"
    /\ entry' = Apply(entry)
    /\ raced' = (raced /\ entry.ans.v < own)
    /\ UNCHANGED <<key, version, shown, editor, writes, own, used>>

FetchFails ==
    /\ InFlight(entry) /\ used.fails < MaxFails
    /\ entry' = Fail(entry)
    /\ used' = [used EXCEPT !.fails = @ + 1]
    /\ UNCHANGED <<key, version, shown, editor, writes, own, raced>>

Next ==
    \/ OtherWrites
    \/ \E kind \in DOMAIN Rows(key) : Mutate(kind)
    \/ \E w \in writes : ServeWrite(w) \/ Settle(w) \/ WriteFails(w)
    \/ SwitchView \/ Show \/ Hide
    \/ Poll \/ Reconnect \/ ServeFetch \/ ApplyFetch \/ FetchFails

\* The poll's timer, the server and the browser's event loop keep running.
Fairness == WF_vars(Poll) /\ WF_vars(ServeFetch) /\ WF_vars(ApplyFetch)

Spec == Init /\ [][Next]_vars
FairSpec == Spec /\ Fairness

-----------------------------------------------------------------------------
DataType == [v : 0..(MaxWrites + MaxOthers), local : SUBSET (1..MaxWrites)]
TypeOK ==
    /\ key \in Keys /\ version \in 0..(MaxWrites + MaxOthers)
    /\ shown \in BOOLEAN /\ raced \in BOOLEAN
    /\ entry.data \in DataType \union {NoData}
    /\ entry.st \in {"idle", "asked", "ready"}
    /\ entry.st = "ready" => entry.ans \in DataType

\* A write of the tab shows in every view of what it changed: an entry older
\* than it is marked stale or is being fetched again, unless the write crossed
\* a fetch it does not restart.
OwnWritesShow == Trusted(entry) /\ entry.data.v < own => raced

\* A polled view on screen comes to show the server's state, with no local edit
\* left that the server refused.
PolledViewsConverge == []<>(shown /\ key \in Polled => entry.data = Data(version, {}))
=============================================================================
