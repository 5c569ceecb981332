# A verification of FusionOnPremServer

TLA+ models of the parts of this server in which order, concurrency and failure
matter, the TLC configurations that check them on small instances, and theorems
about them that hold for every instance. `PROJECT.json` maps every definition
to the lines it was translated from. Source paths are relative to the
repository (`src/` in `PROJECT.json`).

To check one run: `tlc -config MCBoardSync.cfg MCBoardSync`. To check the
proofs of a module: `tlapm BoardSyncProofs.tla`.

Contents: [1 the system](#1-the-system) · [2 the modules](#2-the-modules) ·
[3 the runs](#3-the-runs) · [4 fairness](#4-fairness) · [5 the proofs](#5-the-proofs) ·
[6 where code and documentation disagree](#6-where-code-and-documentation-disagree) ·
[7 what is not modelled](#7-what-is-not-modelled) · [8 plan](#8-plan)

## 1 The system

A Go server that a company runs on its own premises in front of Autodesk Fusion,
and a React application it serves. Everything the Fusion cloud knows is read
over Autodesk Platform Services (APS); everything that is the server's own
(chat, whiteboards, tasks, production jobs, pins, notifications, sessions) lives
in JSON files, one directory per hub and project. One process, no database: all
coordination is mutexes, channels and atomically renamed files.

### Components

| Component | Sources | State | Operations | Model |
|---|---|---|---|---|
| APS points scheduler | `internal/apsbudget/scheduler.go`, `bucket.go` | a heap of waiters per lane, slots in flight, cooldowns, a timer per lane, the shared points bucket | `Acquire`, `Release`, `Trip`, `Close`, `Snapshot`, timer callbacks | `ApsScheduler` |
| Coalescing cache | `internal/apsbudget/coalesce.go` | singleflight per key, an LRU with a TTL and byte count | `Do`, `InvalidateSubject` | `CoalescingCache` |
| APS client | `api/client.go`, `budget.go`, `cost.go`, `fanout.go` | learnt costs | `gqlQueryAt`, `doREST`, retries, fan-out | as callers of the two above |
| SSE hub | `internal/sse/hub.go` | per room: epoch, sequence, replay ring, subscribers with bounded channels | `Publish`, `PublishEphemeral`, `Subscribe`, `Unsubscribe`, `CloseAll` | `SseHub`, `EventStream` |
| Event streams | `server/handlers_chat_events.go`, `handlers_whiteboard_events.go`, `web/src/**/use*Events.ts` | a stream per tab, its cursor | replay, live loop, entitlement, revocation, reconnect | `SseHub` |
| Whiteboard rooms | `whiteboards/room.go`, `patch.go` | record map, revision, tombstones, last sequence number per tab | `apply`, `replace` | `BoardRoom` |
| Whiteboard live editing | `web/src/whiteboards/useBoardSync.ts`, `sync/protocol.ts`, `server/handlers_whiteboard_sync.go` | canvas, applied revision, queue, request in flight | send, retry, answer, frame, resync | `BoardSync` |
| Whiteboard store and janitor | `whiteboards/rooms.go`, `store.go`, `snapshot.go`, `server/handlers_whiteboards.go` | live rooms, cached metadata, files | join, load, flush, evict, save, create, rename, delete | `BoardStore` |
| Backup engine | `backup/*.go`, `server/handlers_backup.go` | snapshots, manifest, schedule | run, rotate, verify, restore | what it does to boards: `BoardStore` |
| Chat store | `chat/*.go` | messages in segments, cursors, unread counts, ACL, the event epoch | post, edit, react, read, create, delete | the epoch: `SseHub`; messages and threads: `ChatClient` |
| Production store | `production/*.go` | jobs, their plan graph, frozen runs, id counters | steps, edges, results, placeholders, documents, runs, fulfilments, duplicate, delete | `ProductionStore` |
| Wiki pages | `api/wiki_*.go`, `web/src/wiki/` | versions on the data service; drafts, editor and autosave in the tab | publish, restore, refresh, edit, import, delete | `WikiClient` |
| Web chat client | `web/src/chat/`, the chat hooks of `web/src/api/queries.ts` | timelines, threads, pending copies | send, delete, react, open, frames, reset, poll | `ChatClient` |
| Web job editor | `web/src/production/` | the cached job, drafts of fields, drag override, selection | drag, add, chain, type, delete | `JobEditor` |
| Web data cache | `web/src/api/queries.ts` | an entry per query | write, optimistic edit, invalidate, poll | `QueryCache`, `WebQueries` |
| Web navigation | `web/src/state/nav.tsx`, `navUrl.ts`, `goto.ts` | the place shown, the address, the history stack | reducer actions, jumps, backstops, back and forward | `Navigation` |
| Web session gates | `web/src/App.tsx`, `components/*Gate.tsx`, `AppLayout.tsx`, `api/client.ts` | the screen, the cached `AuthMe`, the remembered hub | sign in, lock, switch, consent, log out, 401, 409 | `SessionGate` |
| Web date picker and calendar | `web/src/fmt/dates.ts`, `components/DateField.tsx` | the field's day, the focused day of the grid | open, move, turn months, pick, clear | `Calendar`, `DateField` |
| Web Gantt chart | `web/src/tasks/gantt/` | the tasks shown, the zoom, the folded stages | zoom, fold, a new list | `GanttChart` (dragging and the dialogs are not modelled) |
| Web version history | `web/src/components/history/` | versions, the history behind them, the view's switches | answers, thread, changes, show all, resize | `HistoryTimeline` |
| Web activity heat map | `components/ActivityHeatmap.tsx`, `hub/HubPulse.tsx`, `hub/pulseReport.ts` | the reports of its host, granularity, anchor | step, zoom, roll up, turn | `ActivityHeatmap` |
| Web relation graph | `components/RelationGraph.tsx`, `relationCap.ts` | the document, direction, view, pictures asked for | open, fit, move, load all | `RelationGraph` |
| Tasks, notifications, pins | `tasks/`, `notifications/`, `pins/` | numbered records, capped inboxes, per-user files | create, update, read, pin | only as the server behind `WebQueries` |
| Sessions and sign-in | `auth/`, `server/session*.go`, `server/auth.go` | sessions, tokens, the persisted file | sign in, refresh, sign out, expire | what a tab sees of it: `SessionGate` |
| Hub stores and hub gate | `server/hubstores.go`, `hubgate.go`, `server.go` | opened stores per hub | open, close, drain, restart | `closeAll`: `BoardStore`; the gate: `SessionGate` |
| Uploads | `server/uploads.go`, `handlers_upload.go`, `web/src/state/uploads.tsx`, `components/UploadDialog.tsx` | jobs per session, slots; files chosen, the list of jobs, the folders shown | post, cancel, dismiss, poll, notice; the file drag | `Uploads`, `FileDrag` |
| Archives, Fusion tickets | `server/archives.go`, `fusiontickets.go`, `handlers_fusion.go`, `web/src/state/fusionActions.tsx` | archive jobs, tickets, inbox rows; actions in flight | act, mint, redeem, report, sweep, archive, download | `FusionActions` |
| Desktop helper | `cmd/fls-helper/`, `internal/fusion*` | pairing | pair, launch | as the environment of `FusionActions` |
| Migration, file formats | `internal/migrate/`, `atomicfile/`, `schemameta/` | the directory layout | migrate, write | not modelled |
| HTTP plumbing, other UI, packaging | `server/*.go`, `web/src/`, `deploy/`, `desktop/`, `docs/` | none that is shared | | not modelled |

### How they interact

* Every APS request goes through the cache (a flight per key), then the
  scheduler (a slot and points), then the network; a 429 comes back as `Trip`.
* A store handler changes its state under the store's mutex and *then*, having
  unlocked it, publishes to the SSE hub: the hub is a lossy hint, the store the
  truth.
* A board that is being edited exists three times: in the browsers, in the live
  room and in the file. Patches go browser → room → (hub) → browsers; the
  janitor (`Sweep`) writes the room to the file; whole-document saves go to the
  file first and to the room afterwards.
* The administrator's backup, restore and project deletion reach around all of
  this: to the files, then to the caches and rooms.
* A tab resumes its stream with `Last-Event-ID`; the hub compares the epoch,
  which comes from the chat store's `meta.json` and is bumped when it is loaded.
* In the tab everything read goes through one query cache. Three writers meet in
  an entry: the answer of a fetch, the answer of a mutation (`setQueryData`), and
  a frame of the stream; invalidation and polling repair what they leave.
* The session is the browser's, the place is the tab's: every tab learns of a
  switch of hubs, a logout or a lost lock when it next asks for `AuthMe` or is
  answered 401 or 409.

### What is hard, and what makes each part correct

* **Scheduler.** A waiter times out while it is being dispatched; a timer is
  computed from a level that the other lane, corrections and 429s then change;
  `Close` meets all of it. *No slot is leaked or granted twice, no wake-up is
  lost or late, priority, reserve and cooldown are respected, every wait ends.*
* **Cache.** A flight overlaps a write and its invalidation; its leader leaves.
  *Limits hold, answers are no older than promised, joiners are answered.*
* **SSE hub.** Replay meets live frames; channels overflow; the process restarts
  and numbers from one again. *A client with a cursor is never moved past an
  event without receiving it or being told to refetch.*
* **Rooms.** Patches built on old revisions, repeated, racing deletions.
  *Deletions win; the broadcast is the whole change; memory is bounded.*
* **Live editing.** Answers overtake frames, frames are published out of order,
  requests fail after they were applied. *A canvas shows a document the board
  had; when all is quiet every canvas is the room's.*
* **Board store.** Flushes fail half-way, rooms are evicted and reloaded, saves
  and restores go around the rooms, the server crashes. *No acknowledged stroke
  is lost by the machinery; file and room keep in step; backups are complete.*
* **Chat client.** A post comes as a pending copy, an answer, a frame and a row
  of a fetch, in any order, while the user changes channels. *One row per post,
  in its channel; the stream leaves what a refetch would.*
* **Query cache.** Mutations cross polls and each other. *A list does not hide
  the tab's own write, does not go back, and converges.*
* **Job plans.** Long sequences of edits, runs that outlive the plan they copied.
  *The plan is an acyclic graph with live ends, ids are not reused, a run
  records what its own copy asks for.* In the editor: *no answer eats what is
  typed, nothing shown in place of the job stays behind.*
* **Wiki drafts.** Timers and answers close over text that has moved on. *Typed
  text is not lost to them.*
* **Navigation.** Answers that land after the user has moved. *The address
  reopens the place, the entries ahead of a back survive, a place is completed.*
* **Session gates.** Several tabs, one session. *The rows on screen are the hub's;
  no tab stays on a session that is gone.*
* **Uploads, archives, Fusion actions.** A job ends while its tab polls, dismisses or
  reads a cached listing; a link to the desktop is answered late or never. *What
  ended is noticed and shown; every action ends; no drag strands the overlay.*
* **Layouts.** Two computations of the same picture (pixels and days, a line and
  the dots it joins, cells and the strip above them) agree only by arithmetic,
  over months of different lengths and days of 23 and 25 hours. *Every item is
  shown once, and what is computed apart agrees.*

`PROJECT.json` lists these hazards line by line with the properties that cover
them, or the reason why none does.

## 2 The modules

```
ApsScheduler ── ApsSchedulerProofs        BoardStore ── BoardStoreProofs
EventStream  <── refined by ── SseHub     CoalescingCache     ChatClient ── ChatClientProofs
BoardRoom
    └── BoardSync (EXTENDS BoardRoom) ── BoardSyncProofs (of both)
ProductionStore   Navigation   SessionGate   WikiClient   FileDrag
QueryCache
    ├── JobEditor
    ├── WebQueries
    └── Uploads, FusionActions
Calendar
    └── DateField, GanttChart, HistoryTimeline, ActivityHeatmap      RelationGraph

MCRoomAndHub = BoardRoom | SseHub | CoalescingCache ── SseHubProofs (hub and cache)
MCProduction = ProductionStore | JobEditor ── ProductionStoreProofs
MCWebPages   = Navigation | WebQueries | WikiClient | SessionGate ── WebPagesProofs
MCWebActions = Uploads | FileDrag | FusionActions ── WebActionsProofs
MCLayouts    = DateField | GanttChart | HistoryTimeline | ActivityHeatmap | RelationGraph
```

`MC<Module>` gives the constants of `<Module>` values for TLC. Five of them check
several modules that share no state: a variable `part` names the one a behaviour
is about, and the others stand still in an initial state. What such a run says of
each is what a run of its own would say. Their constants are given values in the
configurations, so that the proofs, which extend four of them, are about any. A definition
`Name_Change` next to `Name` is a plausible mistake in that piece of code; it is
used nowhere in the specification, and putting it in `Name`'s place makes TLC
find the property it endangers violated (`mutants` in `PROJECT.json`).

**ApsScheduler** – `Scheduler` and `bucket`. A call's life is `pc`: idle,
waiting in a heap, holding a slot, rate-limited, done or refused. Each method is
one critical section under `s.mu`. `kickLocked` is a loop inside it: `Kick` is
its prologue (stop the timer, refill the bucket), `Dispatch(l)` one iteration,
`EndKick(l)` its end (arm the timer); `mu` names the lane being kicked, and while
it is not `Free` no other method may start. A fired timer (`Fire`) and its
callback getting the lock (`Tick`) are two steps, since `Stop` cannot recall a
callback that has started. Deadlines are kept as what remains of them and points are whole numbers;
the bucket is refilled lazily, so `since` counts the time since the last refill.
`CostsFit` (a call's cost and reserve fit into a full bucket) is what makes
service possible at all: the static estimates (`api/cost.go`) lie far below the
6000 points of a full bucket, of which at most 35 % are held in reserve.

**EventStream** – what the hub promises one room's clients, with no ring,
channel, cursor or process in it. **SseHub** – `Hub` for one room (rooms do not
interact), the stream loop, the EventSource and the durable epoch. A frame is
the number of the event it carries; `log` remembers every event's id. A private
event may be passed over for a client that is not entitled. `NoSilentGap` is
`EventStream!Spec` under `Clients <- Tabs`, `len <- Len(log)`,
`open <- {c : conn[c] # "closed"}`, `known <- {c : cursor[c] # None}`. What
`Subscribe` answers a cursor with is `Replay`: the end of the ring behind the
cursor (`After`), or a reset.
Ring expiry is left open: any prefix of the ring may have expired.

**BoardRoom** – `Room.apply` and `Room.replace` for a request with any base
revision and sequence number. Records are opaque; what the server reads of one is its id's
class and which shapes a binding joins. The size limit counts records. `hist`
and `sent` keep what the room forgets: each revision's document and the frame
that announced it. A refused oversized patch leaves the changed records behind,
as the code does. `ClientRequests` are the requests a tab may send: built on a
document it has seen, self-consistent as tldraw keeps it.

**BoardSync** – both ends of the protocol over that room. Requests, answers and
frames travel separately; a handler past the room's lock publishes later, so
frames may be published in the other order. The queue is kept squashed. A
document read in progress (`gets`) is asked, answered by the room, and loaded:
three steps, and two may be under way at once. The stream is what `EventStream`
promises; `StreamReset` is the jump that the board's tab ignores.

**BoardStore** – `Rooms`, `Store`, the PUT handler, and the administrator's
requests. A document is the set of edits it contains. Each store operation is
two steps, the lookup of the project's state object (`Project`, under
`Store.mu`) and the work under the object's own mutex, because the object may be
evicted in between; operations of `Rooms` hold `rs.mu` across both. The sweeper
may flush any dirty room and evict any unused one at any time. A write is saved,
torn (document written, metadata not) or failed. Two marks in a document stand for
what the code tells apart besides its edits: `Excess`, that it is longer than
`saveSnapshotAtRev` takes, which a patch that was refused half-applied, or accepted
by the sum of its records, may make it (every flush then fails); and `Garbled`, that
it is JSON the file takes and `Room.replace` does not (`Replace` then leaves the room
as it was, and drops the error). `patched`, `gone`, `wiped` and a room's `behind` are
history: what was acknowledged, what somebody overwrote or deleted, what a
restore took away, that a saved document has not reached the room.

**CoalescingCache** – `Cache.Do` and `InvalidateSubject`. A leader reads at the
gateway, stores under `c.mu` and ends the flight under the singleflight's lock:
three steps. Values are versions of the data behind a key; `age` is the time
since a value was read. `Without` takes a key's one element out of the list,
`Fits` keeps the longest front of it that is within both limits (`evictLocked`).

**ProductionStore** – the jobs of one project. Every mutation goes through
`mutateJob`, which holds the project's lock, works on the job and puts it back
when the file cannot be saved, so a write is one step and a refused write none.
A job is its steps by id, its edges, its runs by id and its three counters. A
run (`CreateBatch`) copies the steps; fulfilments name steps and placeholders of
the copy. `reaches` is stated as a closure, not as the code's depth-first search.

**ChatClient** – one tab on a project's chat. The server is a log per channel,
the set of frames committed and not yet published (publication is outside the
lock, so in any order), and the published ones, of which the ring replays the
last `RingCap`. The appliers of `chat/cache.ts` are operators of the same names;
what a listing or a filter keeps, in order, is stated as such (`Picks`) and not as
a fold, so that it can be reasoned about.
A fetch is asked, answered with a snapshot and applied. `SettleChannel` is the
channel a mutation's callbacks write to: the one on screen, because a
`useMutation`'s callbacks are those of the latest render. Two history variables
remember what the code does not keep: `misfiled`, channels touched by a write
whose channel was left, and `drift`, channels touched by one of three races (a
fetch overtaken by frames, an answer older than news already received, a frame
published after a newer one).

**QueryCache** – one entry of the react-query cache. **WebQueries** – an entry of
one of twelve kinds, chosen at the start, under every write of its part of the
application: which entries a hook sets, invalidates or edits is a table
(`TaskRows` … `AdminRows`), one row per mutation. Data is a version of the
server's state and the local edits made on it since. `raced` remembers that a
write crossed a fetch it does not restart. **JobEditor** – one entry whose value
is a job, with the editor on top of it: drafts of the fields, the drag override,
selection, chaining, and calls whose `mutate`-level callbacks fire only for the
latest call of their hook.

What is assumed of react-query 5, read from how `web/src` uses it:
`setQueryData` lowers the invalid flag and does not stop a fetch in flight;
`invalidateQueries` raises it and, for an observed query with data, cancels and
restarts the fetch; a failed fetch leaves the flag; a fetch of an unobserved
query goes on; hook-level callbacks always fire and are awaited first,
`mutate`-level ones only for the latest call of a mounted observer; callbacks
are those of the latest render.

**WikiClient** – one tab and one page. Drafts live in the local database, the
editor has a working copy and a timer that captured a draft; publish, refresh
and restore close over what was there when they were asked: the answer of a refresh
is stored over whatever the draft has become. Publish is a check
(`PublishWikiPage`) and an upload (`PublishUploads`), two requests to the data
service between which others publish.

**Navigation** – the reducer, the effect that pushes or replaces an address
(`Serialize`), back and forward (`Pop`), the two backstops, jumps, and the tabs
that latch a board or channel. A step is a dispatch with the effects of its
render. The two backstops (`locating`, `filling`) are restarted by `Backstops`
exactly when what their effects depend on changes.

**SessionGate** – tabs of one browser before one session. `Screen` is the `Gate`
of `App.tsx`; `Show` what rendering does besides (`AppLayout` aligns the place
and the remembered hub with the lock); `POST /api/session/hub` is applied, then
answered. A switch asked for in the settings or by a link's consent tears the page
down in a callback of the component that asked (`mutate`'s `onSuccess`), so a call
remembers whether that component is still there (`heard`): `CloseSettings` and `Skip`
unmount it, and then the answer only fills `AuthMe` (`queries.ts:116`) and the page
changes hub in place. An answer may be lost after the lock was applied
(`AnswerLost`). `rows` is the hub whose unkeyed rows are cached, `moved` remembers
that the session was touched since the page loaded by something whose end the page
did not handle.

**Uploads** – one tab and the jobs of its session. A job is its status and the
progress of its goroutine (`run`); a list of jobs is the set of its rows: canceled is a status at once, and an end of the
goroutine later. `list` is the query cache's entry of the jobs, which polls and
the answers of posts, cancellations and dismissals replace; every replacement
runs the effect that compares it with what was seen (`Observe`). A folder is read
through the server's cache of listings, which a job drops after its end is noted
(`RunDone`, then `DropListings`). `told`, `blind` and `early` are history: jobs seen
done, jobs taken off the list before that or missing from a list that is read no more
(`Unasked`), and folders whose reading crossed a
landing in one of two windows (see `LandedShows`). **FileDrag** – the window's drag
handlers as the browser calls them, with the ends it does not report.

**FusionActions** – Open and Insert: `runAction` is a loop of one tab around its
ticket (post, launch, sleep, look up), the ticket lives on the server, the helper
is an environment that may not exist, be slow, fail or report late. Archives: the
button, the handler's two steps (`CheckArchive`, `AddArchive`: between them another
request may pass), the goroutine, the row it writes after the job's end, and the
tab's two polled lists. Tickets expire and age by steps of their own; a ticket a
loop still asks for does not expire before the loop's deadline, since 25 s are less
than two minutes.

**Calendar** – the day arithmetic of `fmt/dates.ts`. A day is a number, an instant
a number of hours, and a day's midnight no multiple of 24 once the clock has been
changed; a day string is the pair of its month and its day, which need not exist.
**DateField** – the picker over it: the grid shows the focused day's month.
**GanttChart** – scale, rows, bars and arrows for a task list, a zoom and the
folded stages; pixels are rounded down. A deadline extends the scale to the right
only; one before it has its flag at the left end (`DueX`). **HistoryTimeline** – day rows with a
track per author, dots by the clock or by their place in the history, and the
thread that is drawn through them without measuring. **ActivityHeatmap** – the
windows of a design's life and their cells, all in UTC, and the hub's pulse, which
expands counts a day to events. **RelationGraph** – cards placed, joined and
bounded by arithmetic, the fitted view, and the cap on pictures (`ThumbCap`). A graph
that is mounted anew starts with the cap (`Mount`); one that stays takes it back when
the document changes, not when the same document's relations do (`Show`).

## 3 The runs

In brackets the distinct states TLC finds; each run takes from seconds to three
minutes on two workers.

| Run | Instance | Checks | Shows |
|---|---|---|---|
| `aps_scheduler` | a P0, a P1 and a P2 call for one GraphQL slot with costs that do not all fit the bucket; one 429 (91 k states) | `NoLostWakeup`, `WorkConserving`, `SlotsMatchHolders`, `StrictPriority`, `EveryWaitEnds` | slots and grants stay consistent through every race of dispatch, timeout and Close; the wake-up of a lane is neither lost nor late; each dispatch respects priority; no waiter is stranded, also by Close |
| `room_and_hub` | one tab, ring and channel of 2, 3 events, 3 breaks; a shape, a binding, a page, one tab whose requests may be built on any earlier revision, memory of one deletion, 3 revisions; two keys, room for one, three calls of which one is fresh, one write (418 k states) | `StreamComplete`, `NoSilentGap`, `CatchesUp`, `BroadcastComplete`, `DeleteWins`, `FreshEnough` | with a cursor nothing is missed silently, through reconnections, overflow, drains, restarts, ring expiry; the hub implements `EventStream`; a tab that stays open catches up; the room broadcasts the whole change and deletions win; no answer of the cache is older than TTL + leader timeout |
| `board_sync` | a writer, a viewer, two reads at once, an import, a failure, a stream reset, 2 revisions (1.06 M states) | `ViewerConsistent`, `EventuallySettled` | a viewer's canvas is always a document the board had; a writer that nothing disturbs ends up with the room's document |
| `board_store` | two boards, one live room, six mixes of requests, one failure or crash (189 k states) | `NoPatchLost`, `RoomAheadOfFile`, `BackupComplete`, `EventuallySaved` | acknowledged strokes survive flushes, failures, evictions and reloads; file and room keep in step; backups hold what was acknowledged; dirty rooms that can be saved reach the disk |
| `chat_client` | two channels with a thread each, two messages, a change, two fetches, a break, a ring of one (3.04 M states) | `OneRowPerPost`, `StreamIsRefetch` | every order of copy, answer, frame and fetch leaves one row per post, in its channel; frames leave what a refetch would |
| `web_pages` | two projects of which one has no alternate id, two documents, three clicks; twelve kinds of entry, two writes, two failures; a draft and a page, two keystrokes, two calls, another author; two tabs, two hubs, a deep link, two user actions, one loss (1.16 M states) | `PermalinkReopens`, `KeepsForward`, `OwnWritesShow`, `EditsSurvive`, `OneHubOnScreen`, `PagesCatchUp` (= `PolledViewsConverge` of `WebQueries` and `TabsCatchUp` of `SessionGate`) | addresses and history keep up with the place shown; lists show the tab's writes and converge; drafts survive timers and answers, but for the cases `EditsSurvive` names; rows are those of the hub browsed unless a switch's end was not heard; no tab stays on a session or a hub that is gone |
| `production` | two jobs, three steps and edges, one of each child, one run, eleven ids; one job open under three edits and calls (913 k states) | `Acyclic`, `EdgesAnchored`, `ChildIdsUnique`, `RunsFitTheirPlan`, `GesturesLand` (= `OverrideReleased` and `ChainsOwnStep`), `TypingKept`, `JobConverges` | plans stay acyclic and anchored, ids name one child, runs keep to their plan; in the editor no override, chain or draft goes wrong by an answer, and the tab comes to show the job |
| `web_actions` | two uploads, or one with a call and a change of folder or a failure, or one with two failures; a drag two elements deep; two actions, or two archives, or one with a failure, on one document (331 k states) | `LandedShows`, `OverlayGuarded`, `EndsAreSeen` (= `Noticed`, `ActionsEnd` and `ArchiveAnnounced`) | a folder that passes for current shows what was seen to land in it; ends are noticed unless dismissed first or left on a list nobody reads; the overlay goes away; actions end; archives are announced |
| `layouts` | a calendar from December to the next January with the clocks changed on days 92 and 100; 257 task lists with an old deadline and one ahead, 129 histories, 3 sets of reports and 3 of counts a day, 5 sets of relations of 3 documents (20 k states) | `ShownOnce`, `LinesUp`, `MonthsTurnByOne` | every task, version and change is shown once in its own place; pixels lead back to their days, the thread runs through its dots, cards do not overlap; turning a month never skips one |
| `navigation_alt` | the `Navigation` part of `web_pages` | `DocumentCompleted` is **violated** | section 6 |
| `fusion_expiry` | one action | `FailureFiled` is **violated** | section 6 |
| `declutter_bounds` | one author who saved at midnight and twice in the last hour | `DotsInPlot` is **violated** | section 6 |

`NoLostWakeup`, `WorkConserving`, `SlotsMatchHolders`, `StrictPriority`,
`StreamComplete`, `NoSilentGap`, `BroadcastComplete`, `DeleteWins`,
`ViewerConsistent`, `NoPatchLost`, `RoomAheadOfFile`, `BackupComplete`,
`PermalinkReopens`, `KeepsForward`, `Acyclic`, `EdgesAnchored`, `ChildIdsUnique`,
`RunsFitTheirPlan`, `FreshEnough`, `GesturesLand`, `TypingKept`, `OneHubOnScreen`,
`OwnWritesShow`, `EditsSurvive`, `LandedShows`, `OverlayGuarded`, `OneRowPerPost` and `StreamIsRefetch` are
theorems as well (section 5): the runs show them on these instances, the theorems on
every one.

`TypeOK` is part of `StreamComplete` and `OneRowPerPost`, and proved for every
module that has proofs; in the others it can be added to the run's configuration.

**Bounds, and why they are enough.**

* Scheduler: one slot makes a queue, two points calls that do not fit together
  make a deficit wait, and a third class decides priority. `IdleCap` is the
  time in which the bucket fills from the lowest level it can reach here, so
  capping elapsed time loses nothing. One 429 finds calls queued and in flight;
  reserve and cooldown, and two lanes side by side, are left to the theorems,
  which are for any calls.
* SSE hub: subscribers of a room do not influence one another (each has its own
  channel; a full one is dropped alone), so one tab is enough; three events
  overflow a ring and a channel of two, and three breaks allow a restart between two reconnections.
* Rooms: what `apply` does to a record depends on that record, on its
  tombstone and on the bindings that join it, so a shape, a binding and a
  structural record stand for all. One remembered deletion makes forgetting
  happen at the second. The run stays below the size limit (`MaxRecords` is the
  number of ids): beyond it `BroadcastComplete` fails, see section 6.
* Live editing: two revisions are the fewest that can be published in the other
  order, and two reads the fewest that can be loaded in the other order.
* Store: with two boards and one live room an eviction is forced at every other
  join; two loads of the metadata give one stale state object. The requests are
  split into six mixes (`Mixes`), one per behaviour, so that all of them are
  checked in one run; a mix holds those that race one another. Restores and the
  deletion of a project change the files under the rooms by design, so
  `RoomAheadOfFile` excepts the behaviours that may have them; the theorems are
  for every mix.
  A behaviour that has used up `MaxLoads` just stops loading, which
  `EventuallySaved` excepts by name (`OutOfLoads`), as it does a room whose document
  has grown too long to be saved: no later flush succeeds.
* Cache: room for one of two keys forces evictions; three calls are a leader, a
  joiner and a late one.
* Chat client: two messages are a root and a reply, or a send and somebody
  else's post; a ring of one is outrun by the second frame, so a reconnection is
  answered by replay or by reset; the channels are interchangeable (symmetry,
  invariants only).
* Pages: three clicks are away, back and away again; the entries of the query
  cache do not read one another, so one at a time is enough, and two writes are
  the fewest that can settle in the other order; two calls of the wiki are a
  publish and the refresh or restore that crosses it.
* Production store: a cycle needs two steps and is interesting at three; the
  second job is what a duplicate goes to; `MaxIds` bounds the sum of all counters.
* Job editor: two calls of one hook are what takes a callback over; edits and
  calls together are at most three. No call
  fails by itself (`MaxFails` 0); one is refused when its step has been deleted.
* Session gate: tabs influence one another only through session and storage, so
  two suffice; the loss is of the sign-in, of the lock or of an answer; one tab may come
  by a deep link, to another hub than the one remembered at first.
* Layouts: months of 28, 30 and 31 days, both changes of the clock and both ends
  of a year are in the calendar; lists of three items hold every order of two
  and one beside them; caps of two tracks and two days, and a ceiling of six
  events, are passed by the instances.
* Uploads, actions and archives: what a second file, folder or document adds is
  another entry of the same maps, and one slot makes the second job wait. The
  budgets (`MCUploads`, `MCActions`) are alternatives, chosen at the start; two
  failures are a post whose answer is lost and the reading of the list after it.

`CHECK_DEADLOCK FALSE` stands where everything may really be done: no edit,
failure, click or break is left. The scheduler runs with deadlock checking (its
clock never stops).

## 4 Fairness

* `ApsScheduler!Fairness`: a critical section ends; the clock moves; a due timer
  fires; a woken goroutine runs; Go's mutex hands over to a starved locker after
  1 ms, hence strong fairness of `Tick` and `Release`; `gqlQueryAt` and `doREST`
  release on every path and HTTP round trips have timeouts. No fairness on
  `Abandon` or `Close`: a wait must end without them.
* `SseHub!FairSpec`: an EventSource retries until closed (`Reconnect`), the
  stream loop keeps writing (`Deliver`) and notices that it was closed (`Quit`).
  Publishing, opening and breaking are not fair; breaks are finitely many.
* `BoardSync!FairSpec`: requests are handled, answers and frames arrive, send
  timers fire. No user is obliged to edit.
* `BoardStore!FairSpec`: a store call under way ends; the sweeper, which runs
  every second and lets no room stay dirty beyond `RoomSaveMax`, keeps getting
  `rs.mu` (`SF` on `Flush`, `Evict`). Failures are finitely many: the disk recovers.
* `WebQueries!Fairness`, `JobEditor!Fairness`: the interval of a view on screen
  fires (`Poll`), and a request in flight is answered and applied. Failures,
  other people and the user are not fair, and finitely many.
* `Navigation!FairSpec`: the answer of a backstop comes. Jumps are not fair.
* `WikiClient!FairSpec`: the autosave timer fires. No call is obliged to be answered.
* `SessionGate!FairSpec`: the polls of a tab in the application go on (`DataCall`);
  nothing is asked of the other calls, and nobody is obliged to sign in, pick or switch.
* `Uploads!Fairness`: the poll's timer fires, the server answers, a job that has
  its slot ends and the next one gets it. Cancellations, failures and the user are
  not fair; a job need not be posted.
* `FusionActions!Fairness`: the loop's timers fire and its requests are answered or
  fail; an archive job ends; the inbox is polled. Nothing is asked of the helper.
* The cache and the layouts state no fairness: only safety is checked of them.
* The runs over several modules state the fairness of each part of which they check
  liveness, on that part's steps.

## 5 The proofs

All are theorems of the specifications for every value of the constants that
satisfies the named assumptions of the module; no fairness is used.

**ApsSchedulerProofs.** `IndInv` = `TypeOK` ∧ `SlotsMatchHolders` ∧
`GrantXorCancel`; `TypeCorrect` is `TypeOK` with `InFlightInRange`, the limit on a lane's
slots, which rests on the guard of a dispatch. None of the three is inductive alone: `inFlight` stays a
natural number only because a releasing call occupies a slot, and the slot count
is right only because a call that can be dispatched was not dispatched before.
`InitInd`, `CallInd`, `LaneInd` and `GlobalInd` prove it, one step per action.
From it: `TypeCorrect`, `SlotAccounting`, `GrantsExclusive`; `WakeupsKept`
(`NoLostWakeup` is inductive on top of `IndInv`: whoever ends a kick arms the
timer unless the lane is full); and, from what is known of a call that `Dispatch`
removes (`OnlyHeadsGo`), the action properties `PriorityStrict`, `ReservesKept`
and `CooldownsHonoured`. Assumptions: finitely many calls, a positive refill
rate, at least one slot per lane.

`WakeupsInTime` (`WorkConserving`) says that no wake-up is late. It is not
inductive: it speaks of the moment a head may go, when it is too late to repair
anything. `TimersInTime` says what an armed timer promises all along: until it
fires, the lane's head is held back by the cooldown, or by points that no refill
up to then can bring (`HeldBack`). It survives lazy refills (a refill moves
elapsed time into the level, and the cap can only make the sum smaller:
`RefillCredits`), corrections and 429s (they end in a kick of
their lane, and the other lane's promise does not depend on it), and arrivals (a
new head is followed by a kick).

**BoardSyncProofs, the room.** `RoomTypeCorrect` holds as it is (a patch refused for its
size leaves tombstones of the next revision behind, so that is their bound). The other theorems assume
`RoomFits` (all ids together fit under the limit), because a patch refused for
its size changes records and tombstones unannounced (section 6).

* `BroadcastsComplete`: inductive with typing. The heart is `BroadcastIsChange`:
  a receiver applies puts, then removes; the room does the reverse; they agree
  because an accepted put is never among the removed (`AcceptedNotRemoved`: its
  sender cannot have seen the revision being made).
* `TombstonesBounded`: `trimTombs` bounds the memory, and an accepted put clears
  its tombstone.
* `DeletesWin`: `DeleteWins` speaks only of frames, so it is not inductive.
  `DeleteInv` adds that a tombstone names a revision that did delete the record
  (`TombsTrue`), and that a deletion nobody undid and that is among the latest
  `MaxTombstones` has a tombstone at least as late (`Remembered`).
  `TrimKeepsLatest` is the lemma that makes `trimTombs` safe: were such a
  tombstone dropped, the kept ones and it would be more than `MaxTombstones`
  records deleted at or after it.

**ProductionStoreProofs.** `StoreTyped` holds by itself. Each of the other four is
inductive with typing, and each rests on a lemma per kind of write.

* `EdgesKeepTheirEnds`: whoever removes a step or a result takes the edges with
  it; a write that touches neither edges nor steps keeps them.
* `PlansStayAcyclic`: an edge is added only if its end does not reach its start.
  The argument is about closures: if after adding `from → to` some edge closed a
  cycle, a set closed under the old edges would show that `to` had already
  reached `from`. Removing edges only enlarges the closed sets.
* `IdsNameOneChild`: ids handed out are below the counter, the counter never
  goes down, and a duplicate keeps its counter with its children.
* `RunsKeepTheirPlan`: no write but the run's own touches its copy of the plan,
  and a fulfilment is checked against that copy.

The second part is the editor (`JobEditor`), for any numbers of edits, calls and
failures (`EditorConfig`: numbers, and `NoData` is no job). `GesturesLand` is not
inductive: that an override is released when its call is over needs to know which
calls will still call back. `EditorInv` adds that a call of the node's which will not
call back has been overtaken by another (`Overtaken`, then `lost` says so), that the
step a chained add made is the last of the answer that made it (`MadeLast`), and that
a field has a text exactly while it is on screen (`FieldsOpen`). From it
`EditorGesturesLand`, and the action property `EditorKeepsTyping`: what makes a text go
is its own field's commit, its removal from the screen, or the user.

**BoardStoreProofs.** For any number of boards, handlers, streams, failures and
loads, and every mix of requests (`StoreConfig`: finitely many handlers, at least
one live room allowed).

* `StoreIsTyped`: beyond sets, that a flush finds its room live and a call its
  state object loaded, although either may be evicted between two steps of others.
  `CapOnRooms` adds the cap: whoever holds `rs.mu` to load a room has made place
  for it (`CapHolds`), since evicting and loading are two steps.
* `NoStrokeLost`: `NoPatchLost` speaks of what the next reader is shown.
  `StrokesKept` says where the strokes are: in the room if there is one, and in
  the file unless a dirty room stands before it. Only so does an eviction of a
  clean room, or a reload after one, lose nothing.
* `BackupHasItAll`: `BackupKept` carries this through the backup, from the flush of all
  rooms to the copy of the files: what was acknowledged before it began is in
  the files, except of rooms that could not be flushed, and stays there.
* `FileNeverAhead`: a save raises the file's revision first and the room's later, so `FileFollows` counts
  the saves in between: the file is ahead by at most their number. It needs that
  there is one state object at a time (`OneObject`) and that no number is given
  out twice (`NewIds`), which a restore and a project's deletion break: hence the
  exception in `RoomAheadOfFile`. A room that could not read a saved document is
  excepted too until it is saved over it (`behind`): then the file is ahead.

**BoardSyncProofs, the tabs.** For any tabs, records and values, and a server that does not
crash (after a crash `ViewerConsistent` fails, section 6). `SyncIsTyped` is
the type of the room and the tabs (`TypeOK`, `TabsTyped`), of the requests, answers, handlers and
frames under way between them (`TravelTyped`), and that none of these carries a revision the room has not
reached (`NoneAhead`).
`ViewersConsistent` assumes `RoomFits`, like the theorem it rests on: a viewer
that stands at revision *n* applies the frame of *n + 1*, and by
`BroadcastsComplete` has the document of *n + 1*. The invariant adds that whatever
was read over REST is a document the board had at its revision (`ReadsTrue`), and
that no patch is a viewer's, so that a viewer never skips a frame as its own
(`WritersPatch`).

**SseHubProofs.** For any tabs and bounds (`HubConfig`: they are natural numbers);
the process may drain and restart, and `meta.json` is not taken back (where it is,
`IdsNeverAlias` fails, section 6). `HubInv` has a part about the room and one about each stream.

* The room: the events since the epoch began are numbered from one, no other event
  has that epoch (`Numbered`), the ring is the end of them. So a cursor names one
  event, and `Replay` begins right after it.
* A stream: what is pending and buffered lists the events from where the tab
  stands, without a gap, and up to the last one while it is subscribed (`Queued`).
  The delicate case is a tab that was sent a reset and reconnects: its cursor lies
  behind its place, and a replay would send what it has. `Uncovered` says that such
  a cursor is always answered by another reset: what was past the ring, or of an
  epoch that is over, stays so.

`StreamsComplete` is `HubInv => StreamComplete`. `NoGapIsSilent` is the refinement:
with `HubInv`, a `Publish` is a `Publish` of `EventStream`, `Open` a `Join`,
`CloseTab` a `Leave`, `Deliver` is `Deliver`, `Reset` or no step, and every other
action (breaks, overflow, drain, restart, expiry, reconnection) is no step at all.

The last part is the cache, for any keys, calls, sizes, limits and numbers of writes
(`CacheConfig`: durations are numbers, and each call has a key and a deadline).
`CacheAnswersFresh` (`FreshEnough`): ages add up along the path of an answer. A flight's
age and what is left of it are within the leader's timeout, whichever caller leads; an
entry's age and what is left of it within that and the TTL. An entry is moved to the
front, dropped, invalidated or evicted without becoming younger, and a joiner is given
what the flight read (`CacheInv`).

**WebPagesProofs.** Four parts of a tab, each with its own invariant.

* The address. For any projects, documents, homes (`HomeAssumption`) and
  history. `NavInv`: the address is always what `navToSearch` makes of the place
  (`Mirrored`), each entry of the history is itself a place whose board and channel
  are its project's (`Placed`, needed for back and forward), and a backstop waits
  for what is shown (`Waiting`). From it `BackstopsCurrent` (an answer never lands on
  a place the user left), `BoardsKeptHome`, `PermalinksReopen` (with the lemma
  `ReadBack`: `searchToNav` after `navToSearch` loses only what the address need
  not hold), and the action property `ForwardKept`.
* The gate, for any tabs and hubs (`GateConfig`: the hubs a user may enter are hubs,
  `None` is none). `GateKeepsHubs` (`OneHubOnScreen`): a tab under which no other tab has
  moved the session is alone with it (`Alone`), so what it knows of the session is true,
  except between the moment a call of its own has been applied and its answer
  (`LockTaken`); its rows are of the hub it browses, but then, and that answer, if it
  is heard, reloads the page. One that is not heard, or lost, counts as a move.
* The lists, for any of the twelve entries and any number of writes, failures and
  views (`ListConfig`: `NoData` is no content). `ListsShowOwnWrites` (`OwnWritesShow`) is
  about the data shown; a fetch under way may carry an older answer, so `ListInv` says
  the same of the answers (`AnswerIsOwn`), that the one entry a write fills instead of
  invalidating it has been filled, and that entries only edited never count a write of
  this tab. The tables of the hooks enter by one lemma (`Tables`): a kind of write that
  changes what an entry reads fills or invalidates it.
* The wiki's drafts, with no assumption. `WikiKeepsEdits` (`EditsSurvive`) says of each
  write of the local database which it is: newer text, the user's deletion, the answer
  of a publish of older text, or that of an update which was asked for over an edited
  draft (the user's choice) or over another text than it now replaces (section 6,
  `SafeUpdateLosesNothing`). `WikiInv`: the editor's text is at least as
  new as the draft an autosave replaces (`EditorSound`), drafts, timers and the calls
  under way carry texts that were typed or are published (`DraftsSound`, `PubSound`,
  `RefreshSound`, `RestoreSound`), and published texts stay published.

**WebActionsProofs.** Two parts of a tab.

* Uploads, for any files, folders, slots and budgets, with no assumption. `UploadsShow`
  (`LandedShows`) needs the whole path of a row: what a list, or an answer under way,
  says is done is done (`ListSound`, `CallsSound`); the server's cached listing misses no
  file whose job is gone (`ListingSound`: the job drops it in between); and a reading of
  the folder misses no job the tab has been told of, unless one of the two windows was
  hit (`ReadingShows`, `FolderShows`, `early`).
* The overlay, however deep the drag. `OverlayIsGuarded` with `DragInv`: the overlay is
  up only over an element that was entered and with its watchdog running, and `internal`
  outlives its drag only if the end of that drag was not reported.

**ChatClientProofs.** For any channels, messages, changes, fetches and breaks
(`BoundsAssumption`: they are numbers). `ChatInv` has a part about the server and
five about the tab, and gives `OneRowAlways` (`OneRowPerPost`) and
`StreamStandsForRefetch` (`StreamIsRefetch`).

* One row per post. Whatever reaches a list says of a message what is or was so (`Says`),
  and a log gives a message one id and one number. So the pending copy, the answer,
  the frame and the row of a fetch name each other, and `upsertIntoList` puts them on
  one entry, unless the channel is `misfiled` (`Clean`; lemmas `UpsertTrue`,
  `UpsertCopy`, `StripListing`, `BumpAlike`). Which entry is the first that matches
  is an induction on numbers (`Least`).
* A refetch would show nothing else. What the log says now, some frame tells, published
  or not (`Announced`). Of the frames taken so far, those that tell what is still so
  are on screen (`Current`), unless one of the three races of `drift` was hit; an
  answered fetch is no older than the frames published by then (`Covers`), so applying
  it keeps `Current`. Once nothing is unpublished and nothing waits, the frames taken
  are all, and each message of the log is on screen as it is.
* The proof corrected the typing: `replies` is a natural number and not at most
  `MaxMsgs`. A late "updated" frame of a root takes `lastReplyAt` back
  (`cache.ts:137` overwrites it, and keeps only the larger count), and then the
  guard of `bumpRootCounters` counts a reply once more.

**Only model-checked.**

* Liveness under fairness, which the prover does not do: `EveryWaitEnds`,
  `CatchesUp`, `EventuallySettled`, `EventuallySaved`, `PagesCatchUp`,
  `JobConverges`, `EndsAreSeen`.
* Properties whose operators fold or filter sequences (`SelectSeq`, folds, sorting),
  so that a proof would be by induction over data: `ShownOnce`, `LinesUp`, and in the
  cache that `bytes` is the weight of the list.
* `MonthsTurnByOne`: where a month begins is the sum of the lengths before it, a
  recursive function.

What a recursive definition computes for every input is out of the prover's
reach; no module with theorems needs one.

## 6 Where code and documentation disagree

Three are checked by runs (`findings` in `PROJECT.json`):

* **A document is completed once** (`navigation_alt`, `DocumentCompleted`;
  `web/src/state/nav.tsx:305`). Backstop A remembers the document it resolved
  last and does not resolve it again. A project read back from an address has no
  `altId`; so after going to another document and back, the document's project
  stays without one. `nav.tsx:297`: "a selected document resolves its own
  project + folder path (and the project's altId, needed by contents/wiki) …
  Runs until the project is fully filled".

* **A late failure is filed** (`fusion_expiry`, `FailureFiled`;
  `server/fusiontickets.go:77`). A ticket that was redeemed and not reported on is
  swept once its two minutes are over; the report of an action that took longer is
  then refused, and the row the user would have found is not written.
  `server/handlers_fusion.go:184`: "A failure additionally lands in the requester's
  inbox so it isn't lost if they navigated away while the helper was working".

* **Dots leave the plot** (`declutter_bounds`, `DotsInPlot`;
  `web/src/components/history/historyLayout.ts:398`). When the last dots of a track
  overhang on the right, the whole track is shifted left, also dots that nothing had
  pushed: `declutter([0, 99, 100], 0, 100, 12)` is `[-11, 88, 100]`.
  `historyLayout.test.ts:301`: "never leaves the plot bounds".

Three more are kept as configurations TLC finds violated:

* **A save lands in the live room** (`MCBoardStoreLand.cfg`, `SavesLand`;
  `server/handlers_whiteboards.go:392`). A whole-document save goes to the file first,
  which takes any valid JSON; the room takes only what unmarshals into a document, and
  its error is dropped. The save is answered with success, the file is ahead of the
  room, and the room's next flush writes the old document over the new one.
  `handlers_whiteboards.go:387`: "the room — not the file — is the authority, so a
  whole-document write has to land there too. Otherwise … the room would quietly write
  it back over this one".

* **An update is safe over a clean draft** (`MCWikiUpdate.cfg`, `SafeUpdateLosesNothing`;
  `web/src/wiki/WikiApp.tsx:297`). What is typed and autosaved between the click and
  the answer of `api.wikiPage` is replaced by the answer, in the database and in the
  editor. `WikiApp.tsx:287`: "For a 'behind' page this is a safe update (nothing local
  to lose)".

* **An upload's end is noticed** (`MCUploadsUnseen.cfg`, `UploadsSeen`;
  `web/src/state/uploads.tsx:124`). The tab polls while its own list has something in
  flight. A post that the server took and whose answer was lost is not on that list,
  and if the reading after the loop fails too, nothing asks again: the upload ends
  done and its folder is not read. `uploads.tsx:117`: "Poll the server job list while
  anything is in flight", `:128`: "When a job completes, the target folder has a new
  item (or version): refresh the matching contents query".

Further counterexamples, for which an instance is described here: each is the named
configuration with these changes, and the property in the place of those it checks.

| Property | Configuration and changes | The text | The code |
|---|---|---|---|
| `Settles` | `MCBoardSync`: `SPECIFICATION Spec`, `Clients = {a, b}`, `Writers = {a, b}`, `EditIds <- OwnRecord`, `Slots = {1}`, `MaxRev = 3`, no failure, skip or import | `sync/protocol.ts:77`: a gap must resync, since otherwise the client "silently drops three revisions of other people's work" | `useBoardSync.ts:121`: an answer raises `appliedRev` past other tabs' frames, which are then skipped as old |
| `AppliedOnce` | `MCBoardSync`: `SPECIFICATION Spec`, `Ids = {shape}`, `Structural = {}`, `Vals = {u, v}`, `Slots = {1}`, no skip or import | `patch.go:67`, `room.go:104`: "A retried POST ... must not apply twice" | `useBoardSync.ts:112`: the retry is a new request with a new `seq` |
| `ViewerConsistent` | `MCBoardSync`: `SPECIFICATION CrashSpec`, `Ids = {shape}`, `Structural = {}`, `Vals = {u, v}`, `Slots = {1}`, `MaxEdits = 3`, `MaxCrashes = 1`, no failure, skip or import | `useBoardEvents.ts:14`: "A reset needs no special handling" | after a crash revisions restart from the file, and a tab's `appliedRev` is of another history |
| `IdsNeverAlias` | `SseHub`: `SPECIFICATION RollbackSpec`, `Tabs = {a}`, `RingCap = 2`, `SubBuf = 1`, `MaxEvents = 2`, `MaxBreaks = 4` | `chat/store.go:801`: "SSE event ids minted by different process runs can never alias" | `:815`: the epoch comes from `meta.json`, which a restore or a reset takes back |
| `NothingLost` | `SseHub`: `SPECIFICATION Spec`, the same bounds | `internal/sse/hub.go:13`: "Anything the ring cannot replay is answered with a reset ... losing hub state can never lose data" | `:183`: a stream that broke before its first event has no cursor and gets neither |
| `BackgroundRefusedInCooldown` | `MCApsScheduler`: `SPECIFICATION Spec`, `Req <- SmallReq`, `RetryAfters = {1}`, `Remainings = {4}` | `docs/quota/STATUS.md:86`: in a cooldown "P1/P2 are refused with the countdown" | `scheduler.go:239`: refused only if the expected wait exceeds the class's limit |
| `NoDanglingBinding` | `MCRoomAndHub`: `Ids = {"shape", "arrow"}`, `Structural = {}`, `MaxRecords = 2`, `MaxTombstones = 2` | `patch.go:139`: "when a shape goes its bindings must go with it or peers are left with an arrow pointing at nothing" | `room.go:159`: a late put of a binding to a deleted shape is accepted |
| `AlwaysPersistable` | the same with `MaxRecords = 1` | `room.go:176`: "the room never reaches a state it cannot persist" | `:175`: the check comes after the records were changed, which nothing undoes |
| `ViewerSettles` | `MCBoardSync`: `SPECIFICATION Spec`, `Ids = {shape}`, `Structural = {}`, `Vals = {u, v}`, `MaxRev = 3`, no failure or skip | `STATUS.md:490`: "A read-only member receives every edit" | `useBoardSync.ts:82`: of two reads under way, the older one may be loaded last |
| `StaleSaveRefused` | `MCBoardStore`: `SPECIFICATION Spec`, `Mixes = {{"put"}}`, one board, `MaxLoads = 1`, no failure | `handlers_whiteboards.go:347`: "A save based on a revision the board has moved past is refused with 409" | `store.go:332`: an unforced save is compared with the file, which lags behind a dirty room |
| `OneDocumentPerRevision` | `MCBoardStore`: `SPECIFICATION Spec`, `Mixes = {{"force"}}`, one board, two handlers, `MaxLoads = 1`, no failure | `room.go:200`: "rather than leaving the room and the file disagreeing about what the board contains" | `handlers_whiteboards.go:391`: two concurrent saves reach file and room in different orders |
| `WipedStaysWiped` | `MCBoardStore`: `SPECIFICATION Spec`, `Mixes = {{"backup", "restore"}}`, one board, three edits, no failure | `STATUS.md:494`: "the restored content wins, and the live room does not write its pre-restore state back" | `backup/restore.go:151`: files are written while rooms live; a flush before `DropAll` writes over them |
| `WipedStaysWiped` | `MCBoardStore`: `SPECIFICATION Spec`, `Mixes = {{"force", "purge"}}`, one board, two handlers, one edit | `store.go:97`: "no in-flight autosave can rewrite a document mid-delete" | `:321`: a save that looked the state object up before the deletion writes through it after |
| `AuthorSeesWrite` | `MCRoomAndHub` with `Keys = {"k1"}`, that key for all calls, `IsFresh = {}`, `LeaderTimeout = 2`; `Cache!AuthorSeesWrite` | `coalesce.go:171`: "so the author of a write sees it on their next fetch" | `:106`: a fetch begun before a write is stored after its invalidation |
| `UntypedSavesNothing` | `JobEditor`: `SPECIFICATION Spec`, `MaxEdits = 1`, `MaxCalls = 1`, `MaxFails = 0` | `JobDetail.tsx:106`: "blank or unchanged → revert to the server value" | `:105`, `JobCanvas.tsx:416`: "unchanged" is compared with the job of now, so a field opened, not typed in and left after another user's change writes the old text back |
| `SwitchReloads` | `MCWebPages`: as it is; `Gate!SwitchReloads` | `nav.tsx:124`: "an actual hub switch is a full reload …, never an in-place selectHub" | `AppLayout.tsx:66`: another tab's switch reaches this one by an `AuthMe` refetch and is applied in place; so is this tab's own when the settings are closed before its answer, because the teardown is a callback of the dialog's component (`ConnectionTool.tsx:122`), and the old hub's rows stay until they are polled |
| `NoBlindOverwrite` | `WikiClient`: `SPECIFICATION Spec`, `MaxTyped = 2`, `MaxOthers = 2`, `MaxCalls = 2` | `api/wiki_publish.go:39`: "if the live tip has moved past it … it returns ErrWikiConflict" | `:62`: the tip is compared before the upload, not with it; and a draft's base is the listed tip although its text may be an older cached one |
| `SavedMeansStored` | `WikiClient`: `SPECIFICATION Spec`, `MaxTyped = 2`, `MaxOthers = 2`, `MaxCalls = 2` | `WikiEditor.tsx:75`: `saved` is "true when the working copy is flushed to IndexedDB" | `WikiApp.tsx:219`: the answer of a publish stores the text it sent over newer text, and "saved" stays |
| `BadgeExact` | `MCChatClient`: as it is | `chat/cache.ts:157`: the guard "skips the bump when the timeline was (re)fetched after this reply landed - its count already includes it" | `:173`: only for a creation; the frame of a deletion that a refetch already shows is counted once more |

More, without a text that promises otherwise, which the models contain:

* a room that is re-created between `Drop` and the metadata write of `Delete`
  (`store.go:269`) can never be saved, so it stays dirty and is never evicted; a
  deletion whose metadata write fails has already dropped the room's unsaved
  strokes (`store.go:265`); after a project's deletion its numbers are given out
  again while a room of the old board may live, and the new board is opened on it
  (which is why `RoomAheadOfFile` excepts behaviours with a `DeleteProject`);
* a send or change answered after the user opened another channel is applied to
  that channel (`queries.ts:710`, `misfiled`): the message appears where it was
  not posted until the next fetch, and a failed send leaves its copy behind; a
  retried send is a new message for the server (`queries.ts:740`); text typed
  while a send is under way is cleared by its answer (`MessageComposer.tsx:190`);
* a fetch overtaken by frames, or an answer older than a frame, leaves an older
  state of a message on screen until the next fetch (`drift`);
* the second `mutate` of a hook takes over the first one's callbacks: a drag
  followed by another edit of a step leaves the dragged position pinned
  (`JobCanvas.tsx:271`, `lost`), a second add loses the first one's chain
  (`:339`), and the answer of a step's deletion closes whichever step is open by
  then (`StepEditor.tsx:229`);
* the pending autosave of a draft that is published meanwhile stores it with the
  base it had before (`WikiApp.tsx:155`); choosing another page drops what the
  timer had not stored (`:373`); the answer of a publish stores the text it sent over
  text typed since (`:219`, the last exception of `EditsSurvive`);
* an upload that ends done can also be taken off the list before the tab has seen it
  done (a dismissal, or an older list applied later), and then its
  folder is not read again; a reading of the folder between a job's end and the drop of
  the server's listings shows the old one until the next (`early`);
* `activeFor` and `add` are two steps (`handlers_archive.go:77`): two requests may
  both start an archive of one version; an archive that times out ends without a
  row; two outcomes share one slot on screen, the later replaces the earlier;
  after the 25 s of a lookup a second press mints a second ticket while the
  helper may still act on the first;
* jumps land in the order of their answers, not of the clicks (`goto.ts:24`);
* a switch of hubs whose answer is lost is applied all the same: the tab shows a
  failure and the old hub until it asks for `AuthMe` again, then the new hub in place;
* a room left longer than `MaxSnapshotBytes` by a patch (`room.go:175`, and `AlwaysPersistable`
  above) fails every flush (`store.go:362`): it stays dirty and is never evicted;
* after a lost lock, an `AuthMe` refetch shows the hub gate without a teardown:
  if another hub is locked there, rows of the old hub stay cached until polled
  (`moved` in `OneHubOnScreen`, and `TabsCatchUp`).

## 7 What is not modelled

* Time of day, wording, formatting, logging, statistics: left out throughout.
* Contents of records, messages and documents: opaque, beyond what the code
  reads of them.
* The entitlement rule of private events, of which only the effect (a frame is
  passed over) is in `SseHub`; a check that *fails* is passed over alike
  (`handlers_chat_events.go:125`).
* The opening of a board. The canvas reads the document (`WhiteboardCanvas.tsx:210`)
  while the stream is already open (`:264`; `ready` holds back patches, not frames); the
  first answer loads the document, and an effect then sets `appliedRev` to its revision
  (`useBoardSync.ts:75`), if that differs from what it was. So a frame may be applied
  before there is a document under it, or between the load and the effect; and a late
  answer of revision 0, by which the effect is not run, puts an older document under a
  revision already taken. The tabs of `BoardSync` start with the document and its revision.
* Session gates: of the calls that set the lock, one at a time per tab is under way, an
  `AuthMe` refetch does not cross the tab's own, and a reload drops the call.
* Presence rosters and typing indicators: frames without an id.
* Chat: segments on disk, read cursors and unread counts, the ACL, rate limits,
  the tab's unread badges (`cache.ts:187`).
* Query cache: infinite queries, `removeQueries`, the cache persisted in local
  storage.
* Job editor: edges drawn by hand, results, placeholders and runs, which settle
  like the edits modelled; two drawers never being open at once is taken from the layout.
* Gantt chart: dragging bars and the dialogs.
* Sessions: token refresh, the persisted file, OAuth; of hub stores the opening,
  drain and restart.
* Archives: cancelling and dismissing, which no part of the interface calls; an
  inbox that cannot be written.
* Tasks, notifications, pins, the desktop helper, backup rotation and migration: each is a lock around maps and one file, or a
  pure computation; their orders of steps are those modelled for the board and
  production stores.
* The Fusion palette's entry point (`embed/EmbedApp.tsx`), which replaces the
  reactions to 401 and 409.
* Listing, thumbnails and references of boards; HTTP routing, headers, TLS,
  settings; rendering; packaging and deployment: sequential, or pure I/O.
* Queries to APS and the shaping of their answers: no state of their own.
* `sync.Mutex`, channels, `singleflight`, `container/heap`, the file system and
  the browser's `EventSource` are taken at their documented behaviour.

## 8 Plan

The order is by what a user loses when the part is wrong. Done: scheduler and
its theorems → event streams and their abstract specification → rooms and their
theorems, live editing → store → cache → production store and its theorems →
the browser: chat, cached lists, job editor, wiki drafts, navigation, session
gates, uploads, archives and Fusion actions → the views that lay data out →
theorems about the store, live editing, the hub's refinement, navigation and the
scheduler's timers → theorems about the cache, the job editor, the session gate, the
cached lists, the drafts, the uploads, the overlay and the chat's lists.

What would come next, models:

1. `ChatStore`: posts, edits and deletions over segments, read cursors, unread
   counts, ACL changes and private channels; crash between segment append and
   metadata. Abstract specification: a channel is a log, an unread count is what
   lies past the cursor; `ChatClient`'s server as its client-side view.
2. `Sessions`: one refresh per session, sign-out racing a refresh, expiry, the
   persisted file; under `SessionGate`.
3. `HubStores`: opening, closing, drain, restart; whiteboard streams hold
   `Shutdown` (`server.go:491`). `WhiteboardPresence`: the roster published
   after its lock is released (`server/whiteboard_hub.go:125`).
4. The opening of a board in `BoardSync` (section 7): a tab that reads its first
   document while frames arrive.
5. `BackupEngine`: GFS rotation as a function against a reference definition.

And proofs: that the desktop actions of `FusionActions` start one ticket at a time;
the calendar's conversions for every month.
