------------------------------- MODULE Uploads -------------------------------
(***************************************************************************)
(* Uploading files to the folder on screen (web/src/state/uploads.tsx and  *)
(* its dialog and footer) by jobs of the server (server/uploads.go).       *)
(*                                                                         *)
(* The tab posts the chosen files one by one; each accepted one is a job   *)
(* that waits for a slot, stores its file and ends done, failed or         *)
(* canceled, with or without the tab.  The tab learns of it from the list  *)
(* of jobs, which it polls only while it shows an active one and which the *)
(* answers of its own calls replace; a job it sees done makes it read the  *)
(* folder again, through the server's cache of listings.                   *)
(***************************************************************************)
EXTENDS QueryCache, Sequences, FiniteSets

CONSTANTS
    Files, Folders,
    None,        \* no folder on screen that takes files
    Slots,       \* uploadConcurrency
    Budgets      \* bounds of a behaviour: files posted, cancellations and
                 \* dismissals, failures, changes of the folder on screen

VARIABLES
    place,     \* the folder on screen, nav's target
    pending,   \* the files chosen
    batch,     \* the files being posted and their folder
    post,      \* the file that has become a job without the tab knowing yet
    errors,    \* local errors: posts that failed
    jobs,      \* the server's jobs, in order of submission
    list,      \* ["uploads"] as the tab caches it, a set of rows
    seen,      \* jobs the last list showed done
    calls,     \* cancellations and dismissals under way
    listing,   \* the server's cached listing of each folder
    contents,  \* each folder as the tab caches it
    told,      \* history: jobs the tab has seen done
    blind,     \* history: jobs dismissed unseen, or kept from a list nobody polls
    early,     \* history: folders whose reading crossed a landing, see LandedShows
    left       \* what remains of the budget

tab == <<place, pending, batch, errors>>
server == <<jobs, listing>>
view == <<list, seen, contents, told>>
vars == <<tab, post, server, view, calls, blind, early, left>>

-----------------------------------------------------------------------------
Terminal == {"done", "error", "canceled"}
isActiveUpload(j) == j.status \in {"queued", "uploading"}

Ids == DOMAIN jobs
JobIds == 1..(CHOOSE n \in {b.posts : b \in Budgets} : \A b \in Budgets : b.posts <= n)
Landed(f) == {i \in Ids : jobs[i].folder = f /\ jobs[i].landed}
Holding == {i \in Ids : jobs[i].run \in {"holding", "landed", "finished"}}

\* listFor: a session's jobs, their order left out.
Rows(js) == {[id |-> i, status |-> js[i].status] : i \in {j \in DOMAIN js : js[j].listed}}
InList(d, i) == \E r \in d : r.id = i
Shown == IF list.data = NoData THEN {} ELSE list.data
Active(d) == {r \in d : isActiveUpload(r)}

NoPost == [file |-> None, id |-> 0]

Init ==
    /\ place \in Folders
    /\ pending = {} /\ batch = [files |-> {}, folder |-> None] /\ post = NoPost /\ errors = {}
    /\ jobs = <<>> /\ list = Ask(Empty) /\ seen = {} /\ calls = {}
    /\ listing = [f \in Folders |-> NoData]
    /\ contents = [f \in Folders |-> IF f = place THEN Ask(Empty) ELSE Empty]
    /\ told = {} /\ blind = {} /\ early = {}
    /\ left \in Budgets

-----------------------------------------------------------------------------
(* The tab: what is chosen and where it goes.                              *)

submitting == batch.folder # None

\* The user opens another folder, or a project without a data-management id.
Browse(f) ==
    /\ f # place /\ left.moves > 0
    /\ place' = f
    /\ contents' = IF f = None \/ Trusted(contents[f]) THEN contents
                   ELSE [contents EXCEPT ![f] = Ask(@)]
    /\ left' = [left EXCEPT !.moves = @ - 1]
    /\ UNCHANGED <<pending, batch, errors, post, server, list, seen, told, calls, blind, early>>

\* Files from the picker, the dialog's zone or a drop on the window: none
\* twice, and only where files can go.
addFiles(f) ==
    /\ place # None
    /\ pending' = pending \union {f}
    /\ pending' # pending
    /\ UNCHANGED <<place, batch, errors, post, server, view, calls, blind, early, left>>

removeFile(f) ==
    /\ f \in pending
    /\ pending' = pending \ {f}
    /\ UNCHANGED <<place, batch, errors, post, server, view, calls, blind, early, left>>

\* The target is taken when the button is pressed; files chosen from then on
\* wait for the next press.
canUpload == place # None /\ pending # {} /\ ~submitting
startUpload ==
    /\ canUpload
    /\ Cardinality(pending) <= left.posts
    /\ batch' = [files |-> pending, folder |-> place]
    /\ pending' = {}
    /\ left' = [left EXCEPT !.posts = @ - Cardinality(pending)]
    /\ UNCHANGED <<place, errors, post, server, view, calls, blind, early>>

-----------------------------------------------------------------------------
(* The list of jobs, and what the tab does when it changes.                *)

Having(d, st) == {r.id : r \in {x \in d : x.status = st}}
Observe_Watched(d) ==
    LET done  == Having(d, "done")
        fresh == {i \in done \ seen : InList(Shown, i)}
    IN  /\ seen' = done \ Having(d, "queued")
        /\ told' = told \union (done \ seen)
        /\ contents' = [f \in Folders |->
                          IF \E i \in fresh : jobs[i].folder = f
                          THEN Invalidate(contents[f], place = f) ELSE contents[f]]
        /\ early' = early \union {f \in Folders :
               /\ \E i \in fresh : jobs[i].folder = f
               /\ InFlight(contents[f]) /\ (contents[f].data = NoData \/ place # f)}
\* A job shown done that the last list did not show done has put a file into
\* its folder: what the tab caches of it is stale. Of two rows of one job the
\* later one is remembered, the queued one its post's answer has added.
Observe(d) ==
    LET fresh == Having(d, "done") \ seen
    IN  /\ seen' = Having(d, "done") \ Having(d, "queued")
        /\ told' = told \union fresh
        /\ contents' = [f \in Folders |->
                          IF \E i \in fresh : jobs[i].folder = f
                          THEN Invalidate(contents[f], place = f) ELSE contents[f]]
        /\ early' = early \union {f \in Folders :
               /\ \E i \in fresh : jobs[i].folder = f
               /\ InFlight(contents[f]) /\ (contents[f].data = NoData \/ place # f)}

\* Jobs the tab will not ask about again of itself when d is its list: they are
\* not on it, no job of it is active, and no batch whose end has it read again is
\* being posted.
Unasked(d) ==
    IF Active(d) = {} /\ ~submitting
    THEN {i \in Ids : jobs[i].listed /\ ~InList(d, i)} \ told ELSE {}

Poll_WhileUploading ==
    /\ ~InFlight(list) /\ \E r \in Shown : r.status = "uploading"
    /\ list' = Ask(list)
    /\ UNCHANGED <<tab, post, server, seen, contents, told, calls, blind, early, left>>
Poll ==
    /\ ~InFlight(list) /\ Active(Shown) # {}
    /\ list' = Ask(list)
    /\ UNCHANGED <<tab, post, server, seen, contents, told, calls, blind, early, left>>

ServeList ==
    /\ list.st = "asked"
    /\ list' = Answer(list, Rows(jobs))
    /\ UNCHANGED <<tab, post, server, seen, contents, told, calls, blind, early, left>>

ApplyList ==
    /\ list.st = "ready"
    /\ list' = Apply(list)
    /\ Observe(list.ans)
    /\ blind' = blind \union Unasked(list.ans)
    /\ UNCHANGED <<tab, post, server, calls, left>>

\* A failed reading, the first one or a later one, leaves what the tab has; the
\* timer asks again while that has an active job, and only then.
FailList ==
    /\ InFlight(list) /\ left.fails > 0
    /\ list' = Fail(list)
    /\ blind' = blind \union Unasked(Shown)
    /\ left' = [left EXCEPT !.fails = @ - 1]
    /\ UNCHANGED <<tab, post, server, seen, contents, told, calls, early>>

-----------------------------------------------------------------------------
(* Posting.                                                                *)

\* The loop goes on with the next file; at its end the list is read again.
NextFile(f, d) ==
    /\ post' = NoPost
    /\ IF batch.files = {f}
       THEN /\ batch' = [files |-> {}, folder |-> None]
            /\ list' = Invalidate(d, TRUE)
       ELSE /\ batch' = [batch EXCEPT !.files = @ \ {f}]
            /\ list' = d

\* handleUploadCreate: the spooled file becomes a job.
Post(f) ==
    /\ post = NoPost /\ f \in batch.files
    /\ jobs' = Append(jobs, [folder |-> batch.folder, status |-> "queued", ctx |-> FALSE,
                             run |-> "waiting", landed |-> FALSE, listed |-> TRUE])
    /\ post' = [file |-> f, id |-> Len(jobs) + 1]
    /\ UNCHANGED <<tab, listing, view, calls, blind, early, left>>

\* The answer's job, queued, is added to the list, whatever the list has of it.
Accepted ==
    /\ post # NoPost
    /\ LET d == Shown \union {[id |-> post.id, status |-> "queued"]}
       IN  /\ NextFile(post.file, SetData(list, d))
           /\ Observe(d)
    /\ UNCHANGED <<place, pending, errors, server, calls, blind, left>>

\* A post fails, or its answer after the server took the file.
PostFails(f) ==
    /\ left.fails > 0
    /\ IF post = NoPost THEN f \in batch.files ELSE f = post.file
    /\ errors' = errors \union {f}
    /\ NextFile(f, list)
    /\ left' = [left EXCEPT !.fails = @ - 1]
    /\ UNCHANGED <<place, pending, server, seen, contents, told, calls, blind, early>>

-----------------------------------------------------------------------------
(* Calls on jobs, each answered with the list of then.                     *)

Call(c) ==
    /\ left.calls > 0
    /\ calls' = calls \union {c}
    /\ left' = [left EXCEPT !.calls = @ - 1]

\* The row of an active job cancels it, as does the footer's button for all.
cancelJob(r) ==
    /\ r \in Active(Shown)
    /\ Call([kind |-> "cancel", id |-> r.id, st |-> "asked", ans |-> NoData, no |-> left.calls])
    /\ UNCHANGED <<tab, post, server, view, blind, early>>

\* The row of a job that ended takes it off the list.
dismissFinished(r) ==
    /\ r \in Shown \ Active(Shown)
    /\ Call([kind |-> "dismiss", id |-> r.id, st |-> "asked", ans |-> NoData, no |-> left.calls])
    /\ UNCHANGED <<tab, post, server, view, blind, early>>

\* A row of a post that failed is only the tab's.
dismissLocal(f) ==
    /\ f \in errors
    /\ errors' = errors \ {f}
    /\ UNCHANGED <<place, pending, batch, post, server, view, calls, blind, early, left>>

\* The dialog offers it when a job of the list has ended, the footer when none
\* is active and nothing is being posted.
clearFinished ==
    /\ Shown # {} \/ errors # {}
    /\ \/ Shown # Active(Shown) \/ errors # {}
       \/ Active(Shown) = {} /\ ~submitting
    /\ errors' = {}
    /\ Call([kind |-> "dismiss", id |-> 0, st |-> "asked", ans |-> NoData, no |-> left.calls])
    /\ UNCHANGED <<place, pending, batch, post, server, view, blind, early>>

Finish(j, st) == IF j.status \in Terminal THEN j ELSE [j EXCEPT !.status = st]

\* cancel of a job: it ends at once, its goroutine when it notices.
CancelAt(i) == [jobs EXCEPT ![i] = [Finish(jobs[i], "canceled") EXCEPT !.ctx = TRUE]]
\* dismiss: what has ended is taken off, the one named or all.
DismissAt(id) ==
    [i \in Ids |-> IF jobs[i].status \in Terminal /\ id \in {0, i}
                   THEN [jobs[i] EXCEPT !.listed = FALSE] ELSE jobs[i]]

ServeCall(c) ==
    /\ c.st = "asked"
    /\ jobs' = IF c.kind = "dismiss" THEN DismissAt(c.id)
               ELSE IF jobs[c.id].listed THEN CancelAt(c.id) ELSE jobs
    /\ calls' = (calls \ {c}) \union {[c EXCEPT !.st = "served", !.ans = Rows(jobs')]}
    /\ blind' = blind \union ({i \in Ids : jobs[i].listed /\ ~jobs'[i].listed} \ told)
    /\ UNCHANGED <<tab, post, listing, view, early, left>>

CallAnswered(c) ==
    /\ c.st = "served"
    /\ calls' = calls \ {c}
    /\ list' = SetData(list, c.ans)
    /\ Observe(c.ans)
    /\ blind' = blind \union (IF InFlight(list) THEN {} ELSE Unasked(c.ans))
    /\ UNCHANGED <<tab, post, server, left>>

CallFails(c) ==
    /\ left.fails > 0
    /\ calls' = calls \ {c}
    /\ left' = [left EXCEPT !.fails = @ - 1]
    /\ UNCHANGED <<tab, post, server, view, blind, early>>

-----------------------------------------------------------------------------
(* runUpload, the goroutine of a job.                                      *)

Job(i, j) ==
    /\ jobs' = [jobs EXCEPT ![i] = j]
    /\ UNCHANGED <<tab, post, view, calls, blind, early>>

TakeSlot(i) ==
    /\ jobs[i].run = "waiting" /\ Cardinality(Holding) < Slots
    /\ Job(i, [jobs[i] EXCEPT !.run = "holding",
                              !.status = IF @ \in Terminal THEN @ ELSE "uploading"])
    /\ UNCHANGED <<listing, left>>

\* A canceled job need not get its slot.
AbortWait(i) ==
    /\ jobs[i].run = "waiting" /\ jobs[i].ctx
    /\ Job(i, Finish([jobs[i] EXCEPT !.run = "gone"], "canceled"))
    /\ UNCHANGED <<listing, left>>

\* The item is created; a cancellation may still come before its end is noted.
Land(i) ==
    /\ jobs[i].run = "holding" /\ ~jobs[i].ctx
    /\ Job(i, [jobs[i] EXCEPT !.run = "landed", !.landed = TRUE])
    /\ UNCHANGED <<listing, left>>

RunFails(i) ==
    /\ jobs[i].run = "holding"
    /\ \/ jobs[i].ctx /\ UNCHANGED left
       \/ ~jobs[i].ctx /\ left.fails > 0 /\ left' = [left EXCEPT !.fails = @ - 1]
    /\ Job(i, Finish([jobs[i] EXCEPT !.run = "gone"],
                     IF jobs[i].ctx THEN "canceled" ELSE "error"))
    /\ UNCHANGED listing

RunDone(i) ==
    /\ jobs[i].run = "landed"
    /\ Job(i, Finish([jobs[i] EXCEPT !.run = "finished"], "done"))
    /\ UNCHANGED <<listing, left>>

\* InvalidateSubject: the cached listings go, and the slot is free.
DropListings(i) ==
    /\ jobs[i].run = "finished"
    /\ Job(i, [jobs[i] EXCEPT !.run = "gone"])
    /\ listing' = [f \in Folders |-> NoData]
    /\ UNCHANGED left

-----------------------------------------------------------------------------
(* The folders, read through the cache of listings.                        *)

ServeContents(f) ==
    /\ contents[f].st = "asked"
    /\ LET d == IF listing[f] = NoData THEN Landed(f) ELSE listing[f]
       IN  /\ contents' = [contents EXCEPT ![f] = Answer(@, d)]
           /\ listing' = [listing EXCEPT ![f] = d]
           /\ early' = IF \E i \in Landed(f) \ d : jobs[i].run = "finished"
                       THEN early \union {f} ELSE early \ {f}
    /\ UNCHANGED <<tab, post, jobs, list, seen, told, calls, blind, left>>

ApplyContents(f) ==
    /\ contents[f].st = "ready"
    /\ contents' = [contents EXCEPT ![f] = Apply(@)]
    /\ UNCHANGED <<tab, post, server, list, seen, told, calls, blind, early, left>>

Expire(f) ==
    /\ listing[f] # NoData
    /\ listing' = [listing EXCEPT ![f] = NoData]
    /\ UNCHANGED <<tab, post, jobs, view, calls, blind, early, left>>

-----------------------------------------------------------------------------
Run(i) == TakeSlot(i) \/ AbortWait(i) \/ Land(i) \/ RunDone(i) \/ DropListings(i)
Answered == ServeList \/ ApplyList \/ \E c \in calls : ServeCall(c) \/ CallAnswered(c)

Next ==
    \/ \E f \in Folders \union {None} : Browse(f)
    \/ \E f \in Files : addFiles(f) \/ removeFile(f) \/ Post(f) \/ PostFails(f) \/ dismissLocal(f)
    \/ startUpload \/ Accepted
    \/ Poll \/ FailList \/ Answered
    \/ \E r \in Shown : cancelJob(r) \/ dismissFinished(r)
    \/ clearFinished
    \/ \E c \in calls : CallFails(c)
    \/ \E i \in Ids : Run(i) \/ RunFails(i)
    \/ \E f \in Folders : ServeContents(f) \/ ApplyContents(f) \/ Expire(f)

\* The poll's timer, the server and the browser's event loop keep running; a
\* job that has its slot ends.
Runs == \E i \in Ids : TakeSlot(i) \/ Land(i) \/ RunDone(i) \/ DropListings(i)
Fairness ==
    /\ WF_vars(Poll) /\ WF_vars(ServeList) /\ WF_vars(ApplyList)
    /\ WF_vars(Accepted) /\ WF_vars(Runs)

Spec == Init /\ [][Next]_vars
FairSpec == Spec /\ Fairness

-----------------------------------------------------------------------------
TypeOK ==
    /\ place \in Folders \union {None} /\ pending \subseteq Files /\ errors \subseteq Files
    /\ batch \in [files : SUBSET Files, folder : Folders \union {None}]
    /\ Cardinality(Holding) <= Slots
    /\ list.st \in {"idle", "asked", "ready"} /\ seen \subseteq Ids

\* A folder that passes for current shows every upload the tab has seen done:
\* seeing it done made the folder be read again, and the server's listing was
\* not older.  Two readings are: one from the cache between a job's end and the
\* drop of the listings (server/uploads.go notes the end first), and one under
\* way that the invalidation does not restart.
LandedShows ==
    \A i \in told : LET f == jobs[i].folder
                    IN  Trusted(contents[f]) => i \in contents[f].data \/ f \in early

\* Every upload that ends done is seen done by the tab, so that its folder is
\* read again, with two exceptions: a dismissal takes it off first, and a list
\* without it stays on a tab that does not poll (the answer of its post was lost,
\* and the reading that followed failed or was of before).
Noticed == \A i \in JobIds :
    (i \in Ids /\ jobs[i].status = "done") ~> (i \in told \union blind)

\* What the code does not keep (uploads.tsx: "when a job completes, the target
\* folder has a new item: refresh the matching contents query").
AllNoticed == \A i \in JobIds : (i \in Ids /\ jobs[i].status = "done") ~> i \in told
=============================================================================
