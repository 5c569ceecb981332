---------------------------- MODULE FusionActions ----------------------------
(***************************************************************************)
(* What a document of Fusion can be asked for: Open and Insert, done by    *)
(* the desktop helper of the user's machine, and Archive, a job of the     *)
(* server (web/src/state/fusionActions.tsx, its buttons and the bell;      *)
(* server/handlers_fusion.go, fusiontickets.go and archives.go).           *)
(*                                                                         *)
(* Open and Insert mint a ticket and hand a link to the operating system,  *)
(* which tells the page nothing: the tab asks the server for the helper's  *)
(* report until it comes or a deadline passes.  An archive is announced by *)
(* a row of the inbox, which the tab reads on a timer and when it sees a   *)
(* job end.                                                                *)
(***************************************************************************)
EXTENDS QueryCache, Sequences, FiniteSets

CONSTANTS
    Docs,
    None,
    Slots,       \* archiveConcurrency
    Budgets      \* bounds of a behaviour: actions, archives, openings of the
                 \* bell, failures

VARIABLES
    loops,       \* runAction calls under way
    pending,     \* pendingRef: documents with an action in flight
    feedback,    \* the one outcome on screen
    tickets,     \* the server's tickets, in order of minting
    helper,      \* what the helper makes of each
    starts,      \* POSTs of archives under way
    jobs,        \* the server's archive jobs, in order
    list,        \* ["archives"] as the tab caches it
    seen,        \* seenStatus
    bell,        \* the popover is open
    saving,      \* archives being downloaded
    inbox,       \* the rows of the caller's inbox
    notifs,      \* ["notifs"] as the tab caches it
    left         \* what remains of the budget

tab == <<loops, pending, feedback>>
links == <<tickets, helper>>
archive == <<starts, jobs, list, seen, bell, saving>>
rows == <<inbox, notifs>>
vars == <<tab, links, archive, rows, left>>

-----------------------------------------------------------------------------
Terminal == {"ready", "error"}
isActiveArchive(j) == j.status \in {"queued", "preparing"}
Tickets == DOMAIN tickets
Ids == DOMAIN jobs
Shown == IF list.data = NoData THEN <<>> ELSE list.data

\* archiveFor and archiveReady, from the list as cached.
archiveFor(d) == \E i \in DOMAIN Shown : Shown[i].doc = d /\ isActiveArchive(Shown[i])
archiveReady(i) == i \in DOMAIN Shown /\ Shown[i].status = "ready"

\* listFor: the session's jobs in order of submission.
List == [i \in Ids |-> [doc |-> jobs[i].doc, status |-> jobs[i].status]]

Init ==
    /\ loops = {} /\ pending = {} /\ feedback = None
    /\ tickets = <<>> /\ helper = <<>>
    /\ starts = {} /\ jobs = <<>> /\ list = Ask(Empty) /\ seen = <<>> /\ bell = FALSE /\ saving = {}
    /\ inbox = {} /\ notifs = Ask(Empty)
    /\ left \in Budgets

Spend(what) == left[what] > 0 /\ left' = [left EXCEPT ![what] = @ - 1]
Say(kind, d, status) == feedback' = [kind |-> kind, doc |-> d, status |-> status]

-----------------------------------------------------------------------------
(* Open and Insert: runAction.                                             *)

\* The guard is a ref: it holds before the buttons are drawn disabled.
runAction(d) ==
    /\ d \notin pending
    /\ pending' = pending \union {d}
    /\ loops' = loops \union {[doc |-> d, st |-> "posting", ticket |-> 0, late |-> FALSE]}
    /\ Spend("actions")
    /\ UNCHANGED <<feedback, links, archive, rows>>

Move(l, m) == loops' = (loops \ {l}) \union {m}
Done(l, status) ==
    /\ loops' = loops \ {l}
    /\ pending' = pending \ {l.doc}
    /\ Say("action", l.doc, status)

prunable(t) == IF tickets[t].report = "none" THEN tickets[t].expired ELSE tickets[t].old
Swept == {t \in Tickets : tickets[t].kept /\ prunable(t)}
Sweeping == [t \in Tickets |-> [tickets[t] EXCEPT !.kept = @ /\ ~prunable(t)]]

\* From the server's own machine the action is done while the tab waits.
Proxied(l, status) ==
    /\ l.st = "posting" /\ status \in {"ok", "error"}
    /\ Done(l, status)
    /\ UNCHANGED <<links, archive, rows, left>>

\* From elsewhere a ticket is minted; the dead ones are swept on the way.
Mint(l) ==
    /\ l.st = "posting"
    /\ tickets' = Append(Sweeping, [doc |-> l.doc, redeemed |-> FALSE, report |-> "none",
                                    expired |-> FALSE, old |-> FALSE, kept |-> TRUE])
    /\ helper' = Append(helper, "none")
    /\ Move(l, [l EXCEPT !.st = "minted", !.ticket = Len(tickets) + 1])
    /\ UNCHANGED <<pending, feedback, archive, rows, left>>

\* The link is handed over. Whether a helper answers to it, the page is not told.
Launch(l, installed) ==
    /\ l.st = "minted"
    /\ helper' = IF installed THEN [helper EXCEPT ![l.ticket] = "launched"] ELSE helper
    /\ Move(l, [l EXCEPT !.st = "sleep"])
    /\ UNCHANGED <<pending, feedback, tickets, archive, rows, left>>

ActionFails_Silent(l) ==
    /\ l.st \in {"posting", "minted"} /\ Spend("fails")
    /\ loops' = loops \ {l} /\ Say("action", l.doc, "error")
    /\ UNCHANGED <<pending, links, archive, rows>>
\* The POST fails, or its answer.
ActionFails(l) ==
    /\ l.st \in {"posting", "minted"} /\ Spend("fails")
    /\ Done(l, "error")
    /\ UNCHANGED <<links, archive, rows>>

LookUp(l) ==
    /\ l.st = "sleep"
    /\ Move(l, [l EXCEPT !.st = IF tickets[l.ticket].kept THEN tickets[l.ticket].report ELSE "gone"])
    /\ UNCHANGED <<pending, feedback, links, archive, rows, left>>

\* The answer: a report, or nothing yet and another round before the deadline.
Answered(l) ==
    /\ l.st \in {"none", "ok", "error", "gone"}
    /\ CASE l.st = "none" /\ ~l.late -> Move(l, [l EXCEPT !.st = "sleep"]) /\ UNCHANGED <<pending, feedback>>
         [] l.st \in {"ok", "error"} -> Done(l, l.st)
         [] OTHER                    -> Done(l, "helperMissing")
    /\ notifs' = IF l.st = "error" THEN Invalidate(notifs, TRUE) ELSE notifs
    /\ UNCHANGED <<links, archive, inbox, left>>

\* A lookup that fails counts as never hearing back.
LookUpFails(l) ==
    /\ l.st \in {"sleep", "none", "ok", "error"} /\ Spend("fails")
    /\ Done(l, "helperMissing")
    /\ UNCHANGED <<links, archive, rows>>

Deadline(l) ==
    /\ l.st \in {"sleep", "none"} /\ ~l.late
    /\ Move(l, [l EXCEPT !.late = TRUE])
    /\ UNCHANGED <<pending, feedback, links, archive, rows, left>>

dismissFeedback ==
    /\ feedback # None /\ feedback' = None
    /\ UNCHANGED <<loops, pending, links, archive, rows, left>>

-----------------------------------------------------------------------------
(* The helper, and the tickets' lifetime.                                  *)

Helper(t, h) == helper' = [helper EXCEPT ![t] = h] /\ UNCHANGED <<tab, archive, left>>

\* A ticket is redeemed once and before it expires.
Redeem(t) ==
    /\ helper[t] = "launched"
    /\ LET fit == tickets[t].kept /\ ~tickets[t].redeemed /\ ~tickets[t].expired
       IN  /\ tickets' = IF fit THEN [tickets EXCEPT ![t].redeemed = TRUE] ELSE tickets
           /\ Helper(t, IF fit THEN "acting" ELSE "refused")
    /\ UNCHANGED rows

Perform(t, how) ==
    /\ helper[t] = "acting" /\ how \in {"did", "failed"}
    /\ Helper(t, how)
    /\ UNCHANGED <<tickets, rows>>

\* handleFusionCallback: a ticket that is still known takes the report, and a
\* failure is filed in the inbox.
Report(t) ==
    /\ helper[t] \in {"did", "failed"}
    /\ LET ok == helper[t] = "did"
       IN  /\ IF tickets[t].kept /\ tickets[t].redeemed /\ tickets[t].report = "none"
              THEN /\ tickets' = [tickets EXCEPT ![t].report = IF ok THEN "ok" ELSE "error"]
                   /\ inbox' = IF ok THEN inbox ELSE inbox \union {<<"fusion_failed", t>>}
              ELSE UNCHANGED <<tickets, inbox>>
           /\ Helper(t, IF ok THEN "reported" ELSE "reportedFailed")
    /\ UNCHANGED notifs

\* Two minutes after the minting, when no tab asks for it any more.
Expire(t) ==
    /\ ~tickets[t].expired /\ \A l \in loops : l.ticket = t => l.late
    /\ tickets' = [tickets EXCEPT ![t].expired = TRUE]
    /\ UNCHANGED <<tab, helper, archive, rows, left>>
\* Five minutes after the report.
Age(t) ==
    /\ tickets[t].report # "none" /\ ~tickets[t].old /\ \A l \in loops : l.ticket # t
    /\ tickets' = [tickets EXCEPT ![t].old = TRUE]
    /\ UNCHANGED <<tab, helper, archive, rows, left>>
Sweep ==
    /\ Swept # {}
    /\ tickets' = Sweeping
    /\ UNCHANGED <<tab, helper, archive, rows, left>>

-----------------------------------------------------------------------------
(* Archives: the tab's calls and the server's handlers.                    *)

\* The button is drawn from the list: a second press may come before it knows.
startArchive(d) ==
    /\ ~archiveFor(d)
    /\ starts' = starts \union {[doc |-> d, st |-> "asked", ans |-> <<>>, no |-> left.archives]}
    /\ Spend("archives")
    /\ UNCHANGED <<tab, links, jobs, list, seen, bell, saving, rows>>

Asked(s, t) == starts' = (starts \ {s}) \union {t}

\* activeFor, then add: two requests may both pass the first.
CheckArchive(s) ==
    /\ s.st = "asked"
    /\ Asked(s, [s EXCEPT !.st = IF \E i \in Ids : jobs[i].doc = s.doc /\ isActiveArchive(jobs[i])
                                 THEN "refused" ELSE "checked"])
    /\ UNCHANGED <<tab, links, jobs, list, seen, bell, saving, rows, left>>
AddArchive(s) ==
    /\ s.st = "checked"
    /\ jobs' = Append(jobs, [doc |-> s.doc, status |-> "queued", run |-> "waiting"])
    /\ Asked(s, [s EXCEPT !.st = "served",
                          !.ans = Append(List, [doc |-> s.doc, status |-> "queued"])])
    /\ UNCHANGED <<tab, links, list, seen, bell, saving, rows, left>>

\* The effect on the list: a job not seen in this end before reads the inbox.
Observe(d) ==
    /\ seen' = d
    /\ notifs' = IF \E i \in DOMAIN d : /\ ~isActiveArchive(d[i])
                                        /\ i \in DOMAIN seen => seen[i] # d[i]
                 THEN Invalidate(notifs, TRUE) ELSE notifs

ArchiveStarted(s) ==
    /\ s.st = "served" /\ starts' = starts \ {s}
    /\ list' = SetData(list, s.ans) /\ Observe(s.ans)
    /\ UNCHANGED <<tab, links, jobs, bell, saving, inbox, left>>
ArchiveRefused(s) ==
    /\ \/ s.st = "refused" /\ UNCHANGED left
       \/ s.st \in {"asked", "served"} /\ Spend("fails")
    /\ starts' = starts \ {s} /\ Say("archive", s.doc, "error")
    /\ UNCHANGED <<loops, pending, links, jobs, list, seen, bell, saving, rows>>

-----------------------------------------------------------------------------
(* runArchive, the goroutine of a job.                                     *)

Holding == {i \in Ids : jobs[i].run \in {"holding", "finished"}}
Job(i, run, status) ==
    /\ jobs' = [jobs EXCEPT ![i].run = run, ![i].status = status]
    /\ UNCHANGED <<tab, links, starts, list, seen, bell, saving, notifs>>

TakeSlot(i) ==
    /\ jobs[i].run = "waiting" /\ Cardinality(Holding) < Slots
    /\ Job(i, "holding", "preparing") /\ UNCHANGED <<inbox, left>>
Generated(i) ==
    /\ jobs[i].run = "holding"
    /\ Job(i, "finished", "ready") /\ UNCHANGED <<inbox, left>>
GenerateFails(i) ==
    /\ jobs[i].run = "holding" /\ Spend("fails")
    /\ Job(i, "finished", "error") /\ UNCHANGED inbox
\* After half an hour the job ends without a row, its slot or not.
JobTimesOut(i) ==
    /\ jobs[i].run \in {"waiting", "holding"} /\ Spend("fails")
    /\ Job(i, "gone", "canceled") /\ UNCHANGED inbox
\* The row is written after the job has ended.
emitArchiveResult(i) ==
    /\ jobs[i].run = "finished"
    /\ inbox' = inbox \union {<<"archive", i>>}
    /\ Job(i, "gone", jobs[i].status) /\ UNCHANGED left

-----------------------------------------------------------------------------
(* The two lists of the tab, and the bell.                                 *)

PollArchives ==
    /\ ~InFlight(list) /\ \E i \in DOMAIN Shown : isActiveArchive(Shown[i])
    /\ list' = Ask(list)
    /\ UNCHANGED <<tab, links, starts, jobs, seen, bell, saving, rows, left>>
ServeArchives ==
    /\ list.st = "asked" /\ list' = Answer(list, List)
    /\ UNCHANGED <<tab, links, starts, jobs, seen, bell, saving, rows, left>>
ApplyArchives ==
    /\ list.st = "ready" /\ list' = Apply(list) /\ Observe(list.ans)
    /\ UNCHANGED <<tab, links, starts, jobs, bell, saving, inbox, left>>

\* What forwarding the end of a job alone would do.
PollNotifs_Never ==
    /\ ~InFlight(notifs) /\ notifs.data = NoData
    /\ notifs' = Ask(notifs)
    /\ UNCHANGED <<tab, links, archive, inbox, left>>
PollNotifs ==
    /\ ~InFlight(notifs) /\ notifs.data # inbox
    /\ notifs' = Ask(notifs)
    /\ UNCHANGED <<tab, links, archive, inbox, left>>
ServeNotifs ==
    /\ notifs.st = "asked" /\ notifs' = Answer(notifs, inbox)
    /\ UNCHANGED <<tab, links, archive, inbox, left>>
ApplyNotifs ==
    /\ notifs.st = "ready" /\ notifs' = Apply(notifs)
    /\ UNCHANGED <<tab, links, archive, inbox, left>>

\* Opening the bell reads both lists again.
OpenBell ==
    /\ ~bell /\ bell' = TRUE /\ Spend("opens")
    /\ notifs' = Restart(notifs)
    /\ list' = Invalidate(list, TRUE)
    /\ UNCHANGED <<tab, links, starts, jobs, seen, saving, inbox>>
CloseBell ==
    /\ bell /\ bell' = FALSE
    /\ UNCHANGED <<tab, links, starts, jobs, list, seen, saving, rows, left>>

\* The row's button, live while the cached list has the job ready.
downloadArchive(i) ==
    /\ bell /\ notifs.data # NoData /\ <<"archive", i>> \in notifs.data
    /\ archiveReady(i) /\ i \notin saving
    /\ saving' = saving \union {i}
    /\ UNCHANGED <<tab, links, starts, jobs, list, seen, bell, rows, left>>
Downloaded(i) ==
    /\ i \in saving /\ saving' = saving \ {i}
    /\ \/ UNCHANGED <<feedback, left>>
       \/ Spend("fails") /\ Say("archive", jobs[i].doc, "error")
    /\ UNCHANGED <<loops, pending, links, starts, jobs, list, seen, bell, rows>>

-----------------------------------------------------------------------------
Acting(l) == (\E s \in {"ok", "error"} : Proxied(l, s)) \/ Mint(l) \/ LookUp(l) \/ Answered(l)
             \/ Deadline(l) \/ (\E b \in BOOLEAN : Launch(l, b))

Next ==
    \/ \E d \in Docs : runAction(d) \/ startArchive(d)
    \/ \E l \in loops : Acting(l) \/ ActionFails(l) \/ LookUpFails(l)
    \/ dismissFeedback
    \/ \E t \in Tickets : Redeem(t) \/ (\E h \in {"did", "failed"} : Perform(t, h)) \/ Report(t)
                          \/ Expire(t) \/ Age(t)
    \/ Sweep
    \/ \E s \in starts : CheckArchive(s) \/ AddArchive(s) \/ ArchiveStarted(s) \/ ArchiveRefused(s)
    \/ \E i \in Ids : TakeSlot(i) \/ Generated(i) \/ GenerateFails(i) \/ JobTimesOut(i)
                      \/ emitArchiveResult(i) \/ downloadArchive(i) \/ Downloaded(i)
    \/ PollArchives \/ ServeArchives \/ ApplyArchives
    \/ PollNotifs \/ ServeNotifs \/ ApplyNotifs \/ OpenBell \/ CloseBell

\* The tab's loops and timers go on, requests are answered, a job ends. The
\* helper, the user and the network are under no obligation.
Asks(d) == \E l \in loops : l.doc = d /\ (Mint(l) \/ LookUp(l) \/ Answered(l))
Hands(d) == \E l \in loops : l.doc = d /\ (Deadline(l) \/ \E b \in BOOLEAN : Launch(l, b))
Runs == \E i \in Ids : TakeSlot(i) \/ Generated(i) \/ emitArchiveResult(i)

Fairness ==
    /\ \A d \in Docs : WF_vars(Asks(d)) /\ WF_vars(Hands(d))
    /\ WF_vars(Runs)
    /\ WF_vars(PollNotifs) /\ WF_vars(ServeNotifs) /\ WF_vars(ApplyNotifs)

Spec == Init /\ [][Next]_vars
FairSpec == Spec /\ Fairness

-----------------------------------------------------------------------------
TypeOK ==
    /\ pending \subseteq Docs /\ {l.doc : l \in loops} \subseteq Docs
    /\ Len(helper) = Len(tickets) /\ bell \in BOOLEAN /\ saving \subseteq Ids
    /\ Cardinality(Holding) <= Slots
    /\ inbox \subseteq {"archive", "fusion_failed"} \X Nat

\* A document's buttons come back: whatever becomes of its link, of the helper
\* and of the requests, an action in flight ends (runAction and its done).
ActionsEnd == \A d \in Docs : d \in pending ~> d \notin pending

\* Every archive that is ready or has failed is announced in the bell of the tab
\* on screen, the end seen before its row is written included (archives.go
\* finishes the job, then emits; fusionActions.tsx reads the inbox when it sees
\* the end).  One that times out is not.
ArchiveAnnounced ==
    \A i \in 1..2 : (i \in Ids /\ jobs[i].status \in Terminal)
                      ~> (notifs.data # NoData /\ <<"archive", i>> \in notifs.data)

\* server/handlers_fusion.go: a failure the helper reports "lands in the
\* requester's inbox so it isn't lost if they navigated away".
FailureFiled == \A t \in Tickets : helper[t] = "reportedFailed" => <<"fusion_failed", t>> \in inbox
=============================================================================
