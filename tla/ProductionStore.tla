-------------------------- MODULE ProductionStore --------------------------
(***************************************************************************)
(* The jobs of one project (production/store.go): a job's plan is a graph  *)
(* of steps and decisions, and a batch is one run of it, recorded against  *)
(* a copy of the plan taken when the run began.                            *)
(*                                                                         *)
(* Every write runs under the project's lock on one job, which is restored *)
(* when the write is refused or the file cannot be saved, so a write is    *)
(* one step and a refused one is none. Titles, labels, colours, positions  *)
(* and times are left out: no guard reads them.                            *)
(***************************************************************************)
EXTENDS Naturals, FiniteSetsExt

CONSTANTS
    MaxJobsPerProject, MaxStepsPerJob, MaxEdgesPerJob, MaxBatchesPerJob,
    MaxResultsPerStep, MaxPlaceholdersPerStep, MaxPlanDocsPerStep,
    MaxFulfillmentsPerBatch,
    MaxIds             \* bound of the model: ids the project's counters hand out together

ASSUME LimitsAssumption ==
    {MaxJobsPerProject, MaxStepsPerJob, MaxEdgesPerJob, MaxBatchesPerJob, MaxResultsPerStep,
     MaxPlaceholdersPerStep, MaxPlanDocsPerStep, MaxFulfillmentsPerBatch, MaxIds} \subseteq Nat

VARIABLES
    jobs,        \* the project's jobs, by id
    nextJobNum

vars == <<jobs, nextJobNum>>

None == 0                            \* no result, no placeholder: ids start at 1
Kinds == {"step", "decision"}

NewJob == [steps |-> [s \in {} |-> None], edges |-> {}, batches |-> [b \in {} |-> None],
           nextStepNum |-> 1, nextBatchNum |-> 1, nextChildNum |-> 1]
NewStep(kind) == [kind |-> kind, results |-> {}, placeholders |-> {}, planDocs |-> {}]

Put(f, k, v) == [x \in DOMAIN f \union {k} |-> IF x = k THEN v ELSE f[x]]
Drop(f, k) == [x \in DOMAIN f \ {k} |-> f[x]]

\* A new child of a step; edges, results, placeholders, documents and
\* fulfilments of a job are numbered by one counter.
Child(j) == j.nextChildNum
Counted(j) == [j EXCEPT !.nextChildNum = @ + 1]

HandedOut(id) == jobs[id].nextStepNum + jobs[id].nextBatchNum + jobs[id].nextChildNum
IdsLeft == nextJobNum + MapThenSumSet(HandedOut, DOMAIN jobs) < MaxIds

-----------------------------------------------------------------------------
\* target is reachable from start: it is in every set that holds start and
\* follows the edges.
Follows(j, S) == \A e \in j.edges : e.from \in S => e.to \in S
reaches(j, start, target) ==
    \A S \in SUBSET DOMAIN j.steps : start \in S /\ Follows(j, S) => target \in S

EdgeFits(j, from, via, to) ==
    /\ from # to /\ {from, to} \subseteq DOMAIN j.steps
    /\ IF j.steps[from].kind = "decision" THEN via \in j.steps[from].results ELSE via = None
    /\ ~\E e \in j.edges : e.from = from /\ e.via = via /\ e.to = to

EdgeAllowed_Backwards(j, from, via, to) ==
    /\ EdgeFits(j, from, via, to) /\ Cardinality(j.edges) < MaxEdgesPerJob
    /\ ~reaches(j, from, to)
EdgeAllowed(j, from, via, to) ==
    /\ EdgeFits(j, from, via, to) /\ Cardinality(j.edges) < MaxEdgesPerJob
    /\ ~reaches(j, to, from)

-----------------------------------------------------------------------------
CreateJob ==
    /\ Cardinality(DOMAIN jobs) < MaxJobsPerProject /\ IdsLeft
    /\ jobs' = Put(jobs, nextJobNum, NewJob)
    /\ nextJobNum' = nextJobNum + 1

\* The copy keeps the ids of the plan, and the counters they came from; runs
\* are not copied.
PlanCopy_FreshCounters(j) ==
    [j EXCEPT !.batches = NewJob.batches, !.nextBatchNum = 1, !.nextChildNum = 1]
PlanCopy(j) == [j EXCEPT !.batches = NewJob.batches, !.nextBatchNum = 1]
DuplicateJob(src) ==
    /\ Cardinality(DOMAIN jobs) < MaxJobsPerProject /\ IdsLeft
    /\ jobs' = Put(jobs, nextJobNum, PlanCopy(jobs[src]))
    /\ nextJobNum' = nextJobNum + 1

DeleteJob(id) == jobs' = Drop(jobs, id) /\ UNCHANGED nextJobNum

\* A write on one job.
Write(id, j) == jobs' = [jobs EXCEPT ![id] = j] /\ UNCHANGED nextJobNum

WithStep(j, kind) ==
    [j EXCEPT !.steps = Put(@, j.nextStepNum, NewStep(kind)), !.nextStepNum = @ + 1]
CreateStep(id, kind) ==
    /\ Cardinality(DOMAIN jobs[id].steps) < MaxStepsPerJob /\ IdsLeft
    /\ Write(id, WithStep(jobs[id], kind))

WithoutStep(j, s) ==
    [j EXCEPT !.steps = Drop(@, s), !.edges = {e \in @ : e.from # s /\ e.to # s}]
DeleteStep(id, s) == Write(id, WithoutStep(jobs[id], s))

WithEdge(j, from, via, to) ==
    [Counted(j) EXCEPT !.edges = @ \union {[id |-> Child(j), from |-> from, via |-> via, to |-> to]}]
AddEdge(id, from, via, to) ==
    /\ EdgeAllowed(jobs[id], from, via, to) /\ IdsLeft
    /\ Write(id, WithEdge(jobs[id], from, via, to))

WithoutEdge(j, e) == [j EXCEPT !.edges = @ \ {e}]
DeleteEdge(id, e) == Write(id, WithoutEdge(jobs[id], e))

WithResult(j, s) == [Counted(j) EXCEPT !.steps[s].results = @ \union {Child(j)}]
AddResult(id, s) ==
    /\ jobs[id].steps[s].kind = "decision" /\ IdsLeft
    /\ Cardinality(jobs[id].steps[s].results) < MaxResultsPerStep
    /\ Write(id, WithResult(jobs[id], s))

\* The edges that leave by the result go with it.
WithoutResult_KeepEdges(j, s, r) == [j EXCEPT !.steps[s].results = @ \ {r}]
WithoutResult(j, s, r) ==
    [j EXCEPT !.steps[s].results = @ \ {r}, !.edges = {e \in @ : ~(e.from = s /\ e.via = r)}]
RemoveResult(id, s, r) == Write(id, WithoutResult(jobs[id], s, r))

WithPlaceholder(j, s) == [Counted(j) EXCEPT !.steps[s].placeholders = @ \union {Child(j)}]
AddPlaceholder(id, s) ==
    /\ jobs[id].steps[s].kind = "step" /\ IdsLeft
    /\ Cardinality(jobs[id].steps[s].placeholders) < MaxPlaceholdersPerStep
    /\ Write(id, WithPlaceholder(jobs[id], s))

WithoutPlaceholder(j, s, p) == [j EXCEPT !.steps[s].placeholders = @ \ {p}]
RemovePlaceholder(id, s, p) == Write(id, WithoutPlaceholder(jobs[id], s, p))

WithPlanDoc(j, s) == [Counted(j) EXCEPT !.steps[s].planDocs = @ \union {Child(j)}]
AttachPlanDoc(id, s) ==
    /\ jobs[id].steps[s].kind = "step" /\ IdsLeft
    /\ Cardinality(jobs[id].steps[s].planDocs) < MaxPlanDocsPerStep
    /\ Write(id, WithPlanDoc(jobs[id], s))

WithoutPlanDoc(j, s, d) == [j EXCEPT !.steps[s].planDocs = @ \ {d}]
RemovePlanDoc(id, s, d) == Write(id, WithoutPlanDoc(jobs[id], s, d))

-----------------------------------------------------------------------------
\* A run freezes the plan: its steps with their documents and placeholders.
NewBatch(j) == [plan |-> j.steps, given |-> {}, hidden |-> {}]
WithBatch(j) ==
    [j EXCEPT !.batches = Put(@, j.nextBatchNum, NewBatch(j)), !.nextBatchNum = @ + 1]
CreateBatch(id) ==
    /\ Cardinality(DOMAIN jobs[id].batches) < MaxBatchesPerJob /\ IdsLeft
    /\ Write(id, WithBatch(jobs[id]))

WithoutBatch(j, b) == [j EXCEPT !.batches = Drop(@, b)]
DeleteBatch(id, b) == Write(id, WithoutBatch(jobs[id], b))

\* A document is supplied for a step of the frozen plan, to one of its
\* placeholders or to none; the live plan has no say.
FulfillmentFits_LivePlan(j, b, s, p) ==
    /\ s \in DOMAIN j.steps
    /\ p # None => p \in j.steps[s].placeholders
                   /\ ~\E f \in j.batches[b].given : f.step = s /\ f.placeholder = p
FulfillmentFits(j, b, s, p) ==
    LET bt == j.batches[b] IN
    /\ s \in DOMAIN bt.plan
    /\ p # None => p \in bt.plan[s].placeholders
                   /\ ~\E f \in bt.given : f.step = s /\ f.placeholder = p
WithFulfillment(j, b, s, p) ==
    [Counted(j) EXCEPT
        !.batches[b].given = @ \union {[id |-> Child(j), step |-> s, placeholder |-> p]}]
AddFulfillment(id, b, s, p) ==
    /\ FulfillmentFits(jobs[id], b, s, p) /\ IdsLeft
    /\ Cardinality(jobs[id].batches[b].given) < MaxFulfillmentsPerBatch
    /\ Write(id, WithFulfillment(jobs[id], b, s, p))

WithoutFulfillment(j, b, f) == [j EXCEPT !.batches[b].given = @ \ {f}]
RemoveFulfillment(id, b, f) == Write(id, WithoutFulfillment(jobs[id], b, f))

Hidden(j, b, S) == [j EXCEPT !.batches[b].hidden = S]
setBatchStepHidden(id, b, s) ==
    LET bt == jobs[id].batches[b] IN
    /\ s \in DOMAIN bt.plan
    /\ \/ Write(id, Hidden(jobs[id], b, bt.hidden \union {s}))
       \/ Write(id, Hidden(jobs[id], b, bt.hidden \ {s}))

-----------------------------------------------------------------------------
Init == jobs = [j \in {} |-> NewJob] /\ nextJobNum = 1

PlanWrites(id) ==
    LET j == jobs[id] IN
    \/ \E kind \in Kinds : CreateStep(id, kind)
    \/ \E s \in DOMAIN j.steps : \/ DeleteStep(id, s) \/ AddResult(id, s) \/ AddPlaceholder(id, s)
                                 \/ AttachPlanDoc(id, s)
                                 \/ \E r \in j.steps[s].results : RemoveResult(id, s, r)
                                 \/ \E p \in j.steps[s].placeholders : RemovePlaceholder(id, s, p)
                                 \/ \E d \in j.steps[s].planDocs : RemovePlanDoc(id, s, d)
    \/ \E from, to \in DOMAIN j.steps :
          \E via \in j.steps[from].results \union {None} : AddEdge(id, from, via, to)
    \/ \E e \in j.edges : DeleteEdge(id, e)

Slots(j, b, s) ==
    (IF s \in DOMAIN j.steps THEN j.steps[s].placeholders ELSE {}) \union
    (IF s \in DOMAIN j.batches[b].plan THEN j.batches[b].plan[s].placeholders ELSE {})

BatchWrites(id) ==
    LET j == jobs[id] IN
    \/ CreateBatch(id)
    \/ \E b \in DOMAIN j.batches :
          \/ DeleteBatch(id, b)
          \/ \E s \in DOMAIN j.batches[b].plan \union DOMAIN j.steps :
                \/ \E p \in Slots(j, b, s) \union {None} : AddFulfillment(id, b, s, p)
                \/ setBatchStepHidden(id, b, s)
          \/ \E f \in j.batches[b].given : RemoveFulfillment(id, b, f)

Next ==
    \/ CreateJob
    \/ \E id \in DOMAIN jobs : DuplicateJob(id) \/ DeleteJob(id) \/ PlanWrites(id) \/ BatchWrites(id)

Spec == Init /\ [][Next]_vars

-----------------------------------------------------------------------------
EdgeType == [id : Nat, from : Nat, via : Nat, to : Nat]
StepType == [kind : Kinds, results : SUBSET (Nat \ {None}),
             placeholders : SUBSET (Nat \ {None}), planDocs : SUBSET (Nat \ {None})]
StepOK(st) ==
    /\ st \in StepType
    /\ st.kind = "step" => st.results = {}
    /\ st.kind = "decision" => st.placeholders = {} /\ st.planDocs = {}

\* Every record has the fields the code gives it; a decision carries no
\* documents and a plain step has no results.
JobOK(j) ==
    /\ DOMAIN j = {"steps", "edges", "batches", "nextStepNum", "nextBatchNum", "nextChildNum"}
    /\ j.nextStepNum \in Nat \ {0} /\ j.nextBatchNum \in Nat \ {0} /\ j.nextChildNum \in Nat \ {0}
    /\ j.edges \subseteq EdgeType
    /\ j.steps \in [DOMAIN j.steps -> StepType]
    /\ \A s \in DOMAIN j.steps : s \in Nat \ {0} /\ s < j.nextStepNum /\ StepOK(j.steps[s])
    /\ \A b \in DOMAIN j.batches :
          /\ b \in Nat \ {0} /\ b < j.nextBatchNum
          /\ DOMAIN j.batches[b] = {"plan", "given", "hidden"}
TypeOK == nextJobNum \in Nat \ {0} /\ \A id \in DOMAIN jobs : JobOK(jobs[id])

\* The plan is a graph without cycles: no edge leads to a step from which the
\* edge's own start can be reached.
NoCycle(j) == \A e \in j.edges : ~reaches(j, e.to, e.from)
Acyclic == \A id \in DOMAIN jobs : NoCycle(jobs[id])

\* Every edge can be drawn, so that it can be deleted: both steps exist, and an
\* edge that leaves a decision leaves by a result the decision has.
Anchored(j) ==
    \A e \in j.edges :
        /\ {e.from, e.to} \subseteq DOMAIN j.steps
        /\ IF j.steps[e.from].kind = "decision" THEN e.via \in j.steps[e.from].results
                                                 ELSE e.via = None
EdgesAnchored == \A id \in DOMAIN jobs : Anchored(jobs[id])

\* An id names one child of a job: those in use lie below the counter, and no
\* two edges, no two steps' results and no edge and result share one.
Fresh(j) ==
    /\ \A e \in j.edges : e.id < j.nextChildNum
    /\ \A s \in DOMAIN j.steps :
          \A c \in j.steps[s].results \union j.steps[s].placeholders \union j.steps[s].planDocs :
              c < j.nextChildNum
Distinct(j) ==
    /\ \A e, f \in j.edges : e.id = f.id => e = f
    /\ \A s, t \in DOMAIN j.steps : s # t => j.steps[s].results \intersect j.steps[t].results = {}
    /\ \A e \in j.edges, s \in DOMAIN j.steps : e.id \notin j.steps[s].results
ChildIdsUnique == \A id \in DOMAIN jobs : Fresh(jobs[id]) /\ Distinct(jobs[id])

\* A run's record is about its frozen plan: every document was supplied for a
\* step and a placeholder of it, and one placeholder holds one document.
Recorded(bt) ==
    /\ bt.hidden \subseteq DOMAIN bt.plan
    /\ \A f \in bt.given : f.step \in DOMAIN bt.plan
                           /\ (f.placeholder # None => f.placeholder \in bt.plan[f.step].placeholders)
    /\ \A f, g \in bt.given :
          f.step = g.step /\ f.placeholder = g.placeholder /\ f.placeholder # None => f = g
RunsFitTheirPlan == \A id \in DOMAIN jobs : \A b \in DOMAIN jobs[id].batches : Recorded(jobs[id].batches[b])
=============================================================================
