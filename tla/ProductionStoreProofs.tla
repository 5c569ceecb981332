----------------------- MODULE ProductionStoreProofs -----------------------
(***************************************************************************)
(* Proofs about the production store, for any number of jobs, steps, edges *)
(* and runs. A step of the store leaves every job alone but one, which it  *)
(* creates empty, copies from another, or changes by one write; so each    *)
(* invariant is proved of the empty job, of the copy and of each write.    *)
(* The last part is about the editor of a job (JobEditor), which shares no *)
(* state with the store.                                                   *)
(***************************************************************************)
EXTENDS MCProduction, SequenceTheorems, TLAPS

\* The writes of one job's plan.
PlanStep(j, k) ==
    \/ \E kind \in Kinds : k = WithStep(j, kind)
    \/ \E s \in DOMAIN j.steps : k = WithoutStep(j, s)
    \/ \E s \in DOMAIN j.steps : j.steps[s].kind = "decision" /\ k = WithResult(j, s)
    \/ \E s \in DOMAIN j.steps : \E r \in j.steps[s].results : k = WithoutResult(j, s, r)
    \/ \E s \in DOMAIN j.steps : j.steps[s].kind = "step" /\ k = WithPlaceholder(j, s)
    \/ \E s \in DOMAIN j.steps : \E p \in j.steps[s].placeholders : k = WithoutPlaceholder(j, s, p)
    \/ \E s \in DOMAIN j.steps : j.steps[s].kind = "step" /\ k = WithPlanDoc(j, s)
    \/ \E s \in DOMAIN j.steps : \E d \in j.steps[s].planDocs : k = WithoutPlanDoc(j, s, d)
    \/ \E from, to \in DOMAIN j.steps :
          \E via \in j.steps[from].results \union {None} :
              EdgeAllowed(j, from, via, to) /\ k = WithEdge(j, from, via, to)
    \/ \E e \in j.edges : k = WithoutEdge(j, e)

\* The writes of its runs.
BatchStep(j, k) ==
    \/ k = WithBatch(j)
    \/ \E b \in DOMAIN j.batches : k = WithoutBatch(j, b)
    \/ \E b \in DOMAIN j.batches : \E s \in DOMAIN j.batches[b].plan \union DOMAIN j.steps :
          \E p \in Slots(j, b, s) \union {None} :
              FulfillmentFits(j, b, s, p) /\ k = WithFulfillment(j, b, s, p)
    \/ \E b \in DOMAIN j.batches : \E f \in j.batches[b].given : k = WithoutFulfillment(j, b, f)
    \/ \E b \in DOMAIN j.batches : \E s \in DOMAIN j.batches[b].plan :
          \/ k = Hidden(j, b, j.batches[b].hidden \union {s})
          \/ k = Hidden(j, b, j.batches[b].hidden \ {s})

\* What a step of the store makes of one job.
LEMMA PlanCases ==
    ASSUME NEW id \in DOMAIN jobs, PlanWrites(id)
    PROVE  \E k : PlanStep(jobs[id], k) /\ Write(id, k)
PROOF
<1> DEFINE j == jobs[id]
<1>1. CASE \E kind \in Kinds : CreateStep(id, kind)
      BY <1>1 DEF CreateStep, PlanStep
<1>2. CASE \E s \in DOMAIN j.steps : DeleteStep(id, s)
      BY <1>2 DEF DeleteStep, PlanStep
<1>3. CASE \E s \in DOMAIN j.steps : AddResult(id, s)
      BY <1>3 DEF AddResult, PlanStep
<1>4. CASE \E s \in DOMAIN j.steps : \E r \in j.steps[s].results : RemoveResult(id, s, r)
      BY <1>4 DEF RemoveResult, PlanStep
<1>5. CASE \E s \in DOMAIN j.steps : AddPlaceholder(id, s)
      BY <1>5 DEF AddPlaceholder, PlanStep
<1>6. CASE \E s \in DOMAIN j.steps : \E p \in j.steps[s].placeholders : RemovePlaceholder(id, s, p)
      BY <1>6 DEF RemovePlaceholder, PlanStep
<1>7. CASE \E s \in DOMAIN j.steps : AttachPlanDoc(id, s)
      BY <1>7 DEF AttachPlanDoc, PlanStep
<1>8. CASE \E s \in DOMAIN j.steps : \E d \in j.steps[s].planDocs : RemovePlanDoc(id, s, d)
      BY <1>8 DEF RemovePlanDoc, PlanStep
<1>9. CASE \E from, to \in DOMAIN j.steps :
              \E via \in j.steps[from].results \union {None} : AddEdge(id, from, via, to)
      BY <1>9 DEF AddEdge, PlanStep
<1>10. CASE \E e \in j.edges : DeleteEdge(id, e)
      BY <1>10 DEF DeleteEdge, PlanStep
<1> QED BY <1>1, <1>2, <1>3, <1>4, <1>5, <1>6, <1>7, <1>8, <1>9, <1>10 DEF PlanWrites

LEMMA BatchCases ==
    ASSUME NEW id \in DOMAIN jobs, BatchWrites(id)
    PROVE  \E k : BatchStep(jobs[id], k) /\ Write(id, k)
PROOF
<1> DEFINE j == jobs[id]
<1>1. CASE CreateBatch(id)
      BY <1>1 DEF CreateBatch, BatchStep
<1>2. CASE \E b \in DOMAIN j.batches : DeleteBatch(id, b)
      BY <1>2 DEF DeleteBatch, BatchStep
<1>3. CASE \E b \in DOMAIN j.batches : \E s \in DOMAIN j.batches[b].plan \union DOMAIN j.steps :
              \E p \in Slots(j, b, s) \union {None} : AddFulfillment(id, b, s, p)
      BY <1>3 DEF AddFulfillment, BatchStep
<1>4. CASE \E b \in DOMAIN j.batches : \E s \in DOMAIN j.batches[b].plan \union DOMAIN j.steps :
              setBatchStepHidden(id, b, s)
      BY <1>4 DEF setBatchStepHidden, BatchStep
<1>5. CASE \E b \in DOMAIN j.batches : \E f \in j.batches[b].given : RemoveFulfillment(id, b, f)
      BY <1>5 DEF RemoveFulfillment, BatchStep
<1> QED BY <1>1, <1>2, <1>3, <1>4, <1>5 DEF BatchWrites

LEMMA StepCases ==
    ASSUME Next, NEW id \in DOMAIN jobs'
    PROVE  \/ id \in DOMAIN jobs /\ jobs'[id] = jobs[id]
           \/ jobs'[id] = NewJob
           \/ \E src \in DOMAIN jobs : jobs'[id] = PlanCopy(jobs[src])
           \/ id \in DOMAIN jobs /\ (PlanStep(jobs[id], jobs'[id]) \/ BatchStep(jobs[id], jobs'[id]))
PROOF
<1>1. CASE CreateJob
      BY <1>1 DEF CreateJob, Put
<1>2. CASE \E src \in DOMAIN jobs : DuplicateJob(src)
      BY <1>2 DEF DuplicateJob, Put
<1>3. CASE \E x \in DOMAIN jobs : DeleteJob(x)
      BY <1>3 DEF DeleteJob, Drop
<1>4. CASE \E x \in DOMAIN jobs : PlanWrites(x)
      <2>1. PICK x \in DOMAIN jobs : PlanWrites(x) BY <1>4
      <2>2. PICK k : PlanStep(jobs[x], k) /\ Write(x, k) BY <2>1, PlanCases
      <2> QED BY <2>2 DEF Write
<1>5. CASE \E x \in DOMAIN jobs : BatchWrites(x)
      <2>1. PICK x \in DOMAIN jobs : BatchWrites(x) BY <1>5
      <2>2. PICK k : BatchStep(jobs[x], k) /\ Write(x, k) BY <2>1, BatchCases
      <2> QED BY <2>2 DEF Write
<1> QED BY <1>1, <1>2, <1>3, <1>4, <1>5 DEF Next

-----------------------------------------------------------------------------
(* Types. *)

\* A write that replaces one step of the plan.
LEMMA StepReplaced ==
    ASSUME NEW j, NEW k, JobOK(j), NEW s \in DOMAIN j.steps, NEW st, StepOK(st),
           k.steps = [j.steps EXCEPT ![s] = st], k.edges \subseteq j.edges, k.batches = j.batches,
           DOMAIN k = DOMAIN j, k.nextStepNum = j.nextStepNum, k.nextBatchNum = j.nextBatchNum,
           k.nextChildNum \in {j.nextChildNum, j.nextChildNum + 1}
    PROVE  JobOK(k)
PROOF
<1>1. /\ k.steps \in [DOMAIN k.steps -> StepType] /\ DOMAIN k.steps = DOMAIN j.steps
      BY DEF JobOK, StepOK
<1>2. \A x \in DOMAIN k.steps : k.steps[x] = IF x = s THEN st ELSE j.steps[x]
      BY DEF JobOK
<1>3. k.nextChildNum \in Nat \ {0} /\ k.edges \subseteq EdgeType
      BY DEF JobOK
<1>4. \A x \in DOMAIN k.steps : x \in Nat \ {0} /\ x < k.nextStepNum /\ StepOK(k.steps[x])
      BY <1>1, <1>2 DEF JobOK
<1> QED BY <1>1, <1>3, <1>4 DEF JobOK

LEMMA PlanStepType ==
    ASSUME NEW j, NEW k, JobOK(j), PlanStep(j, k)
    PROVE  JobOK(k)
PROOF
<1>0. /\ Child(j) \in Nat \ {0} /\ j.nextStepNum \in Nat \ {0}
      /\ \A s \in DOMAIN j.steps : j.steps[s] \in StepType
      BY DEF JobOK, StepOK, Child, None
<1>1. CASE \E kind \in Kinds : k = WithStep(j, kind)
      <2> PICK kind \in Kinds : k = WithStep(j, kind) BY <1>1
      <2>1. StepOK(NewStep(kind)) BY DEF StepOK, StepType, NewStep
      <2>2. \A s \in DOMAIN k.steps : s \in Nat \ {0} /\ s < k.nextStepNum /\ StepOK(k.steps[s])
            BY <2>1 DEF WithStep, Put, JobOK
      <2>3. /\ k.steps = Put(j.steps, j.nextStepNum, NewStep(kind)) /\ k.nextStepNum = j.nextStepNum + 1
            /\ DOMAIN k = DOMAIN j /\ k.edges = j.edges /\ k.batches = j.batches
            /\ k.nextBatchNum = j.nextBatchNum /\ k.nextChildNum = j.nextChildNum
            BY DEF WithStep, JobOK
      <2>4. k.steps \in [DOMAIN k.steps -> StepType]
            BY <2>1, <2>3 DEF Put, JobOK, StepOK
      <2> QED BY <2>2, <2>3, <2>4, <1>0 DEF JobOK
<1>2. CASE \E s \in DOMAIN j.steps : k = WithoutStep(j, s)
      BY <1>2 DEF WithoutStep, Drop, JobOK
<1>3. CASE \E s \in DOMAIN j.steps : j.steps[s].kind = "decision" /\ k = WithResult(j, s)
      <2> PICK s \in DOMAIN j.steps : j.steps[s].kind = "decision" /\ k = WithResult(j, s) BY <1>3
      <2>1. StepOK([j.steps[s] EXCEPT !.results = @ \union {Child(j)}])
            BY <1>0 DEF JobOK, StepOK, StepType, None
      <2>2. /\ k.steps = [j.steps EXCEPT ![s] = [j.steps[s] EXCEPT !.results = @ \union {Child(j)}]]
            /\ k.nextChildNum = j.nextChildNum + 1
            /\ DOMAIN k = DOMAIN j /\ k.edges = j.edges /\ k.batches = j.batches
            /\ k.nextBatchNum = j.nextBatchNum /\ k.nextStepNum = j.nextStepNum
            BY DEF WithResult, Counted, JobOK
      <2> QED BY <2>1, <2>2, StepReplaced
<1>4. CASE \E s \in DOMAIN j.steps : \E r \in j.steps[s].results : k = WithoutResult(j, s, r)
      <2> PICK s \in DOMAIN j.steps : \E r \in j.steps[s].results : k = WithoutResult(j, s, r) BY <1>4
      <2> PICK r \in j.steps[s].results : k = WithoutResult(j, s, r) OBVIOUS
      <2>1. StepOK([j.steps[s] EXCEPT !.results = @ \ {r}])
            BY <1>0 DEF JobOK, StepOK, StepType, None
      <2>2. /\ k.steps = [j.steps EXCEPT ![s] = [j.steps[s] EXCEPT !.results = @ \ {r}]]
            /\ k.nextChildNum = j.nextChildNum
            /\ DOMAIN k = DOMAIN j /\ k.edges \subseteq j.edges /\ k.batches = j.batches
            /\ k.nextBatchNum = j.nextBatchNum /\ k.nextStepNum = j.nextStepNum
            BY DEF WithoutResult, Counted, JobOK
      <2> QED BY <2>1, <2>2, StepReplaced
<1>5. CASE \E s \in DOMAIN j.steps : j.steps[s].kind = "step" /\ k = WithPlaceholder(j, s)
      <2> PICK s \in DOMAIN j.steps : j.steps[s].kind = "step" /\ k = WithPlaceholder(j, s) BY <1>5
      <2>1. StepOK([j.steps[s] EXCEPT !.placeholders = @ \union {Child(j)}])
            BY <1>0 DEF JobOK, StepOK, StepType, None
      <2>2. /\ k.steps = [j.steps EXCEPT ![s] = [j.steps[s] EXCEPT !.placeholders = @ \union {Child(j)}]]
            /\ k.nextChildNum = j.nextChildNum + 1
            /\ DOMAIN k = DOMAIN j /\ k.edges = j.edges /\ k.batches = j.batches
            /\ k.nextBatchNum = j.nextBatchNum /\ k.nextStepNum = j.nextStepNum
            BY DEF WithPlaceholder, Counted, JobOK
      <2> QED BY <2>1, <2>2, StepReplaced
<1>6. CASE \E s \in DOMAIN j.steps : \E p \in j.steps[s].placeholders : k = WithoutPlaceholder(j, s, p)
      <2> PICK s \in DOMAIN j.steps : \E p \in j.steps[s].placeholders : k = WithoutPlaceholder(j, s, p) BY <1>6
      <2> PICK p \in j.steps[s].placeholders : k = WithoutPlaceholder(j, s, p) OBVIOUS
      <2>1. StepOK([j.steps[s] EXCEPT !.placeholders = @ \ {p}])
            BY <1>0 DEF JobOK, StepOK, StepType, None
      <2>2. /\ k.steps = [j.steps EXCEPT ![s] = [j.steps[s] EXCEPT !.placeholders = @ \ {p}]]
            /\ k.nextChildNum = j.nextChildNum
            /\ DOMAIN k = DOMAIN j /\ k.edges = j.edges /\ k.batches = j.batches
            /\ k.nextBatchNum = j.nextBatchNum /\ k.nextStepNum = j.nextStepNum
            BY DEF WithoutPlaceholder, Counted, JobOK
      <2> QED BY <2>1, <2>2, StepReplaced
<1>7. CASE \E s \in DOMAIN j.steps : j.steps[s].kind = "step" /\ k = WithPlanDoc(j, s)
      <2> PICK s \in DOMAIN j.steps : j.steps[s].kind = "step" /\ k = WithPlanDoc(j, s) BY <1>7
      <2>1. StepOK([j.steps[s] EXCEPT !.planDocs = @ \union {Child(j)}])
            BY <1>0 DEF JobOK, StepOK, StepType, None
      <2>2. /\ k.steps = [j.steps EXCEPT ![s] = [j.steps[s] EXCEPT !.planDocs = @ \union {Child(j)}]]
            /\ k.nextChildNum = j.nextChildNum + 1
            /\ DOMAIN k = DOMAIN j /\ k.edges = j.edges /\ k.batches = j.batches
            /\ k.nextBatchNum = j.nextBatchNum /\ k.nextStepNum = j.nextStepNum
            BY DEF WithPlanDoc, Counted, JobOK
      <2> QED BY <2>1, <2>2, StepReplaced
<1>8. CASE \E s \in DOMAIN j.steps : \E d \in j.steps[s].planDocs : k = WithoutPlanDoc(j, s, d)
      <2> PICK s \in DOMAIN j.steps : \E d \in j.steps[s].planDocs : k = WithoutPlanDoc(j, s, d) BY <1>8
      <2> PICK d \in j.steps[s].planDocs : k = WithoutPlanDoc(j, s, d) OBVIOUS
      <2>1. StepOK([j.steps[s] EXCEPT !.planDocs = @ \ {d}])
            BY <1>0 DEF JobOK, StepOK, StepType, None
      <2>2. /\ k.steps = [j.steps EXCEPT ![s] = [j.steps[s] EXCEPT !.planDocs = @ \ {d}]]
            /\ k.nextChildNum = j.nextChildNum
            /\ DOMAIN k = DOMAIN j /\ k.edges = j.edges /\ k.batches = j.batches
            /\ k.nextBatchNum = j.nextBatchNum /\ k.nextStepNum = j.nextStepNum
            BY DEF WithoutPlanDoc, Counted, JobOK
      <2> QED BY <2>1, <2>2, StepReplaced
<1>9. CASE \E from, to \in DOMAIN j.steps :
              \E via \in j.steps[from].results \union {None} :
                  EdgeAllowed(j, from, via, to) /\ k = WithEdge(j, from, via, to)
      <2> PICK from \in DOMAIN j.steps, to \in DOMAIN j.steps :
              \E via \in j.steps[from].results \union {None} : k = WithEdge(j, from, via, to)
          BY <1>9
      <2> PICK via \in j.steps[from].results \union {None} : k = WithEdge(j, from, via, to) OBVIOUS
      <2>1. [id |-> Child(j), from |-> from, via |-> via, to |-> to] \in EdgeType
            BY <1>0 DEF EdgeType, JobOK, StepType, None
      <2>2. /\ k.edges = j.edges \union {[id |-> Child(j), from |-> from, via |-> via, to |-> to]}
            /\ DOMAIN k = DOMAIN j /\ k.steps = j.steps /\ k.batches = j.batches
            /\ k.nextBatchNum = j.nextBatchNum /\ k.nextStepNum = j.nextStepNum
            /\ k.nextChildNum = j.nextChildNum + 1
            BY DEF WithEdge, Counted, JobOK
      <2> QED BY <2>1, <2>2, <1>0 DEF JobOK, Child
<1>10. CASE \E e \in j.edges : k = WithoutEdge(j, e)
      BY <1>10 DEF WithoutEdge, JobOK
<1> QED BY <1>1, <1>2, <1>3, <1>4, <1>5, <1>6, <1>7, <1>8, <1>9, <1>10 DEF PlanStep

\* A write on a run leaves the plan and its counter of steps alone.
LEMMA BatchStepPlan ==
    ASSUME NEW j, NEW k, JobOK(j), BatchStep(j, k)
    PROVE  /\ k.steps = j.steps /\ k.edges = j.edges
           /\ k.nextChildNum \in {j.nextChildNum, j.nextChildNum + 1}
           /\ JobOK(k)
PROOF
<1>1. CASE k = WithBatch(j)
      BY <1>1 DEF WithBatch, NewBatch, Put, JobOK
<1>2. CASE \E b \in DOMAIN j.batches : k = WithoutBatch(j, b)
      BY <1>2 DEF WithoutBatch, Drop, JobOK
<1>3. CASE \E b \in DOMAIN j.batches : \E s \in DOMAIN j.batches[b].plan \union DOMAIN j.steps :
              \E p \in Slots(j, b, s) \union {None} :
                  FulfillmentFits(j, b, s, p) /\ k = WithFulfillment(j, b, s, p)
      <2> PICK b \in DOMAIN j.batches :
              \E s \in DOMAIN j.batches[b].plan \union DOMAIN j.steps :
                  \E p \in Slots(j, b, s) \union {None} :
                      FulfillmentFits(j, b, s, p) /\ k = WithFulfillment(j, b, s, p)
          BY <1>3
      <2> PICK s \in DOMAIN j.batches[b].plan \union DOMAIN j.steps :
              \E p \in Slots(j, b, s) \union {None} :
                  FulfillmentFits(j, b, s, p) /\ k = WithFulfillment(j, b, s, p)
          OBVIOUS
      <2> PICK p \in Slots(j, b, s) \union {None} : k = WithFulfillment(j, b, s, p)
          OBVIOUS
      <2> DEFINE f == [id |-> Child(j), step |-> s, placeholder |-> p]
      <2>1. /\ k.batches = [j.batches EXCEPT ![b] = [j.batches[b] EXCEPT !.given = @ \union {f}]]
            /\ DOMAIN k = DOMAIN j /\ k.steps = j.steps /\ k.edges = j.edges
            /\ k.nextBatchNum = j.nextBatchNum /\ k.nextStepNum = j.nextStepNum
            /\ k.nextChildNum = j.nextChildNum + 1
            BY DEF WithFulfillment, Counted, JobOK
      <2> QED BY <2>1 DEF JobOK
<1>4. CASE \E b \in DOMAIN j.batches : \E f \in j.batches[b].given : k = WithoutFulfillment(j, b, f)
      BY <1>4 DEF WithoutFulfillment, JobOK
<1>5. CASE \E b \in DOMAIN j.batches : \E s \in DOMAIN j.batches[b].plan :
              \/ k = Hidden(j, b, j.batches[b].hidden \union {s})
              \/ k = Hidden(j, b, j.batches[b].hidden \ {s})
      BY <1>5 DEF Hidden, JobOK
<1> QED BY <1>1, <1>2, <1>3, <1>4, <1>5 DEF BatchStep

LEMMA TypeStep == TypeOK /\ [Next]_vars => TypeOK'
PROOF
<1> SUFFICES ASSUME TypeOK, [Next]_vars PROVE TypeOK' OBVIOUS
<1>1. CASE UNCHANGED vars BY <1>1 DEF TypeOK, vars
<1>2. CASE Next
      <2>1. nextJobNum' \in Nat \ {0}
            <3>1. CASE CreateJob \/ \E src \in DOMAIN jobs : DuplicateJob(src) \/ DeleteJob(src)
                  BY <3>1 DEF CreateJob, DuplicateJob, DeleteJob, TypeOK
            <3>2. CASE \E id \in DOMAIN jobs : PlanWrites(id) \/ BatchWrites(id)
                  BY <3>2, PlanCases, BatchCases DEF Write, TypeOK
            <3> QED BY <1>2, <3>1, <3>2 DEF Next
      <2>2. JobOK(NewJob)
            BY DEF JobOK, NewJob
      <2>3. ASSUME NEW j, JobOK(j) PROVE JobOK(PlanCopy(j))
            BY <2>3 DEF JobOK, PlanCopy, NewJob
      <2>4. ASSUME NEW id \in DOMAIN jobs' PROVE JobOK(jobs'[id])
            BY <1>2, <2>2, <2>3, StepCases, PlanStepType, BatchStepPlan DEF TypeOK
      <2> QED BY <2>1, <2>4 DEF TypeOK
<1> QED BY <1>1, <1>2

\* Every record of the store has the shape the code gives it, and a decision
\* never carries documents, nor a plain step results.
THEOREM StoreTyped == Spec => []TypeOK
PROOF
<1>1. Init => TypeOK BY DEF Init, TypeOK
<1> QED BY <1>1, TypeStep, PTL DEF Spec

-----------------------------------------------------------------------------
(* Edges have their ends. *)

LEMMA PlanStepAnchored ==
    ASSUME NEW j, NEW k, JobOK(j), Anchored(j), PlanStep(j, k)
    PROVE  Anchored(k)
PROOF
<1>1. CASE \E kind \in Kinds : k = WithStep(j, kind)
      BY <1>1 DEF WithStep, Put, JobOK, Anchored
<1>2. CASE \E s \in DOMAIN j.steps : k = WithoutStep(j, s)
      BY <1>2 DEF WithoutStep, Drop, JobOK, Anchored
<1>3. CASE \E s \in DOMAIN j.steps : j.steps[s].kind = "decision" /\ k = WithResult(j, s)
      BY <1>3 DEF WithResult, Counted, JobOK, Anchored, StepType
<1>4. CASE \E s \in DOMAIN j.steps : \E r \in j.steps[s].results : k = WithoutResult(j, s, r)
      BY <1>4 DEF WithoutResult, JobOK, Anchored, StepType
<1>5. CASE \E s \in DOMAIN j.steps : j.steps[s].kind = "step" /\ k = WithPlaceholder(j, s)
      BY <1>5 DEF WithPlaceholder, Counted, JobOK, Anchored, StepType
<1>6. CASE \E s \in DOMAIN j.steps : \E p \in j.steps[s].placeholders : k = WithoutPlaceholder(j, s, p)
      BY <1>6 DEF WithoutPlaceholder, JobOK, Anchored, StepType
<1>7. CASE \E s \in DOMAIN j.steps : j.steps[s].kind = "step" /\ k = WithPlanDoc(j, s)
      BY <1>7 DEF WithPlanDoc, Counted, JobOK, Anchored, StepType
<1>8. CASE \E s \in DOMAIN j.steps : \E d \in j.steps[s].planDocs : k = WithoutPlanDoc(j, s, d)
      BY <1>8 DEF WithoutPlanDoc, JobOK, Anchored, StepType
<1>9. CASE \E from, to \in DOMAIN j.steps :
              \E via \in j.steps[from].results \union {None} :
                  EdgeAllowed(j, from, via, to) /\ k = WithEdge(j, from, via, to)
      BY <1>9 DEF WithEdge, Counted, EdgeAllowed, EdgeFits, JobOK, Anchored
<1>10. CASE \E e \in j.edges : k = WithoutEdge(j, e)
      BY <1>10 DEF WithoutEdge, JobOK, Anchored
<1> QED BY <1>1, <1>2, <1>3, <1>4, <1>5, <1>6, <1>7, <1>8, <1>9, <1>10 DEF PlanStep

\* Every edge of a plan can be drawn and deleted: its steps exist, and an edge
\* leaves a decision by a result that decision has.
THEOREM EdgesKeepTheirEnds == Spec => []EdgesAnchored
PROOF
<1>1. Init => EdgesAnchored BY DEF Init, EdgesAnchored
<1>2. TypeOK /\ EdgesAnchored /\ [Next]_vars => EdgesAnchored'
      <2> SUFFICES ASSUME TypeOK, EdgesAnchored, [Next]_vars PROVE EdgesAnchored' OBVIOUS
      <2>1. CASE UNCHANGED vars BY <2>1 DEF EdgesAnchored, vars
      <2>2. CASE Next
            <3>1. Anchored(NewJob) BY DEF Anchored, NewJob
            <3>2. ASSUME NEW j, JobOK(j), Anchored(j) PROVE Anchored(PlanCopy(j))
                  BY <3>2 DEF JobOK, Anchored, PlanCopy
            <3>3. ASSUME NEW j, NEW k, JobOK(j), Anchored(j), BatchStep(j, k) PROVE Anchored(k)
                  BY <3>3, BatchStepPlan DEF Anchored
            <3>4. ASSUME NEW id \in DOMAIN jobs' PROVE Anchored(jobs'[id])
                  BY <2>2, <3>1, <3>2, <3>3, StepCases, PlanStepAnchored DEF TypeOK, EdgesAnchored
            <3> QED BY <3>4 DEF EdgesAnchored
      <2> QED BY <2>1, <2>2
<1> QED BY <1>1, <1>2, StoreTyped, PTL DEF Spec

-----------------------------------------------------------------------------
(* The plan has no cycle. The witness that target is out of reach of start  *)
(* is a set of steps that holds start, follows the edges and leaves target  *)
(* out: the lemmas say what becomes of it.                                  *)

\* Fewer edges reach no further, on a larger or a smaller set of steps.
LEMMA FewerEdges ==
    ASSUME NEW j, NEW k, Anchored(j), Anchored(k), NoCycle(j), k.edges \subseteq j.edges
    PROVE  NoCycle(k)
PROOF
<1> SUFFICES ASSUME NEW e \in k.edges PROVE ~reaches(k, e.to, e.from)
    BY DEF NoCycle
<1>1. PICK S \in SUBSET DOMAIN j.steps : e.to \in S /\ Follows(j, S) /\ e.from \notin S
      BY DEF NoCycle, reaches
<1> DEFINE T == S \intersect DOMAIN k.steps
<1>2. e.to \in T /\ e.from \notin T
      BY <1>1 DEF Anchored
<1>3. Follows(k, T)
      BY <1>1 DEF Follows, Anchored
<1> QED BY <1>2, <1>3 DEF reaches

\* An edge from a step that its end cannot reach closes no cycle.
LEMMA NewEdge ==
    ASSUME NEW j, NEW k, NEW from, NEW to, NEW e, Anchored(j), NoCycle(j),
           e.from = from, e.to = to, from \in DOMAIN j.steps, to \in DOMAIN j.steps,
           ~reaches(j, to, from), k.steps = j.steps, k.edges = j.edges \union {e}
    PROVE  NoCycle(k)
PROOF
<1>1. PICK S0 \in SUBSET DOMAIN j.steps : to \in S0 /\ Follows(j, S0) /\ from \notin S0
      BY DEF reaches
<1>2. ~reaches(k, to, from)
      BY <1>1 DEF reaches, Follows
<1>3. ASSUME NEW f \in j.edges PROVE ~reaches(k, f.to, f.from)
      <2>1. PICK S1 \in SUBSET DOMAIN j.steps : f.to \in S1 /\ Follows(j, S1) /\ f.from \notin S1
            BY DEF NoCycle, reaches
      <2>2. CASE from \notin S1
            BY <2>1, <2>2 DEF reaches, Follows
      <2>3. CASE from \in S1 /\ f.from \notin S0
            <3> DEFINE S == S0 \union S1
            <3>1. Follows(k, S) /\ f.to \in S /\ f.from \notin S
                  BY <1>1, <2>1, <2>3 DEF Follows
            <3> QED BY <3>1 DEF reaches
      <2>4. CASE from \in S1 /\ f.from \in S0
            <3> DEFINE S == S0 \intersect S1
            <3>1. f.to \in S0
                  BY <1>1, <2>4 DEF Follows
            <3>2. Follows(k, S) /\ f.to \in S /\ f.from \notin S
                  BY <1>1, <2>1, <3>1 DEF Follows
            <3> QED BY <3>2 DEF reaches
      <2> QED BY <2>2, <2>3, <2>4
<1> QED BY <1>2, <1>3 DEF NoCycle

\* Writes other than a new edge leave no edge behind that was not there.
LEMMA OtherPlanSteps ==
    ASSUME NEW j, NEW k, JobOK(j), PlanStep(j, k)
    PROVE  \/ k.edges \subseteq j.edges
           \/ \E from, to \in DOMAIN j.steps : \E via \in j.steps[from].results \union {None} :
                 EdgeAllowed(j, from, via, to) /\ k = WithEdge(j, from, via, to)
PROOF
<1>1. CASE \E kind \in Kinds : k = WithStep(j, kind)
      BY <1>1 DEF WithStep, JobOK
<1>2. CASE \E s \in DOMAIN j.steps : k = WithoutStep(j, s)
      BY <1>2 DEF WithoutStep, JobOK
<1>3. CASE \E s \in DOMAIN j.steps : j.steps[s].kind = "decision" /\ k = WithResult(j, s)
      BY <1>3 DEF WithResult, Counted, JobOK
<1>4. CASE \E s \in DOMAIN j.steps : \E r \in j.steps[s].results : k = WithoutResult(j, s, r)
      BY <1>4 DEF WithoutResult, JobOK
<1>5. CASE \E s \in DOMAIN j.steps : j.steps[s].kind = "step" /\ k = WithPlaceholder(j, s)
      BY <1>5 DEF WithPlaceholder, Counted, JobOK
<1>6. CASE \E s \in DOMAIN j.steps : \E p \in j.steps[s].placeholders : k = WithoutPlaceholder(j, s, p)
      BY <1>6 DEF WithoutPlaceholder, JobOK
<1>7. CASE \E s \in DOMAIN j.steps : j.steps[s].kind = "step" /\ k = WithPlanDoc(j, s)
      BY <1>7 DEF WithPlanDoc, Counted, JobOK
<1>8. CASE \E s \in DOMAIN j.steps : \E d \in j.steps[s].planDocs : k = WithoutPlanDoc(j, s, d)
      BY <1>8 DEF WithoutPlanDoc, JobOK
<1>9. CASE \E e \in j.edges : k = WithoutEdge(j, e)
      BY <1>9 DEF WithoutEdge, JobOK
<1> QED BY <1>1, <1>2, <1>3, <1>4, <1>5, <1>6, <1>7, <1>8, <1>9 DEF PlanStep

LEMMA PlanStepAcyclic ==
    ASSUME NEW j, NEW k, JobOK(j), Anchored(j), NoCycle(j), PlanStep(j, k)
    PROVE  NoCycle(k)
PROOF
<1>1. Anchored(k) BY PlanStepAnchored
<1>2. CASE k.edges \subseteq j.edges
      BY <1>1, <1>2, FewerEdges
<1>3. CASE \E from, to \in DOMAIN j.steps : \E via \in j.steps[from].results \union {None} :
              EdgeAllowed(j, from, via, to) /\ k = WithEdge(j, from, via, to)
      <2> PICK from \in DOMAIN j.steps, to \in DOMAIN j.steps :
              \E via \in j.steps[from].results \union {None} :
                  EdgeAllowed(j, from, via, to) /\ k = WithEdge(j, from, via, to)
          BY <1>3
      <2> PICK via \in j.steps[from].results \union {None} :
              EdgeAllowed(j, from, via, to) /\ k = WithEdge(j, from, via, to)
          OBVIOUS
      <2> DEFINE e == [id |-> Child(j), from |-> from, via |-> via, to |-> to]
      <2>1. k.steps = j.steps /\ k.edges = j.edges \union {e}
            BY DEF WithEdge, Counted, JobOK
      <2>2. e.from = from /\ e.to = to /\ ~reaches(j, to, from)
            BY DEF EdgeAllowed
      <2> HIDE DEF e
      <2> QED BY <2>1, <2>2, NewEdge
<1> QED BY <1>2, <1>3, OtherPlanSteps

\* No sequence of writes closes a cycle in a plan.
THEOREM PlansStayAcyclic == Spec => []Acyclic
PROOF
<1>1. Init => Acyclic BY DEF Init, Acyclic
<1>2. TypeOK /\ EdgesAnchored /\ EdgesAnchored' /\ Acyclic /\ [Next]_vars => Acyclic'
      <2> SUFFICES ASSUME TypeOK, EdgesAnchored, EdgesAnchored', Acyclic, [Next]_vars PROVE Acyclic'
          OBVIOUS
      <2>1. CASE UNCHANGED vars BY <2>1 DEF Acyclic, vars
      <2>2. CASE Next
            <3>1. NoCycle(NewJob) BY DEF NoCycle, NewJob
            <3>2. ASSUME NEW j, JobOK(j), Anchored(j), NoCycle(j) PROVE NoCycle(PlanCopy(j))
                  <4>1. PlanCopy(j).edges = j.edges /\ PlanCopy(j).steps = j.steps
                        BY <3>2 DEF PlanCopy, JobOK
                  <4> QED BY <3>2, <4>1, FewerEdges DEF Anchored
            <3>3. ASSUME NEW j, NEW k, JobOK(j), Anchored(j), NoCycle(j), BatchStep(j, k)
                  PROVE  NoCycle(k)
                  <4>1. k.edges = j.edges /\ k.steps = j.steps BY <3>3, BatchStepPlan
                  <4> QED BY <3>3, <4>1, FewerEdges DEF Anchored
            <3>4. ASSUME NEW id \in DOMAIN jobs' PROVE NoCycle(jobs'[id])
                  BY <2>2, <3>1, <3>2, <3>3, StepCases, PlanStepAcyclic
                  DEF TypeOK, EdgesAnchored, Acyclic
            <3> QED BY <3>4 DEF Acyclic
      <2> QED BY <2>1, <2>2
<1> QED BY <1>1, <1>2, StoreTyped, EdgesKeepTheirEnds, PTL DEF Spec

-----------------------------------------------------------------------------
(* Ids and runs. *)

\* The child a step gets carries the id of the counter, which is above all others.
LEMMA ChildAdded ==
    ASSUME NEW j, NEW k, JobOK(j), Fresh(j), Distinct(j), NEW s \in DOMAIN j.steps, NEW st,
           k.steps = [j.steps EXCEPT ![s] = st], k.edges = j.edges,
           k.nextChildNum = j.nextChildNum + 1,
           st.results \subseteq j.steps[s].results \union {Child(j)},
           st.placeholders \subseteq j.steps[s].placeholders \union {Child(j)},
           st.planDocs \subseteq j.steps[s].planDocs \union {Child(j)}
    PROVE  Fresh(k) /\ Distinct(k)
PROOF
<1>1. /\ j.nextChildNum \in Nat /\ \A e \in j.edges : e.id \in Nat
      /\ \A x \in DOMAIN j.steps : /\ j.steps[x].results \subseteq Nat
                                   /\ j.steps[x].placeholders \subseteq Nat
                                   /\ j.steps[x].planDocs \subseteq Nat
      BY DEF JobOK, EdgeType, StepType
<1>2. \A x \in DOMAIN k.steps : x \in DOMAIN j.steps /\ k.steps[x] = IF x = s THEN st ELSE j.steps[x]
      BY DEF JobOK
<1>3. Fresh(k)
      <2>1. \A e \in k.edges : e.id < k.nextChildNum
            BY <1>1 DEF Fresh
      <2>2. ASSUME NEW x \in DOMAIN k.steps,
                   NEW c \in k.steps[x].results \union k.steps[x].placeholders \union k.steps[x].planDocs
            PROVE  c < k.nextChildNum
            <3>1. c \in j.steps[x].results \union j.steps[x].placeholders \union j.steps[x].planDocs
                        \union {Child(j)}
                  BY <1>2
            <3> QED BY <1>1, <1>2, <3>1 DEF Fresh, Child
      <2> QED BY <2>1, <2>2 DEF Fresh
<1>4. \A x \in DOMAIN j.steps : Child(j) \notin j.steps[x].results
      BY <1>1 DEF Fresh, Child
<1>5. \A e \in j.edges : e.id # Child(j)
      BY <1>1 DEF Fresh, Child
<1>6. \A x \in DOMAIN k.steps : k.steps[x].results \subseteq j.steps[x].results
                                    \union (IF x = s THEN {Child(j)} ELSE {})
      BY <1>2
<1>7. Distinct(k)
      BY <1>2, <1>4, <1>5, <1>6 DEF Distinct
<1> QED BY <1>3, <1>7

LEMMA PlanStepIds ==
    ASSUME NEW j, NEW k, JobOK(j), Fresh(j), Distinct(j), PlanStep(j, k)
    PROVE  Fresh(k) /\ Distinct(k)
PROOF
<1>1. CASE \E kind \in Kinds : k = WithStep(j, kind)
      BY <1>1 DEF WithStep, NewStep, Put, JobOK, Fresh, Distinct
<1>2. CASE \E s \in DOMAIN j.steps : k = WithoutStep(j, s)
      BY <1>2 DEF WithoutStep, Drop, JobOK, Fresh, Distinct
<1>3. CASE \E s \in DOMAIN j.steps : j.steps[s].kind = "decision" /\ k = WithResult(j, s)
      <2> PICK s \in DOMAIN j.steps : k = WithResult(j, s) BY <1>3
      <2> DEFINE st == [j.steps[s] EXCEPT !.results = @ \union {Child(j)}]
      <2>1. /\ k.steps = [j.steps EXCEPT ![s] = st] /\ k.edges = j.edges
            /\ k.nextChildNum = j.nextChildNum + 1
            BY DEF WithResult, Counted, JobOK
      <2>2. /\ st.results \subseteq j.steps[s].results \union {Child(j)}
            /\ st.placeholders \subseteq j.steps[s].placeholders \union {Child(j)}
            /\ st.planDocs \subseteq j.steps[s].planDocs \union {Child(j)}
            BY DEF JobOK, StepType
      <2> HIDE DEF st
      <2> QED BY <2>1, <2>2, ChildAdded
<1>4. CASE \E s \in DOMAIN j.steps : \E r \in j.steps[s].results : k = WithoutResult(j, s, r)
      BY <1>4 DEF WithoutResult, JobOK, Fresh, Distinct, StepType
<1>5. CASE \E s \in DOMAIN j.steps : j.steps[s].kind = "step" /\ k = WithPlaceholder(j, s)
      <2> PICK s \in DOMAIN j.steps : k = WithPlaceholder(j, s) BY <1>5
      <2> DEFINE st == [j.steps[s] EXCEPT !.placeholders = @ \union {Child(j)}]
      <2>1. /\ k.steps = [j.steps EXCEPT ![s] = st] /\ k.edges = j.edges
            /\ k.nextChildNum = j.nextChildNum + 1
            BY DEF WithPlaceholder, Counted, JobOK
      <2>2. /\ st.results \subseteq j.steps[s].results \union {Child(j)}
            /\ st.placeholders \subseteq j.steps[s].placeholders \union {Child(j)}
            /\ st.planDocs \subseteq j.steps[s].planDocs \union {Child(j)}
            BY DEF JobOK, StepType
      <2> HIDE DEF st
      <2> QED BY <2>1, <2>2, ChildAdded
<1>6. CASE \E s \in DOMAIN j.steps : \E p \in j.steps[s].placeholders : k = WithoutPlaceholder(j, s, p)
      BY <1>6 DEF WithoutPlaceholder, JobOK, Fresh, Distinct, StepType
<1>7. CASE \E s \in DOMAIN j.steps : j.steps[s].kind = "step" /\ k = WithPlanDoc(j, s)
      <2> PICK s \in DOMAIN j.steps : k = WithPlanDoc(j, s) BY <1>7
      <2> DEFINE st == [j.steps[s] EXCEPT !.planDocs = @ \union {Child(j)}]
      <2>1. /\ k.steps = [j.steps EXCEPT ![s] = st] /\ k.edges = j.edges
            /\ k.nextChildNum = j.nextChildNum + 1
            BY DEF WithPlanDoc, Counted, JobOK
      <2>2. /\ st.results \subseteq j.steps[s].results \union {Child(j)}
            /\ st.placeholders \subseteq j.steps[s].placeholders \union {Child(j)}
            /\ st.planDocs \subseteq j.steps[s].planDocs \union {Child(j)}
            BY DEF JobOK, StepType
      <2> HIDE DEF st
      <2> QED BY <2>1, <2>2, ChildAdded
<1>8. CASE \E s \in DOMAIN j.steps : \E d \in j.steps[s].planDocs : k = WithoutPlanDoc(j, s, d)
      BY <1>8 DEF WithoutPlanDoc, JobOK, Fresh, Distinct, StepType
<1>9. CASE \E from, to \in DOMAIN j.steps :
              \E via \in j.steps[from].results \union {None} :
                  EdgeAllowed(j, from, via, to) /\ k = WithEdge(j, from, via, to)
      BY <1>9 DEF WithEdge, Counted, Child, JobOK, Fresh, Distinct, EdgeType, StepType
<1>10. CASE \E e \in j.edges : k = WithoutEdge(j, e)
      BY <1>10 DEF WithoutEdge, JobOK, Fresh, Distinct
<1> QED BY <1>1, <1>2, <1>3, <1>4, <1>5, <1>6, <1>7, <1>8, <1>9, <1>10 DEF PlanStep

\* An id names one child of a job, in copies too, because a copy keeps counting
\* where its source stood.
THEOREM IdsNameOneChild == Spec => []ChildIdsUnique
PROOF
<1>1. Init => ChildIdsUnique BY DEF Init, ChildIdsUnique
<1>2. TypeOK /\ ChildIdsUnique /\ [Next]_vars => ChildIdsUnique'
      <2> SUFFICES ASSUME TypeOK, ChildIdsUnique, [Next]_vars PROVE ChildIdsUnique' OBVIOUS
      <2>1. CASE UNCHANGED vars BY <2>1 DEF ChildIdsUnique, vars
      <2>2. CASE Next
            <3>1. Fresh(NewJob) /\ Distinct(NewJob) BY DEF Fresh, Distinct, NewJob
            <3>2. ASSUME NEW j, JobOK(j), Fresh(j), Distinct(j)
                  PROVE  Fresh(PlanCopy(j)) /\ Distinct(PlanCopy(j))
                  BY <3>2 DEF JobOK, Fresh, Distinct, PlanCopy
            <3>3. ASSUME NEW j, NEW k, JobOK(j), Fresh(j), Distinct(j), BatchStep(j, k)
                  PROVE  Fresh(k) /\ Distinct(k)
                  <4>1. /\ k.edges = j.edges /\ k.steps = j.steps
                        /\ k.nextChildNum \in {j.nextChildNum, j.nextChildNum + 1}
                        BY <3>3, BatchStepPlan
                  <4>2. /\ \A e \in j.edges : e.id \in Nat
                        /\ \A s \in DOMAIN j.steps : j.steps[s] \in StepType
                        /\ j.nextChildNum \in Nat
                        BY <3>3 DEF JobOK, EdgeType
                  <4>3. Fresh(k) BY <3>3, <4>1, <4>2 DEF Fresh, StepType
                  <4>4. Distinct(k) BY <3>3, <4>1 DEF Distinct
                  <4> QED BY <4>3, <4>4
            <3>4. ASSUME NEW id \in DOMAIN jobs' PROVE Fresh(jobs'[id]) /\ Distinct(jobs'[id])
                  BY <2>2, <3>1, <3>2, <3>3, StepCases, PlanStepIds DEF TypeOK, ChildIdsUnique
            <3> QED BY <3>4 DEF ChildIdsUnique
      <2> QED BY <2>1, <2>2
<1> QED BY <1>1, <1>2, StoreTyped, PTL DEF Spec

RunsFit(j) == \A b \in DOMAIN j.batches : Recorded(j.batches[b])

\* A write on the plan leaves the runs alone.
LEMMA PlanStepRuns ==
    ASSUME NEW j, NEW k, JobOK(j), PlanStep(j, k)
    PROVE  k.batches = j.batches
PROOF
<1>1. CASE \E kind \in Kinds : k = WithStep(j, kind)
      BY <1>1 DEF WithStep, JobOK
<1>2. CASE \E s \in DOMAIN j.steps : k = WithoutStep(j, s)
      BY <1>2 DEF WithoutStep, JobOK
<1>3. CASE \E s \in DOMAIN j.steps : j.steps[s].kind = "decision" /\ k = WithResult(j, s)
      BY <1>3 DEF WithResult, Counted, JobOK
<1>4. CASE \E s \in DOMAIN j.steps : \E r \in j.steps[s].results : k = WithoutResult(j, s, r)
      BY <1>4 DEF WithoutResult, JobOK
<1>5. CASE \E s \in DOMAIN j.steps : j.steps[s].kind = "step" /\ k = WithPlaceholder(j, s)
      BY <1>5 DEF WithPlaceholder, Counted, JobOK
<1>6. CASE \E s \in DOMAIN j.steps : \E p \in j.steps[s].placeholders : k = WithoutPlaceholder(j, s, p)
      BY <1>6 DEF WithoutPlaceholder, JobOK
<1>7. CASE \E s \in DOMAIN j.steps : j.steps[s].kind = "step" /\ k = WithPlanDoc(j, s)
      BY <1>7 DEF WithPlanDoc, Counted, JobOK
<1>8. CASE \E s \in DOMAIN j.steps : \E d \in j.steps[s].planDocs : k = WithoutPlanDoc(j, s, d)
      BY <1>8 DEF WithoutPlanDoc, JobOK
<1>9. CASE \E from, to \in DOMAIN j.steps :
              \E via \in j.steps[from].results \union {None} :
                  EdgeAllowed(j, from, via, to) /\ k = WithEdge(j, from, via, to)
      BY <1>9 DEF WithEdge, Counted, JobOK
<1>10. CASE \E e \in j.edges : k = WithoutEdge(j, e)
      BY <1>10 DEF WithoutEdge, JobOK
<1> QED BY <1>1, <1>2, <1>3, <1>4, <1>5, <1>6, <1>7, <1>8, <1>9, <1>10 DEF PlanStep

LEMMA BatchStepRuns ==
    ASSUME NEW j, NEW k, JobOK(j), RunsFit(j), BatchStep(j, k)
    PROVE  RunsFit(k)
PROOF
<1>1. CASE k = WithBatch(j)
      BY <1>1 DEF WithBatch, NewBatch, Put, JobOK, RunsFit, Recorded
<1>2. CASE \E b \in DOMAIN j.batches : k = WithoutBatch(j, b)
      BY <1>2 DEF WithoutBatch, Drop, JobOK, RunsFit
<1>3. CASE \E b \in DOMAIN j.batches : \E s \in DOMAIN j.batches[b].plan \union DOMAIN j.steps :
              \E p \in Slots(j, b, s) \union {None} :
                  FulfillmentFits(j, b, s, p) /\ k = WithFulfillment(j, b, s, p)
      <2> PICK b \in DOMAIN j.batches :
              \E s \in DOMAIN j.batches[b].plan \union DOMAIN j.steps :
                  \E p \in Slots(j, b, s) \union {None} :
                      FulfillmentFits(j, b, s, p) /\ k = WithFulfillment(j, b, s, p)
          BY <1>3
      <2> PICK s \in DOMAIN j.batches[b].plan \union DOMAIN j.steps :
              \E p \in Slots(j, b, s) \union {None} :
                  FulfillmentFits(j, b, s, p) /\ k = WithFulfillment(j, b, s, p)
          OBVIOUS
      <2> PICK p \in Slots(j, b, s) \union {None} :
              FulfillmentFits(j, b, s, p) /\ k = WithFulfillment(j, b, s, p)
          OBVIOUS
      <2> DEFINE f == [id |-> Child(j), step |-> s, placeholder |-> p]
                 bt == [j.batches[b] EXCEPT !.given = @ \union {f}]
      <2>1. k.batches = [j.batches EXCEPT ![b] = bt]
            BY DEF WithFulfillment, Counted, JobOK
      <2>2. Recorded(bt)
            <3>1. /\ bt.given = j.batches[b].given \union {f} /\ bt.plan = j.batches[b].plan
                  /\ bt.hidden = j.batches[b].hidden
                  BY DEF JobOK
            <3>2. /\ f.step = s /\ f.placeholder = p /\ s \in DOMAIN bt.plan
                  /\ p # None => p \in bt.plan[s].placeholders
                                 /\ ~\E g \in j.batches[b].given : g.step = s /\ g.placeholder = p
                  BY <3>1 DEF FulfillmentFits
            <3>3. Recorded(j.batches[b]) BY DEF RunsFit
            <3> HIDE DEF f, bt
            <3> QED BY <3>1, <3>2, <3>3 DEF Recorded
      <2> HIDE DEF bt
      <2> QED BY <2>1, <2>2 DEF RunsFit
<1>4. CASE \E b \in DOMAIN j.batches : \E f \in j.batches[b].given : k = WithoutFulfillment(j, b, f)
      BY <1>4 DEF WithoutFulfillment, JobOK, RunsFit, Recorded
<1>5. CASE \E b \in DOMAIN j.batches : \E s \in DOMAIN j.batches[b].plan :
              \/ k = Hidden(j, b, j.batches[b].hidden \union {s})
              \/ k = Hidden(j, b, j.batches[b].hidden \ {s})
      BY <1>5 DEF Hidden, JobOK, RunsFit, Recorded
<1> QED BY <1>1, <1>2, <1>3, <1>4, <1>5 DEF BatchStep

\* A run's record stays about the plan it was started with, whatever becomes of
\* the live plan, and no placeholder of it holds two documents.
THEOREM RunsKeepTheirPlan == Spec => []RunsFitTheirPlan
PROOF
<1>1. Init => RunsFitTheirPlan BY DEF Init, RunsFitTheirPlan
<1>2. TypeOK /\ RunsFitTheirPlan /\ [Next]_vars => RunsFitTheirPlan'
      <2> SUFFICES ASSUME TypeOK, RunsFitTheirPlan, [Next]_vars PROVE RunsFitTheirPlan' OBVIOUS
      <2>1. CASE UNCHANGED vars BY <2>1 DEF RunsFitTheirPlan, vars
      <2>2. CASE Next
            <3>1. RunsFit(NewJob) BY DEF RunsFit, NewJob
            <3>2. ASSUME NEW j, JobOK(j) PROVE RunsFit(PlanCopy(j))
                  BY <3>2 DEF JobOK, RunsFit, PlanCopy, NewJob
            <3>3. ASSUME NEW id \in DOMAIN jobs' PROVE RunsFit(jobs'[id])
                  BY <2>2, <3>1, <3>2, StepCases, PlanStepRuns, BatchStepRuns
                  DEF TypeOK, RunsFitTheirPlan, RunsFit
            <3> QED BY <3>3 DEF RunsFitTheirPlan, RunsFit
      <2> QED BY <2>1, <2>2
<1> QED BY <1>1, <1>2, StoreTyped, PTL DEF Spec

-----------------------------------------------------------------------------
(* The editor of one job. What a gesture is waiting for is tied to the calls  *)
(* that are out: an override on the canvas to the call that will take it back *)
(* (Overtaken), the step to chain to the one its own call made (MadeLast).    *)
\* A job as the server writes it: every value in it comes from an edit.
Jobs == [name : Editor!Values, title : Editor!Values, pos : Editor!Values, steps : Seq(Nat),
         edges : SUBSET (Nat \X Nat)]
\* The bounds are numbers, and the mark for no data is no job.
EditorConfig == MaxEdits \in Nat /\ MaxCalls \in Nat /\ MaxFails \in Nat /\ NoData \notin Jobs

Entries == [data : Jobs \cup {NoData}, invalid : BOOLEAN, st : {"idle", "asked", "ready"},
            ans : Jobs \cup {NoData}]
Mutations == [id : Nat, hook : {"updateJob", "updateStep", "addStep", "removeStep", "addEdge"},
              kind : {"name", "title", "pos", "add", "edge", "remove"}, value : Nat, from : Nat,
              callback : BOOLEAN, st : {"asked", "served"}, ans : Jobs \cup {NoData}]

\* A call that writes a field writes a value; an answered one has the job; a
\* node's position is written by the step's hook.
Fits(c) ==
    /\ c \in Mutations
    /\ c.kind \in {"name", "title", "pos"} => c.value \in Editor!Values
    /\ c.st = "served" => c.ans \in Jobs
    /\ c.kind = "pos" => c.hook = "updateStep"

EntryTyped == entry \in Entries /\ (entry.st = "ready" => entry.ans \in Jobs)
ScreenTyped ==
    /\ server \in Jobs /\ EntryTyped
    /\ text \in [Editor!Fields -> Editor!Values \cup {Editor!None, Editor!Blank}]
    /\ typed \subseteq {f \in Editor!Fields : text[f] # Editor!None}
    /\ focus \in Editor!Fields \cup {Editor!Nowhere}
    /\ drag \in {"no", "pressed", "moved"} /\ dragPos \in Editor!Values \cup {Editor!None}
    /\ selected \in Nat /\ mine \subseteq Nat
    /\ used \in [edits : 0..MaxEdits, steps : Nat, calls : Nat, fails : Nat]

\* The fields that show: the drawer's with its step, the others with the caret.
FieldsOpen ==
    /\ \A f \in {"name", "node"} : text[f] # Editor!None <=> focus = f
    /\ text["drawer"] # Editor!None <=> Editor!SelectedStep = Editor!MainStep
    /\ focus # Editor!Nowhere => text[focus] # Editor!None

\* A call of the node's that will not call back was overtaken by another.
Overtaken == \A c \in calls : c.kind = "pos" /\ ~c.callback => lost
\* A step made for the tab is the last of the answer that made it.
MadeLast ==
    \A c \in calls : c.kind = "add" /\ c.st = "served" =>
        c.ans.steps # <<>> /\ c.ans.steps[Len(c.ans.steps)] \in mine

CallsInv == (\A c \in calls : Fits(c)) /\ Overtaken /\ MadeLast /\ Editor!ChainsOwnStep

EditorInv == ScreenTyped /\ FieldsOpen /\ CallsInv /\ Editor!OverrideReleased

\* What shows follows the job and the selection: the drawer takes or gives up its
\* text, and a text that is given up was given up whole.
LEMMA ShownStep ==
    ASSUME EditorConfig, ScreenTyped, FieldsOpen, NEW e \in Entries, NEW sel \in Nat,
           Editor!Shown(e, sel)
    PROVE  /\ text' \in [Editor!Fields -> Editor!Values \cup {Editor!None, Editor!Blank}]
           /\ typed' \subseteq {f \in Editor!Fields : text'[f] # Editor!None}
           /\ focus' \in Editor!Fields \cup {Editor!Nowhere}
           /\ FieldsOpen'
           /\ \A f \in typed : text'[f] # text[f] => text'[f] = Editor!None
<1> DEFINE shows == sel = Editor!MainStep /\ e.data # NoData /\ Editor!MainStep \in Editor!Steps(e.data)
<1> DEFINE drawer == IF shows THEN IF Editor!SelectedStep = Editor!MainStep THEN text["drawer"] ELSE e.data.title
                     ELSE Editor!None
<1> DEFINE node == IF e.data # NoData
      /\ Editor!MainStep \in Editor!Steps(e.data) THEN text["node"] ELSE Editor!None
<1> DEFINE s == [f \in Editor!Fields |-> CASE f = "name" -> text["name"] [] f = "drawer" -> drawer
                                           [] f = "node" -> node]
<1>0. /\ Editor!None \in Nat /\ Editor!None # Editor!MainStep
           /\ Editor!None \notin Editor!Values /\ Editor!Blank \in Nat /\ Editor!Blank # Editor!None
      /\ Editor!MainStep \in Nat /\ Editor!Nowhere \notin Editor!Fields
  BY DEF EditorConfig, Editor!None, Editor!Blank, Editor!MainStep, Editor!Values, Editor!Nowhere,
     Editor!Fields
<1>1. DOMAIN text = Editor!Fields /\ "drawer" \in Editor!Fields /\ "name" \in Editor!Fields
        /\ "node" \in Editor!Fields
  BY DEF ScreenTyped, Editor!Fields
<1>2. Editor!Seeded(Editor!SelectedStep, e, sel) = [text EXCEPT !["drawer"] = drawer]
  <2>1. text = [text EXCEPT !["drawer"] = text["drawer"]]
    BY <1>1 DEF ScreenTyped
  <2> QED BY <2>1 DEF Editor!Seeded
<1>3. text' = s
  <2> DEFINE loaded == e.data # NoData /\ Editor!MainStep \in Editor!Steps(e.data)
  <2> DEFINE t == [text EXCEPT !["drawer"] = drawer]
  <2>1. drawer # Editor!None => loaded
    OBVIOUS
  <2>2. text' = [f \in Editor!Fields |-> IF f # "name" /\ t[f] # Editor!None /\ ~loaded THEN Editor!None ELSE t[f]]
    BY <1>2 DEF Editor!Shown
  <2>3. t["name"] = text["name"] /\ t["node"] = text["node"] /\ t["drawer"] = drawer
    BY <1>1
  <2> HIDE DEF drawer, t
  <2>4. \A f \in Editor!Fields : text'[f] = s[f]
    BY <2>1, <2>2, <2>3 DEF Editor!Fields
  <2> QED BY <2>2, <2>4
<1>4. shows => e.data.title \in Editor!Values
  BY DEF Entries, Jobs
<1>5. drawer \in Editor!Values \cup {Editor!None, Editor!Blank} /\ (drawer # Editor!None <=> shows)
  <2>1. CASE shows /\ Editor!SelectedStep = Editor!MainStep
    BY <2>1, <1>1 DEF FieldsOpen, ScreenTyped
  <2>2. CASE shows /\ Editor!SelectedStep # Editor!MainStep
    BY <2>2, <1>4, <1>0
  <2>3. CASE ~shows
    BY <2>3
  <2> QED BY <2>1, <2>2, <2>3
<1>6. text' \in [Editor!Fields -> Editor!Values \cup {Editor!None, Editor!Blank}]
  <2> HIDE DEF drawer
  <2> QED BY <1>3, <1>5, <1>1 DEF ScreenTyped, Editor!Fields
<1>7. /\ typed' = {f \in typed : text'[f] # Editor!None /\ ~(f = "drawer" /\ text'[f] # text[f])}
      /\ focus' = IF focus # Editor!Nowhere /\ text'[focus] = Editor!None THEN Editor!Nowhere ELSE focus
  BY DEF Editor!Shown
<1>8. Editor!SelectedStep' = Editor!MainStep <=> shows
  BY <1>0 DEF Editor!Shown, Editor!SelectedStep, Editor!Loaded, Editor!Job, Editor!Steps
<1>9. /\ text'["name"] = text["name"] /\ text'["drawer"] = drawer
      /\ text'["node"] \in {text["node"], Editor!None}
  <2> HIDE DEF drawer
  <2> QED BY <1>3, <1>1 DEF Editor!Fields
<1>10. FieldsOpen'
  <2> HIDE DEF drawer, shows
  <2>1. \A f \in {"name", "node"} : text'[f] # Editor!None <=> focus' = f
    BY <1>7, <1>9, <1>0, <1>1 DEF FieldsOpen, Editor!Fields
  <2>2. text'["drawer"] # Editor!None <=> Editor!SelectedStep' = Editor!MainStep
    BY <1>5, <1>8, <1>9
  <2>3. focus' # Editor!Nowhere => text'[focus'] # Editor!None
    BY <1>7
  <2> QED BY <2>1, <2>2, <2>3 DEF FieldsOpen
<1>11. \A f \in typed : text'[f] # text[f] => text'[f] = Editor!None
  <2>1. \A f \in typed : f \in Editor!Fields /\ text[f] # Editor!None
    BY DEF ScreenTyped
  <2>2. "drawer" \in typed => Editor!SelectedStep = Editor!MainStep
    BY <2>1 DEF FieldsOpen
  <2> QED BY <2>1, <2>2, <1>9 DEF Editor!Fields
<1> QED BY <1>6, <1>7, <1>10, <1>11 DEF ScreenTyped

Carries(new, cs, hook, kind, value) ==
    /\ \A d \in new :
         /\ Fits(d)
         /\ \/ \E c \in cs : /\ d.kind = c.kind /\ d.value = c.value /\ d.st = c.st
                             /\ d.ans = c.ans /\ (d.callback => c.callback)
                             /\ (c.callback /\ ~d.callback => c.hook = hook)
            \/ d.kind = kind /\ d.value = value /\ d.callback /\ d.st = "asked"
    /\ \A c \in cs : \E d \in new : d.kind = c.kind /\ d.value = c.value
    /\ \E d \in new : d.kind = kind /\ d.value = value

\* mutate: the other calls stay what they are but for their callbacks, and the
\* new one is under way.
LEMMA CalledFits ==
    ASSUME EditorConfig, ScreenTyped, CallsInv, NEW cs \in SUBSET calls,
           NEW hook \in {"updateJob", "updateStep", "addStep", "removeStep", "addEdge"},
           NEW kind \in {"name", "title", "pos", "add", "edge", "remove"},
           NEW value \in Nat, NEW from \in Nat,
           kind \in {"name", "title", "pos"} => value \in Editor!Values,
           kind = "pos" => hook = "updateStep"
    PROVE  Carries(Editor!Called(cs, hook, Editor!Body(kind, value, from)), cs, hook, kind, value)
<1> DEFINE old(c) == [c EXCEPT !.callback = @ /\ c.hook # hook]
           fresh == [Editor!Body(kind, value, from) EXCEPT !.id = used.calls + 1, !.hook = hook]
           new == Editor!Called(cs, hook, Editor!Body(kind, value, from))
<1>1. new = {old(c) : c \in cs} \cup {fresh}
  BY Zenon DEF Editor!Called
<1>2. /\ fresh \in Mutations
      /\ fresh.kind = kind /\ fresh.value = value /\ fresh.hook = hook
      /\ fresh.callback /\ fresh.st = "asked"
  <2>1. used.calls + 1 \in Nat
    BY DEF ScreenTyped
  <2> QED BY <2>1 DEF Editor!Body, Mutations
<1>3. ASSUME NEW c \in cs
      PROVE  /\ Fits(old(c)) /\ old(c).kind = c.kind /\ old(c).value = c.value
             /\ old(c).st = c.st /\ old(c).ans = c.ans /\ (old(c).callback => c.callback)
             /\ (c.callback /\ ~old(c).callback => c.hook = hook)
  <2>1. Fits(c)
    BY <1>3 DEF CallsInv
  <2>2. c.callback \in BOOLEAN /\ (c.callback /\ c.hook # hook) \in BOOLEAN
    BY <2>1 DEF Fits, Mutations
  <2>3. /\ old(c).kind = c.kind /\ old(c).value = c.value
        /\ old(c).st = c.st /\ old(c).ans = c.ans /\ old(c).hook = c.hook
    BY <2>1 DEF Fits, Mutations
  <2>5. old(c) \in Mutations
    <3> DEFINE b == c.callback /\ c.hook # hook
    <3>1. b \in BOOLEAN
      OBVIOUS
    <3>2. old(c) = [c EXCEPT !.callback = b]
      OBVIOUS
    <3> HIDE DEF b, old
    <3> QED BY <2>1, <3>1, <3>2 DEF Fits, Mutations
  <2>4. old(c).callback = (c.callback /\ c.hook # hook)
    BY <2>1, <2>2 DEF Fits, Mutations
  <2> QED BY <2>1, <2>3, <2>4, <2>5 DEF Fits
<1> HIDE DEF old, fresh
<1>4. Fits(fresh)
  BY <1>2 DEF Fits
<1>5. ASSUME NEW d \in new
      PROVE  /\ Fits(d)
             /\ \/ \E c \in cs : /\ d.kind = c.kind /\ d.value = c.value /\ d.st = c.st
                                 /\ d.ans = c.ans /\ (d.callback => c.callback)
                                 /\ (c.callback /\ ~d.callback => c.hook = hook)
                \/ d.kind = kind /\ d.value = value /\ d.callback /\ d.st = "asked"
  <2>1. CASE d = fresh
    BY <2>1, <1>2, <1>4
  <2>2. ASSUME NEW c \in cs, d = old(c)
        PROVE  /\ Fits(d) /\ d.kind = c.kind /\ d.value = c.value /\ d.st = c.st
               /\ d.ans = c.ans /\ (d.callback => c.callback)
               /\ (c.callback /\ ~d.callback => c.hook = hook)
    BY <2>2, <1>3, Zenon
  <2> QED BY <1>1, <2>1, <2>2, Zenon
<1>6. \A c \in cs : \E d \in new : d.kind = c.kind /\ d.value = c.value
  BY <1>1, <1>3
<1>7. \E d \in new : d.kind = kind /\ d.value = value
  BY <1>1, <1>2
<1> QED BY <1>5, <1>6, <1>7, Zenon DEF Carries

\* A call of a hook: the position under way before it is overtaken, or not.
LEMMA CallStep ==
    ASSUME EditorConfig, ScreenTyped, CallsInv,
           NEW hook \in {"updateJob", "updateStep", "addStep", "removeStep", "addEdge"},
           NEW kind \in {"name", "title", "pos", "add", "edge", "remove"},
           NEW value \in Nat, NEW from \in Nat,
           kind \in {"name", "title", "pos"} => value \in Editor!Values,
           kind = "pos" => hook = "updateStep",
           kind # "edge",
           Editor!Call(hook, Editor!Body(kind, value, from)), mine' = mine
    PROVE  /\ CallsInv'
           /\ \A c \in calls : \E d \in calls' : d.kind = c.kind /\ d.value = c.value
           /\ \E d \in calls' : d.kind = kind /\ d.value = value
           /\ lost => lost'
           /\ used' \in [edits : 0..MaxEdits, steps : Nat, calls : Nat, fails : Nat]
           /\ used'.edits = used.edits
<1>1. calls' = Editor!Called(calls, hook, Editor!Body(kind, value, from))
  BY DEF Editor!Call
<1>2. Carries(calls', calls, hook, kind, value)
  <2>1. calls \in SUBSET calls
    OBVIOUS
  <2> QED BY <1>1, <2>1, CalledFits
<1>3. lost' = (lost \/ (hook = "updateStep" /\ \E d \in calls : d.kind = "pos" /\ d.callback))
  BY DEF Editor!Call
<1>4. lost => lost'
  BY <1>3, Zenon
<1>5. Overtaken'
  <2> SUFFICES ASSUME NEW d \in calls', d.kind = "pos", ~d.callback
               PROVE  lost'
    BY DEF Overtaken
  <2>1. PICK c \in calls : d.kind = c.kind /\ (c.callback /\ ~d.callback => c.hook = hook)
    BY <1>2 DEF Carries
  <2>2. CASE c.callback
    <3>1. hook = "updateStep"
      BY <2>1, <2>2 DEF CallsInv, Fits
    <3> QED BY <1>3, <2>1, <2>2, <3>1, Zenon
  <2>3. CASE ~c.callback
    BY <1>4, <2>1, <2>3, Zenon DEF CallsInv, Overtaken
  <2> QED BY <2>2, <2>3
<1>6. MadeLast'
  <2> SUFFICES ASSUME NEW d \in calls', d.kind = "add", d.st = "served"
               PROVE  d.ans.steps # <<>> /\ d.ans.steps[Len(d.ans.steps)] \in mine
    BY DEF MadeLast
  <2>1. PICK c \in calls : d.kind = c.kind /\ d.st = c.st /\ d.ans = c.ans
    BY <1>2 DEF Carries
  <2> QED BY <2>1 DEF MadeLast, CallsInv
<1>7. Editor!ChainsOwnStep'
  <2> SUFFICES ASSUME NEW d \in calls', d.kind = "edge"
               PROVE  d.value \in mine
    BY DEF Editor!ChainsOwnStep
  <2>1. PICK c \in calls : d.kind = c.kind /\ d.value = c.value
    BY <1>2 DEF Carries
  <2> QED BY <2>1 DEF Editor!ChainsOwnStep, CallsInv
<1>8. /\ used' \in [edits : 0..MaxEdits, steps : Nat, calls : Nat, fails : Nat]
      /\ used'.edits = used.edits
  BY DEF Editor!Call, ScreenTyped
<1> QED BY <1>2, <1>4, <1>5, <1>6, <1>7, <1>8 DEF CallsInv, Carries

\* The server's job stays a job, and an added step is its last.
LEMMA ServerStep ==
    ASSUME EditorConfig, ScreenTyped, NEW c, Fits(c), Editor!Accepts(c)
    PROVE  /\ Editor!Written(c) \in Jobs
           /\ c.kind = "add" => /\ Editor!Written(c).steps # <<>>
                                /\ Editor!Written(c).steps[Len(Editor!Written(c).steps)] = Editor!NewStepId
<1> USE DEF Jobs
<1>1. server \in Jobs /\ c.value \in Nat /\ c.from \in Nat /\ Editor!NewStepId \in Nat
  BY DEF ScreenTyped, Fits, Mutations, Editor!NewStepId
<1>2. CASE c.kind \in {"name", "title", "pos"}
  BY <1>1, <1>2 DEF Editor!Written, Fits
<1>3. CASE c.kind = "add"
  <2>1. Editor!Written(c) = [server EXCEPT !.steps = Append(@, Editor!NewStepId)]
    BY <1>3 DEF Editor!Written
  <2>2. /\ Append(server.steps, Editor!NewStepId) \in Seq(Nat)
        /\ Append(server.steps, Editor!NewStepId) # <<>>
        /\ Append(server.steps, Editor!NewStepId)[Len(Append(server.steps, Editor!NewStepId))] = Editor!NewStepId
    BY <1>1, AppendProperties
  <2> QED BY <1>1, <1>3, <2>1, <2>2
<1>4. CASE c.kind = "edge"
  BY <1>1, <1>4 DEF Editor!Written
<1>5. CASE c.kind = "remove"
  <2> DEFINE at == CHOOSE i \in 1..Len(server.steps) : server.steps[i] = c.from
  <2>1. at \in 1..Len(server.steps)
    BY <1>5 DEF Editor!Accepts, Editor!Steps
  <2> DEFINE steps == SubSeq(server.steps, 1, at - 1) \o SubSeq(server.steps, at + 1, Len(server.steps))
  <2>2. steps \in Seq(Nat)
    <3> HIDE DEF at
    <3>1. server.steps \in Seq(Nat) /\ Len(server.steps) \in Nat
          /\ \A i \in 1..Len(server.steps) : server.steps[i] \in Nat
      BY <1>1
    <3>2. SubSeq(server.steps, 1, at - 1) \in Seq(Nat)
      BY <2>1, <3>1, SubSeqProperties
    <3>3. SubSeq(server.steps, at + 1, Len(server.steps)) \in Seq(Nat)
      BY <2>1, <3>1, SubSeqProperties
    <3> QED BY <3>2, <3>3, ConcatProperties
  <2> DEFINE edges == {e \in server.edges : c.from \notin {e[1], e[2]}}
  <2>3. Editor!Written(c) = [server EXCEPT !.steps = steps, !.edges = edges]
    BY <1>5 DEF Editor!Written, Editor!WithoutStep
  <2>4. edges \in SUBSET (Nat \X Nat)
    BY <1>1
  <2> HIDE DEF steps, edges
  <2>5. Editor!Written(c) \in Jobs
    BY ONLY <1>1, <2>2, <2>3, <2>4 DEF Jobs
  <2> QED BY <1>5, <2>5
<1> QED BY <1>2, <1>3, <1>4, <1>5 DEF Fits, Mutations

\* Answers of the cache: what the entry holds stays a job or nothing.
LEMMA EntryStep ==
    ASSUME EditorConfig, ScreenTyped, NEW j \in Jobs
    PROVE  /\ Editor!SetData(entry, j) \in Entries
                /\ (Editor!SetData(entry, j).st = "ready" => Editor!SetData(entry, j).ans \in Jobs)
           /\ Editor!Answer(entry, j) \in Entries /\ Editor!Answer(entry, j).ans \in Jobs
           /\ Editor!Answer(entry, j).data = entry.data
           /\ Editor!Ask(entry) \in Entries
                /\ (Editor!Ask(entry).st = "ready" => Editor!Ask(entry).ans \in Jobs)
           /\ Editor!Ask(entry).data = entry.data
           /\ entry.st = "ready" => Editor!Apply(entry) \in Entries /\ Editor!Apply(entry).st = "idle"
  BY DEF ScreenTyped, EntryTyped, Entries, Editor!SetData, Editor!Answer, Editor!Ask,
     Editor!Apply, Editor!InFlight

\* The editor opens on a job yet to be read.
LEMMA EditorStart == ASSUME EditorConfig PROVE Editor!Init => EditorInv
<1> SUFFICES ASSUME Editor!Init
             PROVE  EditorInv
  OBVIOUS
<1>1. Editor!None \in Nat /\ Editor!None # Editor!MainStep /\ Editor!None \notin Editor!Values
        /\ Editor!Nowhere \notin Editor!Fields /\ 0 \in Editor!Values
  BY DEF EditorConfig, Editor!None, Editor!MainStep, Editor!Values, Editor!Nowhere, Editor!Fields
<1>2. server \in Jobs
  <2>1. <<Editor!MainStep>> \in Seq(Nat)
    BY DEF Editor!MainStep
  <2> QED BY <1>1, <2>1 DEF Editor!Init, Jobs
<1>3. EntryTyped /\ entry.data = NoData
  BY DEF Editor!Init, EntryTyped, Entries, Editor!Ask, Editor!Empty, Editor!InFlight
<1>4. ScreenTyped
  BY <1>1, <1>2, <1>3 DEF Editor!Init, ScreenTyped, EditorConfig, Editor!MainStep, Editor!Values
<1>5. FieldsOpen
  BY <1>1, <1>3 DEF Editor!Init, FieldsOpen, Editor!SelectedStep, Editor!Loaded, Editor!Fields
<1> QED BY <1>4, <1>5 DEF Editor!Init, EditorInv, CallsInv, Overtaken, MadeLast,
           Editor!ChainsOwnStep, Editor!OverrideReleased

\* What every action but those of the calls leaves alone.
LEMMA CallsKept ==
    ASSUME CallsInv, UNCHANGED <<calls, mine, lost>>
    PROVE  CallsInv'
  BY DEF CallsInv, Overtaken, MadeLast, Editor!ChainsOwnStep

\* A field entered, typed in, or left by Escape.
LEMMA TypingStep ==
    ASSUME EditorConfig, EditorInv,
           \/ \E f \in Editor!Fields : Editor!Focus(f)
           \/ \E v \in {Editor!Edited, Editor!Blank} : Editor!Type(v)
           \/ Editor!Cancel
    PROVE  EditorInv'
<1> USE DEF EditorInv, EditorConfig
<1>1. CallsInv' /\ Editor!OverrideReleased'
  BY CallsKept DEF Editor!Focus, Editor!Type, Editor!Cancel, Editor!OverrideReleased
<1>2. /\ Editor!None \in Nat /\ Editor!None # Editor!MainStep
           /\ Editor!None \notin Editor!Values /\ Editor!Nowhere \notin Editor!Fields
      /\ Editor!Blank \in Nat /\ Editor!Blank # Editor!None
  BY DEF Editor!None, Editor!Blank, Editor!MainStep, Editor!Values, Editor!Nowhere, Editor!Fields
<1>3. Editor!SelectedStep' = Editor!SelectedStep
  BY DEF Editor!Focus, Editor!Type, Editor!Cancel, Editor!SelectedStep, Editor!Loaded,
     Editor!Job, Editor!Steps
<1>4. ASSUME NEW f \in Editor!Fields, Editor!Focus(f)
      PROVE  ScreenTyped' /\ FieldsOpen'
  <2>1. Editor!Loaded => Editor!Job[Editor!Target(f)] \in Editor!Values
    BY DEF Editor!Loaded, Editor!Job, Editor!Target, ScreenTyped, EntryTyped, Entries, Jobs
  <2>2. CASE f = "drawer"
    <3>1. /\ focus = Editor!Nowhere /\ text' = text /\ focus' = "drawer" /\ typed' \subseteq typed
          /\ Editor!SelectedStep = Editor!MainStep
          /\ UNCHANGED <<server, entry, drag, dragPos, selected, mine, used>>
      BY <1>4, <2>2 DEF Editor!Focus, Editor!Editable
    <3>2. ScreenTyped'
      BY <3>1, <2>2 DEF ScreenTyped, EntryTyped
    <3>3. FieldsOpen'
      BY <1>2, <1>3, <3>1 DEF FieldsOpen, Editor!Fields
    <3> QED BY <3>2, <3>3
  <2>3. CASE f # "drawer"
    <3>1. /\ focus = Editor!Nowhere /\ text' = [text EXCEPT ![f] = Editor!Job[Editor!Target(f)]]
               /\ focus' = f
          /\ typed' = typed \ {f} /\ Editor!Job[Editor!Target(f)] \in Editor!Values
          /\ UNCHANGED <<server, entry, drag, dragPos, selected, mine, used>>
      BY <1>4, <2>1, <2>3 DEF Editor!Focus, Editor!Editable
    <3>2. ScreenTyped'
      BY <3>1 DEF ScreenTyped, EntryTyped
    <3>3. /\ text'[f] = Editor!Job[Editor!Target(f)] /\ \A g \in Editor!Fields : g # f
               => text'[g] = text[g]
      BY <3>1 DEF ScreenTyped
    <3>4. FieldsOpen'
      BY <1>2, <1>3, <2>3, <3>1, <3>3 DEF FieldsOpen, Editor!Fields
    <3> QED BY <3>2, <3>4
  <2> QED BY <2>2, <2>3
<1>5. ASSUME NEW v \in {Editor!Edited, Editor!Blank}, Editor!Type(v)
      PROVE  ScreenTyped' /\ FieldsOpen'
  <2>1. v \in Editor!Values \cup {Editor!Blank} /\ v # Editor!None /\ used.edits + 1 \in 0..MaxEdits
    BY <1>2, <1>5 DEF Editor!Type, Editor!Edited, Editor!Values, ScreenTyped
  <2>2. /\ focus \in Editor!Fields /\ text' = [text EXCEPT ![focus] = v]
        /\ typed' = typed \cup {focus} /\ used' = [used EXCEPT !.edits = @ + 1]
        /\ UNCHANGED <<server, entry, focus, drag, dragPos, selected, mine>>
    BY <1>5 DEF Editor!Type, Editor!CountEdit, ScreenTyped
  <2>3. ScreenTyped'
    BY <2>1, <2>2 DEF ScreenTyped, EntryTyped
  <2>4. FieldsOpen'
    <3>1. /\ text'[focus] = v /\ \A g \in Editor!Fields : g # focus => text'[g] = text[g]
      BY <2>2 DEF ScreenTyped
    <3>2. text[focus] # Editor!None /\ focus' = focus
      BY <1>2, <2>2 DEF FieldsOpen
    <3> QED BY <1>3, <2>1, <2>2, <3>1, <3>2 DEF FieldsOpen, Editor!Fields
  <2> QED BY <2>3, <2>4
<1>6. ASSUME Editor!Cancel
      PROVE  ScreenTyped' /\ FieldsOpen'
  BY <1>2, <1>3, <1>6 DEF Editor!Cancel, ScreenTyped, FieldsOpen, EntryTyped, Editor!Fields
<1> QED BY <1>1, <1>4, <1>5, <1>6

\* A field left: its text is sent, or taken back.
LEMMA BlurStep == ASSUME EditorConfig, EditorInv, Editor!Blur PROVE EditorInv'
<1> USE DEF EditorInv, EditorConfig
<1> DEFINE value == text[focus]
           saved == value # Editor!Blank /\ value # Editor!Job[Editor!Target(focus)]
<1>1. /\ Editor!None \in Nat /\ Editor!None # Editor!MainStep
           /\ Editor!None \notin Editor!Values /\ Editor!Nowhere \notin Editor!Fields
      /\ Editor!Blank \in Nat /\ Editor!Blank # Editor!None
  BY DEF Editor!None, Editor!Blank, Editor!MainStep, Editor!Values, Editor!Nowhere, Editor!Fields
<1>2. focus \in Editor!Fields /\ value # Editor!None /\ Editor!SelectedStep' = Editor!SelectedStep
  BY DEF Editor!Blur, ScreenTyped, FieldsOpen, Editor!SelectedStep, Editor!Loaded, Editor!Job,
     Editor!Steps
<1>3. /\ text' = Editor!Closed(focus, saved) /\ typed' = typed \ {focus} /\ focus' = Editor!Nowhere
      /\ IF saved THEN Editor!Call(Editor!Hook(focus), Editor!Body(Editor!Target(focus), value, Editor!None))
                  ELSE UNCHANGED <<calls, lost, used>>
      /\ UNCHANGED <<server, entry, drag, dragPos, selected, mine>>
  BY DEF Editor!Blur
<1>4. /\ CallsInv' /\ (lost => lost')
      /\ \A c \in calls : \E d \in calls' : d.kind = c.kind /\ d.value = c.value
      /\ used' \in [edits : 0..MaxEdits, steps : Nat, calls : Nat, fails : Nat]
  <2>1. CASE saved
    <3>1. value \in Editor!Values
      BY <1>2, <2>1 DEF ScreenTyped
    <3>2. /\ Editor!Hook(focus) \in {"updateJob", "updateStep", "addStep", "removeStep", "addEdge"}
          /\ Editor!Target(focus) \in {"name", "title"} /\ value \in Nat
      BY <3>1 DEF Editor!Hook, Editor!Target, Editor!Values
    <3> HIDE DEF value, saved
    <3> QED BY <1>1, <1>3, <2>1, <3>1, <3>2, CallStep
  <2>2. CASE ~saved
    BY <1>3, <2>2, CallsKept DEF ScreenTyped
  <2> QED BY <2>1, <2>2
<1>5. /\ text' \in [Editor!Fields -> Editor!Values \cup {Editor!None, Editor!Blank}]
      /\ \A f \in Editor!Fields : f # focus => text'[f] = text[f]
      /\ focus # "drawer" => text'[focus] = Editor!None
      /\ focus = "drawer" => text'[focus] # Editor!None
  <2> HIDE DEF saved
  <2>1. CASE focus # "drawer"
    BY <1>2, <1>3, <2>1 DEF Editor!Closed, ScreenTyped
  <2>2. CASE focus = "drawer"
    <3>1. Editor!SelectedStep = Editor!MainStep
      BY <1>2, <2>2 DEF FieldsOpen
    <3>2. Editor!Job.title \in Editor!Values
      BY <1>1, <3>1 DEF Editor!SelectedStep, Editor!Loaded, Editor!Job, ScreenTyped, EntryTyped,
         Entries, Jobs
    <3> QED BY <1>1, <1>2, <1>3, <2>2, <3>2 DEF Editor!Closed, ScreenTyped
  <2> QED BY <2>1, <2>2
<1>6. ScreenTyped'
  BY <1>3, <1>4, <1>5 DEF ScreenTyped, EntryTyped
<1>7. FieldsOpen'
  BY <1>1, <1>2, <1>3, <1>5 DEF FieldsOpen, Editor!Fields, ScreenTyped
<1>8. Editor!OverrideReleased'
  BY <1>3, <1>4 DEF Editor!OverrideReleased
<1> QED BY <1>4, <1>6, <1>7, <1>8

\* What shows, when neither the job nor the selection, the fields or the caret
\* change.
LEMMA FieldsKept ==
    ASSUME FieldsOpen, UNCHANGED <<text, focus, selected>>, entry'.data = entry.data
    PROVE  FieldsOpen'
  BY DEF FieldsOpen, Editor!SelectedStep, Editor!Loaded, Editor!Job, Editor!Steps

\* The mouse on the canvas: a node pressed, moved, let go; a click.
LEMMA MouseStep ==
    ASSUME EditorConfig, EditorInv,
      Editor!Press \/ Editor!Move \/ Editor!Release \/ Editor!PressCanvas \/ Editor!AddStep \/ Editor!RemoveStep
    PROVE  EditorInv'
<1> USE DEF EditorInv, EditorConfig
<1>1. Editor!None \in Nat /\ Editor!None \notin Editor!Values /\ Editor!MainStep \in Nat
        /\ Editor!MainStep # Editor!None
  BY DEF Editor!None, Editor!MainStep, Editor!Values
<1>2. CASE Editor!Press
  <2>1. CallsInv' /\ FieldsOpen'
    BY <1>2, CallsKept, FieldsKept DEF Editor!Press
  <2>2. ScreenTyped' /\ Editor!OverrideReleased'
    BY <1>2 DEF Editor!Press, ScreenTyped, EntryTyped, Editor!OverrideReleased
  <2> QED BY <2>1, <2>2
<1>3. CASE Editor!Move
  <2>1. CallsInv' /\ FieldsOpen'
    BY <1>3, CallsKept, FieldsKept DEF Editor!Move
  <2>2. Editor!Edited \in Editor!Values /\ used' = [used EXCEPT !.edits = @ + 1]
          /\ used.edits + 1 \in 0..MaxEdits
    BY <1>3 DEF Editor!Move, ScreenTyped, Editor!Edited, Editor!Values, Editor!CountEdit
  <2>3. ScreenTyped' /\ Editor!OverrideReleased'
    BY <1>3, <2>2 DEF Editor!Move, ScreenTyped, EntryTyped, Editor!OverrideReleased
  <2> QED BY <2>1, <2>3
<1>4. CASE Editor!Release
  <2>1. CASE drag = "moved" /\ dragPos # Editor!None
    <3>1. /\ Editor!Call("updateStep", Editor!Body("pos", dragPos, Editor!None)) /\ drag' = "no"
          /\ UNCHANGED <<server, entry, text, typed, focus, dragPos, selected, mine>>
      BY <1>4, <2>1 DEF Editor!Release
    <3>2. dragPos \in Editor!Values /\ dragPos \in Nat
      BY <2>1 DEF ScreenTyped, Editor!Values
    <3>3. /\ CallsInv' /\ (\E d \in calls' : d.kind = "pos" /\ d.value = dragPos)
          /\ used' \in [edits : 0..MaxEdits, steps : Nat, calls : Nat, fails : Nat]
      BY <1>1, <3>1, <3>2, CallStep
    <3>4. FieldsOpen'
      BY <3>1, FieldsKept
    <3>5. ScreenTyped' /\ Editor!OverrideReleased'
      BY <3>1, <3>3 DEF ScreenTyped, EntryTyped, Editor!OverrideReleased
    <3> QED BY <3>3, <3>4, <3>5
  <2>2. CASE ~ (drag = "moved" /\ dragPos # Editor!None)
    <3> DEFINE sel == IF drag = "moved" THEN selected ELSE Editor!MainStep
    <3>1. /\ Editor!Shown(entry, sel) /\ dragPos' = Editor!None /\ drag' = "no"
          /\ UNCHANGED <<calls, lost, used, server, mine>>
      BY <1>4, <2>2 DEF Editor!Release
    <3>2. sel \in Nat /\ entry \in Entries
      BY <1>1 DEF ScreenTyped, EntryTyped
    <3> HIDE DEF sel
    <3>3. /\ text' \in [Editor!Fields -> Editor!Values \cup {Editor!None, Editor!Blank}]
          /\ typed' \subseteq {f \in Editor!Fields : text'[f] # Editor!None}
          /\ focus' \in Editor!Fields \cup {Editor!Nowhere} /\ FieldsOpen'
      BY <3>1, <3>2, ShownStep
    <3>4. entry' = entry /\ selected' = sel
      BY <3>1 DEF Editor!Shown
    <3>5. ScreenTyped' /\ Editor!OverrideReleased'
      BY <3>1, <3>2, <3>3, <3>4 DEF ScreenTyped, EntryTyped, Editor!OverrideReleased
    <3>6. CallsInv'
      BY <3>1, CallsKept
    <3> QED BY <3>3, <3>5, <3>6
  <2> QED BY <2>1, <2>2
<1>5. CASE Editor!PressCanvas
  <2>1. /\ Editor!Shown(entry, Editor!None) /\ dragPos' = Editor!None
        /\ UNCHANGED <<server, drag, calls, mine, lost, used>>
    BY <1>5 DEF Editor!PressCanvas
  <2>2. entry \in Entries
    BY DEF ScreenTyped, EntryTyped
  <2>3. /\ text' \in [Editor!Fields -> Editor!Values \cup {Editor!None, Editor!Blank}]
        /\ typed' \subseteq {f \in Editor!Fields : text'[f] # Editor!None}
        /\ focus' \in Editor!Fields \cup {Editor!Nowhere} /\ FieldsOpen'
    BY <1>1, <2>1, <2>2, ShownStep
  <2>4. entry' = entry /\ selected' = Editor!None
    BY <2>1 DEF Editor!Shown
  <2>5. ScreenTyped' /\ Editor!OverrideReleased'
    BY <1>1, <2>1, <2>3, <2>4 DEF ScreenTyped, EntryTyped, Editor!OverrideReleased
  <2> QED BY <2>1, <2>3, <2>5, CallsKept
<1>6. CASE Editor!AddStep \/ Editor!RemoveStep
  <2>1. Editor!SelectedStep \in Nat
    BY <1>1 DEF Editor!SelectedStep, ScreenTyped
  <2>2. /\ CallsInv' /\ (lost => lost')
        /\ \A c \in calls : \E d \in calls' : d.kind = c.kind /\ d.value = c.value
        /\ used' \in [edits : 0..MaxEdits, steps : Nat, calls : Nat, fails : Nat]
    BY <1>1, <1>6, <2>1, CallStep DEF Editor!AddStep, Editor!RemoveStep
  <2>3. UNCHANGED <<server, entry, text, typed, focus, drag, dragPos, selected, mine>>
    BY <1>6 DEF Editor!AddStep, Editor!RemoveStep
  <2>4. ScreenTyped'
    BY <2>2, <2>3 DEF ScreenTyped, EntryTyped
  <2>5. Editor!OverrideReleased'
    BY <2>2, <2>3 DEF Editor!OverrideReleased
  <2> QED BY <2>2, <2>3, <2>4, <2>5, FieldsKept
<1> QED BY <1>2, <1>3, <1>4, <1>5, <1>6

\* A call answered by the server, and what others change there.
LEMMA ServerSide ==
    ASSUME EditorConfig, EditorInv, (\E c \in calls : Editor!Serve(c)) \/ Editor!OthersEdit
    PROVE  EditorInv'
<1> USE DEF EditorInv, EditorConfig
<1>1. ASSUME NEW c \in calls, Editor!Serve(c)
      PROVE  EditorInv'
  <2> DEFINE answered == [c EXCEPT !.st = "served", !.ans = Editor!Written(c)]
  <2>1. /\ calls' = (calls \ {c}) \cup {answered}
        /\ server' = Editor!Written(c)
        /\ mine' = IF c.kind = "add" THEN mine \cup {Editor!NewStepId} ELSE mine
        /\ used' = IF c.kind = "add" THEN [used EXCEPT !.steps = @ + 1] ELSE used
        /\ UNCHANGED <<entry, text, typed, focus, drag, dragPos, selected, lost>>
    BY <1>1 DEF Editor!Serve
  <2>2. /\ Fits(c) /\ Editor!Written(c) \in Jobs
        /\ c.kind = "add" => /\ Editor!Written(c).steps # <<>>
                             /\ Editor!Written(c).steps[Len(Editor!Written(c).steps)] = Editor!NewStepId
    BY <1>1, ServerStep DEF Editor!Serve, CallsInv
  <2>3. /\ Fits(answered) /\ answered.kind = c.kind /\ answered.value = c.value
        /\ answered.callback = c.callback /\ answered.ans = Editor!Written(c)
    BY <2>2 DEF Fits, Mutations
  <2> HIDE DEF answered
  <2>4. Editor!NewStepId \in Nat /\ mine \subseteq mine'
    BY <2>1 DEF Editor!NewStepId, ScreenTyped
  <2>5. \A d \in calls' : Fits(d)
    BY <2>1, <2>3 DEF CallsInv
  <2>6. Overtaken'
    BY <2>1, <2>3 DEF CallsInv, Overtaken
  <2>7. MadeLast'
    <3>1. c.kind = "add" => Editor!NewStepId \in mine'
      BY <2>1
    <3> QED BY <2>1, <2>2, <2>3, <2>4, <3>1 DEF CallsInv, MadeLast
  <2>8. Editor!ChainsOwnStep'
    BY <2>1, <2>3, <2>4 DEF CallsInv, Editor!ChainsOwnStep
  <2>9. Editor!OverrideReleased'
    BY <2>1, <2>3 DEF Editor!OverrideReleased
  <2>10. ScreenTyped'
    BY <2>1, <2>2, <2>4 DEF ScreenTyped, EntryTyped
  <2>11. FieldsOpen'
    BY <2>1, FieldsKept
  <2> QED BY <2>5, <2>6, <2>7, <2>8, <2>9, <2>10, <2>11 DEF CallsInv
<1>2. ASSUME Editor!OthersEdit
      PROVE  EditorInv'
  <2>1. /\ used.edits < MaxEdits
        /\ UNCHANGED <<entry, text, typed, focus, drag, dragPos, selected, calls, mine, lost>>
    BY <1>2 DEF Editor!OthersEdit
  <2>2. /\ Editor!Edited \in Editor!Values /\ used.edits + 1 \in 0..MaxEdits /\ Editor!NewStepId \in Nat
        /\ Editor!MainStep \in Nat
    BY <2>1 DEF ScreenTyped, Editor!Edited, Editor!Values, Editor!NewStepId, Editor!MainStep
  <2>3. server' \in Jobs /\ used' \in [edits : 0..MaxEdits, steps : Nat, calls : Nat, fails : Nat]
    <3>1. CASE /\ \E f \in {"name", "title"} : server' = [server EXCEPT ![f] = Editor!Edited]
               /\ Editor!CountEdit
      BY <2>2, <3>1 DEF ScreenTyped, Jobs, Editor!CountEdit
    <3>2. CASE /\ server' = [server EXCEPT !.steps = Append(@, Editor!NewStepId)]
               /\ used' = [used EXCEPT !.edits = @ + 1, !.steps = @ + 1]
      <4>1. Append(server.steps, Editor!NewStepId) \in Seq(Nat)
        BY <2>2, AppendProperties DEF ScreenTyped, Jobs
      <4>2. server' \in Jobs
        BY <3>2, <4>1 DEF ScreenTyped, Jobs
      <4>3. used' \in [edits : 0..MaxEdits, steps : Nat, calls : Nat, fails : Nat]
        <5>1. used.steps + 1 \in Nat /\ used.steps \in Nat
          BY DEF ScreenTyped
        <5> QED BY <2>2, <3>2, <5>1 DEF ScreenTyped
      <4> QED BY <4>2, <4>3
    <3>3. CASE /\ Editor!MainStep \in Editor!Steps(server)
               /\ server' = Editor!WithoutStep(server, Editor!MainStep)
               /\ Editor!CountEdit
      <4> DEFINE c == [id |-> 0, hook |-> "removeStep", kind |-> "remove", value |-> 0, from |-> Editor!MainStep,
                       callback |-> TRUE, st |-> "asked", ans |-> NoData]
      <4>1. Fits(c)
        BY <2>2 DEF Fits, Mutations
      <4>2. Editor!Accepts(c) /\ Editor!Written(c) = Editor!WithoutStep(server, Editor!MainStep)
        BY <3>3 DEF Editor!Accepts, Editor!Written
      <4> HIDE DEF c
      <4>3. server' \in Jobs
        BY <3>3, <4>1, <4>2, ServerStep
      <4> QED BY <2>2, <3>3, <4>3 DEF ScreenTyped, Editor!CountEdit
    <3> QED BY <1>2, <3>1, <3>2, <3>3 DEF Editor!OthersEdit
  <2>4. ScreenTyped' /\ Editor!OverrideReleased'
    BY <2>1, <2>3 DEF ScreenTyped, EntryTyped, Editor!OverrideReleased
  <2> QED BY <2>1, <2>4, FieldsKept, CallsKept
<1> QED BY <1>1, <1>2

\* The answer to a call, and its callback.
LEMMA SettleStep ==
    ASSUME EditorConfig, EditorInv, NEW c \in calls, Editor!Settle(c)
    PROVE  EditorInv'
<1> USE DEF EditorInv, EditorConfig
<1> DEFINE sel == IF c.kind = "add" /\ c.callback THEN Editor!Created(c)
                  ELSE IF c.kind = "remove" /\ c.callback THEN Editor!None ELSE selected
           e == Editor!SetData(entry, c.ans)
           chains == c.kind = "add" /\ c.callback /\ c.from # Editor!None
           others == calls \ {c}
<1>1. /\ c.st = "served" /\ Editor!Shown(e, sel) /\ dragPos' = Editor!Unpinned(c, TRUE)
      /\ IF chains
         THEN /\ calls' = Editor!Called(others, "addEdge", Editor!Body("edge", Editor!Created(c), c.from))
              /\ used' = [used EXCEPT !.calls = @ + 1]
         ELSE calls' = others /\ UNCHANGED used
      /\ UNCHANGED <<server, drag, mine, lost>>
  BY DEF Editor!Settle
<1>2. Fits(c) /\ c.ans \in Jobs /\ c.from \in Nat /\ Editor!None \in Nat /\ others \in SUBSET calls
  BY <1>1 DEF CallsInv, Fits, Mutations, Editor!None
<1>3. c.kind = "add" => Editor!Created(c) \in mine /\ Editor!Created(c) \in Nat
  BY <1>1, <1>2 DEF CallsInv, MadeLast, Editor!Created, ScreenTyped
<1>4. sel \in Nat
  BY <1>2, <1>3 DEF ScreenTyped
<1>5. e \in Entries /\ (e.st = "ready" => e.ans \in Jobs)
  BY <1>2, EntryStep
<1> HIDE DEF e, sel
<1>6. /\ text' \in [Editor!Fields -> Editor!Values \cup {Editor!None, Editor!Blank}]
      /\ typed' \subseteq {f \in Editor!Fields : text'[f] # Editor!None}
      /\ focus' \in Editor!Fields \cup {Editor!Nowhere} /\ FieldsOpen'
  BY <1>1, <1>4, <1>5, ShownStep
<1>7. entry' = e /\ selected' = sel
  BY <1>1 DEF Editor!Shown
<1>8. dragPos' \in Editor!Values \cup {Editor!None}
  BY <1>1 DEF Editor!Unpinned, ScreenTyped
<1>9. used' \in [edits : 0..MaxEdits, steps : Nat, calls : Nat, fails : Nat]
  BY <1>1 DEF ScreenTyped
<1>10. ScreenTyped'
  BY <1>1, <1>4, <1>5, <1>6, <1>7, <1>8, <1>9 DEF ScreenTyped, EntryTyped
<1>11. /\ CallsInv'
       /\ \A d \in others : \E n \in calls' : n.kind = d.kind /\ n.value = d.value
  <2>1. CASE ~chains
    BY <1>1, <2>1 DEF CallsInv, Overtaken, MadeLast, Editor!ChainsOwnStep
  <2>2. CASE chains
    <3> DEFINE value == Editor!Created(c)
    <3>1. value \in Nat /\ value \in mine
      BY <1>3, <2>2
    <3> HIDE DEF value
    <3>2. Carries(calls', others, "addEdge", "edge", value)
      <4>1. calls' = Editor!Called(others, "addEdge", Editor!Body("edge", value, c.from))
        BY <1>1, <2>2 DEF value
      <4>2. Carries(Editor!Called(others, "addEdge", Editor!Body("edge", value, c.from)), others, "addEdge", "edge", value)
        <5> HIDE DEF others
        <5> QED BY <1>2, <3>1, CalledFits
      <4> QED BY <4>1, <4>2
    <3>3. Overtaken'
      <4> SUFFICES ASSUME NEW d \in calls', d.kind = "pos", ~d.callback
                   PROVE  lost
        BY <1>1 DEF Overtaken
      <4>1. PICK b \in others : d.kind = b.kind /\ (b.callback /\ ~d.callback => b.hook = "addEdge")
        BY <3>2 DEF Carries
      <4>2. ~b.callback
        BY <4>1 DEF CallsInv, Fits
      <4> QED BY <4>1, <4>2, Zenon DEF CallsInv, Overtaken
    <3>4. MadeLast'
      <4> SUFFICES ASSUME NEW d \in calls', d.kind = "add", d.st = "served"
                   PROVE  d.ans.steps # <<>> /\ d.ans.steps[Len(d.ans.steps)] \in mine
        BY <1>1 DEF MadeLast
      <4>1. PICK b \in others : d.kind = b.kind /\ d.st = b.st /\ d.ans = b.ans
        BY <3>2 DEF Carries
      <4> QED BY <4>1 DEF MadeLast, CallsInv
    <3>5. Editor!ChainsOwnStep'
      <4> SUFFICES ASSUME NEW d \in calls', d.kind = "edge"
                   PROVE  d.value \in mine
        BY <1>1 DEF Editor!ChainsOwnStep
      <4>1. d.value = value \/ \E b \in others : d.kind = b.kind /\ d.value = b.value
        BY <3>2 DEF Carries
      <4> QED BY <3>1, <4>1 DEF Editor!ChainsOwnStep, CallsInv
    <3>6. /\ \A d \in calls' : Fits(d)
          /\ \A d \in others : \E n \in calls' : n.kind = d.kind /\ n.value = d.value
      BY <3>2 DEF Carries
    <3> QED BY <3>3, <3>4, <3>5, <3>6 DEF CallsInv
  <2> QED BY <2>1, <2>2
<1>12. Editor!OverrideReleased'
  <2> SUFFICES ASSUME dragPos' # Editor!None, ~lost, drag # "moved"
               PROVE  \E n \in calls' : n.kind = "pos" /\ n.value = dragPos'
    BY <1>1 DEF Editor!OverrideReleased
  <2>1. dragPos' = dragPos /\ ~(c.kind = "pos" /\ c.callback)
    BY <1>1 DEF Editor!Unpinned
  <2>2. PICK d \in calls : d.kind = "pos" /\ d.value = dragPos
    BY <2>1 DEF Editor!OverrideReleased
  <2>3. d \in others
    BY <2>1, <2>2 DEF CallsInv, Overtaken
  <2> QED BY <1>11, <2>1, <2>2, <2>3
<1> QED BY <1>6, <1>10, <1>11, <1>12

\* A call that fails, and its callback.
LEMMA FailsStep ==
    ASSUME EditorConfig, EditorInv, NEW c \in calls, Editor!Fails(c)
    PROVE  EditorInv'
<1> USE DEF EditorInv, EditorConfig
<1>1. /\ calls' = calls \ {c} /\ dragPos' = Editor!Unpinned(c, FALSE)
      /\ used' = IF used.fails < MaxFails THEN [used EXCEPT !.fails = @ + 1] ELSE used
      /\ UNCHANGED <<server, entry, text, typed, focus, drag, selected, mine, lost>>
  BY DEF Editor!Fails
<1>2. CallsInv'
  BY <1>1 DEF CallsInv, Overtaken, MadeLast, Editor!ChainsOwnStep
<1>3. ScreenTyped'
  BY <1>1 DEF ScreenTyped, EntryTyped, Editor!Unpinned
<1>4. Editor!OverrideReleased'
  <2> SUFFICES ASSUME dragPos' # Editor!None, ~lost, drag # "moved"
               PROVE  \E n \in calls' : n.kind = "pos" /\ n.value = dragPos'
    BY <1>1 DEF Editor!OverrideReleased
  <2>1. dragPos' = dragPos /\ ~(c.kind = "pos" /\ c.callback)
    BY <1>1 DEF Editor!Unpinned
  <2>2. PICK d \in calls : d.kind = "pos" /\ d.value = dragPos
    BY <2>1 DEF Editor!OverrideReleased
  <2>3. d # c
    BY <2>1, <2>2 DEF CallsInv, Overtaken
  <2> QED BY <1>1, <2>1, <2>2, <2>3
<1> QED BY <1>1, <1>2, <1>3, <1>4, FieldsKept

\* The poll of the job.
LEMMA PollStep ==
    ASSUME EditorConfig, EditorInv, Editor!Poll \/ Editor!ServePoll \/ Editor!ApplyPoll
    PROVE  EditorInv'
<1> USE DEF EditorInv, EditorConfig
<1>1. CASE Editor!Poll
  <2>1. /\ entry' = Editor!Ask(entry)
        /\ UNCHANGED <<server, text, typed, focus, drag, dragPos, selected, calls, mine, lost, used>>
    BY <1>1 DEF Editor!Poll
  <2>2. server \in Jobs
    BY DEF ScreenTyped
  <2>3. EntryTyped' /\ entry'.data = entry.data
    BY <2>1, <2>2, EntryStep DEF EntryTyped
  <2>4. ScreenTyped' /\ Editor!OverrideReleased'
    BY <2>1, <2>3 DEF ScreenTyped, Editor!OverrideReleased
  <2> QED BY <2>1, <2>3, <2>4, FieldsKept, CallsKept
<1>2. CASE Editor!ServePoll
  <2>1. /\ entry' = Editor!Answer(entry, server)
        /\ UNCHANGED <<server, text, typed, focus, drag, dragPos, selected, calls, mine, lost, used>>
    BY <1>2 DEF Editor!ServePoll
  <2>2. server \in Jobs
    BY DEF ScreenTyped
  <2>3. EntryTyped' /\ entry'.data = entry.data
    BY <2>1, <2>2, EntryStep DEF EntryTyped
  <2>4. ScreenTyped' /\ Editor!OverrideReleased'
    BY <2>1, <2>3 DEF ScreenTyped, Editor!OverrideReleased
  <2> QED BY <2>1, <2>3, <2>4, FieldsKept, CallsKept
<1>3. CASE Editor!ApplyPoll
  <2> DEFINE e == Editor!Apply(entry)
  <2>1. /\ entry.st = "ready" /\ Editor!Shown(e, selected)
        /\ UNCHANGED <<server, drag, dragPos, calls, mine, lost, used>>
    BY <1>3 DEF Editor!ApplyPoll
  <2>2. server \in Jobs /\ selected \in Nat
    BY DEF ScreenTyped
  <2>3. e \in Entries /\ e.st = "idle"
    BY <2>1, <2>2, EntryStep
  <2> HIDE DEF e
  <2>4. /\ text' \in [Editor!Fields -> Editor!Values \cup {Editor!None, Editor!Blank}]
        /\ typed' \subseteq {f \in Editor!Fields : text'[f] # Editor!None}
        /\ focus' \in Editor!Fields \cup {Editor!Nowhere} /\ FieldsOpen'
    BY <2>1, <2>2, <2>3, ShownStep
  <2>5. entry' = e /\ selected' = selected
    BY <2>1 DEF Editor!Shown
  <2>6. ScreenTyped' /\ Editor!OverrideReleased'
    BY <2>1, <2>3, <2>4, <2>5 DEF ScreenTyped, EntryTyped, Editor!OverrideReleased
  <2> QED BY <2>1, <2>4, <2>6, CallsKept
<1> QED BY <1>1, <1>2, <1>3

\* Every step keeps the invariant.
LEMMA EditorNext == ASSUME EditorConfig, EditorInv, [Editor!Next]_(Editor!vars) PROVE EditorInv'
<1>1. CASE UNCHANGED Editor!vars
  BY <1>1 DEF Editor!vars, EditorInv, ScreenTyped, EntryTyped, FieldsOpen, Editor!SelectedStep,
     Editor!Loaded, Editor!Job, Editor!Steps,
              CallsInv, Overtaken, MadeLast, Editor!ChainsOwnStep, Editor!OverrideReleased
<1> QED BY <1>1, TypingStep, BlurStep, MouseStep, ServerSide, SettleStep, FailsStep,
           PollStep DEF Editor!Next

\* A node shown away from its place has a drag on it or the call that will let it
\* go, unless another call has taken that callback; an edge chained from a gesture
\* on the canvas ends in a step the tab itself has added: however the answers, the
\* polls, the failures and other people's edits interleave.
THEOREM EditorGesturesLand == ASSUME EditorConfig PROVE Editor!Spec => []GesturesLand
<1>1. Editor!Init => EditorInv
  BY EditorStart
<1>2. EditorInv /\ [Editor!Next]_(Editor!vars) => EditorInv'
  BY EditorNext
<1>3. EditorInv => GesturesLand
  BY DEF EditorInv, CallsInv, GesturesLand, Editor!GesturesLand
<1> QED BY <1>1, <1>2, <1>3, PTL DEF Editor!Spec

\* No answer and no poll replaces what is being typed.
THEOREM EditorKeepsTyping == ASSUME EditorConfig PROVE Editor!Spec => TypingKept
<1> DEFINE Kept == \A f \in typed : text'[f] # text[f] =>
                     \/ focus = f /\ (focus' = Editor!Nowhere \/ used'.edits > used.edits)
                     \/ text'[f] = Editor!None
<1>1. Editor!Init => EditorInv
  BY EditorStart
<1>2. EditorInv /\ [Editor!Next]_(Editor!vars) => EditorInv'
  BY EditorNext
<1>3. EditorInv /\ [Editor!Next]_(Editor!vars) => [Kept]_(Editor!vars)
  <2> SUFFICES ASSUME EditorInv, Editor!Next, NEW f \in typed, text'[f] # text[f]
               PROVE  \/ focus = f /\ (focus' = Editor!Nowhere \/ used'.edits > used.edits)
                      \/ text'[f] = Editor!None
    BY DEF Kept
  <2> USE DEF EditorInv
  <2>1. f \in Editor!Fields /\ text[f] # Editor!None /\ (f = focus \/ f = "drawer")
    BY DEF ScreenTyped, FieldsOpen, Editor!Fields
  <2>2. entry \in Entries /\ selected \in Nat /\ Editor!None \in Nat /\ Editor!MainStep \in Nat
          /\ server \in Jobs
    BY DEF ScreenTyped, EntryTyped, EditorConfig, Editor!None, Editor!MainStep
  <2>3. ASSUME NEW e \in Entries, NEW s \in Nat, Editor!Shown(e, s)
        PROVE  text'[f] = Editor!None
    BY <2>3, ShownStep
  <2>4. ASSUME NEW g \in Editor!Fields, Editor!Focus(g)
        PROVE  FALSE
    BY <2>1, <2>4 DEF Editor!Focus, ScreenTyped, Editor!Nowhere, Editor!Fields
  <2>5. ASSUME NEW v \in {Editor!Edited, Editor!Blank}, Editor!Type(v)
        PROVE  focus = f /\ used'.edits > used.edits
    BY <2>1, <2>5 DEF Editor!Type, Editor!CountEdit, ScreenTyped
  <2>6. CASE Editor!Blur
    <3>1. focus \in Editor!Fields /\ focus' = Editor!Nowhere
      BY <2>6 DEF Editor!Blur, ScreenTyped
    <3>2. f # focus => text'[f] = text[f]
      BY <2>1, <2>6, <3>1 DEF Editor!Blur, Editor!Closed, ScreenTyped
    <3> QED BY <3>1, <3>2
  <2>7. CASE Editor!Cancel
    BY <2>1, <2>7 DEF Editor!Cancel, ScreenTyped
  <2>8. CASE Editor!Press \/ Editor!Move \/ Editor!AddStep \/ Editor!RemoveStep
               \/ Editor!OthersEdit \/ Editor!Poll \/ Editor!ServePoll
    BY <2>8 DEF Editor!Press, Editor!Move, Editor!AddStep, Editor!RemoveStep, Editor!OthersEdit,
       Editor!Poll, Editor!ServePoll
  <2>9. CASE Editor!Release
    <3>1. CASE Editor!Shown(entry, IF drag = "moved" THEN selected ELSE Editor!MainStep)
      BY <2>2, <2>3, <3>1
    <3>2. CASE UNCHANGED text
      BY <3>2
    <3> QED BY <2>9, <3>1, <3>2 DEF Editor!Release
  <2>10. CASE Editor!PressCanvas
    BY <2>2, <2>3, <2>10 DEF Editor!PressCanvas
  <2>11. ASSUME NEW c \in calls, Editor!Serve(c) \/ Editor!Fails(c)
         PROVE  FALSE
    BY <2>11 DEF Editor!Serve, Editor!Fails
  <2>12. ASSUME NEW c \in calls, Editor!Settle(c)
         PROVE  text'[f] = Editor!None
    <3> DEFINE s == IF c.kind = "add" /\ c.callback THEN Editor!Created(c)
                    ELSE IF c.kind = "remove" /\ c.callback THEN Editor!None ELSE selected
    <3>1. c.ans \in Jobs /\ (c.kind = "add" => Editor!Created(c) \in Nat)
      BY <2>12 DEF Editor!Settle, CallsInv, Fits, MadeLast, Editor!Created, ScreenTyped
    <3>2. s \in Nat
      BY <2>2, <3>1
    <3>3. Editor!SetData(entry, c.ans) \in Entries
      BY <3>1, EntryStep
    <3>4. Editor!Shown(Editor!SetData(entry, c.ans), s)
      BY <2>12 DEF Editor!Settle
    <3> QED BY <2>3, <3>2, <3>3, <3>4
  <2>13. CASE Editor!ApplyPoll
    BY <2>2, <2>3, <2>13, EntryStep DEF Editor!ApplyPoll
  <2> QED BY <2>4, <2>5, <2>6, <2>7, <2>8, <2>9, <2>10, <2>11, <2>12, <2>13 DEF Editor!Next
<1> QED BY <1>1, <1>2, <1>3, PTL DEF Editor!Spec, TypingKept, Editor!TypingKept
=============================================================================
