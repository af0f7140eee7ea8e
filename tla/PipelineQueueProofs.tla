------------------------ MODULE PipelineQueueProofs ------------------------
(***************************************************************************)
(* The safety of PipelineQueue for every set of pipelines, catalog, runner *)
(* and lease length.  IInv is the inductive invariant: the checked         *)
(* invariants alone do not say what an unassigned row looks like, nor that *)
(* a run group is either wholly submitted or wholly absent, and the step   *)
(* of a submission and of a claim need both.                               *)
(***************************************************************************)
EXTENDS PipelineQueue, TLAPS

\* A row that no claim has touched has no worker and no accepted cancellation.
UntouchedRows ==
  \A p \in Pipelines :
    /\ status[p] \in {"absent", "queued"} =>
         worker[p] = NoWorker /\ ~ cancelRequested[p]
    /\ worker[p] # NoWorker => status[p] \notin {"absent", "queued"}

GroupsAreWhole ==
  \A p, q \in Pipelines :
    /\ definition[p].frozen
    /\ definition[q].scope = definition[p].scope
    /\ status[p] # "absent"
    => status[q] # "absent"

IInv == /\ TypeOK
        /\ UntouchedRows
        /\ GroupsAreWhole
        /\ KeyedRunnerHoldsOneLease
        /\ JobsSettleWithPipeline
        /\ GroupRunsInDependencyOrder

-----------------------------------------------------------------------------
(* Settling leaves no job open.                                            *)
LEMMA SettledClosesJobs ==
  ASSUME NEW jobs \in [Jobs -> JobStatus], NEW s
  PROVE  /\ Settled(jobs, s) \in [Jobs -> JobStatus]
         /\ \A j \in Jobs : Settled(jobs, s)[j] \notin OpenJob
BY DEF Settled, JobStatus, OpenJob, Terminal

(* In a run group every upstream of a pipeline is the latest of its name.  *)
LEMMA FrozenUpstreamIsLatest ==
  ASSUME TypeOK, NEW p \in Pipelines, definition[p].frozen
  PROVE  Upstream(p) = LatestUpstream(p)
<1>1. SUFFICES ASSUME NEW q \in Upstream(p), NEW r \in Upstream(p),
                      definition[r].name = definition[q].name
               PROVE  r <= q
  BY DEF LatestUpstream
<1>2. q \in Pipelines /\ r \in Pipelines
  BY DEF Upstream
<1>3. definition[q].scope = definition[p].scope
      /\ definition[r].scope = definition[q].scope
  BY DEF Upstream
<1>4. definition \in Catalogs
  BY DEF TypeOK
<1>5. definition[q].frozen
  BY <1>2, <1>3, <1>4, GroupAssumption
<1>6. q = r
  BY <1>1, <1>2, <1>3, <1>4, <1>5, GroupAssumption
<1>7. QED
  BY <1>2, <1>6, QueueAssumption

-----------------------------------------------------------------------------
LEMMA InitIInv == Init => IInv
BY QueueAssumption
   DEF Init, IInv, TypeOK, PipelineStatus, Terminal, JobStatus, UntouchedRows,
       GroupsAreWhole, KeyedRunnerHoldsOneLease, Leased, Running,
       JobsSettleWithPipeline, OpenJob, GroupRunsInDependencyOrder

\* Whoever submits, one transaction inserts some pipelines.
LEMMA SubmitInserts ==
  ASSUME SubmitStep
  PROVE  \E S \in SUBSET Pipelines : Insert(S)
<1>1. CASE \E S \in SUBSET Pipelines : Enqueue(S)
  BY <1>1 DEF Enqueue
<1>2. CASE \E p \in Pipelines : Submit(p)
  BY <1>2 DEF Submit
<1>3. CASE \E p, q \in Pipelines : Rerun(q, p)
  BY <1>3 DEF Rerun, InGroupOf
<1> QED BY <1>1, <1>2, <1>3 DEF SubmitStep

LEMMA SubmitIInv ==
  ASSUME IInv, NEW S \in SUBSET Pipelines, Insert(S)
  PROVE  IInv'
<1> USE DEF IInv, Insert
<1>1. TypeOK'
  BY DEF TypeOK, PipelineStatus
<1>2. UntouchedRows'
  BY DEF UntouchedRows
<1>3. GroupsAreWhole'
  BY DEF GroupsAreWhole, InGroupOf
<1>4. KeyedRunnerHoldsOneLease'
  BY DEF KeyedRunnerHoldsOneLease, Leased, Running
<1>5. JobsSettleWithPipeline'
  BY DEF JobsSettleWithPipeline, Running
<1>6. GroupRunsInDependencyOrder'
  BY DEF GroupRunsInDependencyOrder, Upstream, GroupsAreWhole, UntouchedRows
<1>7. QED
  BY <1>1, <1>2, <1>3, <1>4, <1>5, <1>6

LEMMA ClaimIInv ==
  ASSUME IInv, NEW w \in Workers, NEW r \in Requests \cup {NoRequest},
         NEW supports \in BOOLEAN, NEW system \in Systems \cup {NoSystem},
         ClaimFresh(w, r, system, supports)
  PROVE  IInv'
<1> USE DEF IInv
<1>1. PICK chosen \in Choices(Claimable(system, supports)) :
        /\ status' = [p \in Pipelines |->
                        IF p \in chosen THEN "running" ELSE AfterDoom[p]]
        /\ worker' = [p \in Pipelines |-> IF p \in chosen THEN w ELSE worker[p]]
        /\ request' = [p \in Pipelines |-> IF p \in chosen THEN r ELSE request[p]]
        /\ lease' = [p \in Pipelines |->
                       IF p \in chosen THEN LeaseTicks ELSE lease[p]]
  BY DEF ClaimFresh
<1>2. UNCHANGED <<definition, cancelRequested, job>>
  BY DEF ClaimFresh
<1>3. r # NoRequest => ~ Busy(w)
  BY DEF ClaimFresh
<1>4. \A p \in chosen : p \in Claimable(system, supports)
  BY DEF Choices
<1>5. \A p, q \in chosen : p = q
  BY DEF Choices
<1>6. \A p \in chosen : p \in Pipelines /\ status[p] = "queued"
                        /\ ~ cancelRequested[p]
  BY <1>4 DEF Claimable, AfterDoom
<1>7. \A p \in Pipelines :
        \/ p \in chosen /\ status'[p] = "running"
        \/ p \notin chosen /\ status'[p] = status[p]
        \/ p \notin chosen /\ status[p] = "queued" /\ status'[p] = "failed"
  BY <1>1 DEF AfterDoom, Doomed
<1>8. TypeOK'
  BY <1>1, <1>2, QueueAssumption
     DEF TypeOK, PipelineStatus, Terminal, AfterDoom
<1>9. UntouchedRows'
  BY <1>1, <1>2, <1>7, QueueAssumption DEF UntouchedRows
<1>10. GroupsAreWhole'
  BY <1>2, <1>6, <1>7 DEF GroupsAreWhole
<1>11. KeyedRunnerHoldsOneLease'
  <2>1. SUFFICES ASSUME NEW p \in Pipelines, NEW q \in Pipelines, p # q,
                        Leased(p)', Leased(q)', worker'[p] = worker'[q]
                 PROVE  NoRequest \in {request'[p], request'[q]}
    BY DEF KeyedRunnerHoldsOneLease
  <2>2. CASE p \notin chosen /\ q \notin chosen
    BY <1>1, <1>7, <2>1, <2>2 DEF KeyedRunnerHoldsOneLease, Leased, Running
  <2>3. CASE p \in chosen
    <3>1. q \notin chosen
      BY <1>5, <2>1, <2>3
    <3>2. worker[q] = w /\ Leased(q)
      BY <1>1, <1>7, <2>1, <2>3, <3>1 DEF Leased, Running
    <3>3. QED
      BY <1>1, <1>3, <2>3, <3>2 DEF Busy
  <2>4. CASE q \in chosen
    <3>1. p \notin chosen
      BY <1>5, <2>1, <2>4
    <3>2. worker[p] = w /\ Leased(p)
      BY <1>1, <1>7, <2>1, <2>4, <3>1 DEF Leased, Running
    <3>3. QED
      BY <1>1, <1>3, <2>4, <3>2 DEF Busy
  <2>5. QED
    BY <2>2, <2>3, <2>4
<1>12. JobsSettleWithPipeline'
  BY <1>2, <1>7 DEF JobsSettleWithPipeline, Running
<1>13. GroupRunsInDependencyOrder'
  <2>1. SUFFICES ASSUME NEW p \in Pipelines, definition[p].frozen,
                        worker'[p] # NoWorker, NEW q \in Upstream(p)'
                 PROVE  status'[q] = "succeeded"
    BY <1>2 DEF GroupRunsInDependencyOrder
  <2>2. q \in Upstream(p)
    BY <1>2, <1>7, <2>1, <1>6 DEF Upstream
  <2>3. status[q] = "succeeded" => status'[q] = "succeeded"
    BY <1>6, <1>7, <2>2 DEF Upstream
  <2>4. CASE p \in chosen
    <3>1. q \in LatestUpstream(p)
      BY <2>1, <2>2, FrozenUpstreamIsLatest
    <3>2. AfterDoom[q] = "succeeded"
      BY <1>4, <2>4, <3>1 DEF Claimable
    <3>3. status[q] = "succeeded"
      BY <2>2, <3>2 DEF AfterDoom, Upstream
    <3>4. QED
      BY <2>3, <3>3
  <2>5. CASE p \notin chosen
    <3>1. worker[p] # NoWorker
      BY <1>1, <2>1, <2>5
    <3>2. QED
      BY <2>1, <2>2, <2>3, <3>1 DEF GroupRunsInDependencyOrder
  <2>6. QED
    BY <2>4, <2>5
<1>14. QED
  BY <1>8, <1>9, <1>10, <1>11, <1>12, <1>13

-----------------------------------------------------------------------------
LEMMA HeartbeatIInv ==
  ASSUME IInv, NEW p \in Pipelines, NEW w \in Workers, Heartbeat(p, w)
  PROVE  IInv'
<1> USE DEF IInv, Heartbeat
<1>1. TypeOK'
  BY QueueAssumption DEF TypeOK
<1>2. \A q \in Pipelines : Leased(q)' => Leased(q)
  BY DEF TypeOK, Active, Leased, Running
<1>3. KeyedRunnerHoldsOneLease'
  BY <1>2 DEF KeyedRunnerHoldsOneLease
<1>4. UntouchedRows' /\ GroupsAreWhole'
  BY DEF UntouchedRows, GroupsAreWhole
<1>5. JobsSettleWithPipeline' /\ GroupRunsInDependencyOrder'
  BY DEF JobsSettleWithPipeline, GroupRunsInDependencyOrder, Running, Upstream
<1>6. QED
  BY <1>1, <1>3, <1>4, <1>5

(* The two steps that write jobs only write those of a running pipeline.   *)
LEMMA JobsIInv ==
  ASSUME IInv, NEW p \in Pipelines, Running(p),
         NEW jobs \in [Jobs -> JobStatus],
         job' = [job EXCEPT ![p] = jobs],
         UNCHANGED <<definition, status, worker, request, lease, cancelRequested>>
  PROVE  IInv'
<1> USE DEF IInv
<1>1. TypeOK'
  BY DEF TypeOK
<1>2. JobsSettleWithPipeline'
  BY DEF TypeOK, JobsSettleWithPipeline, Running
<1>3. UntouchedRows' /\ GroupsAreWhole'
  BY DEF UntouchedRows, GroupsAreWhole
<1>4. KeyedRunnerHoldsOneLease'
  BY DEF KeyedRunnerHoldsOneLease, Leased, Running
<1>5. GroupRunsInDependencyOrder'
  BY DEF GroupRunsInDependencyOrder, Upstream
<1>6. QED
  BY <1>1, <1>2, <1>3, <1>4, <1>5

LEMMA CreateJobsIInv ==
  ASSUME IInv, NEW p \in Pipelines, NEW w \in Workers, CreateJobs(p, w)
  PROVE  IInv'
<1> DEFINE jobs == [j \in Jobs |->
                      IF j \in definition[p].jobs THEN "queued" ELSE "none"]
<1>1. jobs \in [Jobs -> JobStatus]
  BY DEF JobStatus
<1>2. job' = [job EXCEPT ![p] = jobs] /\ Running(p)
  BY DEF CreateJobs, Active, Leased
<1>3. UNCHANGED <<definition, status, worker, request, lease, cancelRequested>>
  BY DEF CreateJobs
<1> HIDE DEF jobs
<1>4. QED
  BY <1>1, <1>2, <1>3, JobsIInv

LEMMA ReportJobIInv ==
  ASSUME IInv, NEW p \in Pipelines, NEW w \in Workers, NEW j \in Jobs,
         NEW s \in {"running", "succeeded", "failed"}, ReportJob(p, w, j, s)
  PROVE  IInv'
<1> DEFINE jobs == [job[p] EXCEPT ![j] = s]
<1>1. jobs \in [Jobs -> JobStatus]
  BY DEF IInv, TypeOK, JobStatus, Terminal
<1>2. job' = [job EXCEPT ![p] = jobs] /\ Running(p)
  BY DEF ReportJob, Active, Leased
<1>3. UNCHANGED <<definition, status, worker, request, lease, cancelRequested>>
  BY DEF ReportJob
<1> HIDE DEF jobs
<1>4. QED
  BY <1>1, <1>2, <1>3, JobsIInv

(* Ending runs and settling their jobs, as finish does for one pipeline    *)
(* and the reaper for a set of them.  A run that succeeds is not reopened, *)
(* so the dependency order of its group is kept.                           *)
LEMMA EndingIInv ==
  ASSUME IInv, NEW E \in SUBSET Pipelines, \A p \in E : Running(p),
         NEW final \in [E -> Terminal],
         NEW left \in [Pipelines -> 0..LeaseTicks],
         \A p \in Pipelines : p \notin E => left[p] = lease[p],
         status' = [p \in Pipelines |-> IF p \in E THEN final[p] ELSE status[p]],
         job' = [p \in Pipelines |->
                   IF p \in E THEN Settled(job[p], final[p]) ELSE job[p]],
         lease' = left,
         UNCHANGED <<definition, worker, request, cancelRequested>>
  PROVE  IInv'
<1> USE DEF IInv
<1>1. \A p \in Pipelines :
        \/ p \in E /\ status'[p] \in Terminal
        \/ p \notin E /\ status'[p] = status[p]
  OBVIOUS
<1>2. \A p \in Pipelines : job[p] \in [Jobs -> JobStatus]
  BY DEF TypeOK
<1>3. \A p \in E : /\ job'[p] \in [Jobs -> JobStatus]
                   /\ \A j \in Jobs : job'[p][j] \notin OpenJob
  BY <1>2, SettledClosesJobs
<1>4. \A p \in Pipelines : p \notin E => job'[p] = job[p]
  OBVIOUS
<1>5. TypeOK'
  <2>1. status' \in [Pipelines -> PipelineStatus]
    BY <1>1 DEF TypeOK, PipelineStatus
  <2>2. job' \in [Pipelines -> [Jobs -> JobStatus]]
    BY <1>2, <1>3, <1>4
  <2>3. QED
    BY <2>1, <2>2 DEF TypeOK
<1>6. UntouchedRows'
  BY <1>1 DEF UntouchedRows, Running, Terminal
<1>7. GroupsAreWhole'
  BY <1>1 DEF GroupsAreWhole, Running, Terminal
<1>8. KeyedRunnerHoldsOneLease'
  <2>1. \A p \in Pipelines : Leased(p)' => Leased(p)
    BY <1>1 DEF Leased, Running, Terminal
  <2>2. QED
    BY <2>1 DEF KeyedRunnerHoldsOneLease
<1>9. JobsSettleWithPipeline'
  BY <1>1, <1>3, <1>4 DEF JobsSettleWithPipeline, Running
<1>10. GroupRunsInDependencyOrder'
  BY <1>1 DEF GroupRunsInDependencyOrder, Upstream, Running, Terminal
<1>11. QED
  BY <1>5, <1>6, <1>7, <1>8, <1>9, <1>10

LEMMA FinishIInv ==
  ASSUME IInv, NEW p \in Pipelines, NEW w \in Workers,
         NEW s \in {"succeeded", "failed"}, Finish(p, w, s)
  PROVE  IInv'
<1> DEFINE final == [q \in {p} |-> IF cancelRequested[p] THEN "canceled" ELSE s]
           left == [lease EXCEPT ![p] = 0]
<1>1. TypeOK
  BY DEF IInv
<1>2. final \in [{p} -> Terminal] /\ \A q \in {p} : Running(q)
  BY DEF Terminal, Finish, Leased
<1>3. /\ left \in [Pipelines -> 0..LeaseTicks]
      /\ \A q \in Pipelines : q \notin {p} => left[q] = lease[q]
  BY <1>1, QueueAssumption DEF TypeOK
<1>4. /\ status' = [q \in Pipelines |->
                     IF q \in {p} THEN final[q] ELSE status[q]]
      /\ job' = [q \in Pipelines |->
                  IF q \in {p} THEN Settled(job[q], final[q]) ELSE job[q]]
  BY <1>1 DEF Finish, TypeOK
<1>5. lease' = left /\ UNCHANGED <<definition, worker, request, cancelRequested>>
  BY DEF Finish
<1> HIDE DEF final, left
<1>6. QED
  BY <1>2, <1>3, <1>4, <1>5, EndingIInv

LEMMA ReapIInv ==
  ASSUME IInv, Reap
  PROVE  IInv'
<1> DEFINE final == [p \in Expired |-> ReapedStatus(p)]
<1>1. TypeOK
  BY DEF IInv
<1>2. final \in [Expired -> Terminal] /\ \A p \in Expired : Running(p)
  BY DEF ReapedStatus, Terminal, Expired
<1>3. lease \in [Pipelines -> 0..LeaseTicks] /\ Expired \in SUBSET Pipelines
  BY <1>1 DEF TypeOK, Expired
<1>4. /\ status' = [p \in Pipelines |->
                     IF p \in Expired THEN final[p] ELSE status[p]]
      /\ job' = [p \in Pipelines |->
                  IF p \in Expired THEN Settled(job[p], final[p]) ELSE job[p]]
  BY DEF Reap
<1>5. UNCHANGED <<definition, worker, request, lease, cancelRequested>>
  BY DEF Reap
<1> HIDE DEF final
<1>6. QED
  BY <1>2, <1>3, <1>4, <1>5, EndingIInv

LEMMA CancelIInv ==
  ASSUME IInv, NEW p \in Pipelines, Cancel(p)
  PROVE  IInv'
<1> USE DEF IInv, Cancel
<1>1. \A q \in Pipelines :
        \/ status'[q] = status[q]
        \/ q = p /\ status[q] = "queued" /\ status'[q] = "canceled"
  BY DEF TypeOK
<1>2. TypeOK'
  BY DEF TypeOK, PipelineStatus, Terminal
<1>3. UntouchedRows'
  BY DEF UntouchedRows, TypeOK
<1>4. GroupsAreWhole'
  BY <1>1 DEF GroupsAreWhole
<1>5. KeyedRunnerHoldsOneLease'
  BY <1>1 DEF KeyedRunnerHoldsOneLease, Leased, Running
<1>6. JobsSettleWithPipeline'
  BY <1>1 DEF JobsSettleWithPipeline, Running
<1>7. GroupRunsInDependencyOrder'
  BY <1>1 DEF GroupRunsInDependencyOrder, Upstream
<1>8. QED
  BY <1>2, <1>3, <1>4, <1>5, <1>6, <1>7

LEMMA TickIInv ==
  ASSUME IInv, Tick
  PROVE  IInv'
<1> USE DEF IInv, Tick
<1>1. TypeOK'
  BY QueueAssumption DEF TypeOK
<1>2. \A p \in Pipelines : Leased(p)' => Leased(p)
  BY DEF TypeOK, Leased, Running
<1>3. KeyedRunnerHoldsOneLease'
  BY <1>2 DEF KeyedRunnerHoldsOneLease
<1>4. UntouchedRows' /\ GroupsAreWhole'
  BY DEF UntouchedRows, GroupsAreWhole
<1>5. JobsSettleWithPipeline' /\ GroupRunsInDependencyOrder'
  BY DEF JobsSettleWithPipeline, GroupRunsInDependencyOrder, Running, Upstream
<1>6. QED
  BY <1>1, <1>3, <1>4, <1>5

LEMMA StutterIInv ==
  ASSUME IInv, UNCHANGED vars
  PROVE  IInv'
BY DEF vars, IInv, TypeOK, UntouchedRows, GroupsAreWhole, JobsSettleWithPipeline,
       KeyedRunnerHoldsOneLease, GroupRunsInDependencyOrder, Leased, Running,
       Upstream

LEMMA NextIInv ==
  ASSUME IInv, [Next]_vars
  PROVE  IInv'
<1>1. CASE SubmitStep
  BY <1>1, SubmitInserts, SubmitIInv
<1>2. CASE ClaimStep
  BY <1>2, ClaimIInv DEF ClaimStep
<1>3. CASE ReportStep
  BY <1>3, HeartbeatIInv, CreateJobsIInv, ReportJobIInv, FinishIInv DEF ReportStep
<1>4. CASE CancelStep
  BY <1>4, CancelIInv DEF CancelStep
<1>5. CASE Reap
  BY <1>5, ReapIInv
<1>6. CASE Tick
  BY <1>6, TickIInv
<1>7. CASE UNCHANGED vars
  BY <1>7, StutterIInv
<1>8. QED
  BY <1>1, <1>2, <1>3, <1>4, <1>5, <1>6, <1>7 DEF Next

-----------------------------------------------------------------------------
\* Whatever takes the queue's steps: Spec, and the modules that say how they come
\* about (ClaimTransactions, WorkerProtocol).
QueueSteps == Init /\ [][Next]_vars

LEMMA StepsKeepIInv == QueueSteps => []IInv
<1>1. Init => IInv
  BY InitIInv
<1>2. IInv /\ [Next]_vars => IInv'
  BY NextIInv
<1>3. QED
  BY <1>1, <1>2, PTL DEF QueueSteps

(* The inductive invariant holds in every reachable state of the queue:    *)
(* rows no claim touched are bare and a run group is submitted as a whole. *)
THEOREM Invariant == Spec => []IInv
BY StepsKeepIInv, PTL DEF Spec, QueueSteps

(* Every column keeps its type, and a lease never exceeds its grant.       *)
THEOREM TypeCorrect == Spec => []TypeOK
BY Invariant, PTL DEF IInv

(* No two live leases belong to one runner that identifies its claims.     *)
THEOREM OneLease == Spec => []KeyedRunnerHoldsOneLease
BY Invariant, PTL DEF IInv

(* No job is open once its pipeline has ended.                             *)
THEOREM JobsSettle == Spec => []JobsSettleWithPipeline
BY Invariant, PTL DEF IInv

(* A run group is executed in dependency order.                            *)
THEOREM DependencyOrder == Spec => []GroupRunsInDependencyOrder
BY Invariant, PTL DEF IInv

-----------------------------------------------------------------------------
(* Refinement: what a step of the queue does to one pipeline is a step of  *)
(* its lifecycle.                                                          *)
Abstract == <<status, worker, cancelRequested>>

LEMMA SubmitRefines ==
  ASSUME IInv, NEW S \in SUBSET Pipelines, Insert(S)
  PROVE  Lifecycle!Next
BY DEF IInv, TypeOK, UntouchedRows, Insert, Lifecycle!Next, Lifecycle!Keeps,
       Lifecycle!Enters

LEMMA ClaimRefines ==
  ASSUME IInv, NEW w \in Workers, NEW r \in Requests \cup {NoRequest},
         NEW supports \in BOOLEAN, NEW system \in Systems \cup {NoSystem},
         ClaimFresh(w, r, system, supports)
  PROVE  Lifecycle!Next
<1>1. PICK chosen \in Choices(Claimable(system, supports)) :
        /\ status' = [p \in Pipelines |->
                        IF p \in chosen THEN "running" ELSE AfterDoom[p]]
        /\ worker' = [p \in Pipelines |-> IF p \in chosen THEN w ELSE worker[p]]
  BY DEF ClaimFresh
<1>2. UNCHANGED cancelRequested
  BY DEF ClaimFresh
<1>3. SUFFICES ASSUME NEW p \in Pipelines
               PROVE  \/ Lifecycle!Keeps(p)
                      \/ Lifecycle!IsAssigned(p)
                      \/ Lifecycle!EndsInQueue(p)
  BY DEF Lifecycle!Next
<1>4. CASE p \in chosen
  <2>1. status[p] = "queued" /\ ~ cancelRequested[p]
    BY <1>4 DEF Choices, Claimable, AfterDoom
  <2>2. worker[p] = NoWorker
    BY <2>1 DEF IInv, UntouchedRows
  <2>3. QED
    BY <1>1, <1>2, <1>4, <2>1, <2>2 DEF Lifecycle!IsAssigned
<1>5. CASE p \notin chosen /\ p \in Doomed
  <2>1. /\ status[p] = "queued" /\ status'[p] = "failed"
        /\ worker'[p] = worker[p]
    BY <1>1, <1>5 DEF Doomed, AfterDoom
  <2>2. worker[p] = NoWorker /\ ~ cancelRequested[p]
    BY <2>1 DEF IInv, UntouchedRows
  <2>3. QED
    BY <1>2, <2>1, <2>2 DEF Lifecycle!EndsInQueue
<1>6. CASE p \notin chosen /\ p \notin Doomed
  BY <1>1, <1>2, <1>6 DEF AfterDoom, Lifecycle!Keeps
<1>7. QED
  BY <1>4, <1>5, <1>6

LEMMA FinishRefines ==
  ASSUME IInv, NEW p \in Pipelines, NEW w \in Workers,
         NEW s \in {"succeeded", "failed"}, Finish(p, w, s)
  PROVE  Lifecycle!Next
<1>1. \A q \in Pipelines : q # p => Lifecycle!Keeps(q)
  BY DEF IInv, TypeOK, Finish, Lifecycle!Keeps
<1>2. Lifecycle!EndsRunning(p)
  <2>1. status'[p] = IF cancelRequested[p] THEN "canceled" ELSE s
    BY DEF IInv, TypeOK, Finish
  <2>2. status[p] = "running" /\ UNCHANGED <<worker, cancelRequested>>
    BY DEF Finish, Leased, Running
  <2>3. QED
    BY <2>1, <2>2 DEF Lifecycle!EndsRunning, Lifecycle!Terminal
<1>3. QED
  BY <1>1, <1>2 DEF Lifecycle!Next

LEMMA CancelRefines ==
  ASSUME IInv, NEW p \in Pipelines, Cancel(p)
  PROVE  Lifecycle!Next
<1>1. \A q \in Pipelines : q # p => Lifecycle!Keeps(q)
  BY DEF IInv, TypeOK, Cancel, Lifecycle!Keeps
<1>2. cancelRequested'[p] /\ worker' = worker
  BY DEF IInv, TypeOK, Cancel
<1>3. CASE status[p] = "queued"
  <2>1. status'[p] = "canceled" /\ worker[p] = NoWorker
    BY <1>3 DEF IInv, TypeOK, UntouchedRows, Cancel
  <2>2. Lifecycle!EndsInQueue(p)
    BY <1>2, <1>3, <2>1 DEF Lifecycle!EndsInQueue
  <2>3. QED
    BY <1>1, <2>2 DEF Lifecycle!Next
<1>4. CASE status[p] = "running"
  <2>1. status'[p] = status[p]
    BY <1>4 DEF IInv, TypeOK, Cancel
  <2>2. Lifecycle!CancelIsAccepted(p)
    BY <1>2, <1>4, <2>1 DEF Lifecycle!CancelIsAccepted
  <2>3. QED
    BY <1>1, <2>2 DEF Lifecycle!Next
<1>5. QED
  BY <1>3, <1>4 DEF Cancel

LEMMA ReapRefines ==
  ASSUME IInv, Reap
  PROVE  Lifecycle!Next
<1>1. \A p \in Pipelines : p \notin Expired => Lifecycle!Keeps(p)
  BY DEF Reap, Lifecycle!Keeps
<1>2. \A p \in Expired : Lifecycle!EndsRunning(p)
  <2>1. SUFFICES ASSUME NEW p \in Expired
                 PROVE  Lifecycle!EndsRunning(p)
    OBVIOUS
  <2>2. p \in Pipelines /\ status[p] = "running"
    BY DEF Expired, Running
  <2>3. status'[p] = IF cancelRequested[p] THEN "canceled" ELSE "failed"
    BY <2>2 DEF Reap, ReapedStatus
  <2>4. QED
    BY <2>2, <2>3 DEF Reap, Lifecycle!EndsRunning, Lifecycle!Terminal
<1>3. QED
  BY <1>1, <1>2 DEF Lifecycle!Next

LEMMA NextRefines ==
  ASSUME IInv, [Next]_vars
  PROVE  [Lifecycle!Next]_Abstract
<1>1. CASE SubmitStep
  BY <1>1, SubmitInserts, SubmitRefines
<1>2. CASE ClaimStep
  BY <1>2, ClaimRefines DEF ClaimStep
<1>3. CASE ReportStep
  <2>1. ASSUME NEW p \in Pipelines, NEW w \in Workers,
               NEW s \in {"succeeded", "failed"}, Finish(p, w, s)
        PROVE  Lifecycle!Next
    BY <2>1, FinishRefines
  <2>2. CASE UNCHANGED Abstract
    BY <2>2
  <2>3. QED
    BY <1>3, <2>1, <2>2
       DEF ReportStep, Heartbeat, CreateJobs, ReportJob, Abstract
<1>4. CASE CancelStep
  BY <1>4, CancelRefines DEF CancelStep
<1>5. CASE Reap
  BY <1>5, ReapRefines
<1>6. CASE Tick \/ UNCHANGED vars
  BY <1>6 DEF Tick, vars, Abstract
<1>7. QED
  BY <1>1, <1>2, <1>3, <1>4, <1>5, <1>6 DEF Next

LEMMA StepsImplementLifecycle == QueueSteps => ImplementsLifecycle
<1>1. Init => Lifecycle!Init
  BY DEF Init, Lifecycle!Init
<1>2. IInv /\ [Next]_vars => [Lifecycle!Next]_(Lifecycle!vars)
  BY NextRefines DEF Abstract, Lifecycle!vars
<1>3. QED
  BY <1>1, <1>2, StepsKeepIInv, PTL
     DEF QueueSteps, ImplementsLifecycle, Lifecycle!Spec

(* The queue implements the promise of PipelineLifecycle: one assignment,  *)
(* one outcome, and a cancellation that was accepted decides it.           *)
THEOREM Refinement == Spec => ImplementsLifecycle
BY StepsImplementLifecycle, PTL DEF Spec, QueueSteps

=============================================================================
