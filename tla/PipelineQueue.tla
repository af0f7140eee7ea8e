--------------------------- MODULE PipelineQueue ---------------------------
(***************************************************************************)
(* The coordinator's pipeline queue in PostgreSQL (src/src/ci/db.rs): the  *)
(* tables pipelines and jobs, with one action per transaction that users,  *)
(* runners and the coordinator's own tasks commit.  The runners table is   *)
(* in ClaimTransactions, which takes a claim apart into its statements.    *)
(* Time is a tick: lease[p] is what is left of lease_until, 0 once it has  *)
(* passed.  The order of created_at, id is the order of the numbers that   *)
(* stand for pipelines; rows may become visible in any order.              *)
(***************************************************************************)
EXTENDS Naturals

CONSTANTS Pipelines,    \* pipelines that can be submitted, in creation order
          Catalogs,     \* assignments of a definition to every pipeline
          Jobs,         \* job names
          Workers,      \* runner identities
          Requests,     \* claim request identities
          Systems,      \* runner operating systems
          LeaseTicks,   \* the 30 seconds a claim or heartbeat grants
          NoWorker, NoRequest, AnySystem, NoSystem

\* The columns a submission fixes.  scope stands for repository, branch, revision
\* and run group; frozen says that the run carries an execution_spec.
DefinitionType ==
  [name : STRING, scope : STRING, needs : SUBSET STRING,
   os : Systems \cup {AnySystem}, frozen : BOOLEAN, jobs : SUBSET Jobs]

ASSUME QueueAssumption ==
  /\ Pipelines \subseteq Nat
  /\ Catalogs \subseteq [Pipelines -> DefinitionType]
  /\ LeaseTicks \in Nat \ {0}
  /\ NoWorker \notin Workers
  /\ NoRequest \notin Requests
  /\ {AnySystem, NoSystem} \cap Systems = {}
  /\ AnySystem # NoSystem

\* A frozen run belongs to a run group, whose members are all frozen and have
\* different names: UNIQUE (run_group_id, pipeline_name).
ASSUME GroupAssumption ==
  \A c \in Catalogs : \A p, q \in Pipelines :
    c[p].frozen /\ c[p].scope = c[q].scope =>
      c[q].frozen /\ (c[p].name = c[q].name => p = q)

VARIABLES definition,       \* the columns no statement updates
          status,           \* pipelines.status, "absent" before the insert
          worker,           \* pipelines.worker_id
          request,          \* pipelines.claim_request_id
          lease,            \* ticks left until lease_until; 0 when NULL or past
          cancelRequested,  \* pipelines.cancel_requested
          job               \* jobs.status of each job, "none" before create_jobs

vars == <<definition, status, worker, request, lease, cancelRequested, job>>

Terminal == {"succeeded", "failed", "canceled"}
PipelineStatus == {"absent", "queued", "running"} \cup Terminal
JobStatus == {"none", "queued", "running", "skipped"} \cup Terminal
OpenJob == {"queued", "running"}

TypeOK ==
  /\ definition \in Catalogs
  /\ status \in [Pipelines -> PipelineStatus]
  /\ worker \in [Pipelines -> Workers \cup {NoWorker}]
  /\ request \in [Pipelines -> Requests \cup {NoRequest}]
  /\ lease \in [Pipelines -> 0..LeaseTicks]
  /\ cancelRequested \in [Pipelines -> BOOLEAN]
  /\ job \in [Pipelines -> [Jobs -> JobStatus]]

Init ==
  /\ definition \in Catalogs
  /\ status = [p \in Pipelines |-> "absent"]
  /\ worker = [p \in Pipelines |-> NoWorker]
  /\ request = [p \in Pipelines |-> NoRequest]
  /\ lease = [p \in Pipelines |-> 0]
  /\ cancelRequested = [p \in Pipelines |-> FALSE]
  /\ job = [p \in Pipelines |-> [j \in Jobs |-> "none"]]

-----------------------------------------------------------------------------
(* Predicates that the statements' WHERE clauses share.                    *)

Running(p) == status[p] = "running"

\* status = 'running' AND lease_until > now()
Leased(p) == Running(p) /\ lease[p] > 0

\* Mutant: the fence forgets that the lease may be over.
ActiveWithoutLease(p, w) == Running(p) /\ worker[p] = w /\ ~ cancelRequested[p]

\* The fence of every call a runner makes about a pipeline it holds.
Active(p, w) == Leased(p) /\ worker[p] = w /\ ~ cancelRequested[p]

Upstream(p) ==
  {q \in Pipelines : /\ status[q] # "absent"
                     /\ definition[q].scope = definition[p].scope
                     /\ definition[q].name \in definition[p].needs}

\* For each need, the newest pipeline of that name in the same repository,
\* branch, revision and run group.  A need with no run at all names nothing.
LatestUpstream(p) ==
  {q \in Upstream(p) :
     \A r \in Upstream(p) : definition[r].name = definition[q].name => r <= q}

\* jobs.status once the pipeline has ended as s: what finish and reap do.
Settled(jobs, s) ==
  [j \in Jobs |-> IF jobs[j] \notin OpenJob THEN jobs[j]
                  ELSE IF s = "canceled" THEN "canceled"
                  ELSE IF jobs[j] = "running" THEN "failed"
                  ELSE "skipped"]

-----------------------------------------------------------------------------
(* Submission: by the API, a push or a rerun.                              *)

InGroupOf(p) == {q \in Pipelines : definition[q].scope = definition[p].scope}

\* One transaction inserts S; a run group is inserted as a whole.
Insert(S) ==
  /\ S # {}
  /\ \A p \in S : status[p] = "absent"
  /\ \A p \in S : definition[p].frozen => InGroupOf(p) \subseteq S
  /\ status' = [p \in Pipelines |-> IF p \in S THEN "queued" ELSE status[p]]
  /\ UNCHANGED <<definition, worker, request, lease, cancelRequested, job>>

\* A push queues pipelines of one revision of a branch.
Enqueue(S) == (\A p, q \in S : definition[p].scope = definition[q].scope) /\ Insert(S)

\* A user starts one pipeline; under a database configuration as a group of its own.
Submit(p) == Insert({p})

Unscoped(S) == {[definition[p] EXCEPT !.scope = "any"] : p \in S}

\* A user starts a pipeline of a run group again: the whole group is replayed in
\* a new one, so that its dependencies never borrow the result of another run.
Rerun(original, p) ==
  /\ definition[original].frozen /\ status[original] # "absent"
  /\ definition[p].frozen
  /\ Unscoped(InGroupOf(p)) = Unscoped(InGroupOf(original))
  /\ Insert(InGroupOf(p))

-----------------------------------------------------------------------------
(* Claims.  A claim may be refused: its runner is draining, or it names    *)
(* itself and is busy.  A refusal changes nothing here, nor does the claim *)
(* whose request was seen before, which Replay answers.                    *)

Assigned(w, r) == {p \in Pipelines : worker[p] = w /\ request[p] = r}

\* The answer to a keyed claim that was seen before: the same pipeline while it
\* is still this runner's to execute, else none.  The lease is not extended.
Replay(w, r, supports) ==
  {p \in Assigned(w, r) : Active(p, w) /\ (definition[p].frozen => supports)}

Busy(w) == \E p \in Pipelines : Leased(p) /\ worker[p] = w

\* Queued pipelines one of whose needs ended badly; the claim fails them first.
Doomed == {p \in Pipelines :
             /\ status[p] = "queued"
             /\ \E q \in LatestUpstream(p) : status[q] \in {"failed", "canceled"}}

AfterDoom == [p \in Pipelines |-> IF p \in Doomed THEN "failed" ELSE status[p]]

\* Mutant: an upstream that has not ended yet is taken for a success.
ClaimableEarly(system, supports) ==
  {p \in Pipelines :
     /\ AfterDoom[p] = "queued"
     /\ ~ cancelRequested[p]
     /\ definition[p].frozen => supports
     /\ definition[p].os \in {AnySystem, system}
     /\ \A q \in LatestUpstream(p) : AfterDoom[q] \notin {"failed", "canceled"}}

\* system is the one in the claiming runner's row, NoSystem if it has no row or
\* has stopped; supports says that it can execute a frozen specification.
Claimable(system, supports) ==
  {p \in Pipelines :
     /\ AfterDoom[p] = "queued"
     /\ ~ cancelRequested[p]
     /\ definition[p].frozen => supports
     /\ definition[p].os \in {AnySystem, system}
     /\ \A q \in LatestUpstream(p) : AfterDoom[q] = "succeeded"}

\* FOR UPDATE SKIP LOCKED takes the oldest candidate that no other transaction
\* has locked.  Which rows are locked is arbitrary, so it is any one, or none.
Choices(candidates) == {{}} \cup {{p} : p \in candidates}

ClaimFresh(w, r, system, supports) ==
  /\ r # NoRequest => Assigned(w, r) = {} /\ ~ Busy(w)
  /\ \E chosen \in Choices(Claimable(system, supports)) :
       /\ status' = [p \in Pipelines |->
                       IF p \in chosen THEN "running" ELSE AfterDoom[p]]
       /\ worker' = [p \in Pipelines |-> IF p \in chosen THEN w ELSE worker[p]]
       /\ request' = [p \in Pipelines |-> IF p \in chosen THEN r ELSE request[p]]
       /\ lease' = [p \in Pipelines |->
                      IF p \in chosen THEN LeaseTicks ELSE lease[p]]
  /\ UNCHANGED <<definition, cancelRequested, job>>

-----------------------------------------------------------------------------
(* What the runner that holds a pipeline reports.                          *)

\* Mutant: the lease is extended from its end, not from now.
HeartbeatAdds(p, w) ==
  /\ Active(p, w)
  /\ lease' = [lease EXCEPT ![p] = @ + LeaseTicks]
  /\ UNCHANGED <<definition, status, worker, request, cancelRequested, job>>

\* Mutant: a canceled run keeps its lease.
HeartbeatOfCanceled(p, w) ==
  /\ Leased(p) /\ worker[p] = w
  /\ lease' = [lease EXCEPT ![p] = LeaseTicks]
  /\ UNCHANGED <<definition, status, worker, request, cancelRequested, job>>

Heartbeat(p, w) ==
  /\ Active(p, w)
  /\ lease' = [lease EXCEPT ![p] = LeaseTicks]
  /\ UNCHANGED <<definition, status, worker, request, cancelRequested, job>>

\* UNIQUE (pipeline_id, position) makes a second call fail.
CreateJobs(p, w) ==
  /\ Active(p, w)
  /\ \A j \in Jobs : job[p][j] = "none"
  /\ job' = [job EXCEPT ![p] = [j \in Jobs |->
               IF j \in definition[p].jobs THEN "queued" ELSE "none"]]
  /\ UNCHANGED <<definition, status, worker, request, lease, cancelRequested>>

ReportJob(p, w, j, s) ==
  /\ Active(p, w)
  /\ job[p][j] # "none"
  /\ s \in {"running", "succeeded", "failed"}
  /\ job' = [job EXCEPT ![p][j] = s]
  /\ UNCHANGED <<definition, status, worker, request, lease, cancelRequested>>

\* Mutant: the runner's report overrides an accepted cancellation.
FinishOverCancel(p, w, reported) ==
  /\ Leased(p) /\ worker[p] = w
  /\ reported \in {"succeeded", "failed"}
  /\ status' = [status EXCEPT ![p] = reported]
  /\ job' = [job EXCEPT ![p] = Settled(job[p], reported)]
  /\ lease' = [lease EXCEPT ![p] = 0]
  /\ UNCHANGED <<definition, worker, request, cancelRequested>>

\* A report from a runner whose lease is over is acknowledged and ignored.
Finish(p, w, reported) ==
  /\ Leased(p) /\ worker[p] = w
  /\ reported \in {"succeeded", "failed"}
  /\ LET final == IF cancelRequested[p] THEN "canceled" ELSE reported IN
       /\ status' = [status EXCEPT ![p] = final]
       /\ job' = [job EXCEPT ![p] = Settled(job[p], final)]
  /\ lease' = [lease EXCEPT ![p] = 0]
  /\ UNCHANGED <<definition, worker, request, cancelRequested>>

-----------------------------------------------------------------------------
(* Users, the reaper and the clock.                                        *)

\* Canceling a pipeline that has ended changes nothing.
Cancel(p) ==
  /\ status[p] \in {"queued", "running"}
  /\ cancelRequested' = [cancelRequested EXCEPT ![p] = TRUE]
  /\ status' = [status EXCEPT ![p] = IF @ = "queued" THEN "canceled" ELSE @]
  /\ UNCHANGED <<definition, worker, request, lease, job>>

Expired == {p \in Pipelines : Running(p) /\ lease[p] = 0}

ReapedStatus(p) == IF cancelRequested[p] THEN "canceled" ELSE "failed"

\* Mutant: the reaper ends pipelines and forgets their jobs.
ReapLeavesJobs ==
  /\ Expired # {}
  /\ status' = [p \in Pipelines |->
                  IF p \in Expired THEN ReapedStatus(p) ELSE status[p]]
  /\ UNCHANGED <<definition, worker, request, lease, cancelRequested, job>>

\* One sweep ends every run whose lease is over.
Reap ==
  /\ Expired # {}
  /\ status' = [p \in Pipelines |->
                  IF p \in Expired THEN ReapedStatus(p) ELSE status[p]]
  /\ job' = [p \in Pipelines |->
               IF p \in Expired THEN Settled(job[p], ReapedStatus(p)) ELSE job[p]]
  /\ UNCHANGED <<definition, worker, request, lease, cancelRequested>>

Tick ==
  /\ \E p \in Pipelines : lease[p] > 0
  /\ lease' = [p \in Pipelines |-> IF lease[p] > 0 THEN lease[p] - 1 ELSE 0]
  /\ UNCHANGED <<definition, status, worker, request, cancelRequested, job>>

-----------------------------------------------------------------------------
SubmitStep ==
  \/ \E S \in SUBSET Pipelines : Enqueue(S)
  \/ \E p \in Pipelines : Submit(p) \/ \E q \in Pipelines : Rerun(q, p)

ClaimStep ==
  \E w \in Workers, r \in Requests \cup {NoRequest}, supports \in BOOLEAN,
     system \in Systems \cup {NoSystem} : ClaimFresh(w, r, system, supports)

ReportStep ==
  \E p \in Pipelines, w \in Workers :
    \/ Heartbeat(p, w)
    \/ CreateJobs(p, w)
    \/ \E j \in Jobs, s \in {"running", "succeeded", "failed"} :
         ReportJob(p, w, j, s)
    \/ \E s \in {"succeeded", "failed"} : Finish(p, w, s)

CancelStep == \E p \in Pipelines : Cancel(p)

Next == SubmitStep \/ ClaimStep \/ ReportStep \/ CancelStep \/ Reap \/ Tick

\* Time passes, and the coordinator sweeps every five seconds.
Fairness == WF_vars(Tick) /\ WF_vars(Reap)

Spec == Init /\ [][Next]_vars /\ Fairness

-----------------------------------------------------------------------------
(* Properties.                                                             *)

\* A runner that identifies its claims never holds two live leases, however its
\* heartbeats, lost answers and claims interleave with the clock: claim_inner's
\* busy check together with the rule that nothing revives an expired lease.
KeyedRunnerHoldsOneLease ==
  \A p, q \in Pipelines :
    /\ p # q
    /\ Leased(p) /\ Leased(q)
    /\ worker[p] = worker[q]
    => NoRequest \in {request[p], request[q]}

\* No job outlives its pipeline: once a pipeline has ended, by a report, by the
\* reaper or by a cancellation, no job of it is queued or running, and no late
\* report reopens one.
JobsSettleWithPipeline ==
  \A p \in Pipelines :
    (\E j \in Jobs : job[p][j] \in OpenJob) => Running(p)

\* The pipelines of a run group run in dependency order: when one was handed
\* out, every pipeline it needs had succeeded, and so, in turn, had theirs.
GroupRunsInDependencyOrder ==
  \A p \in Pipelines : definition[p].frozen /\ worker[p] # NoWorker =>
    \A q \in Upstream(p) : status[q] = "succeeded"

\* The queue implements the promise of PipelineLifecycle: at most one assignment,
\* terminal states are final, an accepted cancellation decides the result.
Lifecycle == INSTANCE PipelineLifecycle
  WITH Pipelines <- Pipelines, Workers <- Workers, NoWorker <- NoWorker,
       status <- status, worker <- worker, cancelRequested <- cancelRequested
ImplementsLifecycle == Lifecycle!Spec

\* A run that is canceled, or whose runner has gone, always ends: a heartbeat
\* cannot keep it, so its lease runs out and the reaper settles it.
AbandonedRunSettles ==
  \A p \in Pipelines :
    (Running(p) /\ (cancelRequested[p] \/ lease[p] = 0)) ~> status[p] \in Terminal
=============================================================================
