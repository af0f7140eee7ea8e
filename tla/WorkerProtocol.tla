--------------------------- MODULE WorkerProtocol ---------------------------
(***************************************************************************)
(* A runner process (src/src/runner/worker.rs, client.rs) and the queue it *)
(* works for, with the network between them.  The process makes one call   *)
(* at a time from its main task and one from its heartbeat task.  A call   *)
(* whose time limit passes is given up, yet its request may still be       *)
(* served, later than calls that were made after it.  The process may die  *)
(* at any moment and start again under the same runner identity.           *)
(***************************************************************************)
EXTENDS PipelineQueue, FiniteSets

CONSTANTS NoPipeline, NoJob,
          Capacity,        \* bound: requests in the network at one time
          FinishAttempts,  \* attempts of post_retryable; 4 in the code
          MaxMisses        \* heartbeats missed in a row; 3 in the code

ASSUME ProtocolAssumption ==
  /\ NoPipeline \notin Pipelines /\ NoJob \notin Jobs
  /\ IsFiniteSet(Workers)
  /\ Capacity \in Nat \ {0} /\ FinishAttempts \in Nat \ {0}
  /\ MaxMisses \in Nat \ {0}

VARIABLES proc,    \* the local state of the process of each runner
          call,    \* the call each task of it is waiting for
          wire,    \* requests that may still be served
          unused,  \* claim request identities not yet drawn
          taken,   \* history: how often each pipeline was executed, to 2
          ran,     \* history: how often each job's script was started, to 2
          passed   \* history: jobs whose script exited with code 0

protocol == <<proc, call, wire, unused, taken, ran, passed>>
queue == <<definition, status, worker, request, lease, cancelRequested, job>>
allVars == <<definition, status, worker, request, lease, cancelRequested, job,
             proc, call, wire, unused, taken, ran, passed>>

Tasks == {"main", "beat"}
CallIds == 1..(Capacity + 2 * Cardinality(Workers))
Idle == [id |-> 0, answer |-> "none", given |-> NoPipeline]

Phases == {"down", "claim", "create", "choose", "announce", "shell", "report",
           "finish"}

Down == [phase |-> "down", request |-> NoRequest, held |-> NoPipeline,
         left |-> {}, current |-> NoJob, outcome |-> "failed", tries |-> 0,
         cancelled |-> FALSE, beating |-> FALSE, misses |-> 0, stopping |-> FALSE]

ProcType ==
  [phase : Phases, request : Requests \cup {NoRequest},
   held : Pipelines \cup {NoPipeline}, left : SUBSET Jobs,
   current : Jobs \cup {NoJob}, outcome : {"succeeded", "failed"},
   tries : 0..(FinishAttempts - 1), cancelled : BOOLEAN, beating : BOOLEAN,
   misses : 0..(MaxMisses - 1), stopping : BOOLEAN]

CallType ==
  [id : {0} \cup CallIds, answer : {"none", "ok", "no"},
   given : Pipelines \cup {NoPipeline}]

RequestType ==
  [id : CallIds, w : Workers, task : Tasks,
   op : {"claim", "beat", "create", "job", "finish"},
   request : Requests \cup {NoRequest}, p : Pipelines \cup {NoPipeline},
   job : Jobs \cup {NoJob}, status : {"none", "running", "succeeded", "failed"}]

ProtocolTypeOK ==
  /\ TypeOK
  /\ proc \in [Workers -> ProcType]
  /\ call \in [Workers -> [Tasks -> CallType]]
  /\ wire \subseteq RequestType /\ Cardinality(wire) <= Capacity
  /\ unused \in SUBSET Requests
  /\ taken \in [Pipelines -> 0..2]
  /\ ran \in [Pipelines -> [Jobs -> 0..2]]
  /\ passed \in [Pipelines -> SUBSET Jobs]

ProtocolInit ==
  /\ Init
  /\ proc = [w \in Workers |-> Down]
  /\ call = [w \in Workers |-> [t \in Tasks |-> Idle]]
  /\ wire = {}
  /\ unused = Requests
  /\ taken = [p \in Pipelines |-> 0]
  /\ ran = [p \in Pipelines |-> [j \in Jobs |-> 0]]
  /\ passed = [p \in Pipelines |-> {}]

-----------------------------------------------------------------------------
(* Calls.                                                                  *)

IdsInUse == {m.id : m \in wire}
              \cup {call[w][t].id : w \in Workers, t \in Tasks}

Waiting(w, t) == call[w][t].id # 0

\* Put a request on the wire and wait for its answer.
Send(w, t, op, what) ==
  /\ ~ Waiting(w, t)
  /\ Cardinality(wire) < Capacity
  /\ LET id == CHOOSE i \in CallIds : i \notin IdsInUse IN
       /\ wire' = wire \cup {[id |-> id, w |-> w, task |-> t, op |-> op,
                              request |-> proc[w].request, p |-> proc[w].held,
                              job |-> proc[w].current, status |-> what]}
       /\ call' = [call EXCEPT ![w][t] = [Idle EXCEPT !.id = id]]

Answered(w, t, answer) ==
  /\ call[w][t].answer = answer
  /\ call' = [call EXCEPT ![w][t] = Idle]

\* The time limit passes, or the connection breaks, with or without the answer
\* on its way.
GivesUp(w, t) ==
  /\ Waiting(w, t)
  /\ call' = [call EXCEPT ![w][t] = Idle]

\* The coordinator serves a request, once; the answer reaches only a caller that
\* still waits for it.
Reply(m, answer, given) ==
  /\ wire' = wire \ {m}
  /\ call' = IF call[m.w][m.task].id # m.id THEN call
             ELSE [call EXCEPT ![m.w][m.task] =
                     [id |-> m.id, answer |-> answer, given |-> given]]

Lose(m) == wire' = wire \ {m} /\ UNCHANGED <<queue, proc, call, unused, taken, ran, passed>>

-----------------------------------------------------------------------------
(* The coordinator's handlers.                                             *)

TheOne(S) == IF S = {} THEN NoPipeline ELSE CHOOSE p \in S : TRUE

ServeClaim(m) ==
  /\ m.op = "claim"
  /\ IF Assigned(m.w, m.request) # {}
       THEN /\ Reply(m, "ok", TheOne(Replay(m.w, m.request, TRUE)))
            /\ UNCHANGED queue
       ELSE \/ /\ \E system \in Systems : ClaimFresh(m.w, m.request, system, TRUE)
               /\ Reply(m, "ok", TheOne({p \in Pipelines : worker'[p] = m.w
                                                 /\ request'[p] = m.request}))
            \/ /\ Busy(m.w)
               /\ Reply(m, "ok", NoPipeline)
               /\ UNCHANGED queue

ServeBeat(m) ==
  /\ m.op = "beat"
  /\ \/ Heartbeat(m.p, m.w) /\ Reply(m, "ok", NoPipeline)
     \/ ~ Active(m.p, m.w) /\ Reply(m, "no", NoPipeline) /\ UNCHANGED queue

ServeCreate(m) ==
  /\ m.op = "create"
  /\ \/ CreateJobs(m.p, m.w) /\ Reply(m, "ok", NoPipeline)
     \/ /\ ~ Active(m.p, m.w) \/ \E j \in Jobs : job[m.p][j] # "none"
        /\ Reply(m, "no", NoPipeline) /\ UNCHANGED queue

ServeJob(m) ==
  /\ m.op = "job"
  /\ \/ ReportJob(m.p, m.w, m.job, m.status) /\ Reply(m, "ok", NoPipeline)
     \/ ~ Active(m.p, m.w) /\ Reply(m, "no", NoPipeline) /\ UNCHANGED queue

ServeFinish(m) ==
  /\ m.op = "finish"
  /\ Reply(m, "ok", NoPipeline)
  /\ \/ Finish(m.p, m.w, m.status)
     \/ ~ (Leased(m.p) /\ worker[m.p] = m.w) /\ UNCHANGED queue

Serve(m) ==
  /\ ServeClaim(m) \/ ServeBeat(m) \/ ServeCreate(m) \/ ServeJob(m) \/ ServeFinish(m)
  /\ UNCHANGED <<proc, unused, taken, ran, passed>>

-----------------------------------------------------------------------------
(* The main task of the process.                                           *)

Becomes(w, new) == proc' = [proc EXCEPT ![w] = new]

\* Uuid::new_v4(): an identity that nothing has used.
Draw(r) == r \in unused /\ unused' = unused \ {r}

Start(w, r) ==
  /\ proc[w].phase = "down"
  /\ Draw(r)
  /\ Becomes(w, [Down EXCEPT !.phase = "claim", !.request = r])
  /\ UNCHANGED <<queue, call, wire, taken, ran, passed>>

\* Every call of the main task, by the phase it is in.
MainSends(w) ==
  /\ LET me == proc[w] IN
       \/ me.phase = "claim" /\ Send(w, "main", "claim", "none")
       \/ me.phase = "create" /\ Send(w, "main", "create", "none")
       \/ me.phase = "announce" /\ Send(w, "main", "job", "running")
       \/ me.phase = "report" /\ Send(w, "main", "job", me.outcome)
       \/ me.phase = "finish" /\ Send(w, "main", "finish", me.outcome)
  /\ UNCHANGED <<queue, proc, unused, taken, ran, passed>>

\* What a history counts, to 2.
Once(count, x) == [y \in DOMAIN count |->
                     IF y = x /\ count[y] < 2 THEN count[y] + 1 ELSE count[y]]

\* Any answer ends the use of the request identity; a pipeline is executed.
ClaimAnswered(w, r) ==
  /\ proc[w].phase = "claim" /\ Answered(w, "main", "ok")
  /\ Draw(r)
  /\ LET p == call[w]["main"].given IN
       Becomes(w, IF p = NoPipeline THEN [proc[w] EXCEPT !.request = r]
                  ELSE [Down EXCEPT !.phase = "create", !.request = r, !.held = p,
                                    !.left = definition[p].jobs, !.beating = TRUE])
  /\ taken' = Once(taken, call[w]["main"].given)
  /\ UNCHANGED <<queue, wire, ran, passed>>

Failed(me) == [me EXCEPT !.phase = "finish", !.outcome = "failed", !.tries = 0]

\* Token, clone, configuration: anything before create_jobs may fail.
PrepareFails(w) ==
  /\ proc[w].phase = "create" /\ ~ Waiting(w, "main")
  /\ Becomes(w, Failed(proc[w]))
  /\ UNCHANGED <<queue, call, wire, unused, taken, ran, passed>>

CreateAnswered(w) ==
  /\ proc[w].phase = "create"
  /\ \/ Answered(w, "main", "ok") /\ Becomes(w, [proc[w] EXCEPT !.phase = "choose"])
     \/ Answered(w, "main", "no") /\ Becomes(w, Failed(proc[w]))
  /\ UNCHANGED <<queue, wire, unused, taken, ran, passed>>

\* run_jobs, one job at a time: JobScheduler has the concurrent tasks.
Choose(w) ==
  /\ proc[w].phase = "choose"
  /\ LET me == proc[w] IN
       \/ me.cancelled /\ Becomes(w, Failed(me))
       \/ /\ ~ me.cancelled
          /\ \E j \in me.left :
               Becomes(w, [me EXCEPT !.phase = "announce", !.current = j])
       \/ /\ ~ me.cancelled /\ me.left = {}
          /\ Becomes(w, [me EXCEPT !.phase = "finish", !.outcome = "succeeded"])
  /\ UNCHANGED <<queue, call, wire, unused, taken, ran, passed>>

\* The script starts once the job is announced, unless the token is canceled.
AnnounceAnswered(w) ==
  /\ proc[w].phase = "announce"
  /\ LET me == proc[w] IN
       \/ /\ Answered(w, "main", "ok") /\ ~ me.cancelled
          /\ Becomes(w, [me EXCEPT !.phase = "shell"])
          /\ ran' = [ran EXCEPT ![me.held] = Once(@, me.current)]
       \/ /\ Answered(w, "main", "no") \/ (Answered(w, "main", "ok") /\ me.cancelled)
          /\ Becomes(w, Failed(me)) /\ UNCHANGED ran
  /\ UNCHANGED <<queue, wire, unused, taken, passed>>

ShellEnds(w) ==
  /\ proc[w].phase = "shell"
  /\ LET me == proc[w] IN
       \/ /\ Becomes(w, [me EXCEPT !.phase = "report", !.outcome = "succeeded"])
          /\ passed' = [passed EXCEPT ![me.held] = @ \cup {me.current}]
       \/ /\ Becomes(w, [me EXCEPT !.phase = "report", !.outcome = "failed"])
          /\ UNCHANGED passed
       \/ Becomes(w, Failed(me)) /\ UNCHANGED passed
  /\ UNCHANGED <<queue, call, wire, unused, taken, ran>>

ReportAnswered(w) ==
  /\ proc[w].phase = "report"
  /\ LET me == proc[w] IN
       \/ /\ Answered(w, "main", "ok") /\ me.outcome = "succeeded"
          /\ Becomes(w, [me EXCEPT !.phase = "choose", !.left = @ \ {me.current},
                                   !.current = NoJob])
       \/ /\ Answered(w, "main", "no") \/ (Answered(w, "main", "ok") /\ me.outcome = "failed")
          /\ Becomes(w, Failed(me))
  /\ UNCHANGED <<queue, wire, unused, taken, ran, passed>>

\* The pipeline is let go of when its heartbeat task has ended, whether or not
\* the report was acknowledged; a process that is to stop claims no more.
LetGo(w) ==
  /\ ~ Waiting(w, "beat")
  /\ Becomes(w, IF proc[w].stopping THEN Down
                ELSE [Down EXCEPT !.phase = "claim", !.request = proc[w].request])

FinishAnswered(w) ==
  /\ proc[w].phase = "finish" /\ Answered(w, "main", "ok")
  /\ LetGo(w)
  /\ UNCHANGED <<queue, wire, unused, taken, ran, passed>>

\* Mutant: the status of a job is reported again when no answer came.
MainGivesUpRetryingJobs(w) ==
  /\ GivesUp(w, "main")
  /\ LET me == proc[w] IN
       \/ me.phase \in {"claim", "announce", "report"} /\ UNCHANGED proc
       \/ me.phase = "create" /\ Becomes(w, Failed(me))
       \/ /\ me.phase = "finish" /\ me.tries + 1 < FinishAttempts
          /\ Becomes(w, [me EXCEPT !.tries = @ + 1])
       \/ me.phase = "finish" /\ me.tries + 1 = FinishAttempts /\ LetGo(w)
  /\ UNCHANGED <<queue, wire, unused, taken, ran, passed>>

\* Mutant: a job whose report got no answer is run again.
MainGivesUpRerunningJob(w) ==
  /\ GivesUp(w, "main")
  /\ LET me == proc[w] IN
       \/ me.phase = "claim" /\ UNCHANGED proc
       \/ /\ me.phase \in {"announce", "report"}
          /\ Becomes(w, [me EXCEPT !.phase = "choose"])
       \/ me.phase = "create" /\ Becomes(w, Failed(me))
       \/ /\ me.phase = "finish" /\ me.tries + 1 < FinishAttempts
          /\ Becomes(w, [me EXCEPT !.tries = @ + 1])
       \/ me.phase = "finish" /\ me.tries + 1 = FinishAttempts /\ LetGo(w)
  /\ UNCHANGED <<queue, wire, unused, taken, ran, passed>>

\* Only claims, with the same identity, and the final report are made again.
MainGivesUp(w) ==
  /\ GivesUp(w, "main")
  /\ LET me == proc[w] IN
       \/ me.phase = "claim" /\ UNCHANGED proc
       \/ me.phase \in {"create", "announce", "report"} /\ Becomes(w, Failed(me))
       \/ /\ me.phase = "finish" /\ me.tries + 1 < FinishAttempts
          /\ Becomes(w, [me EXCEPT !.tries = @ + 1])
       \/ me.phase = "finish" /\ me.tries + 1 = FinishAttempts /\ LetGo(w)
  /\ UNCHANGED <<queue, wire, unused, taken, ran, passed>>

-----------------------------------------------------------------------------
(* The heartbeat task, and what happens to the process.                    *)

BeatSends(w) ==
  /\ proc[w].beating
  /\ Send(w, "beat", "beat", "none")
  /\ UNCHANGED <<queue, proc, unused, taken, ran, passed>>

\* A refused heartbeat, or too many without an answer, cancels the execution.
Cancels(me) == [me EXCEPT !.cancelled = TRUE, !.beating = FALSE]

\* Mutant: one more miss is tolerated.
BeatEndsLate(w) ==
  /\ LET me == proc[w] IN
       \/ Answered(w, "beat", "ok") /\ Becomes(w, [me EXCEPT !.misses = 0])
       \/ Answered(w, "beat", "no") /\ Becomes(w, Cancels(me))
       \/ /\ GivesUp(w, "beat")
          /\ Becomes(w, IF me.misses + 1 <= MaxMisses
                          THEN [me EXCEPT !.misses = @ + 1] ELSE Cancels(me))
  /\ UNCHANGED <<queue, wire, unused, taken, ran, passed>>

BeatEnds(w) ==
  /\ LET me == proc[w] IN
       \/ Answered(w, "beat", "ok") /\ Becomes(w, [me EXCEPT !.misses = 0])
       \/ Answered(w, "beat", "no") /\ Becomes(w, Cancels(me))
       \/ /\ GivesUp(w, "beat")
          /\ Becomes(w, IF me.misses + 1 < MaxMisses
                          THEN [me EXCEPT !.misses = @ + 1] ELSE Cancels(me))
  /\ UNCHANGED <<queue, wire, unused, taken, ran, passed>>

\* A shutdown drops the claim that is under way, or cancels the execution.
Stop(w) ==
  /\ proc[w].phase # "down" /\ ~ proc[w].stopping
  /\ IF proc[w].phase = "claim"
       THEN /\ Becomes(w, Down)
            /\ call' = [call EXCEPT ![w] = [t \in Tasks |-> Idle]]
       ELSE /\ Becomes(w, [proc[w] EXCEPT !.stopping = TRUE, !.cancelled = TRUE])
            /\ UNCHANGED call
  /\ UNCHANGED <<queue, wire, unused, taken, ran, passed>>

Crash(w) ==
  /\ proc[w].phase # "down"
  /\ Becomes(w, Down)
  /\ call' = [call EXCEPT ![w] = [t \in Tasks |-> Idle]]
  /\ UNCHANGED <<queue, wire, unused, taken, ran, passed>>

-----------------------------------------------------------------------------
ProcStep(w) ==
  \/ \E r \in Requests : Start(w, r) \/ ClaimAnswered(w, r)
  \/ MainSends(w) \/ PrepareFails(w) \/ CreateAnswered(w) \/ Choose(w)
  \/ AnnounceAnswered(w) \/ ShellEnds(w) \/ ReportAnswered(w)
  \/ FinishAnswered(w) \/ MainGivesUp(w)
  \/ BeatSends(w) \/ BeatEnds(w) \/ Stop(w) \/ Crash(w)

ProtocolNext ==
  \/ \E w \in Workers : ProcStep(w)
  \/ \E m \in wire : Serve(m) \/ Lose(m)
  \/ (SubmitStep \/ CancelStep \/ Reap \/ Tick) /\ UNCHANGED protocol

ProtocolSpec == ProtocolInit /\ [][ProtocolNext]_allVars

-----------------------------------------------------------------------------
(* Properties.                                                             *)

\* A pipeline is executed and a script, which has side effects, is started at
\* most once: neither a lost answer to a claim, nor a report without
\* acknowledgement, nor a restart makes a runner start it again.
ExecutesAtMostOnce ==
  \A p \in Pipelines : taken[p] < 2 /\ \A j \in Jobs : ran[p][j] < 2

\* A pipeline that succeeded ran the script of every job to exit code 0, and no
\* late request has left one of its jobs in another state.
SuccessIsEarned ==
  \A p \in Pipelines : status[p] = "succeeded" =>
    \A j \in definition[p].jobs : j \in passed[p] /\ job[p][j] = "succeeded"
=============================================================================
