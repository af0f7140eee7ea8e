---------------------------- MODULE JobScheduler ----------------------------
(***************************************************************************)
(* How a runner executes the jobs of one pipeline: the scheduler loop      *)
(* run_jobs (src/src/runner/scheduler.rs), the task it spawns for a job    *)
(* (worker.rs) and the process tree that task waits for (executor.rs).     *)
(* The tasks run concurrently with the loop and with whoever cancels it:   *)
(* a user, a lost lease or a shutdown.                                     *)
(***************************************************************************)
EXTENDS Naturals, FiniteSets

CONSTANTS Jobs,       \* positions in config.jobs, in validated order
          LastStage,  \* config.stages is 1..LastStage
          Configs     \* the configurations to run

ConfigType == [stage : [Jobs -> 1..LastStage], needs : [Jobs -> SUBSET Jobs],
               parallel : 1..16]

\* PipelineConfig::validate accepts only these, and orders the jobs so that
\* every job comes after those it needs (DependencyOrder.tla).
Validated(c) == \A j \in Jobs : \A k \in c.needs[j] :
                   k < j /\ c.stage[k] <= c.stage[j]

ASSUME ScheduleAssumption ==
  /\ Jobs \subseteq Nat /\ IsFiniteSet(Jobs)
  /\ LastStage \in Nat
  /\ Configs \subseteq ConfigType
  /\ \A c \in Configs : Validated(c)

VARIABLES config,         \* the pipeline's configuration
          stage,          \* the stage the loop is in; LastStage + 1 when past all
          control,        \* where run_jobs is
          started,        \* started[index]
          running,        \* the JoinSet: spawned and not yet joined
          completed,      \* jobs whose success has been joined
          task,           \* how far the task of each job is
          cancel,         \* the pipeline's cancellation token
          runningCancel,  \* its child, which the tasks watch
          result          \* what run_jobs returns

vars == <<config, stage, control, started, running, completed, task, cancel,
          runningCancel, result>>

Ended == {"ok", "error"}
TaskState == {"none", "spawned", "announced", "shell", "exit0", "exit1"} \cup Ended

TypeOK ==
  /\ config \in Configs
  /\ stage \in 1..(LastStage + 1)
  /\ control \in {"schedule", "join", "drain", "returned"}
  /\ started \in SUBSET Jobs /\ running \in SUBSET Jobs
  /\ completed \in SUBSET Jobs
  /\ task \in [Jobs -> TaskState]
  /\ cancel \in BOOLEAN /\ runningCancel \in BOOLEAN
  /\ result \in {"none"} \cup Ended

Init ==
  /\ config \in Configs
  /\ stage = 1 /\ control = "schedule"
  /\ started = {} /\ running = {} /\ completed = {}
  /\ task = [j \in Jobs |-> "none"]
  /\ cancel \in BOOLEAN /\ runningCancel = cancel
  /\ result = "none"

-----------------------------------------------------------------------------
(* The scheduler loop.                                                     *)

StageJobs == {j \in Jobs : config.stage[j] = stage}

\* Mutant: a stage starts all its jobs at once.
ReadyWithoutNeeds == StageJobs \ started

Ready == {j \in StageJobs \ started : config.needs[j] \subseteq completed}

\* Mutant: every pass of the loop may fill the limit anew.
IsBatchAnew(B) ==
  /\ B \subseteq Ready
  /\ \A j \in B, k \in Ready \ B : j < k
  /\ Cardinality(B) <= config.parallel
  /\ B = Ready \/ Cardinality(B) = config.parallel

\* The loop takes ready jobs in order until the set of running jobs is full.
IsBatch(B) ==
  /\ B \subseteq Ready
  /\ \A j \in B, k \in Ready \ B : j < k
  /\ Cardinality(running) + Cardinality(B) <= config.parallel
  /\ B = Ready \/ Cardinality(running) + Cardinality(B) = config.parallel

\* Mutant: the error is returned at once.
FailAtOnce == /\ result' = "error"
              /\ runningCancel' = TRUE
              /\ control' = "returned"

\* Leaving the loop with an error cancels the tasks and waits for them.
Fail == /\ result' = "error"
        /\ runningCancel' = TRUE
        /\ control' = "drain"

ObserveCancel ==
  /\ \/ control = "schedule" /\ stage <= LastStage
     \/ control = "join"
  /\ cancel
  /\ Fail
  /\ UNCHANGED <<config, stage, started, running, completed, task, cancel>>

Launch(B) ==
  /\ control = "schedule" /\ stage <= LastStage /\ ~ cancel
  /\ IsBatch(B)
  /\ running \cup B # {}
  /\ control' = "join"
  /\ started' = started \cup B
  /\ running' = running \cup B
  /\ task' = [j \in Jobs |-> IF j \in B THEN "spawned" ELSE task[j]]
  /\ UNCHANGED <<config, stage, completed, cancel, runningCancel, result>>

\* Mutant: the loop over the stages goes one too far.
StageOverShoots ==
  /\ control = "schedule" /\ ~ cancel
  /\ running = {} /\ IsBatch({})
  /\ IF StageJobs \subseteq started
       THEN stage' = stage + 1 /\ UNCHANGED <<control, runningCancel, result>>
       ELSE Fail /\ UNCHANGED stage
  /\ UNCHANGED <<config, started, running, completed, task, cancel>>

\* Nothing runs and nothing can be started: the stage is over, unless a job of
\* it was never started ("job dependencies cannot make progress").
StageOver ==
  /\ control = "schedule" /\ stage <= LastStage /\ ~ cancel
  /\ running = {} /\ IsBatch({})
  /\ IF StageJobs \subseteq started
       THEN stage' = stage + 1 /\ UNCHANGED <<control, runningCancel, result>>
       ELSE Fail /\ UNCHANGED stage
  /\ UNCHANGED <<config, started, running, completed, task, cancel>>

AllStagesOver ==
  /\ control = "schedule" /\ stage = LastStage + 1
  /\ control' = "returned" /\ result' = "ok"
  /\ UNCHANGED <<config, stage, started, running, completed, task, cancel,
                 runningCancel>>

\* Mutant: the name of the job that succeeded is not recorded.
JoinForgets(j) ==
  /\ control = "join" /\ ~ cancel
  /\ j \in running /\ task[j] \in Ended
  /\ running' = running \ {j}
  /\ IF task[j] = "ok"
       THEN control' = "schedule" /\ UNCHANGED <<completed, runningCancel, result>>
       ELSE Fail /\ UNCHANGED completed
  /\ UNCHANGED <<config, stage, started, task, cancel>>

\* select! is biased: a cancellation that has happened is seen first.
Join(j) ==
  /\ control = "join" /\ ~ cancel
  /\ j \in running /\ task[j] \in Ended
  /\ running' = running \ {j}
  /\ IF task[j] = "ok"
       THEN /\ control' = "schedule" /\ completed' = completed \cup {j}
            /\ UNCHANGED <<runningCancel, result>>
       ELSE Fail /\ UNCHANGED completed
  /\ UNCHANGED <<config, stage, started, task, cancel>>

Drain ==
  /\ control = "drain"
  /\ \/ \E j \in running : /\ task[j] \in Ended
                           /\ running' = running \ {j}
                           /\ UNCHANGED control
     \/ running = {} /\ control' = "returned" /\ UNCHANGED running
  /\ UNCHANGED <<config, stage, started, completed, task, cancel, runningCancel,
                 result>>

-----------------------------------------------------------------------------
(* The task of a job.  Any call of it to the coordinator may fail.         *)

Goes(j, from, to) ==
  /\ task[j] = from
  /\ task' = [task EXCEPT ![j] = to]
  /\ UNCHANGED <<config, stage, control, started, running, completed, cancel,
                 runningCancel, result>>

\* The token is looked at before the job is announced and before it is run.
Announce(j) == Goes(j, "spawned", "announced") /\ ~ runningCancel

StartShell(j) == Goes(j, "announced", "shell") /\ ~ runningCancel

GiveUp(j) == Goes(j, "spawned", "error") \/ Goes(j, "announced", "error")

ShellExits(j) == Goes(j, "shell", "exit0") \/ Goes(j, "shell", "exit1")

\* Mutant: a shell has no time limit.
KilledWhenCanceled(j) == Goes(j, "shell", "error") /\ runningCancel

\* The token, the time limit or a failed log call ends the process tree.
Killed(j) == Goes(j, "shell", "error")

Report(j) == \/ Goes(j, "exit0", "ok")
             \/ Goes(j, "exit0", "error")
             \/ Goes(j, "exit1", "error")

-----------------------------------------------------------------------------
Cancel == /\ ~ cancel /\ control # "returned"
          /\ cancel' = TRUE /\ runningCancel' = TRUE
          /\ UNCHANGED <<config, stage, control, started, running, completed,
                         task, result>>

Loop == \/ ObserveCancel
        \/ \E B \in SUBSET Jobs : Launch(B)
        \/ StageOver
        \/ AllStagesOver
        \/ \E j \in Jobs : Join(j)
        \/ Drain

TaskStep(j) == \/ Announce(j) \/ StartShell(j) \/ GiveUp(j)
               \/ ShellExits(j) \/ Killed(j) \/ Report(j)

Next == Loop \/ (\E j \in Jobs : TaskStep(j)) \/ Cancel

\* The runtime polls the loop and the tasks, calls have time limits and so has
\* a shell; a script need not exit on its own, nobody need cancel.
Fairness ==
  /\ WF_vars(Loop)
  /\ \A j \in Jobs : /\ WF_vars(Announce(j) \/ StartShell(j) \/ GiveUp(j))
                     /\ WF_vars(Killed(j))
                     /\ WF_vars(Report(j))

Spec == Init /\ [][Next]_vars /\ Fairness

-----------------------------------------------------------------------------
(* Properties.                                                             *)

\* max_parallel_jobs bounds the process trees that exist at one time, whatever
\* ends first and however late the loop notices.
ParallelismIsBounded ==
  Cardinality({j \in Jobs : task[j] = "shell"}) <= config.parallel

\* A job begins only when every job of the earlier stages and every job it
\* needs has succeeded, even while some of them race with a failure.
BeginsAfterPrerequisites ==
  \A j, k \in Jobs :
    /\ task[j] # "none"
    /\ \/ config.stage[k] < config.stage[j]
       \/ k \in config.needs[j]
    => task[k] = "ok"

\* When run_jobs has returned, no process tree of the pipeline is left to write
\* to the checkout that is deleted next, or to be reported as finished.
NoShellOutlivesRun ==
  control = "returned" => \A j \in Jobs : task[j] \in {"none"} \cup Ended

\* A pipeline succeeds exactly when all its jobs did; it fails only if a job
\* did or it was canceled, never because "job dependencies cannot make progress".
ResultIsEarned ==
  /\ result = "ok" => \A j \in Jobs : task[j] = "ok"
  /\ result = "error" => cancel \/ \E j \in Jobs : task[j] = "error"

\* run_jobs returns, whatever scripts do.
Returns == <>(control = "returned")
=============================================================================
