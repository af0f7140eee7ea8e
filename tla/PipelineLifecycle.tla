------------------------- MODULE PipelineLifecycle -------------------------
(***************************************************************************)
(* What the coordinator promises about one pipeline, whatever its runners  *)
(* do: it is queued once, handed to a runner at most once, and ends in     *)
(* exactly one of succeeded, failed or canceled; a runner that crashed     *)
(* makes it fail, never run again, and a cancellation that was accepted    *)
(* decides the result.  PipelineQueue is the detailed specification.       *)
(***************************************************************************)
CONSTANTS Pipelines,  \* the pipelines that can ever be submitted
          Workers,    \* runner identities
          NoWorker    \* worker_id IS NULL

VARIABLES status,          \* pipelines.status; "absent" before the insert
          worker,          \* pipelines.worker_id
          cancelRequested  \* pipelines.cancel_requested

vars == <<status, worker, cancelRequested>>

Terminal == {"succeeded", "failed", "canceled"}

Init == /\ status = [p \in Pipelines |-> "absent"]
        /\ worker = [p \in Pipelines |-> NoWorker]
        /\ cancelRequested = [p \in Pipelines |-> FALSE]

-----------------------------------------------------------------------------
Keeps(p) == /\ status'[p] = status[p]
            /\ worker'[p] = worker[p]
            /\ cancelRequested'[p] = cancelRequested[p]

Enters(p) == /\ status[p] = "absent"
             /\ status'[p] = "queued"
             /\ worker'[p] = NoWorker
             /\ ~ cancelRequested'[p]

\* The only step that names a worker starts from a queued, unowned pipeline.
IsAssigned(p) == /\ status[p] = "queued"
                 /\ worker[p] = NoWorker
                 /\ status'[p] = "running"
                 /\ worker'[p] \in Workers
                 /\ ~ cancelRequested'[p]

\* A queued pipeline ends without ever having had a worker.
EndsInQueue(p) == /\ status[p] = "queued"
                  /\ \/ status'[p] = "canceled" /\ cancelRequested'[p]
                     \/ status'[p] = "failed" /\ ~ cancelRequested'[p]
                  /\ worker'[p] = NoWorker

CancelIsAccepted(p) == /\ status[p] = "running"
                       /\ cancelRequested'[p]
                       /\ status'[p] = status[p]
                       /\ worker'[p] = worker[p]

EndsRunning(p) == /\ status[p] = "running"
                  /\ status'[p] \in Terminal
                  /\ status'[p] = "canceled" <=> cancelRequested[p]
                  /\ worker'[p] = worker[p]
                  /\ cancelRequested'[p] = cancelRequested[p]

\* One transaction may move several pipelines: the reaper ends every run whose
\* lease is over, and a claim fails dependents before it assigns a candidate.
Next == \A p \in Pipelines :
          \/ Keeps(p)
          \/ Enters(p)
          \/ IsAssigned(p)
          \/ EndsInQueue(p)
          \/ CancelIsAccepted(p)
          \/ EndsRunning(p)

Spec == Init /\ [][Next]_vars
=============================================================================
