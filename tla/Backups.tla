------------------------------- MODULE Backups -------------------------------
(* Snapshots of the local Lore server and their restores into offline      *)
(* folders.  The coordinator keeps a row per backup and per restore and a  *)
(* task for each that runs; the work is done by helper processes.  The     *)
(* helper of a snapshot stops the server, copies its data and starts it    *)
(* again, behind a lock file and a recovery record, and may outlive the    *)
(* coordinator; a coordinator that starts recovers what was interrupted.   *)
EXTENDS Naturals

CONSTANTS
  Snapshots,  \* identifiers of backups, all of the one local server
  Restores,   \* identifiers of restores
  Folders,    \* names of restore folders
  MaxMoves,   \* bound on the faults and on what operators do to the server
  None        \* no folder, no holder of the lock

ASSUME MovesAreBounded == MaxMoves \in Nat
ASSUME NoneIsNothing ==
  None \notin Snapshots \cup [by : Restores, whole : BOOLEAN] \cup {"boot"}
ASSUME BootIsNoSnapshot == "boot" \notin Snapshots

VARIABLES
  coordinator,  \* the coordinator process: down, starting in steps, or up
  server,       \* the container: does it run, was it started, did it stop well
  wanted,       \* do the operators want the server to run
  record,       \* .server-snapshot-recovery.json
  lock,         \* holder of .server-snapshot.lock
  backup,       \* repository_backups
  task,         \* the coordinator's task per backup
  helper,       \* the snapshot-server process per backup
  archive,      \* repository.tar.gz per backup
  restore,      \* repository_restores, and requests that were validated
  import,       \* the task and the process per restore
  folder,       \* the folders under restored/
  moves         \* faults and operator actions so far

catalog == <<backup, task, restore>>
disk == <<archive, import, folder>>
host == <<server, wanted, record, lock, helper>>
vars == <<coordinator, host, catalog, disk, moves>>

Init ==
  /\ coordinator = "up"
  /\ wanted \in BOOLEAN
  /\ server = [running |-> wanted, starts |-> 0, clean |-> TRUE]
  /\ record = FALSE
  /\ lock = None
  /\ backup = [b \in Snapshots |-> [status |-> "none", manifest |-> FALSE]]
  /\ task = [b \in Snapshots |-> "none"]
  /\ helper = [b \in Snapshots |->
       [phase |-> "none", was |-> FALSE, starts |-> 0, ok |-> FALSE, whole |-> FALSE]]
  /\ archive = [b \in Snapshots |-> "none"]
  /\ restore = [r \in Restores |-> [status |-> "none", backup |-> None, name |-> None]]
  /\ import = [r \in Restores |-> [task |-> FALSE, phase |-> "none"]]
  /\ folder = [f \in Folders |-> None]
  /\ moves = 0

\* A fault or an act of an operator: both are bounded.
Moved == moves < MaxMoves /\ moves' = moves + 1

-----------------------------------------------------------------------------
(* The helper process of a snapshot. *)

Free(b) == lock' = IF lock = b THEN None ELSE lock

Go(b, phase) == helper' = [helper EXCEPT ![b].phase = phase]

\* The process ends, and with it its lock.
Exit(b, phase) == Go(b, phase) /\ Free(b)

\* The server is inspected before the lock is taken: what is seen may be old.
Inspect(b) ==
  /\ helper[b].phase = "inspect"
  /\ helper' = [helper EXCEPT ![b] = [@ EXCEPT !.phase = "lock", !.was = server.running]]
  /\ UNCHANGED <<coordinator, server, wanted, record, lock, catalog, disk, moves>>

Acquire(b) ==
  /\ helper[b].phase = "lock"
  /\ IF lock = None /\ ~record
     THEN lock' = b /\ Go(b, IF helper[b].was THEN "record" ELSE "check")
     ELSE Go(b, "failed") /\ UNCHANGED lock
  /\ UNCHANGED <<coordinator, server, wanted, record, catalog, disk, moves>>

WriteRecord(b) ==
  /\ helper[b].phase = "record"
  /\ record' = TRUE
  /\ Go(b, "stop")
  /\ UNCHANGED <<coordinator, server, wanted, lock, catalog, disk, moves>>

\* docker stop: the server may have to be killed, then it stopped badly.
Stop(b) ==
  /\ helper[b].phase = "stop"
  /\ \/ server.running /\ \E clean \in BOOLEAN :
          server' = [server EXCEPT !.running = FALSE, !.clean = clean]
     \/ ~server.running /\ UNCHANGED server
  /\ Go(b, "check")
  /\ UNCHANGED <<coordinator, wanted, record, lock, catalog, disk, moves>>

CheckStopped(b) ==
  /\ helper[b].phase = "check"
  /\ helper' = [helper EXCEPT ![b] =
       IF ~server.running /\ server.clean
       THEN [@ EXCEPT !.phase = "copy", !.starts = server.starts, !.whole = TRUE]
       ELSE [@ EXCEPT !.phase = "resume", !.ok = FALSE]]
  /\ UNCHANGED <<coordinator, server, wanted, record, lock, catalog, disk, moves>>

\* Mutant: only whether the server runs is looked at after the copy.
CopiedStopped(b) ==
  /\ helper[b].phase = "copy"
  /\ helper' = [helper EXCEPT ![b] = [@ EXCEPT !.phase = "resume", !.ok = ~server.running]]
  /\ UNCHANGED <<coordinator, server, wanted, record, lock, catalog, disk, moves>>

\* The copy counts if the server was not started since it was found stopped.
Copied(b) ==
  /\ helper[b].phase = "copy"
  /\ helper' = [helper EXCEPT ![b] = [@ EXCEPT !.phase = "resume",
       !.ok = ~server.running /\ server.starts = helper[b].starts]]
  /\ UNCHANGED <<coordinator, server, wanted, record, lock, catalog, disk, moves>>

Started(s) == IF s.running THEN s ELSE [s EXCEPT !.running = TRUE, !.starts = @ + 1]

\* What follows once the server is as it was: the archive, or nothing.
Onward(b) == IF helper[b].ok THEN Go(b, "archive") /\ UNCHANGED lock ELSE Exit(b, "failed")

\* Mutant: the record goes before the server is started.
ResumeUnrecorded(b) ==
  /\ helper[b].phase = "resume"
  /\ record' = IF helper[b].was THEN FALSE ELSE record
  /\ IF helper[b].was THEN Go(b, "unlink") /\ UNCHANGED lock ELSE Onward(b)
  /\ UNCHANGED <<coordinator, server, wanted, catalog, disk, moves>>

Resume(b) ==
  /\ helper[b].phase = "resume"
  /\ IF helper[b].was
     THEN /\ server' = Started(server)
          /\ Go(b, "unlink")
          /\ UNCHANGED lock
     ELSE Onward(b) /\ UNCHANGED server
  /\ UNCHANGED <<coordinator, wanted, record, catalog, disk, moves>>

\* The record goes once the server was seen running.
Unlink(b) ==
  /\ helper[b].phase = "unlink"
  /\ IF server.running
     THEN record' = FALSE /\ Onward(b)
     ELSE Exit(b, "failed") /\ UNCHANGED record
  /\ UNCHANGED <<coordinator, server, wanted, catalog, disk, moves>>

Archive(b) ==
  /\ helper[b].phase = "archive"
  /\ archive' = [archive EXCEPT ![b] = IF helper[b].whole THEN "whole" ELSE "torn"]
  /\ Exit(b, "done")
  /\ UNCHANGED <<coordinator, server, wanted, record, catalog, import, folder, moves>>

\* A command fails or times out, or the process gets a SIGTERM: what it has
\* stopped it starts again.  A server that cannot be started stays recorded.
Stumble(b) ==
  /\ Moved
  /\ \/ /\ helper[b].phase \in {"stop", "check", "copy"}
        /\ helper' = [helper EXCEPT ![b] = [@ EXCEPT !.phase = "resume", !.ok = FALSE]]
        /\ UNCHANGED lock
     \/ /\ helper[b].phase \in {"inspect", "lock", "record", "resume", "unlink", "archive"}
        /\ Exit(b, "failed")
  /\ UNCHANGED <<coordinator, server, wanted, record, catalog, disk>>

Kill(b) ==
  /\ Moved /\ helper[b].phase \notin {"none", "done", "failed"}
  /\ Exit(b, "failed")
  /\ UNCHANGED <<coordinator, server, wanted, record, catalog, disk>>

-----------------------------------------------------------------------------
(* Backups in the coordinator. *)

\* repository_backups_active: one running backup of the server.
NoneRuns == \A b \in Snapshots : backup[b].status # "running"

CreateServer(b) ==
  /\ coordinator = "up" /\ backup[b].status = "none" /\ NoneRuns
  /\ backup' = [backup EXCEPT ![b].status = "running"]
  /\ task' = [task EXCEPT ![b] = "snapshot"]
  /\ Go(b, "inspect")
  /\ UNCHANGED <<coordinator, server, wanted, record, lock, restore, disk, moves>>

\* verify compares digests and entries: it finds rot, not a torn copy.
Intact(b) == archive[b] \in {"whole", "torn"}

Settle(b, status) ==
  /\ task' = [task EXCEPT ![b] = "none"]
  /\ backup' = [backup EXCEPT ![b].status = IF @ = "running" THEN status ELSE @]

\* Mutant: the name of the stage is written as the status.
PublishStage(b) ==
  /\ task[b] = "snapshot" /\ helper[b].phase = "done" /\ Intact(b)
  /\ task' = [task EXCEPT ![b] = "none"]
  /\ backup' = [backup EXCEPT ![b] =
       IF @.status = "running" THEN [status |-> "verified", manifest |-> TRUE] ELSE @]
  /\ UNCHANGED <<coordinator, host, restore, disk, moves>>

\* The archive of a snapshot that ended well is verified and recorded.
Publish(b) ==
  /\ task[b] = "snapshot" /\ helper[b].phase = "done" /\ Intact(b)
  /\ task' = [task EXCEPT ![b] = "none"]
  /\ backup' = [backup EXCEPT ![b] =
       IF @.status = "running" THEN [status |-> "succeeded", manifest |-> TRUE] ELSE @]
  /\ UNCHANGED <<coordinator, host, restore, disk, moves>>

Verify(b) ==
  /\ coordinator = "up" /\ backup[b].status \in {"succeeded", "failed"}
  /\ backup[b].manifest /\ NoneRuns
  /\ backup' = [backup EXCEPT ![b].status = "running"]
  /\ task' = [task EXCEPT ![b] = "verify"]
  /\ UNCHANGED <<coordinator, host, restore, disk, moves>>

Verified(b) ==
  /\ task[b] = "verify"
  /\ Settle(b, IF Intact(b) THEN "succeeded" ELSE "failed")
  /\ UNCHANGED <<coordinator, host, restore, disk, moves>>

\* The helper failed or found rot; or, as a fault, it took too long or the
\* requester is no administrator any more.  A snapshot's helper goes on, and
\* the row keeps running if it cannot be written either.
GiveUp(b) ==
  /\ \/ /\ task[b] = "snapshot"
        /\ helper[b].phase = "failed" \/ (helper[b].phase = "done" /\ ~Intact(b))
        /\ Settle(b, "failed")
        /\ UNCHANGED moves
     \/ /\ task[b] # "none" /\ Moved
        /\ Settle(b, "failed") \/ (task' = [task EXCEPT ![b] = "none"] /\ UNCHANGED backup)
  /\ UNCHANGED <<coordinator, host, restore, disk>>

-----------------------------------------------------------------------------
(* Restores. *)

\* repository_restores_active_target: one running restore per folder.
Busy(f) == \E r \in Restores : restore[r].status = "running" /\ restore[r].name = f

\* The request is validated before its row is inserted.
ValidateRestore(r, b, f) ==
  /\ coordinator = "up" /\ restore[r].status = "none"
  /\ backup[b].status = "succeeded" /\ folder[f] = None /\ ~Busy(f)
  /\ restore' = [restore EXCEPT ![r] = [status |-> "asked", backup |-> b, name |-> f]]
  /\ UNCHANGED <<coordinator, host, backup, task, disk, moves>>

Restore(r) ==
  /\ coordinator = "up" /\ restore[r].status = "asked"
  /\ IF Busy(restore[r].name)
     THEN restore' = [restore EXCEPT ![r].status = "refused"] /\ UNCHANGED import
     ELSE /\ restore' = [restore EXCEPT ![r].status = "running"]
          /\ import' = [import EXCEPT ![r] = [task |-> TRUE, phase |-> "check"]]
  /\ UNCHANGED <<coordinator, host, backup, task, archive, folder, moves>>

CheckArchive(r) ==
  /\ import[r].phase = "check"
  /\ import' = [import EXCEPT ![r].phase =
       IF Intact(restore[r].backup) THEN "reserve" ELSE "failed"]
  /\ UNCHANGED <<coordinator, host, catalog, archive, folder, moves>>

\* Mutant: a folder that exists is taken.
ReserveAny(r) ==
  /\ import[r].phase = "reserve"
  /\ folder' = [folder EXCEPT ![restore[r].name] = [by |-> r, whole |-> FALSE]]
  /\ import' = [import EXCEPT ![r].phase = "extract"]
  /\ UNCHANGED <<coordinator, host, catalog, archive, moves>>

\* The folder is made, never taken over, with a marker that it is incomplete.
Reserve(r) ==
  /\ import[r].phase = "reserve"
  /\ IF folder[restore[r].name] = None
     THEN /\ folder' = [folder EXCEPT ![restore[r].name] = [by |-> r, whole |-> FALSE]]
          /\ import' = [import EXCEPT ![r].phase = "extract"]
     ELSE import' = [import EXCEPT ![r].phase = "failed"] /\ UNCHANGED folder
  /\ UNCHANGED <<coordinator, host, catalog, archive, moves>>

\* What was extracted is verified once more before the marker goes.
Extract(r) ==
  /\ import[r].phase = "extract"
  /\ IF Intact(restore[r].backup)
     THEN /\ folder' = [folder EXCEPT ![restore[r].name].whole = TRUE]
          /\ import' = [import EXCEPT ![r].phase = "done"]
     ELSE import' = [import EXCEPT ![r].phase = "failed"] /\ UNCHANGED folder
  /\ UNCHANGED <<coordinator, host, catalog, archive, moves>>

FinishRestore(r) ==
  /\ import[r].task /\ import[r].phase = "done"
  /\ restore' = [restore EXCEPT ![r].status = IF @ = "running" THEN "succeeded" ELSE @]
  /\ import' = [import EXCEPT ![r].task = FALSE]
  /\ UNCHANGED <<coordinator, host, backup, task, archive, folder, moves>>

\* The helper failed; or it took too long and is killed with its task, or the
\* requester lost access.
FailRestore(r) ==
  /\ import[r].task
  /\ \/ import[r].phase = "failed" /\ UNCHANGED moves
     \/ import[r].phase # "failed" /\ Moved
  /\ restore' = [restore EXCEPT ![r].status = IF @ = "running" THEN "failed" ELSE @]
  /\ import' = [import EXCEPT ![r] = [task |-> FALSE, phase |-> "failed"]]
  /\ UNCHANGED <<coordinator, host, backup, task, archive, folder>>

-----------------------------------------------------------------------------
(* The coordinator stops and starts; helpers may outlive it. *)

Crash ==
  /\ Moved /\ coordinator = "up"
  /\ coordinator' = "down"
  /\ task' = [b \in Snapshots |-> "none"]
  /\ \E dead \in SUBSET Restores :
       import' = [r \in Restores |->
         [task |-> FALSE, phase |-> IF r \in dead THEN "failed" ELSE import[r].phase]]
  /\ restore' = [r \in Restores |->
       IF restore[r].status = "asked" THEN [restore[r] EXCEPT !.status = "refused"]
       ELSE restore[r]]
  /\ UNCHANGED <<host, backup, archive, folder>>

\* Mutant: a start that cannot recover the server goes on without it.
BootAnyway ==
  /\ coordinator = "down"
  /\ coordinator' = "settle"
  /\ UNCHANGED <<host, catalog, disk, moves>>

\* Without a record there is nothing to recover; with one its lock is needed,
\* and a start that finds it taken fails and is tried again.
Boot ==
  /\ coordinator = "down"
  /\ IF record
     THEN lock = None /\ lock' = "boot" /\ coordinator' = "recover"
     ELSE coordinator' = "settle" /\ UNCHANGED lock
  /\ UNCHANGED <<server, wanted, record, helper, catalog, disk, moves>>

RecoverServer ==
  /\ coordinator = "recover"
  /\ server' = Started(server)
  /\ coordinator' = "unlink"
  /\ UNCHANGED <<wanted, record, lock, helper, catalog, disk, moves>>

RecoverRecord ==
  /\ coordinator = "unlink"
  /\ IF server.running
     THEN record' = FALSE /\ coordinator' = "settle"
     ELSE coordinator' = "down" /\ UNCHANGED record
  /\ lock' = None
  /\ UNCHANGED <<server, wanted, helper, catalog, disk, moves>>

\* Whatever runs in the catalog was interrupted.
RecoverInterrupted ==
  /\ coordinator = "settle"
  /\ backup' = [b \in Snapshots |->
       IF backup[b].status = "running" THEN [backup[b] EXCEPT !.status = "failed"]
       ELSE backup[b]]
  /\ restore' = [r \in Restores |->
       IF restore[r].status = "running" THEN [restore[r] EXCEPT !.status = "failed"]
       ELSE restore[r]]
  /\ coordinator' = "up"
  /\ UNCHANGED <<host, task, disk, moves>>

FailBoot ==
  /\ Moved /\ coordinator \in {"recover", "unlink", "settle"}
  /\ coordinator' = "down"
  /\ lock' = IF lock = "boot" THEN None ELSE lock
  /\ UNCHANGED <<server, wanted, record, helper, catalog, disk>>

-----------------------------------------------------------------------------
(* Operators start and stop the server, and archives rot. *)

\* A copy that is under way is torn by a server that runs.
OperatorStart ==
  /\ Moved /\ ~server.running
  /\ server' = Started(server)
  /\ wanted' = TRUE
  /\ helper' = [b \in Snapshots |->
       IF helper[b].phase = "copy" THEN [helper[b] EXCEPT !.whole = FALSE] ELSE helper[b]]
  /\ UNCHANGED <<coordinator, record, lock, catalog, disk>>

OperatorStop ==
  /\ Moved /\ wanted
  /\ server' = [server EXCEPT !.running = FALSE]
  /\ wanted' = FALSE
  /\ UNCHANGED <<coordinator, record, lock, helper, catalog, disk>>

Rot(b) ==
  /\ Moved /\ archive[b] = "whole"
  /\ archive' = [archive EXCEPT ![b] = "rotten"]
  /\ UNCHANGED <<coordinator, host, catalog, import, folder>>

Help(b) ==
  \/ Inspect(b) \/ Acquire(b) \/ WriteRecord(b) \/ Stop(b) \/ CheckStopped(b)
  \/ Copied(b) \/ Resume(b) \/ Unlink(b) \/ Archive(b)

Start == Boot \/ RecoverServer \/ RecoverRecord \/ RecoverInterrupted

Work(b) == Publish(b) \/ Verified(b) \/ GiveUp(b)

Import(r) ==
  \/ Restore(r) \/ CheckArchive(r) \/ Reserve(r) \/ Extract(r) \/ FinishRestore(r)
  \/ FailRestore(r)

Next ==
  \/ \E b \in Snapshots :
       \/ Help(b) \/ Work(b) \/ CreateServer(b) \/ Verify(b)
       \/ Stumble(b) \/ Kill(b) \/ Rot(b)
       \/ \E r \in Restores, f \in Folders : ValidateRestore(r, b, f)
  \/ \E r \in Restores : Import(r)
  \/ Start \/ Crash \/ FailBoot \/ OperatorStart \/ OperatorStop

Spec == Init /\ [][Next]_vars

\* Processes that run go on, and the coordinator is started again whenever it
\* is down (Restart=on-failure in deploy/lorehub-api.service).
FairSpec == Spec /\ WF_vars(Start) /\ \A b \in Snapshots : WF_vars(Help(b)) /\ WF_vars(Work(b))

-----------------------------------------------------------------------------
(* Properties. *)

BackupTypeOK ==
  /\ coordinator \in {"down", "recover", "unlink", "settle", "up"}
  /\ server \in [running : BOOLEAN, starts : Nat, clean : BOOLEAN]
  /\ wanted \in BOOLEAN /\ record \in BOOLEAN
  /\ lock \in Snapshots \cup {"boot", None}
  /\ backup \in [Snapshots -> [status : {"none", "running", "succeeded", "failed"},
                               manifest : BOOLEAN]]
  /\ task \in [Snapshots -> {"none", "snapshot", "verify"}]
  /\ helper \in [Snapshots ->
       [phase : {"none", "inspect", "lock", "record", "stop", "check", "copy", "resume",
                 "unlink", "archive", "done", "failed"},
        was : BOOLEAN, starts : Nat, ok : BOOLEAN, whole : BOOLEAN]]
  /\ archive \in [Snapshots -> {"none", "whole", "torn", "rotten"}]
  /\ restore \in [Restores ->
       [status : {"none", "asked", "refused", "running", "succeeded", "failed"},
        backup : Snapshots \cup {None}, name : Folders \cup {None}]]
  /\ import \in [Restores -> [task : BOOLEAN,
       phase : {"none", "check", "reserve", "extract", "done", "failed"}]]
  /\ folder \in [Folders -> [by : Restores, whole : BOOLEAN] \cup {None}]
  /\ moves \in 0..MaxMoves

\* A server that operators want and that does not run is recorded, whichever
\* process died at whatever step: a coordinator that starts will find it.
StoppedServerIsRecorded == ~server.running /\ wanted => record

\* A backup that ever got a manifest was copied from a server that stayed
\* stopped from the check before the copy to the check after it.
SnapshotsAreWhole ==
  \A b \in Snapshots : backup[b].manifest => archive[b] \in {"whole", "rotten"}

\* A restore that succeeded owns its folder, and the folder is complete, also
\* with other restores of that name and processes of an earlier coordinator.
RestoredFoldersAreComplete ==
  \A r \in Restores : restore[r].status = "succeeded" =>
    folder[restore[r].name] = [by |-> r, whole |-> TRUE]

\* A server found stopped while the coordinator is down runs again, unless
\* operators stop it themselves.
ServerComesBack ==
  (coordinator = "down" /\ ~server.running /\ wanted) ~> (server.running \/ ~wanted)
=============================================================================
