----------------------------- MODULE BackupsProofs -----------------------------
(***************************************************************************)
(* Proofs about Backups, for any snapshots, restores, folders and bound on *)
(* the faults and on what operators do.                                    *)
(***************************************************************************)
EXTENDS Backups, TLAPS

Holding == {"record", "stop", "check", "copy", "resume", "unlink", "archive"}
Importing == {"check", "reserve", "extract", "done"}

\* Who works on the server holds the lock, and stops it only when recorded.
LocksHeld ==
  /\ \A b \in Snapshots :
       /\ helper[b].phase \in Holding => lock = b
       /\ helper[b].phase = "stop" => record
  /\ coordinator \in {"recover", "unlink"} => lock = "boot"

\* A copy that is torn has seen a later start of the server than its own.
CopiesAreWhole ==
  \A b \in Snapshots :
    /\ helper[b].phase = "copy" =>
         /\ helper[b].starts <= server.starts
         /\ helper[b].whole \/ helper[b].starts < server.starts
    /\ helper[b].phase \in {"resume", "unlink"} /\ helper[b].ok => helper[b].whole
    /\ helper[b].phase = "archive" => helper[b].whole
    /\ archive[b] # "torn"
    /\ backup[b].manifest => archive[b] # "none"

\* Whoever extracts has made the folder itself.
FoldersAreOwned ==
  \A r \in Restores :
    LET f == restore[r].name IN
    /\ restore[r].status \in {"none", "asked", "refused"} => import[r].phase \notin Importing
    /\ restore[r].status \in {"asked", "running", "succeeded"} => f \in Folders
    /\ import[r].phase \in Importing => f \in Folders
    /\ import[r].phase = "extract" => folder[f] # None /\ folder[f].by = r
    /\ import[r].phase = "done" => folder[f] = [by |-> r, whole |-> TRUE]

IInv ==
  /\ BackupTypeOK /\ LocksHeld /\ StoppedServerIsRecorded
  /\ CopiesAreWhole
  /\ FoldersAreOwned /\ RestoredFoldersAreComplete

Phases == {"none", "inspect", "lock", "record", "stop", "check", "copy", "resume",
           "unlink", "archive", "done", "failed"}
HelperType ==
  [phase : Phases, was : BOOLEAN, starts : Nat, ok : BOOLEAN, whole : BOOLEAN]
ServerType == [running : BOOLEAN, starts : Nat, clean : BOOLEAN]

-----------------------------------------------------------------------------
(* A part of the invariant stays if its variables do. *)

LEMMA LocksStay ==
  ASSUME LocksHeld, UNCHANGED <<helper, lock, record, coordinator>> PROVE LocksHeld'
  BY DEF LocksHeld

LEMMA CopiesStay ==
  ASSUME CopiesAreWhole, UNCHANGED <<helper, server, archive, backup>>
  PROVE  CopiesAreWhole'
  BY DEF CopiesAreWhole

LEMMA FoldersStay ==
  ASSUME FoldersAreOwned, RestoredFoldersAreComplete, UNCHANGED <<restore, import, folder>>
  PROVE  FoldersAreOwned' /\ RestoredFoldersAreComplete'
  BY DEF FoldersAreOwned, RestoredFoldersAreComplete

LEMMA RecordStays ==
  ASSUME StoppedServerIsRecorded, UNCHANGED <<server, wanted, record>>
  PROVE  StoppedServerIsRecorded'
  BY DEF StoppedServerIsRecorded

LEMMA InitIInv == Init => IInv
<1> SUFFICES ASSUME Init PROVE IInv
  OBVIOUS
<1>1. BackupTypeOK
  <2>1. server \in ServerType
    <3>1. CASE wanted = TRUE
      BY <3>1 DEF Init, ServerType
    <3>2. CASE wanted = FALSE
      BY <3>2 DEF Init, ServerType
    <3> QED BY <3>1, <3>2 DEF Init
  <2>2. helper \in [Snapshots -> HelperType]
    BY DEF Init, HelperType, Phases
  <2>3. backup \in [Snapshots -> [status : {"none", "running", "succeeded", "failed"},
                                 manifest : BOOLEAN]]
        /\ task \in [Snapshots -> {"none", "snapshot", "verify"}]
        /\ archive \in [Snapshots -> {"none", "whole", "torn", "rotten"}]
    BY DEF Init
  <2>4. restore \in [Restores ->
          [status : {"none", "asked", "refused", "running", "succeeded", "failed"},
           backup : Snapshots \cup {None}, name : Folders \cup {None}]]
        /\ folder \in [Folders -> [by : Restores, whole : BOOLEAN] \cup {None}]
    BY DEF Init
  <2>5. import \in [Restores -> [task : BOOLEAN,
          phase : {"none", "check", "reserve", "extract", "done", "failed"}]]
    BY DEF Init
  <2>6. /\ coordinator \in {"down", "recover", "unlink", "settle", "up"}
        /\ lock \in Snapshots \cup {"boot", None} /\ moves \in 0..MaxMoves
    BY MovesAreBounded DEF Init
  <2>7. wanted \in BOOLEAN /\ record \in BOOLEAN
    BY Zenon DEF Init
  <2> QED BY <2>1, <2>2, <2>3, <2>4, <2>5, <2>6, <2>7
          DEF BackupTypeOK, HelperType, Phases, ServerType
<1>2. LocksHeld /\ CopiesAreWhole
  BY DEF Init, LocksHeld, CopiesAreWhole, Holding
<1>3. StoppedServerIsRecorded
  BY DEF Init, StoppedServerIsRecorded
<1>4. FoldersAreOwned /\ RestoredFoldersAreComplete
  BY DEF Init, FoldersAreOwned, RestoredFoldersAreComplete, Importing
<1> QED BY <1>1, <1>2, <1>3, <1>4 DEF IInv

-----------------------------------------------------------------------------
(* The helper of a snapshot. *)

\* A helper that goes on keeps what it has noted.
LEMMA GoKeeps ==
  ASSUME BackupTypeOK, NEW b \in Snapshots, NEW x \in Phases, Go(b, x)
  PROVE  /\ helper' \in [Snapshots -> HelperType]
         /\ helper'[b] = [helper[b] EXCEPT !.phase = x]
         /\ helper'[b].phase = x /\ helper'[b].was = helper[b].was
         /\ helper'[b].starts = helper[b].starts
         /\ helper'[b].ok = helper[b].ok /\ helper'[b].whole = helper[b].whole
         /\ \A c \in Snapshots : c # b => helper'[c] = helper[c]
<1>1. helper \in [Snapshots -> HelperType] /\ helper[b] \in HelperType
  BY DEF BackupTypeOK, HelperType, Phases
<1> QED BY <1>1 DEF Go, HelperType

LEMMA FreeKeeps ==
  ASSUME BackupTypeOK, NEW b \in Snapshots, Free(b)
  PROVE  /\ lock' \in Snapshots \cup {"boot", None}
         /\ lock' = IF lock = b THEN None ELSE lock
  BY DEF BackupTypeOK, Free

\* A helper that ends holds nothing, and takes no lock of another.
LEMMA ExitKeepsLocks ==
  ASSUME IInv, NEW b \in Snapshots, NEW x \in {"failed", "done"}, Exit(b, x),
         UNCHANGED coordinator,
         record' = record \/ helper[b].phase \in Holding
  PROVE  LocksHeld'
<1>1. Go(b, x) /\ Free(b) /\ x \in Phases
  BY DEF Exit, Phases
<1>2. /\ helper'[b].phase = x
      /\ \A c \in Snapshots : c # b => helper'[c] = helper[c]
      /\ lock' = IF lock = b THEN None ELSE lock
  BY <1>1, GoKeeps, FreeKeeps DEF IInv
<1> QED BY <1>2, BootIsNoSnapshot DEF IInv, LocksHeld, Holding

\* Neither does it touch a copy.
LEMMA GoKeepsCopies ==
  ASSUME IInv, NEW b \in Snapshots, NEW x \in Phases, Go(b, x),
         UNCHANGED <<archive, backup>>,
         server'.starts = server.starts,
         x # "copy",
         x \in {"resume", "unlink", "archive"} =>
           \/ helper[b].phase \in {"resume", "unlink"} /\ (x = "archive" => helper[b].ok)
           \/ helper[b].phase = "archive"
  PROVE  CopiesAreWhole'
<1>1. /\ helper'[b].phase = x
      /\ helper'[b].ok = helper[b].ok /\ helper'[b].whole = helper[b].whole
      /\ \A c \in Snapshots : c # b => helper'[c] = helper[c]
  BY GoKeeps DEF IInv
<1> SUFFICES ASSUME NEW c \in Snapshots
             PROVE  /\ helper'[c].phase = "copy" =>
                         /\ helper'[c].starts <= server'.starts
                         /\ helper'[c].whole \/ helper'[c].starts < server'.starts
                    /\ helper'[c].phase \in {"resume", "unlink"} /\ helper'[c].ok
                         => helper'[c].whole
                    /\ helper'[c].phase = "archive" => helper'[c].whole
                    /\ archive'[c] # "torn"
                    /\ backup'[c].manifest => archive'[c] # "none"
  BY DEF CopiesAreWhole
<1>2. CASE c = b
  BY <1>1, <1>2 DEF IInv, CopiesAreWhole
<1>3. CASE c # b
  BY <1>1, <1>3 DEF IInv, CopiesAreWhole
<1> QED BY <1>2, <1>3

LEMMA InspectKeeps == ASSUME IInv, NEW b \in Snapshots, Inspect(b) PROVE IInv'
<1> DEFINE x == [helper[b] EXCEPT !.phase = "lock", !.was = server.running]
<1>1. helper[b] \in HelperType /\ server.running \in BOOLEAN /\ helper[b].phase = "inspect"
  BY DEF IInv, BackupTypeOK, HelperType, Phases, Inspect
<1>2. x \in HelperType /\ x.phase = "lock"
  BY <1>1 DEF HelperType, Phases
<1>3. helper' = [helper EXCEPT ![b] = x]
      /\ UNCHANGED <<coordinator, server, wanted, record, lock, catalog, disk, moves>>
  BY DEF Inspect
<1> HIDE DEF x
<1>4. helper' \in [Snapshots -> HelperType]
      /\ \A c \in Snapshots : helper'[c] = IF c = b THEN x ELSE helper[c]
  BY <1>2, <1>3 DEF IInv, BackupTypeOK, HelperType, Phases
<1>5. BackupTypeOK'
  BY <1>3, <1>4 DEF IInv, BackupTypeOK, HelperType, Phases, catalog, disk
<1>6. LocksHeld'
  BY <1>2, <1>3, <1>4 DEF IInv, LocksHeld, Holding
<1>7. CopiesAreWhole'
  BY <1>2, <1>3, <1>4 DEF IInv, CopiesAreWhole, catalog, disk
<1> QED BY <1>3, <1>5, <1>6, <1>7, FoldersStay, RecordStays DEF IInv, catalog, disk

LEMMA AcquireKeeps == ASSUME IInv, NEW b \in Snapshots, Acquire(b) PROVE IInv'
<1>1. PICK x \in {"record", "check", "failed"} :
        /\ Go(b, x) /\ helper[b].phase = "lock"
        /\ \/ x # "failed" /\ lock = None /\ lock' = b
           \/ x = "failed" /\ UNCHANGED lock
        /\ UNCHANGED <<coordinator, server, wanted, record, catalog, disk, moves>>
  BY DEF Acquire
<1>2. x \in Phases
  BY DEF Phases
<1>6. /\ helper' \in [Snapshots -> HelperType] /\ helper'[b].phase = x
      /\ \A c \in Snapshots : c # b => helper'[c] = helper[c]
  BY <1>1, <1>2, GoKeeps DEF IInv
<1>7. lock' \in Snapshots \cup {"boot", None}
  BY <1>1 DEF IInv, BackupTypeOK
<1>3. BackupTypeOK'
  BY <1>1, <1>6, <1>7 DEF IInv, BackupTypeOK, HelperType, Phases, catalog, disk
<1>4. LocksHeld'
  <2>1. CASE UNCHANGED lock /\ x = "failed"
    BY <1>1, <1>6, <2>1 DEF IInv, LocksHeld, Holding
  <2>2. CASE lock = None /\ lock' = b
    <3>1. \A c \in Snapshots : helper[c].phase \notin Holding
      BY <2>2, NoneIsNothing DEF IInv, LocksHeld
    <3>2. coordinator \notin {"recover", "unlink"}
      BY <2>2, NoneIsNothing DEF IInv, LocksHeld
    <3> QED BY <1>1, <1>6, <2>2, <3>1, <3>2 DEF LocksHeld, Holding
  <2> QED BY <1>1, <2>1, <2>2
<1>5. CopiesAreWhole'
  BY <1>1, <1>2, GoKeepsCopies DEF catalog, disk
<1> QED BY <1>1, <1>3, <1>4, <1>5, FoldersStay, RecordStays DEF IInv, catalog, disk

LEMMA WriteRecordKeeps == ASSUME IInv, NEW b \in Snapshots, WriteRecord(b) PROVE IInv'
<1>1. /\ Go(b, "stop") /\ "stop" \in Phases /\ helper[b].phase = "record" /\ record' = TRUE
      /\ UNCHANGED <<coordinator, server, wanted, lock, catalog, disk, moves>>
  BY DEF WriteRecord, Phases
<1>2. BackupTypeOK'
  BY <1>1, GoKeeps DEF IInv, BackupTypeOK, HelperType, Phases, catalog, disk
<1>3. LocksHeld'
  BY <1>1, GoKeeps DEF IInv, LocksHeld, Holding
<1>4. CopiesAreWhole'
  BY <1>1, GoKeepsCopies DEF catalog, disk
<1>5. StoppedServerIsRecorded'
  BY <1>1 DEF StoppedServerIsRecorded
<1> QED BY <1>1, <1>2, <1>3, <1>4, <1>5, FoldersStay DEF IInv, catalog, disk

\* The server is stopped by a helper that has recorded that it ran.
LEMMA StopKeeps == ASSUME IInv, NEW b \in Snapshots, Stop(b) PROVE IInv'
<1>1. /\ Go(b, "check") /\ "check" \in Phases /\ helper[b].phase = "stop"
      /\ UNCHANGED <<coordinator, wanted, record, lock, catalog, disk, moves>>
  BY DEF Stop, Phases
<1>2. server' \in ServerType /\ server'.starts = server.starts
  <2>1. server \in ServerType
    BY DEF IInv, BackupTypeOK, ServerType
  <2>2. CASE UNCHANGED server
    BY <2>1, <2>2
  <2>3. ASSUME NEW clean \in BOOLEAN,
               server' = [server EXCEPT !.running = FALSE, !.clean = clean]
        PROVE  server' \in ServerType /\ server'.starts = server.starts
    BY <2>1, <2>3 DEF ServerType
  <2> QED BY <2>2, <2>3 DEF Stop
<1>3. BackupTypeOK'
  BY <1>1, <1>2, GoKeeps
     DEF IInv, BackupTypeOK, HelperType, ServerType, Phases, catalog, disk
<1>4. LocksHeld'
  BY <1>1, GoKeeps DEF IInv, LocksHeld, Holding
<1>5. CopiesAreWhole'
  BY <1>1, <1>2, GoKeepsCopies DEF catalog, disk
<1>6. StoppedServerIsRecorded'
  BY <1>1 DEF IInv, LocksHeld, StoppedServerIsRecorded
<1> QED BY <1>1, <1>3, <1>4, <1>5, <1>6, FoldersStay DEF IInv, catalog, disk

LEMMA CheckStoppedKeeps ==
  ASSUME IInv, NEW b \in Snapshots, CheckStopped(b) PROVE IInv'
<1>1. helper[b] \in HelperType /\ helper[b].phase = "check" /\ server.starts \in Nat
      /\ UNCHANGED <<coordinator, server, wanted, record, lock, catalog, disk, moves>>
  BY DEF IInv, BackupTypeOK, HelperType, Phases, CheckStopped
<1>2. PICK x \in HelperType :
        /\ helper' = [helper EXCEPT ![b] = x]
        /\ \/ x.phase = "copy" /\ x.starts = server.starts /\ x.whole
           \/ x.phase = "resume" /\ ~x.ok
  <2>1. CASE ~server.running /\ server.clean
    <3> DEFINE x == [helper[b] EXCEPT !.phase = "copy", !.starts = server.starts, !.whole = TRUE]
    <3>1. x \in HelperType /\ x.phase = "copy" /\ x.starts = server.starts /\ x.whole
      BY <1>1 DEF HelperType, Phases
    <3>2. helper' = [helper EXCEPT ![b] = x]
      BY <2>1 DEF CheckStopped
    <3> HIDE DEF x
    <3> QED BY <3>1, <3>2
  <2>2. CASE ~(~server.running /\ server.clean)
    <3> DEFINE x == [helper[b] EXCEPT !.phase = "resume", !.ok = FALSE]
    <3>1. x \in HelperType /\ x.phase = "resume" /\ ~x.ok
      BY <1>1 DEF HelperType, Phases
    <3>2. helper' = [helper EXCEPT ![b] = x]
      BY <2>2 DEF CheckStopped
    <3> HIDE DEF x
    <3> QED BY <3>1, <3>2
  <2> QED BY <2>1, <2>2
<1>3. helper' \in [Snapshots -> HelperType]
      /\ \A c \in Snapshots : helper'[c] = IF c = b THEN x ELSE helper[c]
  BY <1>2 DEF IInv, BackupTypeOK, HelperType, Phases
<1>4. BackupTypeOK'
  BY <1>1, <1>3 DEF IInv, BackupTypeOK, HelperType, Phases, catalog, disk
<1>5. LocksHeld'
  BY <1>1, <1>2, <1>3 DEF IInv, LocksHeld, Holding
<1>6. CopiesAreWhole'
  BY <1>1, <1>2, <1>3 DEF IInv, CopiesAreWhole, catalog, disk
<1> QED BY <1>1, <1>4, <1>5, <1>6, FoldersStay, RecordStays DEF IInv, catalog, disk

\* A helper that ends its copy, well or not: what it notes as well copied is whole.
LEMMA ToResumeKeeps ==
  ASSUME IInv, NEW b \in Snapshots, NEW x \in HelperType,
         helper[b].phase \in {"stop", "check", "copy"},
         helper' = [helper EXCEPT ![b] = x],
         x.phase = "resume", x.ok => x.whole,
         UNCHANGED <<coordinator, server, wanted, record, lock, catalog, disk>>,
         moves' \in 0..MaxMoves
  PROVE  IInv'
<1>1. helper' \in [Snapshots -> HelperType]
      /\ \A c \in Snapshots : helper'[c] = IF c = b THEN x ELSE helper[c]
  BY DEF IInv, BackupTypeOK, HelperType, Phases
<1>2. BackupTypeOK'
  BY <1>1 DEF IInv, BackupTypeOK, HelperType, Phases, catalog, disk
<1>3. LocksHeld'
  BY <1>1 DEF IInv, LocksHeld, Holding
<1>4. CopiesAreWhole'
  BY <1>1 DEF IInv, CopiesAreWhole, catalog, disk
<1> QED BY <1>2, <1>3, <1>4, FoldersStay, RecordStays DEF IInv, catalog, disk

LEMMA CopiedKeeps == ASSUME IInv, NEW b \in Snapshots, Copied(b) PROVE IInv'
<1> DEFINE good == ~server.running /\ server.starts = helper[b].starts
           x == [helper[b] EXCEPT !.phase = "resume", !.ok = good]
<1>1. /\ helper[b] \in HelperType /\ helper[b].phase = "copy" /\ server.starts \in Nat
      /\ moves \in 0..MaxMoves
      /\ helper[b].whole \/ helper[b].starts < server.starts
      /\ UNCHANGED <<coordinator, server, wanted, record, lock, catalog, disk, moves>>
      /\ helper' = [helper EXCEPT ![b] = x]
  BY DEF IInv, CopiesAreWhole, BackupTypeOK, HelperType, Phases, Copied
<1>2. helper[b].starts \in Nat /\ good \in BOOLEAN
  BY <1>1 DEF HelperType
<1>3. good => helper[b].whole
  BY <1>1, <1>2
<1> HIDE DEF good
<1>4. x \in HelperType /\ x.phase = "resume" /\ x.ok = good /\ x.whole = helper[b].whole
  BY <1>1, <1>2 DEF HelperType, Phases
<1> HIDE DEF x
<1> QED BY <1>1, <1>3, <1>4, ToResumeKeeps

\* Whatever follows resume or unlink: the archive of a whole copy, or the end.
LEMMA OnwardKeeps ==
  ASSUME IInv, NEW b \in Snapshots, Onward(b),
         helper[b].phase \in {"resume", "unlink"},
         UNCHANGED <<coordinator, archive, backup>>, server'.starts = server.starts
  PROVE  /\ helper' \in [Snapshots -> HelperType]
         /\ lock' \in Snapshots \cup {"boot", None}
         /\ LocksHeld' /\ CopiesAreWhole'
<1>1. CASE helper[b].ok /\ Go(b, "archive") /\ UNCHANGED lock
  <2>1. "archive" \in Phases
    BY DEF Phases
  <2>2. /\ helper' \in [Snapshots -> HelperType] /\ helper'[b].phase = "archive"
        /\ \A c \in Snapshots : c # b => helper'[c] = helper[c]
    BY <1>1, <2>1, GoKeeps DEF IInv
  <2>3. LocksHeld'
    <3>1. \A c \in Snapshots : c # b => helper[c].phase # "stop"
      BY DEF IInv, LocksHeld, Holding
    <3> QED BY <1>1, <2>2, <3>1 DEF IInv, LocksHeld, Holding
  <2> QED BY <1>1, <2>1, <2>2, <2>3, GoKeepsCopies DEF IInv, BackupTypeOK
<1>2. CASE Exit(b, "failed")
  <2>1. Go(b, "failed") /\ Free(b) /\ "failed" \in Phases
    BY <1>2 DEF Exit, Phases
  <2>2. LocksHeld'
    BY <1>2, ExitKeepsLocks DEF Holding
  <2> QED BY <2>1, <2>2, GoKeeps, FreeKeeps, GoKeepsCopies DEF IInv
<1> QED BY <1>1, <1>2 DEF Onward

LEMMA StartedKeeps ==
  ASSUME BackupTypeOK, server' = Started(server)
  PROVE  server' \in ServerType /\ server'.running /\ server'.starts >= server.starts
         /\ (~server.running => server'.starts = server.starts + 1)
<1>1. server \in ServerType
  BY DEF BackupTypeOK, ServerType
<1>2. CASE server.running
  BY <1>1, <1>2 DEF Started, ServerType
<1>3. CASE ~server.running
  <2> DEFINE x == [server EXCEPT !.running = TRUE, !.starts = @ + 1]
  <2>1. x.running
    BY <1>1 DEF ServerType
  <2>2. x.starts = server.starts + 1 /\ server.starts \in Nat
    BY <1>1 DEF ServerType
  <2>3. x \in ServerType
    <3>1. ASSUME NEW n \in Nat
          PROVE  [server EXCEPT !.running = TRUE, !.starts = n] \in ServerType
      BY <1>1 DEF ServerType
    <3>2. server.starts + 1 \in Nat
      BY <1>1 DEF ServerType
    <3> QED BY <3>1, <3>2, Zenon
  <2>4. server' = x
    BY <1>3 DEF Started
  <2> HIDE DEF x
  <2> QED BY <2>1, <2>2, <2>3, <2>4, <1>3
<1> QED BY <1>2, <1>3

LEMMA ResumeKeeps == ASSUME IInv, NEW b \in Snapshots, Resume(b) PROVE IInv'
<1>1. /\ helper[b].phase = "resume"
      /\ UNCHANGED <<coordinator, wanted, record, catalog, disk, moves>>
  BY DEF Resume
<1>2. CASE server' = Started(server) /\ Go(b, "unlink") /\ UNCHANGED lock
  <2>1. "unlink" \in Phases /\ server' \in ServerType /\ server'.running
        /\ server'.starts >= server.starts
    BY <1>2, StartedKeeps DEF Phases, IInv
  <2>2. /\ helper' \in [Snapshots -> HelperType] /\ helper'[b].phase = "unlink"
        /\ helper'[b].ok = helper[b].ok /\ helper'[b].whole = helper[b].whole
        /\ \A c \in Snapshots : c # b => helper'[c] = helper[c]
    BY <1>2, <2>1, GoKeeps DEF IInv
  <2>3. BackupTypeOK'
    BY <1>1, <1>2, <2>1, <2>2
       DEF IInv, BackupTypeOK, HelperType, ServerType, Phases, catalog, disk
  <2>4. LocksHeld'
    BY <1>1, <1>2, <2>2 DEF IInv, LocksHeld, Holding
  <2>5. CopiesAreWhole'
    <3>1. \A c \in Snapshots : c # b => helper[c].phase # "copy"
      BY <1>1 DEF IInv, LocksHeld, Holding
    <3> QED BY <1>1, <2>2, <3>1 DEF IInv, CopiesAreWhole, catalog, disk
  <2>6. StoppedServerIsRecorded'
    BY <2>1 DEF StoppedServerIsRecorded
  <2> QED BY <1>1, <2>3, <2>4, <2>5, <2>6, FoldersStay DEF IInv, catalog, disk
<1>3. CASE Onward(b) /\ UNCHANGED server
  <2>1. BackupTypeOK' /\ LocksHeld' /\ CopiesAreWhole'
    BY <1>1, <1>3, OnwardKeeps
       DEF IInv, BackupTypeOK, HelperType, Phases, catalog, disk
  <2> QED BY <1>1, <1>3, <2>1, FoldersStay, RecordStays DEF IInv, catalog, disk
<1> QED BY <1>2, <1>3 DEF Resume

LEMMA UnlinkKeeps == ASSUME IInv, NEW b \in Snapshots, Unlink(b) PROVE IInv'
<1>1. /\ helper[b].phase = "unlink"
      /\ UNCHANGED <<coordinator, server, wanted, catalog, disk, moves>>
  BY DEF Unlink
<1>2. CASE server.running /\ record' = FALSE /\ Onward(b)
  <2>1. /\ helper' \in [Snapshots -> HelperType]
        /\ lock' \in Snapshots \cup {"boot", None}
        /\ LocksHeld' /\ CopiesAreWhole'
    BY <1>1, <1>2, OnwardKeeps DEF catalog, disk
  <2>2. BackupTypeOK'
    BY <1>1, <1>2, <2>1 DEF IInv, BackupTypeOK, HelperType, Phases, catalog, disk
  <2>3. StoppedServerIsRecorded'
    BY <1>1, <1>2 DEF StoppedServerIsRecorded
  <2> QED BY <1>1, <2>1, <2>2, <2>3, FoldersStay DEF IInv, catalog, disk
<1>3. CASE Exit(b, "failed") /\ UNCHANGED record
  <2>1. Go(b, "failed") /\ Free(b) /\ "failed" \in Phases
    BY <1>3 DEF Exit, Phases
  <2>2. BackupTypeOK'
    BY <1>1, <1>3, <2>1, GoKeeps, FreeKeeps
       DEF IInv, BackupTypeOK, HelperType, Phases, catalog, disk
  <2>3. LocksHeld'
    BY <1>1, <1>3, ExitKeepsLocks
  <2>4. CopiesAreWhole'
    BY <1>1, <2>1, GoKeepsCopies DEF catalog, disk
  <2> QED BY <1>1, <1>3, <2>2, <2>3, <2>4, FoldersStay, RecordStays
          DEF IInv, catalog, disk
<1> QED BY <1>2, <1>3 DEF Unlink

LEMMA ArchiveKeeps == ASSUME IInv, NEW b \in Snapshots, Archive(b) PROVE IInv'
<1>1. /\ helper[b].phase = "archive" /\ Exit(b, "done") /\ Go(b, "done") /\ Free(b)
      /\ "done" \in Phases
      /\ UNCHANGED <<coordinator, server, wanted, record, catalog, import, folder, moves>>
  BY DEF Archive, Exit, Phases
<1>2. archive' = [archive EXCEPT ![b] = "whole"]
  BY <1>1 DEF IInv, CopiesAreWhole, Archive
<1>3. BackupTypeOK'
  BY <1>1, <1>2, GoKeeps, FreeKeeps DEF IInv, BackupTypeOK, HelperType, Phases, catalog
<1>4. LocksHeld'
  BY <1>1, ExitKeepsLocks
<1>5. CopiesAreWhole'
  <2>1. /\ helper'[b].phase = "done"
        /\ \A c \in Snapshots : c # b => helper'[c] = helper[c]
    BY <1>1, GoKeeps DEF IInv
  <2>2. \A c \in Snapshots : archive'[c] = IF c = b THEN "whole" ELSE archive[c]
    BY <1>2 DEF IInv, BackupTypeOK
  <2> QED BY <1>1, <2>1, <2>2 DEF IInv, CopiesAreWhole, catalog
<1> QED BY <1>1, <1>3, <1>4, <1>5, FoldersStay, RecordStays DEF IInv, catalog

LEMMA ExitKeeps ==
  ASSUME IInv, NEW b \in Snapshots, Exit(b, "failed"), moves' \in 0..MaxMoves,
         UNCHANGED <<coordinator, server, wanted, record, catalog, disk>>
  PROVE  IInv'
<1>1. Go(b, "failed") /\ Free(b) /\ "failed" \in Phases
  BY DEF Exit, Phases
<1>2. BackupTypeOK'
  BY <1>1, GoKeeps, FreeKeeps DEF IInv, BackupTypeOK, HelperType, Phases, catalog, disk
<1>3. LocksHeld'
  BY ExitKeepsLocks
<1>4. CopiesAreWhole'
  BY <1>1, GoKeepsCopies DEF catalog, disk
<1> QED BY <1>2, <1>3, <1>4, FoldersStay, RecordStays DEF IInv, catalog, disk

LEMMA StumbleKeeps == ASSUME IInv, NEW b \in Snapshots, Stumble(b) PROVE IInv'
<1>1. moves' \in 0..MaxMoves /\ UNCHANGED <<coordinator, server, wanted, record, catalog, disk>>
  BY MovesAreBounded DEF Stumble, Moved, IInv, BackupTypeOK
<1>2. CASE Exit(b, "failed")
  BY <1>1, <1>2, ExitKeeps
<1>3. CASE /\ helper[b].phase \in {"stop", "check", "copy"}
           /\ helper' = [helper EXCEPT ![b] = [@ EXCEPT !.phase = "resume", !.ok = FALSE]]
           /\ UNCHANGED lock
  <2> DEFINE x == [helper[b] EXCEPT !.phase = "resume", !.ok = FALSE]
  <2>1. helper[b] \in HelperType
    BY DEF IInv, BackupTypeOK, HelperType, Phases
  <2>2. x \in HelperType /\ x.phase = "resume" /\ ~x.ok
    BY <2>1 DEF HelperType, Phases
  <2>3. helper' = [helper EXCEPT ![b] = x]
    BY <1>3
  <2> HIDE DEF x
  <2> QED BY <1>1, <1>3, <2>2, <2>3, ToResumeKeeps
<1> QED BY <1>2, <1>3 DEF Stumble

LEMMA KillKeeps == ASSUME IInv, NEW b \in Snapshots, Kill(b) PROVE IInv'
<1>1. moves' \in 0..MaxMoves
  BY MovesAreBounded DEF Kill, Moved, IInv, BackupTypeOK
<1> QED BY <1>1, ExitKeeps DEF Kill

-----------------------------------------------------------------------------
(* Backups in the coordinator: only rows and tasks change. *)

BackupType == [status : {"none", "running", "succeeded", "failed"}, manifest : BOOLEAN]

\* A manifest is recorded only for an archive that exists.
LEMMA CatalogKeeps ==
  ASSUME IInv,
         backup' \in [Snapshots -> BackupType],
         task' \in [Snapshots -> {"none", "snapshot", "verify"}],
         \A c \in Snapshots : backup'[c].manifest => backup[c].manifest \/ archive[c] # "none",
         moves' \in 0..MaxMoves,
         UNCHANGED <<coordinator, host, restore, disk>>
  PROVE  IInv'
<1>1. BackupTypeOK'
  BY DEF IInv, BackupTypeOK, BackupType, host, disk
<1>2. CopiesAreWhole'
  BY DEF IInv, CopiesAreWhole, host, disk
<1> QED BY <1>1, <1>2, LocksStay, FoldersStay, RecordStays DEF IInv, host, disk

LEMMA CreateServerKeeps ==
  ASSUME IInv, NEW b \in Snapshots, CreateServer(b) PROVE IInv'
<1>1. /\ Go(b, "inspect") /\ "inspect" \in Phases
      /\ UNCHANGED <<coordinator, server, wanted, record, lock, restore, disk, moves>>
      /\ backup' = [backup EXCEPT ![b].status = "running"]
      /\ task' = [task EXCEPT ![b] = "snapshot"]
  BY DEF CreateServer, Phases
<1>2. /\ helper' \in [Snapshots -> HelperType] /\ helper'[b].phase = "inspect"
      /\ \A c \in Snapshots : c # b => helper'[c] = helper[c]
  BY <1>1, GoKeeps DEF IInv
<1>3. /\ backup \in [Snapshots -> BackupType]
      /\ task' \in [Snapshots -> {"none", "snapshot", "verify"}]
  BY <1>1 DEF IInv, BackupTypeOK, BackupType
<1>4. /\ backup' \in [Snapshots -> BackupType]
      /\ \A c \in Snapshots : backup'[c].manifest = backup[c].manifest
  BY <1>1, <1>3 DEF BackupType
<1>5. BackupTypeOK'
  BY <1>1, <1>2, <1>3, <1>4
     DEF IInv, BackupTypeOK, HelperType, Phases, BackupType, disk
<1>6. LocksHeld'
  BY <1>1, <1>2 DEF IInv, LocksHeld, Holding
<1>7. CopiesAreWhole'
  BY <1>1, <1>2, <1>4 DEF IInv, CopiesAreWhole, disk
<1> QED BY <1>1, <1>5, <1>6, <1>7, FoldersStay, RecordStays DEF IInv, disk

LEMMA PublishKeeps == ASSUME IInv, NEW b \in Snapshots, Publish(b) PROVE IInv'
<1>1. /\ backup \in [Snapshots -> BackupType] /\ moves \in 0..MaxMoves
      /\ task \in [Snapshots -> {"none", "snapshot", "verify"}]
      /\ archive[b] # "none"
      /\ UNCHANGED <<coordinator, host, restore, disk, moves>>
      /\ task' = [task EXCEPT ![b] = "none"]
  BY DEF IInv, BackupTypeOK, BackupType, Publish, Intact
<1>2. CASE backup[b].status = "running"
  <2> DEFINE x == [status |-> "succeeded", manifest |-> TRUE]
  <2>1. x \in BackupType
    BY DEF BackupType
  <2>2. backup' = [backup EXCEPT ![b] = x]
    BY <1>2 DEF Publish
  <2> HIDE DEF x
  <2>3. /\ backup' \in [Snapshots -> BackupType]
        /\ \A c \in Snapshots : c # b => backup'[c] = backup[c]
    BY <1>1, <2>1, <2>2
  <2> QED BY <1>1, <2>3, CatalogKeeps
<1>3. CASE backup[b].status # "running"
  <2>1. backup' = backup
    BY <1>1, <1>3 DEF Publish
  <2> QED BY <1>1, <2>1, CatalogKeeps
<1> QED BY <1>2, <1>3

LEMMA VerifyKeeps == ASSUME IInv, NEW b \in Snapshots, Verify(b) PROVE IInv'
<1>1. /\ backup \in [Snapshots -> BackupType] /\ moves \in 0..MaxMoves
      /\ task' \in [Snapshots -> {"none", "snapshot", "verify"}]
      /\ UNCHANGED <<coordinator, host, restore, disk, moves>>
      /\ backup' = [backup EXCEPT ![b].status = "running"]
  BY DEF IInv, BackupTypeOK, BackupType, Verify
<1>2. /\ backup' \in [Snapshots -> BackupType]
      /\ \A c \in Snapshots : backup'[c].manifest = backup[c].manifest
  BY <1>1 DEF BackupType
<1> QED BY <1>1, <1>2, CatalogKeeps

LEMMA SettleKeeps ==
  ASSUME IInv, NEW b \in Snapshots, NEW status \in {"succeeded", "failed"},
         Settle(b, status), moves' \in 0..MaxMoves,
         UNCHANGED <<coordinator, host, restore, disk>>
  PROVE  IInv'
<1>1. /\ backup \in [Snapshots -> BackupType]
      /\ task' \in [Snapshots -> {"none", "snapshot", "verify"}]
  BY DEF IInv, BackupTypeOK, BackupType, Settle
<1>2. PICK x \in {"none", "running", "succeeded", "failed"} :
        backup' = [backup EXCEPT ![b].status = x]
  BY <1>1 DEF Settle, BackupType
<1>3. /\ backup' \in [Snapshots -> BackupType]
      /\ \A c \in Snapshots : backup'[c].manifest = backup[c].manifest
  BY <1>1, <1>2 DEF BackupType
<1> QED BY <1>1, <1>3, CatalogKeeps

LEMMA VerifiedKeeps == ASSUME IInv, NEW b \in Snapshots, Verified(b) PROVE IInv'
<1>1. moves' \in 0..MaxMoves /\ UNCHANGED <<coordinator, host, restore, disk>>
  BY DEF IInv, BackupTypeOK, Verified
<1>2. PICK status \in {"succeeded", "failed"} : Settle(b, status)
  BY DEF Verified
<1> QED BY <1>1, <1>2, SettleKeeps

LEMMA GiveUpKeeps == ASSUME IInv, NEW b \in Snapshots, GiveUp(b) PROVE IInv'
<1>1. moves' \in 0..MaxMoves /\ UNCHANGED <<coordinator, host, restore, disk>>
  BY MovesAreBounded DEF IInv, BackupTypeOK, GiveUp, Moved
<1>2. CASE Settle(b, "failed")
  BY <1>1, <1>2, SettleKeeps
<1>3. CASE task' = [task EXCEPT ![b] = "none"] /\ UNCHANGED backup
  <2>1. /\ backup' \in [Snapshots -> BackupType]
        /\ task' \in [Snapshots -> {"none", "snapshot", "verify"}]
    BY <1>3 DEF IInv, BackupTypeOK, BackupType
  <2> QED BY <1>1, <1>3, <2>1, CatalogKeeps
<1> QED BY <1>2, <1>3 DEF GiveUp

-----------------------------------------------------------------------------
(* Restores: rows, processes and folders change. *)

RestoreType ==
  [status : {"none", "asked", "refused", "running", "succeeded", "failed"},
   backup : Snapshots \cup {None}, name : Folders \cup {None}]
ImportType ==
  [task : BOOLEAN, phase : {"none", "check", "reserve", "extract", "done", "failed"}]
FolderType == [by : Restores, whole : BOOLEAN] \cup {None}

LEMMA RestoreKeeps ==
  ASSUME IInv,
         restore' \in [Restores -> RestoreType], import' \in [Restores -> ImportType],
         folder' \in [Folders -> FolderType], moves' \in 0..MaxMoves,
         FoldersAreOwned', RestoredFoldersAreComplete',
         UNCHANGED <<coordinator, host, backup, task, archive>>
  PROVE  IInv'
<1>1. BackupTypeOK'
  BY DEF IInv, BackupTypeOK, RestoreType, ImportType, FolderType, host
<1> QED BY <1>1, LocksStay, CopiesStay, RecordStays DEF IInv, host

LEMMA RestoreTypes ==
  ASSUME IInv
  PROVE  /\ restore \in [Restores -> RestoreType] /\ import \in [Restores -> ImportType]
         /\ folder \in [Folders -> FolderType] /\ moves \in 0..MaxMoves
         /\ FoldersAreOwned /\ RestoredFoldersAreComplete
  BY DEF IInv, BackupTypeOK, RestoreType, ImportType, FolderType

LEMMA ValidateRestoreKeeps ==
  ASSUME IInv, NEW r \in Restores, NEW b \in Snapshots, NEW f \in Folders,
         ValidateRestore(r, b, f)
  PROVE  IInv'
<1> DEFINE x == [status |-> "asked", backup |-> b, name |-> f]
<1>1. /\ restore' = [restore EXCEPT ![r] = x] /\ restore[r].status = "none"
      /\ UNCHANGED <<coordinator, host, backup, task, disk, moves>>
  BY DEF ValidateRestore
<1>2. x \in RestoreType /\ x.status = "asked" /\ x.name = f
  BY DEF RestoreType
<1> HIDE DEF x
<1>3. /\ restore' \in [Restores -> RestoreType] /\ restore'[r] = x
      /\ \A q \in Restores : q # r => restore'[q] = restore[q]
  BY <1>1, <1>2, RestoreTypes
<1>4. FoldersAreOwned'
  BY <1>1, <1>2, <1>3 DEF IInv, FoldersAreOwned, Importing, disk
<1>5. RestoredFoldersAreComplete'
  BY <1>1, <1>2, <1>3 DEF IInv, RestoredFoldersAreComplete, disk
<1> QED BY <1>1, <1>3, <1>4, <1>5, RestoreTypes, RestoreKeeps DEF disk

LEMMA RestoreStarts == ASSUME IInv, NEW r \in Restores, Restore(r) PROVE IInv'
<1>1. /\ restore[r].status = "asked" /\ restore[r] \in RestoreType
      /\ import[r].phase \notin Importing /\ restore[r].name \in Folders
      /\ UNCHANGED <<coordinator, host, backup, task, archive, folder, moves>>
  BY RestoreTypes DEF Restore, FoldersAreOwned
<1>2. PICK s \in {"refused", "running"} :
        /\ restore' = [restore EXCEPT ![r].status = s]
        /\ \/ s = "refused" /\ UNCHANGED import
           \/ s = "running" /\ import' = [import EXCEPT ![r] = [task |-> TRUE, phase |-> "check"]]
  BY DEF Restore
<1>3. /\ restore' \in [Restores -> RestoreType]
      /\ restore'[r].status = s /\ restore'[r].name = restore[r].name
      /\ \A q \in Restores : q # r => restore'[q] = restore[q]
  BY <1>1, <1>2, RestoreTypes DEF RestoreType
<1>4. /\ import' \in [Restores -> ImportType]
      /\ \A q \in Restores : q # r => import'[q] = import[q]
      /\ import'[r].phase = IF s = "running" THEN "check" ELSE import[r].phase
  <2>1. CASE s = "refused" /\ UNCHANGED import
    BY <2>1, RestoreTypes
  <2>2. CASE /\ s = "running"
             /\ import' = [import EXCEPT ![r] = [task |-> TRUE, phase |-> "check"]]
    <3> DEFINE x == [task |-> TRUE, phase |-> "check"]
    <3>1. x \in ImportType /\ x.phase = "check"
      BY DEF ImportType
    <3>2. import' = [import EXCEPT ![r] = x]
      BY <2>2
    <3> HIDE DEF x
    <3> QED BY <2>2, <3>1, <3>2, RestoreTypes
  <2> QED BY <1>2, <2>1, <2>2
<1>5. FoldersAreOwned'
  BY <1>1, <1>3, <1>4 DEF IInv, FoldersAreOwned, Importing
<1>6. RestoredFoldersAreComplete'
  BY <1>1, <1>3 DEF IInv, RestoredFoldersAreComplete
<1> QED BY <1>1, <1>3, <1>4, <1>5, <1>6, RestoreTypes, RestoreKeeps

\* A process that goes on, or fails, without touching its folder.
LEMMA PhaseKeeps ==
  ASSUME IInv, NEW r \in Restores, NEW x \in {"reserve", "failed"},
         import' = [import EXCEPT ![r].phase = x],
         x = "failed" \/ import[r].phase = "check",
         UNCHANGED <<coordinator, host, catalog, archive, folder, moves>>
  PROVE  IInv'
<1>1. /\ import' \in [Restores -> ImportType] /\ import'[r].phase = x
      /\ \A q \in Restores : q # r => import'[q] = import[q]
  BY RestoreTypes DEF ImportType
<1>2. FoldersAreOwned'
  BY <1>1 DEF IInv, FoldersAreOwned, Importing, catalog
<1>3. RestoredFoldersAreComplete'
  BY DEF IInv, RestoredFoldersAreComplete, catalog
<1> QED BY <1>1, <1>2, <1>3, RestoreTypes, RestoreKeeps DEF catalog

LEMMA CheckArchiveKeeps == ASSUME IInv, NEW r \in Restores, CheckArchive(r) PROVE IInv'
<1>1. PICK x \in {"reserve", "failed"} : import' = [import EXCEPT ![r].phase = x]
  BY DEF CheckArchive
<1> QED BY <1>1, PhaseKeeps DEF CheckArchive

\* A folder that is made was nobody's.
LEMMA ReserveKeeps == ASSUME IInv, NEW r \in Restores, Reserve(r) PROVE IInv'
<1> DEFINE f == restore[r].name
           x == [by |-> r, whole |-> FALSE]
<1>1. /\ f \in Folders /\ import[r].phase = "reserve"
      /\ UNCHANGED <<coordinator, host, catalog, archive, moves>>
  BY RestoreTypes DEF Reserve, FoldersAreOwned, Importing
<1>2. CASE /\ folder[f] = None
           /\ folder' = [folder EXCEPT ![f] = x]
           /\ import' = [import EXCEPT ![r].phase = "extract"]
  <2>1. x \in FolderType /\ x.by = r /\ x # None
    <3>1. x \in [by : Restores, whole : BOOLEAN] /\ x.by = r
      OBVIOUS
    <3> HIDE DEF x
    <3> QED BY <3>1, NoneIsNothing DEF FolderType
  <2>2. \A q \in Restores, w \in BOOLEAN : [by |-> q, whole |-> w] # None
    BY NoneIsNothing
  <2> HIDE DEF f, x
  <2>3. /\ folder' \in [Folders -> FolderType] /\ folder'[f] = x
        /\ \A g \in Folders : g # f => folder'[g] = folder[g]
    BY <1>1, <1>2, <2>1, RestoreTypes
  <2>4. /\ import' \in [Restores -> ImportType] /\ import'[r].phase = "extract"
        /\ \A q \in Restores : q # r => import'[q] = import[q]
    BY <1>2, RestoreTypes DEF ImportType
  <2>5. FoldersAreOwned'
    <3> SUFFICES ASSUME NEW q \in Restores
                 PROVE  LET g == restore[q].name IN
                   /\ restore[q].status \in {"none", "asked", "refused"}
                        => import'[q].phase \notin Importing
                   /\ restore[q].status \in {"asked", "running", "succeeded"} => g \in Folders
                   /\ import'[q].phase \in Importing => g \in Folders
                   /\ import'[q].phase = "extract" => folder'[g] # None /\ folder'[g].by = q
                   /\ import'[q].phase = "done" => folder'[g] = [by |-> q, whole |-> TRUE]
      BY <1>1 DEF FoldersAreOwned, catalog
    <3>1. CASE q = r
      BY <1>1, <2>1, <2>3, <2>4, <3>1, RestoreTypes DEF FoldersAreOwned, Importing, f
    <3>2. CASE q # r
      BY <1>1, <1>2, <2>2, <2>3, <2>4, <3>2, RestoreTypes DEF FoldersAreOwned, Importing
    <3> QED BY <3>1, <3>2
  <2>6. RestoredFoldersAreComplete'
    <3> SUFFICES ASSUME NEW q \in Restores, restore[q].status = "succeeded"
                 PROVE  folder'[restore[q].name] = [by |-> q, whole |-> TRUE]
      BY <1>1 DEF RestoredFoldersAreComplete, catalog
    <3>1. /\ folder[restore[q].name] = [by |-> q, whole |-> TRUE]
          /\ restore[q].name \in Folders
      BY RestoreTypes DEF RestoredFoldersAreComplete, FoldersAreOwned
    <3>2. restore[q].name # f
      BY <1>2, <2>2, <3>1
    <3> QED BY <2>3, <3>1, <3>2
  <2> QED BY <1>1, <2>3, <2>4, <2>5, <2>6, RestoreTypes, RestoreKeeps DEF catalog
<1>3. CASE import' = [import EXCEPT ![r].phase = "failed"] /\ UNCHANGED folder
  BY <1>1, <1>3, PhaseKeeps
<1> QED BY <1>2, <1>3 DEF Reserve

LEMMA ExtractKeeps == ASSUME IInv, NEW r \in Restores, Extract(r) PROVE IInv'
<1> DEFINE f == restore[r].name
<1>1. /\ f \in Folders /\ import[r].phase = "extract"
      /\ folder[f] # None /\ folder[f].by = r
      /\ UNCHANGED <<coordinator, host, catalog, archive, moves>>
  BY RestoreTypes DEF Extract, FoldersAreOwned, Importing
<1>2. CASE /\ folder' = [folder EXCEPT ![f].whole = TRUE]
           /\ import' = [import EXCEPT ![r].phase = "done"]
  <2>1. folder[f] \in [by : Restores, whole : BOOLEAN]
    BY <1>1, RestoreTypes DEF FolderType
  <2> DEFINE x == [by |-> r, whole |-> TRUE]
  <2>2. x \in FolderType /\ x.by = r /\ x # None
    <3>1. x \in [by : Restores, whole : BOOLEAN] /\ x.by = r
      OBVIOUS
    <3> HIDE DEF x
    <3> QED BY <3>1, NoneIsNothing DEF FolderType
  <2>3. [folder[f] EXCEPT !.whole = TRUE] = x
    <3> DEFINE y == folder[f]
    <3>1. y \in [by : Restores, whole : BOOLEAN] /\ y.by = r
      BY <1>1, <2>1
    <3> HIDE DEF y
    <3>2. [y EXCEPT !.whole = TRUE] = x
      <4> DEFINE z == [y EXCEPT !.whole = TRUE]
      <4>1. z \in [by : Restores, whole : BOOLEAN] /\ z.by = r
        BY <3>1
      <4>2. z.whole = TRUE
        BY <3>1
      <4> HIDE DEF z
      <4>3. z = [by |-> z.by, whole |-> z.whole]
        BY <4>1
      <4>4. z = x
        BY <4>1, <4>2, <4>3, Zenon
      <4> QED BY <4>4 DEF z
    <3> QED BY <3>2 DEF y
  <2>4. folder' = [folder EXCEPT ![f] = x]
    BY <1>2, <2>3
  <2>5. \A q \in Restores : x = [by |-> q, whole |-> TRUE] => q = r
    BY Zenon, <2>2
  <2> HIDE DEF f
  <2>6. /\ folder' \in [Folders -> FolderType] /\ folder'[f] = x
        /\ \A g \in Folders : g # f => folder'[g] = folder[g]
    BY <1>1, <2>2, <2>4, RestoreTypes
  <2>7. /\ import' \in [Restores -> ImportType] /\ import'[r].phase = "done"
        /\ \A q \in Restores : q # r => import'[q] = import[q]
    BY <1>2, RestoreTypes DEF ImportType
  <2>8. FoldersAreOwned'
    <3> SUFFICES ASSUME NEW q \in Restores
                 PROVE  LET g == restore[q].name IN
                   /\ restore[q].status \in {"none", "asked", "refused"}
                        => import'[q].phase \notin Importing
                   /\ restore[q].status \in {"asked", "running", "succeeded"} => g \in Folders
                   /\ import'[q].phase \in Importing => g \in Folders
                   /\ import'[q].phase = "extract" => folder'[g] # None /\ folder'[g].by = q
                   /\ import'[q].phase = "done" => folder'[g] = [by |-> q, whole |-> TRUE]
      BY <1>1 DEF FoldersAreOwned, catalog
    <3>1. CASE q = r
      BY <1>1, <2>2, <2>6, <2>7, <3>1, RestoreTypes DEF FoldersAreOwned, Importing, f
    <3>2. CASE q # r
      BY <1>1, <2>6, <2>7, <3>2, RestoreTypes DEF FoldersAreOwned, Importing
    <3> QED BY <3>1, <3>2
  <2>9. RestoredFoldersAreComplete'
    BY <1>1, <2>6, RestoreTypes DEF RestoredFoldersAreComplete, FoldersAreOwned, catalog
  <2> QED BY <1>1, <2>6, <2>7, <2>8, <2>9, RestoreTypes, RestoreKeeps DEF catalog
<1>3. CASE import' = [import EXCEPT ![r].phase = "failed"] /\ UNCHANGED folder
  BY <1>1, <1>3, PhaseKeeps
<1> QED BY <1>2, <1>3 DEF Extract

\* A restore succeeds once its process has completed the folder.
LEMMA FinishRestoreKeeps ==
  ASSUME IInv, NEW r \in Restores, FinishRestore(r) PROVE IInv'
<1>1. /\ import[r].phase = "done" /\ restore[r] \in RestoreType
      /\ UNCHANGED <<coordinator, host, backup, task, archive, folder, moves>>
      /\ import' = [import EXCEPT ![r].task = FALSE]
  BY RestoreTypes DEF FinishRestore
<1>2. /\ import' \in [Restores -> ImportType]
      /\ \A q \in Restores : import'[q].phase = import[q].phase
  BY <1>1, RestoreTypes DEF ImportType
<1>3. /\ restore' \in [Restores -> RestoreType]
      /\ restore'[r].name = restore[r].name
      /\ restore'[r].status =
           IF restore[r].status = "running" THEN "succeeded" ELSE restore[r].status
      /\ \A q \in Restores : q # r => restore'[q] = restore[q]
  <2>1. CASE restore[r].status = "running"
    <3>1. restore' = [restore EXCEPT ![r].status = "succeeded"]
      BY <2>1 DEF FinishRestore
    <3> QED BY <1>1, <2>1, <3>1, RestoreTypes DEF RestoreType
  <2>2. CASE restore[r].status # "running"
    <3>1. restore' = [restore EXCEPT ![r].status = restore[r].status]
      BY <2>2 DEF FinishRestore
    <3> QED BY <1>1, <2>2, <3>1, RestoreTypes DEF RestoreType
  <2> QED BY <2>1, <2>2
<1>4. FoldersAreOwned'
  <2> SUFFICES ASSUME NEW q \in Restores
               PROVE  LET g == restore'[q].name IN
                 /\ restore'[q].status \in {"none", "asked", "refused"}
                      => import'[q].phase \notin Importing
                 /\ restore'[q].status \in {"asked", "running", "succeeded"} => g \in Folders
                 /\ import'[q].phase \in Importing => g \in Folders
                 /\ import'[q].phase = "extract" => folder[g] # None /\ folder[g].by = q
                 /\ import'[q].phase = "done" => folder[g] = [by |-> q, whole |-> TRUE]
    BY <1>1 DEF FoldersAreOwned
  <2>1. CASE q = r
    BY <1>1, <1>2, <1>3, <2>1, RestoreTypes DEF FoldersAreOwned, Importing
  <2>2. CASE q # r
    BY <1>2, <1>3, <2>2, RestoreTypes DEF FoldersAreOwned
  <2> QED BY <2>1, <2>2
<1>5. RestoredFoldersAreComplete'
  BY <1>1, <1>3, RestoreTypes DEF RestoredFoldersAreComplete, FoldersAreOwned, Importing
<1> QED BY <1>1, <1>2, <1>3, <1>4, <1>5, RestoreTypes, RestoreKeeps

LEMMA FailRestoreKeeps == ASSUME IInv, NEW r \in Restores, FailRestore(r) PROVE IInv'
<1> DEFINE x == [task |-> FALSE, phase |-> "failed"]
<1>1. /\ restore[r] \in RestoreType /\ moves' \in 0..MaxMoves
      /\ UNCHANGED <<coordinator, host, backup, task, archive, folder>>
      /\ import' = [import EXCEPT ![r] = x]
  BY RestoreTypes, MovesAreBounded DEF FailRestore, Moved
<1>2. x \in ImportType /\ x.phase = "failed"
  BY DEF ImportType
<1> HIDE DEF x
<1>3. /\ import' \in [Restores -> ImportType] /\ import'[r].phase = "failed"
      /\ \A q \in Restores : q # r => import'[q] = import[q]
  BY <1>1, <1>2, RestoreTypes
<1>4. /\ restore' \in [Restores -> RestoreType]
      /\ restore'[r].name = restore[r].name
      /\ restore'[r].status =
           IF restore[r].status = "running" THEN "failed" ELSE restore[r].status
      /\ \A q \in Restores : q # r => restore'[q] = restore[q]
  <2>1. CASE restore[r].status = "running"
    <3>1. restore' = [restore EXCEPT ![r].status = "failed"]
      BY <2>1 DEF FailRestore
    <3> QED BY <1>1, <2>1, <3>1, RestoreTypes DEF RestoreType
  <2>2. CASE restore[r].status # "running"
    <3>1. restore' = [restore EXCEPT ![r].status = restore[r].status]
      BY <2>2 DEF FailRestore
    <3> QED BY <1>1, <2>2, <3>1, RestoreTypes DEF RestoreType
  <2> QED BY <2>1, <2>2
<1>5. FoldersAreOwned'
  BY <1>1, <1>3, <1>4, RestoreTypes DEF FoldersAreOwned, Importing
<1>6. RestoredFoldersAreComplete'
  BY <1>1, <1>4, RestoreTypes DEF RestoredFoldersAreComplete
<1> QED BY <1>1, <1>3, <1>4, <1>5, <1>6, RestoreTypes, RestoreKeeps

-----------------------------------------------------------------------------
(* The coordinator stops and starts. *)

\* Whatever is left of a restore: its row may fail, its process may end.
LEMMA AbandonKeeps ==
  ASSUME IInv, moves' \in 0..MaxMoves, UNCHANGED folder,
         restore' \in [Restores -> RestoreType], import' \in [Restores -> ImportType],
         \A r \in Restores :
           /\ restore'[r].name = restore[r].name
           /\ \/ restore'[r].status = restore[r].status
              \/ restore[r].status = "asked" /\ restore'[r].status = "refused"
              \/ restore'[r].status = "failed"
           /\ import'[r].phase \in {import[r].phase, "failed"}
  PROVE  FoldersAreOwned' /\ RestoredFoldersAreComplete'
<1>1. FoldersAreOwned'
  BY RestoreTypes DEF FoldersAreOwned, Importing
<1>2. RestoredFoldersAreComplete'
  BY RestoreTypes DEF RestoredFoldersAreComplete
<1> QED BY <1>1, <1>2

LEMMA CrashKeeps == ASSUME IInv, Crash PROVE IInv'
<1>1. /\ coordinator' = "down" /\ moves' \in 0..MaxMoves
      /\ task' = [b \in Snapshots |-> "none"]
      /\ UNCHANGED <<host, backup, archive, folder>>
  BY RestoreTypes, MovesAreBounded DEF Crash, Moved
<1>2. /\ import' \in [Restores -> ImportType]
      /\ \A r \in Restores : import'[r].phase \in {import[r].phase, "failed"}
  <2>1. PICK dead \in SUBSET Restores :
          import' = [r \in Restores |->
            [task |-> FALSE, phase |-> IF r \in dead THEN "failed" ELSE import[r].phase]]
    BY DEF Crash
  <2> QED BY <2>1, RestoreTypes DEF ImportType
<1>3. /\ restore' \in [Restores -> RestoreType]
      /\ \A r \in Restores :
           /\ restore'[r].name = restore[r].name
           /\ \/ restore'[r].status = restore[r].status
              \/ restore[r].status = "asked" /\ restore'[r].status = "refused"
  <2>1. restore' = [r \in Restores |->
          IF restore[r].status = "asked" THEN [restore[r] EXCEPT !.status = "refused"]
          ELSE restore[r]]
    BY DEF Crash
  <2> QED BY <2>1, RestoreTypes DEF RestoreType
<1>4. FoldersAreOwned' /\ RestoredFoldersAreComplete'
  BY <1>1, <1>2, <1>3, AbandonKeeps
<1>5. BackupTypeOK'
  BY <1>1, <1>2, <1>3 DEF IInv, BackupTypeOK, RestoreType, ImportType, host
<1>6. LocksHeld'
  BY <1>1 DEF IInv, LocksHeld, host
<1> QED BY <1>1, <1>4, <1>5, <1>6, CopiesStay, RecordStays DEF IInv, host

\* A coordinator that holds the lock meets no helper at work on the server.
LEMMA NobodyWorks ==
  ASSUME IInv, lock \in {"boot", None}
  PROVE  \A b \in Snapshots : helper[b].phase \notin Holding
  BY BootIsNoSnapshot, NoneIsNothing DEF IInv, LocksHeld

LEMMA BootKeeps == ASSUME IInv, Boot PROVE IInv'
<1>1. UNCHANGED <<server, wanted, record, helper, catalog, disk, moves>>
  BY DEF Boot
<1>2. BackupTypeOK'
  BY <1>1 DEF Boot, IInv, BackupTypeOK, catalog, disk
<1>3. LocksHeld'
  <2>1. CASE lock = None /\ lock' = "boot" /\ coordinator' = "recover"
    <3>1. \A b \in Snapshots : helper[b].phase \notin Holding
      BY <2>1, NobodyWorks
    <3> QED BY <1>1, <2>1, <3>1 DEF LocksHeld, Holding
  <2>2. CASE coordinator' = "settle" /\ UNCHANGED lock
    BY <1>1, <2>2 DEF IInv, LocksHeld
  <2> QED BY <2>1, <2>2 DEF Boot
<1> QED BY <1>1, <1>2, <1>3, CopiesStay, FoldersStay, RecordStays DEF IInv, catalog, disk

LEMMA RecoverServerKeeps == ASSUME IInv, RecoverServer PROVE IInv'
<1>1. /\ coordinator = "recover" /\ coordinator' = "unlink" /\ server' = Started(server)
      /\ UNCHANGED <<wanted, record, lock, helper, catalog, disk, moves>>
  BY DEF RecoverServer
<1>2. server' \in ServerType /\ server'.running
  BY <1>1, StartedKeeps DEF IInv
<1>3. lock = "boot"
  BY <1>1 DEF IInv, LocksHeld
<1>4. BackupTypeOK'
  BY <1>1, <1>2 DEF IInv, BackupTypeOK, ServerType, catalog, disk
<1>5. LocksHeld'
  BY <1>1, <1>3 DEF IInv, LocksHeld
<1>6. CopiesAreWhole'
  BY <1>1, <1>3, NobodyWorks DEF IInv, CopiesAreWhole, Holding, catalog, disk
<1>7. StoppedServerIsRecorded'
  BY <1>2 DEF StoppedServerIsRecorded
<1> QED BY <1>1, <1>4, <1>5, <1>6, <1>7, FoldersStay DEF IInv, catalog, disk

LEMMA RecoverRecordKeeps == ASSUME IInv, RecoverRecord PROVE IInv'
<1>1. /\ coordinator = "unlink" /\ coordinator' \in {"settle", "down"} /\ lock' = None
      /\ record' \in {record, FALSE} /\ (~server.running => record' = record)
      /\ UNCHANGED <<server, wanted, helper, catalog, disk, moves>>
  BY Zenon DEF RecoverRecord
<1>2. lock = "boot" /\ record \in BOOLEAN
  BY <1>1 DEF IInv, LocksHeld, BackupTypeOK
<1>3. record' \in BOOLEAN
  BY <1>1, <1>2, Zenon
<1>4. BackupTypeOK'
  BY <1>1, <1>3 DEF IInv, BackupTypeOK, catalog, disk
<1>5. LocksHeld'
  BY <1>1, <1>2, NobodyWorks DEF LocksHeld, Holding
<1>6. StoppedServerIsRecorded'
  <2>1. server' = server /\ wanted' = wanted
    BY <1>1
  <2>2. ~server.running => record' = record
    BY <1>1
  <2>3. ~server.running /\ wanted => record
    BY DEF IInv, StoppedServerIsRecorded
  <2>4. CASE server.running
    BY <2>1, <2>4 DEF StoppedServerIsRecorded
  <2>5. CASE ~wanted
    BY <2>1, <2>5 DEF StoppedServerIsRecorded
  <2>6. CASE ~server.running /\ wanted
    <3>1. record = TRUE
      BY <1>2, <2>3, <2>6
    <3>2. record' = TRUE
      BY <2>2, <2>6, <3>1
    <3> QED BY <3>2 DEF StoppedServerIsRecorded
  <2> QED BY <2>4, <2>5, <2>6
<1> QED BY <1>1, <1>4, <1>5, <1>6, CopiesStay, FoldersStay DEF IInv, catalog, disk

LEMMA RecoverInterruptedKeeps == ASSUME IInv, RecoverInterrupted PROVE IInv'
<1>1. coordinator' = "up" /\ UNCHANGED <<host, task, disk, moves>>
  BY DEF RecoverInterrupted
<1>2. /\ backup' \in [Snapshots -> BackupType]
      /\ \A b \in Snapshots : backup'[b].manifest = backup[b].manifest
  <2>1. backup \in [Snapshots -> BackupType]
    BY DEF IInv, BackupTypeOK, BackupType
  <2>2. backup' = [b \in Snapshots |->
          IF backup[b].status = "running" THEN [backup[b] EXCEPT !.status = "failed"]
          ELSE backup[b]]
    BY DEF RecoverInterrupted
  <2> QED BY <2>1, <2>2 DEF BackupType
<1>3. /\ restore' \in [Restores -> RestoreType]
      /\ \A r \in Restores :
           /\ restore'[r].name = restore[r].name
           /\ restore'[r].status \in {restore[r].status, "failed"}
  <2>1. restore' = [r \in Restores |->
          IF restore[r].status = "running" THEN [restore[r] EXCEPT !.status = "failed"]
          ELSE restore[r]]
    BY DEF RecoverInterrupted
  <2> QED BY <2>1, RestoreTypes DEF RestoreType
<1>4. FoldersAreOwned' /\ RestoredFoldersAreComplete'
  BY <1>1, <1>3, AbandonKeeps, RestoreTypes DEF disk
<1>5. BackupTypeOK'
  BY <1>1, <1>2, <1>3 DEF IInv, BackupTypeOK, BackupType, RestoreType, host, disk
<1>6. LocksHeld'
  BY <1>1 DEF IInv, LocksHeld, host
<1>7. CopiesAreWhole'
  BY <1>1, <1>2 DEF IInv, CopiesAreWhole, host, disk
<1> QED BY <1>1, <1>4, <1>5, <1>6, <1>7, RecordStays DEF IInv, host

LEMMA FailBootKeeps == ASSUME IInv, FailBoot PROVE IInv'
<1>1. /\ coordinator' = "down" /\ lock' = (IF lock = "boot" THEN None ELSE lock)
      /\ moves' \in 0..MaxMoves
      /\ UNCHANGED <<server, wanted, record, helper, catalog, disk>>
  BY RestoreTypes, MovesAreBounded DEF FailBoot, Moved
<1>2. BackupTypeOK'
  BY <1>1 DEF IInv, BackupTypeOK, catalog, disk
<1>3. LocksHeld'
  BY <1>1, BootIsNoSnapshot DEF IInv, LocksHeld
<1> QED BY <1>1, <1>2, <1>3, CopiesStay, FoldersStay, RecordStays DEF IInv, catalog, disk

-----------------------------------------------------------------------------
(* What operators do, and rot. *)

LEMMA OperatorStartKeeps == ASSUME IInv, OperatorStart PROVE IInv'
<1>1. /\ ~server.running /\ server' = Started(server) /\ wanted' = TRUE
      /\ moves' \in 0..MaxMoves
      /\ UNCHANGED <<coordinator, record, lock, catalog, disk>>
  BY RestoreTypes, MovesAreBounded DEF OperatorStart, Moved
<1>2. /\ server' \in ServerType /\ server'.running
      /\ server'.starts = server.starts + 1 /\ server.starts \in Nat
  BY <1>1, StartedKeeps DEF IInv, BackupTypeOK
<1>3. /\ helper' \in [Snapshots -> HelperType]
      /\ \A b \in Snapshots :
           /\ helper'[b].phase = helper[b].phase /\ helper'[b].ok = helper[b].ok
           /\ helper'[b].starts = helper[b].starts
           /\ helper[b].phase # "copy" => helper'[b].whole = helper[b].whole
  <2>1. helper \in [Snapshots -> HelperType]
    BY DEF IInv, BackupTypeOK, HelperType, Phases
  <2>2. helper' = [b \in Snapshots |->
          IF helper[b].phase = "copy" THEN [helper[b] EXCEPT !.whole = FALSE] ELSE helper[b]]
    BY DEF OperatorStart
  <2> QED BY <2>1, <2>2 DEF HelperType
<1>4. BackupTypeOK'
  BY <1>1, <1>2, <1>3
     DEF IInv, BackupTypeOK, ServerType, HelperType, Phases, catalog, disk
<1>5. LocksHeld'
  BY <1>1, <1>3 DEF IInv, LocksHeld
<1>6. CopiesAreWhole'
  <2>1. \A b \in Snapshots : helper[b].phase = "copy" =>
          helper'[b].starts <= server'.starts /\ helper'[b].starts < server'.starts
    <3>1. \A b \in Snapshots : helper[b].starts \in Nat
      BY DEF IInv, BackupTypeOK
    <3> QED BY <1>2, <1>3, <3>1 DEF IInv, CopiesAreWhole
  <2> QED BY <1>1, <1>3, <2>1 DEF IInv, CopiesAreWhole, catalog, disk
<1>7. StoppedServerIsRecorded'
  BY <1>2 DEF StoppedServerIsRecorded
<1> QED BY <1>1, <1>4, <1>5, <1>6, <1>7, FoldersStay DEF IInv, catalog, disk

LEMMA OperatorStopKeeps == ASSUME IInv, OperatorStop PROVE IInv'
<1>1. /\ server' = [server EXCEPT !.running = FALSE] /\ wanted' = FALSE
      /\ moves' \in 0..MaxMoves
      /\ UNCHANGED <<coordinator, record, lock, helper, catalog, disk>>
  BY RestoreTypes, MovesAreBounded DEF OperatorStop, Moved
<1>2. server' \in ServerType /\ server'.starts = server.starts
  BY <1>1 DEF IInv, BackupTypeOK, ServerType
<1>3. BackupTypeOK'
  BY <1>1, <1>2 DEF IInv, BackupTypeOK, ServerType, catalog, disk
<1>4. CopiesAreWhole'
  BY <1>1, <1>2 DEF IInv, CopiesAreWhole, catalog, disk
<1>5. StoppedServerIsRecorded'
  BY <1>1 DEF StoppedServerIsRecorded
<1> QED BY <1>1, <1>3, <1>4, <1>5, LocksStay, FoldersStay DEF IInv, catalog, disk

LEMMA RotKeeps == ASSUME IInv, NEW b \in Snapshots, Rot(b) PROVE IInv'
<1>1. /\ archive' = [archive EXCEPT ![b] = "rotten"] /\ moves' \in 0..MaxMoves
      /\ archive[b] = "whole"
      /\ UNCHANGED <<coordinator, host, catalog, import, folder>>
  BY RestoreTypes, MovesAreBounded DEF Rot, Moved
<1>2. BackupTypeOK'
  BY <1>1 DEF IInv, BackupTypeOK, catalog, host
<1>3. CopiesAreWhole'
  BY <1>1 DEF IInv, BackupTypeOK, CopiesAreWhole, catalog, host
<1> QED BY <1>1, <1>2, <1>3, LocksStay, FoldersStay, RecordStays DEF IInv, catalog, host

-----------------------------------------------------------------------------

LEMMA NextKeeps == IInv /\ [Next]_vars => IInv'
<1> SUFFICES ASSUME IInv, [Next]_vars PROVE IInv'
  OBVIOUS
<1>1. ASSUME NEW b \in Snapshots, Help(b) PROVE IInv'
  BY <1>1, InspectKeeps, AcquireKeeps, WriteRecordKeeps, StopKeeps, CheckStoppedKeeps,
     CopiedKeeps, ResumeKeeps, UnlinkKeeps, ArchiveKeeps DEF Help
<1>2. ASSUME NEW b \in Snapshots, Work(b) PROVE IInv'
  BY <1>2, PublishKeeps, VerifiedKeeps, GiveUpKeeps DEF Work
<1>3. ASSUME NEW b \in Snapshots,
             CreateServer(b) \/ Verify(b) \/ Stumble(b) \/ Kill(b) \/ Rot(b)
      PROVE  IInv'
  BY <1>3, CreateServerKeeps, VerifyKeeps, StumbleKeeps, KillKeeps, RotKeeps
<1>4. ASSUME NEW b \in Snapshots, NEW r \in Restores, NEW f \in Folders,
             ValidateRestore(r, b, f)
      PROVE  IInv'
  BY <1>4, ValidateRestoreKeeps
<1>5. ASSUME NEW r \in Restores, Import(r) PROVE IInv'
  BY <1>5, RestoreStarts, CheckArchiveKeeps, ReserveKeeps, ExtractKeeps,
     FinishRestoreKeeps, FailRestoreKeeps DEF Import
<1>6. CASE Start
  BY <1>6, BootKeeps, RecoverServerKeeps, RecoverRecordKeeps, RecoverInterruptedKeeps
     DEF Start
<1>7. CASE Crash \/ FailBoot \/ OperatorStart \/ OperatorStop
  BY <1>7, CrashKeeps, FailBootKeeps, OperatorStartKeeps, OperatorStopKeeps
<1>8. CASE UNCHANGED vars
  <2>1. /\ UNCHANGED <<coordinator, server, wanted, record, lock, helper>>
        /\ UNCHANGED <<backup, task, restore, archive, import, folder, moves>>
    BY <1>8 DEF vars, host, catalog, disk
  <2>2. BackupTypeOK'
    BY <2>1 DEF IInv, BackupTypeOK
  <2> QED BY <2>1, <2>2, LocksStay, CopiesStay, FoldersStay, RecordStays DEF IInv
<1> QED BY <1>1, <1>2, <1>3, <1>4, <1>5, <1>6, <1>7, <1>8 DEF Next

\* The inductive invariant holds: a helper that works on the server holds the
\* lock and stops it only behind a record, a copy that was torn has seen a
\* later start, and whoever extracts a restore has made its folder itself.
THEOREM Invariant == Spec => []IInv
  BY InitIInv, NextKeeps, PTL DEF Spec

\* Rows, tasks, helpers, archives and folders keep their types, through any
\* faults and restarts.
THEOREM TypeCorrect == Spec => []BackupTypeOK
<1>1. IInv => BackupTypeOK
  BY DEF IInv
<1> QED BY <1>1, Invariant, PTL

\* A server that operators want and that does not run is recorded in
\* .server-snapshot-recovery.json, whichever process died at whatever step.
THEOREM ServerIsRecorded == Spec => []StoppedServerIsRecorded
<1>1. IInv => StoppedServerIsRecorded
  BY DEF IInv
<1> QED BY <1>1, Invariant, PTL

\* A backup that got a manifest was copied from a server that stayed stopped,
\* however often operators start it while it is copied.
THEOREM SnapshotsStayWhole == Spec => []SnapshotsAreWhole
<1>1. IInv => SnapshotsAreWhole
  BY DEF IInv, BackupTypeOK, CopiesAreWhole, SnapshotsAreWhole
<1> QED BY <1>1, Invariant, PTL

\* A restore that succeeded owns a complete folder, also with other restores
\* of that name and processes that outlived an earlier coordinator.
THEOREM FoldersAreComplete == Spec => []RestoredFoldersAreComplete
<1>1. IInv => RestoredFoldersAreComplete
  BY DEF IInv
<1> QED BY <1>1, Invariant, PTL

-----------------------------------------------------------------------------
(* The lock is never left behind, and whoever holds it comes to its end:     *)
(* what a start of the coordinator waits for.                                *)

\* The lock is that of a helper that works on the server, or of a start that
\* recovers it.
LocksAreLive ==
  /\ \A b \in Snapshots : lock = b => helper[b].phase \in Holding
  /\ lock = "boot" => coordinator \in {"recover", "unlink"}

\* A start that has to wait waits for a helper at work, or has nothing to do.
RecoveryIsFree ==
  coordinator = "down" =>
    ~record \/ lock = None \/ \E b \in Snapshots : lock = b /\ helper[b].phase \in Holding

\* The order of the phases of a helper.
Stage ==
  [none |-> 0, inspect |-> 1, lock |-> 2, record |-> 3, stop |-> 4, check |-> 5,
   copy |-> 6, resume |-> 7, unlink |-> 8, archive |-> 9, done |-> 10, failed |-> 10]

HelpersGoForward ==
  [][\A b \in Snapshots : helper'[b].phase # helper[b].phase =>
       Stage[helper'[b].phase] > Stage[helper[b].phase]]_vars

LEMMA Stages ==
  /\ Stage["inspect"] = 1 /\ Stage["lock"] = 2 /\ Stage["record"] = 3
  /\ Stage["stop"] = 4 /\ Stage["check"] = 5 /\ Stage["copy"] = 6 /\ Stage["resume"] = 7
  /\ Stage["unlink"] = 8 /\ Stage["archive"] = 9 /\ Stage["done"] = 10
  /\ Stage["failed"] = 10 /\ Stage["none"] = 0
  BY DEF Stage

\* A backup that was never started has no helper.
Unstarted == \A b \in Snapshots : backup[b].status = "none" => helper[b].phase = "none"

LEMMA InitLive == Init => LocksAreLive /\ Unstarted
  BY NoneIsNothing DEF Init, LocksAreLive, Unstarted

\* A helper that ends gives its lock back.
LEMMA ExitFrees ==
  ASSUME IInv, NEW b \in Snapshots, NEW x \in {"failed", "done"}, Exit(b, x)
  PROVE  /\ \A c \in Snapshots : c # b => helper'[c] = helper[c]
         /\ helper'[b].phase = x /\ lock' # b /\ lock' \in {lock, None}
<1>1. Go(b, x) /\ Free(b) /\ x \in Phases
  BY DEF Exit, Phases
<1> QED BY <1>1, GoKeeps, NoneIsNothing DEF IInv, Free

\* Each step of a helper is a step forward, and a lock it leaves is free.
LEMMA HelperStep ==
  ASSUME IInv, LocksAreLive, NEW b \in Snapshots, Help(b) \/ Stumble(b) \/ Kill(b)
  PROVE  /\ \A c \in Snapshots : c # b => helper'[c] = helper[c]
         /\ Stage[helper'[b].phase] > Stage[helper[b].phase]
         /\ lock' \in {lock, None, b}
         /\ lock' = b => helper'[b].phase \in Holding
         /\ helper[b].phase # "none" /\ UNCHANGED <<coordinator, backup>>
<1>0. helper \in [Snapshots -> HelperType]
  BY DEF IInv, BackupTypeOK, HelperType, Phases
<1>1. UNCHANGED <<coordinator, backup>> /\ helper[b].phase \notin {"none", "done", "failed"}
  BY DEF Help, Stumble, Kill, Inspect, Acquire, WriteRecord, Stop, CheckStopped, Copied,
         Resume, Unlink, Archive, catalog
<1> DEFINE Forward ==
             /\ \A c \in Snapshots : c # b => helper'[c] = helper[c]
             /\ Stage[helper'[b].phase] > Stage[helper[b].phase]
             /\ lock' \in {lock, None, b}
             /\ lock' = b => helper'[b].phase \in Holding
<1> SUFFICES Forward
  BY <1>1
<1>2. ASSUME NEW x \in Phases, Go(b, x)
      PROVE  helper'[b].phase = x /\ \A c \in Snapshots : c # b => helper'[c] = helper[c]
  BY <1>2, GoKeeps DEF IInv
<1>3. CASE \E x \in {"failed", "done"} : Exit(b, x)
  BY <1>1, <1>3, ExitFrees, <1>0, Stages DEF HelperType, Phases
<1>4. CASE Onward(b) /\ helper[b].phase \in {"resume", "unlink"}
  <2>1. CASE Go(b, "archive") /\ UNCHANGED lock
    BY <1>2, <1>4, <2>1, Stages DEF Phases, Holding
  <2> QED BY <1>3, <1>4, <2>1 DEF Onward
<1>5. CASE Inspect(b)
  BY <1>0, <1>5, Stages DEF Inspect, HelperType, LocksAreLive, Holding
<1>6. CASE Acquire(b)
  <2>1. ASSUME NEW x \in {"record", "check", "failed"}, Go(b, x)
        PROVE  /\ helper'[b].phase = x /\ Stage[x] > 2
               /\ \A c \in Snapshots : c # b => helper'[c] = helper[c]
    BY <1>2, <2>1, Stages DEF Phases
  <2>2. Stage[helper[b].phase] = 2 /\ lock # b
    BY <1>6, Stages DEF Acquire, LocksAreLive, Holding
  <2> QED BY <1>6, <2>1, <2>2 DEF Acquire, Holding
<1>7. CASE WriteRecord(b)
  BY <1>2, <1>7, Stages DEF WriteRecord, Phases, Holding
<1>8. CASE Stop(b)
  <2>1. helper[b].phase = "stop" /\ UNCHANGED lock /\ Go(b, "check") /\ "check" \in Phases
    BY <1>8 DEF Stop, Phases
  <2> QED BY <1>2, <2>1, Stages DEF Holding
<1>9. CASE CheckStopped(b)
  <2>1. UNCHANGED lock /\ helper[b].phase = "check"
    BY <1>9 DEF CheckStopped
  <2>2. CASE ~server.running /\ server.clean
    <3>1. helper' = [helper EXCEPT ![b] =
            [helper[b] EXCEPT !.phase = "copy", !.starts = server.starts, !.whole = TRUE]]
      BY <1>9, <2>2 DEF CheckStopped
    <3> QED BY <1>0, <2>1, <3>1, Stages DEF HelperType, Holding
  <2>3. CASE ~(~server.running /\ server.clean)
    <3>1. helper' = [helper EXCEPT ![b] =
            [helper[b] EXCEPT !.phase = "resume", !.ok = FALSE]]
      BY <1>9, <2>3 DEF CheckStopped
    <3> QED BY <1>0, <2>1, <3>1, Stages DEF HelperType, Holding
  <2> QED BY <2>2, <2>3
<1>10. CASE Copied(b)
  BY <1>0, <1>10, Stages DEF Copied, HelperType, Holding
<1>11. CASE Resume(b)
  <2>1. CASE helper[b].was
    BY <1>2, <1>11, <2>1, Stages DEF Resume, Phases, Holding
  <2>2. CASE ~helper[b].was
    BY <1>4, <1>11, <2>2 DEF Resume
  <2> QED BY <2>1, <2>2
<1>12. CASE Unlink(b)
  BY <1>3, <1>4, <1>12 DEF Unlink
<1>13. CASE Archive(b)
  BY <1>3, <1>13 DEF Archive
<1>14. CASE Stumble(b)
  <2>1. CASE /\ helper[b].phase \in {"stop", "check", "copy"}
             /\ helper' = [helper EXCEPT ![b] = [@ EXCEPT !.phase = "resume", !.ok = FALSE]]
             /\ UNCHANGED lock
    BY <1>0, <2>1, Stages DEF HelperType, Holding
  <2> QED BY <1>3, <1>14, <2>1 DEF Stumble
<1>15. CASE Kill(b)
  BY <1>3, <1>15 DEF Kill
<1> QED BY <1>1, <1>5, <1>6, <1>7, <1>8, <1>9, <1>10, <1>11, <1>12, <1>13, <1>14, <1>15
        DEF Help

\* All other steps leave the phases alone, except the one that starts a helper.
LEMMA OtherSteps ==
  ASSUME IInv, Unstarted, [Next]_vars,
         ~ \E b \in Snapshots : Help(b) \/ Stumble(b) \/ Kill(b)
  PROVE  /\ \/ \A b \in Snapshots : helper'[b].phase = helper[b].phase
            \/ \E b \in Snapshots :
                 /\ helper[b].phase = "none" /\ helper'[b].phase = "inspect"
                 /\ backup'[b].status # "none"
                 /\ \A c \in Snapshots : c # b => helper'[c] = helper[c]
         /\ \/ lock' \in {lock, None}
            \/ lock' = "boot" /\ coordinator' = "recover"
         /\ \A b \in Snapshots : backup'[b].status = "none" => backup[b].status = "none"
<1>0. /\ helper \in [Snapshots -> HelperType]
      /\ backup \in [Snapshots -> BackupType]
  BY DEF IInv, BackupTypeOK, HelperType, Phases, BackupType
<1>1. ASSUME NEW b \in Snapshots, CreateServer(b)
      PROVE  /\ helper[b].phase = "none" /\ helper'[b].phase = "inspect"
             /\ backup'[b].status = "running" /\ UNCHANGED lock
             /\ \A c \in Snapshots : c # b => helper'[c] = helper[c] /\ backup'[c] = backup[c]
  <2>1. helper[b].phase = "none" /\ Go(b, "inspect") /\ "inspect" \in Phases
    BY <1>1 DEF CreateServer, Unstarted, Phases
  <2>2. backup' = [backup EXCEPT ![b].status = "running"] /\ UNCHANGED lock
    BY <1>1 DEF CreateServer
  <2> QED BY <1>0, <2>1, <2>2, GoKeeps DEF IInv, BackupType
<1>2. ASSUME NEW b \in Snapshots, Work(b) \/ Verify(b) \/ Rot(b)
      PROVE  UNCHANGED <<helper, lock>> /\
             \A c \in Snapshots : backup'[c].status = "none" => backup[c].status = "none"
  <2>1. UNCHANGED <<helper, lock>>
    BY <1>2 DEF Work, Publish, Verified, GiveUp, Verify, Rot, host
  <2>2. CASE Publish(b)
    BY <1>0, <2>1, <2>2 DEF Publish, BackupType
  <2>3. CASE Verified(b)
    BY <1>0, <2>1, <2>3 DEF Verified, Settle, BackupType
  <2>4. CASE GiveUp(b)
    BY <1>0, <2>1, <2>4 DEF GiveUp, Settle, BackupType
  <2>5. CASE Verify(b)
    BY <1>0, <2>1, <2>5 DEF Verify, BackupType
  <2>6. CASE Rot(b)
    BY <2>1, <2>6 DEF Rot, catalog
  <2> QED BY <1>2, <2>1, <2>2, <2>3, <2>4, <2>5, <2>6 DEF Work
<1>3. ASSUME \/ \E b \in Snapshots, r \in Restores, f \in Folders : ValidateRestore(r, b, f)
             \/ \E r \in Restores : Import(r)
             \/ Crash \/ OperatorStop
      PROVE  UNCHANGED <<helper, lock, backup>>
  BY <1>3 DEF ValidateRestore, Import, Restore, CheckArchive, Reserve, Extract,
              FinishRestore, FailRestore, Crash, OperatorStop, host, catalog
<1>4. CASE OperatorStart
  <2>1. UNCHANGED <<lock, backup>>
    BY <1>4 DEF OperatorStart, catalog
  <2>2. helper' = [b \in Snapshots |->
          IF helper[b].phase = "copy" THEN [helper[b] EXCEPT !.whole = FALSE] ELSE helper[b]]
    BY <1>4 DEF OperatorStart
  <2>3. \A b \in Snapshots : helper'[b].phase = helper[b].phase
    BY <1>0, <2>2 DEF HelperType
  <2> QED BY <2>1, <2>3
<1>5. CASE Boot \/ RecoverServer \/ RecoverRecord \/ FailBoot
  BY <1>5 DEF Boot, RecoverServer, RecoverRecord, FailBoot, catalog
<1>6. CASE RecoverInterrupted
  <2>1. UNCHANGED <<helper, lock>>
    BY <1>6 DEF RecoverInterrupted, host
  <2>2. backup' = [b \in Snapshots |->
          IF backup[b].status = "running" THEN [backup[b] EXCEPT !.status = "failed"]
          ELSE backup[b]]
    BY <1>6 DEF RecoverInterrupted
  <2> QED BY <1>0, <2>1, <2>2 DEF BackupType
<1>7. CASE UNCHANGED vars
  BY <1>7 DEF vars, host, catalog
<1>8. CASE \E b \in Snapshots : CreateServer(b)
  BY <1>1, <1>8
<1>9. CASE \E b \in Snapshots : Work(b) \/ Verify(b) \/ Rot(b)
  BY <1>2, <1>9
<1> QED BY <1>3, <1>4, <1>5, <1>6, <1>7, <1>8, <1>9 DEF Next, Start

\* A start that ends, well or badly, gives the lock back.
LEMMA BootFrees ==
  ASSUME IInv, LocksAreLive, [Next]_vars, lock' = "boot",
         ~ \E b \in Snapshots : Help(b) \/ Stumble(b) \/ Kill(b)
  PROVE  coordinator' \in {"recover", "unlink"}
<1>1. ASSUME lock' = lock, UNCHANGED coordinator PROVE coordinator' \in {"recover", "unlink"}
  BY <1>1 DEF LocksAreLive
<1>2. CASE \E b \in Snapshots :
             \/ CreateServer(b) \/ Work(b) \/ Verify(b) \/ Rot(b)
             \/ \E r \in Restores, f \in Folders : ValidateRestore(r, b, f)
  BY <1>1, <1>2 DEF CreateServer, Work, Publish, Verified, GiveUp, Verify, Rot,
                    ValidateRestore, host
<1>3. CASE \E r \in Restores : Import(r)
  BY <1>1, <1>3 DEF Import, Restore, CheckArchive, Reserve, Extract, FinishRestore,
                    FailRestore, host
<1>4. CASE OperatorStart \/ OperatorStop \/ UNCHANGED vars
  BY <1>1, <1>4 DEF OperatorStart, OperatorStop, vars, host
<1>5. CASE Crash \/ RecoverInterrupted
  BY <1>5 DEF Crash, RecoverInterrupted, LocksAreLive, host
<1>6. CASE Boot \/ RecoverServer
  BY <1>6 DEF Boot, RecoverServer, LocksAreLive
<1>7. CASE RecoverRecord \/ FailBoot
  BY <1>7, NoneIsNothing DEF RecoverRecord, FailBoot
<1> QED BY <1>2, <1>3, <1>4, <1>5, <1>6, <1>7 DEF Next, Start

LEMMA NextLive ==
  ASSUME IInv, LocksAreLive, Unstarted, [Next]_vars
  PROVE  /\ LocksAreLive' /\ Unstarted'
         /\ \A b \in Snapshots : helper'[b].phase # helper[b].phase =>
              Stage[helper'[b].phase] > Stage[helper[b].phase]
<1>1. CASE \E b \in Snapshots : Help(b) \/ Stumble(b) \/ Kill(b)
  <2>1. PICK b \in Snapshots : Help(b) \/ Stumble(b) \/ Kill(b)
    BY <1>1
  <2>2. /\ \A c \in Snapshots : c # b => helper'[c] = helper[c]
        /\ Stage[helper'[b].phase] > Stage[helper[b].phase]
        /\ lock' \in {lock, None, b}
        /\ lock' = b => helper'[b].phase \in Holding
        /\ helper[b].phase # "none" /\ UNCHANGED <<coordinator, backup>>
    BY <2>1, HelperStep
  <2>3. LocksAreLive'
    BY <2>2, NoneIsNothing, BootIsNoSnapshot DEF LocksAreLive
  <2>4. Unstarted'
    BY <2>2 DEF Unstarted
  <2> QED BY <2>2, <2>3, <2>4
<1>2. CASE ~ \E b \in Snapshots : Help(b) \/ Stumble(b) \/ Kill(b)
  <2>1. /\ \/ \A b \in Snapshots : helper'[b].phase = helper[b].phase
           \/ \E b \in Snapshots :
                /\ helper[b].phase = "none" /\ helper'[b].phase = "inspect"
                /\ backup'[b].status # "none"
                /\ \A c \in Snapshots : c # b => helper'[c] = helper[c]
        /\ \/ lock' \in {lock, None}
           \/ lock' = "boot" /\ coordinator' = "recover"
        /\ \A b \in Snapshots : backup'[b].status = "none" => backup[b].status = "none"
    BY <1>2, OtherSteps
  <2>2. lock' = "boot" => coordinator' \in {"recover", "unlink"}
    BY <1>2, BootFrees
  <2>3. \A b \in Snapshots :
          helper'[b].phase = helper[b].phase \/ helper[b].phase = "none"
    BY <2>1
  <2>4. LocksAreLive'
    BY <2>1, <2>2, <2>3, NoneIsNothing, BootIsNoSnapshot DEF LocksAreLive, Holding
  <2>5. Unstarted'
    BY <2>1 DEF Unstarted
  <2>6. \A b \in Snapshots : helper'[b].phase # helper[b].phase =>
          Stage[helper'[b].phase] > Stage[helper[b].phase]
    BY <2>1, Stages
  <2> QED BY <2>4, <2>5, <2>6
<1> QED BY <1>1, <1>2

LEMMA Live == Spec => [](IInv /\ LocksAreLive /\ Unstarted)
<1>1. IInv /\ LocksAreLive /\ Unstarted /\ [Next]_vars => LocksAreLive' /\ Unstarted'
  BY NextLive
<1> QED BY <1>1, InitLive, Invariant, PTL DEF Spec

\* No process leaves the lock behind: it is free, or whoever holds it is at work
\* on the server, and a start that has to wait waits for such a helper.
THEOREM RecoveryIsNotBlocked == Spec => [](LocksAreLive /\ RecoveryIsFree)
<1>1. IInv /\ LocksAreLive => RecoveryIsFree
  BY DEF IInv, BackupTypeOK, LocksAreLive, RecoveryIsFree
<1> QED BY <1>1, Live, PTL

\* No helper ever goes back a phase, over faults and restarts of the
\* coordinator: after ten steps at most it has ended, and the lock is free for
\* the start that waits for it.
THEOREM HelpersEnd == Spec => HelpersGoForward
<1>1. IInv /\ LocksAreLive /\ Unstarted /\ [Next]_vars =>
        [\A b \in Snapshots : helper'[b].phase # helper[b].phase =>
           Stage[helper'[b].phase] > Stage[helper[b].phase]]_vars
  BY NextLive
<1> QED BY <1>1, Live, PTL DEF Spec, HelpersGoForward

-----------------------------------------------------------------------------
(* What was restored is a whole snapshot. *)

\* A folder without its marker holds what a backup with a manifest holds, and
\* that backup was copied from a stopped server.
RestoredFromSnapshots ==
  \A f \in Folders : folder[f] # None /\ folder[f].whole =>
    LET b == restore[folder[f].by].backup IN
    b \in Snapshots /\ archive[b] \in {"whole", "rotten"}

\* A backup counts as one only with a manifest.
Manifests ==
  \A b \in Snapshots :
    backup[b].status = "succeeded" \/ task[b] = "verify" => backup[b].manifest

\* Whoever imports or has made a folder was asked to, for such a backup.
Sourced(r) ==
  restore[r].backup \in Snapshots /\ backup[restore[r].backup].manifest

RestoreSources ==
  /\ \A r \in Restores :
       restore[r].status \notin {"none", "refused", "failed"} \/ import[r].phase \in Importing
         => Sourced(r)
  /\ \A f \in Folders : folder[f] # None =>
       /\ restore[folder[f].by].status \notin {"none", "asked", "refused"}
       /\ Sourced(folder[f].by)

LEMMA InitSources == Init => Manifests /\ RestoreSources
  BY DEF Init, Manifests, RestoreSources, Importing

\* A manifest is never taken back.
LEMMA NextManifests ==
  ASSUME IInv, Manifests, Unstarted, [Next]_vars
  PROVE  /\ Manifests'
         /\ \A b \in Snapshots : backup[b].manifest => backup'[b].manifest
<1>0. /\ backup \in [Snapshots -> BackupType]
      /\ task \in [Snapshots -> {"none", "snapshot", "verify"}]
  BY DEF IInv, BackupTypeOK, BackupType
<1>1. CASE UNCHANGED <<backup, task>>
  BY <1>1 DEF Manifests
<1>2. ASSUME NEW b \in Snapshots,
             CreateServer(b) \/ Publish(b) \/ Verify(b) \/ Verified(b) \/ GiveUp(b)
      PROVE  /\ Manifests'
             /\ \A c \in Snapshots : backup[c].manifest => backup'[c].manifest
  <2>1. CASE CreateServer(b)
    BY <1>0, <2>1 DEF CreateServer, Manifests, BackupType
  <2>2. CASE Publish(b)
    BY <1>0, <2>2 DEF Publish, Manifests, BackupType
  <2>3. CASE Verify(b)
    BY <1>0, <2>3 DEF Verify, Manifests, BackupType
  <2>4. CASE Verified(b)
    BY <1>0, <2>4 DEF Verified, Settle, Manifests, BackupType
  <2>5. CASE GiveUp(b)
    BY <1>0, <2>5 DEF GiveUp, Settle, Manifests, BackupType
  <2> QED BY <1>2, <2>1, <2>2, <2>3, <2>4, <2>5
<1>3. CASE Crash
  <2>1. task' = [b \in Snapshots |-> "none"] /\ UNCHANGED backup
    BY <1>3 DEF Crash
  <2> QED BY <2>1 DEF Manifests
<1>4. CASE RecoverInterrupted
  <2>1. /\ UNCHANGED task
        /\ backup' = [b \in Snapshots |->
             IF backup[b].status = "running" THEN [backup[b] EXCEPT !.status = "failed"]
             ELSE backup[b]]
    BY <1>4 DEF RecoverInterrupted
  <2> QED BY <1>0, <2>1 DEF Manifests, BackupType
<1>5. CASE \/ \E b \in Snapshots :
                \/ Help(b) \/ Stumble(b) \/ Kill(b) \/ Rot(b)
                \/ \E r \in Restores, f \in Folders : ValidateRestore(r, b, f)
           \/ \E r \in Restores : Import(r)
  BY <1>1, <1>5
     DEF Help, Inspect, Acquire, WriteRecord, Stop, CheckStopped, Copied, Resume, Unlink,
         Archive, Stumble, Kill, Rot, ValidateRestore, Import, Restore, CheckArchive,
         Reserve, Extract, FinishRestore, FailRestore, catalog
<1>6. CASE \/ Boot \/ RecoverServer \/ RecoverRecord \/ FailBoot
           \/ OperatorStart \/ OperatorStop \/ UNCHANGED vars
  BY <1>1, <1>6
     DEF Boot, RecoverServer, RecoverRecord, FailBoot, OperatorStart, OperatorStop,
         vars, catalog
<1> QED BY <1>2, <1>3, <1>4, <1>5, <1>6 DEF Next, Start, Work

\* What a restore is of stays once it was asked for.
LEMMA NextRestores ==
  ASSUME IInv, Manifests, RestoreSources, Unstarted, [Next]_vars
  PROVE  RestoreSources'
<1>0. /\ restore \in [Restores -> RestoreType] /\ import \in [Restores -> ImportType]
      /\ folder \in [Folders -> FolderType] /\ FoldersAreOwned
      /\ \A f \in Folders : folder[f] # None => folder[f].by \in Restores
  <2>1. \A x \in FolderType : x # None => x.by \in Restores
    BY DEF FolderType
  <2> QED BY <2>1, RestoreTypes
<1>1. \A b \in Snapshots : backup[b].manifest => backup'[b].manifest
  BY NextManifests
\* Requests keep their backup, and go on only when their source is known.
<1>2. ASSUME \A r \in Restores :
               /\ restore'[r].backup = restore[r].backup
               /\ \/ restore'[r].status = restore[r].status
                  \/ /\ restore[r].status \in {"asked", "running"}
                     /\ restore'[r].status \in {"running", "succeeded", "failed"}
                  \/ /\ restore[r].status = "asked" /\ restore'[r].status = "refused"
               /\ import'[r].phase \in Importing =>
                    import[r].phase \in Importing \/ restore[r].status = "asked",
             \A f \in Folders : folder'[f] # None =>
               \/ folder[f] # None /\ folder'[f].by = folder[f].by
               \/ folder'[f].by \in Restores /\ import[folder'[f].by].phase \in Importing
      PROVE  RestoreSources'
  <2>1. \A r \in Restores : Sourced(r) => Sourced(r)'
    BY <1>1, <1>2 DEF Sourced
  <2>2. \A r \in Restores :
          restore'[r].status \notin {"none", "refused", "failed"}
            \/ import'[r].phase \in Importing => Sourced(r)
    BY <1>2 DEF RestoreSources
  <2>3. ASSUME NEW f \in Folders, folder'[f] # None
        PROVE  /\ restore'[folder'[f].by].status \notin {"none", "asked", "refused"}
               /\ Sourced(folder'[f].by) /\ folder'[f].by \in Restores
    <3>1. CASE folder[f] # None /\ folder'[f].by = folder[f].by
      BY <1>0, <1>2, <3>1 DEF RestoreSources
    <3>2. CASE folder'[f].by \in Restores /\ import[folder'[f].by].phase \in Importing
      BY <1>0, <1>2, <3>2 DEF RestoreSources, FoldersAreOwned
    <3> QED BY <1>2, <2>3, <3>1, <3>2
  <2> QED BY <2>1, <2>2, <2>3 DEF RestoreSources
<1>3. CASE UNCHANGED <<restore, import, folder>>
  BY <1>0, <1>2, <1>3
<1>4. ASSUME NEW r \in Restores, NEW b \in Snapshots, NEW f \in Folders,
             ValidateRestore(r, b, f)
      PROVE  RestoreSources'
  <2> DEFINE x == [status |-> "asked", backup |-> b, name |-> f]
  <2>1. /\ restore[r].status = "none" /\ backup[b].manifest
        /\ restore' = [restore EXCEPT ![r] = x]
        /\ UNCHANGED <<backup, import, folder>>
    BY <1>4 DEF ValidateRestore, Manifests, disk
  <2>2. /\ x.status = "asked" /\ x.backup = b /\ restore'[r] = x
        /\ \A q \in Restores : q # r => restore'[q] = restore[q]
    BY <1>0, <2>1
  <2> HIDE DEF x
  <2>3. \A g \in Folders : folder[g] # None => folder[g].by # r
    BY <2>1 DEF RestoreSources
  <2>4. import[r].phase \notin Importing
    BY <1>0, <2>1 DEF FoldersAreOwned
  <2> QED BY <1>0, <2>1, <2>2, <2>3 DEF RestoreSources, Sourced
<1>5. ASSUME NEW r \in Restores, Import(r) PROVE RestoreSources'
  <2>1. CASE Restore(r)
    <3>1. restore[r].status = "asked" /\ UNCHANGED folder
      BY <2>1 DEF Restore
    <3>2. CASE restore' = [restore EXCEPT ![r].status = "refused"] /\ UNCHANGED import
      BY <1>0, <1>2, <3>1, <3>2 DEF RestoreType
    <3>3. CASE /\ restore' = [restore EXCEPT ![r].status = "running"]
               /\ import' = [import EXCEPT ![r] = [task |-> TRUE, phase |-> "check"]]
      BY <1>0, <1>2, <3>1, <3>3 DEF RestoreType, ImportType, Importing
    <3> QED BY <2>1, <3>2, <3>3 DEF Restore
  <2>2. CASE CheckArchive(r)
    BY <1>0, <1>2, <2>2 DEF CheckArchive, catalog, ImportType, Importing
  <2>3. CASE Reserve(r)
    <3>1. /\ UNCHANGED restore /\ import[r].phase = "reserve"
          /\ \A q \in Restores : import'[q].phase \in Importing => import[q].phase \in Importing
      BY <1>0, <2>3 DEF Reserve, catalog, ImportType, Importing
    <3>2. CASE folder' = [folder EXCEPT ![restore[r].name] = [by |-> r, whole |-> FALSE]]
      BY <1>0, <1>2, <3>1, <3>2 DEF Importing
    <3>3. CASE UNCHANGED folder
      BY <1>0, <1>2, <3>1, <3>3
    <3> QED BY <2>3, <3>2, <3>3 DEF Reserve
  <2>4. CASE Extract(r)
    <3>1. /\ UNCHANGED restore
          /\ \A q \in Restores : import'[q].phase \in Importing => import[q].phase \in Importing
      BY <1>0, <2>4 DEF Extract, catalog, ImportType, Importing
    <3>2. CASE folder' = [folder EXCEPT ![restore[r].name].whole = TRUE]
      <4>1. /\ folder[restore[r].name] # None /\ restore[r].name \in Folders
            /\ folder[restore[r].name] \in [by : Restores, whole : BOOLEAN]
        BY <1>0, <2>4 DEF Extract, FoldersAreOwned, Importing, FolderType
      <4>2. \A f \in Folders : folder'[f] # None =>
              folder[f] # None /\ folder'[f].by = folder[f].by
        BY <1>0, <3>2, <4>1
      <4> QED BY <1>2, <3>1, <4>2
    <3>3. CASE UNCHANGED folder
      BY <1>0, <1>2, <3>1, <3>3
    <3> QED BY <2>4, <3>2, <3>3 DEF Extract
  <2>5. CASE FinishRestore(r)
    BY <1>0, <1>2, <2>5 DEF FinishRestore, RestoreType, ImportType
  <2>6. CASE FailRestore(r)
    BY <1>0, <1>2, <2>6 DEF FailRestore, RestoreType, ImportType, Importing
  <2> QED BY <1>5, <2>1, <2>2, <2>3, <2>4, <2>5, <2>6 DEF Import
<1>6. CASE Crash
  <2>1. UNCHANGED folder
    BY <1>6 DEF Crash
  <2>2. restore' = [r \in Restores |->
          IF restore[r].status = "asked" THEN [restore[r] EXCEPT !.status = "refused"]
          ELSE restore[r]]
    BY <1>6 DEF Crash
  <2>3. \A r \in Restores : import'[r].phase \in {import[r].phase, "failed"}
    BY <1>6 DEF Crash
  <2> QED BY <1>0, <1>2, <2>1, <2>2, <2>3 DEF RestoreType, Importing
<1>7. CASE RecoverInterrupted
  <2>1. UNCHANGED <<import, folder>>
    BY <1>7 DEF RecoverInterrupted, disk
  <2>2. restore' = [r \in Restores |->
          IF restore[r].status = "running" THEN [restore[r] EXCEPT !.status = "failed"]
          ELSE restore[r]]
    BY <1>7 DEF RecoverInterrupted
  <2> QED BY <1>0, <1>2, <2>1, <2>2 DEF RestoreType
<1>8. CASE \E b \in Snapshots :
             \/ Help(b) \/ Stumble(b) \/ Kill(b) \/ Rot(b)
             \/ CreateServer(b) \/ Verify(b) \/ Work(b)
  BY <1>3, <1>8
     DEF Help, Inspect, Acquire, WriteRecord, Stop, CheckStopped, Copied, Resume, Unlink,
         Archive, Stumble, Kill, Rot, CreateServer, Verify, Work, Publish, Verified, GiveUp,
         Settle, catalog, disk
<1>9. CASE \/ Boot \/ RecoverServer \/ RecoverRecord \/ FailBoot
           \/ OperatorStart \/ OperatorStop \/ UNCHANGED vars
  BY <1>3, <1>9
     DEF Boot, RecoverServer, RecoverRecord, FailBoot, OperatorStart, OperatorStop,
         vars, catalog, disk
<1> QED BY <1>4, <1>5, <1>6, <1>7, <1>8, <1>9 DEF Next, Start

\* A complete folder is the copy of a snapshot that was taken while the server
\* stood still: whichever verification, failure, restart or rot of the archive
\* comes between the copy and the restore.
THEOREM RestoresAreOfSnapshots == Spec => []RestoredFromSnapshots
<1>1. IInv /\ Manifests /\ RestoreSources /\ Unstarted /\ [Next]_vars =>
        Manifests' /\ RestoreSources'
  BY NextManifests, NextRestores
<1>2. IInv /\ RestoreSources => RestoredFromSnapshots
  BY DEF IInv, BackupTypeOK, CopiesAreWhole, RestoreSources, Sourced, RestoredFromSnapshots
<1> QED BY <1>1, <1>2, InitSources, Live, PTL DEF Spec
=============================================================================
