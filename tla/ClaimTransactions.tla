------------------------- MODULE ClaimTransactions -------------------------
(***************************************************************************)
(* PipelineQueue takes a claim as one step.  Here claim_inner and          *)
(* remove_runner (src/src/ci/db.rs) run statement by statement under READ  *)
(* COMMITTED, between each other and the one-statement transactions of the *)
(* runners table, with the row locks and the advisory lock they take.  It  *)
(* is about pipelines without needs: the statement of a claim that fails   *)
(* dependents finds none.                                                  *)
(***************************************************************************)
EXTENDS PipelineQueue

CONSTANTS Txs, NoTx, NoPipeline,
          Legacy,      \* runners whose version does not identify its claims
          Generations  \* bound: how often one runner's row may be inserted

ASSUME TransactionAssumption ==
  /\ NoTx \notin Txs /\ NoPipeline \notin Pipelines
  /\ Generations \in Nat /\ Legacy \subseteq Workers
  /\ \A c \in Catalogs : \A p \in Pipelines : c[p].needs = {}

VARIABLES row,       \* runners: the row of each runner
          rowLock,   \* the transaction that holds the lock of that row
          advisory,  \* the one that holds the advisory lock of that runner
          tx         \* the transactions of claims and removals

runners == <<row, rowLock, advisory, tx>>
allVars == <<definition, status, worker, request, lease, cancelRequested, job,
             row, rowLock, advisory, tx>>

\* generation tells a row from the row that a removed runner registers later.
NoRow(n) == [exists |-> FALSE, generation |-> n, draining |-> FALSE, online |-> FALSE]

Ended == [at |-> "ended", w |-> NoWorker, r |-> NoRequest, registered |-> FALSE,
          draining |-> FALSE, chosen |-> NoPipeline, busy |-> FALSE, saw |-> 0]

ClaimInit ==
  /\ Init
  /\ row = [w \in Workers |-> NoRow(0)]
  /\ rowLock = [w \in Workers |-> NoTx]
  /\ advisory = [w \in Workers |-> NoTx]
  /\ tx = [t \in Txs |-> Ended]

-----------------------------------------------------------------------------
Exists(w) == row[w].exists
Unlocked(w) == rowLock[w] = NoTx
Locked == {tx[t].chosen : t \in Txs}  \* pipeline rows with a change to commit

Goes(t, new) == tx' = [tx EXCEPT ![t] = new]

\* The end of a transaction, whether it commits or rolls back, frees its locks.
Ends(t) ==
  /\ Goes(t, Ended)
  /\ rowLock' = [w \in Workers |-> IF rowLock[w] = t THEN NoTx ELSE rowLock[w]]
  /\ advisory' = [w \in Workers |-> IF advisory[w] = t THEN NoTx ELSE advisory[w]]

-----------------------------------------------------------------------------
(* claim_inner.                                                            *)

\* A runner's version decides which of the two routes all its claims take.
BeginClaim(t, w, r) ==
  /\ tx[t] = Ended
  /\ r = NoRequest <=> w \in Legacy
  /\ Goes(t, [Ended EXCEPT !.at = "claim", !.w = w, !.r = r])
  /\ UNCHANGED <<vars, row, rowLock, advisory>>

\* What follows UPDATE runners SET last_claim_at ... RETURNING draining.
Touched(t) ==
  LET me == tx[t] IN
  [me EXCEPT !.at = IF me.r = NoRequest THEN "assign" ELSE "lock",
             !.registered = Exists(me.w), !.draining = row[me.w].draining]

\* Mutant: draining is read without taking the lock of the row.
ReadRunner(t) ==
  /\ tx[t].at = "claim"
  /\ Goes(t, Touched(t))
  /\ UNCHANGED <<vars, row, rowLock, advisory>>

\* It waits for the lock of the row and keeps it; without a row it locks nothing.
LockRunner(t) ==
  /\ tx[t].at = "claim"
  /\ Unlocked(tx[t].w)
  /\ Goes(t, Touched(t))
  /\ rowLock' = IF Exists(tx[t].w) THEN [rowLock EXCEPT ![tx[t].w] = t] ELSE rowLock
  /\ UNCHANGED <<vars, row, advisory>>

\* Mutant: claims of one runner are serialized by its row alone.
LockNothing(t) ==
  /\ tx[t].at = "lock"
  /\ Goes(t, [tx[t] EXCEPT !.at = "check"])
  /\ UNCHANGED <<vars, row, rowLock, advisory>>

LockRequests(t) ==
  /\ tx[t].at = "lock"
  /\ advisory[tx[t].w] = NoTx
  /\ advisory' = [advisory EXCEPT ![tx[t].w] = t]
  /\ Goes(t, [tx[t] EXCEPT !.at = "check"])
  /\ UNCHANGED <<vars, row, rowLock>>

\* A request that was seen before, or a busy runner, is answered without a
\* fresh assignment.
CheckRequest(t) ==
  /\ tx[t].at = "check"
  /\ IF Assigned(tx[t].w, tx[t].r) # {} \/ Busy(tx[t].w)
       THEN Ends(t)
       ELSE Goes(t, [tx[t] EXCEPT !.at = "assign"]) /\ UNCHANGED <<rowLock, advisory>>
  /\ UNCHANGED <<vars, row>>

RefuseDraining(t) ==
  /\ tx[t].at = "assign" /\ tx[t].draining
  /\ Ends(t)
  /\ UNCHANGED <<vars, row>>

SystemOf(w) == IF Exists(w) THEN Systems ELSE {NoSystem}

\* The row is locked and changed; the change is seen when it is committed.
Assign(t, supports) ==
  /\ tx[t].at = "assign" /\ ~ tx[t].draining
  /\ \E s \in SystemOf(tx[t].w) : \E p \in Claimable(s, supports) \ Locked :
       Goes(t, [tx[t] EXCEPT !.at = "commit", !.chosen = p])
  /\ UNCHANGED <<vars, row, rowLock, advisory>>

AssignNothing(t) ==
  /\ tx[t].at = "assign" /\ ~ tx[t].draining
  /\ Ends(t)
  /\ UNCHANGED <<vars, row>>

CommitClaim(t) ==
  /\ tx[t].at = "commit"
  /\ LET p == tx[t].chosen IN
       /\ status' = [status EXCEPT ![p] = "running"]
       /\ worker' = [worker EXCEPT ![p] = tx[t].w]
       /\ request' = [request EXCEPT ![p] = tx[t].r]
       /\ lease' = [lease EXCEPT ![p] = LeaseTicks]
  /\ Ends(t)
  /\ UNCHANGED <<definition, cancelRequested, job, row>>

\* The caller has gone: the handler is dropped and its transaction rolls back.
Abort(t) ==
  /\ tx[t] # Ended
  /\ Ends(t)
  /\ UNCHANGED <<vars, row>>

-----------------------------------------------------------------------------
(* remove_runner.                                                          *)

RunsFor(w) == \E p \in Pipelines : Running(p) /\ worker[p] = w

\* SELECT ... EXISTS(...) FOR UPDATE takes its snapshot, and then waits.
BeginRemove(t, w) ==
  /\ tx[t] = Ended /\ Exists(w)
  /\ Goes(t, [Ended EXCEPT !.at = "remove", !.w = w, !.busy = RunsFor(w),
                           !.saw = row[w].generation])
  /\ UNCHANGED <<vars, row, rowLock, advisory>>

\* With the lock it has the newest version of the row, but the EXISTS is still
\* that of the snapshot.
Remove(t) ==
  /\ tx[t].at = "remove" /\ Unlocked(tx[t].w)
  /\ LET w == tx[t].w IN
       IF /\ Exists(w) /\ row[w].generation = tx[t].saw
          /\ ~ tx[t].busy /\ ~ row[w].online
         THEN row' = [row EXCEPT ![w] = NoRow(@.generation)]
         ELSE UNCHANGED row
  /\ Ends(t)
  /\ UNCHANGED vars

-----------------------------------------------------------------------------
(* One-statement transactions on a runner's row, and the clock.            *)

\* A heartbeat of the runner, too, is one UPDATE of the row, to online.
Register(w) ==
  /\ Unlocked(w)
  /\ \/ Exists(w) /\ row' = [row EXCEPT ![w].online = TRUE]
     \/ /\ ~ Exists(w) /\ row[w].generation < Generations
        /\ row' = [row EXCEPT ![w] = [exists |-> TRUE, generation |-> @.generation + 1,
                                     draining |-> FALSE, online |-> TRUE]]
  /\ UNCHANGED <<vars, rowLock, advisory, tx>>

SetDraining(w, draining) ==
  /\ Exists(w) /\ Unlocked(w)
  /\ row' = [row EXCEPT ![w].draining = draining]
  /\ UNCHANGED <<vars, rowLock, advisory, tx>>

\* Stopped, or not seen for 15 seconds.
GoOffline(w) ==
  /\ Exists(w)
  /\ row' = [row EXCEPT ![w].online = FALSE]
  /\ UNCHANGED <<vars, rowLock, advisory, tx>>

-----------------------------------------------------------------------------
ClaimTxStep(t) ==
  \/ \E w \in Workers, r \in Requests \cup {NoRequest} : BeginClaim(t, w, r)
  \/ LockRunner(t) \/ LockRequests(t) \/ CheckRequest(t) \/ RefuseDraining(t)
  \/ \E supports \in BOOLEAN : Assign(t, supports)
  \/ AssignNothing(t) \/ CommitClaim(t) \/ Abort(t)
  \/ \E w \in Workers : BeginRemove(t, w)
  \/ Remove(t)

RowStep(w) ==
  \/ Register(w)
  \/ \E draining \in BOOLEAN : SetDraining(w, draining)
  \/ GoOffline(w)

\* A statement that changes a pipeline waits for a claim that has changed it.
QueueStep ==
  /\ \/ SubmitStep \/ ReportStep \/ Reap \/ Tick
     \/ \E p \in Pipelines \ Locked : Cancel(p)
  /\ UNCHANGED runners

ClaimNext ==
  \/ \E t \in Txs : ClaimTxStep(t)
  \/ \E w \in Workers : RowStep(w)
  \/ QueueStep

ClaimSpec == ClaimInit /\ [][ClaimNext]_allVars

-----------------------------------------------------------------------------
(* Properties.                                                             *)

\* However their statements interleave, transactions take effect as the steps of
\* PipelineQueue: a claim commits only what it could have decided in one step.
ClaimsAreAtomic == Init /\ [][Next]_vars

Assigns(w) == \E p \in Pipelines : status[p] = "queued" /\ status'[p] = "running"
                                   /\ worker'[p] = w

\* db.rs:249-250 of maintenance: "after this commits, no fresh assignment can slip
\* past the maintenance switch".
DrainFence == [][\A w \in Workers : Assigns(w) => ~ row[w].draining]_allVars

\* It holds of every claim that found the runner registered.
RegisteredDrainFence ==
  [][\A t \in Txs : tx[t].registered /\ CommitClaim(t) => ~ row[tx[t].w].draining]_allVars

\* api.rs:2177 refuses a removal with "runner has an active pipeline".
RemovesIdleRunnersOnly ==
  [][\A w \in Workers : Exists(w) /\ ~ row'[w].exists => ~ RunsFor(w)]_allVars
=============================================================================
