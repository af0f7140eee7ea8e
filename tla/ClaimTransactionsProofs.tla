---------------------- MODULE ClaimTransactionsProofs ----------------------
(***************************************************************************)
(* Why a claim may be read as one step of the queue: what its statements   *)
(* have decided is still so when it commits.  The argument is about locks, *)
(* so the inductive invariant says of every transaction under way which    *)
(* locks it holds and what nobody can change while it holds them.          *)
(***************************************************************************)
EXTENDS ClaimTransactions, PipelineQueueProofs, TLAPS

RowType == [exists : BOOLEAN, generation : Nat, draining : BOOLEAN, online : BOOLEAN]

Places == {"ended", "claim", "lock", "check", "assign", "commit", "remove"}
TxType == [at : Places, w : Workers \cup {NoWorker}, r : Requests \cup {NoRequest},
           registered : BOOLEAN, draining : BOOLEAN,
           chosen : Pipelines \cup {NoPipeline}, busy : BOOLEAN, saw : Nat]

ClaimTypeOK ==
  /\ row \in [Workers -> RowType]
  /\ rowLock \in [Workers -> Txs \cup {NoTx}]
  /\ advisory \in [Workers -> Txs \cup {NoTx}]
  /\ tx \in [Txs -> TxType]

\* Whoever is not ended is about one runner, and a runner either always or never
\* identifies its claims.
IsFor(m) ==
  /\ m.at = "ended" => m = Ended
  /\ m.at # "ended" => m.w \in Workers
  /\ m.at \in {"claim", "lock", "check", "assign", "commit"} =>
       (m.r = NoRequest <=> m.w \in Legacy)
  /\ m.at \in {"lock", "check"} => m.r # NoRequest
  /\ m.at = "commit" <=> m.chosen # NoPipeline
  /\ m.registered => m.at \in {"lock", "check", "assign", "commit"}
  /\ m.at = "commit" => ~ m.draining

Transactions == \A t \in Txs : IsFor(tx[t])

\* The advisory lock: of the identified claims of a runner only one is past it.
RequestsLocked ==
  \A t \in Txs :
    tx[t].at \in {"check", "assign", "commit"} /\ tx[t].r # NoRequest =>
      advisory[tx[t].w] = t

\* The row's lock: its draining is what the transaction has read.
RowsLocked ==
  \A t \in Txs : tx[t].registered =>
    /\ rowLock[tx[t].w] = t
    /\ Exists(tx[t].w)
    /\ row[tx[t].w].draining = tx[t].draining

\* What CheckRequest found holds until the commit.
ChecksHold ==
  \A t \in Txs :
    tx[t].at \in {"assign", "commit"} /\ tx[t].r # NoRequest =>
      Assigned(tx[t].w, tx[t].r) = {} /\ ~ Busy(tx[t].w)

\* What Assign has chosen stays claimable until the commit, by it alone.
ChosenLocked ==
  /\ \A t \in Txs : tx[t].at = "commit" =>
       status[tx[t].chosen] = "queued" /\ ~ cancelRequested[tx[t].chosen]
  /\ \A t, u \in Txs :
       tx[t].chosen = tx[u].chosen /\ tx[t].chosen # NoPipeline => t = u

ClaimIInvariant ==
  /\ IInv
  /\ ClaimTypeOK /\ Transactions
  /\ RequestsLocked /\ RowsLocked /\ ChecksHold /\ ChosenLocked

-----------------------------------------------------------------------------
LEMMA ClaimInitIInv == ClaimInit => ClaimIInvariant
<1> SUFFICES ASSUME ClaimInit PROVE ClaimIInvariant
  OBVIOUS
<1>1. IInv
  BY InitIInv DEF ClaimInit
<1>2. Ended \in TxType /\ IsFor(Ended)
  BY DEF Ended, TxType, Places, IsFor
<1>3. ClaimTypeOK
  BY <1>2 DEF ClaimInit, ClaimTypeOK, RowType, NoRow
<1>4. \A t \in Txs : tx[t] = Ended
  BY DEF ClaimInit
<1>5. Ended.at = "ended" /\ ~ Ended.registered /\ Ended.chosen = NoPipeline
  BY DEF Ended
<1>6. Transactions /\ RequestsLocked /\ RowsLocked /\ ChecksHold
  BY <1>2, <1>4, <1>5 DEF Transactions, RequestsLocked, RowsLocked, ChecksHold
<1>7. ChosenLocked
  BY <1>4, <1>5 DEF ChosenLocked
<1> QED BY <1>1, <1>3, <1>6, <1>7 DEF ClaimIInvariant

(* One transaction goes on, the pipelines stay as they are: what it has    *)
(* reached is justified, and the others keep the locks they hold.          *)
LEMMA Moves ==
  ASSUME ClaimIInvariant, NEW t \in Txs, NEW m \in TxType, IsFor(m), Goes(t, m),
         UNCHANGED vars,
         row' \in [Workers -> RowType],
         rowLock' \in [Workers -> Txs \cup {NoTx}],
         advisory' \in [Workers -> Txs \cup {NoTx}],
         \A w \in Workers : \A u \in Txs \ {t} :
           /\ rowLock[w] = u => /\ rowLock'[w] = u
                               /\ row'[w].exists = row[w].exists
                               /\ row'[w].draining = row[w].draining
           /\ advisory[w] = u => advisory'[w] = u,
         m.at \in {"check", "assign", "commit"} /\ m.r # NoRequest =>
           advisory'[m.w] = t,
         m.registered => /\ rowLock'[m.w] = t
                         /\ row'[m.w].exists
                         /\ row'[m.w].draining = m.draining,
         m.at \in {"assign", "commit"} /\ m.r # NoRequest =>
           Assigned(m.w, m.r) = {} /\ ~ Busy(m.w),
         m.at = "commit" => /\ status[m.chosen] = "queued"
                            /\ ~ cancelRequested[m.chosen]
                            /\ m.chosen \notin Locked
  PROVE  ClaimIInvariant'
<1>1. /\ tx' \in [Txs -> TxType] /\ tx \in [Txs -> TxType]
      /\ tx'[t] = m /\ \A u \in Txs \ {t} : tx'[u] = tx[u]
  BY DEF ClaimIInvariant, ClaimTypeOK, Goes
<1>2. IInv'
  BY StutterIInv DEF ClaimIInvariant
<1>3. ClaimTypeOK' /\ Transactions'
  BY <1>1 DEF ClaimIInvariant, ClaimTypeOK, Transactions, IsFor
<1>4. \A u \in Txs : tx[u].at # "ended" => tx[u].w \in Workers
  BY DEF ClaimIInvariant, Transactions, IsFor
<1>5. RequestsLocked'
  BY <1>1, <1>4 DEF ClaimIInvariant, RequestsLocked
<1>6. RowsLocked'
  <2>1. \A u \in Txs : tx[u].registered => tx[u].w \in Workers
    BY DEF ClaimIInvariant, Transactions, IsFor
  <2> QED BY <1>1, <2>1 DEF ClaimIInvariant, RowsLocked, Exists
<1>7. ChecksHold'
  BY <1>1 DEF ClaimIInvariant, ChecksHold, Assigned, Busy, Leased, Running, vars
<1>8. ChosenLocked'
  <2>1. m.at # "commit" => m.chosen = NoPipeline
    BY DEF IsFor
  <2>2. \A u \in Txs : m.at = "commit" => m.chosen # tx[u].chosen
    BY DEF Locked
  <2>3. UNCHANGED <<status, cancelRequested>>
    BY DEF vars
  <2> QED BY <1>1, <2>1, <2>2, <2>3 DEF ClaimIInvariant, ChosenLocked
<1> QED BY <1>2, <1>3, <1>5, <1>6, <1>7, <1>8 DEF ClaimIInvariant

LEMMA TxFacts ==
  ASSUME ClaimIInvariant, NEW t \in Txs
  PROVE  tx[t] \in TxType /\ IsFor(tx[t]) /\ t # NoTx
BY TransactionAssumption DEF ClaimIInvariant, ClaimTypeOK, Transactions

\* Locks that a transaction may take: no other one loses any.
LEMMA EndIInv ==
  ASSUME ClaimIInvariant, NEW t \in Txs, Ends(t), UNCHANGED vars,
         row' \in [Workers -> RowType],
         \A w \in Workers : \A u \in Txs \ {t} :
           rowLock[w] = u => /\ row'[w].exists = row[w].exists
                             /\ row'[w].draining = row[w].draining
  PROVE  ClaimIInvariant'
<1>1. Ended \in TxType /\ IsFor(Ended)
  BY DEF Ended, TxType, Places, IsFor
<1>2. Ended.at = "ended" /\ ~ Ended.registered
  BY DEF Ended
<1>3. /\ rowLock' \in [Workers -> Txs \cup {NoTx}]
      /\ advisory' \in [Workers -> Txs \cup {NoTx}]
  BY DEF ClaimIInvariant, ClaimTypeOK, Ends
<1>4. \A w \in Workers : \A u \in Txs \ {t} :
        /\ rowLock[w] = u => rowLock'[w] = u
        /\ advisory[w] = u => advisory'[w] = u
  BY DEF Ends
<1>5. Goes(t, Ended)
  BY DEF Ends
<1> QED BY <1>1, <1>2, <1>3, <1>4, <1>5, Moves

LEMMA BeginIInv ==
  ASSUME ClaimIInvariant, NEW t \in Txs, NEW w \in Workers,
         \/ \E r \in Requests \cup {NoRequest} : BeginClaim(t, w, r)
         \/ BeginRemove(t, w)
  PROVE  ClaimIInvariant'
<1>1. CASE \E r \in Requests \cup {NoRequest} : BeginClaim(t, w, r)
  <2>1. PICK r \in Requests \cup {NoRequest} : BeginClaim(t, w, r)
    BY <1>1
  <2> DEFINE m == [Ended EXCEPT !.at = "claim", !.w = w, !.r = r]
  <2>2. m \in TxType /\ m.at = "claim" /\ ~ m.registered /\ IsFor(m)
    BY <2>1 DEF BeginClaim, Ended, TxType, Places, IsFor
  <2>3. Goes(t, m) /\ UNCHANGED <<vars, row, rowLock, advisory>>
    BY <2>1 DEF BeginClaim
  <2> HIDE DEF m
  <2> QED BY <2>2, <2>3, Moves DEF ClaimIInvariant, ClaimTypeOK
<1>2. CASE BeginRemove(t, w)
  <2> DEFINE m == [Ended EXCEPT !.at = "remove", !.w = w, !.busy = RunsFor(w),
                                !.saw = row[w].generation]
  <2>1. row[w].generation \in Nat /\ RunsFor(w) \in BOOLEAN
    BY DEF ClaimIInvariant, ClaimTypeOK, RowType, RunsFor
  <2>2. m \in TxType /\ m.at = "remove" /\ ~ m.registered /\ IsFor(m)
    BY <2>1 DEF Ended, TxType, Places, IsFor
  <2>3. Goes(t, m) /\ UNCHANGED <<vars, row, rowLock, advisory>>
    BY <1>2 DEF BeginRemove
  <2> HIDE DEF m
  <2> QED BY <2>2, <2>3, Moves DEF ClaimIInvariant, ClaimTypeOK
<1> QED BY <1>1, <1>2

LEMMA LockRunnerIInv ==
  ASSUME ClaimIInvariant, NEW t \in Txs, LockRunner(t)
  PROVE  ClaimIInvariant'
<1> DEFINE m == Touched(t)
<1>1. /\ tx[t] \in TxType /\ IsFor(tx[t]) /\ tx[t].at = "claim"
      /\ tx[t].w \in Workers
  BY TxFacts DEF LockRunner, IsFor
<1>2. row[tx[t].w] \in RowType
  BY <1>1 DEF ClaimIInvariant, ClaimTypeOK
<1>3. /\ m \in TxType
      /\ m.at = IF tx[t].r = NoRequest THEN "assign" ELSE "lock"
      /\ m.w = tx[t].w /\ m.r = tx[t].r /\ m.chosen = tx[t].chosen
      /\ m.registered = Exists(m.w) /\ m.draining = row[m.w].draining
  BY <1>1, <1>2 DEF Touched, TxType, Places, Exists, RowType
<1>4. IsFor(m)
  BY <1>1, <1>3 DEF IsFor
<1>5. /\ Goes(t, m) /\ UNCHANGED <<vars, row, advisory>>
      /\ rowLock[m.w] = NoTx
      /\ rowLock' = IF Exists(m.w) THEN [rowLock EXCEPT ![m.w] = t] ELSE rowLock
  BY <1>3 DEF LockRunner, Unlocked
<1> HIDE DEF m
<1>6. /\ rowLock' \in [Workers -> Txs \cup {NoTx}]
      /\ \A w \in Workers : \A u \in Txs : rowLock[w] = u => rowLock'[w] = u
      /\ Exists(m.w) => rowLock'[m.w] = t
  BY <1>1, <1>3, <1>5, TransactionAssumption DEF ClaimIInvariant, ClaimTypeOK
<1>7. m.at \notin {"check", "commit"} /\ (m.at = "assign" => m.r = NoRequest)
  BY <1>3
<1>8. m.registered => /\ rowLock'[m.w] = t
                      /\ row'[m.w].exists
                      /\ row'[m.w].draining = m.draining
  BY <1>3, <1>5, <1>6 DEF Exists
<1> QED BY <1>3, <1>4, <1>5, <1>6, <1>7, <1>8, Moves DEF ClaimIInvariant, ClaimTypeOK

LEMMA LockRequestsIInv ==
  ASSUME ClaimIInvariant, NEW t \in Txs, LockRequests(t)
  PROVE  ClaimIInvariant'
<1> DEFINE m == [tx[t] EXCEPT !.at = "check"]
<1>1. /\ tx[t] \in TxType /\ IsFor(tx[t]) /\ tx[t].at = "lock"
      /\ tx[t].w \in Workers
  BY TxFacts DEF LockRequests, IsFor
<1>2. /\ m \in TxType /\ m.at = "check"
      /\ m.w = tx[t].w /\ m.r = tx[t].r /\ m.chosen = tx[t].chosen
      /\ m.registered = tx[t].registered /\ m.draining = tx[t].draining
  BY <1>1 DEF TxType, Places
<1>3. IsFor(m)
  BY <1>1, <1>2 DEF IsFor
<1>4. /\ Goes(t, m) /\ UNCHANGED <<vars, row, rowLock>>
      /\ advisory[m.w] = NoTx /\ advisory' = [advisory EXCEPT ![m.w] = t]
  BY <1>2 DEF LockRequests
<1> HIDE DEF m
<1>5. /\ advisory' \in [Workers -> Txs \cup {NoTx}]
      /\ \A w \in Workers : \A u \in Txs : advisory[w] = u => advisory'[w] = u
      /\ advisory'[m.w] = t
  BY <1>1, <1>2, <1>4, TransactionAssumption DEF ClaimIInvariant, ClaimTypeOK
<1>6. m.registered => /\ rowLock'[m.w] = t
                      /\ row'[m.w].exists
                      /\ row'[m.w].draining = m.draining
  BY <1>2, <1>4 DEF ClaimIInvariant, RowsLocked, Exists
<1> QED BY <1>2, <1>3, <1>4, <1>5, <1>6, Moves DEF ClaimIInvariant, ClaimTypeOK

\* A step that changes nothing but how far a transaction is, and what it chose.
LEMMA StaysLocked ==
  ASSUME ClaimIInvariant, NEW t \in Txs, NEW m \in TxType, IsFor(m), Goes(t, m),
         UNCHANGED <<vars, row, rowLock, advisory>>,
         tx[t].at \in {"check", "assign"}, m.at \in {"assign", "commit"},
         m.w = tx[t].w, m.r = tx[t].r,
         m.registered = tx[t].registered, m.draining = tx[t].draining,
         m.r # NoRequest => Assigned(m.w, m.r) = {} /\ ~ Busy(m.w),
         m.at = "commit" => /\ status[m.chosen] = "queued"
                            /\ ~ cancelRequested[m.chosen]
                            /\ m.chosen \notin Locked
  PROVE  ClaimIInvariant'
<1>1. m.r # NoRequest => advisory'[m.w] = t
  BY DEF ClaimIInvariant, RequestsLocked
<1>2. m.registered => /\ rowLock'[m.w] = t
                      /\ row'[m.w].exists
                      /\ row'[m.w].draining = m.draining
  BY DEF ClaimIInvariant, RowsLocked, Exists
<1> QED BY <1>1, <1>2, Moves DEF ClaimIInvariant, ClaimTypeOK

LEMMA EndsIInv ==
  ASSUME ClaimIInvariant, NEW t \in Txs, Ends(t), UNCHANGED <<vars, row>>
  PROVE  ClaimIInvariant'
BY EndIInv DEF ClaimIInvariant, ClaimTypeOK

LEMMA CheckRequestIInv ==
  ASSUME ClaimIInvariant, NEW t \in Txs, CheckRequest(t)
  PROVE  ClaimIInvariant'
<1>1. CASE Assigned(tx[t].w, tx[t].r) # {} \/ Busy(tx[t].w)
  BY <1>1, EndsIInv DEF CheckRequest
<1>2. CASE Assigned(tx[t].w, tx[t].r) = {} /\ ~ Busy(tx[t].w)
  <2> DEFINE m == [tx[t] EXCEPT !.at = "assign"]
  <2>1. tx[t] \in TxType /\ IsFor(tx[t]) /\ tx[t].at = "check"
    BY TxFacts DEF CheckRequest
  <2>2. /\ m \in TxType /\ m.at = "assign"
        /\ m.w = tx[t].w /\ m.r = tx[t].r /\ m.chosen = tx[t].chosen
        /\ m.registered = tx[t].registered /\ m.draining = tx[t].draining
    BY <2>1 DEF TxType, Places
  <2>3. IsFor(m)
    BY <2>1, <2>2 DEF IsFor
  <2>4. Goes(t, m) /\ UNCHANGED <<vars, row, rowLock, advisory>>
    BY <1>2 DEF CheckRequest
  <2> HIDE DEF m
  <2> QED BY <1>2, <2>1, <2>2, <2>3, <2>4, StaysLocked
<1> QED BY <1>1, <1>2

LEMMA AssignIInv ==
  ASSUME ClaimIInvariant, NEW t \in Txs, NEW supports \in BOOLEAN, Assign(t, supports)
  PROVE  ClaimIInvariant'
<1>0. PICK s \in SystemOf(tx[t].w) : \E p \in Claimable(s, supports) \ Locked :
        Goes(t, [tx[t] EXCEPT !.at = "commit", !.chosen = p])
  BY DEF Assign
<1>1. PICK p \in Claimable(s, supports) \ Locked :
        Goes(t, [tx[t] EXCEPT !.at = "commit", !.chosen = p])
  BY <1>0
<1>2. /\ p \in Pipelines /\ p # NoPipeline /\ p \notin Locked
      /\ status[p] = "queued" /\ ~ cancelRequested[p]
  <2>1. p \in Pipelines /\ AfterDoom[p] = "queued" /\ ~ cancelRequested[p]
    BY <1>1 DEF Claimable
  <2>2. status[p] = "queued"
    BY <2>1 DEF AfterDoom
  <2>3. p # NoPipeline
    BY <2>1, TransactionAssumption
  <2> QED BY <1>1, <2>1, <2>2, <2>3
<1> DEFINE m == [tx[t] EXCEPT !.at = "commit", !.chosen = p]
<1>3. /\ tx[t] \in TxType /\ IsFor(tx[t])
      /\ tx[t].at = "assign" /\ ~ tx[t].draining
  BY TxFacts DEF Assign
<1>4. /\ m \in TxType /\ m.at = "commit"
      /\ m.w = tx[t].w /\ m.r = tx[t].r /\ m.chosen = p
      /\ m.registered = tx[t].registered /\ m.draining = tx[t].draining
  BY <1>2, <1>3 DEF TxType, Places
<1>5. IsFor(m)
  BY <1>2, <1>3, <1>4 DEF IsFor
<1>6. Goes(t, m) /\ UNCHANGED <<vars, row, rowLock, advisory>>
  BY <1>1 DEF Assign
<1>7. m.r # NoRequest => Assigned(m.w, m.r) = {} /\ ~ Busy(m.w)
  BY <1>3, <1>4 DEF ClaimIInvariant, ChecksHold
<1> HIDE DEF m
<1> QED BY <1>2, <1>3, <1>4, <1>5, <1>6, <1>7, StaysLocked

LEMMA RemoveIInv ==
  ASSUME ClaimIInvariant, NEW t \in Txs, Remove(t)
  PROVE  ClaimIInvariant'
<1> DEFINE w == tx[t].w
<1>1. w \in Workers /\ rowLock[w] = NoTx
  BY TxFacts DEF Remove, IsFor, Unlocked
<1>2. row' = [row EXCEPT ![w] = NoRow(row[w].generation)] \/ UNCHANGED row
  BY <1>1 DEF Remove, ClaimIInvariant, ClaimTypeOK
<1>3. NoRow(row[w].generation) \in RowType
  BY <1>1 DEF NoRow, RowType, ClaimIInvariant, ClaimTypeOK
<1>4. row' \in [Workers -> RowType]
      /\ \A v \in Workers \ {w} : row'[v] = row[v]
  BY <1>1, <1>2, <1>3 DEF ClaimIInvariant, ClaimTypeOK
<1>5. Ends(t) /\ UNCHANGED vars
  BY DEF Remove
<1> QED BY <1>1, <1>4, <1>5, EndIInv, TransactionAssumption

\* A statement on a row changes what a transaction has read of it only if none
\* holds its lock.
LEMMA RowIInv ==
  ASSUME ClaimIInvariant, NEW w \in Workers, RowStep(w)
  PROVE  ClaimIInvariant'
<1>1. /\ UNCHANGED <<vars, rowLock, advisory, tx>>
      /\ row' \in [Workers -> RowType]
      /\ \A v \in Workers \ {w} : row'[v] = row[v]
      /\ \/ rowLock[w] = NoTx
         \/ /\ row'[w].exists = row[w].exists
            /\ row'[w].draining = row[w].draining
  <2>1. row \in [Workers -> RowType] /\ row[w] \in RowType
    BY DEF ClaimIInvariant, ClaimTypeOK
  <2>2. CASE Register(w)
    <3>1. UNCHANGED <<vars, rowLock, advisory, tx>> /\ rowLock[w] = NoTx
      BY <2>2 DEF Register, Unlocked
    <3>2. \E new \in RowType : row' = [row EXCEPT ![w] = new]
      <4>1. CASE row' = [row EXCEPT ![w].online = TRUE]
        <5>1. [row[w] EXCEPT !.online = TRUE] \in RowType
          BY <2>1 DEF RowType
        <5> QED BY <4>1, <5>1
      <4>2. CASE row' = [row EXCEPT ![w] = [exists |-> TRUE,
                             generation |-> row[w].generation + 1,
                             draining |-> FALSE, online |-> TRUE]]
        <5>1. row[w].generation + 1 \in Nat
          BY <2>1 DEF RowType
        <5> QED BY <4>2, <5>1 DEF RowType
      <4> QED BY <2>1, <2>2, <4>1, <4>2 DEF Register
    <3> QED BY <2>1, <3>1, <3>2
  <2>3. ASSUME NEW draining \in BOOLEAN, SetDraining(w, draining)
        PROVE  /\ row' \in [Workers -> RowType] /\ rowLock[w] = NoTx
               /\ \A v \in Workers \ {w} : row'[v] = row[v]
               /\ UNCHANGED <<vars, rowLock, advisory, tx>>
    BY <2>1, <2>3 DEF SetDraining, RowType, Unlocked
  <2>4. CASE GoOffline(w)
    BY <2>1, <2>4 DEF GoOffline, RowType
  <2> QED BY <2>2, <2>3, <2>4 DEF RowStep
<1>2. IInv'
  BY <1>1, StutterIInv DEF ClaimIInvariant
<1>3. ClaimTypeOK' /\ Transactions' /\ RequestsLocked'
  BY <1>1 DEF ClaimIInvariant, ClaimTypeOK, Transactions, RequestsLocked
<1>4. RowsLocked'
  <2>1. \A t \in Txs : tx[t].registered => tx[t].w \in Workers
    BY DEF ClaimIInvariant, Transactions, IsFor
  <2>2. NoTx \notin Txs
    BY TransactionAssumption
  <2> QED BY <1>1, <2>1, <2>2 DEF ClaimIInvariant, RowsLocked, Exists
<1>5. ChecksHold' /\ ChosenLocked'
  BY <1>1
     DEF ClaimIInvariant, ChecksHold, ChosenLocked, Assigned, Busy, Leased, Running, vars
<1> QED BY <1>2, <1>3, <1>4, <1>5 DEF ClaimIInvariant

-----------------------------------------------------------------------------
(* The two kinds of steps that change a pipeline.                          *)

\* No pipeline of these catalogs needs another one.
LEMMA NothingNeeded ==
  ASSUME IInv, NEW p \in Pipelines
  PROVE  LatestUpstream(p) = {}
BY TransactionAssumption DEF IInv, TypeOK, LatestUpstream, Upstream

LEMMA NothingDoomed ==
  ASSUME IInv
  PROVE  /\ Doomed = {}
         /\ \A p \in Pipelines : AfterDoom[p] = status[p]
BY NothingNeeded DEF Doomed, AfterDoom

\* A claim that commits could have been decided in this very step.
LEMMA CommitIsClaim ==
  ASSUME ClaimIInvariant, NEW t \in Txs, CommitClaim(t)
  PROVE  ClaimStep
<1> DEFINE w == tx[t].w
           r == tx[t].r
           p == tx[t].chosen
<1>1. /\ tx[t] \in TxType /\ IsFor(tx[t]) /\ tx[t].at = "commit"
      /\ w \in Workers /\ r \in Requests \cup {NoRequest}
      /\ p \in Pipelines
  BY TxFacts DEF CommitClaim, IsFor, TxType
<1>2. status[p] = "queued" /\ ~ cancelRequested[p]
  BY <1>1 DEF ClaimIInvariant, ChosenLocked
<1>3. r # NoRequest => Assigned(w, r) = {} /\ ~ Busy(w)
  BY <1>1 DEF ClaimIInvariant, ChecksHold
<1>4. definition[p].os \in Systems \cup {AnySystem}
  BY <1>1, QueueAssumption DEF ClaimIInvariant, IInv, TypeOK, DefinitionType
<1>5. PICK system \in Systems \cup {NoSystem} : definition[p].os \in {AnySystem, system}
  BY <1>4
<1>6. p \in Claimable(system, TRUE)
  BY <1>1, <1>2, <1>5, NothingNeeded, NothingDoomed DEF ClaimIInvariant, Claimable
<1>7. {p} \in Choices(Claimable(system, TRUE))
  BY <1>6 DEF Choices
<1>8. /\ status' = [q \in Pipelines |-> IF q \in {p} THEN "running" ELSE AfterDoom[q]]
      /\ worker' = [q \in Pipelines |-> IF q \in {p} THEN w ELSE worker[q]]
      /\ request' = [q \in Pipelines |-> IF q \in {p} THEN r ELSE request[q]]
      /\ lease' = [q \in Pipelines |-> IF q \in {p} THEN LeaseTicks ELSE lease[q]]
  BY <1>1, NothingDoomed DEF CommitClaim, ClaimIInvariant, IInv, TypeOK
<1>9. ClaimFresh(w, r, system, TRUE)
  BY <1>3, <1>7, <1>8 DEF ClaimFresh, CommitClaim
<1> QED BY <1>1, <1>5, <1>9 DEF ClaimStep

LEMMA CommitIInv ==
  ASSUME ClaimIInvariant, NEW t \in Txs, CommitClaim(t)
  PROVE  ClaimIInvariant'
<1> DEFINE p == tx[t].chosen
<1>1. /\ tx \in [Txs -> TxType]
      /\ IsFor(tx[t]) /\ tx[t].at = "commit" /\ tx[t].w \in Workers
      /\ p \in Pipelines /\ p # NoPipeline
  BY TxFacts DEF CommitClaim, IsFor, TxType, ClaimIInvariant, ClaimTypeOK
<1>2. /\ Ended \in TxType /\ IsFor(Ended) /\ Ended.at = "ended"
      /\ ~ Ended.registered /\ Ended.chosen = NoPipeline
  BY DEF Ended, TxType, Places, IsFor
<1>3. /\ tx' \in [Txs -> TxType]
      /\ tx'[t] = Ended /\ \A u \in Txs \ {t} : tx'[u] = tx[u]
      /\ UNCHANGED <<row, cancelRequested>>
  BY <1>1, <1>2 DEF CommitClaim, Ends, Goes
<1>4. /\ rowLock' \in [Workers -> Txs \cup {NoTx}]
      /\ advisory' \in [Workers -> Txs \cup {NoTx}]
      /\ \A w \in Workers : \A u \in Txs \ {t} :
           /\ rowLock[w] = u => rowLock'[w] = u
           /\ advisory[w] = u => advisory'[w] = u
  BY DEF CommitClaim, Ends, ClaimIInvariant, ClaimTypeOK
<1>5. IInv'
  BY CommitIsClaim, NextIInv DEF ClaimIInvariant, Next
<1>6. ClaimTypeOK' /\ Transactions'
  BY <1>2, <1>3, <1>4 DEF ClaimIInvariant, ClaimTypeOK, Transactions
<1>7. \A u \in Txs : tx[u].at # "ended" => tx[u].w \in Workers
  BY DEF ClaimIInvariant, Transactions, IsFor
<1>8. RequestsLocked'
  BY <1>2, <1>3, <1>4, <1>7 DEF ClaimIInvariant, RequestsLocked
<1>9. RowsLocked'
  <2>1. \A u \in Txs : tx[u].registered => tx[u].w \in Workers
    BY DEF ClaimIInvariant, Transactions, IsFor
  <2> QED BY <1>2, <1>3, <1>4, <2>1 DEF ClaimIInvariant, RowsLocked, Exists
<1>10. ChecksHold'
  <2>1. SUFFICES ASSUME NEW u \in Txs \ {t}, tx[u].at \in {"assign", "commit"},
                        tx[u].r # NoRequest
                 PROVE  (Assigned(tx[u].w, tx[u].r) = {} /\ ~ Busy(tx[u].w))'
    BY <1>2, <1>3 DEF ChecksHold
  <2>2. tx[u].w # tx[t].w
    <3>1. advisory[tx[u].w] = u /\ tx[u].w \notin Legacy
      BY <2>1 DEF ClaimIInvariant, RequestsLocked, Transactions, IsFor
    <3>2. tx[t].w \notin Legacy => advisory[tx[t].w] = t
      BY <1>1 DEF ClaimIInvariant, RequestsLocked, Transactions, IsFor
    <3> QED BY <2>1, <3>1, <3>2
  <2>3. /\ worker' = [worker EXCEPT ![p] = tx[t].w]
        /\ request' = [request EXCEPT ![p] = tx[t].r]
        /\ status' = [status EXCEPT ![p] = "running"]
        /\ lease' = [lease EXCEPT ![p] = LeaseTicks]
    BY DEF CommitClaim
  <2>4. \A q \in Pipelines : worker'[q] = tx[u].w =>
          /\ q # p /\ worker[q] = tx[u].w /\ request'[q] = request[q]
          /\ status'[q] = status[q] /\ lease'[q] = lease[q]
    BY <1>1, <2>2, <2>3 DEF ClaimIInvariant, IInv, TypeOK
  <2>5. Assigned(tx[u].w, tx[u].r) = {} /\ ~ Busy(tx[u].w)
    BY <2>1 DEF ClaimIInvariant, ChecksHold
  <2> QED BY <1>3, <2>1, <2>4, <2>5 DEF Assigned, Busy, Leased, Running
<1>11. ChosenLocked'
  <2>1. \A u \in Txs : tx[u].at = "commit" => tx[u].chosen \in Pipelines
    BY TxFacts DEF IsFor, TxType
  <2>2. \A u \in Txs \ {t} : tx[u].chosen # p
    BY <1>1 DEF ClaimIInvariant, ChosenLocked
  <2>3. \A q \in Pipelines \ {p} : status'[q] = status[q]
    BY <1>1 DEF CommitClaim, ClaimIInvariant, IInv, TypeOK
  <2> QED BY <1>2, <1>3, <2>1, <2>2, <2>3 DEF ClaimIInvariant, ChosenLocked
<1> QED BY <1>5, <1>6, <1>8, <1>9, <1>10, <1>11 DEF ClaimIInvariant

\* What the queue's other steps leave alone: no live lease comes back to life, no
\* pipeline is assigned, and a queued one that no claim has locked may go, the
\* others stay.
LEMMA QueueKeeps ==
  ASSUME IInv, QueueStep
  PROVE  /\ UNCHANGED <<worker, request, row, rowLock, advisory, tx>>
         /\ \A p \in Pipelines : Leased(p)' => Leased(p)
         /\ \A p \in Pipelines \cap Locked : status[p] = "queued" =>
              status'[p] = "queued" /\ cancelRequested'[p] = cancelRequested[p]
<1>1. UNCHANGED <<row, rowLock, advisory, tx>>
  BY DEF QueueStep, runners
<1> DEFINE Kept(p) == /\ Leased(p)' => Leased(p)
                      /\ status[p] = "queued" =>
                           /\ status'[p] = "queued"
                           /\ cancelRequested'[p] = cancelRequested[p]
           Keep == UNCHANGED <<worker, request>> /\ \A p \in Pipelines : Kept(p)
<1> USE DEF IInv, TypeOK
<1>2. ASSUME NEW S \in SUBSET Pipelines, Insert(S) PROVE Keep
  BY <1>2 DEF Insert, Leased, Running
<1>3. ASSUME NEW p \in Pipelines, NEW w \in Workers, Heartbeat(p, w) PROVE Keep
  BY <1>3 DEF Heartbeat, Active, Leased, Running
<1>4. ASSUME UNCHANGED <<status, worker, request, lease, cancelRequested>> PROVE Keep
  BY <1>4 DEF Leased, Running
<1>5. ASSUME NEW p \in Pipelines, NEW w \in Workers, NEW s, Finish(p, w, s)
      PROVE  Keep
  <2>1. /\ status[p] = "running" /\ UNCHANGED <<worker, request, cancelRequested>>
        /\ status'[p] # "running"
        /\ \A q \in Pipelines \ {p} : status'[q] = status[q] /\ lease'[q] = lease[q]
    BY <1>5 DEF Finish, Leased, Running
  <2> QED BY <2>1 DEF Leased, Running
<1>6. ASSUME Reap PROVE Keep
  <2>1. /\ UNCHANGED <<worker, request, lease, cancelRequested>>
        /\ \A q \in Pipelines : \/ status'[q] = status[q]
                                \/ status[q] = "running" /\ status'[q] # "running"
    BY <1>6 DEF Reap, Expired, ReapedStatus, Running
  <2> QED BY <2>1 DEF Leased, Running
<1>7. ASSUME Tick PROVE Keep
  <2>1. /\ UNCHANGED <<status, worker, request, cancelRequested>>
        /\ \A q \in Pipelines : lease'[q] > 0 => lease[q] > 0
    BY <1>7, QueueAssumption DEF Tick
  <2> QED BY <2>1 DEF Leased, Running
<1>8. ASSUME NEW p \in Pipelines \ Locked, Cancel(p)
      PROVE  /\ UNCHANGED <<worker, request>>
             /\ \A q \in Pipelines : Leased(q)' => Leased(q)
             /\ \A q \in Pipelines \cap Locked : Kept(q)
  <2>1. /\ p \notin Locked /\ p \in Pipelines /\ UNCHANGED <<worker, request, lease>>
        /\ status'[p] = IF status[p] = "queued" THEN "canceled" ELSE status[p]
        /\ \A q \in Pipelines \ {p} : /\ status'[q] = status[q]
                                     /\ cancelRequested'[q] = cancelRequested[q]
    BY <1>8 DEF Cancel
  <2> HIDE DEF IInv
  <2>2. \A q \in Pipelines : Leased(q)' => Leased(q)
    BY <2>1 DEF Leased, Running
  <2> QED BY <2>1, <2>2
<1>9. \/ Keep
      \/ \E p \in Pipelines \ Locked : Cancel(p)
  <2>1. CASE SubmitStep
    BY <2>1, <1>2, SubmitInserts
  <2>2. CASE ReportStep
    BY <2>2, <1>3, <1>4, <1>5 DEF ReportStep, CreateJobs, ReportJob
  <2> QED BY <2>1, <2>2, <1>6, <1>7 DEF QueueStep
<1> QED BY <1>1, <1>8, <1>9

LEMMA QueueIInv ==
  ASSUME ClaimIInvariant, QueueStep
  PROVE  Next /\ ClaimIInvariant'
<1>1. Next
  BY DEF QueueStep, Next, CancelStep
<1>2. IInv /\ IInv'
  BY <1>1, NextIInv DEF ClaimIInvariant
<1>3. /\ UNCHANGED <<worker, request, row, rowLock, advisory, tx>>
      /\ \A p \in Pipelines : Leased(p)' => Leased(p)
      /\ \A p \in Pipelines \cap Locked : status[p] = "queued" =>
           status'[p] = "queued" /\ cancelRequested'[p] = cancelRequested[p]
  BY <1>2, QueueKeeps
<1>4. ClaimTypeOK' /\ Transactions' /\ RequestsLocked' /\ RowsLocked'
  BY <1>3 DEF ClaimIInvariant, ClaimTypeOK, Transactions, RequestsLocked, RowsLocked,
              Exists
<1>5. ChecksHold'
  BY <1>3 DEF ClaimIInvariant, ChecksHold, Assigned, Busy
<1>6. ChosenLocked'
  <2>1. \A t \in Txs : tx[t].at = "commit" => tx[t].chosen \in Pipelines \cap Locked
    BY TxFacts DEF IsFor, TxType, Locked
  <2> QED BY <1>3, <2>1 DEF ClaimIInvariant, ChosenLocked
<1> QED BY <1>1, <1>2, <1>4, <1>5, <1>6 DEF ClaimIInvariant

-----------------------------------------------------------------------------
LEMMA ClaimNextIInv ==
  ASSUME ClaimIInvariant, [ClaimNext]_allVars
  PROVE  ClaimIInvariant' /\ [Next]_vars
<1>1. ASSUME NEW t \in Txs, ClaimTxStep(t)
      PROVE  ClaimIInvariant' /\ [Next]_vars
  <2>1. CASE CommitClaim(t)
    BY <2>1, CommitIInv, CommitIsClaim DEF Next
  <2>2. CASE \/ \E w \in Workers, r \in Requests \cup {NoRequest} : BeginClaim(t, w, r)
             \/ \E w \in Workers : BeginRemove(t, w)
    BY <2>2, BeginIInv DEF BeginClaim, BeginRemove
  <2>3. CASE LockRunner(t) \/ LockRequests(t) \/ CheckRequest(t)
    BY <2>3, LockRunnerIInv, LockRequestsIInv, CheckRequestIInv
       DEF LockRunner, LockRequests, CheckRequest
  <2>4. CASE RefuseDraining(t) \/ AssignNothing(t) \/ Abort(t)
    BY <2>4, EndsIInv DEF RefuseDraining, AssignNothing, Abort
  <2>5. CASE \E supports \in BOOLEAN : Assign(t, supports)
    BY <2>5, AssignIInv DEF Assign
  <2>6. CASE Remove(t)
    BY <2>6, RemoveIInv DEF Remove
  <2> QED BY <1>1, <2>1, <2>2, <2>3, <2>4, <2>5, <2>6 DEF ClaimTxStep
<1>2. ASSUME NEW w \in Workers, RowStep(w)
      PROVE  ClaimIInvariant' /\ [Next]_vars
  BY <1>2, RowIInv DEF RowStep, Register, SetDraining, GoOffline
<1>3. CASE QueueStep
  BY <1>3, QueueIInv
<1>4. CASE UNCHANGED allVars
  <2>1. UNCHANGED <<vars, row, rowLock, advisory, tx>>
    BY <1>4 DEF allVars, vars
  <2>2. IInv'
    BY <2>1, StutterIInv DEF ClaimIInvariant
  <2> QED
    BY <2>1, <2>2
       DEF ClaimIInvariant, ClaimTypeOK, Transactions, RequestsLocked, RowsLocked,
           ChecksHold, ChosenLocked, Assigned, Busy, Leased, Running, Exists, vars
<1> QED BY <1>1, <1>2, <1>3, <1>4 DEF ClaimNext

(* The invariant of claims, removals and the queue they work on.           *)
THEOREM ClaimInvariant == ClaimSpec => []ClaimIInvariant
<1>1. ClaimInit => ClaimIInvariant
  BY ClaimInitIInv
<1>2. ClaimIInvariant /\ [ClaimNext]_allVars => ClaimIInvariant'
  BY ClaimNextIInv
<1> QED BY <1>1, <1>2, PTL DEF ClaimSpec

(* Every interleaving of claims' and removals' statements is a behaviour of *)
(* the queue, in which a claim is one step.                                 *)
THEOREM AtomicClaims == ClaimSpec => ClaimsAreAtomic
<1>1. ClaimInit => Init
  BY DEF ClaimInit
<1>2. ClaimIInvariant /\ [ClaimNext]_allVars => [Next]_vars
  BY ClaimNextIInv
<1> QED BY <1>1, <1>2, ClaimInvariant, PTL DEF ClaimSpec, ClaimsAreAtomic

(* So what is promised of a pipeline holds of the interleaved statements:  *)
(* one assignment, one outcome, and an accepted cancellation decides it.   *)
THEOREM ClaimsImplementLifecycle == ClaimSpec => ImplementsLifecycle
BY AtomicClaims, StepsImplementLifecycle, PTL DEF ClaimsAreAtomic, QueueSteps

(* And two racing claims never give an identified runner two live leases.  *)
THEOREM ClaimsKeepOneLease == ClaimSpec => []KeyedRunnerHoldsOneLease
BY AtomicClaims, StepsKeepIInv, PTL DEF ClaimsAreAtomic, QueueSteps, IInv

(* A claim that found its runner registered commits only while it is not   *)
(* drained: the lock of the row keeps a drain out until then.              *)
THEOREM RegisteredClaimsAreFenced == ClaimSpec => RegisteredDrainFence
<1>1. ClaimIInvariant =>
        \A t \in Txs : tx[t].registered /\ tx[t].at = "commit" => ~ row[tx[t].w].draining
  BY DEF ClaimIInvariant, RowsLocked, Transactions, IsFor
<1>2. ClaimIInvariant /\ [ClaimNext]_allVars =>
        [\A t \in Txs : tx[t].registered /\ CommitClaim(t)
                          => ~ row[tx[t].w].draining]_allVars
  BY <1>1 DEF CommitClaim
<1> QED BY <1>2, ClaimInvariant, PTL DEF ClaimSpec, RegisteredDrainFence
=============================================================================
