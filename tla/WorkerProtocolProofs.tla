------------------------ MODULE WorkerProtocolProofs ------------------------
(***************************************************************************)
(* Proofs about WorkerProtocol, for any pipelines, runners, requests, jobs *)
(* and lease, any number of requests in the network and of attempts.       *)
(***************************************************************************)
EXTENDS WorkerProtocol, PipelineQueueProofs, FiniteSetTheorems

Executing == {"create", "choose", "announce", "shell", "report"}
Sending == {"claim", "create", "announce", "report", "finish"}

\* What a process that waits in its main task has asked for.
Asks(me, m) ==
  /\ m.request = me.request /\ m.p = me.held /\ m.job = me.current
  /\ \/ me.phase \in {"claim", "create"} /\ m.op = me.phase
     \/ me.phase = "announce" /\ m.op = "job" /\ m.status = "running"
     \/ me.phase = "report" /\ m.op = "job" /\ m.status = me.outcome
     \/ me.phase = "finish" /\ m.op = "finish" /\ m.status = me.outcome

\* An identifier is that of one request and of one call, which match.
CallsMatch ==
  /\ \A m, n \in wire : m.id = n.id => m = n
  /\ \A w, v \in Workers, t, s \in Tasks :
       call[w][t].id # 0 /\ call[v][s].id = call[w][t].id => v = w /\ s = t
  /\ \A m \in wire, w \in Workers, t \in Tasks :
       m.id = call[w][t].id => m.w = w /\ m.task = t
  /\ \A w \in Workers, t \in Tasks :
       /\ call[w][t].answer # "none" =>
            call[w][t].id # 0 /\ \A m \in wire : m.id # call[w][t].id
       /\ call[w][t].given # NoPipeline => call[w][t].answer = "ok"
  /\ \A w \in Workers :
       call[w]["main"].id # 0 => proc[w].phase \in Sending
  /\ \A m \in wire, w \in Workers :
       m.id = call[w]["main"].id => Asks(proc[w], m)

\* What processes and requests have in hand, by phase and kind.
Sane(me) ==
  /\ me.phase # "down" => me.request \in Requests
  /\ me.held = NoPipeline <=> me.phase \in {"down", "claim"}
  /\ me.beating => me.held \in Pipelines
  /\ me.phase \in {"announce", "shell", "report"} => me.current \in me.left

Sound ==
  /\ IsFiniteSet(wire)
  /\ \A w \in Workers : Sane(proc[w])
  /\ \A m \in wire :
       /\ m.op # "claim" => m.p \in Pipelines
       /\ m.op = "job" => m.job \in Jobs /\ m.status # "none"
       /\ m.op = "finish" => m.status \in {"succeeded", "failed"}

\* A claim request identity is one process', and is given up with the answer.
Identities ==
  /\ \A w, v \in Workers : proc[w].request # NoRequest =>
       /\ proc[w].request \notin unused
       /\ proc[v].request = proc[w].request => v = w
  /\ \A m \in wire : m.op = "claim" =>
       /\ m.request \in Requests \ unused
       /\ \A v \in Workers : proc[v].request = m.request => v = m.w
  /\ \A p \in Pipelines : request[p] # NoRequest =>
       /\ request[p] \notin unused /\ worker[p] # NoWorker
       /\ \A v \in Workers : proc[v].request = request[p] => v = worker[p]
  /\ \A w \in Workers : LET p == call[w]["main"].given IN p # NoPipeline =>
       /\ proc[w].phase = "claim"
       /\ worker[p] = w /\ request[p] = proc[w].request
  /\ \A p \in Pipelines : taken[p] # 0 =>
       /\ taken[p] = 1 /\ request[p] \in Requests
       /\ \A v \in Workers : proc[v].request # request[p]

\* Who executes a pipeline took it; what is left of it has not been started.
Executions ==
  /\ \A w \in Workers : proc[w].held # NoPipeline =>
       taken[proc[w].held] = 1 /\ worker[proc[w].held] = w
  /\ \A p \in Pipelines, j \in Jobs : ran[p][j] # 0 => ran[p][j] = 1 /\ taken[p] = 1
  /\ \A w \in Workers : proc[w].phase \in Executing =>
       \A j \in proc[w].left :
         ran[proc[w].held][j] = 0
           \/ (proc[w].phase \in {"shell", "report"} /\ j = proc[w].current)

Earned(p) ==
  \A j \in definition[p].jobs : j \in passed[p] /\ job[p][j] = "succeeded"

Quiet(p) == \A m \in wire : m.p = p => m.op \notin {"create", "job"}

\* What is no longer left has succeeded, and no late request can undo it.
Reports ==
  /\ \A w \in Workers : proc[w].phase \in Executing =>
       /\ \A j \in definition[proc[w].held].jobs \ proc[w].left :
            j \in passed[proc[w].held] /\ job[proc[w].held][j] = "succeeded"
       /\ \A m \in wire :
            m.p = proc[w].held /\ m.op \in {"create", "job", "finish"} =>
              m.id = call[w]["main"].id
  /\ \A w \in Workers :
       /\ proc[w].phase = "create" => proc[w].left = definition[proc[w].held].jobs
       /\ proc[w].phase = "report" /\ proc[w].outcome = "succeeded" =>
            /\ proc[w].current \in passed[proc[w].held]
            /\ call[w]["main"].answer = "ok" =>
                 job[proc[w].held][proc[w].current] = "succeeded"
       /\ proc[w].phase = "finish" /\ proc[w].outcome = "succeeded" =>
            Earned(proc[w].held) /\ Quiet(proc[w].held)
  /\ \A m \in wire :
       /\ m.op \in {"create", "job", "finish"} => taken[m.p] = 1
       /\ m.op = "finish" /\ m.status = "succeeded" => Earned(m.p) /\ Quiet(m.p)
  /\ SuccessIsEarned

PInv ==
  /\ IInv /\ ProtocolTypeOK /\ CallsMatch /\ Sound
  /\ Identities /\ Executions /\ Reports

-----------------------------------------------------------------------------
(* Identifiers of calls. *)

LEMMA NumberOfCallIds ==
  /\ Cardinality(Workers) \in Nat
  /\ CallIds \subseteq Nat \ {0} /\ IsFiniteSet(CallIds)
  /\ Cardinality(CallIds) = Capacity + 2 * Cardinality(Workers)
<1>1. Cardinality(Workers) \in Nat
  BY ProtocolAssumption, FS_CardinalityType
<1> DEFINE n == Capacity + 2 * Cardinality(Workers)
<1>2. n \in Nat \ {0}
  BY <1>1, ProtocolAssumption
<1>3. IsFiniteSet(1..n) /\ Cardinality(1..n) = n
  <2> HIDE DEF n
  <2> QED BY <1>2, FS_Interval
<1> QED BY <1>1, <1>2, <1>3 DEF CallIds

\* There is an identifier for every call that may be made: as many are in use
\* as requests are in the network and other tasks may wait.
LEMMA FreshId ==
  ASSUME wire \subseteq RequestType, IsFiniteSet(wire), Cardinality(wire) < Capacity,
         call \in [Workers -> [Tasks -> CallType]],
         NEW w \in Workers, NEW t \in Tasks, ~ Waiting(w, t)
  PROVE  \E i \in CallIds : i \notin IdsInUse
<1> DEFINE Slots == (Workers \X Tasks) \ {<<w, t>>}
           A == {m.id : m \in wire}
           B == {call[s[1]][s[2]].id : s \in Slots}
<1>1. IsFiniteSet(A) /\ Cardinality(A) <= Cardinality(wire)
  <2> DEFINE f == [m \in wire |-> m.id]
  <2>1. f \in Surjection(wire, A)
    BY DEF Surjection
  <2> QED BY <2>1, FS_Surjection
<1>2. IsFiniteSet(Slots) /\ Cardinality(Slots) = 2 * Cardinality(Workers) - 1
  <2>1. IsFiniteSet(Tasks) /\ Cardinality(Tasks) = 2
    <3>1. Tasks = {"main"} \cup {"beat"}
      BY DEF Tasks
    <3>2. IsFiniteSet({"main"}) /\ Cardinality({"main"}) = 1
      BY FS_Singleton
    <3>3. IsFiniteSet({"main"} \cup {"beat"})
          /\ Cardinality({"main"} \cup {"beat"}) = Cardinality({"main"}) + 1
      BY <3>2, FS_AddElement, "beat" \notin {"main"}
    <3> QED BY <3>1, <3>2, <3>3
  <2>2. IsFiniteSet(Workers \X Tasks)
        /\ Cardinality(Workers \X Tasks) = Cardinality(Workers) * 2
    BY <2>1, ProtocolAssumption, FS_Product
  <2>3. IsFiniteSet(Slots) /\ Cardinality(Slots) = Cardinality(Workers \X Tasks) - 1
    BY <2>2, FS_RemoveElement, <<w, t>> \in Workers \X Tasks
  <2> QED BY <2>2, <2>3, NumberOfCallIds
<1>3. IsFiniteSet(B) /\ Cardinality(B) <= Cardinality(Slots)
  <2> DEFINE f == [s \in Slots |-> call[s[1]][s[2]].id]
  <2>1. f \in Surjection(Slots, B)
    BY DEF Surjection
  <2> QED BY <1>2, <2>1, FS_Surjection
<1>4. IsFiniteSet(A \cup B)
      /\ Cardinality(A \cup B) <= Cardinality(A) + Cardinality(B)
  <2> HIDE DEF A, B
  <2>1. Cardinality(A) \in Nat /\ Cardinality(B) \in Nat
    BY <1>1, <1>3, FS_CardinalityType
  <2>2. IsFiniteSet(A \cap B)
    BY <1>1, FS_Subset
  <2>3. Cardinality(A \cap B) \in Nat
    BY <2>2, FS_CardinalityType
  <2>4. /\ IsFiniteSet(A \cup B)
        /\ Cardinality(A \cup B) = Cardinality(A) + Cardinality(B) - Cardinality(A \cap B)
    BY <1>1, <1>3, FS_Union
  <2> QED BY <2>1, <2>3, <2>4
<1>5. CallIds \cap IdsInUse \subseteq A \cup B
  <2> SUFFICES ASSUME NEW i \in CallIds, i \in IdsInUse PROVE i \in A \cup B
    OBVIOUS
  <2>1. i # 0
    BY NumberOfCallIds
  <2>2. CASE \E v \in Workers, s \in Tasks : i = call[v][s].id
    <3>1. PICK v \in Workers, s \in Tasks : i = call[v][s].id
      BY <2>2
    <3>2. <<v, s>> \in Slots
      BY <2>1, <3>1 DEF Waiting
    <3> QED BY <3>1, <3>2
  <2> QED BY <2>2 DEF IdsInUse
<1>6. SUFFICES ASSUME CallIds \subseteq A \cup B PROVE FALSE
  BY <1>5
<1>7. Cardinality(CallIds) <= Cardinality(A \cup B)
  BY <1>4, <1>6, FS_Subset
<1>8. /\ Cardinality(A) \in Nat /\ Cardinality(B) \in Nat /\ Cardinality(wire) \in Nat
      /\ Cardinality(A \cup B) \in Nat
  BY <1>1, <1>3, <1>4, FS_CardinalityType
<1> QED BY <1>1, <1>2, <1>3, <1>4, <1>7, <1>8, NumberOfCallIds, ProtocolAssumption

-----------------------------------------------------------------------------
(* What the queue's transactions do to the rows of a runner. *)

LEMMA QueueStays == ASSUME IInv, UNCHANGED queue PROVE IInv'
  BY StutterIInv DEF queue, vars

\* Jobs that succeeded stay so, and a pipeline succeeds only if they all did.
Settles ==
  /\ definition' = definition
  /\ \A p \in Pipelines, j \in Jobs : job[p][j] = "succeeded" => job'[p][j] = "succeeded"
  /\ \A p \in Pipelines : status'[p] = "succeeded" => status[p] = "succeeded" \/ Earned(p)

LEMMA SettledKeeps ==
  ASSUME NEW jobs, NEW s, NEW j \in Jobs, jobs[j] = "succeeded"
  PROVE  Settled(jobs, s)[j] = "succeeded"
BY DEF Settled, OpenJob

LEMMA EnvironmentSettles ==
  ASSUME IInv, SubmitStep \/ CancelStep \/ Reap \/ Tick
  PROVE  IInv' /\ Settles /\ UNCHANGED <<worker, request>>
<1>1. TypeOK
  BY DEF IInv
<1>2. CASE SubmitStep
  <2>1. PICK S \in SUBSET Pipelines : Insert(S)
    BY <1>2, SubmitInserts
  <2> QED BY <2>1, SubmitIInv DEF Insert, Settles
<1>3. CASE CancelStep
  <2>1. PICK p \in Pipelines : Cancel(p)
    BY <1>3 DEF CancelStep
  <2> QED BY <1>1, <2>1, CancelIInv DEF Cancel, Settles, TypeOK
<1>4. CASE Reap
  BY <1>1, <1>4, ReapIInv, SettledKeeps DEF Reap, Settles, ReapedStatus
<1>5. CASE Tick
  BY <1>5, TickIInv DEF Tick, Settles
<1> QED BY <1>2, <1>3, <1>4, <1>5

LEMMA HeartbeatSettles ==
  ASSUME IInv, NEW p \in Pipelines, NEW w \in Workers, Heartbeat(p, w)
  PROVE  IInv' /\ Settles /\ UNCHANGED <<worker, request>>
BY HeartbeatIInv DEF Heartbeat, Settles

LEMMA CreateJobsSettles ==
  ASSUME IInv, NEW p \in Pipelines, NEW w \in Workers, CreateJobs(p, w)
  PROVE  IInv' /\ Settles /\ UNCHANGED <<worker, request>>
BY CreateJobsIInv DEF CreateJobs, Settles, IInv, TypeOK

LEMMA FinishSettles ==
  ASSUME IInv, NEW p \in Pipelines, NEW w \in Workers,
         NEW s \in {"succeeded", "failed"}, Finish(p, w, s),
         s = "succeeded" => Earned(p)
  PROVE  IInv' /\ Settles /\ UNCHANGED <<worker, request>>
<1>1. IInv'
  BY FinishIInv
<1>2. \A q \in Pipelines : q # p => job'[q] = job[q] /\ status'[q] = status[q]
  BY DEF Finish, IInv, TypeOK
<1>3. \A j \in Jobs : job[p][j] = "succeeded" => job'[p][j] = "succeeded"
  BY SettledKeeps DEF Finish, IInv, TypeOK
<1>4. status'[p] = "succeeded" => s = "succeeded"
  BY DEF Finish, IInv, TypeOK
<1> QED BY <1>1, <1>2, <1>3, <1>4 DEF Finish, Settles

\* Rows that were assigned stay with their runner and its request.
Stay ==
  \A p \in Pipelines : worker[p] # NoWorker =>
    worker'[p] = worker[p] /\ request'[p] = request[p]

LEMMA ClaimSettles ==
  ASSUME IInv, NEW w \in Workers, NEW r \in Requests,
         NEW supports \in BOOLEAN, NEW system \in Systems \cup {NoSystem},
         ClaimFresh(w, r, system, supports)
  PROVE  /\ IInv' /\ Settles /\ Stay
         /\ \A p \in Pipelines :
              (worker'[p] = worker[p] /\ request'[p] = request[p])
                \/ (worker[p] = NoWorker /\ worker'[p] = w /\ request'[p] = r)
<1>1. PICK chosen \in Choices(Claimable(system, supports)) :
        /\ status' = [p \in Pipelines |->
                        IF p \in chosen THEN "running" ELSE AfterDoom[p]]
        /\ worker' = [p \in Pipelines |-> IF p \in chosen THEN w ELSE worker[p]]
        /\ request' = [p \in Pipelines |-> IF p \in chosen THEN r ELSE request[p]]
  BY DEF ClaimFresh
<1>2. \A p \in chosen : p \in Pipelines /\ status[p] = "queued"
  BY <1>1 DEF Choices, Claimable, AfterDoom
<1>3. \A p \in chosen : worker[p] = NoWorker
  BY <1>2 DEF IInv, UntouchedRows
<1>4. IInv'
  BY ClaimIInv, QueueAssumption
<1>5. Settles
  BY <1>1 DEF Settles, ClaimFresh, AfterDoom
<1> QED BY <1>1, <1>3, <1>4, <1>5 DEF Stay

-----------------------------------------------------------------------------
(* Parts of the invariant that a change of the queue or the wire leaves. *)

CallTable == [Workers -> [Tasks -> CallType]]

LEMMA SoundStays ==
  ASSUME Sound, wire' \subseteq wire, UNCHANGED proc PROVE Sound'
BY FS_Subset DEF Sound, Sane

LEMMA IdentitiesStay ==
  ASSUME Identities, wire' \subseteq wire, UNCHANGED <<proc, unused, taken, worker, request>>,
         \A w \in Workers : call'[w]["main"].given \in {call[w]["main"].given, NoPipeline}
  PROVE  Identities'
BY DEF Identities

LEMMA ExecutionsStay ==
  ASSUME Executions, Stay, UNCHANGED <<proc, taken, ran>>,
         \A w \in Workers : proc[w].held \in Pipelines \cup {NoPipeline},
         NoWorker \notin Workers
  PROVE  Executions'
BY DEF Executions, Stay

\* The facts about one row, job and wire that Reports needs.
LEMMA EarnedStays ==
  ASSUME NEW p \in Pipelines, definition \in Catalogs, Settles, passed' = passed, Earned(p)
  PROVE  Earned(p)'
BY QueueAssumption DEF Earned, Settles, DefinitionType

LEMMA QuietStays == ASSUME NEW p, Quiet(p), wire' \subseteq wire PROVE Quiet(p)'
BY DEF Quiet

LEMMA ReportsStay ==
  ASSUME IInv, Sound, Reports, Settles, wire' \subseteq wire, UNCHANGED <<proc, taken, passed>>,
         \A w \in Workers : proc[w].held \in Pipelines \cup {NoPipeline},
         wire \subseteq RequestType,
         \A w \in Workers : proc[w].current \in Jobs \cup {NoJob},
         \A w \in Workers : proc[w].left \subseteq Jobs,
         \A w \in Workers : call'[w]["main"].id = call[w]["main"].id,
         \A w \in Workers :
           proc[w].phase = "report" /\ proc[w].outcome = "succeeded"
             /\ call'[w]["main"].answer = "ok" /\ call[w]["main"].answer # "ok"
             => job'[proc[w].held][proc[w].current] = "succeeded"
  PROVE  Reports'
<1>1. definition \in Catalogs /\ definition' = definition
  BY DEF IInv, TypeOK, Settles
<1>2. \A p \in Pipelines : definition[p].jobs \subseteq Jobs
  BY <1>1, QueueAssumption DEF DefinitionType
<1>3. ASSUME NEW w \in Workers, proc[w].phase \in Executing PROVE
      /\ \A j \in definition'[proc[w].held].jobs \ proc[w].left :
           j \in passed'[proc[w].held] /\ job'[proc[w].held][j] = "succeeded"
      /\ \A m \in wire' :
           m.p = proc[w].held /\ m.op \in {"create", "job", "finish"} =>
             m.id = call'[w]["main"].id
  <2>1. proc[w].held \in Pipelines
    BY <1>3 DEF Sound, Sane, Executing
  <2> QED BY <1>1, <1>2, <1>3, <2>1 DEF Reports, Settles
<1>4. ASSUME NEW w \in Workers PROVE
      /\ proc[w].phase = "create" => proc[w].left = definition'[proc[w].held].jobs
      /\ proc[w].phase = "report" /\ proc[w].outcome = "succeeded" =>
            /\ proc[w].current \in passed'[proc[w].held]
            /\ call'[w]["main"].answer = "ok" =>
                 job'[proc[w].held][proc[w].current] = "succeeded"
      /\ proc[w].phase = "finish" /\ proc[w].outcome = "succeeded" =>
            Earned(proc[w].held)' /\ Quiet(proc[w].held)'
  <2>1. CASE proc[w].phase = "create"
    BY <1>1, <2>1 DEF Reports
  <2>2. CASE proc[w].phase = "report" /\ proc[w].outcome = "succeeded"
    <3>1. proc[w].held \in Pipelines /\ proc[w].current \in Jobs
      BY <2>2 DEF Sound, Sane
    <3> QED BY <2>2, <3>1 DEF Reports, Settles
  <2>3. CASE proc[w].phase = "finish" /\ proc[w].outcome = "succeeded"
    <3>1. proc[w].held \in Pipelines
      BY <2>3 DEF Sound, Sane
    <3>2. Earned(proc[w].held) /\ Quiet(proc[w].held)
      BY <2>3 DEF Reports
    <3> QED BY <1>1, <2>3, <3>1, <3>2, EarnedStays, QuietStays
  <2> QED BY <2>1, <2>2, <2>3
<1>5. ASSUME NEW m \in wire' PROVE
      /\ m.op \in {"create", "job", "finish"} => taken'[m.p] = 1
      /\ m.op = "finish" /\ m.status = "succeeded" => Earned(m.p)' /\ Quiet(m.p)'
  <2>1. m \in wire
    OBVIOUS
  <2>2. m.op = "finish" => m.p \in Pipelines
    BY <2>1 DEF Sound, Sane
  <2> QED BY <1>1, <2>1, <2>2, EarnedStays, QuietStays DEF Reports
<1>6. SuccessIsEarned'
  <2> SUFFICES ASSUME NEW p \in Pipelines, status'[p] = "succeeded" PROVE Earned(p)'
    BY DEF SuccessIsEarned, Earned
  <2>1. Earned(p)
    BY DEF Settles, Reports, SuccessIsEarned, Earned
  <2> QED BY <1>1, <2>1, EarnedStays
<1> QED BY <1>3, <1>4, <1>5, <1>6 DEF Reports

LEMMA ReplyKeeps ==
  ASSUME CallsMatch, wire \subseteq RequestType, IsFiniteSet(wire), Cardinality(wire) <= Capacity,
         call \in CallTable,
         NEW m \in wire, NEW answer \in {"ok", "no"}, NEW given \in Pipelines \cup {NoPipeline},
         Reply(m, answer, given), given # NoPipeline => answer = "ok", UNCHANGED proc
  PROVE  /\ wire' \subseteq wire /\ Cardinality(wire') <= Capacity
         /\ call' \in CallTable
         /\ \A v \in Workers, t \in Tasks : call'[v][t].id = call[v][t].id
         /\ \A v \in Workers, t \in Tasks :
              call'[v][t] = call[v][t]
                \/ (/\ m.id = call[v][t].id
                    /\ call'[v][t] = [id |-> m.id, answer |-> answer, given |-> given])
         /\ CallsMatch'
<1>1. wire' = wire \ {m}
  BY DEF Reply
<1>2. Cardinality(wire') <= Capacity
  <2>1. Cardinality(wire') <= Cardinality(wire)
    BY <1>1, FS_Subset
  <2>2. Cardinality(wire') \in Nat /\ Cardinality(wire) \in Nat
    BY <1>1, FS_RemoveElement, FS_CardinalityType
  <2> QED BY <2>1, <2>2, ProtocolAssumption
<1>3. m.w \in Workers /\ m.task \in Tasks /\ m.id \in CallIds /\ m.id # 0
  BY NumberOfCallIds DEF RequestType
<1>4. \A v \in Workers, t \in Tasks :
        call'[v][t] = IF m.id = call[v][t].id
                      THEN [id |-> m.id, answer |-> answer, given |-> given] ELSE call[v][t]
  BY <1>3 DEF Reply, CallsMatch, CallTable
<1>5. call' \in CallTable
  <2>1. CASE call[m.w][m.task].id # m.id
    BY <2>1 DEF Reply
  <2>2. CASE call[m.w][m.task].id = m.id
    <3>1. [id |-> m.id, answer |-> answer, given |-> given] \in CallType
      BY <1>3 DEF CallType
    <3> QED BY <1>3, <2>2, <3>1 DEF Reply, CallTable
  <2> QED BY <2>1, <2>2
<1>6. \A v \in Workers, t \in Tasks : call'[v][t].id = call[v][t].id
  BY <1>4
<1>7. CallsMatch'
  <2>1. \A v \in Workers, t \in Tasks :
          /\ call'[v][t].answer # "none" =>
               call'[v][t].id # 0 /\ \A n \in wire' : n.id # call'[v][t].id
          /\ call'[v][t].given # NoPipeline => call'[v][t].answer = "ok"
    BY <1>1, <1>3, <1>4 DEF CallsMatch
  <2>2. /\ \A n, o \in wire' : n.id = o.id => n = o
        /\ \A w, v \in Workers, t, s \in Tasks :
             call'[w][t].id # 0 /\ call'[v][s].id = call'[w][t].id => v = w /\ s = t
        /\ \A n \in wire', w \in Workers, t \in Tasks :
             n.id = call'[w][t].id => n.w = w /\ n.task = t
    BY <1>1, <1>6 DEF CallsMatch
  <2>3. /\ \A w \in Workers :
             call'[w]["main"].id # 0 => proc'[w].phase \in Sending
        /\ \A n \in wire', w \in Workers :
             n.id = call'[w]["main"].id => Asks(proc'[w], n)
    <3>1. \A w \in Workers : call'[w]["main"].id = call[w]["main"].id
      BY <1>6 DEF Tasks
    <3> QED BY <1>1, <3>1 DEF CallsMatch, Sending, Asks
  <2> QED BY <2>1, <2>2, <2>3 DEF CallsMatch
<1> QED BY <1>1, <1>2, <1>4, <1>5, <1>6, <1>7

\* The types of what the protocol adds to the queue.
LEMMA Types ==
  ASSUME ProtocolTypeOK
  PROVE  /\ wire \subseteq RequestType /\ call \in CallTable
         /\ Cardinality(wire) <= Capacity
         /\ \A w \in Workers :
              /\ proc[w] \in ProcType
              /\ proc[w].held \in Pipelines \cup {NoPipeline}
              /\ proc[w].current \in Jobs \cup {NoJob}
              /\ proc[w].left \subseteq Jobs
              /\ proc[w].request \in Requests \cup {NoRequest}
              /\ proc[w].phase \in Phases
         /\ \A m \in wire : /\ m.w \in Workers /\ m.task \in Tasks /\ m.id \in CallIds
                            /\ m.id # 0
BY NumberOfCallIds DEF ProtocolTypeOK, CallTable, ProcType, RequestType

-----------------------------------------------------------------------------
(* The coordinator serves a request. *)

\* An answer without a pipeline, and a transaction that settles.
LEMMA AnswerKeeps ==
  ASSUME PInv, IInv', Settles, UNCHANGED <<worker, request>>,
         UNCHANGED <<proc, unused, taken, ran, passed>>,
         NEW m \in wire, NEW answer \in {"ok", "no"}, Reply(m, answer, NoPipeline),
         m.op = "job" => answer = "no"
  PROVE  PInv'
<1>1. /\ wire' \subseteq wire /\ Cardinality(wire') <= Capacity
      /\ call' \in CallTable
      /\ \A v \in Workers, t \in Tasks : call'[v][t].id = call[v][t].id
      /\ \A v \in Workers, t \in Tasks :
           call'[v][t] = call[v][t]
             \/ (/\ m.id = call[v][t].id
                 /\ call'[v][t] = [id |-> m.id, answer |-> answer, given |-> NoPipeline])
      /\ CallsMatch'
  <2> DEFINE given == NoPipeline
  <2>1. given \in Pipelines \cup {NoPipeline} /\ (given # NoPipeline => answer = "ok")
    OBVIOUS
  <2>2. Reply(m, answer, given)
    OBVIOUS
  <2> HIDE DEF given
  <2>3. given = NoPipeline
    BY DEF given
  <2> QED BY <2>1, <2>2, <2>3, Types, ReplyKeeps DEF PInv, Sound, Sane
<1>2. "main" \in Tasks
  BY DEF Tasks
<1>3. ProtocolTypeOK'
  BY <1>1, Types DEF PInv, ProtocolTypeOK, CallTable, IInv
<1>4. Sound'
  BY <1>1, SoundStays DEF PInv
<1>5. Identities'
  BY <1>1, <1>2, IdentitiesStay DEF PInv
<1>6. Executions'
  BY Types, QueueAssumption, ExecutionsStay DEF PInv, Stay
<1>7. ASSUME NEW w \in Workers, proc[w].phase = "report",
             call'[w]["main"].answer = "ok", call[w]["main"].answer # "ok"
      PROVE  FALSE
  <2>1. m.id = call[w]["main"].id /\ answer = "ok"
    BY <1>1, <1>2, <1>7
  <2>2. m.op = "job"
    BY <1>7, <2>1 DEF PInv, CallsMatch, Asks
  <2> QED BY <2>1, <2>2
<1>8. Reports'
  BY <1>1, <1>2, <1>7, Types, ReportsStay DEF PInv
<1> QED BY <1>1, <1>3, <1>4, <1>5, <1>6, <1>8 DEF PInv

LEMMA BeatKeeps ==
  ASSUME PInv, NEW m \in wire, ServeBeat(m), UNCHANGED <<proc, unused, taken, ran, passed>>
  PROVE  PInv'
<1>1. m.op = "beat" /\ m.p \in Pipelines /\ m.w \in Workers
  BY Types DEF ServeBeat, PInv, Sound, Sane
<1>2. CASE Heartbeat(m.p, m.w) /\ Reply(m, "ok", NoPipeline)
  BY <1>1, <1>2, HeartbeatSettles, AnswerKeeps DEF PInv
<1>3. CASE Reply(m, "no", NoPipeline) /\ UNCHANGED queue
  BY <1>3, QueueStays, AnswerKeeps DEF PInv, queue, Settles
<1> QED BY <1>2, <1>3 DEF ServeBeat

LEMMA CreateKeeps ==
  ASSUME PInv, NEW m \in wire, ServeCreate(m), UNCHANGED <<proc, unused, taken, ran, passed>>
  PROVE  PInv'
<1>1. m.op = "create" /\ m.p \in Pipelines /\ m.w \in Workers
  BY Types DEF ServeCreate, PInv, Sound, Sane
<1>2. CASE CreateJobs(m.p, m.w) /\ Reply(m, "ok", NoPipeline)
  BY <1>1, <1>2, CreateJobsSettles, AnswerKeeps DEF PInv
<1>3. CASE Reply(m, "no", NoPipeline) /\ UNCHANGED queue
  BY <1>3, QueueStays, AnswerKeeps DEF PInv, queue, Settles
<1> QED BY <1>2, <1>3 DEF ServeCreate

\* A report of success is one of a pipeline whose jobs have all succeeded.
LEMMA FinishKeeps ==
  ASSUME PInv, NEW m \in wire, ServeFinish(m), UNCHANGED <<proc, unused, taken, ran, passed>>
  PROVE  PInv'
<1>1. m.op = "finish" /\ m.p \in Pipelines /\ m.w \in Workers
      /\ m.status \in {"succeeded", "failed"}
  BY Types DEF ServeFinish, PInv, Sound, Sane
<1>2. m.status = "succeeded" => Earned(m.p)
  BY <1>1 DEF PInv, Reports
<1>3. Reply(m, "ok", NoPipeline)
  BY DEF ServeFinish
<1>4. CASE Finish(m.p, m.w, m.status)
  BY <1>1, <1>2, <1>3, <1>4, FinishSettles, AnswerKeeps DEF PInv
<1>5. CASE UNCHANGED queue
  BY <1>1, <1>3, <1>5, QueueStays, AnswerKeeps DEF PInv, queue, Settles
<1> QED BY <1>4, <1>5 DEF ServeFinish

\* The status of a job changes only for the call its runner waits for, which is
\* about a job that is left, or for a runner that has given up.
LEMMA JobKeeps ==
  ASSUME PInv, NEW m \in wire, ServeJob(m), UNCHANGED <<proc, unused, taken, ran, passed>>
  PROVE  PInv'
<1>1. m.op = "job" /\ m.p \in Pipelines /\ m.w \in Workers /\ m.job \in Jobs
      /\ m.status \in {"running", "succeeded", "failed"}
  BY Types DEF ServeJob, PInv, Sound, Sane, ProtocolTypeOK, RequestType
<1>2. CASE Reply(m, "no", NoPipeline) /\ UNCHANGED queue
  BY <1>2, QueueStays, AnswerKeeps DEF PInv, queue, Settles
<1>3. CASE ReportJob(m.p, m.w, m.job, m.status) /\ Reply(m, "ok", NoPipeline)
  <2>1. IInv'
    BY <1>1, <1>3, ReportJobIInv DEF PInv
  <2>2. /\ wire' \subseteq wire /\ Cardinality(wire') <= Capacity
        /\ call' \in CallTable
        /\ \A v \in Workers, t \in Tasks : call'[v][t].id = call[v][t].id
        /\ \A v \in Workers, t \in Tasks :
             call'[v][t] = call[v][t]
               \/ (/\ m.id = call[v][t].id
                   /\ call'[v][t] = [id |-> m.id, answer |-> "ok", given |-> NoPipeline])
        /\ CallsMatch'
    <3> DEFINE answer == "ok" given == NoPipeline
    <3>1. given \in Pipelines \cup {NoPipeline} /\ (given # NoPipeline => answer = "ok")
          /\ answer \in {"ok", "no"}
      OBVIOUS
    <3>2. Reply(m, answer, given)
      BY <1>3
    <3> HIDE DEF given, answer
    <3>3. given = NoPipeline /\ answer = "ok"
      BY DEF given, answer
    <3> QED BY <3>1, <3>2, <3>3, Types, ReplyKeeps DEF PInv, Sound, Sane
  <2>3. "main" \in Tasks
    BY DEF Tasks
  <2>4. /\ UNCHANGED <<definition, status, worker, request>>
        /\ Running(m.p)
        /\ \A p \in Pipelines, j \in Jobs :
             job'[p][j] = IF p = m.p /\ j = m.job THEN m.status ELSE job[p][j]
    BY <1>1, <1>3 DEF ReportJob, Active, Leased, PInv, IInv, TypeOK
  <2>5. ProtocolTypeOK'
    BY <2>1, <2>2, Types DEF PInv, ProtocolTypeOK, CallTable, IInv
  <2>6. Sound'
    BY <2>2, SoundStays DEF PInv
  <2>7. Identities'
    BY <2>2, <2>3, <2>4, IdentitiesStay DEF PInv
  <2>8. Executions'
    BY <2>4, Types, QueueAssumption, ExecutionsStay DEF PInv, Stay
  <2>9. \A p \in Pipelines : definition[p].jobs \subseteq Jobs
    BY QueueAssumption DEF PInv, IInv, TypeOK, DefinitionType
  <2>10. ASSUME NEW w \in Workers, proc[w].phase \in Executing, proc[w].held = m.p
         PROVE  /\ m.id = call[w]["main"].id /\ Asks(proc[w], m)
                /\ proc[w].phase \in {"announce", "report"}
                /\ m.job = proc[w].current /\ m.job \in proc[w].left
    <3>1. m.id = call[w]["main"].id
      BY <1>1, <2>10 DEF PInv, Reports
    <3>2. Asks(proc[w], m)
      BY <3>1 DEF PInv, CallsMatch
    <3>3. proc[w].phase \in {"announce", "report"} /\ m.job = proc[w].current
      BY <1>1, <3>2 DEF Asks
    <3> QED BY <3>1, <3>2, <3>3 DEF PInv, Sound, Sane
  <2>11. ASSUME NEW p \in Pipelines, Earned(p), Quiet(p)
         PROVE  Earned(p)' /\ Quiet(p)'
    <3>1. p # m.p
      BY <1>1, <2>11 DEF Quiet
    <3> QED BY <2>2, <2>4, <2>9, <2>11, <3>1 DEF Earned, Quiet
  <2>12. ASSUME NEW w \in Workers, proc[w].phase \in Executing PROVE
         /\ \A j \in definition'[proc[w].held].jobs \ proc[w].left :
              j \in passed'[proc[w].held] /\ job'[proc[w].held][j] = "succeeded"
         /\ \A n \in wire' :
              n.p = proc[w].held /\ n.op \in {"create", "job", "finish"} =>
                n.id = call'[w]["main"].id
    <3>1. proc[w].held \in Pipelines
      BY <2>12, Types DEF PInv, Sound, Sane, Executing
    <3>2. \A j \in definition[proc[w].held].jobs \ proc[w].left :
            ~ (proc[w].held = m.p /\ j = m.job)
      BY <2>10, <2>12
    <3>3. ASSUME NEW j \in definition[proc[w].held].jobs \ proc[w].left
          PROVE  j \in passed[proc[w].held] /\ job'[proc[w].held][j] = "succeeded"
      <4>1. j \in passed[proc[w].held] /\ job[proc[w].held][j] = "succeeded"
        BY <2>12 DEF PInv, Reports
      <4> QED BY <2>4, <2>9, <3>1, <3>2, <4>1
    <3>4. ASSUME NEW n \in wire', n.p = proc[w].held, n.op \in {"create", "job", "finish"}
          PROVE  n.id = call'[w]["main"].id
      BY <2>2, <2>3, <2>12, <3>4 DEF PInv, Reports
    <3> QED BY <2>4, <3>3, <3>4
  <2>13. ASSUME NEW w \in Workers PROVE
         /\ proc[w].phase = "create" => proc[w].left = definition'[proc[w].held].jobs
         /\ proc[w].phase = "report" /\ proc[w].outcome = "succeeded" =>
              /\ proc[w].current \in passed'[proc[w].held]
              /\ call'[w]["main"].answer = "ok" =>
                   job'[proc[w].held][proc[w].current] = "succeeded"
         /\ proc[w].phase = "finish" /\ proc[w].outcome = "succeeded" =>
              Earned(proc[w].held)' /\ Quiet(proc[w].held)'
    <3>1. CASE proc[w].phase = "create"
      BY <2>4, <3>1 DEF PInv, Reports
    <3>2. CASE proc[w].phase = "report" /\ proc[w].outcome = "succeeded"
      <4>1. proc[w].held \in Pipelines /\ proc[w].current \in Jobs
            /\ proc[w].phase \in Executing
        BY <3>2, Types DEF PInv, Sound, Sane, Executing
      <4>2. proc[w].current \in passed[proc[w].held]
        BY <3>2 DEF PInv, Reports
      <4>3. ASSUME call'[w]["main"].answer = "ok"
            PROVE  job'[proc[w].held][proc[w].current] = "succeeded"
        <5>1. CASE proc[w].held = m.p
          BY <1>1, <2>4, <2>10, <3>2, <4>1, <5>1 DEF Asks
        <5>2. CASE proc[w].held # m.p /\ call'[w]["main"] = call[w]["main"]
          <6>1. job[proc[w].held][proc[w].current] = "succeeded"
            BY <3>2, <4>3, <5>2 DEF PInv, Reports
          <6> QED BY <2>4, <4>1, <5>2, <6>1
        <5>3. CASE proc[w].held # m.p /\ call'[w]["main"] # call[w]["main"]
          <6>1. m.id = call[w]["main"].id
            BY <2>2, <2>3, <5>3
          <6> QED BY <5>3, <6>1 DEF PInv, CallsMatch, Asks
        <5> QED BY <5>1, <5>2, <5>3
      <4> QED BY <3>2, <4>2, <4>3
    <3>3. CASE proc[w].phase = "finish" /\ proc[w].outcome = "succeeded"
      <4>1. proc[w].held \in Pipelines
        BY <3>3, Types DEF PInv, Sound, Sane
      <4>2. Earned(proc[w].held) /\ Quiet(proc[w].held)
        BY <3>3 DEF PInv, Reports
      <4> QED BY <2>11, <3>3, <4>1, <4>2
    <3> QED BY <3>1, <3>2, <3>3
  <2>14. ASSUME NEW n \in wire' PROVE
         /\ n.op \in {"create", "job", "finish"} => taken'[n.p] = 1
         /\ n.op = "finish" /\ n.status = "succeeded" => Earned(n.p)' /\ Quiet(n.p)'
    <3>1. n \in wire
      BY <2>2
    <3>2. n.op = "finish" => n.p \in Pipelines
      BY <3>1 DEF PInv, Sound, Sane
    <3> QED BY <2>11, <3>1, <3>2 DEF PInv, Reports
  <2>15. SuccessIsEarned'
    <3> SUFFICES ASSUME NEW p \in Pipelines, status'[p] = "succeeded" PROVE Earned(p)'
      BY DEF SuccessIsEarned, Earned
    <3>1. Earned(p) /\ p # m.p
      BY <2>4 DEF PInv, Reports, SuccessIsEarned, Earned, Running
    <3> QED BY <2>4, <2>9, <3>1 DEF Earned
  <2>16. Reports'
    BY <2>12, <2>13, <2>14, <2>15 DEF Reports
  <2> QED BY <2>1, <2>2, <2>5, <2>6, <2>7, <2>8, <2>16 DEF PInv
<1> QED BY <1>2, <1>3 DEF ServeJob

\* A claim is answered with a pipeline that was assigned to it.
LEMMA GivenKeeps ==
  ASSUME PInv, IInv', Settles, Stay, UNCHANGED <<proc, unused, taken, ran, passed>>,
         NEW m \in wire, m.op = "claim",
         NEW given \in Pipelines \cup {NoPipeline}, Reply(m, "ok", given),
         given # NoPipeline => worker'[given] = m.w /\ request'[given] = m.request,
         \A p \in Pipelines :
           \/ worker'[p] = worker[p] /\ request'[p] = request[p]
           \/ worker[p] = NoWorker /\ worker'[p] = m.w /\ request'[p] = m.request
  PROVE  PInv'
<1>1. /\ wire' \subseteq wire /\ Cardinality(wire') <= Capacity
      /\ call' \in CallTable
      /\ \A v \in Workers, t \in Tasks : call'[v][t].id = call[v][t].id
      /\ \A v \in Workers, t \in Tasks :
           call'[v][t] = call[v][t]
             \/ (/\ m.id = call[v][t].id
                 /\ call'[v][t] = [id |-> m.id, answer |-> "ok", given |-> given])
      /\ CallsMatch'
  <2> DEFINE answer == "ok"
  <2>1. Reply(m, answer, given) /\ answer \in {"ok", "no"}
        /\ (given # NoPipeline => answer = "ok")
    OBVIOUS
  <2> HIDE DEF answer
  <2>2. answer = "ok"
    BY DEF answer
  <2> QED BY <2>1, <2>2, Types, ReplyKeeps DEF PInv, Sound, Sane
<1>2. "main" \in Tasks
  BY DEF Tasks
<1>3. ProtocolTypeOK'
  BY <1>1, Types DEF PInv, ProtocolTypeOK, CallTable, IInv
<1>4. Sound'
  BY <1>1, SoundStays DEF PInv
<1>5. m.w \in Workers /\ m.request \in Requests \ unused
      /\ \A v \in Workers : proc[v].request = m.request => v = m.w
  BY Types DEF PInv, Identities
<1>6. Identities'
  <2>1. /\ \A w, v \in Workers : proc'[w].request # NoRequest =>
             /\ proc'[w].request \notin unused'
             /\ proc'[v].request = proc'[w].request => v = w
        /\ \A n \in wire' : n.op = "claim" =>
             /\ n.request \in Requests \ unused'
             /\ \A v \in Workers : proc'[v].request = n.request => v = n.w
    BY <1>1 DEF PInv, Identities
  <2>2. ASSUME NEW p \in Pipelines, request'[p] # NoRequest
        PROVE  /\ request'[p] \notin unused' /\ worker'[p] # NoWorker
               /\ \A v \in Workers : proc'[v].request = request'[p] => v = worker'[p]
    <3>1. CASE worker'[p] = worker[p] /\ request'[p] = request[p]
      BY <2>2, <3>1 DEF PInv, Identities
    <3>2. CASE worker'[p] = m.w /\ request'[p] = m.request
      BY <1>5, <3>2, QueueAssumption
    <3> QED BY <3>1, <3>2
  <2>3. ASSUME NEW w \in Workers, call'[w]["main"].given # NoPipeline
        PROVE  /\ proc'[w].phase = "claim"
               /\ worker'[call'[w]["main"].given] = w
               /\ request'[call'[w]["main"].given] = proc'[w].request
    <3>1. CASE call'[w]["main"] = call[w]["main"]
      <4> DEFINE p == call[w]["main"].given
      <4>1. p \in Pipelines /\ p # NoPipeline
        BY <2>3, <3>1, <1>2, Types DEF PInv, CallTable, CallType
      <4>2. proc[w].phase = "claim" /\ worker[p] = w /\ request[p] = proc[w].request
        BY <4>1 DEF PInv, Identities
      <4> QED BY <3>1, <4>1, <4>2, QueueAssumption DEF Stay
    <3>2. CASE call'[w]["main"] # call[w]["main"]
      <4>1. m.id = call[w]["main"].id /\ call'[w]["main"].given = given
        BY <1>1, <1>2, <3>2
      <4>2. Asks(proc[w], m) /\ m.w = w
        BY <1>2, <4>1 DEF PInv, CallsMatch
      <4>3. proc[w].phase = "claim" /\ m.request = proc[w].request
        BY <4>2 DEF Asks
      <4> QED BY <2>3, <4>1, <4>2, <4>3
    <3> QED BY <3>1, <3>2
  <2>4. ASSUME NEW p \in Pipelines, taken'[p] # 0
        PROVE  /\ taken'[p] = 1 /\ request'[p] \in Requests
               /\ \A v \in Workers : proc'[v].request # request'[p]
    <3>1. /\ taken[p] = 1 /\ request[p] \in Requests
          /\ \A v \in Workers : proc[v].request # request[p]
      BY <2>4 DEF PInv, Identities
    <3>2. worker[p] # NoWorker
      BY <3>1, QueueAssumption DEF PInv, Identities
    <3> QED BY <3>1, <3>2 DEF Stay
  <2> HIDE DEF PInv
  <2> QED BY <2>1, <2>2, <2>3, <2>4 DEF Identities
<1>7. Executions'
  BY Types, QueueAssumption, ExecutionsStay DEF PInv
<1>8. ASSUME NEW w \in Workers, proc[w].phase = "report",
             call'[w]["main"].answer = "ok", call[w]["main"].answer # "ok"
      PROVE  FALSE
  <2>1. m.id = call[w]["main"].id
    BY <1>1, <1>2, <1>8
  <2> QED BY <1>8, <2>1 DEF PInv, CallsMatch, Asks
<1>9. Reports'
  BY <1>1, <1>2, <1>8, Types, ReportsStay DEF PInv
<1> QED BY <1>1, <1>3, <1>4, <1>6, <1>7, <1>9 DEF PInv

LEMMA TheOneOf ==
  ASSUME NEW S \in SUBSET Pipelines
  PROVE  TheOne(S) = NoPipeline \/ TheOne(S) \in S
BY DEF TheOne

LEMMA ClaimKeeps ==
  ASSUME PInv, NEW m \in wire, ServeClaim(m), UNCHANGED <<proc, unused, taken, ran, passed>>
  PROVE  PInv'
<1>1. m.op = "claim" /\ m.w \in Workers /\ m.request \in Requests
  BY Types DEF ServeClaim, PInv, Identities
<1>2. CASE UNCHANGED queue /\ Reply(m, "ok", TheOne(Replay(m.w, m.request, TRUE)))
  <2>1. Replay(m.w, m.request, TRUE) \in SUBSET Pipelines
    BY DEF Replay, Assigned
  <2> DEFINE p == TheOne(Replay(m.w, m.request, TRUE))
  <2>2. p = NoPipeline \/ p \in Replay(m.w, m.request, TRUE)
    BY <2>1, TheOneOf
  <2>3. p # NoPipeline => p \in Pipelines /\ worker[p] = m.w /\ request[p] = m.request
    BY <2>2 DEF Replay, Assigned
  <2>4. IInv' /\ Settles /\ Stay /\ UNCHANGED <<worker, request>>
    BY <1>2, QueueStays DEF PInv, queue, Settles, Stay
  <2>5. Reply(m, "ok", p)
    BY <1>2
  <2> HIDE DEF p
  <2> QED BY <1>1, <2>3, <2>4, <2>5, GivenKeeps
<1>3. CASE /\ \E system \in Systems : ClaimFresh(m.w, m.request, system, TRUE)
           /\ Reply(m, "ok", TheOne({p \in Pipelines : worker'[p] = m.w
                                             /\ request'[p] = m.request}))
  <2> DEFINE S == {p \in Pipelines : worker'[p] = m.w /\ request'[p] = m.request}
             given == TheOne(S)
  <2>1. given = NoPipeline \/ given \in S
    BY TheOneOf
  <2>2. given # NoPipeline =>
          given \in Pipelines /\ worker'[given] = m.w /\ request'[given] = m.request
    BY <2>1
  <2>3. PICK system \in Systems : ClaimFresh(m.w, m.request, system, TRUE)
    BY <1>3
  <2>4. /\ IInv' /\ Settles /\ Stay
        /\ \A p \in Pipelines :
             (worker'[p] = worker[p] /\ request'[p] = request[p])
               \/ (worker[p] = NoWorker /\ worker'[p] = m.w /\ request'[p] = m.request)
    BY <1>1, <2>3, ClaimSettles DEF PInv
  <2>5. Reply(m, "ok", given)
    BY <1>3
  <2> HIDE DEF given
  <2> QED BY <1>1, <2>2, <2>4, <2>5, GivenKeeps
<1>4. CASE Reply(m, "ok", NoPipeline) /\ UNCHANGED queue
  BY <1>1, <1>4, QueueStays, AnswerKeeps DEF PInv, queue, Settles
<1> QED BY <1>2, <1>3, <1>4 DEF ServeClaim

LEMMA ServeKeeps ==
  ASSUME PInv, NEW m \in wire, Serve(m) PROVE PInv'
BY ClaimKeeps, BeatKeeps, CreateKeeps, JobKeeps, FinishKeeps DEF Serve

\* A request is lost, or the queue moves without the runners.
LEMMA QuietKeeps ==
  ASSUME PInv, IInv', Settles, UNCHANGED <<worker, request>>,
         wire' \subseteq wire, UNCHANGED <<proc, call, unused, taken, ran, passed>>
  PROVE  PInv'
<1>1. Cardinality(wire') <= Capacity
  <2>1. IsFiniteSet(wire) /\ Cardinality(wire) <= Capacity
    BY DEF PInv, Sound, Sane, ProtocolTypeOK
  <2>2. IsFiniteSet(wire') /\ Cardinality(wire') <= Cardinality(wire)
    BY <2>1, FS_Subset
  <2>3. Cardinality(wire') \in Nat /\ Cardinality(wire) \in Nat
    BY <2>1, <2>2, FS_CardinalityType
  <2> QED BY <2>1, <2>2, <2>3, ProtocolAssumption
<1>2. ProtocolTypeOK'
  BY <1>1 DEF PInv, ProtocolTypeOK, IInv
<1>3. CallsMatch'
  BY DEF PInv, CallsMatch
<1>4. Sound' /\ Identities'
  BY SoundStays, IdentitiesStay DEF PInv
<1>5. Executions'
  BY Types, QueueAssumption, ExecutionsStay DEF PInv, Stay
<1>6. Reports'
  BY Types, ReportsStay DEF PInv
<1> QED BY <1>2, <1>3, <1>4, <1>5, <1>6 DEF PInv

LEMMA LoseKeeps == ASSUME PInv, NEW m \in wire, Lose(m) PROVE PInv'
<1>1. IInv' /\ Settles /\ UNCHANGED <<worker, request>>
  BY QueueStays DEF Lose, PInv, queue, Settles
<1> QED BY <1>1, QuietKeeps DEF Lose

LEMMA EnvironmentKeeps ==
  ASSUME PInv, SubmitStep \/ CancelStep \/ Reap \/ Tick, UNCHANGED protocol PROVE PInv'
BY EnvironmentSettles, QuietKeeps DEF PInv, protocol

-----------------------------------------------------------------------------
(* A process takes a step. *)

\* What Executions and Reports say of one process.
Stands(w) == LET me == proc[w] IN
  /\ me.held # NoPipeline => taken[me.held] = 1 /\ worker[me.held] = w
  /\ me.phase \in Executing =>
       /\ \A j \in me.left :
            ran[me.held][j] = 0 \/ (me.phase \in {"shell", "report"} /\ j = me.current)
       /\ \A j \in definition[me.held].jobs \ me.left :
            j \in passed[me.held] /\ job[me.held][j] = "succeeded"
       /\ \A m \in wire : m.p = me.held /\ m.op \in {"create", "job", "finish"} =>
            m.id = call[w]["main"].id
  /\ me.phase = "create" => me.left = definition[me.held].jobs
  /\ me.phase = "report" /\ me.outcome = "succeeded" =>
       /\ me.current \in passed[me.held]
       /\ call[w]["main"].answer = "ok" => job[me.held][me.current] = "succeeded"
  /\ me.phase = "finish" /\ me.outcome = "succeeded" => Earned(me.held) /\ Quiet(me.held)

LEMMA ItStands ==
  ASSUME PInv, NEW w \in Workers PROVE Stands(w)
<1>1. \A v \in Workers : proc[v].phase \in Executing => proc[v].held # NoPipeline
  BY DEF PInv, Sound, Sane, Executing
<1> QED BY <1>1 DEF PInv, Executions, Reports, Stands

\* A process moves to the state new; a call of it may end.
Moves(w, new) ==
  /\ proc' = [proc EXCEPT ![w] = new]
  /\ UNCHANGED <<queue, wire>>
  /\ call' \in CallTable
  /\ \A v \in Workers : v # w => call'[v] = call[v]
  /\ \A t \in Tasks : call'[w][t] = call[w][t] \/ call'[w][t] = Idle

\* The parts of a process that its main call is about.
SameCall(me, new) ==
  /\ new.phase = me.phase /\ new.request = me.request /\ new.held = me.held
  /\ new.current = me.current /\ new.outcome = me.outcome

LEMMA MoveSound ==
  ASSUME PInv, NEW w \in Workers, NEW new \in ProcType, Moves(w, new), Sane(new),
         call'[w]["main"].id # 0 => SameCall(proc[w], new)
  PROVE  CallsMatch' /\ Sound'
<1>1. "main" \in Tasks
  BY DEF Tasks
<1>2. \A v \in Workers : proc'[v] = IF v = w THEN new ELSE proc[v]
  BY DEF Moves, PInv, ProtocolTypeOK
<1>3. Sound'
  BY <1>2 DEF Moves, PInv, Sound
<1>4. \A v \in Workers, t \in Tasks : call'[v][t] = call[v][t] \/ call'[v][t] = Idle
  BY DEF Moves
<1>5. Idle.id = 0 /\ Idle.answer = "none" /\ Idle.given = NoPipeline
  BY DEF Idle
<1>6. wire' = wire /\ \A m \in wire : m.id # 0
  BY Types DEF Moves, PInv
<1>7. \A v \in Workers : call'[v]["main"].id # 0 =>
        SameCall(proc[v], proc'[v]) /\ call'[v]["main"] = call[v]["main"]
  BY <1>1, <1>2, <1>4, <1>5 DEF SameCall
<1>8. /\ \A m, n \in wire : m.id = n.id => m = n
      /\ \A u, v \in Workers, t, s \in Tasks :
           call'[u][t].id # 0 /\ call'[v][s].id = call'[u][t].id => v = u /\ s = t
      /\ \A m \in wire, u \in Workers, t \in Tasks :
           m.id = call'[u][t].id => m.w = u /\ m.task = t
  BY <1>4, <1>5, <1>6 DEF PInv, CallsMatch
<1>9. \A u \in Workers, t \in Tasks :
        /\ call'[u][t].answer # "none" =>
             call'[u][t].id # 0 /\ \A m \in wire : m.id # call'[u][t].id
        /\ call'[u][t].given # NoPipeline => call'[u][t].answer = "ok"
  BY <1>4, <1>5 DEF PInv, CallsMatch
<1>10. /\ \A u \in Workers : call'[u]["main"].id # 0 => proc'[u].phase \in Sending
       /\ \A m \in wire, u \in Workers :
            m.id = call'[u]["main"].id => Asks(proc'[u], m)
  BY <1>6, <1>7 DEF PInv, CallsMatch, SameCall, Asks
<1> QED BY <1>3, <1>6, <1>8, <1>9, <1>10 DEF CallsMatch, Sending, Asks

\* Requests are drawn once, and dropped with the answer to the claim.
LEMMA MoveIdentities ==
  ASSUME PInv, NEW w \in Workers, NEW new \in ProcType, Moves(w, new),
         unused' \subseteq unused,
         new.request \in {proc[w].request, NoRequest} \cup (unused \ unused'),
         new.request = NoRequest \/ new.request \in Requests,
         call'[w]["main"].id # 0 => SameCall(proc[w], new),
         \A p \in Pipelines : taken'[p] = taken[p]
            \/ (/\ taken'[p] = 1 /\ request[p] = proc[w].request /\ request[p] \in Requests
                /\ new.request # proc[w].request)
  PROVE  Identities'
<1>1. "main" \in Tasks
  BY DEF Tasks
<1>2. \A v \in Workers : proc'[v] = IF v = w THEN new ELSE proc[v]
  BY DEF Moves, PInv, ProtocolTypeOK
<1>3. UNCHANGED <<worker, request, wire>>
  BY DEF Moves, queue
<1>4. \A v \in Workers : proc'[v].request \in {proc[v].request, NoRequest}
        \/ (v = w /\ proc'[v].request \in unused \ unused')
  BY <1>2
<1>5. NoRequest \notin Requests /\ unused \subseteq Requests
  BY QueueAssumption DEF PInv, ProtocolTypeOK
<1>6. \A u, v \in Workers : proc'[u].request # NoRequest =>
        /\ proc'[u].request \notin unused'
        /\ proc'[v].request = proc'[u].request => v = u
  BY <1>4, <1>5 DEF PInv, Identities
<1>7. \A m \in wire : m.op = "claim" =>
        /\ m.request \in Requests \ unused'
        /\ \A v \in Workers : proc'[v].request = m.request => v = m.w
  BY <1>4, <1>5 DEF PInv, Identities
<1>8. \A p \in Pipelines : request[p] # NoRequest =>
        /\ request[p] \notin unused' /\ worker[p] # NoWorker
        /\ \A v \in Workers : proc'[v].request = request[p] => v = worker[p]
  BY <1>4, <1>5 DEF PInv, Identities
<1>9. ASSUME NEW u \in Workers, call'[u]["main"].given # NoPipeline
      PROVE  /\ proc'[u].phase = "claim"
             /\ worker[call'[u]["main"].given] = u
             /\ request[call'[u]["main"].given] = proc'[u].request
  <2>1. call'[u]["main"] = call[u]["main"]
    BY <1>1, <1>9 DEF Moves, Idle
  <2>2. call[u]["main"].id # 0
    BY <1>1, <1>9, <2>1 DEF PInv, CallsMatch
  <2>3. proc'[u].phase = proc[u].phase /\ proc'[u].request = proc[u].request
    BY <1>2, <2>1, <2>2 DEF SameCall
  <2> QED BY <1>9, <2>1, <2>3 DEF PInv, Identities
<1>10. ASSUME NEW p \in Pipelines, taken'[p] # 0
       PROVE  /\ taken'[p] = 1 /\ request[p] \in Requests
              /\ \A v \in Workers : proc'[v].request # request[p]
  <2>1. CASE taken'[p] = taken[p]
    <3>1. /\ taken[p] = 1 /\ request[p] \in Requests /\ request[p] \notin unused
          /\ \A v \in Workers : proc[v].request # request[p]
      BY <1>5, <1>10, <2>1 DEF PInv, Identities
    <3> QED BY <1>4, <1>5, <2>1, <3>1
  <2>2. CASE /\ taken'[p] = 1 /\ request[p] = proc[w].request /\ request[p] \in Requests
             /\ new.request # proc[w].request
    <3>1. \A v \in Workers : v # w => proc[v].request # request[p]
      BY <1>5, <2>2 DEF PInv, Identities
    <3> QED BY <1>2, <2>2, <3>1
  <2> QED BY <2>1, <2>2
<1> QED BY <1>3, <1>6, <1>7, <1>8, <1>9, <1>10 DEF Identities

\* The histories of other pipelines than the one in hand are as before.
Counts(w) ==
  /\ \A p \in Pipelines : taken[p] = 1 => taken'[p] = 1
  /\ \A p \in Pipelines : passed[p] \subseteq passed'[p]
  /\ \A p \in Pipelines, j \in Jobs :
       /\ ran'[p][j] # 0 => ran'[p][j] = 1 /\ taken'[p] = 1
       /\ p # proc'[w].held => ran'[p][j] = ran[p][j]

LEMMA MoveKeeps ==
  ASSUME PInv, NEW w \in Workers, NEW new \in ProcType, Moves(w, new), Sane(new),
         call'[w]["main"].id # 0 => SameCall(proc[w], new),
         Counts(w), ProtocolTypeOK', Identities', Stands(w)'
  PROVE  PInv'
<1>1. IInv'
  BY QueueStays DEF PInv, Moves
<1>2. CallsMatch' /\ Sound'
  BY MoveSound
<1>3. \A v \in Workers : proc'[v] = IF v = w THEN new ELSE proc[v]
  BY DEF Moves, PInv, ProtocolTypeOK
<1>4. UNCHANGED <<definition, status, worker, request, job, wire>>
      /\ \A v \in Workers : v # w => call'[v] = call[v]
  BY DEF Moves, queue
<1>5. \A v \in Workers : proc[v].held \in Pipelines \cup {NoPipeline}
                         /\ proc[v].left \subseteq Jobs
                         /\ (proc[v].phase \in Executing \cup {"finish"} => proc[v].held # NoPipeline)
  BY Types DEF PInv, Sound, Sane, Executing
<1>6. definition \in Catalogs
  BY DEF PInv, IInv, TypeOK
<1>7. ASSUME NEW p \in Pipelines, Earned(p) PROVE Earned(p)'
  BY <1>4, <1>7 DEF Earned, Counts
<1>8. ASSUME NEW p, Quiet(p) PROVE Quiet(p)'
  BY <1>4, <1>8 DEF Quiet
<1>9. ASSUME NEW v \in Workers, v # w PROVE Stands(v)'
  <2>1. Stands(v) /\ proc'[v] = proc[v] /\ call'[v] = call[v]
    BY <1>3, <1>4, <1>9, ItStands
  <2>2. CASE proc[v].held = NoPipeline
    BY <1>5, <2>1, <2>2 DEF Stands, Executing
  <2>3. CASE proc[v].held # NoPipeline
    <3> DEFINE p == proc[v].held
    <3>1. p \in Pipelines /\ taken[p] = 1 /\ worker[p] = v
      BY <1>5, <2>1, <2>3 DEF Stands
    <3>2. taken'[p] = 1
      BY <3>1 DEF Counts
    <3>3. proc'[w].held # p
      BY <1>4, <1>9, <2>3, <3>1 DEF Stands
    <3>4. \A j \in Jobs : ran'[p][j] = ran[p][j]
      BY <3>1, <3>3 DEF Counts
    <3>5. passed[p] \subseteq passed'[p]
      BY <3>1 DEF Counts
    <3>6. proc[v].phase \in Executing =>
            /\ \A j \in proc[v].left :
                 ran'[p][j] = 0 \/ (proc[v].phase \in {"shell", "report"} /\ j = proc[v].current)
            /\ \A j \in definition[p].jobs \ proc[v].left :
                 j \in passed'[p] /\ job[p][j] = "succeeded"
            /\ \A m \in wire : m.p = p /\ m.op \in {"create", "job", "finish"} =>
                 m.id = call[v]["main"].id
      BY <1>5, <2>1, <3>4, <3>5 DEF Stands
    <3>7. proc[v].phase = "finish" /\ proc[v].outcome = "succeeded" => Earned(p)' /\ Quiet(p)'
      BY <1>7, <1>8, <2>1, <3>1 DEF Stands
    <3>8. proc[v].phase = "create" => proc[v].left = definition[p].jobs
      BY <2>1 DEF Stands
    <3>9. proc[v].phase = "report" /\ proc[v].outcome = "succeeded" =>
            /\ proc[v].current \in passed'[p]
            /\ call[v]["main"].answer = "ok" => job[p][proc[v].current] = "succeeded"
      BY <2>1, <3>5 DEF Stands
    <3> QED BY <1>4, <2>1, <3>1, <3>2, <3>6, <3>7, <3>8, <3>9 DEF Stands
  <2> QED BY <2>2, <2>3
<1>10. \A v \in Workers : Stands(v)'
  BY <1>9
<1>11. Executions'
  BY <1>10 DEF Executions, Counts, Stands, Sane, Executing, Sound
<1>12. ASSUME NEW m \in wire PROVE
       /\ m.op \in {"create", "job", "finish"} => taken'[m.p] = 1
       /\ m.op = "finish" /\ m.status = "succeeded" => Earned(m.p)' /\ Quiet(m.p)'
  <2>1. m.op \in {"create", "job", "finish"} => m.p \in Pipelines /\ taken[m.p] = 1
    BY DEF PInv, Sound, Reports
  <2>2. m.op = "finish" /\ m.status = "succeeded" => Earned(m.p) /\ Quiet(m.p)
    BY DEF PInv, Reports
  <2> QED BY <1>7, <1>8, <2>1, <2>2 DEF Counts
<1>13. SuccessIsEarned'
  <2> SUFFICES ASSUME NEW p \in Pipelines, status'[p] = "succeeded" PROVE Earned(p)'
    BY DEF SuccessIsEarned, Earned
  <2>1. Earned(p)
    BY <1>4 DEF PInv, Reports, SuccessIsEarned, Earned
  <2> QED BY <1>7, <2>1
<1>14. Reports'
  <2>1. \A v \in Workers : proc'[v].phase \in Executing =>
          /\ \A j \in definition'[proc'[v].held].jobs \ proc'[v].left :
               j \in passed'[proc'[v].held] /\ job'[proc'[v].held][j] = "succeeded"
          /\ \A m \in wire' :
               m.p = proc'[v].held /\ m.op \in {"create", "job", "finish"} =>
                 m.id = call'[v]["main"].id
    BY <1>10 DEF Stands
  <2>2. \A v \in Workers :
          /\ proc'[v].phase = "create" => proc'[v].left = definition'[proc'[v].held].jobs
          /\ proc'[v].phase = "report" /\ proc'[v].outcome = "succeeded" =>
               /\ proc'[v].current \in passed'[proc'[v].held]
               /\ call'[v]["main"].answer = "ok" =>
                    job'[proc'[v].held][proc'[v].current] = "succeeded"
          /\ proc'[v].phase = "finish" /\ proc'[v].outcome = "succeeded" =>
               Earned(proc[v].held)' /\ Quiet(proc[v].held)'
    BY <1>10 DEF Stands
  <2> QED BY <1>4, <1>12, <1>13, <2>1, <2>2 DEF Reports
<1> QED BY <1>1, <1>2, <1>11, <1>14 DEF PInv

\* A step that counts nothing and takes no new request.
LEMMA QuietMove ==
  ASSUME PInv, NEW w \in Workers, NEW new \in ProcType, Moves(w, new), Sane(new),
         call'[w]["main"].id # 0 => SameCall(proc[w], new),
         UNCHANGED <<unused, taken, ran, passed>>,
         new.request \in {proc[w].request, NoRequest},
         Stands(w)'
  PROVE  PInv'
<1>1. ProtocolTypeOK'
  <2>1. IInv'
    BY QueueStays DEF PInv, Moves
  <2>2. proc' \in [Workers -> ProcType]
    BY DEF Moves, PInv, ProtocolTypeOK
  <2> QED BY <2>1, <2>2 DEF PInv, ProtocolTypeOK, Moves, CallTable, IInv
<1>2. Identities'
  BY Types, MoveIdentities DEF PInv
<1>3. Counts(w)
  BY DEF Counts, PInv, Executions
<1> QED BY <1>1, <1>2, <1>3, MoveKeeps

\* A process that is not, or no longer, executing.
LEMMA LeaveKeeps ==
  ASSUME PInv, NEW w \in Workers, NEW new \in ProcType, Moves(w, new), Sane(new),
         call'[w]["main"].id # 0 => SameCall(proc[w], new),
         UNCHANGED <<unused, taken, ran, passed>>,
         new.request \in {proc[w].request, NoRequest},
         new.held \in {proc[w].held, NoPipeline},
         new.phase \notin Executing,
         new.phase = "finish" /\ new.outcome = "succeeded" =>
           proc[w].phase = "finish" /\ proc[w].outcome = "succeeded" /\ new.held = proc[w].held
  PROVE  PInv'
<1>1. proc'[w] = new
  BY DEF Moves, PInv, ProtocolTypeOK
<1>2. UNCHANGED <<definition, status, worker, request, job, wire>>
  BY DEF Moves, queue
<1>3. Stands(w)
  BY ItStands
<1>4. new.phase = "finish" /\ new.outcome = "succeeded" => Earned(new.held)' /\ Quiet(new.held)'
  BY <1>2, <1>3 DEF Stands, Earned, Quiet
<1>5. new.held # NoPipeline => taken'[new.held] = 1 /\ worker'[new.held] = w
  BY <1>2, <1>3 DEF Stands
<1>6. Stands(w)'
  BY <1>1, <1>4, <1>5 DEF Stands, Executing
<1> QED BY <1>6, QuietMove

\* A step that changes nothing but flags.
LEMMA FlagsKeep ==
  ASSUME PInv, NEW w \in Workers, NEW new \in ProcType, Moves(w, new),
         SameCall(proc[w], new), new.left = proc[w].left,
         new.beating => proc[w].beating,
         call'[w]["main"] = call[w]["main"],
         UNCHANGED <<unused, taken, ran, passed>>
  PROVE  PInv'
<1>1. proc'[w] = new
  BY DEF Moves, PInv, ProtocolTypeOK
<1>2. UNCHANGED <<definition, status, worker, request, job, wire>>
  BY DEF Moves, queue
<1>3. Stands(w)
  BY ItStands
<1>4. Sane(new)
  BY DEF PInv, Sound, Sane, SameCall
<1>5. Stands(w)'
  <2>1. /\ Earned(new.held)' <=> Earned(proc[w].held)
        /\ Quiet(new.held)' <=> Quiet(proc[w].held)
    BY <1>2 DEF Earned, Quiet, SameCall
  <2> QED BY <1>1, <1>2, <1>3, <2>1 DEF Stands, SameCall
<1>6. new.request \in {proc[w].request, NoRequest}
  BY DEF SameCall
<1> QED BY <1>4, <1>5, <1>6, QuietMove

\* An answer is taken, or a call is given up.
LEMMA CallEnds ==
  ASSUME ProtocolTypeOK, NEW w \in Workers, NEW t \in Tasks,
         NEW new, UNCHANGED <<queue, wire>>, Becomes(w, new),
         call' = [call EXCEPT ![w][t] = Idle]
  PROVE  /\ Moves(w, new) /\ call'[w][t].id = 0
         /\ \A s \in Tasks : s # t => call'[w][s] = call[w][s]
<1>1. Idle \in CallType
  BY DEF Idle, CallType
<1>2. call \in CallTable
  BY Types
<1>3. call' \in CallTable
  BY <1>1, <1>2 DEF CallTable
<1>4. /\ \A v \in Workers : v # w => call'[v] = call[v]
      /\ \A s \in Tasks : call'[w][s] = IF s = t THEN Idle ELSE call[w][s]
  BY <1>2 DEF CallTable
<1>5. Idle.id = 0
  BY DEF Idle
<1> QED BY <1>3, <1>4, <1>5 DEF Moves, Becomes

LEMMA CallStays ==
  ASSUME ProtocolTypeOK, NEW w \in Workers, NEW new,
         UNCHANGED <<queue, wire, call>>, Becomes(w, new)
  PROVE  Moves(w, new)
BY Types DEF Moves, Becomes

LEMMA FailedType == ASSUME NEW me \in ProcType PROVE Failed(me) \in ProcType
<1>1. 0 \in 0..(FinishAttempts - 1)
  BY ProtocolAssumption
<1> QED BY <1>1 DEF Failed, ProcType, Phases

\* Down, and the states a process leaves its pipeline to.
LEMMA Leaving ==
  ASSUME PInv, NEW w \in Workers
  PROVE  /\ Down \in ProcType /\ Sane(Down)
         /\ proc[w].phase \in Executing \cup {"finish"} =>
              Failed(proc[w]) \in ProcType /\ Sane(Failed(proc[w]))
<1>1. FinishAttempts \in Nat \ {0} /\ MaxMisses \in Nat \ {0}
  BY ProtocolAssumption
<1>2. Down \in ProcType
  BY <1>1 DEF Down, ProcType, Phases
<1>3. Sane(Down)
  BY DEF Sane, Down
<1>4. proc[w] \in ProcType /\ Sane(proc[w])
  BY Types DEF PInv, Sound
<1>5. Failed(proc[w]) \in ProcType
  BY <1>4, FailedType
<1>6. ASSUME proc[w].phase \in Executing \cup {"finish"} PROVE Sane(Failed(proc[w]))
  BY <1>4, <1>6 DEF Failed, Sane, ProcType, Executing
<1> QED BY <1>2, <1>3, <1>5, <1>6

LEMMA FailKeeps ==
  ASSUME PInv, NEW w \in Workers, proc[w].phase \in Executing,
         Moves(w, Failed(proc[w])), call'[w]["main"].id = 0,
         UNCHANGED <<unused, taken, ran, passed>>
  PROVE  PInv'
<1> DEFINE new == Failed(proc[w])
<1>1. new \in ProcType /\ Sane(new)
  BY Leaving
<1>2. /\ new.request = proc[w].request /\ new.held = proc[w].held
      /\ new.phase = "finish" /\ new.outcome = "failed"
  BY Types DEF Failed, ProcType, PInv
<1> HIDE DEF new
<1>3. new.phase \notin Executing
  BY <1>2 DEF Executing
<1>4. Moves(w, new)
  BY DEF new
<1> QED BY <1>1, <1>2, <1>3, <1>4, LeaveKeeps

LEMMA DownKeeps ==
  ASSUME PInv, NEW w \in Workers, Moves(w, Down), call'[w]["main"].id = 0,
         UNCHANGED <<unused, taken, ran, passed>>
  PROVE  PInv'
<1>1. Down \in ProcType /\ Sane(Down)
  BY Leaving
<1>2. /\ Down.request = NoRequest /\ Down.held = NoPipeline /\ Down.phase = "down"
  BY DEF Down
<1>3. Down.phase \notin Executing
  BY <1>2 DEF Executing
<1> QED BY <1>1, <1>2, <1>3, LeaveKeeps

LEMMA CrashMoves ==
  ASSUME PInv, NEW w \in Workers, Becomes(w, Down), UNCHANGED <<queue, wire>>,
         call' = [call EXCEPT ![w] = [t \in Tasks |-> Idle]]
  PROVE  Moves(w, Down) /\ call'[w]["main"].id = 0
<1>1. call \in CallTable
  BY Types DEF PInv
<1>2. [t \in Tasks |-> Idle] \in [Tasks -> CallType] /\ "main" \in Tasks
  BY DEF Idle, CallType, Tasks
<1>3. call' \in CallTable
  BY <1>1, <1>2 DEF CallTable
<1>4. /\ \A v \in Workers : v # w => call'[v] = call[v]
      /\ \A t \in Tasks : call'[w][t] = Idle
  BY <1>1 DEF CallTable
<1> QED BY <1>2, <1>3, <1>4 DEF Moves, Becomes, Idle

LEMMA CrashKeeps == ASSUME PInv, NEW w \in Workers, Crash(w) PROVE PInv'
BY CrashMoves, DownKeeps DEF Crash

LEMMA StopKeeps == ASSUME PInv, NEW w \in Workers, Stop(w) PROVE PInv'
<1>1. CASE proc[w].phase = "claim"
  BY <1>1, CrashMoves, DownKeeps DEF Stop
<1>2. CASE proc[w].phase # "claim"
  <2> DEFINE new == [proc[w] EXCEPT !.stopping = TRUE, !.cancelled = TRUE]
  <2>1. proc[w] \in ProcType
    BY Types DEF PInv
  <2>2. new \in ProcType
    BY <2>1 DEF ProcType
  <2>3. SameCall(proc[w], new) /\ new.left = proc[w].left /\ new.beating = proc[w].beating
    BY <2>1 DEF SameCall, ProcType
  <2>4. Becomes(w, new) /\ UNCHANGED <<queue, wire, call>>
    BY <1>2 DEF Stop
  <2>5. Moves(w, new)
    BY <2>4, CallStays DEF PInv
  <2> HIDE DEF new
  <2> QED BY <2>2, <2>3, <2>4, <2>5, FlagsKeep DEF Stop
<1> QED BY <1>1, <1>2

LEMMA PrepareFailsKeeps == ASSUME PInv, NEW w \in Workers, PrepareFails(w) PROVE PInv'
<1>1. Moves(w, Failed(proc[w])) /\ call'[w]["main"].id = 0
  BY CallStays DEF PInv, PrepareFails, Waiting
<1> QED BY <1>1, FailKeeps DEF PrepareFails, Executing

\* The pipeline is let go of.
LEMMA LetGoKeeps ==
  ASSUME PInv, NEW w \in Workers, proc[w].phase = "finish", LetGo(w),
         call' = [call EXCEPT ![w]["main"] = Idle],
         UNCHANGED <<queue, wire, unused, taken, ran, passed>>
  PROVE  PInv'
<1> DEFINE new == IF proc[w].stopping THEN Down
                  ELSE [Down EXCEPT !.phase = "claim", !.request = proc[w].request]
<1>1. Becomes(w, new)
  BY DEF LetGo
<1>2. "main" \in Tasks
  BY DEF Tasks
<1>3. proc[w] \in ProcType /\ proc[w].request \in Requests
  BY Types DEF PInv, Sound, Sane
<1>4. new \in ProcType
  BY <1>3, Leaving DEF ProcType, Phases
<1>5. /\ Sane(new) /\ new.request \in {proc[w].request, NoRequest}
      /\ new.held = NoPipeline /\ new.phase \in {"down", "claim"}
  BY <1>3 DEF Sane, Down
<1> HIDE DEF new
<1>6. Moves(w, new) /\ call'[w]["main"].id = 0
  BY <1>1, <1>2, CallEnds DEF PInv
<1>7. new.phase \notin Executing /\ new.phase # "finish"
  BY <1>5 DEF Executing
<1> QED BY <1>4, <1>5, <1>6, <1>7, LeaveKeeps

LEMMA FinishAnsweredKeeps == ASSUME PInv, NEW w \in Workers, FinishAnswered(w) PROVE PInv'
BY LetGoKeeps DEF FinishAnswered, Answered

LEMMA MainGivesUpKeeps == ASSUME PInv, NEW w \in Workers, MainGivesUp(w) PROVE PInv'
<1>1. call' = [call EXCEPT ![w]["main"] = Idle] /\ "main" \in Tasks
  BY DEF MainGivesUp, GivesUp, Tasks
<1>2. proc[w] \in ProcType /\ Sane(proc[w])
  BY Types DEF PInv, Sound
<1>3. CASE proc[w].phase = "claim" /\ UNCHANGED proc
  <2>1. Becomes(w, proc[w])
    BY <1>3 DEF Becomes, PInv, ProtocolTypeOK
  <2>2. Moves(w, proc[w]) /\ call'[w]["main"].id = 0
    BY <1>1, <2>1, CallEnds DEF MainGivesUp, PInv
  <2> QED BY <1>2, <1>3, <2>2, LeaveKeeps DEF MainGivesUp, Executing
<1>4. CASE proc[w].phase \in {"create", "announce", "report"} /\ Becomes(w, Failed(proc[w]))
  <2>1. Moves(w, Failed(proc[w])) /\ call'[w]["main"].id = 0
    BY <1>1, <1>4, CallEnds DEF MainGivesUp, PInv
  <2> QED BY <1>4, <2>1, FailKeeps DEF MainGivesUp, Executing
<1>5. CASE /\ proc[w].phase = "finish" /\ proc[w].tries + 1 < FinishAttempts
           /\ Becomes(w, [proc[w] EXCEPT !.tries = @ + 1])
  <2> DEFINE new == [proc[w] EXCEPT !.tries = @ + 1]
  <2>1. new \in ProcType
    BY <1>2, <1>5, ProtocolAssumption DEF ProcType
  <2>2. SameCall(proc[w], new) /\ new.beating = proc[w].beating /\ new.left = proc[w].left
    BY <1>2 DEF SameCall, ProcType
  <2> HIDE DEF new
  <2>3. Moves(w, new) /\ call'[w]["main"].id = 0
    BY <1>1, <1>5, CallEnds DEF MainGivesUp, PInv, new
  <2> QED BY <1>2, <1>5, <2>1, <2>2, <2>3, LeaveKeeps DEF MainGivesUp, SameCall, Sane, Executing
<1>6. CASE proc[w].phase = "finish" /\ LetGo(w)
  BY <1>1, <1>6, LetGoKeeps DEF MainGivesUp
<1> QED BY <1>3, <1>4, <1>5, <1>6 DEF MainGivesUp

LEMMA BeatEndsKeeps == ASSUME PInv, NEW w \in Workers, BeatEnds(w) PROVE PInv'
<1>1. call' = [call EXCEPT ![w]["beat"] = Idle] /\ {"main", "beat"} = Tasks
  BY DEF BeatEnds, GivesUp, Answered, Tasks
<1>2. proc[w] \in ProcType /\ proc[w].misses \in 0..(MaxMisses - 1)
  BY Types DEF PInv, ProcType
<1>3. ASSUME NEW new \in ProcType, Becomes(w, new), SameCall(proc[w], new),
             new.left = proc[w].left, new.beating => proc[w].beating
      PROVE  PInv'
  <2>1. Moves(w, new) /\ call'[w]["main"] = call[w]["main"]
    BY <1>1, <1>3, CallEnds DEF BeatEnds, PInv
  <2> QED BY <1>3, <2>1, FlagsKeep DEF BeatEnds
<1>4. /\ Cancels(proc[w]) \in ProcType /\ SameCall(proc[w], Cancels(proc[w]))
      /\ Cancels(proc[w]).left = proc[w].left /\ ~ Cancels(proc[w]).beating
  <2> DEFINE me == proc[w]
  <2>1. me \in ProcType
    BY <1>2
  <2> HIDE DEF me
  <2>2. /\ Cancels(me) \in ProcType /\ SameCall(me, Cancels(me))
        /\ Cancels(me).left = me.left /\ ~ Cancels(me).beating
    BY <2>1 DEF Cancels, ProcType, SameCall
  <2> QED BY <2>2 DEF me
<1>5. ASSUME NEW n \in 0..(MaxMisses - 1), Becomes(w, [proc[w] EXCEPT !.misses = n])
      PROVE  PInv'
  <2> DEFINE new == [proc[w] EXCEPT !.misses = n]
  <2>1. /\ new \in ProcType /\ SameCall(proc[w], new)
        /\ new.left = proc[w].left /\ new.beating = proc[w].beating
    BY <1>2 DEF ProcType, SameCall
  <2>2. Becomes(w, new)
    BY <1>5
  <2> HIDE DEF new
  <2> QED BY <1>3, <2>1, <2>2
<1>6. CASE Becomes(w, [proc[w] EXCEPT !.misses = 0])
  BY <1>5, <1>6, ProtocolAssumption
<1>7. CASE Becomes(w, Cancels(proc[w]))
  BY <1>3, <1>4, <1>7
<1>8. CASE proc[w].misses + 1 < MaxMisses /\ Becomes(w, [proc[w] EXCEPT !.misses = @ + 1])
  <2>1. proc[w].misses + 1 \in 0..(MaxMisses - 1)
    BY <1>2, <1>8, ProtocolAssumption
  <2> QED BY <1>5, <1>8, <2>1
<1> QED BY <1>6, <1>7, <1>8 DEF BeatEnds

\* While no call is made or answered, no request about the pipeline in hand can
\* still be served.
LEMMA NothingPending ==
  ASSUME PInv, NEW w \in Workers, proc[w].phase \in Executing,
         proc[w].phase \notin Sending \/ call[w]["main"].answer # "none"
  PROVE  \A m \in wire : m.p = proc[w].held => m.op \notin {"create", "job", "finish"}
<1>1. "main" \in Tasks
  BY DEF Tasks
<1>2. \A m \in wire : m.id # 0
  BY Types DEF PInv
<1>3. \A m \in wire : m.id # call[w]["main"].id
  BY <1>1, <1>2 DEF PInv, CallsMatch
<1> QED BY <1>3 DEF PInv, Reports

\* The next state of a process that goes on executing.
LEMMA GoesOn ==
  ASSUME PInv, NEW w \in Workers, NEW new \in ProcType, proc[w].phase \in Executing,
         proc[w].phase \notin Sending \/ call[w]["main"].answer # "none",
         Moves(w, new), call'[w]["main"].id = 0 /\ call'[w]["main"].answer = "none",
         new.phase \in {"choose", "announce"},
         new.request = proc[w].request, new.held = proc[w].held,
         new.beating = proc[w].beating, new.left \subseteq proc[w].left,
         new.phase = "announce" => new.current \in new.left,
         \A j \in new.left : ran[new.held][j] = 0,
         \A j \in definition[new.held].jobs \ new.left :
           j \in passed[new.held] /\ job[new.held][j] = "succeeded",
         UNCHANGED <<unused, taken, ran, passed>>
  PROVE  PInv'
<1>1. proc'[w] = new
  BY DEF Moves, PInv, ProtocolTypeOK
<1>2. UNCHANGED <<definition, status, worker, request, job, wire>>
  BY DEF Moves, queue
<1>3. proc[w].held # NoPipeline /\ Stands(w)
  BY ItStands DEF PInv, Sound, Sane, Executing
<1>4. Sane(new)
  BY <1>3 DEF PInv, Sound, Sane, Executing
<1>5. Stands(w)'
  BY <1>1, <1>2, <1>3, NothingPending DEF Stands
<1> QED BY <1>4, <1>5, QuietMove

LEMMA CreateAnsweredKeeps == ASSUME PInv, NEW w \in Workers, CreateAnswered(w) PROVE PInv'
<1>1. call' = [call EXCEPT ![w]["main"] = Idle] /\ "main" \in Tasks
  BY DEF CreateAnswered, Answered, Tasks
<1>2. proc[w].phase = "create" /\ proc[w].phase \in Executing
  BY DEF CreateAnswered, Executing
<1>3. CASE Answered(w, "main", "ok") /\ Becomes(w, [proc[w] EXCEPT !.phase = "choose"])
  <2> DEFINE new == [proc[w] EXCEPT !.phase = "choose"]
  <2>1. proc[w] \in ProcType
    BY Types DEF PInv
  <2>2. /\ new \in ProcType /\ new.phase = "choose" /\ new.request = proc[w].request
        /\ new.held = proc[w].held /\ new.beating = proc[w].beating
        /\ new.left = proc[w].left
    BY <2>1 DEF ProcType, Phases
  <2>3. Becomes(w, new)
    BY <1>3
  <2> HIDE DEF new
  <2>4. Moves(w, new) /\ call'[w]["main"].id = 0
    BY <1>1, <2>3, CallEnds DEF CreateAnswered, PInv
  <2>5. call'[w]["main"].answer = "none"
    BY <1>1, Types DEF PInv, CallTable, Idle
  <2>6. call[w]["main"].answer # "none"
    BY <1>3 DEF Answered
  <2>7. /\ \A j \in new.left : ran[new.held][j] = 0
        /\ \A j \in definition[new.held].jobs \ new.left :
             j \in passed[new.held] /\ job[new.held][j] = "succeeded"
    BY <1>2, <2>2, ItStands DEF Stands
  <2> QED BY <1>2, <2>2, <2>4, <2>5, <2>6, <2>7, GoesOn DEF CreateAnswered
<1>4. CASE Becomes(w, Failed(proc[w]))
  <2>1. Moves(w, Failed(proc[w])) /\ call'[w]["main"].id = 0
    BY <1>1, <1>4, CallEnds DEF CreateAnswered, PInv
  <2> QED BY <1>2, <2>1, FailKeeps DEF CreateAnswered
<1> QED BY <1>3, <1>4 DEF CreateAnswered

\* Nothing is left: the jobs have all succeeded, and no late request is about one.
LEMMA ChooseKeeps == ASSUME PInv, NEW w \in Workers, Choose(w) PROVE PInv'
<1> DEFINE me == proc[w]
<1>1. me \in ProcType /\ me.phase = "choose" /\ me.phase \in Executing /\ me.phase \notin Sending
  BY Types DEF PInv, Choose, Executing, Sending
<1>2. call[w]["main"].id = 0 /\ call[w]["main"].answer = "none"
  <2>1. "main" \in Tasks
    BY DEF Tasks
  <2>2. call[w]["main"].id = 0
    BY <1>1 DEF PInv, CallsMatch
  <2> QED BY <2>1, <2>2 DEF PInv, CallsMatch
<1>3. /\ UNCHANGED <<queue, call, wire, unused, taken, ran, passed>>
  BY DEF Choose
<1>4. /\ Stands(w) /\ me.held # NoPipeline /\ Sane(me)
  BY <1>1, ItStands DEF PInv, Sound, Sane
<1>5. CASE Becomes(w, Failed(me))
  <2>1. Moves(w, Failed(proc[w])) /\ call'[w]["main"].id = 0
    BY <1>2, <1>3, <1>5, CallStays DEF PInv
  <2> QED BY <1>1, <1>3, <2>1, FailKeeps
<1>6. ASSUME NEW j \in me.left, Becomes(w, [me EXCEPT !.phase = "announce", !.current = j])
      PROVE  PInv'
  <2> DEFINE new == [me EXCEPT !.phase = "announce", !.current = j]
  <2>1. /\ new \in ProcType /\ new.phase = "announce" /\ new.request = me.request
        /\ new.held = me.held /\ new.beating = me.beating
        /\ new.left = me.left /\ new.current = j
    BY <1>1 DEF ProcType, Phases
  <2>2. Becomes(w, new)
    BY <1>6
  <2> HIDE DEF new
  <2>3. Moves(w, new)
    BY <1>3, <2>2, CallStays DEF PInv
  <2>4. /\ \A i \in new.left : ran[new.held][i] = 0
        /\ \A i \in definition[new.held].jobs \ new.left :
             i \in passed[new.held] /\ job[new.held][i] = "succeeded"
    BY <1>1, <1>4, <2>1 DEF Stands
  <2> QED BY <1>1, <1>2, <1>3, <2>1, <2>3, <2>4, GoesOn
<1>7. CASE me.left = {} /\ Becomes(w, [me EXCEPT !.phase = "finish", !.outcome = "succeeded"])
  <2> DEFINE new == [me EXCEPT !.phase = "finish", !.outcome = "succeeded"]
  <2>1. /\ new \in ProcType /\ new.phase = "finish" /\ new.request = me.request
        /\ new.held = me.held /\ new.beating = me.beating
    BY <1>1 DEF ProcType, Phases
  <2>2. Becomes(w, new)
    BY <1>7
  <2> HIDE DEF new
  <2>3. Moves(w, new) /\ proc'[w] = new
    BY <1>3, <2>2, CallStays DEF PInv, ProtocolTypeOK, Becomes
  <2>4. Sane(new)
    BY <1>1, <1>4, <2>1 DEF Sane
  <2>5. Earned(me.held)
    BY <1>1, <1>4, <1>7 DEF Stands, Earned
  <2>6. Quiet(me.held)
    BY <1>1, NothingPending DEF Quiet
  <2>7. UNCHANGED <<definition, worker, job>>
    BY <1>3 DEF queue
  <2>8. Earned(proc[w].held)' /\ Quiet(proc[w].held)'
    BY <1>3, <2>1, <2>3, <2>5, <2>6, <2>7 DEF Earned, Quiet
  <2>9. taken'[proc'[w].held] = 1 /\ worker'[proc'[w].held] = w
    BY <1>3, <1>4, <2>1, <2>3, <2>7 DEF Stands
  <2>10. proc'[w].phase = "finish"
    BY <2>1, <2>3
  <2>11. Stands(w)'
    BY <2>8, <2>9, <2>10 DEF Stands, Executing
  <2> QED BY <1>2, <1>3, <2>1, <2>3, <2>4, <2>11, QuietMove
<1> QED BY <1>5, <1>6, <1>7 DEF Choose

LEMMA OnceCounts ==
  ASSUME NEW S, NEW count \in [S -> 0..2], NEW x
  PROVE  /\ Once(count, x) \in [S -> 0..2]
         /\ \A y \in S : y # x => Once(count, x)[y] = count[y]
         /\ x \in S /\ count[x] = 0 => Once(count, x)[x] = 1
         /\ \A y \in S : count[y] = 1 => Once(count, x)[y] \in {1, 2}
BY DEF Once

\* The script of a job that is left was not started before.
LEMMA AnnounceAnsweredKeeps ==
  ASSUME PInv, NEW w \in Workers, AnnounceAnswered(w) PROVE PInv'
<1> DEFINE me == proc[w]
<1>1. me \in ProcType /\ me.phase = "announce" /\ me.phase \in Executing
  BY Types DEF PInv, AnnounceAnswered, Executing
<1>2. call' = [call EXCEPT ![w]["main"] = Idle] /\ "main" \in Tasks
      /\ call[w]["main"].answer # "none"
  BY DEF AnnounceAnswered, Answered, Tasks
<1>3. CASE Becomes(w, Failed(me)) /\ UNCHANGED ran
  <2>1. Moves(w, Failed(proc[w])) /\ call'[w]["main"].id = 0
    BY <1>2, <1>3, CallEnds DEF AnnounceAnswered, PInv
  <2> QED BY <1>1, <1>3, <2>1, FailKeeps DEF AnnounceAnswered
<1>4. CASE /\ Becomes(w, [me EXCEPT !.phase = "shell"])
           /\ ran' = [ran EXCEPT ![me.held] = Once(@, me.current)]
  <2> DEFINE new == [me EXCEPT !.phase = "shell"]  p == me.held  j == me.current
  <2>1. /\ new \in ProcType /\ new.phase = "shell" /\ new.request = me.request
        /\ new.held = p /\ new.beating = me.beating /\ new.left = me.left /\ new.current = j
    BY <1>1 DEF ProcType, Phases
  <2>2. Becomes(w, new)
    BY <1>4
  <2>3. /\ Stands(w) /\ p \in Pipelines /\ Sane(me) /\ j \in me.left /\ j \in Jobs
        /\ me.left \subseteq Jobs
    BY <1>1, ItStands, Types DEF PInv, Sound, Sane
  <2>4. ran[p] \in [Jobs -> 0..2] /\ ran[p][j] = 0 /\ taken[p] = 1 /\ worker[p] = w
    BY <1>1, <2>3, ProtocolAssumption DEF Stands, PInv, ProtocolTypeOK
  <2>5. /\ ran' \in [Pipelines -> [Jobs -> 0..2]]
        /\ \A q \in Pipelines, i \in Jobs :
             ran'[q][i] = IF q = p /\ i = j THEN 1 ELSE ran[q][i]
    <3>1. Once(ran[p], j) \in [Jobs -> 0..2] /\ Once(ran[p], j)[j] = 1
          /\ \A i \in Jobs : i # j => Once(ran[p], j)[i] = ran[p][i]
      BY <2>3, <2>4, OnceCounts
    <3>2. ran' = [ran EXCEPT ![p] = Once(ran[p], j)]
      BY <1>4
    <3>3. ran \in [Pipelines -> [Jobs -> 0..2]]
      BY DEF PInv, ProtocolTypeOK
    <3> HIDE DEF p, j
    <3> QED BY <3>1, <3>2, <3>3, <2>3
  <2> HIDE DEF new
  <2>6. Moves(w, new) /\ call'[w]["main"].id = 0 /\ proc'[w] = new
    BY <1>2, <2>2, CallEnds DEF AnnounceAnswered, PInv, ProtocolTypeOK, Becomes
  <2>7. UNCHANGED <<definition, worker, job, wire, unused, taken, passed>>
    BY DEF AnnounceAnswered, queue
  <2>8. Sane(new)
    BY <1>1, <2>1, <2>3 DEF Sane
  <2>9. ProtocolTypeOK'
    <3>1. IInv' /\ proc' \in [Workers -> ProcType]
      BY <2>1, <2>6, QueueStays DEF PInv, Moves, ProtocolTypeOK
    <3> QED BY <2>5, <2>6, <2>7, <3>1 DEF PInv, ProtocolTypeOK, Moves, CallTable, IInv
  <2>10. Identities'
    BY <2>1, <2>6, <2>7, Types, MoveIdentities DEF PInv
  <2>11. Counts(w)
    BY <2>1, <2>4, <2>5, <2>6, <2>7 DEF Counts, PInv, Executions
  <2>12. Stands(w)'
    <3>1. \A m \in wire : m.p = p => m.op \notin {"create", "job", "finish"}
      BY <1>1, <1>2, NothingPending
    <3>2. \A i \in new.left : ran'[p][i] = 0 \/ i = new.current
      BY <1>1, <2>1, <2>3, <2>5 DEF Stands
    <3> HIDE DEF p
    <3> QED BY <1>1, <2>1, <2>3, <2>4, <2>6, <2>7, <3>1, <3>2 DEF Stands, p
  <2> QED BY <2>1, <2>6, <2>8, <2>9, <2>10, <2>11, <2>12, MoveKeeps
<1> QED BY <1>3, <1>4 DEF AnnounceAnswered

LEMMA ShellEndsKeeps == ASSUME PInv, NEW w \in Workers, ShellEnds(w) PROVE PInv'
<1> DEFINE me == proc[w]
<1>1. me \in ProcType /\ me.phase = "shell" /\ me.phase \in Executing /\ me.phase \notin Sending
  BY Types DEF PInv, ShellEnds, Executing, Sending
<1>2. call[w]["main"].id = 0 /\ call[w]["main"].answer = "none"
  <2>1. "main" \in Tasks
    BY DEF Tasks
  <2>2. call[w]["main"].id = 0
    BY <1>1 DEF PInv, CallsMatch
  <2> QED BY <2>1, <2>2 DEF PInv, CallsMatch
<1>3. UNCHANGED <<queue, call, wire, unused, taken, ran>>
  BY DEF ShellEnds
<1>4. CASE Becomes(w, Failed(me)) /\ UNCHANGED passed
  <2>1. Moves(w, Failed(proc[w])) /\ call'[w]["main"].id = 0
    BY <1>2, <1>3, <1>4, CallStays DEF PInv
  <2> QED BY <1>1, <1>3, <1>4, <2>1, FailKeeps
<1>5. ASSUME NEW s \in {"succeeded", "failed"},
             Becomes(w, [me EXCEPT !.phase = "report", !.outcome = s]),
             passed' = IF s = "succeeded"
                       THEN [passed EXCEPT ![me.held] = @ \cup {me.current}] ELSE passed
      PROVE  PInv'
  <2> DEFINE new == [me EXCEPT !.phase = "report", !.outcome = s]  p == me.held
  <2>1. /\ new \in ProcType /\ new.phase = "report" /\ new.request = me.request
        /\ new.held = p /\ new.beating = me.beating /\ new.left = me.left
        /\ new.current = me.current /\ new.outcome = s
    BY <1>1 DEF ProcType, Phases
  <2>2. Becomes(w, new)
    BY <1>5
  <2>3. /\ Stands(w) /\ p \in Pipelines /\ Sane(me) /\ me.current \in me.left
        /\ me.current \in Jobs /\ me.left \subseteq Jobs
    BY <1>1, ItStands, Types DEF PInv, Sound, Sane
  <2>4. /\ passed' \in [Pipelines -> SUBSET Jobs]
        /\ \A q \in Pipelines : passed[q] \subseteq passed'[q]
        /\ s = "succeeded" => me.current \in passed'[p]
    BY <1>5, <2>3 DEF PInv, ProtocolTypeOK
  <2> HIDE DEF new
  <2>5. Moves(w, new) /\ proc'[w] = new
    BY <1>3, <2>2, CallStays DEF PInv, ProtocolTypeOK, Becomes
  <2>6. UNCHANGED <<definition, worker, job>>
    BY <1>3 DEF queue
  <2>7. Sane(new)
    BY <1>1, <2>1, <2>3 DEF Sane
  <2>8. ProtocolTypeOK'
    <3>1. IInv' /\ proc' \in [Workers -> ProcType]
      BY <2>1, <2>5, QueueStays DEF PInv, Moves, ProtocolTypeOK
    <3> QED BY <1>3, <2>4, <3>1 DEF PInv, ProtocolTypeOK, IInv
  <2>9. Identities'
    BY <1>3, <2>1, <2>5, <1>2, Types, MoveIdentities DEF PInv
  <2>10. Counts(w)
    BY <1>3, <2>4 DEF Counts, PInv, Executions
  <2>11. Stands(w)'
    <3>1. \A j \in definition[p].jobs \ me.left :
            j \in passed'[p] /\ job[p][j] = "succeeded"
      BY <1>1, <2>3, <2>4 DEF Stands
    <3>2. \A j \in me.left : ran[p][j] = 0 \/ j = me.current
      BY <1>1, <2>3 DEF Stands
    <3>3. \A m \in wire : m.p = p => m.op \notin {"create", "job", "finish"}
      BY <1>1, NothingPending
    <3>4. taken[p] = 1 /\ worker[p] = w
      BY <2>3, ProtocolAssumption DEF Stands
    <3> HIDE DEF p
    <3> QED BY <1>2, <1>3, <2>1, <2>4, <2>5, <2>6, <3>1, <3>2, <3>3, <3>4 DEF Stands
  <2> QED BY <1>2, <1>3, <2>1, <2>5, <2>7, <2>8, <2>9, <2>10, <2>11, MoveKeeps
<1>6. CASE /\ Becomes(w, [me EXCEPT !.phase = "report", !.outcome = "succeeded"])
           /\ passed' = [passed EXCEPT ![me.held] = @ \cup {me.current}]
  BY <1>5, <1>6
<1>7. CASE Becomes(w, [me EXCEPT !.phase = "report", !.outcome = "failed"]) /\ UNCHANGED passed
  BY <1>5, <1>7
<1> QED BY <1>4, <1>6, <1>7 DEF ShellEnds

\* The acknowledged report of a success takes the job off what is left.
LEMMA ReportAnsweredKeeps ==
  ASSUME PInv, NEW w \in Workers, ReportAnswered(w) PROVE PInv'
<1> DEFINE me == proc[w]
<1>1. me \in ProcType /\ me.phase = "report" /\ me.phase \in Executing
  BY Types DEF PInv, ReportAnswered, Executing
<1>2. call' = [call EXCEPT ![w]["main"] = Idle] /\ "main" \in Tasks
      /\ call[w]["main"].answer # "none"
  BY DEF ReportAnswered, Answered, Tasks
<1>3. CASE Becomes(w, Failed(me))
  <2>1. Moves(w, Failed(proc[w])) /\ call'[w]["main"].id = 0
    BY <1>2, <1>3, CallEnds DEF ReportAnswered, PInv
  <2> QED BY <1>1, <2>1, FailKeeps DEF ReportAnswered
<1>4. CASE /\ Answered(w, "main", "ok") /\ me.outcome = "succeeded"
           /\ Becomes(w, [me EXCEPT !.phase = "choose", !.left = @ \ {me.current},
                                    !.current = NoJob])
  <2> DEFINE new == [me EXCEPT !.phase = "choose", !.left = @ \ {me.current},
                               !.current = NoJob]
             p == me.held
  <2>1. /\ new \in ProcType /\ new.phase = "choose" /\ new.request = me.request
        /\ new.held = p /\ new.beating = me.beating
        /\ new.left = me.left \ {me.current}
    BY <1>1 DEF ProcType, Phases
  <2>2. Becomes(w, new)
    BY <1>4
  <2>3. Stands(w)
    BY ItStands
  <2> HIDE DEF new
  <2>4. Moves(w, new) /\ call'[w]["main"].id = 0
    BY <1>2, <2>2, CallEnds DEF ReportAnswered, PInv
  <2>5. call'[w]["main"].answer = "none"
    BY <1>2, Types DEF PInv, CallTable, Idle
  <2>6. me.current \in passed[p] /\ job[p][me.current] = "succeeded"
    BY <1>1, <1>4, <2>3 DEF Stands, Answered
  <2>7. /\ \A j \in new.left : ran[p][j] = 0
        /\ \A j \in definition[p].jobs \ new.left :
             j \in passed[p] /\ job[p][j] = "succeeded"
    BY <1>1, <2>1, <2>3, <2>6 DEF Stands
  <2> HIDE DEF p
  <2>8. new.left \subseteq me.left
    BY <2>1
  <2> QED BY <1>1, <1>2, <2>1, <2>4, <2>5, <2>7, <2>8, GoesOn DEF ReportAnswered, p
<1> QED BY <1>3, <1>4 DEF ReportAnswered

\* A process that holds nothing draws a request identity.
LEMMA DrawKeeps ==
  ASSUME PInv, NEW w \in Workers, NEW r \in unused, unused' = unused \ {r},
         NEW new \in ProcType, Moves(w, new), call'[w]["main"].id = 0, Sane(new),
         new.phase = "claim", new.request = r,
         UNCHANGED <<taken, ran, passed>>
  PROVE  PInv'
<1>1. proc'[w] = new /\ proc' \in [Workers -> ProcType]
  BY DEF Moves, PInv, ProtocolTypeOK
<1>2. r \in Requests
  BY DEF PInv, ProtocolTypeOK
<1>3. ProtocolTypeOK'
  <2>1. IInv'
    BY QueueStays DEF PInv, Moves
  <2> QED BY <1>1, <2>1 DEF PInv, ProtocolTypeOK, Moves, CallTable, IInv
<1>4. Identities'
  BY <1>2, MoveIdentities
<1>5. Counts(w)
  BY DEF Counts, PInv, Executions
<1>6. Stands(w)'
  BY <1>1 DEF Stands, Sane, Executing
<1> QED BY <1>3, <1>4, <1>5, <1>6, MoveKeeps

LEMMA StartKeeps ==
  ASSUME PInv, NEW w \in Workers, NEW r \in Requests, Start(w, r) PROVE PInv'
<1> DEFINE new == [Down EXCEPT !.phase = "claim", !.request = r]
<1>1. new \in ProcType /\ Sane(new) /\ new.phase = "claim" /\ new.request = r
  BY Leaving DEF ProcType, Phases, Sane, Down
<1>2. Becomes(w, new) /\ UNCHANGED <<queue, call, wire, taken, ran, passed>>
      /\ r \in unused /\ unused' = unused \ {r} /\ proc[w].phase = "down"
  BY DEF Start, Draw
<1> HIDE DEF new
<1>3. Moves(w, new)
  BY <1>2, CallStays DEF PInv
<1>4. call'[w]["main"].id = 0
  BY <1>2 DEF PInv, CallsMatch, Sending
<1> QED BY <1>1, <1>2, <1>3, <1>4, DrawKeeps

\* A pipeline is answered to one process only, and that takes it once.
LEMMA ClaimAnsweredKeeps ==
  ASSUME PInv, NEW w \in Workers, NEW r \in Requests, ClaimAnswered(w, r) PROVE PInv'
<1> DEFINE p == call[w]["main"].given
<1>1. proc[w] \in ProcType /\ proc[w].phase = "claim" /\ proc[w].request \in Requests
      /\ Sane(proc[w])
  BY Types DEF PInv, Sound, Sane, ClaimAnswered
<1>2. call' = [call EXCEPT ![w]["main"] = Idle] /\ "main" \in Tasks
  BY DEF ClaimAnswered, Answered, Tasks
<1>3. r \in unused /\ unused' = unused \ {r} /\ UNCHANGED <<queue, wire, ran, passed>>
  BY DEF ClaimAnswered, Draw
<1>4. p \in Pipelines \cup {NoPipeline}
  BY <1>2, Types DEF PInv, CallTable, CallType
<1>5. taken' = Once(taken, p) /\ taken \in [Pipelines -> 0..2]
  BY DEF ClaimAnswered, PInv, ProtocolTypeOK
<1>6. CASE p = NoPipeline
  <2> DEFINE new == [proc[w] EXCEPT !.request = r]
  <2>1. /\ new \in ProcType /\ Sane(new) /\ new.phase = "claim" /\ new.request = r
    BY <1>1 DEF ProcType, Sane
  <2>2. Becomes(w, new)
    BY <1>6 DEF ClaimAnswered
  <2> HIDE DEF new
  <2>3. Moves(w, new) /\ call'[w]["main"].id = 0
    BY <1>2, <1>3, <2>2, CallEnds DEF PInv
  <2>4. taken' = taken
    BY <1>5, <1>6, ProtocolAssumption DEF Once
  <2> QED BY <1>3, <2>1, <2>3, <2>4, DrawKeeps
<1>7. CASE p # NoPipeline
  <2> DEFINE new == [Down EXCEPT !.phase = "create", !.request = r, !.held = p,
                                 !.left = definition[p].jobs, !.beating = TRUE]
  <2>1. p \in Pipelines /\ worker[p] = w /\ request[p] = proc[w].request
    BY <1>4, <1>7 DEF PInv, Identities
  <2>2. taken[p] = 0
    BY <2>1 DEF PInv, Identities
  <2>3. definition[p].jobs \in SUBSET Jobs
    BY <2>1, QueueAssumption DEF PInv, IInv, TypeOK, DefinitionType
  <2>4. /\ new \in ProcType /\ new.phase = "create" /\ new.request = r /\ new.held = p
        /\ new.left = definition[p].jobs /\ new.outcome = "failed"
    BY <2>1, <2>3, Leaving DEF ProcType, Phases, Down
  <2>5. Becomes(w, new)
    BY <1>7 DEF ClaimAnswered
  <2> HIDE DEF new
  <2>6. Moves(w, new) /\ call'[w]["main"].id = 0 /\ proc'[w] = new
    BY <1>2, <1>3, <2>5, CallEnds DEF PInv, ProtocolTypeOK, Becomes
  <2>7. Sane(new)
    BY <1>7, <2>1, <2>4 DEF Sane
  <2>8. /\ taken' \in [Pipelines -> 0..2] /\ taken'[p] = 1
        /\ \A q \in Pipelines : q # p => taken'[q] = taken[q]
    BY <1>5, <2>1, <2>2, OnceCounts
  <2>9. ProtocolTypeOK'
    <3>1. IInv' /\ proc' \in [Workers -> ProcType]
      BY <2>4, <2>6, QueueStays DEF PInv, Moves, ProtocolTypeOK
    <3> QED BY <1>3, <2>6, <2>8, <3>1 DEF PInv, ProtocolTypeOK, Moves, CallTable, IInv
  <2>10. Identities'
    <3>1. r # proc[w].request
      BY <1>1, <1>3, QueueAssumption DEF PInv, Identities
    <3>2. \A q \in Pipelines : taken'[q] = taken[q]
            \/ (/\ taken'[q] = 1 /\ request[q] = proc[w].request /\ request[q] \in Requests
                /\ new.request # proc[w].request)
      BY <1>1, <2>1, <2>4, <2>8, <3>1
    <3> HIDE DEF p
    <3> QED BY <1>3, <2>4, <2>6, <3>2, MoveIdentities
  <2>11. UNCHANGED <<definition, worker, job>>
    BY <1>3 DEF queue
  <2>12. \A j \in Jobs : ran[p][j] = 0
    BY <2>1, <2>2 DEF PInv, Executions
  <2>13. Counts(w)
    <3>1. \A q \in Pipelines : taken[q] = 1 => taken'[q] = 1
      BY <2>8
    <3> QED BY <1>3, <3>1 DEF Counts, PInv, Executions
  <2>14. Stands(w)'
    <3>1. \A m \in wire : m.p = p => m.op \notin {"create", "job", "finish"}
      BY <2>2 DEF PInv, Reports
    <3> HIDE DEF p
    <3>2. proc'[w].held = p /\ proc'[w].phase = "create" /\ proc'[w].left = definition[p].jobs
      BY <2>4, <2>6
    <3> QED BY <1>3, <2>1, <2>3, <2>8, <2>11, <2>12, <3>1, <3>2 DEF Stands
  <2> QED BY <2>4, <2>6, <2>7, <2>9, <2>10, <2>13, <2>14, MoveKeeps
<1> QED BY <1>6, <1>7

-----------------------------------------------------------------------------
(* A process makes a call. *)

LEMMA SendKeeps ==
  ASSUME PInv, NEW w \in Workers, NEW t \in Tasks,
         NEW op \in {"claim", "beat", "create", "job", "finish"},
         NEW what \in {"none", "running", "succeeded", "failed"},
         Send(w, t, op, what), UNCHANGED <<queue, proc, unused, taken, ran, passed>>,
         t = "beat" => op = "beat" /\ proc[w].beating,
         t = "main" =>
           \/ proc[w].phase \in {"claim", "create"} /\ op = proc[w].phase
           \/ proc[w].phase = "announce" /\ op = "job" /\ what = "running"
           \/ proc[w].phase = "report" /\ op = "job" /\ what = proc[w].outcome
           \/ proc[w].phase = "finish" /\ op = "finish" /\ what = proc[w].outcome
  PROVE  PInv'
<1> DEFINE me == proc[w]
<1>1. /\ IsFiniteSet(wire) /\ wire \subseteq RequestType /\ call \in CallTable
      /\ Cardinality(wire) < Capacity /\ ~ Waiting(w, t)
      /\ me \in ProcType /\ Sane(me)
  BY Types DEF PInv, Sound, Send
<1>2. \E i \in CallIds : i \notin IdsInUse
  BY <1>1, FreshId DEF CallTable
<1>3. PICK id \in CallIds :
        /\ id \notin IdsInUse
        /\ wire' = wire \cup {[id |-> id, w |-> w, task |-> t, op |-> op,
                               request |-> me.request, p |-> me.held,
                               job |-> me.current, status |-> what]}
        /\ call' = [call EXCEPT ![w][t] = [Idle EXCEPT !.id = id]]
  BY <1>2 DEF Send
<1> DEFINE m == [id |-> id, w |-> w, task |-> t, op |-> op, request |-> me.request,
                 p |-> me.held, job |-> me.current, status |-> what]
<1>4. /\ m.id = id /\ m.w = w /\ m.task = t /\ m.op = op /\ m.request = me.request
      /\ m.p = me.held /\ m.job = me.current /\ m.status = what
      /\ m \in RequestType
  BY <1>1 DEF RequestType, ProcType
<1>5. wire' = wire \cup {m}
  BY <1>3
<1>6. t = "main" => Asks(me, m)
  BY <1>4 DEF Asks
<1> HIDE DEF m
<1>7. /\ id # 0
      /\ \A n \in wire : n.id # id
      /\ \A v \in Workers, s \in Tasks : call[v][s].id # id
  BY <1>3, NumberOfCallIds DEF IdsInUse
<1>8. /\ call' \in CallTable
      /\ \A v \in Workers, s \in Tasks : ~ (v = w /\ s = t) => call'[v][s] = call[v][s]
      /\ call'[w][t].id = id /\ call'[w][t].answer = "none"
      /\ call'[w][t].given = NoPipeline
  <2>1. [Idle EXCEPT !.id = id] \in CallType
    BY DEF Idle, CallType
  <2>2. call' \in CallTable
    BY <1>1, <1>3, <2>1 DEF CallTable
  <2> QED BY <1>1, <1>3, <2>2 DEF CallTable, Idle
<1>9. IsFiniteSet(wire') /\ Cardinality(wire') <= Capacity
  <2>1. m \notin wire
    BY <1>4, <1>7
  <2>2. IsFiniteSet(wire') /\ Cardinality(wire') = Cardinality(wire) + 1
    BY <1>1, <1>5, <2>1, FS_AddElement
  <2>3. Cardinality(wire) \in Nat
    BY <1>1, FS_CardinalityType
  <2> QED BY <1>1, <2>2, <2>3, ProtocolAssumption
<1>10. IInv'
  BY QueueStays DEF PInv
<1>11. ProtocolTypeOK'
  BY <1>1, <1>4, <1>5, <1>8, <1>9, <1>10 DEF PInv, ProtocolTypeOK, CallTable, IInv
<1>12. t = "main" \/ t = "beat"
  BY DEF Tasks
<1>13. op # "beat" => t = "main" /\ (op = "claim" \/ me.held # NoPipeline)
  BY <1>1, <1>12 DEF Sane
<1>14. Sound'
  <2>1. m.op # "claim" => m.p \in Pipelines
    BY <1>1, <1>4, <1>12, <1>13 DEF Sane, ProcType
  <2>2. m.op = "job" => m.job \in Jobs /\ m.status # "none"
    BY <1>1, <1>4, <1>12 DEF Sane, ProcType
  <2>3. m.op = "finish" => m.status \in {"succeeded", "failed"}
    BY <1>1, <1>4, <1>12 DEF ProcType
  <2> QED BY <1>5, <1>9, <2>1, <2>2, <2>3 DEF PInv, Sound
<1>15. CallsMatch'
  <2>1. \A n, o \in wire' : n.id = o.id => n = o
    BY <1>4, <1>5, <1>7 DEF PInv, CallsMatch
  <2>2. \A u, v \in Workers, s, z \in Tasks :
          call'[u][s].id # 0 /\ call'[v][z].id = call'[u][s].id => v = u /\ z = s
    BY <1>7, <1>8 DEF PInv, CallsMatch
  <2>3. \A n \in wire', u \in Workers, s \in Tasks :
          n.id = call'[u][s].id => n.w = u /\ n.task = s
    BY <1>4, <1>5, <1>7, <1>8 DEF PInv, CallsMatch
  <2>4. \A u \in Workers, s \in Tasks :
          /\ call'[u][s].answer # "none" =>
               call'[u][s].id # 0 /\ \A n \in wire' : n.id # call'[u][s].id
          /\ call'[u][s].given # NoPipeline => call'[u][s].answer = "ok"
    BY <1>4, <1>5, <1>7, <1>8 DEF PInv, CallsMatch
  <2>5. \A u \in Workers : call'[u]["main"].id # 0 => proc[u].phase \in Sending
    BY <1>8 DEF PInv, CallsMatch, Sending, Tasks
  <2>6. \A n \in wire', u \in Workers : n.id = call'[u]["main"].id => Asks(proc[u], n)
    BY <1>4, <1>5, <1>6, <1>7, <1>8 DEF PInv, CallsMatch, Tasks
  <2> QED BY <2>1, <2>2, <2>3, <2>4, <2>5, <2>6 DEF CallsMatch, Sending, Asks
<1>16. UNCHANGED <<definition, status, worker, request, job>>
  BY DEF queue
<1>17. Identities'
  <2>1. m.op = "claim" =>
          /\ m.request \in Requests \ unused
          /\ \A v \in Workers : proc[v].request = m.request => v = m.w
    BY <1>1, <1>4, <1>13, QueueAssumption DEF PInv, Identities, Sane
  <2>2. \A v \in Workers : call'[v]["main"].given \in {call[v]["main"].given, NoPipeline}
    BY <1>8 DEF Tasks
  <2> QED BY <1>5, <1>16, <2>1, <2>2 DEF PInv, Identities
<1>18. Executions'
  BY <1>16 DEF PInv, Executions
<1>19. ASSUME m.op \in {"create", "job", "finish"}
       PROVE  /\ t = "main" /\ me.held \in Pipelines /\ call[w]["main"].id = 0
              /\ taken[me.held] = 1
              /\ \A v \in Workers : proc[v].held = me.held => v = w
              /\ m.op # "finish" => me.phase \in Executing
              /\ m.op = "finish" => me.phase = "finish" /\ m.status = me.outcome
  BY <1>1, <1>4, <1>13, <1>19 DEF PInv, Executions, Executing, ProcType, Waiting
<1>20. ASSUME NEW p \in Pipelines, Earned(p), Quiet(p),
              m.op \in {"create", "job"} => m.p # p
       PROVE  Earned(p)' /\ Quiet(p)'
  BY <1>5, <1>16, <1>20 DEF Earned, Quiet
<1>21. ASSUME NEW v \in Workers PROVE Stands(v)'
  <2>1. Stands(v)
    BY ItStands
  <2>2. proc[v].phase \in Executing =>
          \A n \in wire' : n.p = proc[v].held /\ n.op \in {"create", "job", "finish"} =>
            n.id = call'[v]["main"].id
    <3> SUFFICES ASSUME proc[v].phase \in Executing, NEW n \in wire',
                        n.p = proc[v].held, n.op \in {"create", "job", "finish"}
                 PROVE  n.id = call'[v]["main"].id
      OBVIOUS
    <3>1. CASE n \in wire
      <4>1. n.id = call[v]["main"].id /\ n.id # 0
        BY <2>1, <3>1, Types DEF Stands, PInv
      <4> QED BY <1>1, <1>8, <4>1 DEF Waiting, Tasks
    <3>2. CASE n = m
      BY <1>4, <1>8, <1>19, <3>2
    <3> QED BY <1>5, <3>1, <3>2
  <2>3. call'[v]["main"].answer = "ok" => call[v]["main"].answer = "ok"
    BY <1>8 DEF Tasks
  <2>4. ASSUME proc[v].phase = "finish", proc[v].outcome = "succeeded"
        PROVE  Earned(proc[v].held)' /\ Quiet(proc[v].held)'
    <3>1. Earned(proc[v].held) /\ Quiet(proc[v].held) /\ proc[v].held \in Pipelines
      BY <2>1, <2>4, Types DEF Stands, PInv, Sound, Sane
    <3>2. m.op \in {"create", "job"} => m.p # proc[v].held
      BY <1>4, <1>19, <2>4 DEF Executing
    <3>3. Earned(proc[v].held)' /\ Quiet(proc[v].held)'
      <4> DEFINE p == proc[v].held
      <4>1. p' = p
        OBVIOUS
      <4> QED BY <1>5, <1>16, <3>1, <3>2 DEF Earned, Quiet
    <3> QED BY <3>3
  <2> QED BY <1>16, <2>1, <2>2, <2>3, <2>4 DEF Stands
<1>22. ASSUME NEW n \in wire' PROVE
       /\ n.op \in {"create", "job", "finish"} => taken[n.p] = 1
       /\ n.op = "finish" /\ n.status = "succeeded" => Earned(n.p)' /\ Quiet(n.p)'
  <2>1. CASE n \in wire
    <3>1. n.op \in {"create", "job", "finish"} => taken[n.p] = 1
      BY <2>1 DEF PInv, Reports
    <3>2. ASSUME n.op = "finish", n.status = "succeeded" PROVE Earned(n.p)' /\ Quiet(n.p)'
      <4>1. Earned(n.p) /\ Quiet(n.p) /\ n.p \in Pipelines
        BY <2>1, <3>2 DEF PInv, Reports, Sound
      <4>2. ASSUME m.op \in {"create", "job"}, m.p = n.p PROVE FALSE
        <5>1. me.phase \in Executing /\ n.p = me.held /\ call[w]["main"].id = 0
          BY <1>4, <1>19, <4>2
        <5>2. n.id = 0
          BY <2>1, <3>2, <5>1 DEF PInv, Reports
        <5> QED BY <2>1, <5>2, Types DEF PInv
      <4> QED BY <1>20, <4>1, <4>2
    <3> QED BY <3>1, <3>2
  <2>2. CASE n = m
    <3>1. ASSUME n.op = "finish", n.status = "succeeded" PROVE Earned(n.p)' /\ Quiet(n.p)'
      <4>1. Earned(n.p) /\ Quiet(n.p) /\ n.p \in Pipelines
        BY <1>4, <1>19, <2>2, <3>1, ItStands DEF Stands
      <4> QED BY <1>20, <2>2, <3>1, <4>1
    <3> QED BY <1>4, <1>19, <2>2, <3>1
  <2> QED BY <1>5, <2>1, <2>2
<1>23. SuccessIsEarned'
  BY <1>16 DEF PInv, Reports, SuccessIsEarned
<1>24. Reports'
  <2>1. \A v \in Workers : proc'[v].phase \in Executing =>
          /\ \A j \in definition'[proc'[v].held].jobs \ proc'[v].left :
               j \in passed'[proc'[v].held] /\ job'[proc'[v].held][j] = "succeeded"
          /\ \A n \in wire' :
               n.p = proc'[v].held /\ n.op \in {"create", "job", "finish"} =>
                 n.id = call'[v]["main"].id
    BY <1>21 DEF Stands
  <2>2. \A v \in Workers :
          /\ proc'[v].phase = "create" => proc'[v].left = definition'[proc'[v].held].jobs
          /\ proc'[v].phase = "report" /\ proc'[v].outcome = "succeeded" =>
               /\ proc'[v].current \in passed'[proc'[v].held]
               /\ call'[v]["main"].answer = "ok" =>
                    job'[proc'[v].held][proc'[v].current] = "succeeded"
          /\ proc'[v].phase = "finish" /\ proc'[v].outcome = "succeeded" =>
               Earned(proc[v].held)' /\ Quiet(proc[v].held)'
    BY <1>21 DEF Stands
  <2> QED BY <1>22, <1>23, <2>1, <2>2 DEF Reports
<1> QED BY <1>10, <1>11, <1>14, <1>15, <1>17, <1>18, <1>24 DEF PInv

LEMMA MainSendsKeeps == ASSUME PInv, NEW w \in Workers, MainSends(w) PROVE PInv'
<1>1. "main" \in Tasks /\ "main" # "beat"
  BY DEF Tasks
<1>2. proc[w].outcome \in {"succeeded", "failed"}
  BY Types DEF PInv, ProcType
<1>3. UNCHANGED <<queue, proc, unused, taken, ran, passed>>
  BY DEF MainSends
<1>4. CASE proc[w].phase = "claim" /\ Send(w, "main", "claim", "none")
  BY <1>1, <1>3, <1>4, SendKeeps
<1>5. CASE proc[w].phase = "create" /\ Send(w, "main", "create", "none")
  BY <1>1, <1>3, <1>5, SendKeeps
<1>6. CASE proc[w].phase = "announce" /\ Send(w, "main", "job", "running")
  BY <1>1, <1>3, <1>6, SendKeeps
<1>7. CASE proc[w].phase = "report" /\ Send(w, "main", "job", proc[w].outcome)
  BY <1>1, <1>2, <1>3, <1>7, SendKeeps
<1>8. CASE proc[w].phase = "finish" /\ Send(w, "main", "finish", proc[w].outcome)
  BY <1>1, <1>2, <1>3, <1>8, SendKeeps
<1> QED BY <1>4, <1>5, <1>6, <1>7, <1>8 DEF MainSends

LEMMA BeatSendsKeeps == ASSUME PInv, NEW w \in Workers, BeatSends(w) PROVE PInv'
<1>1. "beat" \in Tasks /\ "main" # "beat"
  BY DEF Tasks
<1> QED BY <1>1, SendKeeps DEF BeatSends

-----------------------------------------------------------------------------
LEMMA InitPInv == ProtocolInit => PInv
<1> SUFFICES ASSUME ProtocolInit PROVE PInv
  OBVIOUS
<1>1. IInv
  BY InitIInv DEF ProtocolInit
<1>2. IsFiniteSet(wire) /\ Cardinality(wire) = 0 /\ wire = {}
  BY FS_EmptySet DEF ProtocolInit
<1>3. \A w \in Workers : proc[w] = Down /\ call[w]["main"] = Idle /\ call[w]["beat"] = Idle
  BY DEF ProtocolInit, Tasks
<1>4. Down \in ProcType /\ Sane(Down)
  <2>1. FinishAttempts \in Nat \ {0} /\ MaxMisses \in Nat \ {0}
    BY ProtocolAssumption
  <2> QED BY <2>1 DEF Down, ProcType, Phases, Sane
<1>5. ProtocolTypeOK
  <2>1. [w \in Workers |-> [t \in Tasks |-> Idle]] \in [Workers -> [Tasks -> CallType]]
    BY DEF Idle, CallType
  <2>2. Capacity \in Nat
    BY ProtocolAssumption
  <2> QED BY <1>1, <1>2, <1>4, <2>1, <2>2 DEF ProtocolInit, ProtocolTypeOK, IInv
<1>6. CallsMatch
  BY <1>2, <1>3 DEF CallsMatch, Idle, Tasks
<1>7. Sound
  BY <1>2, <1>3, <1>4 DEF Sound
<1>8. Identities
  <2>1. \A w \in Workers : proc[w].request = NoRequest /\ call[w]["main"].given = NoPipeline
    BY <1>3 DEF Down, Idle
  <2>2. \A p \in Pipelines : request[p] = NoRequest /\ taken[p] = 0
    BY DEF ProtocolInit, Init
  <2> QED BY <1>2, <2>1, <2>2 DEF Identities
<1>9. Executions
  BY <1>3 DEF Executions, Executing, Down, ProtocolInit
<1>10. Reports
  BY <1>2, <1>3 DEF Reports, Executing, Down, SuccessIsEarned, ProtocolInit, Init
<1> QED BY <1>1, <1>5, <1>6, <1>7, <1>8, <1>9, <1>10 DEF PInv

LEMMA ProcStepKeeps == ASSUME PInv, NEW w \in Workers, ProcStep(w) PROVE PInv'
BY StartKeeps, ClaimAnsweredKeeps, MainSendsKeeps, PrepareFailsKeeps, CreateAnsweredKeeps,
   ChooseKeeps, AnnounceAnsweredKeeps, ShellEndsKeeps, ReportAnsweredKeeps,
   FinishAnsweredKeeps, MainGivesUpKeeps, BeatSendsKeeps, BeatEndsKeeps, StopKeeps,
   CrashKeeps DEF ProcStep

LEMMA StutterKeeps == ASSUME PInv, UNCHANGED allVars PROVE PInv'
<1>1. IInv' /\ Settles /\ UNCHANGED <<worker, request>> /\ wire' \subseteq wire
  BY QueueStays DEF PInv, allVars, queue, Settles
<1>2. UNCHANGED <<proc, call, unused, taken, ran, passed>>
  BY DEF allVars
<1> QED BY <1>1, <1>2, QuietKeeps

(* What calls, requests, claim identities, executions and reports have to  *)
(* do with each other in every reachable state: a request that is still on *)
(* its way is either the one its process waits for, or about a pipeline    *)
(* that process has let go of.                                             *)
THEOREM ProtocolInvariant == ProtocolSpec => []PInv
<1>1. ProtocolInit => PInv
  BY InitPInv
<1>2. PInv /\ [ProtocolNext]_allVars => PInv'
  <2> SUFFICES ASSUME PInv, [ProtocolNext]_allVars PROVE PInv'
    OBVIOUS
  <2>1. CASE \E w \in Workers : ProcStep(w)
    BY <2>1, ProcStepKeeps
  <2>2. CASE \E m \in wire : Serve(m) \/ Lose(m)
    BY <2>2, ServeKeeps, LoseKeeps
  <2>3. CASE (SubmitStep \/ CancelStep \/ Reap \/ Tick) /\ UNCHANGED protocol
    BY <2>3, EnvironmentKeeps
  <2>4. CASE UNCHANGED allVars
    BY <2>4, StutterKeeps
  <2> QED BY <2>1, <2>2, <2>3, <2>4 DEF ProtocolNext
<1> QED BY <1>1, <1>2, PTL DEF ProtocolSpec

(* The process, its calls and the network keep their types, and there are  *)
(* never more requests under way than the bound allows.                    *)
THEOREM ProtocolTypes == ProtocolSpec => []ProtocolTypeOK
BY ProtocolInvariant, PTL DEF PInv

(* Whatever is lost, late or given up, and however often runners die, no   *)
(* pipeline is executed twice and no script is started twice.              *)
THEOREM AtMostOnce == ProtocolSpec => []ExecutesAtMostOnce
<1>1. PInv => ExecutesAtMostOnce
  <2> SUFFICES ASSUME PInv, NEW p \in Pipelines
               PROVE  taken[p] < 2 /\ \A j \in Jobs : ran[p][j] < 2
    BY DEF ExecutesAtMostOnce
  <2>1. taken[p] = 0 \/ taken[p] = 1
    BY DEF PInv, Identities
  <2>2. \A j \in Jobs : ran[p][j] = 0 \/ ran[p][j] = 1
    BY DEF PInv, Executions
  <2> QED BY <2>1, <2>2
<1> QED BY <1>1, ProtocolInvariant, PTL

(* Whatever is lost, late or given up, a pipeline that succeeded ran each  *)
(* of its scripts to exit code 0, and its jobs say so.                     *)
THEOREM SuccessEarned == ProtocolSpec => []SuccessIsEarned
<1>1. PInv => SuccessIsEarned
  BY DEF PInv, Reports
<1> QED BY <1>1, ProtocolInvariant, PTL

-----------------------------------------------------------------------------
(* Runners and network take the queue's steps, so that what is proved of   *)
(* the queue holds behind them.                                            *)

LEMMA ServeIsQueueStep ==
  ASSUME PInv, NEW m \in wire, Serve(m)
  PROVE  [Next]_vars
<1>1. /\ m.w \in Workers /\ m.request \in Requests \cup {NoRequest}
      /\ m.op # "claim" => m.p \in Pipelines
      /\ m.op = "job" => m.job \in Jobs /\ m.status \in {"running", "succeeded", "failed"}
      /\ m.op = "finish" => m.status \in {"succeeded", "failed"}
  BY DEF PInv, Sound, ProtocolTypeOK, RequestType
<1>2. UNCHANGED queue => UNCHANGED vars
  BY DEF queue, vars
<1>3. CASE ServeClaim(m)
  BY <1>1, <1>2, <1>3 DEF ServeClaim, Next, ClaimStep
<1>4. CASE ServeBeat(m)
  BY <1>1, <1>2, <1>4 DEF ServeBeat, Next, ReportStep
<1>5. CASE ServeCreate(m)
  BY <1>1, <1>2, <1>5 DEF ServeCreate, Next, ReportStep
<1>6. CASE ServeJob(m)
  BY <1>1, <1>2, <1>6 DEF ServeJob, Next, ReportStep
<1>7. CASE ServeFinish(m)
  BY <1>1, <1>2, <1>7 DEF ServeFinish, Next, ReportStep
<1> QED BY <1>3, <1>4, <1>5, <1>6, <1>7 DEF Serve

LEMMA ProtocolTakesQueueSteps ==
  ASSUME PInv, [ProtocolNext]_allVars
  PROVE  [Next]_vars
<1>1. UNCHANGED queue => UNCHANGED vars
  BY DEF queue, vars
<1>2. ASSUME NEW w \in Workers, ProcStep(w) PROVE UNCHANGED queue
  <2>1. CASE \E r \in Requests : Start(w, r) \/ ClaimAnswered(w, r)
    BY <2>1 DEF Start, ClaimAnswered
  <2>2. CASE MainSends(w) \/ PrepareFails(w) \/ CreateAnswered(w) \/ Choose(w)
    BY <2>2 DEF MainSends, PrepareFails, CreateAnswered, Choose
  <2>3. CASE AnnounceAnswered(w) \/ ShellEnds(w) \/ ReportAnswered(w)
    BY <2>3 DEF AnnounceAnswered, ShellEnds, ReportAnswered
  <2>4. CASE FinishAnswered(w) \/ MainGivesUp(w)
    BY <2>4 DEF FinishAnswered, MainGivesUp
  <2>5. CASE BeatSends(w) \/ BeatEnds(w) \/ Stop(w) \/ Crash(w)
    BY <2>5 DEF BeatSends, BeatEnds, Stop, Crash
  <2> QED BY <1>2, <2>1, <2>2, <2>3, <2>4, <2>5 DEF ProcStep
<1>3. ASSUME NEW m \in wire, Lose(m) PROVE UNCHANGED queue
  BY <1>3 DEF Lose
<1>4. UNCHANGED allVars => UNCHANGED queue
  BY DEF allVars, queue
<1>5. SubmitStep \/ CancelStep \/ Reap \/ Tick => Next
  BY DEF Next
<1> QED BY <1>1, <1>2, <1>3, <1>4, <1>5, ServeIsQueueStep DEF ProtocolNext

(* Every behaviour of runners, calls and network is one of the queue: late *)
(* and repeated requests, crashes and restarts included.                   *)
THEOREM ProtocolIsQueue == ProtocolSpec => QueueSteps
<1>1. ProtocolInit => Init
  BY DEF ProtocolInit
<1>2. PInv /\ [ProtocolNext]_allVars => [Next]_vars
  BY ProtocolTakesQueueSteps
<1> QED BY <1>1, <1>2, ProtocolInvariant, PTL DEF ProtocolSpec, QueueSteps

(* So the lifecycle of a pipeline is kept end to end: one assignment, one  *)
(* outcome, and a cancellation that was accepted decides it.               *)
THEOREM ProtocolImplementsLifecycle == ProtocolSpec => ImplementsLifecycle
BY ProtocolIsQueue, StepsImplementLifecycle, PTL

\* A pipeline is held by one runner's process at a time, and that is the runner
\* the queue gave it to.
HeldByItsRunner ==
  \A w \in Workers : proc[w].held # NoPipeline =>
    /\ worker[proc[w].held] = w
    /\ \A v \in Workers : proc[v].held = proc[w].held => v = w

(* Whatever is late or lost, no two runners work on one pipeline.          *)
THEOREM OneHolder == ProtocolSpec => []HeldByItsRunner
<1>1. PInv => HeldByItsRunner
  BY DEF PInv, Executions, HeldByItsRunner
<1> QED BY <1>1, ProtocolInvariant, PTL

\* A pipeline of a run group was executed only after the scripts of every job of
\* every pipeline it needs, by whatever runner, had exited with code 0.
GroupRunsOnEarnedResults ==
  \A p \in Pipelines : definition[p].frozen /\ taken[p] # 0 =>
    \A q \in Upstream(p) : \A j \in definition[q].jobs :
      j \in passed[q] /\ job[q][j] = "succeeded"

(* The order of a group and the honesty of reports, together: deploy runs  *)
(* on what build and test really did, over any network and any runners.    *)
THEOREM EarnedOrder == ProtocolSpec => []GroupRunsOnEarnedResults
<1>1. PInv => GroupRunsOnEarnedResults
  <2> SUFFICES ASSUME PInv, NEW p \in Pipelines, definition[p].frozen, taken[p] # 0,
                      NEW q \in Upstream(p), NEW j \in definition[q].jobs
               PROVE  j \in passed[q] /\ job[q][j] = "succeeded"
    BY DEF GroupRunsOnEarnedResults
  <2>1. request[p] # NoRequest
    BY QueueAssumption DEF PInv, Identities
  <2>2. worker[p] # NoWorker
    BY <2>1 DEF PInv, Identities
  <2>3. q \in Pipelines /\ status[q] = "succeeded"
    BY <2>2 DEF PInv, IInv, GroupRunsInDependencyOrder, Upstream
  <2> QED BY <2>3 DEF PInv, Reports, SuccessIsEarned
<1> QED BY <1>1, ProtocolInvariant, PTL
=============================================================================
