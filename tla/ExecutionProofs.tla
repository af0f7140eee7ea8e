--------------------------- MODULE ExecutionProofs ---------------------------
(***************************************************************************)
(* From a file to its processes.  The first part is about DependencyOrder, *)
(* for any finite set of nodes and any file: what validation accepts.  The *)
(* second part is that this is what JobScheduler assumes of the pipelines  *)
(* it runs.  The third is the safety of JobScheduler for every validated   *)
(* configuration.                                                          *)
(***************************************************************************)
EXTENDS JobScheduler, DependencyOrder, FiniteSetTheorems, WellFoundedInduction,
        TLAPS

-----------------------------------------------------------------------------
(* 1. The order that validation accepts.                                   *)

\* While the order grows, a count is what is left of the needs of a node.
Counts ==
  phase \in {"order", "walk", "accepted"} =>
    /\ \A n \in Nodes : WellFormed(n)
    /\ \A n \in Nodes : indegree[n] = Cardinality(input.needs[n] \ Emitted)

\* Nodes none of which can ever be emitted: each needs another one of them.
Trapped(S) ==
  /\ S # {} /\ S \subseteq Blocked
  /\ \A n \in S : input.needs[n] \cap S # {}

\* The order so far is sound, or a trapped set shows that it never will be one.
Ordered ==
  /\ \A i, j \in DOMAIN order : order[i] = order[j] => i = j
  /\ \A j \in DOMAIN order : \A k \in input.needs[order[j]] :
       \E i \in DOMAIN order : i < j /\ order[i] = k
  /\ \A j \in DOMAIN order : \A m \in Nodes :
       input.rank[m] < input.rank[order[j]] =>
         \/ \E i \in DOMAIN order : i < j /\ order[i] = m
         \/ \E S \in SUBSET Nodes : Trapped(S)

\* Whatever is closed under needs and has those of a visited node has the node
\* where the walk is.
Closed(S) == \A k \in S : input.needs[k] \subseteq S

Reaches ==
  /\ phase = "walk" =>
       \A v \in visited : \A S \in SUBSET Nodes :
         Closed(S) /\ input.needs[v] \subseteq S => at \in S
  /\ phase \in {"walk", "cyclic"} => at \in Nodes
  /\ phase = "cyclic" => OnCycle(at)

Fresh ==
  /\ phase \in {"check", "malformed"} => order = <<>>
  /\ phase \in {"check", "order"} => visited = {}
  /\ phase = "accepted" => Blocked = {}

OrderIInv == OrderTypeOK /\ Counts /\ Ordered /\ Reaches /\ Fresh

LEMMA OrderInitIInv == OrderInit => OrderIInv
<1> SUFFICES ASSUME OrderInit PROVE OrderIInv
  OBVIOUS
<1>1. OrderTypeOK
  BY DEF OrderInit, OrderTypeOK, Phases
<1>2. Ordered
  BY DEF OrderInit, Ordered
<1> QED BY <1>1, <1>2 DEF OrderIInv, OrderInit, Counts, Reaches, Fresh

\* Facts about a file that is well formed.
LEMMA FileFacts ==
  ASSUME OrderTypeOK, \A n \in Nodes : WellFormed(n), NEW n \in Nodes
  PROVE  /\ input.needs[n] \subseteq Nodes
         /\ \A k \in input.needs[n] : input.rank[k] <= input.rank[n]
         /\ IsFiniteSet(input.needs[n])
         /\ \A T \in SUBSET input.needs[n] :
              IsFiniteSet(T) /\ (Cardinality(T) = 0 <=> T = {})
<1>1. input.needs \in [Nodes -> SUBSET (Nodes \cup {Unknown})]
  BY OrderAssumption DEF OrderTypeOK, InputType
<1>2. input.needs[n] \subseteq Nodes
  BY <1>1 DEF WellFormed
<1>3. \A k \in input.needs[n] : input.rank[k] <= input.rank[n]
  BY <1>2, OrderAssumption DEF WellFormed
<1>4. \A T \in SUBSET Nodes : IsFiniteSet(T)
  BY OrderAssumption, FS_Subset
<1> QED BY <1>2, <1>3, <1>4, FS_EmptySet

\* A node that is free has all it needs, and is in no trapped set.
LEMMA FreeNode ==
  ASSUME OrderIInv, phase = "order", NEW n \in Free
  PROVE  /\ n \in Nodes /\ n \notin Emitted
         /\ input.needs[n] \subseteq Emitted
         /\ \A S \in SUBSET Nodes : Trapped(S) => n \notin S
<1>1. n \in Nodes /\ n \notin Emitted /\ indegree[n] = 0
  BY DEF Free, Blocked
<1>2. \A m \in Nodes : WellFormed(m)
  BY DEF OrderIInv, Counts
<1>3. Cardinality(input.needs[n] \ Emitted) = 0
  BY <1>1 DEF OrderIInv, Counts
<1>4. input.needs[n] \ Emitted = {}
  BY <1>1, <1>2, <1>3, FileFacts DEF OrderIInv
<1> QED BY <1>1, <1>4 DEF Trapped, Blocked

LEMMA CheckIInv == ASSUME OrderIInv, Check PROVE OrderIInv'
<1>1. order = <<>> /\ visited = {} /\ UNCHANGED <<input, order, at, visited>>
  BY DEF Check, OrderIInv, Fresh
<1>2. Emitted = {} /\ Emitted' = {}
  BY <1>1 DEF Emitted
<1>3. CASE \A n \in Nodes : WellFormed(n)
  <2>1. phase' = "order" /\ indegree' = [n \in Nodes |-> Cardinality(input.needs[n])]
    BY <1>3 DEF Check
  <2>2. \A n \in Nodes : IsFiniteSet(input.needs[n])
    BY <1>3, FileFacts DEF OrderIInv
  <2>3. indegree' \in [Nodes -> Nat]
    BY <2>1, <2>2, FS_CardinalityType
  <2>4. OrderTypeOK'
    BY <1>1, <2>1, <2>3 DEF OrderIInv, OrderTypeOK, Phases
  <2>5. \A n \in Nodes : input.needs[n] \ {} = input.needs[n]
    OBVIOUS
  <2>6. Counts'
    BY <1>1, <1>2, <1>3, <2>1, <2>5 DEF Counts, WellFormed
  <2> QED BY <1>1, <2>1, <2>4, <2>6 DEF OrderIInv, Ordered, Reaches, Fresh
<1>4. CASE ~ \A n \in Nodes : WellFormed(n)
  <2>1. phase' = "malformed" /\ UNCHANGED indegree
    BY <1>4 DEF Check
  <2>2. OrderTypeOK'
    BY <1>1, <2>1 DEF OrderIInv, OrderTypeOK, Phases
  <2> QED BY <1>1, <2>1, <2>2 DEF OrderIInv, Counts, Ordered, Reaches, Fresh
<1> QED BY <1>3, <1>4

\* What one more node does to the order.
LEMMA AppendFacts ==
  ASSUME OrderTypeOK, NEW n \in Nodes, order' = Append(order, n)
  PROVE  /\ order' \in Seq(Nodes)
         /\ Len(order) \in Nat /\ DOMAIN order = 1..Len(order)
         /\ DOMAIN order' = 1..(Len(order) + 1)
         /\ order'[Len(order) + 1] = n
         /\ \A i \in DOMAIN order : order'[i] = order[i]
         /\ Emitted' = Emitted \cup {n}
<1>1. order \in Seq(Nodes)
  BY DEF OrderTypeOK
<1>2. /\ order' \in Seq(Nodes)
      /\ Len(order) \in Nat /\ DOMAIN order = 1..Len(order)
      /\ DOMAIN order' = 1..(Len(order) + 1)
      /\ order'[Len(order) + 1] = n
      /\ \A i \in 1..Len(order) : order'[i] = order[i]
  BY <1>1
<1>3. \A i \in 1..(Len(order) + 1) : i \in 1..Len(order) \/ i = Len(order) + 1
  BY <1>2
<1>4. Emitted' = Emitted \cup {n}
  BY <1>2, <1>3 DEF Emitted
<1> QED BY <1>2, <1>4

\* The order stays sound, or a trapped set appears, and stays.
LEMMA EmitOrdered == ASSUME OrderIInv, NEW n \in Nodes, Emit(n) PROVE Ordered'
<1> DEFINE l == Len(order) + 1
<1>1. /\ phase = "order" /\ n \in Free /\ order' = Append(order, n) /\ input' = input
      /\ \A m \in Free : Before(n, m)
  BY DEF Emit
<1>2. /\ n \notin Emitted /\ input.needs[n] \subseteq Emitted
      /\ \A S \in SUBSET Nodes : Trapped(S) => n \notin S
  BY <1>1, FreeNode
<1>3. /\ Len(order) \in Nat /\ DOMAIN order = 1..Len(order) /\ DOMAIN order' = 1..l
      /\ order'[l] = n /\ \A i \in DOMAIN order : order'[i] = order[i]
      /\ Emitted' = Emitted \cup {n}
  BY <1>1, AppendFacts DEF OrderIInv
<1>4. \A j \in DOMAIN order' : (j \in DOMAIN order /\ j < l) \/ j = l
  BY <1>3
<1>5. \A S \in SUBSET Nodes : Trapped(S) => Trapped(S)'
  BY <1>1, <1>2, <1>3 DEF Trapped, Blocked
<1>6. \A i, j \in DOMAIN order' : order'[i] = order'[j] => i = j
  <2>1. \A i \in DOMAIN order : order'[i] # n
    BY <1>2, <1>3 DEF Emitted
  <2> QED BY <1>3, <1>4, <2>1 DEF OrderIInv, Ordered
<1>7. \A j \in DOMAIN order' : \A k \in input.needs[order'[j]] :
        \E i \in DOMAIN order' : i < j /\ order'[i] = k
  <2> SUFFICES ASSUME NEW j \in DOMAIN order', NEW k \in input.needs[order'[j]]
               PROVE  \E i \in DOMAIN order' : i < j /\ order'[i] = k
    OBVIOUS
  <2>1. CASE j = l
    <3>1. PICK i \in DOMAIN order : order[i] = k
      BY <1>2, <1>3, <2>1 DEF Emitted
    <3> QED BY <1>3, <2>1, <3>1
  <2>2. CASE j \in DOMAIN order
    <3>1. PICK i \in DOMAIN order : i < j /\ order[i] = k
      BY <1>3, <2>2 DEF OrderIInv, Ordered
    <3> QED BY <1>3, <3>1
  <2> QED BY <1>4, <2>1, <2>2
<1>8. ASSUME NEW m \in Nodes, input.rank[m] < input.rank[n], m \notin Emitted
      PROVE  \E S \in SUBSET Nodes : Trapped(S)'
  <2> DEFINE S == {k \in Blocked : input.rank[k] < input.rank[n]}
  <2>1. input.rank \in [Nodes -> Nat]
    BY OrderAssumption DEF OrderIInv, OrderTypeOK, InputType
  <2>2. m \in S /\ S \subseteq Nodes /\ n \notin S
    BY <1>8, <2>1 DEF Blocked
  <2>3. ASSUME NEW k \in S PROVE input.needs[k] \cap S # {}
    <3>1. k \in Nodes /\ k \notin Emitted
      BY DEF Blocked
    <3>2. k \notin Free
      BY <1>1, <2>1, <3>1 DEF Before
    <3>3. Cardinality(input.needs[k] \ Emitted) # 0
      BY <1>1, <3>1, <3>2 DEF Free, Blocked, OrderIInv, Counts
    <3>4. /\ input.needs[k] \subseteq Nodes
          /\ \A d \in input.needs[k] : input.rank[d] <= input.rank[k]
          /\ \A T \in SUBSET input.needs[k] : Cardinality(T) = 0 <=> T = {}
      BY <1>1, <3>1, FileFacts DEF OrderIInv, Counts
    <3>5. PICK d \in input.needs[k] : d \notin Emitted
      BY <3>3, <3>4
    <3>6. d \in Blocked /\ input.rank[d] < input.rank[n]
      BY <2>1, <3>1, <3>4, <3>5 DEF Blocked
    <3> QED BY <3>5, <3>6
  <2>4. Trapped(S)
    BY <2>2, <2>3 DEF Trapped
  <2> QED BY <1>5, <2>2, <2>4
<1>9. \A j \in DOMAIN order' : \A m \in Nodes :
        input.rank[m] < input.rank[order'[j]] =>
          \/ \E i \in DOMAIN order' : i < j /\ order'[i] = m
          \/ \E S \in SUBSET Nodes : Trapped(S)'
  <2> SUFFICES ASSUME NEW j \in DOMAIN order', NEW m \in Nodes,
                      input.rank[m] < input.rank[order'[j]]
               PROVE  \/ \E i \in DOMAIN order' : i < j /\ order'[i] = m
                      \/ \E S \in SUBSET Nodes : Trapped(S)'
    OBVIOUS
  <2>1. CASE j = l
    <3>1. CASE m \notin Emitted
      BY <1>3, <1>8, <2>1, <3>1
    <3>2. CASE m \in Emitted
      <4>1. PICK i \in DOMAIN order : order[i] = m
        BY <3>2 DEF Emitted
      <4> QED BY <1>3, <2>1, <4>1
    <3> QED BY <3>1, <3>2
  <2>2. CASE j \in DOMAIN order
    <3>1. \/ \E i \in DOMAIN order : i < j /\ order[i] = m
          \/ \E S \in SUBSET Nodes : Trapped(S)
      BY <1>3, <2>2 DEF OrderIInv, Ordered
    <3>2. DOMAIN order \subseteq DOMAIN order'
      BY <1>3
    <3> QED BY <1>3, <1>5, <3>1, <3>2
  <2> QED BY <1>4, <2>1, <2>2
<1> QED BY <1>1, <1>6, <1>7, <1>9 DEF Ordered

LEMMA EmitIInv == ASSUME OrderIInv, NEW n \in Nodes, Emit(n) PROVE OrderIInv'
<1>1. /\ phase = "order" /\ n \in Free /\ order' = Append(order, n)
      /\ UNCHANGED <<input, phase, at, visited>>
      /\ indegree' = [m \in Nodes |-> IF n \in input.needs[m] THEN indegree[m] - 1
                                                              ELSE indegree[m]]
  BY DEF Emit
<1>2. n \notin Emitted
  BY <1>1, FreeNode
<1>3. order' \in Seq(Nodes) /\ Emitted' = Emitted \cup {n}
  BY <1>1, AppendFacts DEF OrderIInv
<1>4. ASSUME NEW m \in Nodes
      PROVE  /\ indegree'[m] = Cardinality(input.needs[m] \ Emitted')
             /\ indegree'[m] \in Nat
  <2> DEFINE T == input.needs[m] \ Emitted
  <2>1. IsFiniteSet(T) /\ indegree[m] = Cardinality(T)
    BY <1>1, FileFacts DEF OrderIInv, Counts
  <2>2. /\ IsFiniteSet(T \ {n})
        /\ Cardinality(T \ {n}) = IF n \in T THEN Cardinality(T) - 1 ELSE Cardinality(T)
    BY <2>1, FS_RemoveElement
  <2>3. input.needs[m] \ Emitted' = T \ {n}
    BY <1>3
  <2>4. n \in T <=> n \in input.needs[m]
    BY <1>2
  <2>5. indegree'[m] = Cardinality(T \ {n})
    BY <1>1, <2>1, <2>2, <2>4
  <2> QED BY <2>2, <2>3, <2>5, FS_CardinalityType
<1>5. OrderTypeOK'
  BY <1>1, <1>3, <1>4 DEF OrderIInv, OrderTypeOK
<1>6. Counts'
  BY <1>1, <1>4 DEF OrderIInv, Counts, WellFormed
<1>7. Ordered'
  BY EmitOrdered
<1>8. Reaches' /\ Fresh'
  BY <1>1 DEF OrderIInv, Reaches, Fresh
<1> QED BY <1>5, <1>6, <1>7, <1>8 DEF OrderIInv

\* The steps that do not touch the order.
LEMMA KeepsOrder ==
  ASSUME OrderIInv, UNCHANGED <<input, indegree, order>>,
         phase \in {"order", "walk"}
  PROVE  Counts' /\ Ordered'
<1>1. Emitted' = Emitted /\ Blocked' = Blocked
  BY DEF Emitted, Blocked
<1>2. Counts'
  BY <1>1 DEF OrderIInv, Counts, WellFormed
<1>3. Ordered'
  BY <1>1 DEF OrderIInv, Ordered, Trapped
<1> QED BY <1>2, <1>3

LEMMA AcceptIInv == ASSUME OrderIInv, Accept PROVE OrderIInv'
<1>1. Counts' /\ Ordered'
  BY KeepsOrder DEF Accept
<1>2. OrderTypeOK' /\ Reaches' /\ Fresh'
  BY DEF Accept, OrderIInv, OrderTypeOK, Phases, Reaches, Fresh, Blocked, Emitted
<1> QED BY <1>1, <1>2 DEF OrderIInv

LEMMA StuckIInv == ASSUME OrderIInv, Stuck PROVE OrderIInv'
<1>1. Counts' /\ Ordered'
  BY KeepsOrder DEF Stuck
<1>2. OrderTypeOK' /\ Reaches' /\ Fresh'
  BY DEF Stuck, OrderIInv, OrderTypeOK, Phases, Reaches, Fresh, Blocked
<1> QED BY <1>1, <1>2 DEF OrderIInv

LEMMA WalkIInv == ASSUME OrderIInv, Walk PROVE OrderIInv'
<1>1. Counts' /\ Ordered'
  BY KeepsOrder DEF Walk
<1>2. at \in Nodes /\ phase = "walk" /\ UNCHANGED <<input, order, indegree>>
  BY DEF Walk, OrderIInv, Reaches
<1>3. CASE at \in visited
  <2>1. phase' = "cyclic" /\ UNCHANGED <<at, visited>>
    BY <1>3 DEF Walk
  <2>2. OnCycle(at)
    BY <1>2, <1>3 DEF OrderIInv, Reaches, OnCycle, Closed
  <2> QED BY <1>1, <1>2, <2>1, <2>2
          DEF OrderIInv, OrderTypeOK, Phases, Reaches, Fresh, OnCycle
<1>4. CASE at \notin visited
  <2>1. /\ visited' = visited \cup {at} /\ at' \in input.needs[at] /\ at' \in Nodes
        /\ phase' = phase
    BY <1>4 DEF Walk, Blocked
  <2>2. \A v \in visited' : \A S \in SUBSET Nodes :
          Closed(S) /\ input.needs[v] \subseteq S => at' \in S
    BY <1>2, <2>1 DEF OrderIInv, Reaches, Closed
  <2>3. OrderTypeOK'
    BY <1>2, <2>1 DEF OrderIInv, OrderTypeOK
  <2>4. Reaches' /\ Fresh'
    BY <1>2, <2>1, <2>2 DEF Reaches, Fresh, Closed
  <2> QED BY <1>1, <2>3, <2>4 DEF OrderIInv
<1> QED BY <1>3, <1>4

LEMMA StutterIInv == ASSUME OrderIInv, UNCHANGED orderVars PROVE OrderIInv'
<1>1. UNCHANGED <<input, phase, indegree, order, at, visited>>
  BY DEF orderVars
<1>2. Emitted' = Emitted /\ Blocked' = Blocked
  BY <1>1 DEF Emitted, Blocked
<1>3. OrderTypeOK' /\ Counts'
  BY <1>1, <1>2 DEF OrderIInv, OrderTypeOK, Counts, WellFormed
<1>4. Ordered'
  BY <1>1, <1>2 DEF OrderIInv, Ordered, Trapped
<1>5. Reaches' /\ Fresh'
  BY <1>1, <1>2 DEF OrderIInv, Reaches, Fresh, Closed, OnCycle
<1> QED BY <1>3, <1>4, <1>5 DEF OrderIInv

\* The invariant holds in every reachable state.
THEOREM OrderInvariant == OrderSpec => []OrderIInv
<1>1. OrderInit => OrderIInv
  BY OrderInitIInv
<1>2. OrderIInv /\ [OrderNext]_orderVars => OrderIInv'
  BY CheckIInv, EmitIInv, AcceptIInv, StuckIInv, WalkIInv, StutterIInv DEF OrderNext
<1> QED BY <1>1, <1>2, PTL DEF OrderSpec

\* Every reachable state of the validation has its types; in particular no
\* count of open dependencies, an unsigned number, goes below zero.
THEOREM OrderTypeCorrect == OrderSpec => []OrderTypeOK
<1>1. OrderIInv => OrderTypeOK
  BY DEF OrderIInv
<1> QED BY <1>1, OrderInvariant, PTL

\* An accepted order is sound: were a node of a later stage emitted before one
\* of an earlier stage, the earlier ones would be trapped and never be accepted.
THEOREM OrderIsSound == OrderSpec => []AcceptedOrderIsSound
<1>1. OrderIInv => AcceptedOrderIsSound
  <2> SUFFICES ASSUME OrderIInv, phase = "accepted"
               PROVE  /\ Emitted = Nodes
                      /\ \A i, j \in DOMAIN order :
                           /\ order[i] = order[j] => i = j
                           /\ order[i] \in input.needs[order[j]] => i < j
                           /\ input.rank[order[i]] < input.rank[order[j]] => i < j
    BY DEF AcceptedOrderIsSound
  <2>1. Blocked = {} /\ order \in Seq(Nodes)
    BY DEF OrderIInv, Fresh, OrderTypeOK
  <2>2. \A i \in DOMAIN order : order[i] \in Nodes
    BY <2>1
  <2>3. Emitted = Nodes
    BY <2>1, <2>2 DEF Blocked, Emitted
  <2>4. ~ \E S \in SUBSET Nodes : Trapped(S)
    BY <2>1 DEF Trapped
  <2> QED BY <2>2, <2>3, <2>4 DEF OrderIInv, Ordered
<1> QED BY <1>1, OrderInvariant, PTL

\* The node that an error names is on a cycle.
THEOREM ReportedCycle == OrderSpec => []ReportedIsOnCycle
<1>1. OrderIInv => ReportedIsOnCycle
  BY DEF OrderIInv, Reaches, ReportedIsOnCycle
<1> QED BY <1>1, OrderInvariant, PTL

-----------------------------------------------------------------------------
\* Validation comes to a verdict: some step is always possible until it has one,
\* and every step takes from a measure that is a natural number.
Verdicts == {"accepted", "malformed", "cyclic"}

\* The guards of the steps.  Without the last one cycle_member would find no
\* prerequisite to go to and name no node.
OrderCanGo ==
  \/ phase = "check"
  \/ /\ phase = "order"
     /\ Free = {} \/ \E n \in Free : \A m \in Free : Before(n, m)
  \/ phase = "walk" /\ (at \in visited \/ input.needs[at] \cap Blocked # {})

OrderLeft ==
  CASE phase = "check" -> 2 * Cardinality(Nodes) + 3
    [] phase = "order" -> Cardinality(Blocked) + Cardinality(Nodes) + 2
    [] phase = "walk"  -> Cardinality(Nodes \ visited) + 1
    [] OTHER           -> 0

OrderLeftShrinks == OrderLeft \in Nat /\ OrderLeft' \in Nat /\ OrderLeft' < OrderLeft

(* A set of numbers that is not empty has a first one.                     *)
LEMMA FirstOf ==
  ASSUME NEW S \in SUBSET Nat, S # {}
  PROVE  \E m \in S : \A k \in S : ~ (k < m)
<1>1. \E m \in S : \A k \in S : ~ (<<k, m>> \in OpToRel(<, Nat))
  BY NatLessThanWellFounded, WFMin
<1>2. QED
  BY <1>1 DEF OpToRel

(* Of the free nodes one comes before the others.                          *)
LEMMA FirstFree ==
  ASSUME OrderTypeOK, Free # {}
  PROVE  \E n \in Free : \A m \in Free : Before(n, m)
<1> DEFINE R == {input.rank[m] : m \in Free}
<1>1. /\ input.rank \in [Nodes -> Nat]
      /\ Free \subseteq Nodes /\ Nodes \subseteq Nat
  BY OrderAssumption DEF OrderTypeOK, InputType, Free, Blocked
<1>2. R \in SUBSET Nat /\ R # {}
  BY <1>1
<1>3. PICK r \in R : \A k \in R : ~ (k < r)
  BY <1>2, FirstOf
<1> DEFINE S == {m \in Free : input.rank[m] = r}
<1>4. S \in SUBSET Nat /\ S # {}
  BY <1>1, <1>3
<1>5. PICK n \in S : \A k \in S : ~ (k < n)
  BY <1>4, FirstOf
<1>6. ASSUME NEW m \in Free PROVE Before(n, m)
  <2>1. input.rank[m] \in R /\ input.rank[m] \in Nat /\ input.rank[n] \in Nat
        /\ m \in Nat /\ n \in Nat
    BY <1>1, <1>5
  <2>2. ~ (input.rank[m] < input.rank[n]) /\ input.rank[n] = r
    BY <1>3, <1>5, <2>1
  <2>3. input.rank[m] = input.rank[n] => ~ (m < n)
    BY <1>5, <2>2
  <2> QED BY <2>1, <2>2, <2>3 DEF Before
<1> QED BY <1>5, <1>6

\* While no node is free, the walk is at a blocked node, which needs another.
Walking ==
  phase = "walk" =>
    /\ Free = {}
    /\ at \in Blocked

LEMMA WalkingInductive ==
  /\ OrderInit => Walking
  /\ OrderIInv /\ Walking /\ [OrderNext]_orderVars => Walking'
<1>1. OrderInit => Walking
  BY DEF OrderInit, Walking
<1>2. ASSUME OrderIInv, Walking, [OrderNext]_orderVars PROVE Walking'
  <2>1. CASE Check
    BY <2>1 DEF Check, Walking
  <2>2. ASSUME NEW n \in Nodes, Emit(n) PROVE Walking'
    BY <2>2 DEF Emit, Walking
  <2>3. CASE Accept
    BY <2>3 DEF Accept, Walking
  <2>4. CASE Stuck
    BY <2>4 DEF Stuck, Walking, Free, Blocked, Emitted
  <2>5. CASE Walk
    BY <1>2, <2>5 DEF Walk, Walking, Free, Blocked, Emitted
  <2>6. CASE UNCHANGED orderVars
    BY <1>2, <2>6 DEF orderVars, Walking, Free, Blocked, Emitted
  <2> QED BY <1>2, <2>1, <2>2, <2>3, <2>4, <2>5, <2>6 DEF OrderNext
<1> QED BY <1>1, <1>2

(* Validation never gets stuck before its verdict; in particular, a cycle  *)
(* error always names a node.                                              *)
THEOREM OrderNeverStuck == OrderSpec => [](phase \in Verdicts \/ OrderCanGo)
<1>1. OrderIInv /\ Walking => phase \in Verdicts \/ OrderCanGo
  <2> SUFFICES ASSUME OrderIInv, Walking PROVE phase \in Verdicts \/ OrderCanGo
    OBVIOUS
  <2>1. CASE phase = "order"
    BY <2>1, FirstFree DEF OrderIInv, OrderCanGo
  <2>2. CASE phase = "walk"
    <3>1. at \in Blocked /\ at \in Nodes /\ indegree[at] # 0
      BY <2>2 DEF Walking, Free, Blocked
    <3>2. input.needs[at] \ Emitted # {}
      BY <2>2, <3>1, FS_EmptySet DEF OrderIInv, Counts
    <3>3. input.needs[at] \subseteq Nodes
      BY <2>2, <3>1, FileFacts DEF OrderIInv, Counts
    <3> QED BY <2>2, <3>2, <3>3 DEF OrderCanGo, Blocked
  <2> QED BY <2>1, <2>2 DEF OrderIInv, OrderTypeOK, Phases, Verdicts, OrderCanGo
<1>2. OrderInit => Walking
  BY WalkingInductive
<1>3. OrderIInv /\ Walking /\ [OrderNext]_orderVars => Walking'
  BY WalkingInductive
<1> QED BY <1>1, <1>2, <1>3, OrderInvariant, PTL DEF OrderSpec

LEMMA FiniteNodes ==
  ASSUME NEW S \in SUBSET Nodes
  PROVE  IsFiniteSet(S) /\ Cardinality(S) \in Nat /\ Cardinality(S) <= Cardinality(Nodes)
BY OrderAssumption, FS_Subset, FS_CardinalityType

(* Every step of validation takes from what is left, so that it ends after *)
(* at most twice as many steps as there are nodes, and three.              *)
THEOREM OrderTerminates == OrderSpec => [][OrderLeftShrinks]_orderVars
<1>1. ASSUME OrderIInv, OrderIInv', OrderNext PROVE OrderLeftShrinks
  <2> USE DEF OrderLeftShrinks
  <2>1. /\ Cardinality(Nodes) \in Nat
        /\ \A S \in SUBSET Nodes : Cardinality(S) \in Nat /\ Cardinality(S) <= Cardinality(Nodes)
    BY FiniteNodes
  <2>2. /\ Blocked \in SUBSET Nodes /\ Blocked' \in SUBSET Nodes
        /\ visited \in SUBSET Nodes /\ visited' \in SUBSET Nodes
    BY <1>1 DEF Blocked, OrderIInv, OrderTypeOK
  <2>3. CASE Check
    <3>1. phase = "check" /\ phase' \in {"order", "malformed"}
      BY <2>3 DEF Check
    <3>2. OrderLeft = 2 * Cardinality(Nodes) + 3
      BY <3>1 DEF OrderLeft
    <3>3. OrderLeft' = Cardinality(Blocked') + Cardinality(Nodes) + 2 \/ OrderLeft' = 0
      BY <3>1 DEF OrderLeft
    <3> QED BY <2>1, <2>2, <3>2, <3>3
  <2>4. ASSUME NEW n \in Nodes, Emit(n) PROVE OrderLeftShrinks
    <3>1. phase = "order" /\ phase' = "order" /\ order' = Append(order, n) /\ n \in Free
      BY <2>4 DEF Emit
    <3>2. Blocked' = Blocked \ {n} /\ n \in Blocked
      BY <1>1, <3>1, AppendFacts DEF OrderIInv, Blocked, Free
    <3>3. Cardinality(Blocked') = Cardinality(Blocked) - 1
      BY <2>2, <3>2, FiniteNodes, FS_RemoveElement
    <3>4. /\ OrderLeft = Cardinality(Blocked) + Cardinality(Nodes) + 2
          /\ OrderLeft' = Cardinality(Blocked') + Cardinality(Nodes) + 2
      BY <3>1 DEF OrderLeft
    <3> QED BY <2>1, <2>2, <3>3, <3>4
  <2>5. CASE Accept \/ Stuck
    <3>1. phase = "order" /\ phase' \in {"accepted", "walk"}
      BY <2>5 DEF Accept, Stuck
    <3>2. OrderLeft = Cardinality(Blocked) + Cardinality(Nodes) + 2
      BY <3>1 DEF OrderLeft
    <3>3. OrderLeft' = Cardinality(Nodes \ visited') + 1 \/ OrderLeft' = 0
      BY <3>1 DEF OrderLeft
    <3> QED BY <2>1, <2>2, <3>2, <3>3
  <2>6. CASE Walk
    <3>1. phase = "walk" /\ at \in Nodes
      BY <1>1, <2>6 DEF Walk, OrderIInv, Reaches
    <3>2. OrderLeft = Cardinality(Nodes \ visited) + 1
      BY <3>1 DEF OrderLeft
    <3>3. CASE at \in visited
      <4>1. OrderLeft' = 0
        BY <2>6, <3>3 DEF Walk, OrderLeft
      <4> QED BY <2>1, <2>2, <3>2, <4>1
    <3>4. CASE at \notin visited
      <4>1. visited' = visited \cup {at} /\ phase' = "walk"
        BY <2>6, <3>1, <3>4 DEF Walk
      <4>2. OrderLeft' = Cardinality(Nodes \ visited') + 1
        BY <4>1 DEF OrderLeft
      <4>3. Nodes \ visited' = (Nodes \ visited) \ {at}
        BY <4>1
      <4>4. Cardinality(Nodes \ visited') = Cardinality(Nodes \ visited) - 1
        BY <3>1, <3>4, <4>3, FiniteNodes, FS_RemoveElement
      <4> QED BY <2>1, <2>2, <3>2, <4>2, <4>4
    <3> QED BY <3>3, <3>4
  <2> QED BY <1>1, <2>3, <2>4, <2>5, <2>6 DEF OrderNext
<1>2. OrderIInv /\ OrderIInv' /\ [OrderNext]_orderVars => [OrderLeftShrinks]_orderVars
  BY <1>1
<1> QED BY <1>2, OrderInvariant, PTL DEF OrderSpec

-----------------------------------------------------------------------------
(* 2. What the scheduler is given.                                         *)

\* What validate returns, with the positions of the order for the jobs:
\* config.jobs is replaced by the jobs in that order.
Positions(S) == {k \in DOMAIN order : order[k] \in S}
Returned(limit) ==
  [stage |-> [j \in DOMAIN order |-> input.rank[order[j]]],
   needs |-> [j \in DOMAIN order |-> Positions(input.needs[order[j]])],
   parallel |-> limit]

\* What validation accepts and returns is what JobScheduler assumes of every
\* configuration that run_jobs is given: each job after those it needs, which are
\* all there and in no later stage.
THEOREM AcceptedIsValidated ==
  OrderSpec =>
    [](/\ phase = "accepted"
       /\ Jobs = DOMAIN order
       /\ \A n \in Nodes : input.rank[n] \in 1..LastStage
       => \A limit \in 1..16 :
            /\ Returned(limit) \in ConfigType
            /\ Validated(Returned(limit))
            /\ \A j \in Jobs :
                 {order[k] : k \in Returned(limit).needs[j]} = input.needs[order[j]])
<1>1. ASSUME OrderIInv, phase = "accepted", Jobs = DOMAIN order,
             \A n \in Nodes : input.rank[n] \in 1..LastStage,
             NEW limit \in 1..16
      PROVE  /\ Returned(limit) \in ConfigType
             /\ Validated(Returned(limit))
             /\ \A j \in Jobs :
                  {order[k] : k \in Returned(limit).needs[j]} = input.needs[order[j]]
  <2> DEFINE c == Returned(limit)
  <2>1. /\ OrderTypeOK /\ order \in Seq(Nodes)
        /\ \A n \in Nodes : WellFormed(n)
    BY <1>1 DEF OrderIInv, OrderTypeOK, Counts
  <2>2. /\ Jobs \subseteq Nat /\ Jobs = 1..Len(order)
        /\ \A j \in Jobs : order[j] \in Nodes
    BY <1>1, <2>1
  <2>3. \A j \in Jobs : c.needs[j] = Positions(input.needs[order[j]])
                        /\ c.stage[j] = input.rank[order[j]]
    BY <1>1 DEF Returned
  <2>4. c \in ConfigType
    BY <1>1, <2>2 DEF Returned, Positions, ConfigType
  <2>5. ASSUME NEW j \in Jobs, NEW k \in c.needs[j]
        PROVE  k < j /\ c.stage[k] <= c.stage[j]
    <3>1. k \in Jobs /\ order[k] \in input.needs[order[j]]
      BY <1>1, <2>3, <2>5 DEF Positions
    <3>2. PICK i \in DOMAIN order : i < j /\ order[i] = order[k]
      BY <1>1, <2>5, <3>1 DEF OrderIInv, Ordered
    <3>3. i = k
      BY <1>1, <3>1, <3>2 DEF OrderIInv, Ordered
    <3>4. input.rank[order[k]] <= input.rank[order[j]]
      BY <2>1, <2>2, <3>1, FileFacts
    <3> QED BY <2>3, <3>1, <3>2, <3>3, <3>4
  <2>6. ASSUME NEW j \in Jobs
        PROVE  {order[k] : k \in c.needs[j]} = input.needs[order[j]]
    <3>1. \A n \in input.needs[order[j]] : \E k \in DOMAIN order : order[k] = n
      BY <1>1, <2>6 DEF OrderIInv, Ordered
    <3> QED BY <2>3, <3>1 DEF Positions
  <2> QED BY <2>4, <2>5, <2>6 DEF Validated
<1> DEFINE P == /\ phase = "accepted"
                /\ Jobs = DOMAIN order
                /\ \A n \in Nodes : input.rank[n] \in 1..LastStage
                => \A limit \in 1..16 :
                     /\ Returned(limit) \in ConfigType
                     /\ Validated(Returned(limit))
                     /\ \A j \in Jobs :
                          {order[k] : k \in Returned(limit).needs[j]}
                            = input.needs[order[j]]
<1>2. OrderIInv => P
  BY <1>1
<1> QED BY <1>2, OrderInvariant, PTL

-----------------------------------------------------------------------------
(* 3. The execution of a validated pipeline.  The inductive invariant ties *)
(* the loop's three sets to the tasks' states: a job that was started is   *)
(* in the JoinSet or has been joined, and while no error was joined,       *)
(* joined means completed.                                                 *)

Looping == control \in {"schedule", "join"}

Bookkeeping ==
  /\ \A j \in Jobs : j \in started <=> task[j] # "none"
  /\ running \subseteq started
  /\ \A j \in completed : task[j] = "ok"
  /\ \A j \in started : j \notin running => task[j] \in Ended
  /\ Looping => started \subseteq running \cup completed

Barrier ==
  /\ \A j \in Jobs : config.stage[j] < stage => j \in completed
  /\ \A j \in started : /\ config.stage[j] <= stage
                        /\ config.needs[j] \subseteq completed

Outcome ==
  /\ Looping <=> result = "none"
  /\ control = "drain" => result = "error"
  /\ result = "ok" => stage = LastStage + 1
  /\ result = "error" => cancel \/ \E j \in Jobs : task[j] = "error"
  /\ control = "returned" /\ result = "error" => running = {}

IInv == /\ TypeOK
        /\ Bookkeeping
        /\ Barrier
        /\ Outcome
        /\ Cardinality(running) <= config.parallel

-----------------------------------------------------------------------------
LEMMA ConfigFacts ==
  ASSUME TypeOK
  PROVE  /\ config.stage \in [Jobs -> 1..LastStage]
         /\ config.needs \in [Jobs -> SUBSET Jobs]
         /\ config.parallel \in 1..16
         /\ \A j \in Jobs : \A k \in config.needs[j] :
              k < j /\ config.stage[k] <= config.stage[j]
BY ScheduleAssumption DEF TypeOK, ConfigType, Validated

LEMMA FiniteJobs ==
  ASSUME NEW S \in SUBSET Jobs
  PROVE  IsFiniteSet(S) /\ Cardinality(S) \in Nat
BY ScheduleAssumption, FS_Subset, FS_CardinalityType

(* A set of job positions that is not empty has a first one.               *)
LEMMA FirstJob ==
  ASSUME NEW S \in SUBSET Jobs, S # {}
  PROVE  \E m \in S : \A k \in S : ~ (k < m)
<1>1. S \in SUBSET Nat
  BY ScheduleAssumption
<1>2. QED
  BY <1>1, FirstOf

(* When nothing runs and nothing can be started, the stage has no job that *)
(* was not started: validated dependencies always make progress.           *)
LEMMA Progress ==
  ASSUME IInv, running = {}, IsBatch({}), control = "schedule"
  PROVE  StageJobs \subseteq started
<1>1. Ready = {}
  BY ConfigFacts, FS_EmptySet DEF IInv, IsBatch
<1>2. SUFFICES ASSUME StageJobs \ started # {} PROVE FALSE
  OBVIOUS
<1>3. PICK m \in StageJobs \ started : \A k \in StageJobs \ started : ~ (k < m)
  BY <1>2, FirstJob DEF StageJobs
<1>4. ASSUME NEW k \in config.needs[m] PROVE k \in completed
  <2>1. k \in Jobs /\ k < m /\ config.stage[k] <= stage
    BY <1>3, <1>4, ConfigFacts DEF IInv, StageJobs
  <2>2. CASE config.stage[k] < stage
    BY <2>1, <2>2 DEF IInv, Barrier
  <2>3. CASE config.stage[k] = stage
    <3>1. k \in started
      BY <1>3, <2>1, <2>3 DEF StageJobs
    <3>2. QED
      BY <3>1 DEF IInv, Bookkeeping, Looping
  <2>4. config.stage[k] \in 1..LastStage /\ stage \in Nat
    BY <2>1, ConfigFacts, ScheduleAssumption DEF IInv, TypeOK
  <2>5. QED
    BY <2>1, <2>2, <2>3, <2>4, ScheduleAssumption
<1>5. m \in Ready
  BY <1>3, <1>4 DEF Ready
<1>6. QED
  BY <1>1, <1>5

-----------------------------------------------------------------------------
LEMMA InitIInv == Init => IInv
<1>1. SUFFICES ASSUME Init PROVE IInv
  OBVIOUS
<1>2. TypeOK
  BY <1>1, ScheduleAssumption DEF Init, TypeOK, TaskState, Ended
<1>3. Cardinality(running) = 0
  BY <1>1, FS_EmptySet DEF Init
<1>4. QED
  BY <1>1, <1>2, <1>3, ConfigFacts, ScheduleAssumption
     DEF Init, IInv, Bookkeeping, Barrier, Outcome, Looping

LEMMA ObserveCancelIInv ==
  ASSUME IInv, ObserveCancel
  PROVE  IInv'
BY DEF ObserveCancel, Fail, IInv, TypeOK, Bookkeeping, Barrier, Outcome, Looping,
       Ended, TaskState

LEMMA LaunchIInv ==
  ASSUME IInv, NEW B \in SUBSET Jobs, Launch(B)
  PROVE  IInv'
<1> USE DEF IInv, Launch
<1>1. /\ B \subseteq StageJobs \ started
      /\ \A j \in B : config.needs[j] \subseteq completed
  BY DEF IsBatch, Ready
<1>2. TypeOK'
  BY DEF TypeOK, TaskState
<1>3. Bookkeeping'
  BY <1>1 DEF TypeOK, Bookkeeping, Looping, Ended
<1>4. Barrier'
  BY <1>1, ConfigFacts, ScheduleAssumption DEF TypeOK, Barrier, StageJobs
<1>5. Outcome'
  BY <1>1 DEF TypeOK, Bookkeeping, Outcome, Looping
<1>6. Cardinality(running') <= config'.parallel
  <2>1. Cardinality(running) + Cardinality(B) <= config.parallel
    BY DEF IsBatch
  <2>2. Cardinality(running \cup B)
          = Cardinality(running) + Cardinality(B) - Cardinality(running \cap B)
    BY FiniteJobs, FS_Union DEF TypeOK
  <2>3. /\ Cardinality(running) \in Nat /\ Cardinality(B) \in Nat
        /\ Cardinality(running \cap B) \in Nat /\ config.parallel \in Nat
    BY FiniteJobs, ConfigFacts DEF TypeOK
  <2>4. QED
    BY <2>1, <2>2, <2>3
<1>7. QED
  BY <1>2, <1>3, <1>4, <1>5, <1>6

LEMMA StageOverIInv ==
  ASSUME IInv, StageOver
  PROVE  IInv'
<1> USE DEF IInv, StageOver
<1>1. StageJobs \subseteq started
  BY Progress
<1>2. stage' = stage + 1
      /\ UNCHANGED <<config, control, started, running, completed, task, cancel,
                     runningCancel, result>>
  BY <1>1
<1>3. stage \in Nat /\ stage <= LastStage /\ LastStage \in Nat
  BY ScheduleAssumption DEF TypeOK
<1>4. TypeOK'
  BY <1>2, <1>3 DEF TypeOK
<1>5. Barrier'
  <2>1. \A j \in Jobs : config.stage[j] \in Nat
    BY ConfigFacts, ScheduleAssumption
  <2>2. ASSUME NEW j \in Jobs, config.stage[j] < stage + 1
        PROVE  j \in completed
    <3>1. CASE config.stage[j] = stage
      BY <1>1, <3>1 DEF StageJobs, Bookkeeping, Looping
    <3>2. CASE config.stage[j] < stage
      BY <3>2 DEF Barrier
    <3>3. QED
      BY <1>3, <2>1, <2>2, <3>1, <3>2
  <2>3. \A j \in started : config.stage[j] <= stage + 1
    BY <1>3, <2>1 DEF Barrier, TypeOK
  <2>4. QED
    BY <1>2, <2>2, <2>3 DEF Barrier
<1>6. Bookkeeping' /\ Outcome'
  BY <1>2 DEF Bookkeeping, Outcome, Looping
<1>7. QED
  BY <1>2, <1>4, <1>5, <1>6

LEMMA AllStagesOverIInv ==
  ASSUME IInv, AllStagesOver
  PROVE  IInv'
BY DEF AllStagesOver, IInv, TypeOK, Bookkeeping, Barrier, Outcome, Looping, Ended,
       TaskState

LEMMA JoinIInv ==
  ASSUME IInv, NEW j \in Jobs, Join(j)
  PROVE  IInv'
<1> USE DEF IInv, Join
<1>1. TypeOK'
  BY DEF TypeOK, Fail, Ended
<1>2. Bookkeeping'
  BY DEF Bookkeeping, Looping, Fail, Ended
<1>3. Barrier'
  BY DEF Barrier, Fail
<1>4. Outcome'
  BY DEF Outcome, Looping, Fail, Ended
<1>5. Cardinality(running') <= config'.parallel
  BY FiniteJobs, ConfigFacts, FS_RemoveElement DEF TypeOK
<1>6. QED
  BY <1>1, <1>2, <1>3, <1>4, <1>5

LEMMA DrainIInv ==
  ASSUME IInv, Drain
  PROVE  IInv'
<1> USE DEF IInv, Drain
<1>1. TypeOK' /\ Barrier'
  BY DEF TypeOK, Barrier
<1>2. Bookkeeping' /\ Outcome'
  BY DEF Bookkeeping, Outcome, Looping
<1>3. Cardinality(running') <= config'.parallel
  BY FiniteJobs, ConfigFacts, FS_RemoveElement DEF TypeOK
<1>4. QED
  BY <1>1, <1>2, <1>3

(* A task that runs is in the JoinSet, and ends as ok or error only.       *)
LEMMA TaskIInv ==
  ASSUME IInv, NEW j \in Jobs, NEW from \in TaskState \ ({"none"} \cup Ended),
         NEW to \in TaskState \ {"none"}, Goes(j, from, to)
  PROVE  IInv'
<1> USE DEF IInv, Goes
<1>1. TypeOK' /\ Barrier'
  BY DEF TypeOK, Barrier, TaskState, Ended
<1>2. j \in running /\ j \notin completed
  BY DEF TypeOK, Bookkeeping, TaskState, Ended
<1>3. Bookkeeping'
  BY <1>2 DEF TypeOK, Bookkeeping, Looping
<1>4. Outcome'
  BY <1>2 DEF TypeOK, Outcome, Looping, Ended
<1>5. QED
  BY <1>1, <1>3, <1>4

LEMMA CancelIInv ==
  ASSUME IInv, Cancel
  PROVE  IInv'
BY DEF Cancel, IInv, TypeOK, Bookkeeping, Barrier, Outcome, Looping, Ended,
       TaskState

LEMMA NextIInv ==
  ASSUME IInv, [Next]_vars
  PROVE  IInv'
<1>1. CASE Loop
  BY <1>1, ObserveCancelIInv, LaunchIInv, StageOverIInv, AllStagesOverIInv,
     JoinIInv, DrainIInv DEF Loop
<1>2. ASSUME NEW j \in Jobs, TaskStep(j)
      PROVE  IInv'
  <2>1. \E from \in TaskState \ ({"none"} \cup Ended), to \in TaskState \ {"none"} :
          Goes(j, from, to)
    BY <1>2 DEF TaskStep, Announce, StartShell, GiveUp, ShellExits, Killed, Report,
                TaskState, Ended
  <2>2. QED
    BY <2>1, TaskIInv
<1>3. CASE Cancel
  BY <1>3, CancelIInv
<1>4. CASE UNCHANGED vars
  BY <1>4 DEF vars, IInv, TypeOK, Bookkeeping, Barrier, Outcome, Looping
<1>5. QED
  BY <1>1, <1>2, <1>3, <1>4 DEF Next

(* The loop's bookkeeping agrees with the state of its tasks.              *)
THEOREM Invariant == Spec => []IInv
<1>1. Init => IInv
  BY InitIInv
<1>2. IInv /\ [Next]_vars => IInv'
  BY NextIInv
<1>3. QED
  BY <1>1, <1>2, PTL DEF Spec

-----------------------------------------------------------------------------
(* Every variable keeps its type.                                          *)
THEOREM TypeCorrect == Spec => []TypeOK
BY Invariant, PTL DEF IInv

(* At most max_parallel_jobs process trees exist at any time.              *)
THEOREM Parallelism == Spec => []ParallelismIsBounded
<1>1. IInv => ParallelismIsBounded
  <2>1. SUFFICES ASSUME IInv PROVE ParallelismIsBounded
    OBVIOUS
  <2> DEFINE shells == {j \in Jobs : task[j] = "shell"}
  <2>2. shells \subseteq running /\ running \in SUBSET Jobs
    BY <2>1 DEF IInv, TypeOK, Bookkeeping, Ended
  <2>3. Cardinality(shells) <= Cardinality(running)
    BY <2>2, FiniteJobs, FS_Subset
  <2>4. Cardinality(running) <= config.parallel /\ config.parallel \in Nat
    BY <2>1, ConfigFacts DEF IInv
  <2>5. Cardinality(shells) \in Nat /\ Cardinality(running) \in Nat
    BY <2>2, FiniteJobs
  <2>6. Cardinality(shells) <= config.parallel
    BY <2>3, <2>4, <2>5
  <2>7. QED
    BY <2>6 DEF ParallelismIsBounded
<1>2. QED
  BY <1>1, Invariant, PTL

(* No job begins before its needs and the earlier stages have succeeded.   *)
THEOREM Prerequisites == Spec => []BeginsAfterPrerequisites
<1>1. IInv => BeginsAfterPrerequisites
  <2>1. SUFFICES ASSUME IInv, NEW j \in Jobs, NEW k \in Jobs, task[j] # "none",
                        \/ config.stage[k] < config.stage[j]
                        \/ k \in config.needs[j]
                 PROVE  task[k] = "ok"
    BY DEF BeginsAfterPrerequisites
  <2>2. j \in started /\ config.stage[j] <= stage
    BY <2>1 DEF IInv, Bookkeeping, Barrier
  <2>3. /\ config.stage[k] \in Nat /\ config.stage[j] \in Nat /\ stage \in Nat
    BY <2>1, ConfigFacts, ScheduleAssumption DEF IInv, TypeOK
  <2>4. k \in completed
    BY <2>1, <2>2, <2>3 DEF IInv, Barrier
  <2>5. QED
    BY <2>1, <2>4 DEF IInv, Bookkeeping
<1>2. QED
  BY <1>1, Invariant, PTL

(* No process tree is left when run_jobs has returned.                     *)
THEOREM NoShellLeft == Spec => []NoShellOutlivesRun
<1>1. IInv => NoShellOutlivesRun
  <2>1. SUFFICES ASSUME IInv, control = "returned", NEW j \in Jobs
                 PROVE  task[j] \in {"none"} \cup Ended
    BY DEF NoShellOutlivesRun
  <2>2. CASE result = "ok"
    BY <2>1, <2>2, ConfigFacts, ScheduleAssumption
       DEF IInv, Outcome, Barrier, Bookkeeping, Ended
  <2>3. CASE result = "error"
    BY <2>1, <2>3 DEF IInv, Outcome, Bookkeeping
  <2>4. QED
    BY <2>1, <2>2, <2>3 DEF IInv, TypeOK, Outcome, Looping, Ended
<1>2. QED
  BY <1>1, Invariant, PTL

(* Success means every job succeeded; failure means one failed or somebody *)
(* canceled.                                                               *)
THEOREM Earned == Spec => []ResultIsEarned
<1>1. IInv => ResultIsEarned
  BY ConfigFacts, ScheduleAssumption
     DEF IInv, ResultIsEarned, Outcome, Barrier, Bookkeeping
<1>2. QED
  BY <1>1, Invariant, PTL

-----------------------------------------------------------------------------
\* 4. run_jobs comes to its end: the loop and the tasks never all wait for each
\* other, and every step takes from a measure that is a natural number.

\* The loop waits only for tasks, and a failure or a cancellation has reached
\* the token that the tasks watch.
Driven ==
  /\ control = "join" => running # {}
  /\ cancel \/ result = "error" => runningCancel

LEMMA DrivenInductive ==
  /\ Init => Driven
  /\ Driven /\ [Next]_vars => Driven'
<1>1. Init => Driven
  BY DEF Init, Driven
<1>2. ASSUME Driven, [Next]_vars PROVE Driven'
  <2>1. CASE ObserveCancel
    BY <2>1 DEF ObserveCancel, Fail, Driven
  <2>2. ASSUME NEW B \in SUBSET Jobs, Launch(B) PROVE Driven'
    BY <1>2, <2>2 DEF Launch, Driven
  <2>3. CASE StageOver
    BY <1>2, <2>3 DEF StageOver, Fail, Driven
  <2>4. CASE AllStagesOver
    BY <1>2, <2>4 DEF AllStagesOver, Driven
  <2>5. ASSUME NEW j \in Jobs, Join(j) PROVE Driven'
    BY <1>2, <2>5 DEF Join, Fail, Driven
  <2>6. CASE Drain
    BY <1>2, <2>6 DEF Drain, Driven
  <2>7. ASSUME NEW j \in Jobs, TaskStep(j) PROVE Driven'
    BY <1>2, <2>7 DEF TaskStep, Announce, StartShell, GiveUp, ShellExits, Killed,
                      Report, Goes, Driven
  <2>8. CASE Cancel
    BY <1>2, <2>8 DEF Cancel, Driven
  <2>9. CASE UNCHANGED vars
    BY <1>2, <2>9 DEF vars, Driven
  <2> QED BY <1>2, <2>1, <2>2, <2>3, <2>4, <2>5, <2>6, <2>7, <2>8, <2>9 DEF Next, Loop
<1> QED BY <1>1, <1>2

\* The guards of the loop and of a task.
LoopCanGo ==
  \/ (control = "schedule" /\ stage <= LastStage) /\ cancel
  \/ control = "join" /\ cancel
  \/ /\ control = "schedule" /\ stage <= LastStage
     /\ \E B \in SUBSET Jobs : IsBatch(B) /\ (running \cup B # {} \/ B = {})
  \/ control = "schedule" /\ stage = LastStage + 1
  \/ control \in {"join", "drain"} /\ \E j \in running : task[j] \in Ended
  \/ control = "drain" /\ running = {}

TaskCanGo(j) == task[j] \in {"spawned", "announced", "shell", "exit0", "exit1"}

(* Whatever is ready, a batch of it can be formed: a first part that fills *)
(* the limit, or everything.                                               *)
LEMMA BatchExists ==
  ASSUME IInv
  PROVE  \E B \in SUBSET Jobs : IsBatch(B)
<1> DEFINE room == config.parallel - Cardinality(running)
           First(B) == /\ B \subseteq Ready
                       /\ \A j \in B, k \in Ready \ B : j < k
                       /\ Cardinality(B) <= room
           Rooms == {n \in Nat : \E B \in SUBSET Jobs : First(B) /\ n = room - Cardinality(B)}
<1>1. /\ running \in SUBSET Jobs /\ Ready \in SUBSET Jobs /\ Jobs \subseteq Nat
      /\ Cardinality(running) \in Nat /\ config.parallel \in Nat /\ room \in Nat
  BY ConfigFacts, FiniteJobs, ScheduleAssumption DEF IInv, TypeOK, Ready, StageJobs
<1>2. Rooms # {}
  <2>1. {} \in SUBSET Jobs /\ First({})
    BY <1>1, FS_EmptySet
  <2>2. room \in Rooms
    BY <1>1, <2>1, FS_EmptySet
  <2> QED BY <2>2
<1>3. PICK n \in Rooms : \A k \in Rooms : ~ (k < n)
  BY <1>2, FirstOf
<1>4. PICK B \in SUBSET Jobs : First(B) /\ n = room - Cardinality(B)
  BY <1>3
<1>5. Cardinality(B) \in Nat /\ IsFiniteSet(B)
  BY FiniteJobs
<1>6. ASSUME B # Ready, Cardinality(B) # room PROVE FALSE
  <2>1. PICK m \in Ready \ B : \A k \in Ready \ B : ~ (k < m)
    BY <1>1, <1>4, <1>6, FirstJob
  <2> DEFINE C == B \cup {m}
  <2>2. C \in SUBSET Jobs /\ C \subseteq Ready
    BY <1>1, <1>4, <2>1
  <2>3. \A j \in C, k \in Ready \ C : j < k
    BY <1>1, <1>4, <2>1
  <2>4. Cardinality(C) = Cardinality(B) + 1
    BY <1>5, <2>1, FS_AddElement
  <2>5. First(C) /\ room - Cardinality(C) \in Nat
    BY <1>1, <1>4, <1>5, <1>6, <2>2, <2>3, <2>4
  <2>6. room - Cardinality(C) \in Rooms
    BY <2>2, <2>5
  <2>7. ~ (room - Cardinality(C) < n)
    BY <1>3, <2>6
  <2>8. room - (Cardinality(B) + 1) < room - Cardinality(B)
    BY <1>1, <1>5
  <2> QED BY <1>4, <2>4, <2>7, <2>8
<1>7. IsBatch(B)
  BY <1>1, <1>4, <1>5, <1>6 DEF IsBatch
<1> QED BY <1>7

\* The loop can go on, or a task can, until run_jobs has returned.
NeverStuck == control = "returned" \/ LoopCanGo \/ \E j \in Jobs : TaskCanGo(j)

(* The loop and the tasks never wait for each other for ever: whatever was *)
(* started or canceled, one of them can go on until run_jobs has returned. *)
THEOREM RunNeverStuck == Spec => []NeverStuck
<1>1. IInv /\ Driven => NeverStuck
  <2> SUFFICES ASSUME IInv, Driven PROVE NeverStuck
    OBVIOUS
  <2>1. control \in {"schedule", "join", "drain", "returned"} /\ running \in SUBSET Jobs
        /\ stage \in 1..(LastStage + 1) /\ LastStage \in Nat
    BY ScheduleAssumption DEF IInv, TypeOK
  <2>2. \A j \in running : task[j] \in Ended \/ TaskCanGo(j)
    BY <2>1 DEF IInv, TypeOK, Bookkeeping, TaskState, TaskCanGo
  <2>3. CASE control = "schedule"
    <3>1. PICK B \in SUBSET Jobs : IsBatch(B)
      BY BatchExists
    <3>2. running \cup B # {} \/ B = {}
      OBVIOUS
    <3> QED BY <2>1, <2>3, <3>1, <3>2 DEF NeverStuck, LoopCanGo
  <2>4. CASE control = "join"
    BY <2>1, <2>2, <2>4 DEF Driven, NeverStuck, LoopCanGo
  <2>5. CASE control = "drain"
    BY <2>1, <2>2, <2>5 DEF NeverStuck, LoopCanGo
  <2> QED BY <2>1, <2>3, <2>4, <2>5 DEF NeverStuck
<1>2. Init => Driven
  BY DrivenInductive
<1>3. Driven /\ [Next]_vars => Driven'
  BY DrivenInductive
<1> QED BY <1>1, <1>2, <1>3, Invariant, PTL DEF Spec

\* What is left to do: for every job the steps of its task and its join, twice,
\* since a join takes the loop back to scheduling; the loop's own; the stages; and
\* a cancellation that may come.
In(S) == {j \in Jobs : task[j] \in S}
Ahead1 == In({"none"})
Ahead2 == In({"none", "spawned"})
Ahead3 == In({"none", "spawned", "announced"})
Ahead4 == In({"none", "spawned", "announced", "shell"})
Ahead5 == In(TaskState \ Ended)
TaskLeft == Cardinality(Ahead1) + Cardinality(Ahead2) + Cardinality(Ahead3)
              + Cardinality(Ahead4) + Cardinality(Ahead5)
Unjoined == (Jobs \ started) \cup running
LoopLeft == IF control = "schedule" THEN 3 ELSE IF control = "join" THEN 2
            ELSE IF control = "drain" THEN 1 ELSE 0
CancelLeft == IF cancel THEN 0 ELSE 1
Left == TaskLeft + 2 * Cardinality(Unjoined) + LoopLeft + (LastStage + 1 - stage)
          + CancelLeft
LeftShrinks == Left \in Nat /\ Left' \in Nat /\ Left' < Left

LEMMA FewerJobs ==
  ASSUME NEW A \in SUBSET Jobs, NEW B \in SUBSET A
  PROVE  /\ Cardinality(A) \in Nat /\ Cardinality(B) \in Nat
         /\ Cardinality(B) <= Cardinality(A)
         /\ A # B => Cardinality(B) < Cardinality(A)
<1>1. IsFiniteSet(A) /\ IsFiniteSet(B)
  BY FiniteJobs
<1> QED BY <1>1, FS_Subset, FS_CardinalityType

LeftTypeOK ==
  /\ TaskLeft \in Nat /\ Cardinality(Unjoined) \in Nat
  /\ LoopLeft \in 0..3 /\ LastStage + 1 - stage \in Nat /\ CancelLeft \in {0, 1}
  /\ Left \in Nat

LEMMA LeftTypes == TypeOK => LeftTypeOK
<1> SUFFICES ASSUME TypeOK PROVE LeftTypeOK
  OBVIOUS
<1>1. \A S : Cardinality(In(S)) \in Nat
  BY FiniteJobs DEF In
<1>2. TaskLeft \in Nat
  BY <1>1 DEF TaskLeft, Ahead1, Ahead2, Ahead3, Ahead4, Ahead5
<1>3. Cardinality(Unjoined) \in Nat
  BY FiniteJobs DEF Unjoined, TypeOK
<1>4. LoopLeft \in 0..3 /\ CancelLeft \in {0, 1}
  BY DEF LoopLeft, CancelLeft
<1>5. LastStage + 1 - stage \in Nat
  BY ScheduleAssumption DEF TypeOK
<1> QED BY <1>2, <1>3, <1>4, <1>5 DEF Left, LeftTypeOK

LEMMA LeftTypesNext == TypeOK' => LeftTypeOK'
BY LeftTypes, PTL

LEMMA TaskLeftShrinks ==
  ASSUME Ahead1' \subseteq Ahead1, Ahead2' \subseteq Ahead2, Ahead3' \subseteq Ahead3,
         Ahead4' \subseteq Ahead4, Ahead5' \subseteq Ahead5
  PROVE  /\ TaskLeft' <= TaskLeft
         /\ Ahead2' # Ahead2 \/ Ahead3' # Ahead3 \/ Ahead4' # Ahead4 \/ Ahead5' # Ahead5
              => TaskLeft' < TaskLeft
<1> DEFINE n1 == Cardinality(Ahead1)  m1 == Cardinality(Ahead1')
           n2 == Cardinality(Ahead2)  m2 == Cardinality(Ahead2')
           n3 == Cardinality(Ahead3)  m3 == Cardinality(Ahead3')
           n4 == Cardinality(Ahead4)  m4 == Cardinality(Ahead4')
           n5 == Cardinality(Ahead5)  m5 == Cardinality(Ahead5')
<1>1. /\ Ahead1 \in SUBSET Jobs /\ Ahead2 \in SUBSET Jobs /\ Ahead3 \in SUBSET Jobs
      /\ Ahead4 \in SUBSET Jobs /\ Ahead5 \in SUBSET Jobs
  BY DEF Ahead1, Ahead2, Ahead3, Ahead4, Ahead5, In
<1>2. /\ n1 \in Nat /\ m1 \in Nat /\ m1 <= n1
      /\ n2 \in Nat /\ m2 \in Nat /\ m2 <= n2 /\ (Ahead2' # Ahead2 => m2 < n2)
      /\ n3 \in Nat /\ m3 \in Nat /\ m3 <= n3 /\ (Ahead3' # Ahead3 => m3 < n3)
      /\ n4 \in Nat /\ m4 \in Nat /\ m4 <= n4 /\ (Ahead4' # Ahead4 => m4 < n4)
      /\ n5 \in Nat /\ m5 \in Nat /\ m5 <= n5 /\ (Ahead5' # Ahead5 => m5 < n5)
  BY <1>1, FewerJobs
<1>3. /\ TaskLeft = n1 + n2 + n3 + n4 + n5
      /\ TaskLeft' = m1 + m2 + m3 + m4 + m5
  BY DEF TaskLeft
<1> HIDE DEF n1, n2, n3, n4, n5, m1, m2, m3, m4, m5
<1> QED BY <1>2, <1>3

(* Tasks only go forward, and what is left of them with them.              *)
LEMMA TaskStepShrinks ==
  ASSUME TypeOK, TypeOK', NEW j \in Jobs, TaskStep(j)
  PROVE  TaskLeft' < TaskLeft
<1> USE DEF Ahead1, Ahead2, Ahead3, Ahead4, Ahead5
<1>1. PICK from \in TaskState, to \in TaskState :
        /\ Goes(j, from, to)
        /\ \/ from = "spawned" /\ to \in {"announced", "error"}
           \/ from = "announced" /\ to \in {"shell", "error"}
           \/ from = "shell" /\ to \in {"exit0", "exit1", "error"}
           \/ from \in {"exit0", "exit1"} /\ to \in Ended
  BY DEF TaskStep, Announce, StartShell, GiveUp, ShellExits, Killed, Report, TaskState,
         Ended
<1>2. /\ task[j] = from /\ task'[j] = to
      /\ \A k \in Jobs \ {j} : task'[k] = task[k]
  BY <1>1 DEF Goes, TypeOK
<1>3. /\ Ahead1' \subseteq Ahead1 /\ Ahead2' \subseteq Ahead2 /\ Ahead3' \subseteq Ahead3
      /\ Ahead4' \subseteq Ahead4 /\ Ahead5' \subseteq Ahead5
  BY <1>1, <1>2 DEF In, TaskState, Ended
<1>4. Ahead2' # Ahead2 \/ Ahead3' # Ahead3 \/ Ahead4' # Ahead4 \/ Ahead5' # Ahead5
  <2>1. CASE from = "spawned"
    BY <1>1, <1>2, <2>1 DEF In, Ended
  <2>2. CASE from = "announced"
    BY <1>1, <1>2, <2>2 DEF In, Ended
  <2>3. CASE from = "shell"
    BY <1>1, <1>2, <2>3 DEF In, Ended
  <2>4. CASE from \in {"exit0", "exit1"}
    BY <1>1, <1>2, <2>4 DEF In, Ended, TaskState
  <2> QED BY <1>1, <2>1, <2>2, <2>3, <2>4
<1> HIDE DEF Ahead1, Ahead2, Ahead3, Ahead4, Ahead5
<1> QED BY <1>3, <1>4, TaskLeftShrinks

(* A batch leaves as many jobs to be joined as there were.                 *)
LEMMA LaunchShrinks ==
  ASSUME IInv, NEW B \in SUBSET Jobs, Launch(B)
  PROVE  /\ TaskLeft' <= TaskLeft /\ Unjoined' = Unjoined
         /\ LoopLeft = 3 /\ LoopLeft' = 2
<1>1. /\ B \subseteq Jobs \ started
      /\ \A j \in B : task[j] = "none" /\ task'[j] = "spawned"
      /\ \A j \in Jobs \ B : task'[j] = task[j]
      /\ started' = started \cup B /\ running' = running \cup B
      /\ control = "schedule" /\ control' = "join"
  BY DEF Launch, IsBatch, Ready, StageJobs, IInv, Bookkeeping
<1>2. Unjoined' = Unjoined /\ LoopLeft = 3 /\ LoopLeft' = 2
  BY <1>1 DEF Unjoined, LoopLeft
<1>3. /\ Ahead1' \subseteq Ahead1 /\ Ahead2' \subseteq Ahead2 /\ Ahead3' \subseteq Ahead3
      /\ Ahead4' \subseteq Ahead4 /\ Ahead5' \subseteq Ahead5
  BY <1>1 DEF In, TaskState, Ended, Ahead1, Ahead2, Ahead3, Ahead4, Ahead5
<1> QED BY <1>2, <1>3, TaskLeftShrinks

LEMMA JoinedShrinks ==
  ASSUME IInv, NEW j \in running, running' = running \ {j}, UNCHANGED started
  PROVE  Cardinality(Unjoined') = Cardinality(Unjoined) - 1
<1>1. j \in Unjoined /\ Unjoined' = Unjoined \ {j}
  BY DEF IInv, TypeOK, Bookkeeping, Unjoined
<1>2. IsFiniteSet(Unjoined)
  BY FiniteJobs DEF IInv, TypeOK, Unjoined
<1> QED BY <1>1, <1>2, FS_RemoveElement

LEMMA SumShrinks ==
  ASSUME NEW a \in Nat, NEW b \in Nat, NEW c \in Nat, NEW d \in Nat, NEW e \in Nat,
         NEW a1 \in Nat, NEW b1 \in Nat, NEW c1 \in Nat, NEW d1 \in Nat, NEW e1 \in Nat,
         a1 <= a, 2 * b1 + c1 <= 2 * b + c, d1 <= d, e1 <= e,
         a1 < a \/ 2 * b1 + c1 < 2 * b + c \/ d1 < d \/ e1 < e
  PROVE  a1 + 2 * b1 + c1 + d1 + e1 < a + 2 * b + c + d + e
OBVIOUS

LEMMA JoinSum ==
  ASSUME NEW b \in Nat, NEW c \in Nat, NEW b1 \in Nat, NEW c1 \in Nat,
         b1 = b - 1, c = 2, c1 <= 3
  PROVE  2 * b1 + c1 < 2 * b + c /\ 2 * b1 + c1 <= 2 * b + c
OBVIOUS

(* Every step of the loop, of a task or of whoever cancels takes from what *)
(* is left: with RunNeverStuck, nothing but a step that is never taken can *)
(* keep run_jobs from returning.                                           *)
THEOREM RunTerminates == Spec => [][LeftShrinks]_vars
<1>1. ASSUME IInv, IInv', Next PROVE LeftShrinks
  <2> DEFINE n == Cardinality(Unjoined)  s == LastStage + 1 - stage
             new == Cardinality(Unjoined)'  t == (LastStage + 1 - stage)'
  <2>1. /\ TaskLeft \in Nat /\ n \in Nat /\ LoopLeft \in 0..3 /\ s \in Nat
        /\ CancelLeft \in {0, 1} /\ Left \in Nat
    BY <1>1, LeftTypes DEF IInv, LeftTypeOK
  <2>2. /\ TaskLeft' \in Nat /\ new \in Nat /\ LoopLeft' \in 0..3 /\ t \in Nat
        /\ CancelLeft' \in {0, 1} /\ Left' \in Nat
    BY <1>1, LeftTypesNext DEF IInv, LeftTypeOK
  <2>3. /\ Left = TaskLeft + 2 * n + LoopLeft + s + CancelLeft
        /\ Left' = TaskLeft' + 2 * new + LoopLeft' + t + CancelLeft'
    BY DEF Left
  <2>4. /\ UNCHANGED task => TaskLeft' = TaskLeft
        /\ UNCHANGED <<started, running>> => new = n
        /\ UNCHANGED control => LoopLeft' = LoopLeft
        /\ UNCHANGED stage => t = s
        /\ UNCHANGED cancel => CancelLeft' = CancelLeft
    <3>1. ASSUME UNCHANGED task PROVE TaskLeft' = TaskLeft
      BY <3>1 DEF TaskLeft, In, Ahead1, Ahead2, Ahead3, Ahead4, Ahead5
    <3>2. ASSUME UNCHANGED <<started, running>> PROVE new = n
      BY <3>2 DEF Unjoined
    <3>3. UNCHANGED control => LoopLeft' = LoopLeft
      BY DEF LoopLeft
    <3>4. UNCHANGED stage => t = s
      OBVIOUS
    <3>5. UNCHANGED cancel => CancelLeft' = CancelLeft
      BY DEF CancelLeft
    <3> QED BY <3>1, <3>2, <3>3, <3>4, <3>5
  <2> HIDE DEF n, s, new, t
  <2>5. ASSUME TaskLeft' <= TaskLeft, 2 * new + LoopLeft' <= 2 * n + LoopLeft,
               t <= s, CancelLeft' <= CancelLeft,
               \/ TaskLeft' < TaskLeft
               \/ 2 * new + LoopLeft' < 2 * n + LoopLeft
               \/ t < s
               \/ CancelLeft' < CancelLeft
        PROVE  LeftShrinks
    <3>1. /\ LoopLeft \in Nat /\ LoopLeft' \in Nat
          /\ CancelLeft \in Nat /\ CancelLeft' \in Nat
      BY <2>1, <2>2
    <3>2. TaskLeft' + 2 * new + LoopLeft' + t + CancelLeft'
            < TaskLeft + 2 * n + LoopLeft + s + CancelLeft
      BY <2>1, <2>2, <2>5, <3>1, SumShrinks
    <3> QED BY <2>1, <2>2, <2>3, <3>2 DEF LeftShrinks
  <2>6. CASE ObserveCancel
    <3>1. LoopLeft > 1 /\ LoopLeft' = 1
      BY <2>6 DEF ObserveCancel, Fail, LoopLeft
    <3> QED BY <2>1, <2>2, <2>5, <2>4, <2>6, <3>1 DEF ObserveCancel
  <2>7. ASSUME NEW B \in SUBSET Jobs, Launch(B) PROVE LeftShrinks
    <3>1. TaskLeft' <= TaskLeft /\ new = n /\ LoopLeft = 3 /\ LoopLeft' = 2
      BY <1>1, <2>7, LaunchShrinks DEF n, new
    <3>2. t = s /\ CancelLeft' = CancelLeft
      BY <2>4, <2>7 DEF Launch
    <3> QED BY <2>1, <2>2, <2>5, <3>1, <3>2
  <2>8. CASE StageOver
    <3>1. stage' = stage + 1 /\ UNCHANGED <<control, started, running, task, cancel>>
      BY <1>1, <2>8, Progress DEF StageOver
    <3>2. t = s - 1
      BY <1>1, <3>1, ScheduleAssumption DEF s, t, IInv, TypeOK
    <3> QED BY <2>1, <2>2, <2>5, <2>4, <3>1, <3>2
  <2>9. CASE AllStagesOver
    <3>1. LoopLeft = 3 /\ LoopLeft' = 0
      BY <2>9 DEF AllStagesOver, LoopLeft
    <3> QED BY <2>1, <2>2, <2>5, <2>4, <2>9, <3>1 DEF AllStagesOver
  <2>10. ASSUME NEW j \in Jobs, Join(j) PROVE LeftShrinks
    <3>1. new = n - 1
      BY <1>1, <2>10, JoinedShrinks DEF Join, n, new
    <3>2. LoopLeft = 2 /\ LoopLeft' <= 3
      BY <2>10 DEF Join, Fail, LoopLeft
    <3>3. TaskLeft' = TaskLeft /\ t = s /\ CancelLeft' = CancelLeft
      BY <2>4, <2>10 DEF Join
    <3>4. /\ 2 * new + LoopLeft' < 2 * n + LoopLeft
          /\ 2 * new + LoopLeft' <= 2 * n + LoopLeft
      <4>1. n \in Nat /\ new \in Nat /\ LoopLeft' \in Nat /\ LoopLeft \in Nat
        BY <2>1, <2>2
      <4> QED BY <3>1, <3>2, <4>1, JoinSum
    <3>5. TaskLeft' <= TaskLeft /\ t <= s /\ CancelLeft' <= CancelLeft
      <4>1. CancelLeft \in Nat
        BY <2>1
      <4> QED BY <2>1, <3>3, <4>1
    <3> QED BY <2>5, <3>4, <3>5
  <2>11. CASE Drain
    <3>1. TaskLeft' = TaskLeft /\ t = s /\ CancelLeft' = CancelLeft
      BY <2>4, <2>11 DEF Drain
    <3>2. CASE \E j \in running : running' = running \ {j} /\ UNCHANGED control
      <4>1. new = n - 1 /\ LoopLeft' = LoopLeft
        BY <1>1, <2>4, <2>11, <3>2, JoinedShrinks DEF Drain, n, new
      <4> QED BY <2>1, <2>2, <2>5, <3>1, <4>1
    <3>3. CASE control' = "returned" /\ UNCHANGED running
      <4>1. new = n /\ LoopLeft = 1 /\ LoopLeft' = 0
        BY <2>4, <2>11, <3>3 DEF Drain, LoopLeft
      <4> QED BY <2>1, <2>2, <2>5, <3>1, <4>1
    <3> QED BY <2>11, <3>2, <3>3 DEF Drain
  <2>12. ASSUME NEW j \in Jobs, TaskStep(j) PROVE LeftShrinks
    <3>1. TaskLeft' < TaskLeft
      BY <1>1, <2>12, TaskStepShrinks DEF IInv
    <3>2. UNCHANGED <<started, running, control, stage, cancel>>
      BY <2>12 DEF TaskStep, Announce, StartShell, GiveUp, ShellExits, Killed, Report,
                   Goes
    <3> QED BY <2>1, <2>2, <2>5, <2>4, <3>1, <3>2
  <2>13. CASE Cancel
    <3>1. CancelLeft = 1 /\ CancelLeft' = 0
      BY <2>13 DEF Cancel, CancelLeft
    <3> QED BY <2>1, <2>2, <2>5, <2>4, <2>13, <3>1 DEF Cancel
  <2> QED BY <1>1, <2>6, <2>7, <2>8, <2>9, <2>10, <2>11, <2>12, <2>13 DEF Next, Loop
<1>2. IInv /\ IInv' /\ [Next]_vars => [LeftShrinks]_vars
  BY <1>1
<1> QED BY <1>2, Invariant, PTL DEF Spec

-----------------------------------------------------------------------------
\* A job is attempted once: its task goes from the spawn to one end, which no later
\* step of the loop or of the task takes back.
JobsRunOnce ==
  \A j \in Jobs : /\ task[j] \in Ended => task'[j] = task[j]
                  /\ task[j] # "none" => task'[j] # "none"
                  /\ task[j] # "none" /\ task'[j] = "spawned" => task[j] = "spawned"

(* No job is started a second time and no job's result changes.            *)
THEOREM OneAttempt == Spec => [][JobsRunOnce]_vars
<1>1. ASSUME IInv, Next PROVE JobsRunOnce
  <2>1. ASSUME NEW B \in SUBSET Jobs, Launch(B) PROVE JobsRunOnce
    <3>1. \A j \in B : task[j] = "none" /\ task'[j] = "spawned"
      BY <1>1, <2>1 DEF Launch, IsBatch, Ready, StageJobs, IInv, Bookkeeping
    <3>2. \A j \in Jobs \ B : task'[j] = task[j]
      BY <2>1 DEF Launch
    <3> QED BY <3>1, <3>2 DEF JobsRunOnce, Ended
  <2>2. ASSUME NEW j \in Jobs, TaskStep(j) PROVE JobsRunOnce
    <3>1. PICK from \in TaskState, to \in TaskState :
            Goes(j, from, to) /\ from \notin Ended \cup {"none"} /\ to \notin {"none", "spawned"}
      BY <2>2 DEF TaskStep, Announce, StartShell, GiveUp, ShellExits, Killed, Report,
                  TaskState, Ended
    <3>2. /\ task[j] = from /\ task'[j] = to
          /\ \A k \in Jobs \ {j} : task'[k] = task[k]
      BY <1>1, <3>1 DEF Goes, IInv, TypeOK
    <3> QED BY <3>1, <3>2 DEF JobsRunOnce
  <2>3. CASE UNCHANGED task
    BY <2>3 DEF JobsRunOnce
  <2> QED BY <1>1, <2>1, <2>2, <2>3
          DEF Next, Loop, ObserveCancel, StageOver, AllStagesOver, Join, Drain, Cancel
<1>2. IInv /\ [Next]_vars => [JobsRunOnce]_vars
  BY <1>1
<1> QED BY <1>2, Invariant, PTL DEF Spec

\* Once the loop has decided to fail, by a job's failure or a cancellation, no job
\* is announced and no script is started any more.
NothingStartsLate ==
  result = "error" =>
    \A j \in Jobs : task'[j] \in {"announced", "shell"} => task'[j] = task[j]

(* A failure reaches the tasks that were spawned before it in time.        *)
THEOREM NoLateStart == Spec => [][NothingStartsLate]_vars
<1>1. ASSUME IInv, Driven, Next PROVE NothingStartsLate
  <2> SUFFICES ASSUME result = "error"
               PROVE  \A j \in Jobs : task'[j] \in {"announced", "shell"} => task'[j] = task[j]
    BY DEF NothingStartsLate
  <2>1. runningCancel /\ control \in {"drain", "returned"}
    BY <1>1 DEF IInv, TypeOK, Outcome, Looping, Driven
  <2>2. ASSUME NEW j \in Jobs, TaskStep(j)
        PROVE  \A k \in Jobs : task'[k] \in {"announced", "shell"} => task'[k] = task[k]
    <3>1. PICK from \in TaskState, to \in TaskState :
            Goes(j, from, to) /\ to \notin {"announced", "shell"}
      BY <2>1, <2>2 DEF TaskStep, Announce, StartShell, GiveUp, ShellExits, Killed, Report,
                        TaskState, Ended
    <3> QED BY <1>1, <3>1 DEF Goes, IInv, TypeOK
  <2> QED BY <1>1, <2>1, <2>2
          DEF Next, Loop, ObserveCancel, Launch, StageOver, AllStagesOver, Join, Drain, Cancel
<1>2. IInv /\ Driven /\ [Next]_vars => [NothingStartsLate]_vars
  BY <1>1
<1>3. Init => Driven
  BY DrivenInductive
<1>4. Driven /\ [Next]_vars => Driven'
  BY DrivenInductive
<1> QED BY <1>2, <1>3, <1>4, Invariant, PTL DEF Spec
=============================================================================
