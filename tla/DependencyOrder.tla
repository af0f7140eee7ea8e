-------------------------- MODULE DependencyOrder --------------------------
(***************************************************************************)
(* The part of configuration validation that decides whether dependencies  *)
(* can be followed (src/src/ci/config.rs): PipelineConfig::validate orders *)
(* the jobs of a pipeline, PipelineFile::validate does the same with the   *)
(* pipelines of a file, all of one rank, and discards the order.  The loop *)
(* is modelled step by step, so that what it maintains can be stated.      *)
(***************************************************************************)
EXTENDS Naturals, FiniteSets, Sequences

CONSTANTS Nodes,    \* positions of the jobs, or pipelines, in the file
          Unknown,  \* a name that nothing in the file has
          Inputs    \* the files to validate

\* rank is the position of a job's stage; repeats holds the nodes that list a
\* dependency twice.
InputType == [rank : [Nodes -> Nat], needs : [Nodes -> SUBSET (Nodes \cup {Unknown})],
              repeats : SUBSET Nodes]

ASSUME OrderAssumption ==
  /\ Nodes \subseteq Nat /\ IsFiniteSet(Nodes)
  /\ Unknown \notin Nodes
  /\ Inputs \subseteq InputType

VARIABLES input,     \* the file
          phase,     \* what validate is doing
          indegree,  \* indegrees
          order,     \* order
          at,        \* node of cycle_member
          visited    \* visited of cycle_member

orderVars == <<input, phase, indegree, order, at, visited>>

Phases == {"check", "order", "walk", "accepted", "malformed", "cyclic"}

Emitted == {order[i] : i \in DOMAIN order}
Blocked == Nodes \ Emitted

OrderTypeOK ==
  /\ input \in Inputs
  /\ phase \in Phases
  /\ indegree \in [Nodes -> Nat]
  /\ order \in Seq(Nodes)
  /\ at \in Nodes \cup {Unknown}
  /\ visited \in SUBSET Nodes

OrderInit ==
  /\ input \in Inputs
  /\ phase = "check"
  /\ indegree = [n \in Nodes |-> 0]
  /\ order = <<>>
  /\ at = Unknown
  /\ visited = {}

-----------------------------------------------------------------------------
\* Mutant: a dependency on a later stage is accepted.
WellFormedAnyStage(n) ==
  /\ n \notin input.needs[n] /\ n \notin input.repeats
  /\ Unknown \notin input.needs[n]

\* What is checked of the needs of one node; the counts only matter if all are.
WellFormed(n) ==
  /\ n \notin input.needs[n] /\ n \notin input.repeats
  /\ Unknown \notin input.needs[n]
  /\ \A k \in input.needs[n] \ {Unknown} : input.rank[k] <= input.rank[n]

Check ==
  /\ phase = "check"
  /\ IF \A n \in Nodes : WellFormed(n)
       THEN /\ phase' = "order"
            /\ indegree' = [n \in Nodes |-> Cardinality(input.needs[n])]
       ELSE phase' = "malformed" /\ UNCHANGED indegree
  /\ UNCHANGED <<input, order, at, visited>>

\* min_by_key(stage, index)
Before(m, n) == \/ input.rank[m] < input.rank[n]
                \/ input.rank[m] = input.rank[n] /\ m <= n

Free == {n \in Blocked : indegree[n] = 0}

Emit(n) ==
  /\ phase = "order"
  /\ n \in Free /\ \A m \in Free : Before(n, m)
  /\ order' = Append(order, n)
  /\ indegree' = [m \in Nodes |->
                    IF n \in input.needs[m] THEN indegree[m] - 1 ELSE indegree[m]]
  /\ UNCHANGED <<input, phase, at, visited>>

Accept ==
  /\ phase = "order" /\ Blocked = {}
  /\ phase' = "accepted"
  /\ UNCHANGED <<input, indegree, order, at, visited>>

\* No node is free: look for one on a cycle, from the first that is blocked.
Stuck ==
  /\ phase = "order" /\ Blocked # {} /\ Free = {}
  /\ phase' = "walk"
  /\ at' \in Blocked /\ \A n \in Blocked : at' <= n
  /\ UNCHANGED <<input, indegree, order, visited>>

\* Mutant: the walk reports the second node it comes to.
WalkOne ==
  /\ phase = "walk"
  /\ IF visited # {}
       THEN phase' = "cyclic" /\ UNCHANGED <<at, visited>>
       ELSE /\ visited' = visited \cup {at}
            /\ at' \in input.needs[at] \cap Blocked
            /\ UNCHANGED phase
  /\ UNCHANGED <<input, indegree, order>>

\* The walk goes to the first blocked prerequisite listed, any one here.
Walk ==
  /\ phase = "walk"
  /\ IF at \in visited
       THEN phase' = "cyclic" /\ UNCHANGED <<at, visited>>
       ELSE /\ visited' = visited \cup {at}
            /\ at' \in input.needs[at] \cap Blocked
            /\ UNCHANGED phase
  /\ UNCHANGED <<input, indegree, order>>

OrderNext == Check \/ (\E n \in Nodes : Emit(n)) \/ Accept \/ Stuck \/ Walk

OrderSpec == OrderInit /\ [][OrderNext]_orderVars

-----------------------------------------------------------------------------
(* Properties.                                                             *)

\* An accepted order has every node once, after everything it needs and after
\* every node of an earlier stage: the order run_jobs and create_jobs rely on.
AcceptedOrderIsSound ==
  phase = "accepted" =>
    /\ Emitted = Nodes
    /\ \A i, j \in DOMAIN order :
         /\ order[i] = order[j] => i = j
         /\ order[i] \in input.needs[order[j]] => i < j
         /\ input.rank[order[i]] < input.rank[order[j]] => i < j

\* n is on a cycle: it is in every set that holds its needs and is closed under
\* needs, so following prerequisites leads back to it.
OnCycle(n) ==
  \A S \in SUBSET Nodes :
    /\ input.needs[n] \subseteq S
    /\ \A k \in S : input.needs[k] \subseteq S
    => n \in S

\* "the repeated node is in the cycle, not just downstream of it": the node an
\* error names is on a cycle, so a file without one is never refused for it.
ReportedIsOnCycle == phase = "cyclic" => OnCycle(at)
=============================================================================
