-------------------------- MODULE MCWorkerProtocol --------------------------
(* One runner identity and two pipelines that do not depend on each other: *)
(* runs of the same frozen pipeline, of which one may replay the other.    *)
EXTENDS WorkerProtocol, TLC

MCCatalogs ==
  {<<[name |-> "build", scope |-> "run", needs |-> {}, os |-> AnySystem,
      frozen |-> TRUE, jobs |-> Jobs],
     [name |-> "build", scope |-> "rerun", needs |-> {}, os |-> AnySystem,
      frozen |-> TRUE, jobs |-> Jobs]>>}
=============================================================================
