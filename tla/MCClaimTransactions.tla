------------------------ MODULE MCClaimTransactions ------------------------
(* Two pipelines that any runner can execute, and claims of one runner     *)
(* that race with each other, with maintenance and with its removal.       *)
EXTENDS ClaimTransactions, TLC

MCCatalogs ==
  {[p \in Pipelines |->
      [name |-> "build", scope |-> "push", needs |-> {}, os |-> AnySystem,
       frozen |-> FALSE, jobs |-> {}]]}
=============================================================================
