--------------------------- MODULE MCJobScheduler ---------------------------
(* Four jobs in two or three stages, with needs inside a stage and across  *)
(* stages, and an empty stage, run one, two or three at a time.            *)
EXTENDS JobScheduler, TLC

Shape(stages, needs, limit) ==
  [stage |-> stages, needs |-> needs, parallel |-> limit]

MCConfigs ==
  {Shape(<<1, 1, 1, 3>>, <<{}, {1}, {}, {2}>>, n) : n \in {1, 2}}
    \cup {Shape(<<1, 1, 2, 2>>, <<{}, {}, {1}, {3}>>, 2),
          Shape(<<1, 1, 1, 1>>, <<{}, {}, {1}, {1}>>, 2),
          Shape(<<1, 1, 1, 1>>, <<{}, {1}, {1}, {2, 3}>>, 3)}
=============================================================================
