-------------------------- MODULE MCPipelineQueue --------------------------
(* The queue on a frozen run group of dependent pipelines, on one that is  *)
(* started again next to a file pipeline, and on a file pipeline whose     *)
(* need is submitted twice.  The runs without jobs are those that never    *)
(* get as far as reporting them.                                           *)
EXTENDS PipelineQueue, TLC

Def(name, scope, needs, os, frozen, jobs) ==
  [name |-> name, scope |-> scope, needs |-> needs, os |-> os,
   frozen |-> frozen, jobs |-> jobs]

MCCatalogs ==
  {<<Def("build", "group", {}, AnySystem, TRUE, Jobs),
     Def("test", "group", {"build"}, "linux", TRUE, Jobs),
     Def("deploy", "group", {"test"}, AnySystem, TRUE, Jobs)>>,
   <<Def("build", "group", {}, AnySystem, TRUE, {}),
     Def("build", "rerun", {}, AnySystem, TRUE, {}),
     Def("lint", "push", {}, "linux", FALSE, {})>>,
   <<Def("build", "push", {}, AnySystem, FALSE, Jobs),
     Def("test", "push", {"build"}, "linux", FALSE, Jobs),
     Def("build", "push", {}, AnySystem, FALSE, {})>>}
=============================================================================
