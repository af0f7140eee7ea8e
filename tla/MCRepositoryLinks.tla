-------------------------- MODULE MCRepositoryLinks --------------------------
(* Two operations that link two repositories in both directions, two that  *)
(* link to the same source, one path inside the other, and two attempts of *)
(* one operation.                                                          *)
EXTENDS RepositoryLinks, TLC

Ask(root, source, path, follow, create) ==
  [root |-> root, source |-> source, path |-> path, auto |-> follow, create |-> create]

MCAttempts == {<<"o1", 1>>, <<"o2", 1>>, <<"o3", 1>>, <<"o3", 2>>}
MCBelow == {<<"q", "p">>}
MCPlans ==
  {"o1" :> Ask("a", "b", "p", TRUE, TRUE) @@ "o2" :> Ask("b", "a", "p", TRUE, TRUE)
     @@ "o3" :> None,
   "o1" :> Ask("a", "b", "p", FALSE, TRUE) @@ "o2" :> Ask("a", "b", "q", TRUE, FALSE)
     @@ "o3" :> None,
   "o1" :> None @@ "o2" :> None @@ "o3" :> Ask("a", "b", "p", FALSE, TRUE)}
=============================================================================
