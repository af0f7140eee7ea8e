---------------------------- MODULE MCRepositoryCi ----------------------------
(* Two revisions with a configuration file and a third whose file cannot   *)
(* be parsed.  The second adds the file that one pipeline watches.         *)
EXTENDS RepositoryCi, TLC

Valid(names) == [state |-> "valid", names |-> names]
Bad == [state |-> "bad", names |-> {}]

MCFile == "r1" :> Valid({"build", "test"}) @@ "r2" :> Valid({"build"})
          @@ "r3" :> Bad

MCContent == "r1" :> ("build" :> "a" @@ "test" :> "absent")
             @@ "r2" :> ("build" :> "b" @@ "test" :> "b")
             @@ "r3" :> ("build" :> "b" @@ "test" :> "absent")

Of(codes, f) == [c \in codes |-> f[c]]
MCFileOfAll == Of(Codes, MCFile)
MCContentOfAll == Of(Codes, MCContent)
=============================================================================
