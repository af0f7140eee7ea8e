------------------------------ MODULE MCIdentity ------------------------------
(* Two accounts, a group and a repository; two of each thing that can be in *)
(* flight.  The accounts are interchangeable, and so are the requests and   *)
(* the sign-in states: every property here is a safety property.            *)
EXTENDS Identity, TLC

Symmetry == Permutations(Users) \cup Permutations(Requests) \cup Permutations(States)
=============================================================================
