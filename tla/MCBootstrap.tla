---------------------------- MODULE MCBootstrap ----------------------------
(* Bootstrap on small instances: two threads of one process, and another     *)
(* process.                                                                  *)
EXTENDS Bootstrap, TLC

CONSTANTS c1, c2, c3, p1, p2

Threads == {c1, c2, c3}
Home == c1 :> p1 @@ c2 :> p1 @@ c3 :> p2
Symmetries == Permutations({c1, c2})
=============================================================================
