------------------------------ MODULE MCListen ------------------------------
(* Small instances of Listen. *)
EXTENDS Listen, TLC

Symmetry == Permutations(Client)
=============================================================================
