---------------------------- MODULE MCLifecycle ----------------------------
(* The life of consumers on small instances. *)
EXTENDS Lifecycle, TLC

Symmetries == Permutations(Client) \union Permutations(Name)
=============================================================================
