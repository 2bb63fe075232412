------------------------------ MODULE MCLease ------------------------------
(* Small instances of Lease. *)
EXTENDS Lease, TLC

\* Clients and tokens are interchangeable in every safety property.
Symmetry == Permutations(Client) \union Permutations(Token)

\* Symmetry is unsound for liveness.  The temporal runs cut the number of
\* states another way: which unused token uuid() returns makes no difference,
\* so it returns the first.  Six tokens are enough for one always to be
\* unused: the row, two caches, and two rows seen or targets hold five.
FirstFreshToken ==
  \A c \in Client :
    target'[c] \notin {target[c], NoToken, owner, cached[c]}
      => target'[c] = CHOOSE t \in Token : Fresh(t)
=============================================================================
