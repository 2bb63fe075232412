------------------------------ MODULE MCCursor ------------------------------
(* Small instances of Cursor. *)
EXTENDS Cursor, TLC

Symmetry == Permutations(Client)

\* The windows that clients were given influence nothing the code does: a
\* run whose properties do not speak of them may identify states by the rest.
WithoutWindows == <<head, oldest, hits, shape, tables, owner, cursor, pinned, pc,
                    locals, safe>>

\* What a table's snapshots hold is of no interest to a DDL consumer.
WithoutTables == <<head, oldest, tables, owner, cursor, pc, locals, win>>
=============================================================================
