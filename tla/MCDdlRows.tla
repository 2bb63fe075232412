----------------------------- MODULE MCDdlRows -----------------------------
(* DdlRows on a small catalog: a schema besides main, with a table that has  *)
(* a column and a struct of one field.                                       *)
EXTENDS DdlRows

Orders ==
  [id |-> 2, schema |-> 1, name |-> "t",
   columns |-> {[id |-> 1, parent |-> Top, type |-> "int", name |-> "a"],
                [id |-> 2, parent |-> Top, type |-> "struct", name |-> "b"],
                [id |-> 3, parent |-> 2, type |-> "int", name |-> "a"]}]

SmallCatalog ==
  [schemas |-> {[id |-> 0, name |-> "main"], [id |-> 1, name |-> "s"]},
   tables |-> {Orders},
   views |-> {[id |-> 3, schema |-> 0, name |-> "t"]}]
=============================================================================
