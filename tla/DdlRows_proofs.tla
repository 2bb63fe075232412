--------------------------- MODULE DdlRows_proofs ---------------------------
(***************************************************************************)
(* Proofs about DdlRows, for any catalog to begin with and transactions of *)
(* any length: the versioned rows still say what the catalog was at each   *)
(* snapshot, the lookups find it, ticks and statuses follow from it, and   *)
(* the rows of a snapshot, in their order, lead from one to the next, the  *)
(* timeline of a table leads from its columns then to its columns now, and *)
(* a follower rebuilds its part of the catalog from the rows it is shown.  *)
(***************************************************************************)
EXTENDS DdlRows, FiniteSetTheorems, SequenceTheorems, WellFoundedInduction, TLAPS

-----------------------------------------------------------------------------
(* Natural numbers *)

\* Induction: what fails for some natural number fails for a first one.
LEMMA LeastElement ==
  ASSUME NEW T \in SUBSET Nat, T # {}
  PROVE  \E x \in T : \A y \in T : x <= y
  <1> DEFINE Less == OpToRel(<, Nat)
  <1>1. IsWellFoundedOn(Less, Nat)
    BY NatLessThanWellFounded, Zenon
  <1>2. \E x \in T : \A y \in T : ~(<<y, x>> \in Less)
    <2> HIDE DEF Less
    <2> QED
      BY <1>1, WFMin, Zenon
  <1>3. \A x, y \in Nat : x < y => <<x, y>> \in Less
    BY DEF OpToRel
  <1> HIDE DEF Less
  <1>4. \E x \in T : \A y \in T : ~(y < x)
    BY <1>2, <1>3, Zenon
  <1> QED
    BY <1>4

\* A set of natural numbers that has an upper bound has a maximum.
LEMMA MaxIs ==
  ASSUME NEW S \in SUBSET Nat, S # {}, NEW n \in Nat, \A y \in S : y <= n
  PROVE  Max(S) \in S /\ \A y \in S : y <= Max(S)
  <1> DEFINE T == {m \in Nat : \A y \in S : y <= m}
  <1>0. T # {}
    <2>1. n \in T
      OBVIOUS
    <2> QED
      BY <2>1
  <1>1. PICK m \in T : \A k \in T : m <= k
    <2> HIDE DEF T
    <2>1. T \in SUBSET Nat
      BY DEF T
    <2> QED
      BY <1>0, <2>1, LeastElement, Zenon
  <1>2. m \in S
    <2> SUFFICES ASSUME m \notin S PROVE FALSE
      OBVIOUS
    <2>1. \A y \in S : y <= m - 1
      BY <1>1
    <2>2. PICK y \in S : TRUE
      OBVIOUS
    <2>3. m - 1 \in Nat
      BY <2>1, <2>2, <1>1
    <2> QED
      BY <1>1, <2>1, <2>3
  <1>3. \E x \in S : \A y \in S : x >= y
    BY <1>1, <1>2
  <1> QED
    BY <1>3 DEF Max

-----------------------------------------------------------------------------
(* The recursion of After *)

\* One more operation.
More(S) == UNION {Operations(C) : C \in S}

\* g is After, as far as m operations.
UpTo(g, m) == g = [n \in 0 .. m |-> IF n = 0 THEN {history[now]} ELSE More(g[n - 1])]

LEMMA UpToExists == \A m \in Nat : \E g : UpTo(g, m)
  <1> DEFINE T == {m \in Nat : ~ \E g : UpTo(g, m)}
  <1>1. SUFFICES ASSUME T # {} PROVE FALSE
    OBVIOUS
  <1>2. PICK m \in T : \A k \in T : m <= k
    <2> HIDE DEF T
    <2>1. T \in SUBSET Nat
      BY DEF T
    <2> QED
      BY <1>1, <2>1, LeastElement, Zenon
  <1>3. CASE m = 0
    <2>1. UpTo([n \in 0 .. 0 |-> {history[now]}], 0)
      BY DEF UpTo
    <2> QED
      BY <1>2, <1>3, <2>1
  <1>4. CASE m # 0
    <2>1. m - 1 \in Nat /\ m - 1 \notin T
      BY <1>2, <1>4
    <2>2. PICK g : UpTo(g, m - 1)
      BY <2>1
    <2> DEFINE h == [n \in 0 .. m |-> IF n < m THEN g[n] ELSE More(g[m - 1])]
    <2>3. \A n \in 0 .. m - 1 : g[n] = IF n = 0 THEN {history[now]} ELSE More(g[n - 1])
      BY <2>2, <2>1 DEF UpTo
    <2>4. \A n \in 0 .. m : h[n] = IF n = 0 THEN {history[now]} ELSE More(h[n - 1])
      <3> SUFFICES ASSUME NEW n \in 0 .. m
                   PROVE  h[n] = IF n = 0 THEN {history[now]} ELSE More(h[n - 1])
        OBVIOUS
      <3>1. CASE n = m
        <4>1. h[n] = More(g[m - 1])
          BY <3>1, <1>2
        <4>2. h[n - 1] = g[m - 1]
          BY <3>1, <1>4, <2>1
        <4> QED
          BY <4>1, <4>2, <3>1, <1>4
      <3>2. CASE n < m
        <4>1. h[n] = g[n] /\ n \in 0 .. m - 1
          BY <3>2, <1>2
        <4>2. n # 0 => h[n - 1] = g[n - 1]
          BY <3>2, <1>2
        <4> QED
          BY <4>1, <4>2, <2>3
      <3> QED
        BY <3>1, <3>2, <1>2
    <2>5. UpTo(h, m)
      BY <2>4 DEF UpTo
    <2> QED
      BY <1>2, <2>5
  <1> QED
    BY <1>3, <1>4

LEMMA AfterIs ==
  /\ After[0] = {history[now]}
  /\ \A n \in 1 .. MaxOps : After[n] = More(After[n - 1])
  <1>1. MaxOps \in Nat
    BY CatalogAssumption
  <1>2. UpTo(After, MaxOps)
    <2>1. \E g : UpTo(g, MaxOps)
      BY <1>1, UpToExists
    <2>2. After = CHOOSE g : UpTo(g, MaxOps)
      BY Zenon DEF After, UpTo, More
    <2> QED
      BY <2>1, <2>2
  <1>3. \A n \in 0 .. MaxOps : After[n] = IF n = 0 THEN {history[now]} ELSE More(After[n - 1])
    BY <1>2 DEF UpTo
  <1>4. After[0] = {history[now]}
    BY <1>1, <1>3
  <1>5. ASSUME NEW n \in 1 .. MaxOps PROVE After[n] = More(After[n - 1])
    BY <1>1, <1>3
  <1> QED
    BY <1>4, <1>5

-----------------------------------------------------------------------------
(* What a transaction can make of a catalog *)

\* The ids in the rows, and those in a catalog.
Used == {r.object.id : r \in schemaRows \union tableRows \union viewRows}
IdsOf(C) == {x.id : x \in C.schemas \union C.tables \union C.views}

Bounded(S) == S \subseteq Nat /\ \E n \in Nat : \A i \in S : i <= n

\* Everything in C either was in A, where a table may have had another name
\* and other columns, or has an id no row has ever had.
Grown(A, C) ==
  /\ Sound(C) /\ Bounded(IdsOf(C))
  /\ \A y \in C.schemas : y \in A.schemas \/ y.id \notin Used
  /\ \A y \in C.tables : \/ \E x \in A.tables : x.id = y.id /\ x.schema = y.schema
                         \/ y.id \notin Used
  /\ \A y \in C.views : y \in A.views \/ y.id \notin Used

LEMMA FreshIs ==
  ASSUME NEW C, Sound(C), Bounded(IdsOf(C)), Bounded(Used)
  PROVE  /\ Fresh(C) \in Nat
         /\ \A i \in IdsOf(C) \union Used : i < Fresh(C)
  <1> DEFINE S == IdsOf(C) \union Used
  <1>1. S \in SUBSET Nat
    BY DEF Bounded
  <1>2. S # {}
    BY DEF Sound, IdsOf
  <1>3. PICK n \in Nat : \A i \in S : i <= n
    <2>1. PICK a \in Nat : \A i \in IdsOf(C) : i <= a
      BY DEF Bounded
    <2>2. PICK b \in Nat : \A i \in Used : i <= b
      BY DEF Bounded
    <2>3. \A i \in S : i <= (IF a <= b THEN b ELSE a)
      BY <1>1, <2>1, <2>2
    <2> QED
      BY <2>3
  <1>4. Max(S) \in S /\ \A i \in S : i <= Max(S)
    <2> HIDE DEF S
    <2> QED
      BY <1>1, <1>2, <1>3, MaxIs
  <1>5. Fresh(C) = 1 + Max(S)
    <2>1. S = {r.object.id : r \in schemaRows \union tableRows \union viewRows}
                \union {x.id : x \in C.schemas \union C.tables \union C.views}
      BY DEF IdsOf, Used
    <2> QED
      BY <2>1, Zenon DEF Fresh
  <1> QED
    BY <1>1, <1>4, <1>5

\* A part of a catalog, with the schemas it needs.
LEMMA Shrunk ==
  ASSUME NEW A, NEW C, Grown(A, C),
         NEW S \in SUBSET C.schemas, NEW T \in SUBSET C.tables, NEW V \in SUBSET C.views,
         \A x \in T \union V : \E y \in S : y.id = x.schema,
         \E x \in S : x.name = "main"
  PROVE  Grown(A, [schemas |-> S, tables |-> T, views |-> V])
  <1> DEFINE B == [schemas |-> S, tables |-> T, views |-> V]
  <1>1. B.schemas = S /\ B.tables = T /\ B.views = V
    OBVIOUS
  <1>2. Sound(B)
    BY DEF Sound, Grown
  <1>3. IdsOf(B) \subseteq IdsOf(C)
    BY DEF IdsOf
  <1>4. Bounded(IdsOf(B))
    BY <1>3 DEF Bounded, Grown
  <1> QED
    BY <1>1, <1>2, <1>4 DEF Grown

LEMMA SchemaAdded ==
  ASSUME NEW A, NEW C, Grown(A, C), Bounded(Used), NEW B \in CreateSchema(C)
  PROVE  Grown(A, B)
  <1>0. Sound(C) /\ Bounded(IdsOf(C))
    BY DEF Grown
  <1> DEFINE i == Fresh(C)
  <1>1. i \in Nat /\ \A j \in IdsOf(C) \union Used : j < i
    BY <1>0, FreshIs
  <1>2. PICK n \in SchemaNames \ {x.name : x \in C.schemas} :
           B = [C EXCEPT !.schemas = @ \union {[id |-> i, name |-> n]}]
    BY DEF CreateSchema
  <1> HIDE DEF i
  <1> DEFINE x == [id |-> i, name |-> n]
  <1>3. B = [schemas |-> C.schemas \union {x}, tables |-> C.tables, views |-> C.views]
    <2>1. C = [schemas |-> C.schemas, tables |-> C.tables, views |-> C.views]
      BY <1>0 DEF Sound
    <2> QED
      BY <1>2, <2>1
  <1>4. B.schemas = C.schemas \union {x} /\ B.tables = C.tables /\ B.views = C.views
    BY <1>3
  <1>5. x.id = i /\ x.name = n /\ x.name \in AllSchemaNames /\ i \notin Used
    BY <1>1, <1>2 DEF AllSchemaNames, Bounded
  <1>6. \A y \in C.schemas : y.id # i /\ y.name # n
    BY <1>0, <1>1, <1>2 DEF IdsOf, Bounded
  <1> HIDE DEF x
  <1>7. Sound(B)
    <2>1. x = [id |-> x.id, name |-> x.name]
      BY <1>5 DEF x
    <2>2. \A y, z \in B.schemas : y.id = z.id \/ y.name = z.name => y = z
      BY <1>0, <1>4, <1>5, <1>6 DEF Sound
    <2>3. \A y \in B.schemas : /\ y = [id |-> y.id, name |-> y.name]
                               /\ y.id \in Nat /\ y.name \in AllSchemaNames
      BY <1>0, <1>1, <1>4, <1>5, <2>1 DEF Sound
    <2>4. B = [schemas |-> B.schemas, tables |-> B.tables, views |-> B.views]
      BY <1>3
    <2>5. /\ \A y \in B.tables \union B.views : \E z \in B.schemas : z.id = y.schema
          /\ \E y \in B.schemas : y.name = "main"
      BY <1>0, <1>4 DEF Sound
    <2> QED
      BY <1>0, <1>4, <2>2, <2>3, <2>4, <2>5 DEF Sound
  <1>8. Bounded(IdsOf(B))
    <2>1. IdsOf(B) = IdsOf(C) \union {i}
      BY <1>4, <1>5 DEF IdsOf
    <2> QED
      BY <1>0, <1>1, <2>1 DEF Bounded
  <1> QED
    BY <1>1, <1>4, <1>5, <1>7, <1>8 DEF Grown

LEMMA TableAdded ==
  ASSUME NEW A, NEW C, Grown(A, C), Bounded(Used), NEW B \in CreateTable(C)
  PROVE  Grown(A, B)
  <1>0. Sound(C) /\ Bounded(IdsOf(C))
    BY DEF Grown
  <1> DEFINE i == Fresh(C)
             cs == {[id |-> 1, parent |-> Top, type |-> "struct",
                     name |-> CHOOSE c \in ColumnNames : TRUE]}
  <1>1. i \in Nat /\ \A j \in IdsOf(C) \union Used : j < i
    BY <1>0, FreshIs
  <1>a. PICK s \in C.schemas :
           B \in {[C EXCEPT !.tables = @ \union
                     {[id |-> i, schema |-> s.id, name |-> n, columns |-> cs]}] : n \in Free(C, s.id)}
    BY Zenon DEF CreateTable
  <1>2. PICK n \in Free(C, s.id) :
           B = [C EXCEPT !.tables = @ \union
                  {[id |-> i, schema |-> s.id, name |-> n, columns |-> cs]}]
    BY <1>a
  <1> HIDE DEF i, cs
  <1> DEFINE x == [id |-> i, schema |-> s.id, name |-> n, columns |-> cs]
  <1>3. B = [schemas |-> C.schemas, tables |-> C.tables \union {x}, views |-> C.views]
    <2>1. C = [schemas |-> C.schemas, tables |-> C.tables, views |-> C.views]
      BY <1>0 DEF Sound
    <2> QED
      BY <1>2, <2>1
  <1>4. B.schemas = C.schemas /\ B.tables = C.tables \union {x} /\ B.views = C.views
    BY <1>3
  <1>5. x.id = i /\ x.schema = s.id /\ x.name = n /\ n \in Names /\ i \notin Used
    BY <1>1, <1>2 DEF Free, Bounded
  <1>6. \A y \in C.tables : y.id # i /\ ~(y.schema = s.id /\ y.name = n)
    BY <1>0, <1>1, <1>2 DEF IdsOf, Bounded, Free
  <1>7. x = [id |-> x.id, schema |-> x.schema, name |-> x.name, columns |-> x.columns]
    BY DEF x
  <1> HIDE DEF x
  <1>8. Sound(B)
    <2>2. \A y, z \in B.tables :
            y.id = z.id \/ (y.schema = z.schema /\ y.name = z.name) => y = z
      BY <1>0, <1>4, <1>5, <1>6 DEF Sound
    <2>3. \A y \in B.tables :
            /\ y = [id |-> y.id, schema |-> y.schema, name |-> y.name, columns |-> y.columns]
            /\ y.id \in Nat /\ y.name \in Names
      BY <1>0, <1>1, <1>4, <1>5, <1>7 DEF Sound
    <2>4. B = [schemas |-> B.schemas, tables |-> B.tables, views |-> B.views]
      BY <1>3
    <2>5. \A y \in B.tables \union B.views : \E z \in B.schemas : z.id = y.schema
      BY <1>0, <1>2, <1>4, <1>5 DEF Sound
    <2> QED
      BY <1>0, <1>4, <2>2, <2>3, <2>4, <2>5 DEF Sound
  <1>9. Bounded(IdsOf(B))
    <2>1. IdsOf(B) = IdsOf(C) \union {i}
      BY <1>4, <1>5 DEF IdsOf
    <2> QED
      BY <1>0, <1>1, <2>1 DEF Bounded
  <1> QED
    BY <1>1, <1>4, <1>5, <1>8, <1>9 DEF Grown

LEMMA ViewAdded ==
  ASSUME NEW A, NEW C, Grown(A, C), Bounded(Used), NEW B \in CreateView(C)
  PROVE  Grown(A, B)
  <1>0. Sound(C) /\ Bounded(IdsOf(C))
    BY DEF Grown
  <1> DEFINE i == Fresh(C)
  <1>1. i \in Nat /\ \A j \in IdsOf(C) \union Used : j < i
    BY <1>0, FreshIs
  <1>a. PICK s \in C.schemas :
           B \in {[C EXCEPT !.views = @ \union
                     {[id |-> i, schema |-> s.id, name |-> n]}] : n \in Free(C, s.id)}
    BY Zenon DEF CreateView
  <1>2. PICK n \in Free(C, s.id) :
           B = [C EXCEPT !.views = @ \union
                  {[id |-> i, schema |-> s.id, name |-> n]}]
    BY <1>a
  <1> HIDE DEF i
  <1> DEFINE x == [id |-> i, schema |-> s.id, name |-> n]
  <1>3. B = [schemas |-> C.schemas, tables |-> C.tables, views |-> C.views \union {x}]
    <2>1. C = [schemas |-> C.schemas, tables |-> C.tables, views |-> C.views]
      BY <1>0 DEF Sound
    <2> QED
      BY <1>2, <2>1
  <1>4. B.schemas = C.schemas /\ B.tables = C.tables /\ B.views = C.views \union {x}
    BY <1>3
  <1>5. x.id = i /\ x.schema = s.id /\ x.name = n /\ n \in Names /\ i \notin Used
    BY <1>1, <1>2 DEF Free, Bounded
  <1>6. \A y \in C.views : y.id # i /\ ~(y.schema = s.id /\ y.name = n)
    BY <1>0, <1>1, <1>2 DEF IdsOf, Bounded, Free
  <1>7. x = [id |-> x.id, schema |-> x.schema, name |-> x.name]
    BY DEF x
  <1> HIDE DEF x
  <1>8. Sound(B)
    <2>2. \A y, z \in B.views :
            y.id = z.id \/ (y.schema = z.schema /\ y.name = z.name) => y = z
      BY <1>0, <1>4, <1>5, <1>6 DEF Sound
    <2>3. \A y \in B.views :
            /\ y = [id |-> y.id, schema |-> y.schema, name |-> y.name]
            /\ y.id \in Nat /\ y.name \in Names
      BY <1>0, <1>1, <1>4, <1>5, <1>7 DEF Sound
    <2>4. B = [schemas |-> B.schemas, tables |-> B.tables, views |-> B.views]
      BY <1>3
    <2>5. \A y \in B.tables \union B.views : \E z \in B.schemas : z.id = y.schema
      BY <1>0, <1>2, <1>4, <1>5 DEF Sound
    <2> QED
      BY <1>0, <1>4, <2>2, <2>3, <2>4, <2>5 DEF Sound
  <1>9. Bounded(IdsOf(B))
    <2>1. IdsOf(B) = IdsOf(C) \union {i}
      BY <1>4, <1>5 DEF IdsOf
    <2> QED
      BY <1>0, <1>1, <2>1 DEF Bounded
  <1> QED
    BY <1>1, <1>4, <1>5, <1>8, <1>9 DEF Grown

\* A table with another name or other columns.
LEMMA TableReplaced ==
  ASSUME NEW A, NEW C, Grown(A, C), NEW x \in C.tables, NEW y,
         y.id = x.id, y.schema = x.schema,
         y = [id |-> y.id, schema |-> y.schema, name |-> y.name, columns |-> y.columns],
         y.name = x.name \/ y.name \in Free(C, x.schema)
  PROVE  Grown(A, WithTable(C, x, y))
  <1> DEFINE B == WithTable(C, x, y)
  <1>0. Sound(C) /\ Bounded(IdsOf(C))
    BY DEF Grown
  <1>1. B = [schemas |-> C.schemas, tables |-> (C.tables \ {x}) \union {y}, views |-> C.views]
    <2>1. C = [schemas |-> C.schemas, tables |-> C.tables, views |-> C.views]
      BY <1>0 DEF Sound
    <2> QED
      BY <2>1 DEF WithTable
  <1> HIDE DEF B
  <1>2. B.schemas = C.schemas /\ B.tables = (C.tables \ {x}) \union {y} /\ B.views = C.views
    BY <1>1
  <1>3. y.name \in Names
    BY <1>0 DEF Sound, Free
  <1>4. \A z \in C.tables \ {x} : z.id # y.id /\ ~(z.schema = y.schema /\ z.name = y.name)
    <2>1. \A z \in C.tables : z.name \notin Free(C, z.schema)
      BY DEF Free
    <2> QED
      BY <1>0, <2>1 DEF Sound
  <1>5. Sound(B)
    <2>1. \A v, w \in B.tables :
            v.id = w.id \/ (v.schema = w.schema /\ v.name = w.name) => v = w
      BY <1>0, <1>2, <1>4 DEF Sound
    <2>2. \A z \in B.tables :
            /\ z = [id |-> z.id, schema |-> z.schema, name |-> z.name, columns |-> z.columns]
            /\ z.id \in Nat /\ z.name \in Names
      BY <1>0, <1>2, <1>3 DEF Sound
    <2>3. B = [schemas |-> B.schemas, tables |-> B.tables, views |-> B.views]
      BY <1>1
    <2>4. \A z \in B.tables \union B.views : \E v \in B.schemas : v.id = z.schema
      BY <1>0, <1>2 DEF Sound
    <2> QED
      BY <1>0, <1>2, <2>1, <2>2, <2>3, <2>4 DEF Sound
  <1>6. Bounded(IdsOf(B))
    <2>1. IdsOf(B) = IdsOf(C)
      BY <1>2 DEF IdsOf
    <2> QED
      BY <1>0, <2>1
  <1>7. Grown(A, B)
    BY <1>2, <1>5, <1>6 DEF Grown
  <1> QED
    BY <1>7 DEF B

\* One operation of a transaction.
LEMMA OperationGrown ==
  ASSUME NEW A, NEW C, Grown(A, C), Bounded(Used), NEW B \in Operations(C)
  PROVE  Grown(A, B)
  <1>0. Sound(C)
    BY DEF Grown
  <1>1. C = [schemas |-> C.schemas, tables |-> C.tables, views |-> C.views]
    BY <1>0 DEF Sound
  <1>2. CASE B \in DropSchema(C)
    <2>1. PICK d \in {x \in C.schemas : x.name # "main"} :
             B = [schemas |-> C.schemas \ {d},
                  tables |-> {x \in C.tables : x.schema # d.id},
                  views |-> {x \in C.views : x.schema # d.id}]
      BY <1>2 DEF DropSchema
    <2> DEFINE S == C.schemas \ {d}
               T == {x \in C.tables : x.schema # d.id}
               V == {x \in C.views : x.schema # d.id}
    <2>2. S \in SUBSET C.schemas /\ T \in SUBSET C.tables /\ V \in SUBSET C.views
      OBVIOUS
    <2>3. \A x \in T \union V : \E y \in S : y.id = x.schema
      BY <1>0 DEF Sound
    <2>4. \E x \in S : x.name = "main"
      BY <1>0 DEF Sound
    <2> HIDE DEF S, T, V
    <2>5. Grown(A, [schemas |-> S, tables |-> T, views |-> V])
      BY <2>2, <2>3, <2>4, Shrunk
    <2> QED
      BY <2>1, <2>5 DEF S, T, V
  <1>3. CASE B \in DropTable(C)
    <2>1. PICK x \in C.tables : B = [C EXCEPT !.tables = @ \ {x}]
      BY <1>3 DEF DropTable
    <2>2. B = [schemas |-> C.schemas, tables |-> C.tables \ {x}, views |-> C.views]
      BY <1>1, <2>1
    <2>3. /\ \A z \in (C.tables \ {x}) \union C.views : \E y \in C.schemas : y.id = z.schema
          /\ \E z \in C.schemas : z.name = "main"
      BY <1>0 DEF Sound
    <2>4. Grown(A, [schemas |-> C.schemas, tables |-> C.tables \ {x}, views |-> C.views])
      BY <2>3, Shrunk
    <2> QED
      BY <2>2, <2>4
  <1>4. CASE B \in DropView(C)
    <2>1. PICK x \in C.views : B = [C EXCEPT !.views = @ \ {x}]
      BY <1>4 DEF DropView
    <2>2. B = [schemas |-> C.schemas, tables |-> C.tables, views |-> C.views \ {x}]
      BY <1>1, <2>1
    <2>3. /\ \A z \in C.tables \union (C.views \ {x}) : \E y \in C.schemas : y.id = z.schema
          /\ \E z \in C.schemas : z.name = "main"
      BY <1>0 DEF Sound
    <2>4. Grown(A, [schemas |-> C.schemas, tables |-> C.tables, views |-> C.views \ {x}])
      BY <2>3, Shrunk
    <2> QED
      BY <2>2, <2>4
  <1>5. ASSUME NEW x \in C.tables, NEW n, NEW cs,
               n = x.name \/ n \in Free(C, x.schema),
               B = WithTable(C, x, [id |-> x.id, schema |-> x.schema, name |-> n, columns |-> cs])
        PROVE  Grown(A, B)
    BY <1>5, TableReplaced
  <1>6. \A x \in C.tables :
          x = [id |-> x.id, schema |-> x.schema, name |-> x.name, columns |-> x.columns]
    BY <1>0 DEF Sound
  <1>7. CASE B \in RenameTable(C)
    <2>1. PICK x \in C.tables :
             B \in {WithTable(C, x, [x EXCEPT !.name = n]) : n \in Free(C, x.schema)}
      BY <1>7 DEF RenameTable
    <2>2. PICK n \in Free(C, x.schema) : B = WithTable(C, x, [x EXCEPT !.name = n])
      BY <2>1
    <2>3. [x EXCEPT !.name = n]
            = [id |-> x.id, schema |-> x.schema, name |-> n, columns |-> x.columns]
      BY <1>6
    <2> QED
      BY <1>5, <2>2, <2>3
  <1>8. ASSUME NEW x \in C.tables, NEW cs, B = WithTable(C, x, [x EXCEPT !.columns = cs])
        PROVE  Grown(A, B)
    <2>1. [x EXCEPT !.columns = cs]
            = [id |-> x.id, schema |-> x.schema, name |-> x.name, columns |-> cs]
      BY <1>6
    <2> QED
      BY <1>5, <1>8, <2>1
  <1>9. CASE B \in AddColumn(C)
    <2> DEFINE Column(x, p, t, n) == [id |-> FreshColumn(x), parent |-> p, type |-> t, name |-> n]
               With(x, p, t, n) ==
                 WithTable(C, x, [x EXCEPT !.columns = @ \union {Column(x, p, t, n)}])
               Under(x, p) == {With(x, p, t, n) : n \in FreeColumn(x, p), t \in {"int", "struct"}}
               Parents(x) == {Top} \union {c.id : c \in {d \in x.columns : d.type = "struct"}}
               Of(x) == UNION {Under(x, p) : p \in Parents(x)}
    <2>1. AddColumn(C) = UNION {Of(x) : x \in {y \in C.tables : FreshColumn(y) <= MaxColumn}}
      BY DEF AddColumn
    <2>2. PICK x \in C.tables : B \in Of(x)
      <3> HIDE DEF Of
      <3> QED
        BY <1>9, <2>1
    <2>3. PICK p : B \in Under(x, p)
      <3> HIDE DEF Under, Parents
      <3> QED
        BY <2>2
    <2>4. PICK t, n : B = With(x, p, t, n)
      <3> HIDE DEF With
      <3> QED
        BY <2>3
    <2>5. \E cs : B = WithTable(C, x, [x EXCEPT !.columns = cs])
      BY <2>4, Zenon
    <2> QED
      BY <1>8, <2>5
  <1>10. CASE B \in RenameColumn(C)
    <2>1. PICK x \in C.tables :
             B \in UNION {{WithTable(C, x, [x EXCEPT !.columns = (@ \ {c}) \union {[c EXCEPT !.name = n]}]) :
                              n \in FreeColumn(x, c.parent)} : c \in x.columns}
      BY <1>10, Zenon DEF RenameColumn
    <2>2. \E cs : B = WithTable(C, x, [x EXCEPT !.columns = cs])
      BY <2>1, Zenon
    <2> QED
      BY <1>8, <2>2
  <1>11. CASE B \in WidenColumn(C)
    <2>1. PICK x \in C.tables :
             B \in {WithTable(C, x, [x EXCEPT !.columns = (@ \ {c}) \union {[c EXCEPT !.type = "bigint"]}]) :
                      c \in {d \in x.columns : d.type = "int"}}
      BY <1>11, Zenon DEF WidenColumn
    <2>2. \E cs : B = WithTable(C, x, [x EXCEPT !.columns = cs])
      BY <2>1, Zenon
    <2> QED
      BY <1>8, <2>2
  <1>12. CASE B \in DropColumn(C)
    <2>1. PICK x \in C.tables :
             \E Gone \in SUBSET x.columns : B = WithTable(C, x, [x EXCEPT !.columns = @ \ Gone])
      BY <1>12, Zenon DEF DropColumn
    <2>2. \E cs : B = WithTable(C, x, [x EXCEPT !.columns = cs])
      BY <2>1, Zenon
    <2> QED
      BY <1>8, <2>2
  <1> QED
    BY <1>2, <1>3, <1>4, <1>7, <1>9, <1>10, <1>11, <1>12, SchemaAdded, TableAdded, ViewAdded
    DEF Operations

\* Any number of them.
LEMMA AfterGrown ==
  ASSUME Sound(history[now]), Bounded(IdsOf(history[now])), Bounded(Used),
         NEW n \in 0 .. MaxOps, NEW B \in After[n]
  PROVE  Grown(history[now], B)
  <1> DEFINE A == history[now]
             T == {m \in 0 .. MaxOps : \E C \in After[m] : ~Grown(A, C)}
  <1>1. SUFFICES ASSUME T # {} PROVE FALSE
    OBVIOUS
  <1>2. PICK m \in T : \A k \in T : m <= k
    <2> HIDE DEF T
    <2>1. T \in SUBSET Nat
      BY DEF T
    <2> QED
      BY <1>1, <2>1, LeastElement, Zenon
  <1>3. PICK C \in After[m] : ~Grown(A, C)
    BY <1>2
  <1>4. CASE m = 0
    <2>1. C = A
      BY <1>3, <1>4, AfterIs
    <2>2. Grown(A, A)
      BY DEF Grown
    <2> QED
      BY <1>3, <2>1, <2>2
  <1>5. CASE m # 0
    <2>1. m - 1 \in 0 .. MaxOps /\ m \in 1 .. MaxOps
      BY <1>2, <1>5, CatalogAssumption
    <2>a. m - 1 \notin T
      <3> SUFFICES ASSUME m - 1 \in T PROVE FALSE
        OBVIOUS
      <3>1. m <= m - 1
        <4> HIDE DEF T
        <4> QED
          BY <1>2
      <3> QED
        BY <2>1, <3>1, CatalogAssumption
    <2>2. PICK D \in After[m - 1] : C \in Operations(D)
      BY <1>3, <2>1, AfterIs DEF More
    <2>3. Grown(A, D)
      BY <2>1, <2>a, <2>2
    <2> QED
      BY <1>3, <2>2, <2>3, OperationGrown
  <1> QED
    BY <1>4, <1>5

-----------------------------------------------------------------------------
(* Versioned rows *)

\* Rows say what objects there were at each snapshot up to n: objs[s] at s.  A
\* row begins with the snapshot that brings its object.
Encodes(rows, objs, n) ==
  /\ \A r \in rows : /\ r = [object |-> r.object, begin |-> r.begin, end |-> r.end]
                     /\ r.begin \in 0 .. n /\ r.end \in 1 .. n \union {Live}
                     /\ r.begin < r.end
  /\ \A r \in rows, s \in 0 .. n : AliveAt(r, s) => r.object \in objs[s]
  /\ \A s \in 0 .. n : \A o \in objs[s] : \E r \in rows : AliveAt(r, s) /\ r.object = o
  /\ \A q, r \in rows, s \in 0 .. n :
       AliveAt(q, s) /\ AliveAt(r, s) /\ q.object = r.object => q = r
  /\ \A r \in rows : r.begin > 0 => r.object \notin objs[r.begin - 1]

LEMMA EncodesFirst ==
  ASSUME NEW O, NEW objs, objs[0] = O
  PROVE  Encodes(Versioned({}, O, 0), objs, 0)
  <1>1. Versioned({}, O, 0) = {[object |-> o, begin |-> 0, end |-> Live] : o \in O}
    BY DEF Versioned
  <1>2. Live \in Nat /\ 0 < Live
    BY CatalogAssumption DEF Live
  <1>3. \A s \in 0 .. 0 : s = 0
    OBVIOUS
  <1> DEFINE R == Versioned({}, O, 0)
  <1>4. \A r \in R : /\ r = [object |-> r.object, begin |-> r.begin, end |-> r.end]
                     /\ r.begin = 0 /\ r.end = Live /\ r.object \in O
    BY <1>1
  <1>5. ASSUME NEW o \in O PROVE \E r \in R : r.begin = 0 /\ r.end = Live /\ r.object = o
    <2>1. [object |-> o, begin |-> 0, end |-> Live] \in R
      BY <1>1
    <2> QED
      BY <2>1
  <1> HIDE DEF R
  <1>6. \A r \in R : AliveAt(r, 0)
    BY <1>2, <1>4 DEF AliveAt
  <1>7. \A q, r \in R : q.object = r.object => q = r
    BY <1>4
  <1>8. Encodes(R, objs, 0)
    BY <1>2, <1>3, <1>4, <1>5, <1>6, <1>7 DEF Encodes
  <1> QED
    BY <1>8 DEF R

LEMMA EncodesNext ==
  ASSUME NEW n \in Nat, n + 1 <= MaxSnapshot, NEW rows, NEW objs, Encodes(rows, objs, n),
         NEW O, NEW new, new[n + 1] = O, \A s \in 0 .. n : new[s] = objs[s]
  PROVE  Encodes(Versioned(rows, O, n + 1), new, n + 1)
  <1> DEFINE Old(r) == IF r.end = Live /\ r.object \notin O THEN [r EXCEPT !.end = n + 1] ELSE r
             live == {r.object : r \in {q \in rows : q.end = Live}}
             New1(o) == [object |-> o, begin |-> n + 1, end |-> Live]
             R == Versioned(rows, O, n + 1)
  <1>0. MaxSnapshot \in Nat /\ Live = MaxSnapshot + 1 /\ n + 1 < Live
    BY CatalogAssumption DEF Live
  <1>1. R = {Old(r) : r \in rows} \union {New1(o) : o \in O \ live}
    BY Zenon DEF Versioned
  <1>2. \A r \in rows : /\ r = [object |-> r.object, begin |-> r.begin, end |-> r.end]
                        /\ r.begin \in 0 .. n /\ r.end \in 1 .. n \union {Live}
                        /\ r.begin < r.end
    BY DEF Encodes
  <1>3. \A r \in rows :
          /\ Old(r) = [object |-> r.object, begin |-> r.begin,
                       end |-> IF r.end = Live /\ r.object \notin O THEN n + 1 ELSE r.end]
          /\ Old(r).object = r.object /\ Old(r).begin = r.begin
          /\ Old(r).end = IF r.end = Live /\ r.object \notin O THEN n + 1 ELSE r.end
    BY <1>2
  <1>4. \A r \in rows, s \in 0 .. n : AliveAt(Old(r), s) <=> AliveAt(r, s)
    BY <1>0, <1>2, <1>3 DEF AliveAt
  <1>5. \A r \in rows : /\ AliveAt(Old(r), n + 1) <=> r.end = Live /\ r.object \in O
                        /\ AliveAt(r, n) <=> r.end = Live
    BY <1>0, <1>2, <1>3 DEF AliveAt
  <1>6. \A o \in O : /\ New1(o).object = o /\ New1(o).begin = n + 1 /\ New1(o).end = Live
                     /\ AliveAt(New1(o), n + 1)
                     /\ \A s \in 0 .. n : ~AliveAt(New1(o), s)
    BY <1>0 DEF AliveAt
  <1>7. objs[n] \subseteq live
    <2> SUFFICES ASSUME NEW o \in objs[n] PROVE o \in live
      OBVIOUS
    <2>1. PICK r \in rows : AliveAt(r, n) /\ r.object = o
      BY DEF Encodes
    <2> QED
      BY <2>1, <1>5
  <1>8. \A r \in rows : Old(r) \in R
    BY <1>1
  <1>9. \A o \in O \ live : New1(o) \in R
    BY <1>1
  <1>10. \A r \in R : (\E q \in rows : r = Old(q)) \/ (\E o \in O \ live : r = New1(o))
    BY <1>1
  <1> HIDE DEF R, Old, New1
  <1>11. ASSUME NEW r \in R
         PROVE  /\ r = [object |-> r.object, begin |-> r.begin, end |-> r.end]
                /\ r.begin \in 0 .. n + 1 /\ r.end \in 1 .. n + 1 \union {Live}
                /\ r.begin < r.end
    <2>1. CASE \E q \in rows : r = Old(q)
      BY <2>1, <1>0, <1>2, <1>3
    <2>2. CASE \E o \in O \ live : r = New1(o)
      BY <2>2, <1>0, <1>6 DEF New1
    <2> QED
      BY <2>1, <2>2, <1>10
  <1>12. ASSUME NEW r \in R, NEW s \in 0 .. n + 1, AliveAt(r, s)
         PROVE  r.object \in new[s]
    <2>1. CASE s = n + 1
      BY <2>1, <1>12, <1>3, <1>5, <1>6, <1>10
    <2>2. CASE s \in 0 .. n
      <3>1. PICK q \in rows : r = Old(q)
        BY <2>2, <1>12, <1>6, <1>10
      <3>2. AliveAt(q, s)
        BY <2>2, <3>1, <1>12, <1>4
      <3>3. q.object \in objs[s]
        BY <2>2, <3>2 DEF Encodes
      <3> QED
        BY <2>2, <3>1, <3>3, <1>3
    <2> QED
      BY <2>1, <2>2
  <1>13. ASSUME NEW s \in 0 .. n + 1, NEW o \in new[s]
         PROVE  \E r \in R : AliveAt(r, s) /\ r.object = o
    <2>1. CASE s = n + 1 /\ o \in live
      <3>1. PICK q \in rows : q.end = Live /\ q.object = o
        BY <2>1
      <3> QED
        BY <2>1, <3>1, <1>3, <1>5, <1>8
    <2>2. CASE s = n + 1 /\ o \notin live
      <3>1. o \in O \ live
        BY <2>2
      <3>2. New1(o) \in R /\ AliveAt(New1(o), s) /\ New1(o).object = o
        BY <3>1, <2>2, <1>6, <1>9
      <3> QED
        BY <3>2
    <2>3. CASE s \in 0 .. n
      <3>1. PICK q \in rows : AliveAt(q, s) /\ q.object = o
        BY <2>3 DEF Encodes
      <3> QED
        BY <2>3, <3>1, <1>3, <1>4, <1>8
    <2> QED
      BY <2>1, <2>2, <2>3
  <1>14. ASSUME NEW q \in R, NEW r \in R, NEW s \in 0 .. n + 1,
                AliveAt(q, s), AliveAt(r, s), q.object = r.object
         PROVE  q = r
    <2>1. CASE s \in 0 .. n
      <3>1. PICK a \in rows : q = Old(a)
        BY <2>1, <1>14, <1>6, <1>10
      <3>2. PICK b \in rows : r = Old(b)
        BY <2>1, <1>14, <1>6, <1>10
      <3>3. AliveAt(a, s) /\ AliveAt(b, s) /\ a.object = b.object
        BY <2>1, <3>1, <3>2, <1>14, <1>3, <1>4
      <3>4. a = b
        BY <2>1, <3>3 DEF Encodes
      <3> QED
        BY <3>1, <3>2, <3>4
    <2>2. CASE s = n + 1
      <3>1. ASSUME NEW a \in rows, q = Old(a), NEW b \in rows, r = Old(b) PROVE q = r
        <4>1. a.end = Live /\ b.end = Live /\ a.object = b.object
          BY <2>2, <3>1, <1>14, <1>3, <1>5
        <4>2. AliveAt(a, n) /\ AliveAt(b, n) /\ n \in 0 .. n
          BY <4>1, <1>5
        <4>3. a = b
          BY <4>1, <4>2 DEF Encodes
        <4> QED
          BY <3>1, <4>3
      <3>2. ASSUME NEW a \in rows, NEW o \in O \ live,
                   \/ q = Old(a) /\ r = New1(o)
                   \/ q = New1(o) /\ r = Old(a)
            PROVE  FALSE
        <4>1. a.end = Live /\ a.object = o
          BY <2>2, <3>2, <1>14, <1>3, <1>5, <1>6
        <4> QED
          BY <4>1
      <3>3. ASSUME NEW o \in O \ live, NEW p \in O \ live, q = New1(o), r = New1(p) PROVE q = r
        BY <3>3, <1>14, <1>6
      <3> QED
        BY <3>1, <3>2, <3>3, <1>10
    <2> QED
      BY <2>1, <2>2
  <1>15. ASSUME NEW r \in R, r.begin > 0
         PROVE  r.object \notin new[r.begin - 1]
    <2>1. CASE \E q \in rows : r = Old(q)
      <3>1. PICK q \in rows : r = Old(q)
        BY <2>1
      <3>2. r.object = q.object /\ r.begin = q.begin /\ r.begin - 1 \in 0 .. n
        BY <3>1, <1>2, <1>3, <1>15
      <3>3. q.object \notin objs[q.begin - 1]
        BY <3>2, <1>15 DEF Encodes
      <3> QED
        BY <3>2, <3>3
    <2>2. CASE \E o \in O \ live : r = New1(o)
      <3>1. PICK o \in O \ live : r = New1(o)
        BY <2>2
      <3>2. r.object = o /\ r.begin - 1 = n
        BY <3>1, <1>6
      <3> QED
        BY <3>1, <3>2, <1>7
    <2> QED
      BY <2>1, <2>2, <1>10
  <1> QED
    BY <1>11, <1>12, <1>13, <1>14, <1>15 DEF Encodes, R

-----------------------------------------------------------------------------
(* The catalog *)

\* What there was, snapshot by snapshot.
SchemasAt == [s \in 0 .. now |-> history[s].schemas]
TablesAt == [s \in 0 .. now |-> TableObjects(history[s])]
ViewsAt == [s \in 0 .. now |-> history[s].views]
ColumnsAt == [s \in 0 .. now |-> Columns(history[s])]

SoundInv == /\ now \in 0 .. MaxSnapshot /\ Bounded(Used)
            /\ \A s \in 0 .. now : Sound(history[s])

RowsInv == /\ Encodes(schemaRows, SchemasAt, now)
           /\ Encodes(tableRows, TablesAt, now)
           /\ Encodes(viewRows, ViewsAt, now)
           /\ Encodes(columnRows, ColumnsAt, now)

\* An id stands for one thing for ever, and what is gone does not come back.
LifeInv ==
  /\ \A s, t \in 0 .. now :
       /\ \A x \in history[s].schemas, y \in history[t].schemas : x.id = y.id => x = y
       /\ \A x \in history[s].tables, y \in history[t].tables :
            x.id = y.id => x.schema = y.schema
       /\ \A x \in history[s].views, y \in history[t].views : x.id = y.id => x = y
  /\ \A r, s, t \in 0 .. now : r <= s /\ s <= t =>
       /\ Ids(history[r].schemas) \intersect Ids(history[t].schemas) \subseteq Ids(history[s].schemas)
       /\ Ids(history[r].tables) \intersect Ids(history[t].tables) \subseteq Ids(history[s].tables)
       /\ Ids(history[r].views) \intersect Ids(history[t].views) \subseteq Ids(history[s].views)

ChangesInv ==
  \A s \in 1 .. now :
    LET A == history[s - 1]
        B == history[s]
    IN  \E noise \in SUBSET Ids(RenamedTables(A, B)) : changes[s] = Tokens(A, B, noise)

BumpedInv ==
  \A i, s : <<i, s>> \in bumped <=>
              /\ s \in 1 .. now
              /\ i \in Ids(New(history[s - 1].tables, history[s].tables)
                             \union AlteredTables(history[s - 1], history[s]))

CatalogInv == SoundInv /\ RowsInv /\ LifeInv /\ ChangesInv /\ BumpedInv

\* Rows keep every id.
LEMMA RowsKnowIds ==
  ASSUME SoundInv, RowsInv, NEW s \in 0 .. now
  PROVE  /\ Ids(history[s].schemas) \subseteq Used
         /\ Ids(history[s].tables) \subseteq Used
         /\ Ids(history[s].views) \subseteq Used
  <1>1. ASSUME NEW x \in history[s].schemas PROVE x.id \in Used
    <2>1. PICK r \in schemaRows : r.object = x
      BY DEF RowsInv, Encodes, SchemasAt
    <2> QED
      BY <2>1 DEF Used
  <1>2. ASSUME NEW x \in history[s].tables PROVE x.id \in Used
    <2>1. TableObject(x) \in TablesAt[s]
      BY DEF TablesAt, TableObjects
    <2>2. PICK r \in tableRows : r.object = TableObject(x)
      BY <2>1 DEF RowsInv, Encodes
    <2>3. r.object.id = x.id
      BY <2>2 DEF TableObject
    <2> QED
      BY <2>2, <2>3 DEF Used
  <1>3. ASSUME NEW x \in history[s].views PROVE x.id \in Used
    <2>1. PICK r \in viewRows : r.object = x
      BY DEF RowsInv, Encodes, ViewsAt
    <2> QED
      BY <2>1 DEF Used
  <1> QED
    BY <1>1, <1>2, <1>3 DEF Ids

\* A transaction that makes B of the catalog keeps all of it.
LEMMA CommitKeeps ==
  ASSUME CatalogInv, NEW n \in 0 .. MaxOps, now < MaxSnapshot, NEW B \in After[n], Commit(B, n)
  PROVE  CatalogInv'
  <1> DEFINE A == history[now]
             s == now + 1
  <1>0. now \in Nat /\ MaxSnapshot \in Nat /\ now' = s /\ s \in 0 .. MaxSnapshot /\ now \in 0 .. now
    BY CatalogAssumption DEF CatalogInv, SoundInv, Commit
  <1>1. history'[s] = B /\ \A i \in 0 .. now : history'[i] = history[i]
    BY <1>0 DEF Commit
  <1>2. Sound(A) /\ Bounded(Used)
    BY <1>0 DEF CatalogInv, SoundInv
  <1>3. /\ \A i \in 0 .. now : /\ Ids(history[i].schemas) \subseteq Used
                               /\ Ids(history[i].tables) \subseteq Used
                               /\ Ids(history[i].views) \subseteq Used
    BY RowsKnowIds DEF CatalogInv
  <1>4. Bounded(IdsOf(A))
    <2>1. IdsOf(A) \subseteq Used
      BY <1>0, <1>3 DEF IdsOf, Ids
    <2> QED
      BY <1>2, <2>1 DEF Bounded
  <1>5. Grown(A, B)
    BY <1>2, <1>4, AfterGrown
  <1>6. /\ \A y \in B.schemas : y.id \in Used => y \in A.schemas
        /\ \A y \in B.tables : y.id \in Used => \E x \in A.tables : x.id = y.id /\ x.schema = y.schema
        /\ \A y \in B.views : y.id \in Used => y \in A.views
    BY <1>5 DEF Grown
  <1>7. RowsInv'
    <2>1. \A i \in 0 .. now : /\ SchemasAt'[i] = SchemasAt[i]
                              /\ TablesAt'[i] = TablesAt[i]
                              /\ ViewsAt'[i] = ViewsAt[i]
                              /\ ColumnsAt'[i] = ColumnsAt[i]
      BY <1>0, <1>1 DEF SchemasAt, TablesAt, ViewsAt, ColumnsAt
    <2>2. /\ SchemasAt'[s] = B.schemas /\ TablesAt'[s] = TableObjects(B) /\ ViewsAt'[s] = B.views
          /\ ColumnsAt'[s] = Columns(B)
      BY <1>0, <1>1 DEF SchemasAt, TablesAt, ViewsAt, ColumnsAt
    <2>3. /\ schemaRows' = Versioned(schemaRows, B.schemas, s)
          /\ tableRows' = Versioned(tableRows, TableObjects(B), s)
          /\ viewRows' = Versioned(viewRows, B.views, s)
          /\ columnRows' = Versioned(columnRows, Columns(B), s)
      BY DEF Commit
    <2>4. Encodes(schemaRows', SchemasAt', s)
      BY <1>0, <2>1, <2>2, <2>3, EncodesNext DEF CatalogInv, RowsInv
    <2>5. Encodes(tableRows', TablesAt', s)
      BY <1>0, <2>1, <2>2, <2>3, EncodesNext DEF CatalogInv, RowsInv
    <2>6. Encodes(viewRows', ViewsAt', s)
      BY <1>0, <2>1, <2>2, <2>3, EncodesNext DEF CatalogInv, RowsInv
    <2>7. Encodes(columnRows', ColumnsAt', s)
      BY <1>0, <2>1, <2>2, <2>3, EncodesNext DEF CatalogInv, RowsInv
    <2> QED
      BY <1>0, <2>4, <2>5, <2>6, <2>7 DEF RowsInv
  <1>8. SoundInv'
    <2>1. Used' \subseteq Used \union IdsOf(B)
      <3> SUFFICES ASSUME NEW i \in Used' PROVE i \in Used \union IdsOf(B)
        OBVIOUS
      <3>1. PICK r \in schemaRows' \union tableRows' \union viewRows' : i = r.object.id
        BY DEF Used
      <3>2. CASE r \in schemaRows'
        <4>1. \E j \in 0 .. s : r.object \in SchemasAt'[j]
          BY <1>0, <1>7, <3>2 DEF RowsInv, Encodes, AliveAt
        <4>2. \E j \in 0 .. s : r.object \in history'[j].schemas
          BY <1>0, <4>1 DEF SchemasAt
        <4> QED
          BY <1>0, <1>1, <1>3, <3>1, <4>2 DEF Ids, IdsOf
      <3>3. CASE r \in tableRows'
        <4>1. \E j \in 0 .. s : r.object \in TablesAt'[j]
          BY <1>0, <1>7, <3>3 DEF RowsInv, Encodes, AliveAt
        <4>2. \E j \in 0 .. s : \E x \in history'[j].tables : r.object.id = x.id
          BY <1>0, <4>1 DEF TablesAt, TableObjects, TableObject
        <4> QED
          BY <1>0, <1>1, <1>3, <3>1, <4>2 DEF Ids, IdsOf
      <3>4. CASE r \in viewRows'
        <4>1. \E j \in 0 .. s : r.object \in ViewsAt'[j]
          BY <1>0, <1>7, <3>4 DEF RowsInv, Encodes, AliveAt
        <4>2. \E j \in 0 .. s : r.object \in history'[j].views
          BY <1>0, <4>1 DEF ViewsAt
        <4> QED
          BY <1>0, <1>1, <1>3, <3>1, <4>2 DEF Ids, IdsOf
      <3> QED
        BY <3>1, <3>2, <3>3, <3>4
    <2>2. PICK a \in Nat : \A i \in Used : i <= a
      BY <1>2 DEF Bounded
    <2>3. PICK b \in Nat : \A i \in IdsOf(B) : i <= b
      BY <1>5 DEF Grown, Bounded
    <2>4. Used \subseteq Nat /\ IdsOf(B) \subseteq Nat
      BY <1>2, <1>5 DEF Grown, Bounded
    <2>5. \A i \in Used' : i <= (IF a <= b THEN b ELSE a)
      BY <2>1, <2>2, <2>3, <2>4
    <2>6. Bounded(Used')
      BY <2>1, <2>4, <2>5 DEF Bounded
    <2>7. \A i \in 0 .. s : Sound(history'[i])
      BY <1>0, <1>1, <1>5 DEF Grown, CatalogInv, SoundInv
    <2> QED
      BY <1>0, <2>6, <2>7 DEF SoundInv
  <1>9. LifeInv'
    <2> DEFINE H == [i \in 0 .. s |-> IF i = s THEN B ELSE history[i]]
    <2>1. history' = H
      BY DEF Commit
    <2>2. \A i \in 0 .. now :
            /\ \A x \in history[i].schemas, y \in B.schemas : x.id = y.id => x = y
            /\ \A x \in history[i].tables, y \in B.tables : x.id = y.id => x.schema = y.schema
            /\ \A x \in history[i].views, y \in B.views : x.id = y.id => x = y
      <3> SUFFICES ASSUME NEW i \in 0 .. now
                   PROVE  /\ \A x \in history[i].schemas, y \in B.schemas : x.id = y.id => x = y
                          /\ \A x \in history[i].tables, y \in B.tables : x.id = y.id => x.schema = y.schema
                          /\ \A x \in history[i].views, y \in B.views : x.id = y.id => x = y
        OBVIOUS
      <3>1. /\ \A x \in history[i].schemas : x.id \in Used
            /\ \A x \in history[i].tables : x.id \in Used
            /\ \A x \in history[i].views : x.id \in Used
        BY <1>3 DEF Ids
      <3>2. /\ \A x \in history[i].schemas, y \in A.schemas : x.id = y.id => x = y
            /\ \A x \in history[i].tables, y \in A.tables : x.id = y.id => x.schema = y.schema
            /\ \A x \in history[i].views, y \in A.views : x.id = y.id => x = y
        BY <1>0 DEF CatalogInv, LifeInv
      <3>3. ASSUME NEW x \in history[i].tables, NEW y \in B.tables, x.id = y.id
            PROVE  x.schema = y.schema
        <4>1. PICK z \in A.tables : z.id = y.id /\ z.schema = y.schema
          BY <1>6, <3>1, <3>3
        <4> QED
          BY <3>2, <3>3, <4>1
      <3> QED
        BY <1>6, <3>1, <3>2, <3>3
    <2>3. /\ \A x \in B.schemas, y \in B.schemas : x.id = y.id => x = y
          /\ \A x \in B.tables, y \in B.tables : x.id = y.id => x.schema = y.schema
          /\ \A x \in B.views, y \in B.views : x.id = y.id => x = y
      BY <1>5 DEF Grown, Sound
    <2>4. \A i, j \in 0 .. s :
            /\ \A x \in history'[i].schemas, y \in history'[j].schemas : x.id = y.id => x = y
            /\ \A x \in history'[i].tables, y \in history'[j].tables : x.id = y.id => x.schema = y.schema
            /\ \A x \in history'[i].views, y \in history'[j].views : x.id = y.id => x = y
      <3> SUFFICES ASSUME NEW i \in 0 .. s, NEW j \in 0 .. s
                   PROVE
            /\ \A x \in history'[i].schemas, y \in history'[j].schemas : x.id = y.id => x = y
            /\ \A x \in history'[i].tables, y \in history'[j].tables : x.id = y.id => x.schema = y.schema
            /\ \A x \in history'[i].views, y \in history'[j].views : x.id = y.id => x = y
        OBVIOUS
      <3>1. CASE i = s /\ j = s
        BY <3>1, <1>1, <2>3
      <3>2. CASE i \in 0 .. now /\ j = s
        BY <3>2, <1>1, <2>2
      <3>3. CASE i = s /\ j \in 0 .. now
        BY <3>3, <1>1, <2>2
      <3>4. CASE i \in 0 .. now /\ j \in 0 .. now
        BY <3>4, <1>1 DEF CatalogInv, LifeInv
      <3> QED
        BY <1>0, <3>1, <3>2, <3>3, <3>4
    <2>5. ASSUME NEW h \in 0 .. s, NEW i \in 0 .. s, NEW j \in 0 .. s, h <= i, i <= j
          PROVE
            /\ Ids(history'[h].schemas) \intersect Ids(history'[j].schemas) \subseteq Ids(history'[i].schemas)
            /\ Ids(history'[h].tables) \intersect Ids(history'[j].tables) \subseteq Ids(history'[i].tables)
            /\ Ids(history'[h].views) \intersect Ids(history'[j].views) \subseteq Ids(history'[i].views)
      <3>1. CASE i = s
        BY <3>1, <2>5, <1>0
      <3>2. CASE i # s /\ j # s
        <4>1. h \in 0 .. now /\ i \in 0 .. now /\ j \in 0 .. now
          BY <3>2, <2>5, <1>0
        <4> QED
          BY <4>1, <2>5, <1>1 DEF CatalogInv, LifeInv
      <3>3. CASE i # s /\ j = s
        <4>1. h \in 0 .. now /\ i \in 0 .. now /\ i <= now
          BY <3>3, <2>5, <1>0
        <4>2. /\ Ids(history[h].schemas) \intersect Ids(B.schemas) \subseteq Ids(A.schemas)
              /\ Ids(history[h].tables) \intersect Ids(B.tables) \subseteq Ids(A.tables)
              /\ Ids(history[h].views) \intersect Ids(B.views) \subseteq Ids(A.views)
          BY <1>3, <1>6, <4>1 DEF Ids
        <4>3. /\ Ids(history[h].schemas) \intersect Ids(A.schemas) \subseteq Ids(history[i].schemas)
              /\ Ids(history[h].tables) \intersect Ids(A.tables) \subseteq Ids(history[i].tables)
              /\ Ids(history[h].views) \intersect Ids(A.views) \subseteq Ids(history[i].views)
          BY <4>1, <2>5, <1>0 DEF CatalogInv, LifeInv
        <4> QED
          BY <3>3, <4>1, <4>2, <4>3, <1>1
      <3> QED
        BY <3>1, <3>2, <3>3
    <2> QED
      BY <1>0, <2>4, <2>5 DEF LifeInv
  <1>10. ChangesInv'
    <2>1. PICK noise \in SUBSET Ids(RenamedTables(A, B)) :
            changes' = [i \in 1 .. s |-> IF i = s THEN Tokens(A, B, noise) ELSE changes[i]]
      BY DEF Commit
    <2>2. ASSUME NEW i \in 1 .. s
          PROVE  \E m \in SUBSET Ids(RenamedTables(history'[i - 1], history'[i])) :
                   changes'[i] = Tokens(history'[i - 1], history'[i], m)
      <3>1. CASE i = s
        <4>1. history'[i - 1] = A /\ history'[i] = B /\ changes'[i] = Tokens(A, B, noise)
          BY <3>1, <2>1, <1>0, <1>1
        <4> QED
          BY <4>1
      <3>2. CASE i # s
        <4>1. i \in 1 .. now /\ history'[i - 1] = history[i - 1] /\ history'[i] = history[i]
              /\ changes'[i] = changes[i]
          BY <3>2, <2>1, <1>0, <1>1
        <4> QED
          BY <4>1 DEF CatalogInv, ChangesInv
      <3> QED
        BY <3>1, <3>2
    <2> QED
      BY <1>0, <2>2 DEF ChangesInv
  <1>11. BumpedInv'
    <2> DEFINE Touched(C, D) == Ids(New(C.tables, D.tables) \union AlteredTables(C, D))
    <2>1. \A i, j : <<i, j>> \in bumped' <=> <<i, j>> \in bumped \/ (j = s /\ i \in Touched(A, B))
      BY DEF Commit, Ids
    <2>2. \A i, j : <<i, j>> \in bumped <=> j \in 1 .. now /\ i \in Touched(history[j - 1], history[j])
      BY DEF CatalogInv, BumpedInv
    <2> HIDE DEF Touched
    <2>3. ASSUME NEW i, NEW j
          PROVE  <<i, j>> \in bumped' <=> j \in 1 .. s /\ i \in Touched(history'[j - 1], history'[j])
      <3>1. CASE j = s
        <4>1. history'[j - 1] = A /\ history'[j] = B /\ j \in 1 .. s /\ ~(j \in 1 .. now)
          BY <3>1, <1>0, <1>1
        <4> QED
          BY <2>1, <2>2, <3>1, <4>1
      <3>2. CASE j # s
        <4>1. j \in 1 .. s <=> j \in 1 .. now
          BY <3>2, <1>0
        <4>2. j \in 1 .. now => history'[j - 1] = history[j - 1] /\ history'[j] = history[j]
          BY <1>0, <1>1
        <4> QED
          BY <2>1, <2>2, <3>2, <4>1, <4>2
      <3> QED
        BY <3>1, <3>2
    <2> QED
      BY <1>0, <2>3 DEF BumpedInv, Touched
  <1> QED
    BY <1>7, <1>8, <1>9, <1>10, <1>11 DEF CatalogInv

-----------------------------------------------------------------------------
(* Subscriptions *)

\* What the lookups make of a schema, and of a table or a view in a schema.
OfSchema(x) == Resolved(x.id, x.name, x.id, x.name)
OfObject(x, y) == Resolved(y.id, y.name, x.id, x.name)

\* A subscription is for what was there at the snapshot it was looked up at.
SubscriptionInv ==
  subscription # Null =>
    \E s \in 0 .. now :
      \/ \E x \in history[s].schemas : subscription = SchemaSubscription(OfSchema(x), s)
      \/ \E x \in history[s].tables, y \in history[s].schemas :
           y.id = x.schema /\ subscription = TableSubscription(OfObject(x, y), s)

\* What is alive in the rows is in the catalog.
LEMMA SchemaAlive ==
  ASSUME CatalogInv, NEW s \in 0 .. now, NEW r \in schemaRows, AliveAt(r, s)
  PROVE  r.object \in history[s].schemas
  BY DEF CatalogInv, RowsInv, Encodes, SchemasAt

LEMMA TableAlive ==
  ASSUME CatalogInv, NEW s \in 0 .. now, NEW r \in tableRows, AliveAt(r, s)
  PROVE  \E x \in history[s].tables : r.object = TableObject(x)
  BY DEF CatalogInv, RowsInv, Encodes, TablesAt, TableObjects

LEMMA JoinedAlive ==
  ASSUME CatalogInv, NEW s \in 0 .. now, NEW j \in Joined(tableRows),
         AliveAt(j[1], s), AliveAt(j[2], s)
  PROVE  \E x \in history[s].tables, y \in history[s].schemas :
           y.id = x.schema /\ JoinedObject(j) = OfObject(x, y)
  <1>1. j[1] \in tableRows /\ j[2] \in schemaRows /\ j[1].object.schema = j[2].object.id
    BY DEF Joined
  <1>2. PICK x \in history[s].tables : j[1].object = TableObject(x)
    BY <1>1, TableAlive
  <1>3. j[2].object \in history[s].schemas
    BY <1>1, SchemaAlive
  <1>4. TableObject(x).schema = x.schema /\ TableObject(x).id = x.id /\ TableObject(x).name = x.name
    BY DEF TableObject
  <1> QED
    BY <1>1, <1>2, <1>3, <1>4 DEF JoinedObject, OfObject

LEMMA CatalogStays ==
  ASSUME CatalogInv, UNCHANGED catalogVars
  PROVE  CatalogInv'
  <1>1. /\ history' = history /\ now' = now /\ changes' = changes
        /\ schemaRows' = schemaRows /\ tableRows' = tableRows /\ viewRows' = viewRows
        /\ columnRows' = columnRows /\ bumped' = bumped
    BY DEF catalogVars
  <1>2. /\ SchemasAt' = SchemasAt /\ TablesAt' = TablesAt /\ ViewsAt' = ViewsAt
        /\ ColumnsAt' = ColumnsAt /\ Used' = Used
    BY <1>1 DEF SchemasAt, TablesAt, ViewsAt, ColumnsAt, Used
  <1>3. SoundInv' /\ RowsInv'
    BY <1>1, <1>2 DEF CatalogInv, SoundInv, RowsInv
  <1>4. LifeInv'
    BY <1>1 DEF CatalogInv, LifeInv
  <1>5. ChangesInv'
    BY <1>1 DEF CatalogInv, ChangesInv
  <1>6. BumpedInv'
    BY <1>1 DEF CatalogInv, BumpedInv
  <1> QED
    BY <1>3, <1>4, <1>5, <1>6 DEF CatalogInv

LEMMA CreateKeeps ==
  ASSUME CatalogInv, NEW scope \in Scopes, NEW q \in AllSchemaNames \X Names, NEW s \in 0 .. now,
         Create(scope, q, s, s = 0)
  PROVE  CatalogInv' /\ SubscriptionInv'
  <1>1. CatalogInv'
    BY CatalogStays DEF Create
  <1>2. now' = now /\ history' = history
    BY DEF Create, catalogVars
  <1>3. PICK sub \in ResolveDdlCreateSubscriptions(scope, q, s)
                       \union ResolveDmlCreateSubscriptions(q, s, s = 0) : subscription' = sub
    BY DEF Create
  <1>4. ASSUME NEW o \in ResolveSchemaByNameAt(s, q[1]), sub = SchemaSubscription(o, s)
        PROVE  \E x \in history[s].schemas : sub = SchemaSubscription(OfSchema(x), s)
    <2>1. PICK r \in schemaRows : AliveAt(r, s) /\ o = SchemaObject(r)
      BY DEF ResolveSchemaByNameAt
    <2>2. r.object \in history[s].schemas
      BY <2>1, SchemaAlive
    <2> QED
      BY <2>1, <2>2, <1>4 DEF SchemaObject, OfSchema
  <1>5. ASSUME NEW o \in ResolveCurrentTableName(s, q), sub = TableSubscription(o, s)
        PROVE  \E x \in history[s].tables, y \in history[s].schemas :
                 y.id = x.schema /\ sub = TableSubscription(OfObject(x, y), s)
    <2>1. PICK j \in Joined(tableRows) : AliveAt(j[1], s) /\ AliveAt(j[2], s) /\ o = JoinedObject(j)
      BY DEF ResolveCurrentTableName
    <2> QED
      BY <2>1, <1>5, JoinedAlive
  <1>6. ASSUME NEW f \in ResolveFirstLiveTableByName(q), sub = TableSubscription(f.object, f.at)
        PROVE  \E t \in 0 .. now : \E x \in history[t].tables, y \in history[t].schemas :
                 y.id = x.schema /\ sub = TableSubscription(OfObject(x, y), t)
    <2>1. PICK j \in Joined(tableRows) : /\ AliveAt(j[2], j[1].begin)
                                         /\ f = [at |-> j[1].begin, object |-> JoinedObject(j)]
      BY DEF ResolveFirstLiveTableByName
    <2>2. j[1] \in tableRows
      BY DEF Joined
    <2>3. j[1].begin \in 0 .. now /\ AliveAt(j[1], j[1].begin)
      BY <2>2, CatalogAssumption DEF CatalogInv, SoundInv, RowsInv, Encodes, AliveAt, Live
    <2> QED
      BY <2>1, <2>3, <1>6, JoinedAlive
  <1> DEFINE Known ==
        \E t \in 0 .. now :
          \/ \E x \in history[t].schemas : sub = SchemaSubscription(OfSchema(x), t)
          \/ \E x \in history[t].tables, y \in history[t].schemas :
               y.id = x.schema /\ sub = TableSubscription(OfObject(x, y), t)
  <1>7. ASSUME sub \in ResolveDdlCreateSubscriptions(scope, q, s) PROVE Known
    <2>1. CASE scope = "schema"
      <3>1. PICK o \in ResolveSchemaByNameAt(s, q[1]) : sub = SchemaSubscription(o, s)
        BY <1>7, <2>1 DEF ResolveDdlCreateSubscriptions
      <3> QED
        BY <3>1, <1>4
    <2>2. CASE scope # "schema"
      <3>1. PICK o \in ResolveCurrentTableName(s, q) : sub = TableSubscription(o, s)
        BY <1>7, <2>2 DEF ResolveDdlCreateSubscriptions
      <3> QED
        BY <3>1, <1>5
    <2> QED
      BY <2>1, <2>2
  <1>8. ASSUME sub \in ResolveDmlCreateSubscriptions(q, s, s = 0) PROVE Known
    <2>1. \/ \E o \in ResolveCurrentTableName(s, q) : sub = TableSubscription(o, s)
          \/ \E f \in ResolveFirstLiveTableByName(q) : sub = TableSubscription(f.object, f.at)
      BY <1>8 DEF ResolveDmlCreateSubscriptions
    <2> QED
      BY <2>1, <1>5, <1>6
  <1>9. Known
    BY <1>3, <1>7, <1>8
  <1>10. SubscriptionInv'
    BY <1>2, <1>3, <1>9 DEF SubscriptionInv
  <1> QED
    BY <1>1, <1>10

LEMMA Invariance == Spec => [](CatalogInv /\ SubscriptionInv)
  <1>1. DdlInit => CatalogInv /\ SubscriptionInv
    <2> SUFFICES ASSUME DdlInit PROVE CatalogInv /\ SubscriptionInv
      OBVIOUS
    <2>1. history[0] = Start /\ now = 0
      BY DEF DdlInit, Init
    <2>2. Sound(Start)
      BY CatalogAssumption
    <2>3. RowsInv
      <3>1. SchemasAt[0] = Start.schemas /\ TablesAt[0] = TableObjects(Start)
            /\ ViewsAt[0] = Start.views /\ ColumnsAt[0] = Columns(Start)
        BY <2>1 DEF SchemasAt, TablesAt, ViewsAt, ColumnsAt
      <3>2. Encodes(Versioned({}, Start.schemas, 0), SchemasAt, 0)
        BY <3>1, EncodesFirst
      <3>3. Encodes(Versioned({}, TableObjects(Start), 0), TablesAt, 0)
        BY <3>1, EncodesFirst
      <3>4. Encodes(Versioned({}, Start.views, 0), ViewsAt, 0)
        BY <3>1, EncodesFirst
      <3>5. Encodes(Versioned({}, Columns(Start), 0), ColumnsAt, 0)
        BY <3>1, EncodesFirst
      <3> QED
        BY <2>1, <3>2, <3>3, <3>4, <3>5 DEF RowsInv, DdlInit, Init
    <2>4. Bounded(Used)
      <3>1. Used \subseteq IdsOf(Start)
        <4> SUFFICES ASSUME NEW i \in Used PROVE i \in IdsOf(Start)
          OBVIOUS
        <4>1. PICK r \in schemaRows \union tableRows \union viewRows : i = r.object.id
          BY DEF Used
        <4>2. CASE r \in schemaRows
          <5>1. r.object \in Start.schemas
            BY <4>2 DEF DdlInit, Init, Versioned
          <5> QED
            BY <4>1, <5>1 DEF IdsOf
        <4>3. CASE r \in tableRows
          <5>1. r.object \in TableObjects(Start)
            BY <4>3 DEF DdlInit, Init, Versioned
          <5> QED
            BY <4>1, <5>1 DEF IdsOf, TableObjects, TableObject
        <4>4. CASE r \in viewRows
          <5>1. r.object \in Start.views
            BY <4>4 DEF DdlInit, Init, Versioned
          <5> QED
            BY <4>1, <5>1 DEF IdsOf
        <4> QED
          BY <4>1, <4>2, <4>3, <4>4
      <3>2. Bounded(IdsOf(Start))
        <4>1. IdsOf(Start) \subseteq Nat
          BY <2>2 DEF IdsOf, Sound
        <4> QED
          BY <4>1, CatalogAssumption DEF IdsOf, Bounded
      <3> QED
        BY <3>1, <3>2 DEF Bounded
    <2>5. SoundInv
      BY <2>1, <2>2, <2>4, CatalogAssumption DEF SoundInv
    <2>6. LifeInv
      BY <2>1, <2>2 DEF LifeInv, Sound
    <2>7. ChangesInv
      BY <2>1 DEF ChangesInv
    <2>8. SubscriptionInv
      BY DEF DdlInit, SubscriptionInv
    <2>9. BumpedInv
      BY <2>1 DEF DdlInit, Init, BumpedInv
    <2> QED
      BY <2>3, <2>5, <2>6, <2>7, <2>8, <2>9 DEF CatalogInv
  <1>2. CatalogInv /\ SubscriptionInv /\ [Next]_vars => (CatalogInv /\ SubscriptionInv)'
    <2> SUFFICES ASSUME CatalogInv, SubscriptionInv, [Next]_vars
                 PROVE  CatalogInv' /\ SubscriptionInv'
      OBVIOUS
    <2>1. CASE Transaction /\ UNCHANGED subscription
      <3>1. PICK n \in 0 .. MaxOps : now < MaxSnapshot /\ \E B \in After[n] : Commit(B, n)
        BY <2>1 DEF Transaction
      <3>2. PICK B \in After[n] : Commit(B, n)
        BY <3>1
      <3>3. CatalogInv'
        BY <3>1, <3>2, CommitKeeps
      <3>4. now \in Nat /\ now' = now + 1 /\ \A i \in 0 .. now : history'[i] = history[i]
        BY <3>2 DEF Commit, CatalogInv, SoundInv
      <3>5. subscription' = subscription
        BY <2>1
      <3>6. SubscriptionInv'
        BY <3>4, <3>5 DEF SubscriptionInv
      <3> QED
        BY <3>3, <3>6
    <2>2. ASSUME NEW scope \in Scopes, NEW q \in AllSchemaNames \X Names, NEW s \in 0 .. now,
                 Create(scope, q, s, s = 0)
          PROVE  CatalogInv' /\ SubscriptionInv'
      BY <2>2, CreateKeeps
    <2>3. CASE UNCHANGED vars
      <3>1. UNCHANGED catalogVars /\ subscription' = subscription
        BY <2>3 DEF vars
      <3>2. SubscriptionInv'
        BY <3>1 DEF catalogVars, SubscriptionInv
      <3> QED
        BY <3>1, <3>2, CatalogStays
    <2> QED
      BY <2>1, <2>2, <2>3 DEF Next
  <1> QED
    BY <1>1, <1>2, PTL DEF Spec

-----------------------------------------------------------------------------
(* Lookups *)

\* A set of one element has no other choice.
LEMMA PickIs ==
  ASSUME NEW S, NEW none, NEW v, v \in S, \A w \in S : w = v
  PROVE  Pick(S, none) = v
  BY DEF Pick

LEMMA SchemaRowIs ==
  ASSUME CatalogInv, NEW q \in schemaRows, NEW s \in 0 .. now, NEW y \in history[s].schemas,
         q.object.id = y.id
  PROVE  q.object = y
  <1>1. q.begin \in 0 .. now /\ AliveAt(q, q.begin)
    BY CatalogAssumption DEF CatalogInv, SoundInv, RowsInv, Encodes, AliveAt, Live
  <1>2. q.object \in history[q.begin].schemas
    BY <1>1, SchemaAlive
  <1> QED
    BY <1>1, <1>2 DEF CatalogInv, LifeInv

LEMMA LookupSchemaByIdIs ==
  ASSUME CatalogInv, NEW s \in 0 .. now, NEW y \in history[s].schemas
  PROVE  LookupSchemaById(s, y.id) = OfSchema(y)
  <1> DEFINE S == {SchemaObject(r) : r \in {q \in schemaRows : q.object.id = y.id /\ AliveAt(q, s)}}
  <1>1. PICK r \in schemaRows : AliveAt(r, s) /\ r.object = y
    BY DEF CatalogInv, RowsInv, Encodes, SchemasAt
  <1>2. SchemaObject(r) = OfSchema(y)
    BY <1>1 DEF SchemaObject, OfSchema
  <1>3. OfSchema(y) \in S
    BY <1>1, <1>2
  <1>4. \A w \in S : w = OfSchema(y)
    BY SchemaRowIs DEF SchemaObject, OfSchema
  <1> HIDE DEF S
  <1>5. Pick(S, Resolved(y.id, Null, y.id, Null)) = OfSchema(y)
    BY <1>3, <1>4, PickIs
  <1> QED
    BY <1>5 DEF LookupSchemaById, S

LEMMA LookupSchemaByNameIs ==
  ASSUME CatalogInv, NEW s \in 1 .. now, NEW y \in history[s].schemas,
         y \notin history[s - 1].schemas
  PROVE  LookupSchemaByName(s, y.name) = OfSchema(y)
  <1> DEFINE S == {SchemaObject(r) : r \in {q \in schemaRows : q.begin = s /\ q.object.name = y.name}}
  <1>0. now \in Nat /\ s \in 0 .. now /\ s - 1 \in 0 .. now
    BY DEF CatalogInv, SoundInv
  <1>1. PICK r \in schemaRows : AliveAt(r, s) /\ r.object = y
    BY <1>0 DEF CatalogInv, RowsInv, Encodes, SchemasAt
  <1>2. r.begin = s
    <2> SUFFICES ASSUME r.begin # s PROVE FALSE
      OBVIOUS
    <2>1. r.begin \in 0 .. now /\ r.end \in Int /\ r.begin <= s /\ r.end > s
      BY <1>1, CatalogAssumption DEF CatalogInv, SoundInv, RowsInv, Encodes, AliveAt, Live
    <2>2. AliveAt(r, s - 1)
      BY <1>0, <2>1 DEF AliveAt
    <2> QED
      BY <1>0, <1>1, <2>2, SchemaAlive
  <1>3. SchemaObject(r) = OfSchema(y)
    BY <1>1 DEF SchemaObject, OfSchema
  <1>4. OfSchema(y) \in S
    BY <1>1, <1>2, <1>3
  <1>5. ASSUME NEW q \in schemaRows, q.begin = s, q.object.name = y.name PROVE q.object = y
    <2>1. AliveAt(q, s)
      BY <1>5, <1>0 DEF CatalogInv, RowsInv, Encodes, AliveAt
    <2>2. q.object \in history[s].schemas
      BY <1>0, <2>1, SchemaAlive
    <2> QED
      BY <1>0, <1>5, <2>2 DEF CatalogInv, SoundInv, Sound
  <1>6. \A w \in S : w = OfSchema(y)
    BY <1>5 DEF SchemaObject, OfSchema
  <1> HIDE DEF S
  <1>7. Pick(S, Resolved(Null, y.name, Null, y.name)) = OfSchema(y)
    BY <1>4, <1>6, PickIs
  <1> QED
    BY <1>7 DEF LookupSchemaByName, S

\* Tables and views: o is in the rows at snapshot s, in schema y.
LEMMA LookupByIdIs ==
  ASSUME CatalogInv, NEW rows, NEW objs, Encodes(rows, objs, now), NEW s \in 0 .. now,
         NEW o \in objs[s], \A p \in objs[s] : p.id = o.id => p = o,
         NEW y \in history[s].schemas, y.id = o.schema
  PROVE  /\ LookupById(rows, s, o.id) = OfObject(o, y)
         /\ {JoinedObject(j) : j \in {k \in Joined(rows) :
               k[1].object.id = o.id /\ AliveAt(k[1], s) /\ AliveAt(k[2], s)}} = {OfObject(o, y)}
  <1> DEFINE S == {JoinedObject(j) : j \in {k \in Joined(rows) :
                     k[1].object.id = o.id /\ AliveAt(k[1], s) /\ AliveAt(k[2], s)}}
  <1>1. PICK r \in rows : AliveAt(r, s) /\ r.object = o
    BY DEF Encodes
  <1>2. PICK q \in schemaRows : AliveAt(q, s) /\ q.object = y
    BY DEF CatalogInv, RowsInv, Encodes, SchemasAt
  <1>3. <<r, q>> \in Joined(rows)
    BY <1>1, <1>2 DEF Joined
  <1>4. JoinedObject(<<r, q>>) = OfObject(o, y)
    BY <1>1, <1>2 DEF JoinedObject, OfObject
  <1>5. OfObject(o, y) \in S
    BY <1>1, <1>2, <1>3, <1>4
  <1>6. ASSUME NEW k \in Joined(rows), k[1].object.id = o.id, AliveAt(k[1], s), AliveAt(k[2], s)
        PROVE  JoinedObject(k) = OfObject(o, y)
    <2>1. k[1] \in rows /\ k[2] \in schemaRows /\ k[1].object.schema = k[2].object.id
      BY DEF Joined
    <2>2. k[1].object = o
      BY <1>6, <2>1 DEF Encodes
    <2>3. k[2].object = y
      BY <2>1, <2>2, SchemaRowIs
    <2> QED
      BY <2>2, <2>3 DEF JoinedObject, OfObject
  <1>7. \A w \in S : w = OfObject(o, y)
    BY <1>6
  <1> HIDE DEF S
  <1>8. Pick(S, Resolved(Null, Null, o.id, Null)) = OfObject(o, y)
    BY <1>5, <1>7, PickIs
  <1>9. S = {OfObject(o, y)}
    BY <1>5, <1>7
  <1> QED
    BY <1>8, <1>9 DEF LookupById, S

LEMMA LookupByNameIs ==
  ASSUME CatalogInv, NEW rows, NEW objs, Encodes(rows, objs, now), NEW s \in 1 .. now,
         NEW o \in objs[s], o \notin objs[s - 1],
         \A p \in objs[s] : p.schema = o.schema /\ p.name = o.name => p = o,
         \A p \in objs[s] : \E z \in history[s].schemas : z.id = p.schema,
         NEW y \in history[s].schemas, y.id = o.schema
  PROVE  LookupByName(rows, s, <<y.name, o.name>>) = OfObject(o, y)
  <1> DEFINE S == {JoinedObject(j) : j \in {k \in Joined(rows) :
                     k[1].begin = s /\ k[2].object.name = y.name /\ k[1].object.name = o.name}}
  <1>0. now \in Nat /\ s \in 0 .. now /\ s - 1 \in 0 .. now
    BY DEF CatalogInv, SoundInv
  <1>1. PICK r \in rows : AliveAt(r, s) /\ r.object = o
    BY <1>0 DEF Encodes
  <1>2. r.begin = s
    <2> SUFFICES ASSUME r.begin # s PROVE FALSE
      OBVIOUS
    <2>1. r.begin \in 0 .. now /\ r.end \in Int /\ r.begin <= s /\ r.end > s
      BY <1>1, CatalogAssumption DEF Encodes, AliveAt, Live
    <2>2. AliveAt(r, s - 1)
      BY <1>0, <2>1 DEF AliveAt
    <2> QED
      BY <1>0, <1>1, <2>2 DEF Encodes
  <1>3. PICK q \in schemaRows : AliveAt(q, s) /\ q.object = y
    BY <1>0 DEF CatalogInv, RowsInv, Encodes, SchemasAt
  <1>4. <<r, q>> \in Joined(rows)
    BY <1>1, <1>3 DEF Joined
  <1>5. JoinedObject(<<r, q>>) = OfObject(o, y)
    BY <1>1, <1>3 DEF JoinedObject, OfObject
  <1>6. OfObject(o, y) \in S
    BY <1>1, <1>2, <1>3, <1>4, <1>5
  <1>7. ASSUME NEW k \in Joined(rows),
               k[1].begin = s, k[2].object.name = y.name, k[1].object.name = o.name
        PROVE  JoinedObject(k) = OfObject(o, y)
    <2>1. k[1] \in rows /\ k[2] \in schemaRows /\ k[1].object.schema = k[2].object.id
      BY DEF Joined
    <2>2. AliveAt(k[1], s)
      BY <1>7, <1>0, <2>1 DEF Encodes, AliveAt
    <2>3. k[1].object \in objs[s]
      BY <1>0, <2>1, <2>2 DEF Encodes
    <2>4. PICK z \in history[s].schemas : z.id = k[1].object.schema
      BY <2>3
    <2>5. k[2].object = z
      BY <1>0, <2>1, <2>4, SchemaRowIs
    <2>6. z = y
      <3>1. \A x, v \in history[s].schemas : x.id = v.id \/ x.name = v.name => x = v
        BY <1>0 DEF CatalogInv, SoundInv, Sound
      <3>2. z.name = y.name
        BY <1>7, <2>5
      <3> QED
        BY <3>1, <3>2
    <2>7. k[1].object = o
      BY <1>7, <2>3, <2>4, <2>6
    <2> QED
      BY <2>5, <2>6, <2>7 DEF JoinedObject, OfObject
  <1>8. \A w \in S : w = OfObject(o, y)
    BY <1>7
  <1> DEFINE q0 == <<y.name, o.name>>
  <1>9. S = {JoinedObject(j) : j \in {k \in Joined(rows) :
               k[1].begin = s /\ k[2].object.name = q0[1] /\ k[1].object.name = q0[2]}}
    BY Zenon
  <1> HIDE DEF S, q0
  <1>10. Pick(S, Resolved(Null, q0[1], Null, q0[2])) = OfObject(o, y)
    BY <1>6, <1>8, PickIs
  <1>11. LookupByName(rows, s, q0) = OfObject(o, y)
    BY <1>9, <1>10 DEF LookupByName
  <1> QED
    BY <1>11 DEF q0

\* Ids and names are unique at every snapshot.
LEMMA SoundAt ==
  ASSUME CatalogInv, NEW s \in 0 .. now
  PROVE  /\ \A x, y \in history[s].schemas : x.id = y.id \/ x.name = y.name => x = y
         /\ \A x, y \in history[s].tables :
              x.id = y.id \/ (x.schema = y.schema /\ x.name = y.name) => x = y
         /\ \A x, y \in history[s].views :
              x.id = y.id \/ (x.schema = y.schema /\ x.name = y.name) => x = y
         /\ \A x \in history[s].tables \union history[s].views :
              \E y \in history[s].schemas : y.id = x.schema
  <1>1. Sound(history[s])
    BY DEF CatalogInv, SoundInv
  <1> QED
    BY <1>1 DEF Sound

\* What is in the rows of tables, at a snapshot.
LEMMA TablesAtIs ==
  ASSUME CatalogInv, NEW s \in 0 .. now
  PROVE  /\ \A p \in TablesAt[s] :
              \E x \in history[s].tables : /\ p = TableObject(x) /\ p.id = x.id
                                           /\ p.schema = x.schema /\ p.name = x.name
         /\ \A x \in history[s].tables : TableObject(x) \in TablesAt[s]
         /\ \A p, q \in TablesAt[s] :
              p.id = q.id \/ (p.schema = q.schema /\ p.name = q.name) => p = q
  <1>1. TablesAt[s] = {TableObject(x) : x \in history[s].tables}
    BY DEF TablesAt, TableObjects
  <1>2. \A p \in TablesAt[s] :
          \E x \in history[s].tables : /\ p = TableObject(x) /\ p.id = x.id
                                       /\ p.schema = x.schema /\ p.name = x.name
    BY <1>1 DEF TableObject
  <1>3. \A x \in history[s].tables : TableObject(x) \in TablesAt[s]
    BY <1>1
  <1>4. ASSUME NEW p \in TablesAt[s], NEW q \in TablesAt[s],
               p.id = q.id \/ (p.schema = q.schema /\ p.name = q.name)
        PROVE  p = q
    <2>1. PICK x \in history[s].tables : /\ p = TableObject(x) /\ p.id = x.id
                                         /\ p.schema = x.schema /\ p.name = x.name
      BY <1>2
    <2>2. PICK y \in history[s].tables : /\ q = TableObject(y) /\ q.id = y.id
                                         /\ q.schema = y.schema /\ q.name = y.name
      BY <1>2
    <2>3. x = y
      BY <1>4, <2>1, <2>2, SoundAt
    <2> QED
      BY <2>1, <2>2, <2>3
  <1> QED
    BY <1>2, <1>3, <1>4

\* The tables and views of the catalog, by their ids.
LEMMA TableByIdIs ==
  ASSUME CatalogInv, NEW s \in 0 .. now, NEW x \in history[s].tables,
         NEW y \in history[s].schemas, y.id = x.schema
  PROVE  /\ LookupById(tableRows, s, x.id) = OfObject(x, y)
         /\ ResolveTableByIdAt(s, x.id) = {OfObject(x, y)}
  <1> DEFINE o == TableObject(x)
  <1>1. o.id = x.id /\ o.schema = x.schema /\ o.name = x.name
    BY DEF TableObject
  <1>2. OfObject(o, y) = OfObject(x, y)
    BY <1>1 DEF OfObject
  <1>3. o \in TablesAt[s]
    BY DEF TablesAt, TableObjects
  <1>4. \A p \in TablesAt[s] : p.id = o.id => p = o
    BY <1>3, TablesAtIs
  <1>5. Encodes(tableRows, TablesAt, now)
    BY DEF CatalogInv, RowsInv
  <1> HIDE DEF o
  <1> QED
    BY <1>1, <1>2, <1>3, <1>4, <1>5, LookupByIdIs DEF ResolveTableByIdAt

LEMMA ViewByIdIs ==
  ASSUME CatalogInv, NEW s \in 0 .. now, NEW x \in history[s].views,
         NEW y \in history[s].schemas, y.id = x.schema
  PROVE  LookupById(viewRows, s, x.id) = OfObject(x, y)
  <1>1. x \in ViewsAt[s]
    BY DEF ViewsAt
  <1>2. \A p \in ViewsAt[s] : p.id = x.id => p = x
    BY DEF ViewsAt, CatalogInv, SoundInv, Sound
  <1>3. Encodes(viewRows, ViewsAt, now)
    BY DEF CatalogInv, RowsInv
  <1> QED
    BY <1>1, <1>2, <1>3, LookupByIdIs

\* ... and by their names, at the snapshot that brought them.
LEMMA QualifiedIs ==
  ASSUME CatalogInv, NEW s \in 0 .. now, NEW x, NEW y \in history[s].schemas, y.id = x.schema
  PROVE  Qualified(history[s], x) = <<y.name, x.name>>
  <1>1. \A z \in history[s].schemas : z.id = x.schema => z = y
    BY SoundAt
  <1>2. SchemaName(history[s], x.schema) = y.name
    BY <1>1 DEF SchemaName
  <1> QED
    BY <1>2 DEF Qualified

LEMMA TableByNameIs ==
  ASSUME CatalogInv, NEW s \in 1 .. now, NEW x \in history[s].tables,
         x \in New(history[s - 1].tables, history[s].tables)
               \union RenamedTables(history[s - 1], history[s]),
         NEW y \in history[s].schemas, y.id = x.schema
  PROVE  LookupByName(tableRows, s, Qualified(history[s], x)) = OfObject(x, y)
  <1> DEFINE o == TableObject(x)
  <1>0. now \in Nat /\ s \in 0 .. now /\ s - 1 \in 0 .. now
    BY DEF CatalogInv, SoundInv
  <1>1. o.id = x.id /\ o.schema = x.schema /\ o.name = x.name
    BY DEF TableObject
  <1>2. OfObject(o, y) = OfObject(x, y)
    BY <1>1 DEF OfObject
  <1>3. o \in TablesAt[s]
    BY <1>0 DEF TablesAt, TableObjects
  <1>4. o \notin TablesAt[s - 1]
    <2> SUFFICES ASSUME NEW w \in history[s - 1].tables, TableObject(w) = o PROVE FALSE
      BY <1>0 DEF TablesAt, TableObjects
    <2>1. w.id = x.id /\ w.name = x.name
      BY DEF TableObject
    <2>2. x \notin New(history[s - 1].tables, history[s].tables)
      BY <2>1 DEF New, Ids
    <2>3. PICK v \in history[s - 1].tables : v.id = x.id /\ v.name # x.name
      BY <2>2 DEF RenamedTables
    <2> QED
      BY <1>0, <2>1, <2>3, SoundAt
  <1>5. \A p \in TablesAt[s] : p.schema = o.schema /\ p.name = o.name => p = o
    BY <1>0, <1>1, <1>3, TablesAtIs
  <1>6. \A p \in TablesAt[s] : \E z \in history[s].schemas : z.id = p.schema
    BY <1>0, TablesAtIs, SoundAt
  <1>7. Encodes(tableRows, TablesAt, now)
    BY DEF CatalogInv, RowsInv
  <1>8. Qualified(history[s], x) = <<y.name, o.name>>
    BY <1>0, <1>1, QualifiedIs
  <1> HIDE DEF o
  <1>9. LookupByName(tableRows, s, <<y.name, o.name>>) = OfObject(o, y)
    BY <1>1, <1>3, <1>4, <1>5, <1>6, <1>7, LookupByNameIs
  <1> QED
    BY <1>2, <1>8, <1>9

LEMMA ViewByNameIs ==
  ASSUME CatalogInv, NEW s \in 1 .. now, NEW x \in New(history[s - 1].views, history[s].views),
         NEW y \in history[s].schemas, y.id = x.schema
  PROVE  LookupByName(viewRows, s, Qualified(history[s], x)) = OfObject(x, y)
  <1>0. now \in Nat /\ s \in 0 .. now /\ s - 1 \in 0 .. now /\ x \in history[s].views
    BY DEF CatalogInv, SoundInv, New
  <1>1. x \in ViewsAt[s] /\ x \notin ViewsAt[s - 1]
    BY <1>0 DEF ViewsAt, New, Ids
  <1>2. \A p \in ViewsAt[s] : p.schema = x.schema /\ p.name = x.name => p = x
    BY <1>0 DEF ViewsAt, CatalogInv, SoundInv, Sound
  <1>3. \A p \in ViewsAt[s] : \E z \in history[s].schemas : z.id = p.schema
    BY <1>0 DEF ViewsAt, CatalogInv, SoundInv, Sound
  <1>4. Encodes(viewRows, ViewsAt, now)
    BY DEF CatalogInv, RowsInv
  <1>5. Qualified(history[s], x) = <<y.name, x.name>>
    BY <1>0, QualifiedIs
  <1> QED
    BY <1>1, <1>2, <1>3, <1>4, <1>5, LookupByNameIs

\* The name a table had before snapshot s, if it was there.
LEMMA PreviousIs ==
  ASSUME CatalogInv, NEW s \in 1 .. now, NEW w \in history[s - 1].tables
  PROVE  PreviousTableName(w.id, s) = w.name
  <1> DEFINE past == {r \in tableRows : r.object.id = w.id /\ r.begin < s}
  <1>0. now \in Nat /\ s \in 0 .. now /\ s - 1 \in 0 .. now
    BY DEF CatalogInv, SoundInv
  <1>1. TableObject(w) \in TablesAt[s - 1]
    BY <1>0 DEF TablesAt, TableObjects
  <1>2. PICK r \in tableRows : AliveAt(r, s - 1) /\ r.object = TableObject(w)
    BY <1>0, <1>1 DEF CatalogInv, RowsInv, Encodes
  <1>3. \A q \in tableRows : q.begin \in 0 .. now /\ q.end \in Int /\ q.begin < q.end
    BY CatalogAssumption DEF CatalogInv, RowsInv, Encodes, Live
  <1>4. r \in past
    BY <1>0, <1>2, <1>3 DEF TableObject, AliveAt
  <1>5. ASSUME NEW q \in past, q.begin >= r.begin PROVE q = r
    <2>1. AliveAt(q, q.begin) /\ AliveAt(r, q.begin) /\ q.begin \in 0 .. now
      BY <1>0, <1>2, <1>3, <1>5 DEF AliveAt
    <2>2. q.object \in TablesAt[q.begin] /\ r.object \in TablesAt[q.begin]
      BY <2>1 DEF CatalogInv, RowsInv, Encodes
    <2>3. q.object.id = r.object.id
      BY <1>2 DEF TableObject
    <2>4. q.object = r.object
      BY <2>1, <2>2, <2>3, TablesAtIs
    <2> QED
      BY <2>1, <2>4 DEF CatalogInv, RowsInv, Encodes
  <1>6. past \subseteq tableRows
    OBVIOUS
  <1> HIDE DEF past
  <1>7. \A q \in past : q.begin <= r.begin
    BY <1>2, <1>3, <1>5, <1>6
  <1>8. (CHOOSE p \in past : \A q \in past : q.begin <= p.begin) = r
    BY <1>3, <1>4, <1>5, <1>6, <1>7
  <1>9. r.object.name = w.name
    BY <1>2 DEF TableObject
  <1> QED
    BY <1>4, <1>8, <1>9 DEF PreviousTableName, past

LEMMA NoPrevious ==
  ASSUME CatalogInv, NEW s \in 1 .. now, NEW x \in New(history[s - 1].tables, history[s].tables)
  PROVE  PreviousTableName(x.id, s) = Null
  <1>0. now \in Nat /\ s \in 0 .. now /\ s - 1 \in 0 .. now
    BY DEF CatalogInv, SoundInv
  <1>1. ASSUME NEW r \in tableRows, r.object.id = x.id, r.begin < s PROVE FALSE
    <2>1. r.begin \in 0 .. now /\ r.begin <= s - 1 /\ AliveAt(r, r.begin)
      BY <1>0, <1>1, CatalogAssumption DEF CatalogInv, RowsInv, Encodes, AliveAt, Live
    <2>2. PICK w \in history[r.begin].tables : r.object = TableObject(w)
      BY <2>1, TableAlive
    <2>3. w.id = x.id
      BY <1>1, <2>2 DEF TableObject
    <2>4. x.id \in Ids(history[r.begin].tables) /\ x.id \in Ids(history[s].tables)
      BY <2>2, <2>3 DEF Ids, New
    <2>5. x.id \in Ids(history[s - 1].tables)
      <3>1. Ids(history[r.begin].tables) \intersect Ids(history[s].tables)
              \subseteq Ids(history[s - 1].tables)
        <4>1. \A q, m, t \in 0 .. now : q <= m /\ m <= t =>
                Ids(history[q].tables) \intersect Ids(history[t].tables)
                  \subseteq Ids(history[m].tables)
          BY DEF CatalogInv, LifeInv
        <4>2. r.begin \in 0 .. now /\ r.begin <= s - 1 /\ s - 1 <= s
          BY <1>0, <2>1
        <4> QED
          BY <1>0, <4>1, <4>2
      <3> QED
        BY <2>4, <3>1
    <2> QED
      BY <2>5 DEF New
  <1> QED
    BY <1>1 DEF PreviousTableName

-----------------------------------------------------------------------------
(* The rows of a snapshot *)

LEMMA TokensAt ==
  ASSUME CatalogInv, NEW s \in 1 .. now
  PROVE  LET A == history[s - 1]
             B == history[s]
         IN  /\ changes[s].schemas_created = {x.name : x \in New(A.schemas, B.schemas)}
             /\ changes[s].schemas_dropped = Ids(A.schemas) \ Ids(B.schemas)
             /\ changes[s].tables_created =
                  {Qualified(B, x) : x \in New(A.tables, B.tables) \union RenamedTables(A, B)}
             /\ changes[s].tables_altered \ Ids(RenamedTables(A, B)) =
                  Ids(AlteredTables(A, B)) \ Ids(RenamedTables(A, B))
             /\ changes[s].tables_dropped = Ids(A.tables) \ Ids(B.tables)
             /\ changes[s].views_created = {Qualified(B, x) : x \in New(A.views, B.views)}
             /\ changes[s].views_dropped = Ids(A.views) \ Ids(B.views)
  <1> DEFINE A == history[s - 1]
             B == history[s]
  <1>1. PICK noise \in SUBSET Ids(RenamedTables(A, B)) : changes[s] = Tokens(A, B, noise)
    BY DEF CatalogInv, ChangesInv
  <1> HIDE DEF A, B
  <1>2. /\ changes[s].schemas_created = {x.name : x \in New(A.schemas, B.schemas)}
        /\ changes[s].schemas_dropped = Ids(A.schemas) \ Ids(B.schemas)
        /\ changes[s].tables_created =
             {Qualified(B, x) : x \in New(A.tables, B.tables) \union RenamedTables(A, B)}
        /\ changes[s].tables_altered = Ids(AlteredTables(A, B)) \union noise
        /\ changes[s].tables_dropped = Ids(A.tables) \ Ids(B.tables)
        /\ changes[s].views_created = {Qualified(B, x) : x \in New(A.views, B.views)}
        /\ changes[s].views_dropped = Ids(A.views) \ Ids(B.views)
    BY <1>1 DEF Tokens
  <1>3. changes[s].tables_altered \ Ids(RenamedTables(A, B)) =
          Ids(AlteredTables(A, B)) \ Ids(RenamedTables(A, B))
    BY <1>2
  <1> QED
    BY <1>2, <1>3 DEF A, B

\* The parts of a row that say what happened to what.
Tells(r, s, event, kind, object, was) ==
  r.snapshot = s /\ r.event = event /\ r.kind = kind /\ r.object = object /\ r.was = was

\* A created table is new, or has got another name; the row says which.
LEMMA CreatedTableRowIs ==
  ASSUME CatalogInv, NEW s \in 1 .. now, NEW x \in history[s].tables,
         NEW y \in history[s].schemas, y.id = x.schema
  PROVE  /\ x \in New(history[s - 1].tables, history[s].tables) =>
              /\ ~IsRename(s, Qualified(history[s], x))
              /\ Tells(CreatedTableRow(s, Qualified(history[s], x)),
                       s, "created", "table", OfObject(x, y), Null)
         /\ \A w \in history[s - 1].tables : w.id = x.id /\ w.name # x.name =>
              /\ IsRename(s, Qualified(history[s], x))
              /\ Tells(CreatedTableRow(s, Qualified(history[s], x)),
                       s, "altered", "table", OfObject(x, y), w.name)
  <1> DEFINE q == Qualified(history[s], x)
  <1>0. now \in Nat /\ s \in 0 .. now /\ s - 1 \in 0 .. now
    BY DEF CatalogInv, SoundInv
  <1>1. q[2] = x.name
    BY DEF Qualified
  <1>2. OfObject(x, y).id = x.id
    BY DEF OfObject, Resolved
  <1>3. ASSUME x \in New(history[s - 1].tables, history[s].tables)
        PROVE  ~IsRename(s, q) /\ Tells(CreatedTableRow(s, q), s, "created", "table", OfObject(x, y), Null)
    <2>1. LookupByName(tableRows, s, q) = OfObject(x, y)
      BY <1>3, TableByNameIs
    <2>2. PreviousTableName(x.id, s) = Null
      BY <1>3, NoPrevious
    <2> HIDE DEF q
    <2>3. ~IsRename(s, q)
      BY <1>2, <2>1, <2>2 DEF IsRename
    <2>4. CreatedTableRow(s, q) = [Row(s, "created", "table", OfObject(x, y)) EXCEPT
                                     !.columns = LookupTableColumnsAt(OfObject(x, y).id, s)]
      BY <2>1, <2>3 DEF CreatedTableRow
    <2> QED
      BY <2>3, <2>4 DEF Row, Tells
  <1>4. ASSUME NEW w \in history[s - 1].tables, w.id = x.id, w.name # x.name
        PROVE  IsRename(s, q) /\ Tells(CreatedTableRow(s, q), s, "altered", "table", OfObject(x, y), w.name)
    <2>1. LookupByName(tableRows, s, q) = OfObject(x, y)
      BY <1>4, TableByNameIs DEF RenamedTables
    <2>2. PreviousTableName(x.id, s) = w.name
      BY <1>4, PreviousIs
    <2>3. w.name \in Names /\ x.id \in Nat
      BY <1>0 DEF CatalogInv, SoundInv, Sound
    <2>4. w.name # Null /\ x.id # Null
      BY <2>3, DdlRowsAssumption
    <2> HIDE DEF q
    <2>5. IsRename(s, q)
      BY <1>1, <1>2, <1>4, <2>1, <2>2, <2>4 DEF IsRename
    <2>6. CreatedTableRow(s, q) = [Row(s, "altered", "table", OfObject(x, y)) EXCEPT
                                     !.was = w.name, !.diffs = AlterationAt(x.id, s)]
      BY <1>2, <2>1, <2>2, <2>5 DEF CreatedTableRow
    <2> QED
      BY <2>5, <2>6 DEF Row, Tells
  <1> QED
    BY <1>3, <1>4

LEMMA PromotedIs ==
  ASSUME CatalogInv, NEW s \in 1 .. now
  PROVE  Promoted(s) = Ids(RenamedTables(history[s - 1], history[s]))
  <1> DEFINE A == history[s - 1]
             B == history[s]
  <1>0. now \in Nat /\ s \in 0 .. now /\ s - 1 \in 0 .. now
    BY DEF CatalogInv, SoundInv
  <1>1. changes[s].tables_created =
          {Qualified(B, x) : x \in New(A.tables, B.tables) \union RenamedTables(A, B)}
    BY TokensAt
  <1>2. \A x \in B.tables : \E y \in B.schemas : y.id = x.schema
    BY <1>0, SoundAt
  <1>3. New(A.tables, B.tables) \subseteq B.tables /\ RenamedTables(A, B) \subseteq B.tables
    BY DEF New, RenamedTables
  <1>4. \A x \in New(A.tables, B.tables) : ~IsRename(s, Qualified(B, x))
    BY <1>2, <1>3, CreatedTableRowIs
  <1>5. ASSUME NEW x \in RenamedTables(A, B)
        PROVE  IsRename(s, Qualified(B, x)) /\ LookupByName(tableRows, s, Qualified(B, x)).id = x.id
    <2>1. PICK w \in A.tables : w.id = x.id /\ w.name # x.name
      BY DEF RenamedTables
    <2>2. PICK y \in B.schemas : y.id = x.schema
      BY <1>2, <1>3
    <2>3. x \in B.tables
      BY <1>3
    <2>4. IsRename(s, Qualified(B, x))
      BY <2>1, <2>2, <2>3, CreatedTableRowIs
    <2>5. LookupByName(tableRows, s, Qualified(B, x)) = OfObject(x, y)
      BY <2>2, <2>3, TableByNameIs
    <2> QED
      BY <2>4, <2>5 DEF OfObject, Resolved
  <1> HIDE DEF A, B
  <1>6. Promoted(s) \subseteq Ids(RenamedTables(A, B))
    BY <1>1, <1>4, <1>5 DEF Promoted, Ids
  <1>7. Ids(RenamedTables(A, B)) \subseteq Promoted(s)
    <2> SUFFICES ASSUME NEW x \in RenamedTables(A, B) PROVE x.id \in Promoted(s)
      BY DEF Ids
    <2>1. Qualified(B, x) \in {p \in changes[s].tables_created : IsRename(s, p)}
      BY <1>1, <1>5
    <2> QED
      BY <1>5, <2>1 DEF Promoted
  <1> QED
    BY <1>6, <1>7 DEF A, B

\* The rows of a snapshot, one by one.
SchemaCreated(s, r) ==
  \E x \in New(history[s - 1].schemas, history[s].schemas) :
    Tells(r, s, "created", "schema", OfSchema(x), Null)
SchemaDropped(s, r) ==
  \E x \in New(history[s].schemas, history[s - 1].schemas) :
    Tells(r, s, "dropped", "schema", OfSchema(x), Null)
TableCreated(s, r) ==
  \E x \in New(history[s - 1].tables, history[s].tables), y \in history[s].schemas :
    y.id = x.schema /\ Tells(r, s, "created", "table", OfObject(x, y), Null)
TableRenamed(s, r) ==
  \E w \in history[s - 1].tables, x \in history[s].tables, y \in history[s].schemas :
    /\ w.id = x.id /\ w.name # x.name /\ y.id = x.schema
    /\ Tells(r, s, "altered", "table", OfObject(x, y), w.name)
TableAltered(s, r) ==
  \E w \in history[s - 1].tables, x \in history[s].tables, y \in history[s].schemas :
    /\ w.id = x.id /\ w.name = x.name /\ w.columns # x.columns /\ y.id = x.schema
    /\ Tells(r, s, "altered", "table", OfObject(x, y), Null)
TableDropped(s, r) ==
  \E x \in New(history[s].tables, history[s - 1].tables), y \in history[s - 1].schemas :
    y.id = x.schema /\ Tells(r, s, "dropped", "table", OfObject(x, y), Null)
ViewCreated(s, r) ==
  \E x \in New(history[s - 1].views, history[s].views), y \in history[s].schemas :
    y.id = x.schema /\ Tells(r, s, "created", "view", OfObject(x, y), Null)
ViewDropped(s, r) ==
  \E x \in New(history[s].views, history[s - 1].views), y \in history[s - 1].schemas :
    y.id = x.schema /\ Tells(r, s, "dropped", "view", OfObject(x, y), Null)

\* Every row tells something that happened in its snapshot.
LEMMA RowsSound ==
  ASSUME CatalogInv, NEW s \in 1 .. now, NEW r \in RowsOf(s)
  PROVE  \/ SchemaCreated(s, r) \/ SchemaDropped(s, r)
         \/ TableCreated(s, r) \/ TableRenamed(s, r) \/ TableAltered(s, r) \/ TableDropped(s, r)
         \/ ViewCreated(s, r) \/ ViewDropped(s, r)
  <1> DEFINE A == history[s - 1]
             B == history[s]
  <1>0. now \in Nat /\ s \in 0 .. now /\ s - 1 \in 0 .. now
    BY DEF CatalogInv, SoundInv
  <1>1. /\ \A x \in B.tables \union B.views : \E y \in B.schemas : y.id = x.schema
        /\ \A x \in A.tables \union A.views : \E y \in A.schemas : y.id = x.schema
    BY <1>0, SoundAt
  <1>2. CASE \E n \in changes[s].schemas_created :
               r = Row(s, "created", "schema", LookupSchemaByName(s, n))
    <2>1. PICK x \in New(A.schemas, B.schemas) :
             r = Row(s, "created", "schema", LookupSchemaByName(s, x.name))
      BY <1>2, TokensAt
    <2>2. x \in B.schemas /\ x \notin A.schemas
      BY DEF New, Ids
    <2>3. LookupSchemaByName(s, x.name) = OfSchema(x)
      BY <2>2, LookupSchemaByNameIs
    <2>4. Tells(r, s, "created", "schema", OfSchema(x), Null)
      BY <2>1, <2>3 DEF Row, Tells
    <2> QED
      BY <2>4 DEF SchemaCreated
  <1>3. CASE \E q \in changes[s].tables_created : r = CreatedTableRow(s, q)
    <2>1. PICK x \in New(A.tables, B.tables) \union RenamedTables(A, B) :
             r = CreatedTableRow(s, Qualified(B, x))
      BY <1>3, TokensAt
    <2>2. x \in B.tables
      BY DEF New, RenamedTables
    <2>3. PICK y \in B.schemas : y.id = x.schema
      BY <1>1, <2>2
    <2>4. CASE x \in New(A.tables, B.tables)
      <3>1. Tells(r, s, "created", "table", OfObject(x, y), Null)
        BY <2>1, <2>2, <2>3, <2>4, CreatedTableRowIs
      <3> QED
        BY <2>3, <2>4, <3>1 DEF TableCreated
    <2>5. CASE x \in RenamedTables(A, B)
      <3>1. PICK w \in A.tables : w.id = x.id /\ w.name # x.name
        BY <2>5 DEF RenamedTables
      <3>2. Tells(r, s, "altered", "table", OfObject(x, y), w.name)
        BY <2>1, <2>2, <2>3, <3>1, CreatedTableRowIs
      <3> QED
        BY <2>2, <2>3, <3>1, <3>2 DEF TableRenamed
    <2> QED
      BY <2>4, <2>5
  <1>4. CASE \E id \in changes[s].tables_altered \ Promoted(s) : r = AlteredTableRow(s, id)
    <2>1. PICK id \in Ids(AlteredTables(A, B)) \ Ids(RenamedTables(A, B)) : r = AlteredTableRow(s, id)
      BY <1>4, TokensAt, PromotedIs
    <2>2. PICK x \in AlteredTables(A, B) : x.id = id
      BY DEF Ids
    <2>3. x \in B.tables /\ x \notin RenamedTables(A, B)
      BY <2>2 DEF AlteredTables, Ids
    <2>4. PICK w \in A.tables : w.id = x.id /\ w.columns # x.columns
      BY DEF AlteredTables
    <2>5. w.name = x.name
      BY <2>3, <2>4 DEF RenamedTables
    <2>6. PICK y \in B.schemas : y.id = x.schema
      BY <1>1, <2>3
    <2>7. LookupById(tableRows, s, x.id) = OfObject(x, y)
      BY <1>0, <2>3, <2>6, TableByIdIs
    <2>8. Tells(r, s, "altered", "table", OfObject(x, y), Null)
      BY <2>1, <2>2, <2>7 DEF AlteredTableRow, Row, Tells
    <2> QED
      BY <2>3, <2>4, <2>5, <2>6, <2>8 DEF TableAltered
  <1>5. CASE \E q \in changes[s].views_created :
               r = Row(s, "created", "view", LookupByName(viewRows, s, q))
    <2>1. PICK x \in New(A.views, B.views) :
             r = Row(s, "created", "view", LookupByName(viewRows, s, Qualified(B, x)))
      BY <1>5, TokensAt
    <2>2. PICK y \in B.schemas : y.id = x.schema
      BY <1>1 DEF New
    <2>3. LookupByName(viewRows, s, Qualified(B, x)) = OfObject(x, y)
      BY <2>2, ViewByNameIs
    <2>4. Tells(r, s, "created", "view", OfObject(x, y), Null)
      BY <2>1, <2>3 DEF Row, Tells
    <2> QED
      BY <2>2, <2>4 DEF ViewCreated
  <1>6. CASE \E id \in changes[s].schemas_dropped :
               r = Row(s, "dropped", "schema", LookupSchemaById(s - 1, id))
    <2>1. PICK id \in Ids(A.schemas) \ Ids(B.schemas) :
             r = Row(s, "dropped", "schema", LookupSchemaById(s - 1, id))
      BY <1>6, TokensAt
    <2>2. PICK x \in New(B.schemas, A.schemas) : x.id = id
      BY DEF New, Ids
    <2>3. x \in A.schemas
      BY DEF New
    <2>4. LookupSchemaById(s - 1, id) = OfSchema(x)
      BY <1>0, <2>2, <2>3, LookupSchemaByIdIs
    <2>5. Tells(r, s, "dropped", "schema", OfSchema(x), Null)
      BY <2>1, <2>4 DEF Row, Tells
    <2> QED
      BY <2>5 DEF SchemaDropped
  <1>7. CASE \E id \in changes[s].tables_dropped :
               r = Row(s, "dropped", "table", LookupById(tableRows, s - 1, id))
    <2>1. PICK id \in Ids(A.tables) \ Ids(B.tables) :
             r = Row(s, "dropped", "table", LookupById(tableRows, s - 1, id))
      BY <1>7, TokensAt
    <2>2. PICK x \in New(B.tables, A.tables) : x.id = id
      BY DEF New, Ids
    <2>3. x \in A.tables
      BY DEF New
    <2>4. PICK y \in A.schemas : y.id = x.schema
      BY <1>1, <2>3
    <2>5. LookupById(tableRows, s - 1, id) = OfObject(x, y)
      BY <1>0, <2>2, <2>3, <2>4, TableByIdIs
    <2>6. Tells(r, s, "dropped", "table", OfObject(x, y), Null)
      BY <2>1, <2>5 DEF Row, Tells
    <2> QED
      BY <2>4, <2>6 DEF TableDropped
  <1>8. CASE \E id \in changes[s].views_dropped :
               r = Row(s, "dropped", "view", LookupById(viewRows, s - 1, id))
    <2>1. PICK id \in Ids(A.views) \ Ids(B.views) :
             r = Row(s, "dropped", "view", LookupById(viewRows, s - 1, id))
      BY <1>8, TokensAt
    <2>2. PICK x \in New(B.views, A.views) : x.id = id
      BY DEF New, Ids
    <2>3. x \in A.views
      BY DEF New
    <2>4. PICK y \in A.schemas : y.id = x.schema
      BY <1>1, <2>3
    <2>5. LookupById(viewRows, s - 1, id) = OfObject(x, y)
      BY <1>0, <2>2, <2>3, <2>4, ViewByIdIs
    <2>6. Tells(r, s, "dropped", "view", OfObject(x, y), Null)
      BY <2>1, <2>5 DEF Row, Tells
    <2> QED
      BY <2>4, <2>6 DEF ViewDropped
  <1> QED
    <2> HIDE DEF A, B
    <2> QED
      BY <1>2, <1>3, <1>4, <1>5, <1>6, <1>7, <1>8 DEF RowsOf

\* Everything that happens in a snapshot has its row.
LEMMA SchemasTold ==
  ASSUME CatalogInv, NEW s \in 1 .. now
  PROVE  /\ \A x \in New(history[s - 1].schemas, history[s].schemas) :
              \E r \in RowsOf(s) : Tells(r, s, "created", "schema", OfSchema(x), Null)
         /\ \A x \in New(history[s].schemas, history[s - 1].schemas) :
              \E r \in RowsOf(s) : Tells(r, s, "dropped", "schema", OfSchema(x), Null)
  <1>0. now \in Nat /\ s \in 0 .. now /\ s - 1 \in 0 .. now
    BY DEF CatalogInv, SoundInv
  <1>1. ASSUME NEW x \in New(history[s - 1].schemas, history[s].schemas)
        PROVE  \E r \in RowsOf(s) : Tells(r, s, "created", "schema", OfSchema(x), Null)
    <2>1. x \in history[s].schemas /\ x \notin history[s - 1].schemas
      BY DEF New, Ids
    <2>2. LookupSchemaByName(s, x.name) = OfSchema(x)
      BY <2>1, LookupSchemaByNameIs
    <2>3. x.name \in changes[s].schemas_created
      BY TokensAt
    <2>4. Row(s, "created", "schema", LookupSchemaByName(s, x.name)) \in RowsOf(s)
      BY <2>3 DEF RowsOf
    <2>5. Tells(Row(s, "created", "schema", OfSchema(x)), s, "created", "schema", OfSchema(x), Null)
      BY DEF Row, Tells
    <2> QED
      BY <2>2, <2>4, <2>5
  <1>2. ASSUME NEW x \in New(history[s].schemas, history[s - 1].schemas)
        PROVE  \E r \in RowsOf(s) : Tells(r, s, "dropped", "schema", OfSchema(x), Null)
    <2>1. x \in history[s - 1].schemas /\ x.id \in Ids(history[s - 1].schemas) \ Ids(history[s].schemas)
      BY DEF New, Ids
    <2>2. LookupSchemaById(s - 1, x.id) = OfSchema(x)
      BY <1>0, <2>1, LookupSchemaByIdIs
    <2>3. x.id \in changes[s].schemas_dropped
      BY <2>1, TokensAt
    <2>4. Row(s, "dropped", "schema", LookupSchemaById(s - 1, x.id)) \in RowsOf(s)
      BY <2>3 DEF RowsOf
    <2>5. Tells(Row(s, "dropped", "schema", OfSchema(x)), s, "dropped", "schema", OfSchema(x), Null)
      BY DEF Row, Tells
    <2> QED
      BY <2>2, <2>4, <2>5
  <1> QED
    BY <1>1, <1>2

LEMMA ViewsTold ==
  ASSUME CatalogInv, NEW s \in 1 .. now
  PROVE  /\ \A x \in New(history[s - 1].views, history[s].views), y \in history[s].schemas :
              y.id = x.schema =>
                \E r \in RowsOf(s) : Tells(r, s, "created", "view", OfObject(x, y), Null)
         /\ \A x \in New(history[s].views, history[s - 1].views), y \in history[s - 1].schemas :
              y.id = x.schema =>
                \E r \in RowsOf(s) : Tells(r, s, "dropped", "view", OfObject(x, y), Null)
  <1>0. now \in Nat /\ s \in 0 .. now /\ s - 1 \in 0 .. now
    BY DEF CatalogInv, SoundInv
  <1>1. ASSUME NEW x \in New(history[s - 1].views, history[s].views), NEW y \in history[s].schemas,
               y.id = x.schema
        PROVE  \E r \in RowsOf(s) : Tells(r, s, "created", "view", OfObject(x, y), Null)
    <2> DEFINE q == Qualified(history[s], x)
    <2>1. LookupByName(viewRows, s, q) = OfObject(x, y)
      BY <1>1, ViewByNameIs
    <2>2. q \in changes[s].views_created
      BY TokensAt
    <2> HIDE DEF q
    <2>3. Row(s, "created", "view", LookupByName(viewRows, s, q)) \in RowsOf(s)
      BY <2>2 DEF RowsOf
    <2>4. Tells(Row(s, "created", "view", OfObject(x, y)), s, "created", "view", OfObject(x, y), Null)
      BY DEF Row, Tells
    <2> QED
      BY <2>1, <2>3, <2>4
  <1>2. ASSUME NEW x \in New(history[s].views, history[s - 1].views),
               NEW y \in history[s - 1].schemas, y.id = x.schema
        PROVE  \E r \in RowsOf(s) : Tells(r, s, "dropped", "view", OfObject(x, y), Null)
    <2>1. x \in history[s - 1].views /\ x.id \in Ids(history[s - 1].views) \ Ids(history[s].views)
      BY DEF New, Ids
    <2>2. LookupById(viewRows, s - 1, x.id) = OfObject(x, y)
      BY <1>0, <1>2, <2>1, ViewByIdIs
    <2>3. x.id \in changes[s].views_dropped
      BY <2>1, TokensAt
    <2>4. Row(s, "dropped", "view", LookupById(viewRows, s - 1, x.id)) \in RowsOf(s)
      BY <2>3 DEF RowsOf
    <2>5. Tells(Row(s, "dropped", "view", OfObject(x, y)), s, "dropped", "view", OfObject(x, y), Null)
      BY DEF Row, Tells
    <2> QED
      BY <2>2, <2>4, <2>5
  <1> QED
    BY <1>1, <1>2

LEMMA TablesTold ==
  ASSUME CatalogInv, NEW s \in 1 .. now
  PROVE  /\ \A x \in New(history[s - 1].tables, history[s].tables), y \in history[s].schemas :
              y.id = x.schema =>
                \E r \in RowsOf(s) : Tells(r, s, "created", "table", OfObject(x, y), Null)
         /\ \A w \in history[s - 1].tables, x \in history[s].tables, y \in history[s].schemas :
              y.id = x.schema /\ w.id = x.id =>
                /\ w.name # x.name =>
                     \E r \in RowsOf(s) : Tells(r, s, "altered", "table", OfObject(x, y), w.name)
                /\ w.name = x.name /\ w.columns # x.columns =>
                     \E r \in RowsOf(s) : Tells(r, s, "altered", "table", OfObject(x, y), Null)
         /\ \A x \in New(history[s].tables, history[s - 1].tables), y \in history[s - 1].schemas :
              y.id = x.schema =>
                \E r \in RowsOf(s) : Tells(r, s, "dropped", "table", OfObject(x, y), Null)
  <1> DEFINE A == history[s - 1]
             B == history[s]
  <1>0. now \in Nat /\ s \in 0 .. now /\ s - 1 \in 0 .. now
    BY DEF CatalogInv, SoundInv
  <1>1. \A q \in changes[s].tables_created : CreatedTableRow(s, q) \in RowsOf(s)
    BY DEF RowsOf
  <1>2. \A x \in New(A.tables, B.tables) \union RenamedTables(A, B) :
          Qualified(B, x) \in changes[s].tables_created
    BY TokensAt
  <1>3. ASSUME NEW x \in New(A.tables, B.tables), NEW y \in B.schemas, y.id = x.schema
        PROVE  \E r \in RowsOf(s) : Tells(r, s, "created", "table", OfObject(x, y), Null)
    <2>1. Tells(CreatedTableRow(s, Qualified(B, x)), s, "created", "table", OfObject(x, y), Null)
      BY <1>3, CreatedTableRowIs DEF New
    <2> QED
      BY <1>1, <1>2, <2>1
  <1>4. ASSUME NEW w \in A.tables, NEW x \in B.tables, NEW y \in B.schemas,
               y.id = x.schema, w.id = x.id, w.name # x.name
        PROVE  \E r \in RowsOf(s) : Tells(r, s, "altered", "table", OfObject(x, y), w.name)
    <2>1. Tells(CreatedTableRow(s, Qualified(B, x)), s, "altered", "table", OfObject(x, y), w.name)
      BY <1>4, CreatedTableRowIs
    <2>2. x \in RenamedTables(A, B)
      BY <1>4 DEF RenamedTables
    <2> QED
      BY <1>1, <1>2, <2>1, <2>2
  <1>5. ASSUME NEW w \in A.tables, NEW x \in B.tables, NEW y \in B.schemas,
               y.id = x.schema, w.id = x.id, w.name = x.name, w.columns # x.columns
        PROVE  \E r \in RowsOf(s) : Tells(r, s, "altered", "table", OfObject(x, y), Null)
    <2>1. x \in AlteredTables(A, B)
      BY <1>5 DEF AlteredTables
    <2>2. x.id \notin Ids(RenamedTables(A, B))
      <3> SUFFICES ASSUME NEW z \in RenamedTables(A, B), z.id = x.id PROVE FALSE
        BY DEF Ids
      <3>1. z \in B.tables
        BY DEF RenamedTables
      <3>2. z = x
        BY <1>0, <3>1, SoundAt
      <3>3. PICK v \in A.tables : v.id = x.id /\ v.name # x.name
        BY <3>2 DEF RenamedTables
      <3>4. v = w
        BY <1>0, <1>5, <3>3, SoundAt
      <3> QED
        BY <1>5, <3>3, <3>4
    <2>3. x.id \in Ids(AlteredTables(A, B)) \ Ids(RenamedTables(A, B))
      BY <2>1, <2>2 DEF Ids
    <2>4. x.id \in changes[s].tables_altered \ Promoted(s)
      BY <2>3, TokensAt, PromotedIs
    <2>5. AlteredTableRow(s, x.id) \in RowsOf(s)
      BY <2>4 DEF RowsOf
    <2>6. LookupById(tableRows, s, x.id) = OfObject(x, y)
      BY <1>0, <1>5, TableByIdIs
    <2>7. Tells(AlteredTableRow(s, x.id), s, "altered", "table", OfObject(x, y), Null)
      BY <2>6 DEF AlteredTableRow, Row, Tells
    <2> QED
      BY <2>5, <2>7
  <1>6. ASSUME NEW x \in New(B.tables, A.tables), NEW y \in A.schemas, y.id = x.schema
        PROVE  \E r \in RowsOf(s) : Tells(r, s, "dropped", "table", OfObject(x, y), Null)
    <2>1. x \in A.tables /\ x.id \in Ids(A.tables) \ Ids(B.tables)
      BY DEF New, Ids
    <2>2. LookupById(tableRows, s - 1, x.id) = OfObject(x, y)
      BY <1>0, <1>6, <2>1, TableByIdIs
    <2>3. x.id \in changes[s].tables_dropped
      BY <2>1, TokensAt
    <2>4. Row(s, "dropped", "table", LookupById(tableRows, s - 1, x.id)) \in RowsOf(s)
      BY <2>3 DEF RowsOf
    <2>5. Tells(Row(s, "dropped", "table", OfObject(x, y)), s, "dropped", "table", OfObject(x, y), Null)
      BY DEF Row, Tells
    <2> QED
      BY <2>2, <2>4, <2>5
  <1> HIDE DEF A, B
  <1> QED
    BY <1>3, <1>4, <1>5, <1>6 DEF A, B

-----------------------------------------------------------------------------
(* Ticks *)

\* Whether a table is of those a subscription is about.
Follows(sub, x) == IF sub.scope = "schema" THEN x.schema = sub.schema ELSE x.id = sub.table

Covered(sub, s) == {r \in RowsOf(s) : Covers(sub, r)}

Changed(S, T) == (S \ T) \union (T \ S)

Scoped(sub) == sub.scope \in {"schema", "table"}

LEMMA CoversTable ==
  ASSUME NEW sub, Scoped(sub), NEW r, NEW s, NEW event, NEW x, NEW y, NEW was,
         y.id = x.schema, Tells(r, s, event, "table", OfObject(x, y), was)
  PROVE  /\ Covers(sub, r) <=> Follows(sub, x)
         /\ r.kind = "table" /\ r.object.id = x.id
  BY DEF Scoped, Tells, OfObject, Resolved, Covers, Follows

\* A row of a table that is followed tells a change of what is followed.
LEMMA TableChangeTold ==
  ASSUME CatalogInv, NEW s \in 1 .. now, NEW sub, Scoped(sub),
         NEW r \in Covered(sub, s), r.kind = "table"
  PROVE  \E x \in Changed(Part(history[s - 1], sub).tables, Part(history[s], sub).tables) :
           x.id = r.object.id
  <1> DEFINE A == history[s - 1]
             B == history[s]
  <1>0. now \in Nat /\ s \in 0 .. now /\ s - 1 \in 0 .. now
    BY DEF CatalogInv, SoundInv
  <1>1. \A C, x : x \in Part(C, sub).tables <=> x \in C.tables /\ Follows(sub, x)
    BY DEF Scoped, Part, Follows
  <1>2. r \in RowsOf(s) /\ Covers(sub, r)
    BY DEF Covered
  <1>3. TableCreated(s, r) \/ TableRenamed(s, r) \/ TableAltered(s, r) \/ TableDropped(s, r)
    BY <1>2, RowsSound DEF SchemaCreated, SchemaDropped, ViewCreated, ViewDropped, Tells
  <1>4. \A x, y \in A.tables : x.id = y.id => x = y
    BY <1>0, SoundAt
  <1>5. CASE TableCreated(s, r)
    <2>1. PICK x \in New(A.tables, B.tables), y \in B.schemas :
            y.id = x.schema /\ Tells(r, s, "created", "table", OfObject(x, y), Null)
      BY <1>5 DEF TableCreated
    <2>2. x \in B.tables /\ x \notin A.tables
      BY DEF New, Ids
    <2>3. Follows(sub, x) /\ r.object.id = x.id
      BY <1>2, <2>1, CoversTable
    <2> QED
      BY <1>1, <2>2, <2>3 DEF Changed
  <1>6. CASE TableDropped(s, r)
    <2>1. PICK x \in New(B.tables, A.tables), y \in A.schemas :
            y.id = x.schema /\ Tells(r, s, "dropped", "table", OfObject(x, y), Null)
      BY <1>6 DEF TableDropped
    <2>2. x \in A.tables /\ x \notin B.tables
      BY DEF New, Ids
    <2>3. Follows(sub, x) /\ r.object.id = x.id
      BY <1>2, <2>1, CoversTable
    <2> QED
      BY <1>1, <2>2, <2>3 DEF Changed
  <1>7. CASE TableRenamed(s, r) \/ TableAltered(s, r)
    <2>1. PICK w \in A.tables, x \in B.tables, y \in B.schemas :
            /\ w.id = x.id /\ w # x /\ y.id = x.schema
            /\ \E was : Tells(r, s, "altered", "table", OfObject(x, y), was)
      BY <1>7 DEF TableRenamed, TableAltered
    <2>2. x \notin A.tables
      BY <1>4, <2>1
    <2>3. Follows(sub, x) /\ r.object.id = x.id
      BY <1>2, <2>1, CoversTable
    <2> QED
      BY <1>1, <2>1, <2>2, <2>3 DEF Changed
  <1> QED
    BY <1>3, <1>5, <1>6, <1>7

\* Tables that have the same id, schema, name and columns are the same.
LEMMA TablesDiffer ==
  ASSUME CatalogInv, NEW s \in 0 .. now, NEW t \in 0 .. now,
         NEW w \in history[s].tables, NEW x \in history[t].tables, w.id = x.id
  PROVE  /\ w.schema = x.schema
         /\ w # x => w.name # x.name \/ w.columns # x.columns
  <1>1. w.schema = x.schema
    BY DEF CatalogInv, LifeInv
  <1>2. w = [id |-> w.id, schema |-> w.schema, name |-> w.name, columns |-> w.columns]
    BY DEF CatalogInv, SoundInv, Sound
  <1>3. x = [id |-> x.id, schema |-> x.schema, name |-> x.name, columns |-> x.columns]
    BY DEF CatalogInv, SoundInv, Sound
  <1> QED
    BY <1>1, <1>2, <1>3

\* A change of a table that is followed has its row.
LEMMA TableChangeCovered ==
  ASSUME CatalogInv, NEW s \in 1 .. now, NEW sub, Scoped(sub),
         NEW x \in Changed(Part(history[s - 1], sub).tables, Part(history[s], sub).tables)
  PROVE  \E r \in Covered(sub, s) : r.kind = "table" /\ r.object.id = x.id
  <1> DEFINE A == history[s - 1]
             B == history[s]
  <1>0. now \in Nat /\ s \in 0 .. now /\ s - 1 \in 0 .. now
    BY DEF CatalogInv, SoundInv
  <1>1. \A C, z : z \in Part(C, sub).tables <=> z \in C.tables /\ Follows(sub, z)
    BY DEF Scoped, Part, Follows
  <1>2. Follows(sub, x) /\ (x \in A.tables \ B.tables \/ x \in B.tables \ A.tables)
    BY <1>1 DEF Changed
  <1>3. /\ \A z \in A.tables : \E y \in A.schemas : y.id = z.schema
        /\ \A z \in B.tables : \E y \in B.schemas : y.id = z.schema
    BY <1>0, SoundAt
  <1>4. ASSUME NEW r \in RowsOf(s), NEW event, NEW z, NEW y, NEW was, y.id = z.schema,
               z.id = x.id, z.schema = x.schema, Tells(r, s, event, "table", OfObject(z, y), was)
        PROVE  \E q \in Covered(sub, s) : q.kind = "table" /\ q.object.id = x.id
    <2>1. Follows(sub, z)
      BY <1>2, <1>4 DEF Follows
    <2> QED
      BY <1>4, <2>1, CoversTable DEF Covered
  <1>5. ASSUME NEW w \in A.tables, NEW z \in B.tables, w.id = z.id, w # z,
               w.id = x.id, w.schema = x.schema \/ z.schema = x.schema
        PROVE  \E r \in Covered(sub, s) : r.kind = "table" /\ r.object.id = x.id
    <2>1. w.schema = z.schema /\ (w.name # z.name \/ w.columns # z.columns)
      <3>1. \A u, v : u \in A.tables /\ v \in B.tables /\ u.id = v.id =>
              u.schema = v.schema /\ (u # v => u.name # v.name \/ u.columns # v.columns)
        BY <1>0, TablesDiffer
      <3> QED
        BY <1>5, <3>1
    <2>2. PICK y \in B.schemas : y.id = z.schema
      BY <1>3
    <2>3. \E r \in RowsOf(s) : \E was : Tells(r, s, "altered", "table", OfObject(z, y), was)
      BY <1>5, <2>1, <2>2, TablesTold
    <2> QED
      BY <1>4, <1>5, <2>1, <2>2, <2>3
  <1>6. CASE x \in A.tables \ B.tables
    <2>1. CASE \E z \in B.tables : z.id = x.id
      BY <1>5, <1>6, <2>1
    <2>2. CASE ~ \E z \in B.tables : z.id = x.id
      <3>1. x \in New(B.tables, A.tables)
        BY <1>6, <2>2 DEF New, Ids
      <3>2. PICK y \in A.schemas : y.id = x.schema
        BY <1>3, <1>6
      <3> QED
        BY <1>4, <3>1, <3>2, TablesTold
    <2> QED
      BY <2>1, <2>2
  <1>7. CASE x \in B.tables \ A.tables
    <2>1. CASE \E w \in A.tables : w.id = x.id
      BY <1>5, <1>7, <2>1
    <2>2. CASE ~ \E w \in A.tables : w.id = x.id
      <3>1. x \in New(A.tables, B.tables)
        BY <1>7, <2>2 DEF New, Ids
      <3>2. PICK y \in B.schemas : y.id = x.schema
        BY <1>3, <1>7
      <3> QED
        BY <1>4, <3>1, <3>2, TablesTold
    <2> QED
      BY <2>1, <2>2
  <1> QED
    BY <1>2, <1>6, <1>7

\* So it is with schemas, and with views, of which there is but the one of an id.
LEMMA SchemaChanges ==
  ASSUME CatalogInv, NEW s \in 1 .. now, NEW sub, sub.scope = "schema"
  PROVE  Part(history[s - 1], sub).schemas # Part(history[s], sub).schemas
           <=> \E r \in Covered(sub, s) : r.kind = "schema"
  <1> DEFINE A == history[s - 1]
             B == history[s]
  <1>0. now \in Nat /\ s \in 0 .. now /\ s - 1 \in 0 .. now
    BY DEF CatalogInv, SoundInv
  <1>1. \A C : Part(C, sub).schemas = {x \in C.schemas : x.id = sub.schema}
    BY DEF Part
  <1>2. \A x \in A.schemas, y \in B.schemas : x.id = y.id => x = y
    BY <1>0 DEF CatalogInv, LifeInv
  <1>3. \A r, event, x : Tells(r, s, event, "schema", OfSchema(x), Null) =>
          r.kind = "schema" /\ (Covers(sub, r) <=> x.id = sub.schema)
    BY DEF Tells, OfSchema, Resolved, Covers
  <1>4. ASSUME NEW r \in Covered(sub, s), r.kind = "schema"
        PROVE  Part(A, sub).schemas # Part(B, sub).schemas
    <2>1. SchemaCreated(s, r) \/ SchemaDropped(s, r)
      BY <1>4, RowsSound DEF Covered, TableCreated, TableRenamed, TableAltered, TableDropped,
           ViewCreated, ViewDropped, Tells
    <2>2. PICK x, event : /\ x \in New(A.schemas, B.schemas) \union New(B.schemas, A.schemas)
                          /\ Tells(r, s, event, "schema", OfSchema(x), Null)
      BY <2>1 DEF SchemaCreated, SchemaDropped
    <2>3. x.id = sub.schema
      BY <1>3, <2>2 DEF Covered
    <2>4. x \in (A.schemas \ B.schemas) \union (B.schemas \ A.schemas)
      BY <2>2 DEF New, Ids
    <2> HIDE DEF A, B
    <2> QED
      BY <1>1, <2>3, <2>4
  <1>5. ASSUME Part(A, sub).schemas # Part(B, sub).schemas
        PROVE  \E r \in Covered(sub, s) : r.kind = "schema"
    <2>1. PICK x : /\ x \in (A.schemas \ B.schemas) \union (B.schemas \ A.schemas)
                   /\ x.id = sub.schema
      <3> HIDE DEF A, B
      <3> QED
        BY <1>1, <1>5
    <2>2. x \in New(A.schemas, B.schemas) \union New(B.schemas, A.schemas)
      BY <1>2, <2>1 DEF New, Ids
    <2>3. PICK r \in RowsOf(s) : \E event : Tells(r, s, event, "schema", OfSchema(x), Null)
      BY <2>2, SchemasTold
    <2> QED
      BY <1>3, <2>1, <2>3 DEF Covered
  <1> QED
    BY <1>4, <1>5

LEMMA ViewChanges ==
  ASSUME CatalogInv, NEW s \in 1 .. now, NEW sub, sub.scope = "schema"
  PROVE  Part(history[s - 1], sub).views # Part(history[s], sub).views
           <=> \E r \in Covered(sub, s) : r.kind = "view"
  <1> DEFINE A == history[s - 1]
             B == history[s]
  <1>0. now \in Nat /\ s \in 0 .. now /\ s - 1 \in 0 .. now
    BY DEF CatalogInv, SoundInv
  <1>1. \A C : Part(C, sub).views = {x \in C.views : x.schema = sub.schema}
    BY DEF Part
  <1>2. /\ \A x \in A.views, y \in B.views : x.id = y.id => x = y
        /\ \A x \in A.views : \E y \in A.schemas : y.id = x.schema
        /\ \A x \in B.views : \E y \in B.schemas : y.id = x.schema
    <2>1. \A x \in A.views, y \in B.views : x.id = y.id => x = y
      BY <1>0 DEF CatalogInv, LifeInv
    <2> QED
      BY <1>0, <2>1, SoundAt
  <1>3. \A r, event, x, y : y.id = x.schema /\ Tells(r, s, event, "view", OfObject(x, y), Null) =>
          r.kind = "view" /\ (Covers(sub, r) <=> x.schema = sub.schema)
    BY DEF Tells, OfObject, Resolved, Covers
  <1>4. ASSUME NEW r \in Covered(sub, s), r.kind = "view"
        PROVE  Part(A, sub).views # Part(B, sub).views
    <2>1. ViewCreated(s, r) \/ ViewDropped(s, r)
      BY <1>4, RowsSound DEF Covered, TableCreated, TableRenamed, TableAltered, TableDropped,
           SchemaCreated, SchemaDropped, Tells
    <2>2. PICK x, y, event : /\ x \in New(A.views, B.views) \union New(B.views, A.views)
                             /\ y.id = x.schema /\ Tells(r, s, event, "view", OfObject(x, y), Null)
      BY <2>1 DEF ViewCreated, ViewDropped
    <2>3. x.schema = sub.schema
      BY <1>3, <2>2 DEF Covered
    <2>4. x \in (A.views \ B.views) \union (B.views \ A.views)
      BY <2>2 DEF New, Ids
    <2> HIDE DEF A, B
    <2> QED
      BY <1>1, <2>3, <2>4
  <1>5. ASSUME Part(A, sub).views # Part(B, sub).views
        PROVE  \E r \in Covered(sub, s) : r.kind = "view"
    <2>1. PICK x : /\ x \in (A.views \ B.views) \union (B.views \ A.views)
                   /\ x.schema = sub.schema
      <3> HIDE DEF A, B
      <3> QED
        BY <1>1, <1>5
    <2>2. x \in New(A.views, B.views) \union New(B.views, A.views)
      BY <1>2, <2>1 DEF New, Ids
    <2>3. \E r \in RowsOf(s) : \E event, y : y.id = x.schema /\ Tells(r, s, event, "view", OfObject(x, y), Null)
      <3>1. CASE x \in New(A.views, B.views)
        <4>1. PICK y \in B.schemas : y.id = x.schema
          BY <1>2, <3>1 DEF New
        <4> QED
          BY <3>1, <4>1, ViewsTold
      <3>2. CASE x \in New(B.views, A.views)
        <4>1. PICK y \in A.schemas : y.id = x.schema
          BY <1>2, <3>2 DEF New
        <4> QED
          BY <3>2, <4>1, ViewsTold
      <3> QED
        BY <2>2, <3>1, <3>2
    <2> QED
      BY <1>3, <2>1, <2>3 DEF Covered
  <1> QED
    BY <1>4, <1>5

\* With one subscription, whose rows are those it covers.
LEMMA TicksAre ==
  ASSUME NEW s, NEW sub
  PROVE  /\ AppendDdlTickRows(s, {sub}) = <<>> <=> Covered(sub, s) = {}
         /\ AppendDdlTickRows(s, {sub}) # <<>> =>
              AppendDdlTickRows(s, {sub})[1].tables =
                {r.object.id : r \in {q \in Covered(sub, s) : q.kind = "table"}}
  <1> DEFINE rows == {r \in RowsOf(s) : \E u \in {sub} : Covers(u, r)}
             tick == [schemas |-> {r.object.schema : r \in rows},
                      tables |-> {r.object.id : r \in {q \in rows : q.kind = "table"}}]
  <1>1. rows = Covered(sub, s)
    BY Zenon DEF Covered
  <1>2. AppendDdlTickRows(s, {sub}) = IF rows = {} THEN <<>> ELSE <<tick>>
    BY Zenon DEF AppendDdlTickRows
  <1>3. tick.tables = {r.object.id : r \in {q \in rows : q.kind = "table"}}
    OBVIOUS
  <1> HIDE DEF tick
  <1>4. <<tick>> # <<>> /\ <<tick>>[1] = tick
    OBVIOUS
  <1> HIDE DEF rows
  <1>5. CASE rows = {}
    <2>1. AppendDdlTickRows(s, {sub}) = <<>>
      BY <1>2, <1>5, Zenon
    <2> QED
      BY <1>1, <1>5, <2>1, Zenon
  <1>6. CASE rows # {}
    <2>1. AppendDdlTickRows(s, {sub}) = <<tick>>
      BY <1>2, <1>6, Zenon
    <2> QED
      BY <1>1, <1>3, <1>4, <1>6, <2>1, Zenon
  <1> QED
    BY <1>5, <1>6

\* A snapshot has a tick for a consumer if and only if it changed something the
\* consumer follows, and the tick names the tables that changed
\* (ddl.cpp:1210-1262).
THEOREM Ticks == Spec => []TicksWhereChanged
  <1>1. CatalogInv /\ SubscriptionInv => TicksWhereChanged
    <2> SUFFICES ASSUME CatalogInv, SubscriptionInv, now > 0, subscription # Null
                 PROVE  LET A == Part(history[now - 1], subscription)
                            B == Part(history[now], subscription)
                            ticks == AppendDdlTickRows(now, {subscription})
                        IN  /\ ticks = <<>> <=> A = B
                            /\ ticks # <<>> => ticks[1].tables =
                                 Ids((A.tables \ B.tables) \union (B.tables \ A.tables))
      BY DEF TicksWhereChanged
    <2> DEFINE s == now
               sub == subscription
               A == Part(history[s - 1], sub)
               B == Part(history[s], sub)
    <2>1. s \in 1 .. now
      BY DEF CatalogInv, SoundInv
    <2>2. Scoped(sub)
      BY DEF SubscriptionInv, Scoped, SchemaSubscription, TableSubscription
    <2>3. {r.object.id : r \in {q \in Covered(sub, s) : q.kind = "table"}}
            = Ids(Changed(A.tables, B.tables))
      <3>1. \A r \in Covered(sub, s) : r.kind = "table" =>
              \E x \in Changed(A.tables, B.tables) : x.id = r.object.id
        BY <2>1, <2>2, TableChangeTold
      <3>2. \A x \in Changed(A.tables, B.tables) :
              \E r \in Covered(sub, s) : r.kind = "table" /\ r.object.id = x.id
        BY <2>1, <2>2, TableChangeCovered
      <3> HIDE DEF A, B, s, sub
      <3> QED
        BY <3>1, <3>2 DEF Ids
    <2>4. (\E r \in Covered(sub, s) : r.kind = "table") <=> A.tables # B.tables
      <3>1. A.tables # B.tables <=> Changed(A.tables, B.tables) # {}
        BY DEF Changed
      <3> HIDE DEF A, B, s, sub
      <3> QED
        BY <2>3, <3>1 DEF Ids
    <2>5. \A r \in Covered(sub, s) : r.kind \in {"schema", "table", "view"}
      BY <2>1, RowsSound DEF Covered, SchemaCreated, SchemaDropped, TableCreated, TableRenamed,
           TableAltered, TableDropped, ViewCreated, ViewDropped, Tells
    <2>6. Covered(sub, s) = {} <=> A = B
      <3>1. CASE sub.scope = "schema"
        <4>1. /\ A.schemas # B.schemas <=> \E r \in Covered(sub, s) : r.kind = "schema"
              /\ A.views # B.views <=> \E r \in Covered(sub, s) : r.kind = "view"
          BY <2>1, <3>1, SchemaChanges, ViewChanges
        <4>2. /\ A = [schemas |-> A.schemas, tables |-> A.tables, views |-> A.views]
              /\ B = [schemas |-> B.schemas, tables |-> B.tables, views |-> B.views]
          BY <3>1 DEF Part
        <4> HIDE DEF A, B, s, sub
        <4>3. A = B <=> A.schemas = B.schemas /\ A.tables = B.tables /\ A.views = B.views
          BY <4>2
        <4> QED
          BY <2>4, <2>5, <4>1, <4>3
      <3>2. CASE sub.scope = "table"
        <4>1. \A r \in Covered(sub, s) : r.kind = "table"
          BY <3>2 DEF Covered, Covers
        <4>2. /\ A = [schemas |-> {}, tables |-> A.tables, views |-> {}]
              /\ B = [schemas |-> {}, tables |-> B.tables, views |-> {}]
          BY <3>2 DEF Part
        <4> HIDE DEF A, B, s, sub
        <4>3. A = B <=> A.tables = B.tables
          BY <4>2
        <4> QED
          BY <2>4, <4>1, <4>3
      <3> QED
        BY <2>2, <3>1, <3>2 DEF Scoped
    <2>7. /\ AppendDdlTickRows(s, {sub}) = <<>> <=> A = B
          /\ AppendDdlTickRows(s, {sub}) # <<>> =>
               AppendDdlTickRows(s, {sub})[1].tables = Ids(Changed(A.tables, B.tables))
      BY <2>3, <2>6, TicksAre
    <2> QED
      BY <2>7, Zenon DEF Changed
  <1> QED
    BY <1>1, Invariance, PTL

-----------------------------------------------------------------------------
(* Statuses *)

\* What is different at the end became different at some step.
LEMMA FirstChange ==
  ASSUME NEW f, NEW a \in Nat, NEW b \in Nat, a <= b, f[a] # f[b]
  PROVE  \E s \in a + 1 .. b : f[s - 1] = f[a] /\ f[s] # f[a]
  <1> DEFINE T == {s \in a .. b : f[s] # f[a]}
  <1>1. T \in SUBSET Nat /\ b \in T
    OBVIOUS
  <1>2. PICK s \in T : \A u \in T : s <= u
    <2> HIDE DEF T
    <2>1. T # {}
      BY <1>1
    <2> QED
      BY <1>1, <2>1, LeastElement, Zenon
  <1>3. s \in a + 1 .. b /\ f[s] # f[a]
    <2>1. s \in a .. b /\ f[s] # f[a]
      BY <1>2
    <2>2. s # a
      BY <2>1
    <2> QED
      BY <2>1, <2>2
  <1>4. s - 1 \in a .. b /\ ~(s <= s - 1)
    BY <1>3
  <1>5. s - 1 \notin T
    <2> HIDE DEF T
    <2> QED
      BY <1>2, <1>4
  <1> QED
    BY <1>3, <1>4, <1>5

\* What was there at a, and does not come back, is gone if and only if some
\* snapshot since has dropped it.
LEMMA DroppedSince ==
  ASSUME CatalogInv, NEW a \in 0 .. now, NEW F, NEW i, i \in Ids(F[a]),
         \A s \in a .. now : i \in Ids(F[now]) => i \in Ids(F[s])
  PROVE  i \notin Ids(F[now]) <=> \E s \in a + 1 .. now : \E z \in New(F[s], F[s - 1]) : z.id = i
  <1>0. now \in Nat /\ a \in Nat /\ a <= now
    BY DEF CatalogInv, SoundInv
  <1>1. ASSUME i \notin Ids(F[now])
        PROVE  \E s \in a + 1 .. now : \E z \in New(F[s], F[s - 1]) : z.id = i
    <2> DEFINE f == [s \in 0 .. now |-> IF i \in Ids(F[s]) THEN 1 ELSE 0]
    <2>1. f[a] = 1 /\ f[now] = 0
      BY <1>0, <1>1
    <2>2. PICK s \in a + 1 .. now : f[s - 1] = f[a] /\ f[s] # f[a]
      <3> HIDE DEF f
      <3> QED
        <4>1. f[a] # f[now]
          BY <2>1
        <4>2. \E s \in a + 1 .. now : f[s - 1] = f[a] /\ f[s] # f[a]
          BY <1>0, <4>1, FirstChange, Zenon
        <4> QED
          BY <4>2
    <2>3. s \in 0 .. now /\ s - 1 \in 0 .. now
      BY <1>0
    <2>4. i \in Ids(F[s - 1]) /\ i \notin Ids(F[s])
      BY <2>1, <2>2, <2>3
    <2> QED
      BY <2>4 DEF Ids, New
  <1>2. ASSUME NEW s \in a + 1 .. now, NEW z \in New(F[s], F[s - 1]), z.id = i
        PROVE  i \notin Ids(F[now])
    <2>1. s \in a .. now
      BY <1>0
    <2> QED
      BY <1>2, <2>1 DEF New
  <1> QED
    BY <1>1, <1>2

LEMMA SchemaGone ==
  ASSUME CatalogInv, NEW a \in 0 .. now, NEW x \in history[a].schemas
  PROVE  x.id \notin Ids(history[now].schemas)
           <=> \E s \in a + 1 .. now : \E z \in New(history[s].schemas, history[s - 1].schemas) :
                 z.id = x.id
  <1> DEFINE F == [s \in 0 .. now |-> history[s].schemas]
  <1>0. now \in Nat /\ a \in Nat /\ a <= now /\ now \in 0 .. now
    BY DEF CatalogInv, SoundInv
  <1>1. x.id \in Ids(F[a])
    BY DEF Ids
  <1>2. \A s \in 0 .. now : F[s] = history[s].schemas
    OBVIOUS
  <1>3. ASSUME NEW s \in a .. now, x.id \in Ids(F[now]) PROVE x.id \in Ids(F[s])
    <2>1. s \in 0 .. now /\ a <= s /\ s <= now
      BY <1>0
    <2> QED
      BY <1>0, <1>1, <1>3, <2>1 DEF CatalogInv, LifeInv
  <1> HIDE DEF F
  <1>4. x.id \notin Ids(F[now])
          <=> \E s \in a + 1 .. now : \E z \in New(F[s], F[s - 1]) : z.id = x.id
    BY <1>1, <1>3, DroppedSince
  <1>5. \A s \in a + 1 .. now : F[s] = history[s].schemas /\ F[s - 1] = history[s - 1].schemas
    BY <1>0, <1>2
  <1> QED
    BY <1>0, <1>2, <1>4, <1>5

LEMMA TableGone ==
  ASSUME CatalogInv, NEW a \in 0 .. now, NEW x \in history[a].tables
  PROVE  x.id \notin Ids(history[now].tables)
           <=> \E s \in a + 1 .. now : \E z \in New(history[s].tables, history[s - 1].tables) :
                 z.id = x.id
  <1> DEFINE F == [s \in 0 .. now |-> history[s].tables]
  <1>0. now \in Nat /\ a \in Nat /\ a <= now /\ now \in 0 .. now
    BY DEF CatalogInv, SoundInv
  <1>1. x.id \in Ids(F[a])
    BY DEF Ids
  <1>2. \A s \in 0 .. now : F[s] = history[s].tables
    OBVIOUS
  <1>3. ASSUME NEW s \in a .. now, x.id \in Ids(F[now]) PROVE x.id \in Ids(F[s])
    <2>1. s \in 0 .. now /\ a <= s /\ s <= now
      BY <1>0
    <2> QED
      BY <1>0, <1>1, <1>3, <2>1 DEF CatalogInv, LifeInv
  <1> HIDE DEF F
  <1>4. x.id \notin Ids(F[now])
          <=> \E s \in a + 1 .. now : \E z \in New(F[s], F[s - 1]) : z.id = x.id
    BY <1>1, <1>3, DroppedSince
  <1>5. \A s \in a + 1 .. now : F[s] = history[s].tables /\ F[s - 1] = history[s - 1].tables
    BY <1>0, <1>2
  <1> QED
    BY <1>0, <1>2, <1>4, <1>5

\* The rows since a subscription was looked up.
Since(sub) == {r \in UNION {RowsOf(s) : s \in sub.at + 1 .. now} : Covers(sub, r)}

LEMMA SinceIs ==
  ASSUME CatalogInv, NEW a \in 0 .. now, NEW sub, sub.at = a
  PROVE  \A r : r \in Since(sub) <=> /\ r.snapshot \in a + 1 .. now
                                     /\ r \in RowsOf(r.snapshot) /\ Covers(sub, r)
  <1>0. now \in Nat /\ a \in Nat
    BY DEF CatalogInv, SoundInv
  <1>1. \A r : r \in Since(sub) <=> \E s \in a + 1 .. now : r \in RowsOf(s) /\ Covers(sub, r)
    BY DEF Since
  <1>2. ASSUME NEW s \in a + 1 .. now, NEW r \in RowsOf(s) PROVE r.snapshot = s
    <2>1. s \in 1 .. now
      BY <1>0
    <2> QED
      BY <2>1, RowsSound DEF SchemaCreated, SchemaDropped, TableCreated, TableRenamed, TableAltered,
         TableDropped, ViewCreated, ViewDropped, Tells
  <1> QED
    BY <1>1, <1>2

\* The status of a schema.
LEMMA SchemaStatus ==
  ASSUME CatalogInv, NEW a \in 0 .. now, NEW x \in history[a].schemas,
         NEW sub, sub = SchemaSubscription(OfSchema(x), a)
  PROVE  Status(sub) = IF \E r \in Since(sub) : r.event = "dropped" /\ r.kind = "schema"
                       THEN "dropped" ELSE "active"
  <1>0. now \in Nat /\ a \in Nat /\ now \in 0 .. now
    BY DEF CatalogInv, SoundInv
  <1>1. /\ sub.scope = "schema" /\ sub.schema = x.id /\ sub.original = x.name /\ sub.at = a
    BY DEF SchemaSubscription, OfSchema, Resolved
  <1>2. x.name # Null
    <2>1. x.name \in AllSchemaNames
      BY DEF CatalogInv, SoundInv, Sound
    <2> QED
      BY <2>1, DdlRowsAssumption
  <1>3. (\E r \in Since(sub) : r.event = "dropped" /\ r.kind = "schema")
          <=> x.id \notin Ids(history[now].schemas)
    <2>1. ASSUME NEW r \in Since(sub), r.event = "dropped", r.kind = "schema"
          PROVE  x.id \notin Ids(history[now].schemas)
      <3> DEFINE s == r.snapshot
      <3>1. s \in a + 1 .. now /\ r \in RowsOf(s) /\ Covers(sub, r)
        BY <1>1, SinceIs
      <3> HIDE DEF s
      <3>2. s \in 1 .. now
        BY <1>0, <3>1
      <3>3. SchemaDropped(s, r)
        BY <2>1, <3>1, <3>2, RowsSound DEF SchemaCreated, TableCreated, TableRenamed, TableAltered,
           TableDropped, ViewCreated, ViewDropped, Tells
      <3>4. PICK z \in New(history[s].schemas, history[s - 1].schemas) :
              Tells(r, s, "dropped", "schema", OfSchema(z), Null)
        BY <3>3 DEF SchemaDropped
      <3>5. z.id = x.id
        BY <1>1, <3>1, <3>4 DEF Covers, Tells, OfSchema, Resolved
      <3> QED
        BY <3>1, <3>4, <3>5, SchemaGone
    <2>2. ASSUME x.id \notin Ids(history[now].schemas)
          PROVE  \E r \in Since(sub) : r.event = "dropped" /\ r.kind = "schema"
      <3>0. PICK s \in a + 1 .. now : \E z \in New(history[s].schemas, history[s - 1].schemas) :
              z.id = x.id
        BY <2>2, SchemaGone
      <3>1. PICK z \in New(history[s].schemas, history[s - 1].schemas) : z.id = x.id
        BY <3>0
      <3>2. s \in 1 .. now
        BY <1>0
      <3>3. PICK r \in RowsOf(s) : Tells(r, s, "dropped", "schema", OfSchema(z), Null)
        BY <3>2, SchemasTold
      <3>4. /\ r.snapshot = s /\ r.event = "dropped" /\ r.kind = "schema" /\ Covers(sub, r)
        BY <1>1, <3>1, <3>3 DEF Tells, OfSchema, Resolved, Covers
      <3> QED
        BY <1>1, <3>3, <3>4, SinceIs
    <2> QED
      BY <2>1, <2>2
  <1>4. CASE x.id \in Ids(history[now].schemas)
    <2>1. PICK z \in history[now].schemas : z.id = x.id
      BY <1>4 DEF Ids
    <2>2. z = x
      BY <1>0, <2>1 DEF CatalogInv, LifeInv
    <2>3. LookupSchemaById(now, x.id) = OfSchema(x)
      BY <1>0, <2>1, <2>2, LookupSchemaByIdIs
    <2>4. CurrentName(sub) = x.name
      BY <1>1, <2>3 DEF CurrentName, OfSchema, Resolved
    <2> QED
      BY <1>1, <1>2, <1>3, <1>4, <2>4 DEF Status
  <1>5. CASE x.id \notin Ids(history[now].schemas)
    <2>1. {r \in schemaRows : r.object.id = x.id /\ AliveAt(r, now)} = {}
      BY <1>0, <1>5, SchemaAlive DEF Ids
    <2>2. LookupSchemaById(now, x.id) = Resolved(x.id, Null, x.id, Null)
      BY <2>1 DEF LookupSchemaById, Pick
    <2>3. CurrentName(sub) = Null
      BY <1>1, <2>2 DEF CurrentName, Resolved
    <2> QED
      BY <1>2, <1>1, <1>3, <1>5, <2>3 DEF Status
  <1> QED
    BY <1>4, <1>5

\* The name of a table at a snapshot.
NameOf(i, s) == (CHOOSE z \in history[s].tables : z.id = i).name

LEMMA NameOfIs ==
  ASSUME CatalogInv, NEW s \in 0 .. now, NEW z \in history[s].tables
  PROVE  NameOf(z.id, s) = z.name
  <1>1. \A w \in history[s].tables : w.id = z.id => w = z
    BY SoundAt
  <1> QED
    BY <1>1 DEF NameOf

\* A table that is there at the end has been there all along.
LEMMA ThereBetween ==
  ASSUME CatalogInv, NEW a \in 0 .. now, NEW x \in history[a].tables,
         x.id \in Ids(history[now].tables), NEW s \in a .. now
  PROVE  \E w \in history[s].tables : w.id = x.id
  <1>1. now \in 0 .. now /\ s \in 0 .. now /\ a <= s /\ s <= now
    BY DEF CatalogInv, SoundInv
  <1>2. x.id \in Ids(history[a].tables)
    BY DEF Ids
  <1>3. x.id \in Ids(history[s].tables)
    BY <1>1, <1>2 DEF CatalogInv, LifeInv
  <1> QED
    BY <1>3 DEF Ids

\* The renames since a snapshot of the table of an id.
RenamesOf(i, a) ==
  {r \in UNION {RowsOf(s) : s \in a + 1 .. now} :
     r.kind = "table" /\ r.was # Null /\ r.object.id = i}

LEMMA RenameIs ==
  ASSUME CatalogInv, NEW a \in 0 .. now, NEW i, NEW r \in RenamesOf(i, a)
  PROVE  r.snapshot \in a + 1 .. now /\ r.object.name = NameOf(i, r.snapshot)
  <1>0. now \in Nat /\ a \in Nat
    BY DEF CatalogInv, SoundInv
  <1>1. PICK s \in a + 1 .. now : r \in RowsOf(s)
    BY DEF RenamesOf
  <1>2. s \in 1 .. now /\ s \in 0 .. now
    BY <1>0
  <1>3. TableRenamed(s, r)
    BY <1>1, <1>2, RowsSound DEF RenamesOf, SchemaCreated, SchemaDropped, TableCreated, TableAltered,
       TableDropped, ViewCreated, ViewDropped, Tells
  <1>4. PICK x \in history[s].tables : \E y, was : Tells(r, s, "altered", "table", OfObject(x, y), was)
    BY <1>3 DEF TableRenamed
  <1>5. r.snapshot = s /\ r.object.name = x.name /\ x.id = i
    BY <1>4 DEF Tells, OfObject, Resolved, RenamesOf
  <1> QED
    BY <1>2, <1>5, NameOfIs

\* The name of a table changes with its renames only.
LEMMA NameStays ==
  ASSUME CatalogInv, NEW a \in 0 .. now, NEW x \in history[a].tables,
         x.id \in Ids(history[now].tables), NEW b \in a .. now,
         \A r \in RenamesOf(x.id, a) : r.snapshot <= b
  PROVE  NameOf(x.id, b) = NameOf(x.id, now)
  <1> DEFINE f == [s \in 0 .. now |-> NameOf(x.id, s)]
  <1>0. now \in Nat /\ a \in Nat /\ b \in Nat /\ b \in 0 .. now /\ now \in 0 .. now
    BY DEF CatalogInv, SoundInv
  <1>1. SUFFICES ASSUME f[b] # f[now] PROVE FALSE
    BY <1>0
  <1>2. PICK s \in b + 1 .. now : f[s - 1] = f[b] /\ f[s] # f[b]
    <2> HIDE DEF f
    <2> QED
      BY <1>0, <1>1, FirstChange
  <1>3. s \in 1 .. now /\ s \in 0 .. now /\ s - 1 \in 0 .. now /\ s \in a .. now /\ s - 1 \in a .. now
    BY <1>0
  <1>4. PICK w \in history[s - 1].tables : w.id = x.id
    BY <1>3, ThereBetween
  <1>5. PICK z \in history[s].tables : z.id = x.id
    BY <1>3, ThereBetween
  <1>6. w.name # z.name
    BY <1>2, <1>3, <1>4, <1>5, NameOfIs
  <1>7. PICK y \in history[s].schemas : y.id = z.schema
    BY <1>3, SoundAt
  <1>8. PICK r \in RowsOf(s) : Tells(r, s, "altered", "table", OfObject(z, y), w.name)
    BY <1>3, <1>4, <1>5, <1>6, <1>7, TablesTold
  <1>9. w.name # Null
    <2>1. w.name \in Names
      BY <1>3 DEF CatalogInv, SoundInv, Sound
    <2> QED
      BY <2>1, DdlRowsAssumption
  <1>10. s \in a + 1 .. now /\ ~(s <= b)
    BY <1>0
  <1>11. r \in RenamesOf(x.id, a) /\ r.snapshot = s
    BY <1>5, <1>8, <1>9, <1>10 DEF RenamesOf, Tells, OfObject, Resolved
  <1> QED
    BY <1>10, <1>11

\* The status of a table.
LEMMA TableDropStatus ==
  ASSUME CatalogInv, NEW a \in 0 .. now, NEW x \in history[a].tables,
         NEW y \in history[a].schemas, y.id = x.schema,
         NEW sub, sub = TableSubscription(OfObject(x, y), a)
  PROVE  (\E r \in Since(sub) : r.event = "dropped") <=> x.id \notin Ids(history[now].tables)
  <1>0. now \in Nat /\ a \in Nat
    BY DEF CatalogInv, SoundInv
  <1>1. sub.scope = "table" /\ sub.table = x.id /\ sub.at = a
    BY DEF TableSubscription, OfObject, Resolved
  <1>2. ASSUME NEW r \in Since(sub), r.event = "dropped"
        PROVE  x.id \notin Ids(history[now].tables)
    <2> DEFINE s == r.snapshot
    <2>1. s \in a + 1 .. now /\ r \in RowsOf(s) /\ r.kind = "table" /\ r.object.id = x.id
      BY <1>1, SinceIs DEF Covers
    <2> HIDE DEF s
    <2>2. s \in 1 .. now
      BY <1>0, <2>1
    <2>3. TableDropped(s, r)
      BY <1>2, <2>1, <2>2, RowsSound DEF SchemaCreated, SchemaDropped, TableCreated, TableRenamed,
         TableAltered, ViewCreated, ViewDropped, Tells
    <2>4. \E z \in New(history[s].tables, history[s - 1].tables) : z.id = x.id
      BY <2>1, <2>3 DEF TableDropped, Tells, OfObject, Resolved
    <2> QED
      BY <2>1, <2>4, TableGone
  <1>3. ASSUME x.id \notin Ids(history[now].tables)
        PROVE  \E r \in Since(sub) : r.event = "dropped"
    <2>0. PICK s \in a + 1 .. now : \E z \in New(history[s].tables, history[s - 1].tables) :
            z.id = x.id
      BY <1>3, TableGone
    <2>1. PICK z \in New(history[s].tables, history[s - 1].tables) : z.id = x.id
      BY <2>0
    <2>2. s \in 1 .. now /\ s - 1 \in 0 .. now /\ z \in history[s - 1].tables
      BY <1>0 DEF New
    <2>3. PICK v \in history[s - 1].schemas : v.id = z.schema
      BY <2>2, SoundAt
    <2>4. PICK r \in RowsOf(s) : Tells(r, s, "dropped", "table", OfObject(z, v), Null)
      BY <2>2, <2>3, TablesTold
    <2>5. r.snapshot = s /\ r.event = "dropped" /\ Covers(sub, r)
      BY <1>1, <2>1, <2>4 DEF Tells, OfObject, Resolved, Covers
    <2> QED
      BY <1>1, <2>4, <2>5, SinceIs
  <1> QED
    BY <1>2, <1>3

LEMMA TableNameStatus ==
  ASSUME CatalogInv, NEW a \in 0 .. now, NEW x \in history[a].tables,
         NEW y \in history[a].schemas, y.id = x.schema,
         NEW sub, sub = TableSubscription(OfObject(x, y), a)
  PROVE  Status(sub) = IF x.id \notin Ids(history[now].tables) THEN "dropped"
                       ELSE IF NameOf(x.id, now) = x.name THEN "active" ELSE "renamed"
  <1> DEFINE found == ResolveTableByIdAt(now, x.id)
  <1>0. now \in 0 .. now
    BY DEF CatalogInv, SoundInv
  <1>1. sub.scope = "table" /\ sub.table = x.id /\ sub.original = <<y.name, x.name>>
    BY DEF TableSubscription, OfObject, Resolved
  <1>2. CurrentName(sub) = Pick({<<o.schemaName, o.name>> : o \in found}, Null)
    BY <1>1 DEF CurrentName
  <1>3. \A s \in 0 .. now : /\ \A z \in history[s].tables : z.name \in Names
                            /\ \A v \in history[s].schemas : v.name \in AllSchemaNames
    BY DEF CatalogInv, SoundInv, Sound
  <1>4. \A u \in AllSchemaNames, n \in Names : <<u, n>> # Null
    BY DdlRowsAssumption
  <1>5. CASE x.id \notin Ids(history[now].tables)
    <2>1. found = {}
      <3> SUFFICES ASSUME NEW j \in Joined(tableRows), j[1].object.id = x.id,
                          AliveAt(j[1], now), AliveAt(j[2], now)
                   PROVE  FALSE
        BY DEF ResolveTableByIdAt
      <3>1. j[1] \in tableRows
        BY DEF Joined
      <3>2. PICK z \in history[now].tables : j[1].object = TableObject(z)
        BY <1>0, <3>1, TableAlive
      <3>3. z.id = x.id
        BY <3>2 DEF TableObject
      <3> QED
        BY <1>5, <3>3 DEF Ids
    <2>2. CurrentName(sub) = Null
      BY <1>2, <2>1 DEF Pick
    <2>3. sub.original # Null
      BY <1>1, <1>3, <1>4
    <2> QED
      BY <1>5, <2>2, <2>3 DEF Status
  <1>6. CASE x.id \in Ids(history[now].tables)
    <2>1. PICK z \in history[now].tables : z.id = x.id
      BY <1>6 DEF Ids
    <2>2. z.schema = x.schema
      BY <1>0, <2>1 DEF CatalogInv, LifeInv
    <2>3. PICK v \in history[now].schemas : v.id = z.schema
      BY <1>0, SoundAt
    <2>4. v = y
      BY <1>0, <2>2, <2>3 DEF CatalogInv, LifeInv
    <2>5. found = {OfObject(z, y)}
      BY <1>0, <2>1, <2>3, <2>4, TableByIdIs
    <2> HIDE DEF found
    <2>6. CurrentName(sub) = <<y.name, z.name>>
      <3>1. <<y.name, z.name>> \in {<<o.schemaName, o.name>> : o \in found}
        BY <2>5 DEF OfObject, Resolved
      <3>2. \A n \in {<<o.schemaName, o.name>> : o \in found} : n = <<y.name, z.name>>
        BY <2>5 DEF OfObject, Resolved
      <3> QED
        BY <1>2, <3>1, <3>2, PickIs
    <2>7. CurrentName(sub) # Null
      BY <1>0, <1>3, <1>4, <2>6
    <2>8. NameOf(x.id, now) = z.name
      BY <1>0, <2>1, NameOfIs
    <2>9. <<y.name, z.name>> = <<y.name, x.name>> <=> z.name = x.name
      OBVIOUS
    <2> QED
      BY <1>1, <1>6, <2>6, <2>7, <2>8, <2>9 DEF Status
  <1> QED
    BY <1>5, <1>6

\* The status of a subscription is what its owner would conclude from the rows
\* since the object was looked up: gone when it was dropped, renamed when the
\* last name is not the first (consumer.cpp:3234-3290).
THEOREM Statuses == Spec => []StatusFollowsRows
  <1>1. CatalogInv /\ SubscriptionInv => StatusFollowsRows
    <2> SUFFICES ASSUME CatalogInv, SubscriptionInv, subscription # Null
                 PROVE  StatusFollowsRows
      BY DEF StatusFollowsRows
    <2> DEFINE sub == subscription
               rows == Since(sub)
               gone == \E r \in rows : r.event = "dropped" /\ (sub.scope = "schema" => r.kind = "schema")
               renames == {r \in rows : r.kind = "table" /\ r.was # Null}
               last == {r \in renames : \A q \in renames : q.snapshot <= r.snapshot}
               kept == \A r \in last : r.object.name = sub.original[2]
    <2>0. now \in Nat /\ now \in 0 .. now
      BY DEF CatalogInv, SoundInv
    <2>1. PICK a \in 0 .. now :
            \/ \E x \in history[a].schemas : sub = SchemaSubscription(OfSchema(x), a)
            \/ \E x \in history[a].tables, y \in history[a].schemas :
                 y.id = x.schema /\ sub = TableSubscription(OfObject(x, y), a)
      BY DEF SubscriptionInv
    <2>2. StatusFollowsRows <=>
            CASE gone -> Status(sub) = "dropped"
              [] ~gone /\ (sub.scope = "schema" \/ kept) -> Status(sub) = "active"
              [] OTHER -> Status(sub) = "renamed"
      BY Zenon DEF StatusFollowsRows, Since
    <2>3. CASE \E x \in history[a].schemas : sub = SchemaSubscription(OfSchema(x), a)
      <3>1. PICK x \in history[a].schemas : sub = SchemaSubscription(OfSchema(x), a)
        BY <2>3
      <3>2. sub.scope = "schema"
        BY <3>1 DEF SchemaSubscription
      <3>3. Status(sub) = IF gone THEN "dropped" ELSE "active"
        BY <3>1, <3>2, SchemaStatus
      <3> HIDE DEF gone, kept, sub
      <3> QED
        BY <2>2, <3>2, <3>3
    <2>4. CASE \E x \in history[a].tables, y \in history[a].schemas :
                 y.id = x.schema /\ sub = TableSubscription(OfObject(x, y), a)
      <3>1. PICK x \in history[a].tables, y \in history[a].schemas :
              y.id = x.schema /\ sub = TableSubscription(OfObject(x, y), a)
        BY <2>4
      <3>2. /\ sub.scope = "table" /\ sub.table = x.id /\ sub.at = a
            /\ sub.original = <<y.name, x.name>>
        BY <3>1 DEF TableSubscription, OfObject, Resolved
      <3>3. gone <=> x.id \notin Ids(history[now].tables)
        BY <3>1, <3>2, TableDropStatus
      <3>4. renames = RenamesOf(x.id, a)
        BY <3>2 DEF Since, Covers, RenamesOf
      <3>5. ASSUME x.id \in Ids(history[now].tables)
            PROVE  NameOf(x.id, now) = x.name <=> kept
        <4>1. \A r \in renames : r.snapshot \in a + 1 .. now /\ r.object.name = NameOf(x.id, r.snapshot)
          BY <3>4, RenameIs
        <4>2. a \in Nat /\ a \in a .. now
          BY <2>0
        <4>3. CASE renames = {}
          <5>1. NameOf(x.id, a) = NameOf(x.id, now)
            BY <3>4, <3>5, <4>2, <4>3, NameStays
          <5>2. NameOf(x.id, a) = x.name
            BY NameOfIs
          <5> QED
            BY <4>3, <5>1, <5>2
        <4>4. CASE renames # {}
          <5> DEFINE S == {r.snapshot : r \in renames}
          <5>1. S \in SUBSET Nat /\ S # {} /\ \A s \in S : s <= now
            <6> HIDE DEF renames
            <6> QED
              BY <2>0, <4>1, <4>2, <4>4
          <5>2. PICK b \in S : \A s \in S : s <= b
            <6> HIDE DEF S
            <6> QED
              BY <2>0, <5>1, MaxIs
          <5>3. \A r \in last : r.object.name = NameOf(x.id, now)
            <6> SUFFICES ASSUME NEW r \in last PROVE r.object.name = NameOf(x.id, now)
              OBVIOUS
            <6>1. r \in renames /\ \A q \in renames : q.snapshot <= r.snapshot
              OBVIOUS
            <6>2. r.snapshot \in a .. now /\ r.object.name = NameOf(x.id, r.snapshot)
              BY <4>1, <4>2, <6>1
            <6> QED
              BY <3>4, <3>5, <6>1, <6>2, NameStays
          <5>4. \E r \in last : TRUE
            <6> HIDE DEF renames
            <6> QED
              BY <5>2
          <5>5. sub.original[2] = x.name
            BY <3>2
          <5> HIDE DEF last, sub
          <5> QED
            BY <5>3, <5>4, <5>5
        <4> QED
          BY <4>3, <4>4
      <3>6. Status(sub) = IF gone THEN "dropped" ELSE IF kept THEN "active" ELSE "renamed"
        <4>1. Status(sub) = IF x.id \notin Ids(history[now].tables) THEN "dropped"
                            ELSE IF NameOf(x.id, now) = x.name THEN "active" ELSE "renamed"
          BY <3>1, TableNameStatus
        <4> HIDE DEF gone, kept, sub
        <4> QED
          BY <3>3, <3>5, <4>1
      <3> HIDE DEF gone, kept, sub
      <3> QED
        BY <2>2, <3>2, <3>6
    <2> QED
      BY <2>1, <2>3, <2>4
  <1> QED
    BY <1>1, Invariance, PTL

-----------------------------------------------------------------------------
(* The rows of a snapshot, exactly *)

\* The columns of a table, as of a snapshot.
LEMMA LookupColumnsIs ==
  ASSUME CatalogInv, NEW s \in 0 .. now, NEW x \in history[s].tables
  PROVE  LookupTableColumnsAt(x.id, s) = x.columns
  <1>1. \A o : o \in ColumnsAt[s] <=>
          \E z \in history[s].tables : \E c \in z.columns : o = [table |-> z.id, column |-> c]
    BY DEF ColumnsAt, Columns
  <1>2. \A z \in history[s].tables : z.id = x.id => z = x
    BY SoundAt
  <1>3. \A q \in columnRows : AliveAt(q, s) => q.object \in ColumnsAt[s]
    BY DEF CatalogInv, RowsInv, Encodes
  <1>4. \A o \in ColumnsAt[s] : \E q \in columnRows : AliveAt(q, s) /\ q.object = o
    BY DEF CatalogInv, RowsInv, Encodes
  <1>5. \A q \in columnRows : q.object.table = x.id /\ AliveAt(q, s) => q.object.column \in x.columns
    <2> SUFFICES ASSUME NEW q \in columnRows, q.object.table = x.id, AliveAt(q, s)
                 PROVE  q.object.column \in x.columns
      OBVIOUS
    <2>1. PICK z \in history[s].tables : \E c \in z.columns : q.object = [table |-> z.id, column |-> c]
      BY <1>1, <1>3
    <2>2. z = x
      BY <1>2, <2>1
    <2> QED
      BY <2>1, <2>2
  <1>6. \A c \in x.columns : \E q \in columnRows :
          q.object.table = x.id /\ AliveAt(q, s) /\ q.object.column = c
    <2> SUFFICES ASSUME NEW c \in x.columns
                 PROVE  \E q \in columnRows :
                          q.object.table = x.id /\ AliveAt(q, s) /\ q.object.column = c
      OBVIOUS
    <2>1. PICK q \in columnRows : AliveAt(q, s) /\ q.object = [table |-> x.id, column |-> c]
      BY <1>1, <1>4
    <2> QED
      BY <2>1
  <1> QED
    BY <1>5, <1>6 DEF LookupTableColumnsAt

\* The columns of a table are compared where its schema version was bumped,
\* which it was if they differ.
LEMMA AlterationIs ==
  ASSUME CatalogInv, NEW s \in 1 .. now, NEW w \in history[s - 1].tables,
         NEW x \in history[s].tables, w.id = x.id
  PROVE  AlterationAt(x.id, s) = IF w.columns = x.columns THEN <<>>
                                 ELSE Normalised(DiffColumns(w.columns, x.columns))
  <1>0. now \in Nat /\ s \in 0 .. now /\ s - 1 \in 0 .. now
    BY DEF CatalogInv, SoundInv
  <1>1. LookupTableColumnsAt(x.id, s) = x.columns
    BY <1>0, LookupColumnsIs
  <1>2. LookupTableColumnsAt(x.id, s - 1) = w.columns
    BY <1>0, LookupColumnsIs
  <1>3. <<x.id, s>> \in bumped <=> w.columns # x.columns
    <2>1. <<x.id, s>> \in bumped <=>
            x.id \in Ids(New(history[s - 1].tables, history[s].tables)
                           \union AlteredTables(history[s - 1], history[s]))
      BY DEF CatalogInv, BumpedInv
    <2>2. x.id \notin Ids(New(history[s - 1].tables, history[s].tables))
      BY DEF New, Ids
    <2>3. /\ \A v \in history[s - 1].tables : v.id = x.id => v = w
          /\ \A v \in history[s].tables : v.id = x.id => v = x
      BY <1>0, SoundAt
    <2>4. x.id \in Ids(AlteredTables(history[s - 1], history[s])) <=> w.columns # x.columns
      BY <2>3 DEF AlteredTables, Ids
    <2>5. \A S, T, i : i \in Ids(S \union T) <=> i \in Ids(S) \/ i \in Ids(T)
      BY DEF Ids
    <2> QED
      BY <2>1, <2>2, <2>4, <2>5
  <1> QED
    BY <1>1, <1>2, <1>3 DEF AlterationAt, TableSchemaVersionBumpedAt

\* A row, by all that is in it.
Full(s, event, kind, object, columns, was, diffs) ==
  [snapshot |-> s, event |-> event, kind |-> kind, object |-> object,
   columns |-> columns, was |-> was, diffs |-> diffs]

\* What a row of a snapshot carries besides what it tells.
LEMMA RowIs ==
  ASSUME NEW s, NEW r \in RowsOf(s)
  PROVE  /\ r = Full(r.snapshot, r.event, r.kind, r.object, r.columns, r.was, r.diffs)
         /\ r.columns = IF r.event = "created" /\ r.kind = "table"
                        THEN LookupTableColumnsAt(r.object.id, s) ELSE {}
         /\ r.diffs = IF r.event = "altered" THEN AlterationAt(r.object.id, s) ELSE <<>>
  <1> DEFINE Shaped(q) ==
        /\ q = [f \in {"snapshot", "event", "kind", "object", "columns", "was", "diffs"} |-> q[f]]
        /\ q.columns = IF q.event = "created" /\ q.kind = "table"
                       THEN LookupTableColumnsAt(q.object.id, s) ELSE {}
        /\ q.diffs = IF q.event = "altered" THEN AlterationAt(q.object.id, s) ELSE <<>>
  <1>1. ASSUME NEW event, NEW kind, NEW object, event # "altered",
               event = "created" => kind # "table"
        PROVE  Shaped(Row(s, event, kind, object))
    <2> DEFINE q == Row(s, event, kind, object)
    <2>1. q = [f \in {"snapshot", "event", "kind", "object", "columns", "was", "diffs"} |-> q[f]]
      BY Zenon DEF Row
    <2>2. q.event = event /\ q.kind = kind /\ q.columns = {} /\ q.diffs = <<>>
      BY DEF Row
    <2> HIDE DEF q
    <2>3. Shaped(q)
      BY <1>1, <2>1, <2>2, Zenon
    <2> QED
      BY <2>3 DEF q
  <1>2. ASSUME NEW object
        PROVE  Shaped([Row(s, "created", "table", object) EXCEPT
                         !.columns = LookupTableColumnsAt(object.id, s)])
    <2> DEFINE q == [Row(s, "created", "table", object) EXCEPT
                       !.columns = LookupTableColumnsAt(object.id, s)]
    <2>1. q = [f \in {"snapshot", "event", "kind", "object", "columns", "was", "diffs"} |-> q[f]]
      BY Zenon DEF Row
    <2>2. /\ q.event = "created" /\ q.event # "altered" /\ q.kind = "table" /\ q.object = object
          /\ q.diffs = <<>>
      BY DEF Row
    <2>3. q.columns = LookupTableColumnsAt(object.id, s)
      BY DEF Row
    <2> HIDE DEF q
    <2>4. Shaped(q)
      BY <2>1, <2>2, <2>3, Zenon
    <2> QED
      BY <2>4 DEF q
  <1>3. ASSUME NEW object, NEW was
        PROVE  Shaped([Row(s, "altered", "table", object) EXCEPT
                         !.was = was, !.diffs = AlterationAt(object.id, s)])
    <2> DEFINE q == [Row(s, "altered", "table", object) EXCEPT
                       !.was = was, !.diffs = AlterationAt(object.id, s)]
    <2>1. q = [f \in {"snapshot", "event", "kind", "object", "columns", "was", "diffs"} |-> q[f]]
      BY Zenon DEF Row
    <2>2. q.event = "altered" /\ q.event # "created" /\ q.object = object /\ q.columns = {}
      BY DEF Row
    <2>3. q.diffs = AlterationAt(object.id, s)
      BY DEF Row
    <2> HIDE DEF q
    <2>4. Shaped(q)
      BY <2>1, <2>2, <2>3, Zenon
    <2> QED
      BY <2>4 DEF q
  <1>4. ASSUME NEW object
        PROVE  Shaped([Row(s, "altered", "table", object) EXCEPT !.diffs = AlterationAt(object.id, s)])
    <2> DEFINE q == [Row(s, "altered", "table", object) EXCEPT !.diffs = AlterationAt(object.id, s)]
    <2>1. q = [f \in {"snapshot", "event", "kind", "object", "columns", "was", "diffs"} |-> q[f]]
      BY Zenon DEF Row
    <2>2. q.event = "altered" /\ q.event # "created" /\ q.object = object /\ q.columns = {}
      BY DEF Row
    <2>3. q.diffs = AlterationAt(object.id, s)
      BY DEF Row
    <2> HIDE DEF q
    <2>4. Shaped(q)
      BY <2>1, <2>2, <2>3, Zenon
    <2> QED
      BY <2>4 DEF q
  <1>5. ASSUME NEW id PROVE LookupById(tableRows, s, id).id = id
    <2> DEFINE S == {JoinedObject(j) : j \in {k \in Joined(tableRows) :
                       k[1].object.id = id /\ AliveAt(k[1], s) /\ AliveAt(k[2], s)}}
    <2>1. \A o \in S : o.id = id
      BY DEF JoinedObject, Resolved
    <2>2. Resolved(Null, Null, id, Null).id = id
      BY DEF Resolved
    <2> HIDE DEF S
    <2>3. Pick(S, Resolved(Null, Null, id, Null)).id = id
      BY <2>1, <2>2 DEF Pick
    <2> QED
      BY <2>3 DEF LookupById, S
  <1> HIDE DEF Shaped
  <1>6. \A q : Shaped(CreatedTableRow(s, q))
    BY <1>2, <1>3 DEF CreatedTableRow
  <1>7. \A id : Shaped(AlteredTableRow(s, id))
    <2> TAKE id
    <2> DEFINE o == LookupById(tableRows, s, id)
    <2>1. AlteredTableRow(s, id) =
            [Row(s, "altered", "table", o) EXCEPT !.diffs = AlterationAt(o.id, s)]
      BY <1>5 DEF AlteredTableRow
    <2> HIDE DEF o
    <2> QED
      BY <1>4, <2>1
  <1>8. \A object : /\ Shaped(Row(s, "created", "schema", object))
                     /\ Shaped(Row(s, "created", "view", object))
    BY <1>1
  <1>9. \A kind, object : Shaped(Row(s, "dropped", kind, object))
    BY <1>1
  <1>10. Shaped(r)
    BY <1>6, <1>7, <1>8, <1>9 DEF RowsOf
  <1>11. r = [f \in {"snapshot", "event", "kind", "object", "columns", "was", "diffs"} |-> r[f]]
    BY <1>10 DEF Shaped
  <1>12. r = Full(r.snapshot, r.event, r.kind, r.object, r.columns, r.was, r.diffs)
    BY <1>11 DEF Full
  <1> QED
    BY <1>10, <1>12, Zenon DEF Shaped

\* What a row says of a table that was w and is x.
WasName(w, x) == IF w.name = x.name THEN Null ELSE w.name

ColumnDiffs(w, x) ==
  IF w.columns = x.columns THEN <<>> ELSE Normalised(DiffColumns(w.columns, x.columns))

\* What happened in a snapshot, and the row of it.
Happened(s, r) ==
  LET A == history[s - 1]
      B == history[s]
  IN  \/ \E x \in New(A.schemas, B.schemas) : r = Full(s, "created", "schema", OfSchema(x), {}, Null, <<>>)
      \/ \E x \in New(B.schemas, A.schemas) : r = Full(s, "dropped", "schema", OfSchema(x), {}, Null, <<>>)
      \/ \E x \in New(A.tables, B.tables), y \in B.schemas :
           /\ y.id = x.schema
           /\ r = Full(s, "created", "table", OfObject(x, y), x.columns, Null, <<>>)
      \/ \E w \in A.tables, x \in B.tables, y \in B.schemas :
           /\ w.id = x.id /\ w # x /\ y.id = x.schema
           /\ r = Full(s, "altered", "table", OfObject(x, y), {}, WasName(w, x), ColumnDiffs(w, x))
      \/ \E x \in New(B.tables, A.tables), y \in A.schemas :
           y.id = x.schema /\ r = Full(s, "dropped", "table", OfObject(x, y), {}, Null, <<>>)
      \/ \E x \in New(A.views, B.views), y \in B.schemas :
           y.id = x.schema /\ r = Full(s, "created", "view", OfObject(x, y), {}, Null, <<>>)
      \/ \E x \in New(B.views, A.views), y \in A.schemas :
           y.id = x.schema /\ r = Full(s, "dropped", "view", OfObject(x, y), {}, Null, <<>>)

\* A row and the row it has to be, when both tell the same.
LEMMA PlainRowIs ==
  ASSUME NEW s, NEW r \in RowsOf(s), NEW event, NEW kind, NEW object,
         Tells(r, s, event, kind, object, Null),
         event # "altered", event = "created" => kind # "table"
  PROVE  r = Full(s, event, kind, object, {}, Null, <<>>)
  BY RowIs DEF Tells

LEMMA CreatedRowIs ==
  ASSUME CatalogInv, NEW s \in 1 .. now, NEW r \in RowsOf(s),
         NEW x \in history[s].tables, NEW y,
         Tells(r, s, "created", "table", OfObject(x, y), Null)
  PROVE  r = Full(s, "created", "table", OfObject(x, y), x.columns, Null, <<>>)
  <1>1. s \in 0 .. now
    BY DEF CatalogInv, SoundInv
  <1>2. LookupTableColumnsAt(x.id, s) = x.columns
    BY <1>1, LookupColumnsIs
  <1>3. OfObject(x, y).id = x.id
    BY DEF OfObject, Resolved
  <1>4. /\ r.snapshot = s /\ r.event = "created" /\ r.kind = "table"
        /\ r.object = OfObject(x, y) /\ r.was = Null
    BY DEF Tells
  <1>5. r.event # "altered"
    BY <1>4
  <1>6. r.columns = x.columns /\ r.diffs = <<>>
    <2>1. /\ r.columns = IF r.event = "created" /\ r.kind = "table"
                         THEN LookupTableColumnsAt(r.object.id, s) ELSE {}
          /\ r.diffs = IF r.event = "altered" THEN AlterationAt(r.object.id, s) ELSE <<>>
      BY RowIs, Zenon
    <2> QED
      BY <1>2, <1>3, <1>4, <1>5, <2>1, Zenon
  <1>7. r = Full(r.snapshot, r.event, r.kind, r.object, r.columns, r.was, r.diffs)
    BY RowIs, Zenon
  <1> QED
    BY <1>4, <1>6, <1>7, Zenon

LEMMA AlteredRowIs ==
  ASSUME CatalogInv, NEW s \in 1 .. now, NEW r \in RowsOf(s),
         NEW w \in history[s - 1].tables, NEW x \in history[s].tables, NEW y, w.id = x.id,
         Tells(r, s, "altered", "table", OfObject(x, y), WasName(w, x))
  PROVE  r = Full(s, "altered", "table", OfObject(x, y), {}, WasName(w, x), ColumnDiffs(w, x))
  <1>1. OfObject(x, y).id = x.id
    BY DEF OfObject, Resolved
  <1>2. AlterationAt(x.id, s) = ColumnDiffs(w, x)
    BY AlterationIs, Zenon DEF ColumnDiffs
  <1>3. /\ r.snapshot = s /\ r.event = "altered" /\ r.kind = "table"
        /\ r.object = OfObject(x, y) /\ r.was = WasName(w, x)
    BY Zenon DEF Tells
  <1>4. r.event # "created"
    BY <1>3
  <1>5. r.columns = {} /\ r.diffs = ColumnDiffs(w, x)
    <2>1. /\ r.columns = IF r.event = "created" /\ r.kind = "table"
                         THEN LookupTableColumnsAt(r.object.id, s) ELSE {}
          /\ r.diffs = IF r.event = "altered" THEN AlterationAt(r.object.id, s) ELSE <<>>
      BY RowIs, Zenon
    <2> QED
      BY <1>1, <1>2, <1>3, <1>4, <2>1, Zenon
  <1>6. r = Full(r.snapshot, r.event, r.kind, r.object, r.columns, r.was, r.diffs)
    BY RowIs, Zenon
  <1> QED
    BY <1>3, <1>5, <1>6, Zenon

\* RowsOf finds what happened.
LEMMA RowsAre ==
  CatalogInv => \A s \in 1 .. now : \A r : r \in RowsOf(s) <=> Happened(s, r)
  <1> SUFFICES ASSUME CatalogInv, NEW s \in 1 .. now, NEW r
               PROVE  r \in RowsOf(s) <=> Happened(s, r)
    OBVIOUS
  <1> DEFINE A == history[s - 1]
             B == history[s]
  <1>0. now \in Nat /\ s \in 0 .. now /\ s - 1 \in 0 .. now
    BY DEF CatalogInv, SoundInv
  <1>1. ASSUME r \in RowsOf(s) PROVE Happened(s, r)
    <2>1. CASE SchemaCreated(s, r) \/ SchemaDropped(s, r)
      <3>1. \/ \E x \in New(A.schemas, B.schemas) : r = Full(s, "created", "schema", OfSchema(x), {}, Null, <<>>)
            \/ \E x \in New(B.schemas, A.schemas) : r = Full(s, "dropped", "schema", OfSchema(x), {}, Null, <<>>)
        BY <1>1, <2>1, PlainRowIs DEF SchemaCreated, SchemaDropped
      <3> QED
        BY <3>1, Zenon DEF Happened
    <2>2. CASE ViewCreated(s, r) \/ ViewDropped(s, r)
      <3>1. \/ \E x \in New(A.views, B.views), y \in B.schemas :
                 y.id = x.schema /\ r = Full(s, "created", "view", OfObject(x, y), {}, Null, <<>>)
            \/ \E x \in New(B.views, A.views), y \in A.schemas :
                 y.id = x.schema /\ r = Full(s, "dropped", "view", OfObject(x, y), {}, Null, <<>>)
        BY <1>1, <2>2, PlainRowIs DEF ViewCreated, ViewDropped
      <3> QED
        BY <3>1, Zenon DEF Happened
    <2>3. CASE TableDropped(s, r)
      <3>1. \E x \in New(B.tables, A.tables), y \in A.schemas :
              y.id = x.schema /\ r = Full(s, "dropped", "table", OfObject(x, y), {}, Null, <<>>)
        BY <1>1, <2>3, PlainRowIs DEF TableDropped
      <3> QED
        BY <3>1, Zenon DEF Happened
    <2>4. CASE TableCreated(s, r)
      <3>1. PICK x \in New(A.tables, B.tables), y \in B.schemas :
              y.id = x.schema /\ Tells(r, s, "created", "table", OfObject(x, y), Null)
        BY <2>4 DEF TableCreated
      <3>2. x \in B.tables
        BY DEF New
      <3>3. r = Full(s, "created", "table", OfObject(x, y), x.columns, Null, <<>>)
        BY <1>1, <3>1, <3>2, CreatedRowIs
      <3> QED
        BY <3>1, <3>3 DEF Happened
    <2>5. CASE TableRenamed(s, r) \/ TableAltered(s, r)
      <3>1. PICK w \in A.tables, x \in B.tables, y \in B.schemas :
              /\ w.id = x.id /\ w # x /\ y.id = x.schema
              /\ Tells(r, s, "altered", "table", OfObject(x, y),
                       WasName(w, x))
        BY <2>5 DEF TableRenamed, TableAltered, WasName
      <3>2. r = Full(s, "altered", "table", OfObject(x, y), {}, WasName(w, x), ColumnDiffs(w, x))
        BY <1>1, <3>1, AlteredRowIs, Zenon
      <3> QED
        BY <3>1, <3>2 DEF Happened
    <2> QED
      BY <1>1, <2>1, <2>2, <2>3, <2>4, <2>5, RowsSound
  <1>2. ASSUME Happened(s, r) PROVE r \in RowsOf(s)
    <2>1. ASSUME NEW x \in New(A.schemas, B.schemas), r = Full(s, "created", "schema", OfSchema(x), {}, Null, <<>>)
          PROVE  r \in RowsOf(s)
      BY <2>1, SchemasTold, PlainRowIs
    <2>2. ASSUME NEW x \in New(B.schemas, A.schemas), r = Full(s, "dropped", "schema", OfSchema(x), {}, Null, <<>>)
          PROVE  r \in RowsOf(s)
      BY <2>2, SchemasTold, PlainRowIs
    <2>3. ASSUME NEW x \in New(A.tables, B.tables), NEW y \in B.schemas, y.id = x.schema,
                 r = Full(s, "created", "table", OfObject(x, y), x.columns, Null, <<>>)
          PROVE  r \in RowsOf(s)
      <3>1. PICK q \in RowsOf(s) : Tells(q, s, "created", "table", OfObject(x, y), Null)
        BY <2>3, TablesTold
      <3>2. x \in B.tables
        BY DEF New
      <3>3. q = r
        BY <2>3, <3>1, <3>2, CreatedRowIs
      <3> QED
        BY <3>3
    <2>4. ASSUME NEW w \in A.tables, NEW x \in B.tables, NEW y \in B.schemas,
                 w.id = x.id, w # x, y.id = x.schema,
                 r = Full(s, "altered", "table", OfObject(x, y), {}, WasName(w, x), ColumnDiffs(w, x))
          PROVE  r \in RowsOf(s)
      <3>1. w.name # x.name \/ w.columns # x.columns
        <4>1. \A u, v : u \in A.tables /\ v \in B.tables /\ u.id = v.id =>
                (u # v => u.name # v.name \/ u.columns # v.columns)
          BY <1>0, TablesDiffer
        <4> QED
          BY <2>4, <4>1
      <3>2. PICK q \in RowsOf(s) : Tells(q, s, "altered", "table", OfObject(x, y),
                                         WasName(w, x))
        BY <2>4, <3>1, TablesTold DEF WasName
      <3>3. q = r
        BY <2>4, <3>2, AlteredRowIs, Zenon
      <3> QED
        BY <3>3
    <2>5. ASSUME NEW x \in New(B.tables, A.tables), NEW y \in A.schemas, y.id = x.schema,
                 r = Full(s, "dropped", "table", OfObject(x, y), {}, Null, <<>>)
          PROVE  r \in RowsOf(s)
      BY <2>5, TablesTold, PlainRowIs
    <2>6. ASSUME NEW x \in New(A.views, B.views), NEW y \in B.schemas, y.id = x.schema,
                 r = Full(s, "created", "view", OfObject(x, y), {}, Null, <<>>)
          PROVE  r \in RowsOf(s)
      BY <2>6, ViewsTold, PlainRowIs
    <2>7. ASSUME NEW x \in New(B.views, A.views), NEW y \in A.schemas, y.id = x.schema,
                 r = Full(s, "dropped", "view", OfObject(x, y), {}, Null, <<>>)
          PROVE  r \in RowsOf(s)
      BY <2>7, ViewsTold, PlainRowIs
    <2> QED
      BY <1>2, <2>1, <2>2, <2>3, <2>4, <2>5, <2>6, <2>7 DEF Happened
  <1> QED
    BY <1>1, <1>2

\* The rows of a snapshot are those of what happened in it, with the names of
\* then: no more and no less, each table once however it was changed, with
\* its columns and the diff of them (ddl.cpp:738-1046).
THEOREM RowsExact == Spec => [](\A s \in 1 .. now : \A r : r \in RowsOf(s) <=> Happened(s, r))
  BY RowsAre, Invariance, PTL

-----------------------------------------------------------------------------
(* Sequences *)

\* How many elements of S the relation R puts before x.
Place(S, R, x) == Cardinality({y \in S : <<y, x>> \in R})

\* R orders S, one element after the other.
Orders(R, S) ==
  /\ \A x \in S : <<x, x>> \notin R
  /\ \A x, y, z \in S : <<x, y>> \in R /\ <<y, z>> \in R => <<x, z>> \in R
  /\ \A x, y \in S : x # y => <<x, y>> \in R \/ <<y, x>> \in R

\* q has every element of S, once, in the order of R.
Lists(q, S, R) ==
  /\ Len(q) \in Nat /\ q \in [1 .. Len(q) -> S]
  /\ \A x \in S : \E i \in 1 .. Len(q) : q[i] = x
  /\ \A i, j \in 1 .. Len(q) : q[i] = q[j] => i = j
  /\ \A i, j \in 1 .. Len(q) : <<q[i], q[j]>> \in R => i < j

\* Where an order is, every place is taken, and once.
LEMMA Places ==
  ASSUME NEW S, IsFiniteSet(S), NEW R, Orders(R, S)
  PROVE  /\ Cardinality(S) \in Nat
         /\ \A x \in S : Place(S, R, x) \in 0 .. Cardinality(S) - 1
         /\ \A x, y \in S : <<x, y>> \in R => Place(S, R, x) < Place(S, R, y)
         /\ \A k \in 0 .. Cardinality(S) - 1 : \E x \in S : Place(S, R, x) = k
  <1> DEFINE n == Cardinality(S)
             Low(x) == {y \in S : <<y, x>> \in R}
  <1>1. n \in Nat
    BY FS_CardinalityType
  <1>2. ASSUME NEW x \in S PROVE IsFiniteSet(Low(x)) /\ Place(S, R, x) \in 0 .. n - 1
    <2>1. Low(x) \in SUBSET S /\ x \notin Low(x)
      BY DEF Orders
    <2>2. IsFiniteSet(Low(x)) /\ Cardinality(Low(x)) <= n /\ (n = Cardinality(Low(x)) => S = Low(x))
      BY <2>1, FS_Subset
    <2>3. Cardinality(Low(x)) \in Nat
      BY <2>2, FS_CardinalityType
    <2> QED
      BY <1>1, <2>1, <2>2, <2>3 DEF Place
  <1>a. \A x \in S : Place(S, R, x) \in Int
    <2>1. \A x \in S : Place(S, R, x) \in 0 .. n - 1
      BY <1>2, Zenon
    <2> HIDE DEF n
    <2> QED
      BY <1>1, <2>1
  <1>3. ASSUME NEW x \in S, NEW y \in S, <<x, y>> \in R PROVE Place(S, R, x) < Place(S, R, y)
    <2>1. Low(x) \in SUBSET Low(y) /\ x \in Low(y) /\ x \notin Low(x)
      BY <1>3 DEF Orders
    <2>2. /\ Cardinality(Low(x)) <= Cardinality(Low(y))
          /\ Cardinality(Low(y)) = Cardinality(Low(x)) => Low(y) = Low(x)
      BY <1>2, <2>1, FS_Subset
    <2>3. Place(S, R, x) \in Int /\ Place(S, R, y) \in Int
      BY <1>a
    <2> QED
      BY <2>1, <2>2, <2>3 DEF Place
  <1> DEFINE f == [x \in S |-> Place(S, R, x)]
  <1>4. f \in Injection(S, 0 .. n - 1)
    <2>1. f \in [S -> 0 .. n - 1]
      BY <1>2
    <2>2. ASSUME NEW x \in S, NEW y \in S, x # y PROVE Place(S, R, x) # Place(S, R, y)
      <3>1. Place(S, R, x) < Place(S, R, y) \/ Place(S, R, y) < Place(S, R, x)
        BY <1>3, <2>2 DEF Orders
      <3>2. Place(S, R, x) \in Int /\ Place(S, R, y) \in Int
        BY <1>a
      <3> QED
        BY <3>1, <3>2
    <2>3. IsInjective(f)
      BY <2>2 DEF IsInjective
    <2> QED
      BY <2>1, <2>3 DEF Injection
  <1>5. IsFiniteSet(0 .. n - 1) /\ Cardinality(0 .. n - 1) = n
    BY <1>1, FS_Interval
  <1>6. f \in Surjection(S, 0 .. n - 1)
    BY <1>4, <1>5, FS_Injection
  <1>7. ASSUME NEW k \in 0 .. n - 1 PROVE \E x \in S : Place(S, R, x) = k
    <2>1. \E x \in S : f[x] = k
      BY <1>6 DEF Surjection
    <2> QED
      BY <2>1
  <1> QED
    BY <1>1, <1>2, <1>3, <1>7

\* A sequence whose i-th element is the one that i - 1 others precede lists S.
LEMMA SortedLists ==
  ASSUME NEW S, IsFiniteSet(S), NEW R, Orders(R, S),
         NEW q \in [1 .. Cardinality(S) -> S],
         \A i \in 1 .. Cardinality(S) : Place(S, R, q[i]) = i - 1
  PROVE  Lists(q, S, R)
  <1> DEFINE n == Cardinality(S)
  <1>1. /\ n \in Nat
        /\ \A x \in S : Place(S, R, x) \in 0 .. n - 1
        /\ \A x, y \in S : <<x, y>> \in R => Place(S, R, x) < Place(S, R, y)
        /\ \A k \in 0 .. n - 1 : \E x \in S : Place(S, R, x) = k
    BY Places
  <1>2. ASSUME NEW i \in 1 .. n PROVE q[i] \in S /\ Place(S, R, q[i]) = i - 1
    OBVIOUS
  <1>3. Len(q) = n /\ q \in [1 .. n -> S]
    <2>1. q \in [1 .. n -> S]
      BY <1>2
    <2> QED
      BY <1>1, <2>1
  <1>4. ASSUME NEW x \in S, NEW y \in S, Place(S, R, x) = Place(S, R, y) PROVE x = y
    <2>1. Place(S, R, x) \in Int /\ Place(S, R, y) \in Int
      BY <1>1
    <2>2. <<x, y>> \notin R /\ <<y, x>> \notin R
      <3>1. ~(Place(S, R, x) < Place(S, R, y)) /\ ~(Place(S, R, y) < Place(S, R, x))
        BY <1>4, <2>1
      <3> QED
        BY <1>1, <3>1
    <2> QED
      BY <2>2 DEF Orders
  <1>5. ASSUME NEW x \in S PROVE \E i \in 1 .. n : q[i] = x
    <2>1. Place(S, R, x) + 1 \in 1 .. n /\ (Place(S, R, x) + 1) - 1 = Place(S, R, x)
      BY <1>1
    <2>2. q[Place(S, R, x) + 1] = x
      BY <2>1, <1>2, <1>4
    <2> QED
      BY <2>1, <2>2
  <1>6. ASSUME NEW i \in 1 .. n, NEW j \in 1 .. n
        PROVE  (q[i] = q[j] => i = j) /\ (<<q[i], q[j]>> \in R => i < j)
    BY <1>1, <1>2
  <1>7. Len(q) \in Nat /\ q \in [1 .. Len(q) -> S]
    BY <1>1, <1>3
  <1>8. \A x \in S : \E i \in 1 .. Len(q) : q[i] = x
    BY <1>3, <1>5
  <1>9. ASSUME NEW i \in 1 .. Len(q), NEW j \in 1 .. Len(q)
        PROVE  (q[i] = q[j] => i = j) /\ (<<q[i], q[j]>> \in R => i < j)
    <2>1. i \in 1 .. n /\ j \in 1 .. n
      BY <1>3
    <2> QED
      BY <1>6, <2>1
  <1> QED
    BY <1>7, <1>8, <1>9 DEF Lists

-----------------------------------------------------------------------------
(* Folds over sequences *)

\* g folds the first m elements of seq with ApplyRow, by the sets of their
\* places: this is how FoldLeft is defined.
RowFold(g, base, seq, m) ==
  g = [s \in SUBSET (1 .. m) |->
         IF s = {} THEN base ELSE ApplyRow(g[s \ {Max(s)}], seq[Max(s)])]

\* The function FoldLeft chooses exists.
LEMMA RowFoldExists ==
  ASSUME NEW base, NEW seq
  PROVE  \A m \in Nat : \E g : RowFold(g, base, seq, m)
  <1> DEFINE T == {m \in Nat : ~ \E g : RowFold(g, base, seq, m)}
  <1>1. SUFFICES ASSUME T # {} PROVE FALSE
    OBVIOUS
  <1>2. PICK m \in T : \A k \in T : m <= k
    <2> HIDE DEF T
    <2>1. T \in SUBSET Nat
      BY DEF T
    <2> QED
      BY <1>1, <2>1, LeastElement, Zenon
  <1>3. CASE m = 0
    <2>1. 1 .. 0 = {}
      OBVIOUS
    <2>2. RowFold([s \in SUBSET (1 .. 0) |-> base], base, seq, 0)
      BY <2>1 DEF RowFold
    <2> QED
      BY <1>2, <1>3, <2>2
  <1>4. CASE m # 0
    <2>1. m - 1 \in Nat /\ m - 1 \notin T /\ m \in Nat /\ m \in 1 .. m
      BY <1>2, <1>4
    <2>2. PICK g : RowFold(g, base, seq, m - 1)
      BY <2>1
    <2> DEFINE Step(f, s) == IF s = {} THEN base ELSE ApplyRow(f[s \ {Max(s)}], seq[Max(s)])
               h == [s \in SUBSET (1 .. m) |->
                       IF m \in s THEN ApplyRow(g[s \ {m}], seq[m]) ELSE g[s]]
    <2>3. \A s \in SUBSET (1 .. m - 1) : g[s] = Step(g, s)
      <3>1. g = [s \in SUBSET (1 .. m - 1) |-> Step(g, s)]
        BY <2>2 DEF RowFold
      <3> HIDE DEF Step
      <3> QED
        BY <3>1
    <2>4. ASSUME NEW s \in SUBSET (1 .. m - 1)
          PROVE  s \in SUBSET (1 .. m) /\ m \notin s /\ h[s] = g[s]
      <3>1. s \in SUBSET (1 .. m) /\ m \notin s
        BY <2>1
      <3> QED
        BY <3>1
    <2>5. ASSUME NEW s \in SUBSET (1 .. m) PROVE h[s] = Step(h, s)
      <3>1. CASE m \in s
        <4>1. Max(s) = m
          <5>1. s \in SUBSET Nat /\ \A y \in s : y <= m
            BY <2>1
          <5>2. Max(s) \in s /\ \A y \in s : y <= Max(s)
            BY <5>1, <3>1, <2>1, MaxIs
          <5> QED
            <6>1. Max(s) \in Nat /\ Max(s) <= m /\ m <= Max(s)
              BY <5>1, <5>2, <3>1
            <6> QED
              BY <6>1, <2>1
        <4>2. s \ {m} \in SUBSET (1 .. m - 1)
          BY <2>1
        <4>3. h[s \ {m}] = g[s \ {m}]
          BY <4>2, <2>4
        <4>4. h[s] = ApplyRow(g[s \ {m}], seq[m])
          BY <3>1
        <4> QED
          BY <4>1, <4>3, <4>4, <3>1
      <3>2. CASE m \notin s
        <4>a. \A y \in s : y \in 1 .. m - 1
          BY <2>1, <3>2
        <4>1. s \in SUBSET (1 .. m - 1) /\ s \ {Max(s)} \in SUBSET (1 .. m - 1)
          BY <4>a
        <4>2. h[s] = g[s] /\ h[s \ {Max(s)}] = g[s \ {Max(s)}]
          BY <4>1, <2>4
        <4>3. g[s] = Step(g, s)
          BY <4>1, <2>3
        <4> HIDE DEF h
        <4> QED
          BY <4>2, <4>3
      <3> QED
        BY <3>1, <3>2
    <2>6. RowFold(h, base, seq, m)
      <3>1. h = [s \in SUBSET (1 .. m) |-> h[s]]
        OBVIOUS
      <3>2. [s \in SUBSET (1 .. m) |-> h[s]] = [s \in SUBSET (1 .. m) |-> Step(h, s)]
        <4> HIDE DEF h, Step
        <4> QED
          BY <2>5
      <3>3. h = [s \in SUBSET (1 .. m) |-> Step(h, s)]
        <4> HIDE DEF h, Step
        <4> QED
          BY <3>1, <3>2
      <3> HIDE DEF h
      <3> QED
        BY <3>3 DEF RowFold
    <2> QED
      BY <1>2, <2>6
  <1> QED
    BY <1>3, <1>4

\* One row after the other.
LEMMA RowsApplied ==
  ASSUME NEW seq, NEW n \in Nat, DOMAIN seq = 1 .. n, NEW at,
         \A i \in 1 .. n : at[i] = ApplyRow(at[i - 1], seq[i])
  PROVE  FoldLeft(ApplyRow, at[0], seq) = at[n]
  <1> DEFINE F == CHOOSE g : RowFold(g, at[0], seq, n)
  <1>1. FoldLeft(ApplyRow, at[0], seq) = F[1 .. n]
    <2>1. FoldLeft(ApplyRow, at[0], seq) =
            (CHOOSE g : g = [s \in SUBSET DOMAIN seq |->
               IF s = {} THEN at[0] ELSE ApplyRow(g[s \ {Max(s)}], seq[Max(s)])])[DOMAIN seq]
      BY Zenon DEF FoldLeft, MapThenFoldSet
    <2> QED
      BY <2>1 DEF RowFold
  <1>2. RowFold(F, at[0], seq, n)
    <2>1. \E g : RowFold(g, at[0], seq, n)
      BY RowFoldExists
    <2> QED
      BY <2>1, Zenon
  <1>3. \A s \in SUBSET (1 .. n) :
          F[s] = IF s = {} THEN at[0] ELSE ApplyRow(F[s \ {Max(s)}], seq[Max(s)])
    <2> HIDE DEF F
    <2> QED
      BY <1>2 DEF RowFold
  <1> HIDE DEF F
  <1> DEFINE T == {m \in 0 .. n : F[1 .. m] # at[m]}
  <1>4. SUFFICES ASSUME T # {} PROVE FALSE
    <2>1. n \in 0 .. n
      OBVIOUS
    <2>2. F[1 .. n] = at[n]
      BY <1>4, <2>1
    <2> QED
      BY <1>1, <2>2
  <1>5. PICK m \in T : \A k \in T : m <= k
    <2>1. T \in SUBSET Nat
      OBVIOUS
    <2> HIDE DEF T
    <2> QED
      BY <1>4, <2>1, LeastElement, Zenon
  <1>6. m \in 0 .. n /\ F[1 .. m] # at[m]
    BY <1>5
  <1>7. CASE m = 0
    <2>1. 1 .. m = {}
      BY <1>7
    <2>2. F[1 .. m] = at[0]
      BY <2>1, <1>3
    <2> QED
      BY <1>6, <1>7, <2>2
  <1>8. CASE m # 0
    <2>1. m - 1 \in 0 .. n /\ m \in 1 .. n /\ m \in Nat
      BY <1>6, <1>8
    <2>2. F[1 .. m - 1] = at[m - 1]
      <3>1. m - 1 \notin T
        <4> HIDE DEF T
        <4> QED
          BY <1>5, <2>1
      <3> QED
        BY <2>1, <3>1
    <2>3. Max(1 .. m) = m
      <3>1. 1 .. m \in SUBSET Nat /\ m \in 1 .. m /\ \A y \in 1 .. m : y <= m
        BY <2>1
      <3>2. Max(1 .. m) \in 1 .. m /\ \A y \in 1 .. m : y <= Max(1 .. m)
        BY <2>1, <3>1, MaxIs
      <3> QED
        BY <2>1, <3>1, <3>2
    <2>4. (1 .. m) \ {m} = 1 .. m - 1 /\ 1 .. m \in SUBSET (1 .. n) /\ 1 .. m # {}
      <3>1. \A y : y \in (1 .. m) \ {m} <=> y \in 1 .. m - 1
        BY <2>1
      <3>2. 1 .. m \subseteq 1 .. n /\ m \in 1 .. m
        BY <2>1
      <3> QED
        BY <3>1, <3>2
    <2>5. F[1 .. m] = ApplyRow(F[1 .. m - 1], seq[m])
      BY <1>3, <2>3, <2>4
    <2> QED
      BY <1>6, <2>1, <2>2, <2>5
  <1> QED
    BY <1>7, <1>8

\* g folds the first m elements of seq with ApplyDiff, by the sets of their
\* places: this is how FoldLeft is defined.
DiffFold(g, base, seq, m) ==
  g = [s \in SUBSET (1 .. m) |->
         IF s = {} THEN base ELSE ApplyDiff(g[s \ {Max(s)}], seq[Max(s)])]

\* The function FoldLeft chooses exists.
LEMMA DiffFoldExists ==
  ASSUME NEW base, NEW seq
  PROVE  \A m \in Nat : \E g : DiffFold(g, base, seq, m)
  <1> DEFINE T == {m \in Nat : ~ \E g : DiffFold(g, base, seq, m)}
  <1>1. SUFFICES ASSUME T # {} PROVE FALSE
    OBVIOUS
  <1>2. PICK m \in T : \A k \in T : m <= k
    <2> HIDE DEF T
    <2>1. T \in SUBSET Nat
      BY DEF T
    <2> QED
      BY <1>1, <2>1, LeastElement, Zenon
  <1>3. CASE m = 0
    <2>1. 1 .. 0 = {}
      OBVIOUS
    <2>2. DiffFold([s \in SUBSET (1 .. 0) |-> base], base, seq, 0)
      BY <2>1 DEF DiffFold
    <2> QED
      BY <1>2, <1>3, <2>2
  <1>4. CASE m # 0
    <2>1. m - 1 \in Nat /\ m - 1 \notin T /\ m \in Nat /\ m \in 1 .. m
      BY <1>2, <1>4
    <2>2. PICK g : DiffFold(g, base, seq, m - 1)
      BY <2>1
    <2> DEFINE Step(f, s) == IF s = {} THEN base ELSE ApplyDiff(f[s \ {Max(s)}], seq[Max(s)])
               h == [s \in SUBSET (1 .. m) |->
                       IF m \in s THEN ApplyDiff(g[s \ {m}], seq[m]) ELSE g[s]]
    <2>3. \A s \in SUBSET (1 .. m - 1) : g[s] = Step(g, s)
      <3>1. g = [s \in SUBSET (1 .. m - 1) |-> Step(g, s)]
        BY <2>2 DEF DiffFold
      <3> HIDE DEF Step
      <3> QED
        BY <3>1
    <2>4. ASSUME NEW s \in SUBSET (1 .. m - 1)
          PROVE  s \in SUBSET (1 .. m) /\ m \notin s /\ h[s] = g[s]
      <3>1. s \in SUBSET (1 .. m) /\ m \notin s
        BY <2>1
      <3> QED
        BY <3>1
    <2>5. ASSUME NEW s \in SUBSET (1 .. m) PROVE h[s] = Step(h, s)
      <3>1. CASE m \in s
        <4>1. Max(s) = m
          <5>1. s \in SUBSET Nat /\ \A y \in s : y <= m
            BY <2>1
          <5>2. Max(s) \in s /\ \A y \in s : y <= Max(s)
            BY <5>1, <3>1, <2>1, MaxIs
          <5> QED
            <6>1. Max(s) \in Nat /\ Max(s) <= m /\ m <= Max(s)
              BY <5>1, <5>2, <3>1
            <6> QED
              BY <6>1, <2>1
        <4>2. s \ {m} \in SUBSET (1 .. m - 1)
          BY <2>1
        <4>3. h[s \ {m}] = g[s \ {m}]
          BY <4>2, <2>4
        <4>4. h[s] = ApplyDiff(g[s \ {m}], seq[m])
          BY <3>1
        <4> QED
          BY <4>1, <4>3, <4>4, <3>1
      <3>2. CASE m \notin s
        <4>a. \A y \in s : y \in 1 .. m - 1
          BY <2>1, <3>2
        <4>1. s \in SUBSET (1 .. m - 1) /\ s \ {Max(s)} \in SUBSET (1 .. m - 1)
          BY <4>a
        <4>2. h[s] = g[s] /\ h[s \ {Max(s)}] = g[s \ {Max(s)}]
          BY <4>1, <2>4
        <4>3. g[s] = Step(g, s)
          BY <4>1, <2>3
        <4> HIDE DEF h
        <4> QED
          BY <4>2, <4>3
      <3> QED
        BY <3>1, <3>2
    <2>6. DiffFold(h, base, seq, m)
      <3>1. h = [s \in SUBSET (1 .. m) |-> h[s]]
        OBVIOUS
      <3>2. [s \in SUBSET (1 .. m) |-> h[s]] = [s \in SUBSET (1 .. m) |-> Step(h, s)]
        <4> HIDE DEF h, Step
        <4> QED
          BY <2>5
      <3>3. h = [s \in SUBSET (1 .. m) |-> Step(h, s)]
        <4> HIDE DEF h, Step
        <4> QED
          BY <3>1, <3>2
      <3> HIDE DEF h
      <3> QED
        BY <3>3 DEF DiffFold
    <2> QED
      BY <1>2, <2>6
  <1> QED
    BY <1>3, <1>4

\* One difference after the other.
LEMMA DiffsApplied ==
  ASSUME NEW seq, NEW n \in Nat, DOMAIN seq = 1 .. n, NEW at,
         \A i \in 1 .. n : at[i] = ApplyDiff(at[i - 1], seq[i])
  PROVE  FoldLeft(ApplyDiff, at[0], seq) = at[n]
  <1> DEFINE F == CHOOSE g : DiffFold(g, at[0], seq, n)
  <1>1. FoldLeft(ApplyDiff, at[0], seq) = F[1 .. n]
    <2>1. FoldLeft(ApplyDiff, at[0], seq) =
            (CHOOSE g : g = [s \in SUBSET DOMAIN seq |->
               IF s = {} THEN at[0] ELSE ApplyDiff(g[s \ {Max(s)}], seq[Max(s)])])[DOMAIN seq]
      BY Zenon DEF FoldLeft, MapThenFoldSet
    <2> QED
      BY <2>1 DEF DiffFold
  <1>2. DiffFold(F, at[0], seq, n)
    <2>1. \E g : DiffFold(g, at[0], seq, n)
      BY DiffFoldExists
    <2> QED
      BY <2>1, Zenon
  <1>3. \A s \in SUBSET (1 .. n) :
          F[s] = IF s = {} THEN at[0] ELSE ApplyDiff(F[s \ {Max(s)}], seq[Max(s)])
    <2> HIDE DEF F
    <2> QED
      BY <1>2 DEF DiffFold
  <1> HIDE DEF F
  <1> DEFINE T == {m \in 0 .. n : F[1 .. m] # at[m]}
  <1>4. SUFFICES ASSUME T # {} PROVE FALSE
    <2>1. n \in 0 .. n
      OBVIOUS
    <2>2. F[1 .. n] = at[n]
      BY <1>4, <2>1
    <2> QED
      BY <1>1, <2>2
  <1>5. PICK m \in T : \A k \in T : m <= k
    <2>1. T \in SUBSET Nat
      OBVIOUS
    <2> HIDE DEF T
    <2> QED
      BY <1>4, <2>1, LeastElement, Zenon
  <1>6. m \in 0 .. n /\ F[1 .. m] # at[m]
    BY <1>5
  <1>7. CASE m = 0
    <2>1. 1 .. m = {}
      BY <1>7
    <2>2. F[1 .. m] = at[0]
      BY <2>1, <1>3
    <2> QED
      BY <1>6, <1>7, <2>2
  <1>8. CASE m # 0
    <2>1. m - 1 \in 0 .. n /\ m \in 1 .. n /\ m \in Nat
      BY <1>6, <1>8
    <2>2. F[1 .. m - 1] = at[m - 1]
      <3>1. m - 1 \notin T
        <4> HIDE DEF T
        <4> QED
          BY <1>5, <2>1
      <3> QED
        BY <2>1, <3>1
    <2>3. Max(1 .. m) = m
      <3>1. 1 .. m \in SUBSET Nat /\ m \in 1 .. m /\ \A y \in 1 .. m : y <= m
        BY <2>1
      <3>2. Max(1 .. m) \in 1 .. m /\ \A y \in 1 .. m : y <= Max(1 .. m)
        BY <2>1, <3>1, MaxIs
      <3> QED
        BY <2>1, <3>1, <3>2
    <2>4. (1 .. m) \ {m} = 1 .. m - 1 /\ 1 .. m \in SUBSET (1 .. n) /\ 1 .. m # {}
      <3>1. \A y : y \in (1 .. m) \ {m} <=> y \in 1 .. m - 1
        BY <2>1
      <3>2. 1 .. m \subseteq 1 .. n /\ m \in 1 .. m
        BY <2>1
      <3> QED
        BY <3>1, <3>2
    <2>5. F[1 .. m] = ApplyDiff(F[1 .. m - 1], seq[m])
      BY <1>3, <2>3, <2>4
    <2> QED
      BY <1>6, <2>1, <2>2, <2>5
  <1> QED
    BY <1>7, <1>8

\* One sequence is what a sequence of it is flattened to.
LEMMA Flattened ==
  ASSUME NEW q
  PROVE  FlattenSeq([i \in 1 .. 1 |-> q]) = q
  <1> DEFINE seqs == [i \in 1 .. 1 |-> q]
             G == CHOOSE g : g = [i \in 1 .. 1 |-> IF i = 1 THEN seqs[i] ELSE g[i - 1] \o seqs[i]]
  <1>1. Len(seqs) = 1 /\ seqs[1] = q
    OBVIOUS
  <1>2. FlattenSeq(seqs) = IF Len(seqs) = 0 THEN seqs
          ELSE (CHOOSE g : g = [i \in 1 .. Len(seqs) |->
                                  IF i = 1 THEN seqs[i] ELSE g[i - 1] \o seqs[i]])[Len(seqs)]
    <2> HIDE DEF seqs
    <2> QED
      BY Zenon DEF FlattenSeq
  <1>3. FlattenSeq(seqs) = G[1]
    <2> HIDE DEF seqs
    <2> QED
      BY <1>1, <1>2
  <1>4. G = [i \in 1 .. 1 |-> IF i = 1 THEN seqs[i] ELSE G[i - 1] \o seqs[i]]
    <2> DEFINE IsIt(g) == g = [i \in 1 .. 1 |-> IF i = 1 THEN seqs[i] ELSE g[i - 1] \o seqs[i]]
    <2>1. IsIt([i \in 1 .. 1 |-> q])
      OBVIOUS
    <2>2. IsIt(CHOOSE g : IsIt(g))
      <3> HIDE DEF IsIt
      <3> QED
        BY <2>1, Zenon
    <2> QED
      BY <2>2
  <1>5. G[1] = q
    <2> HIDE DEF G
    <2> QED
      BY <1>1, <1>4
  <1> QED
    BY <1>3, <1>5

-----------------------------------------------------------------------------
(* Prefixes of a list *)

\* The first i elements of a list.
Prefix(q, i) == {q[j] : j \in 1 .. i}

\* When P is done, x is the next of S in the order R.
Due(S, R, P, x) ==
  /\ P \subseteq S /\ x \in S /\ x \notin P
  /\ \A a \in S : <<a, x>> \in R => a \in P

\* The elements of a list come one by one, each when it is due.
LEMMA PrefixIs ==
  ASSUME NEW q, NEW S, NEW R, Lists(q, S, R)
  PROVE  /\ Prefix(q, 0) = {} /\ Prefix(q, Len(q)) = S
         /\ \A i \in 1 .. Len(q) : /\ Due(S, R, Prefix(q, i - 1), q[i])
                                   /\ Prefix(q, i) = Prefix(q, i - 1) \union {q[i]}
  <1> DEFINE n == Len(q)
  <1>1. /\ n \in Nat /\ q \in [1 .. n -> S]
        /\ \A x \in S : \E i \in 1 .. n : q[i] = x
        /\ \A i, j \in 1 .. n : q[i] = q[j] => i = j
        /\ \A i, j \in 1 .. n : <<q[i], q[j]>> \in R => i < j
    BY DEF Lists
  <1> HIDE DEF n
  <1>2. Prefix(q, 0) = {} /\ Prefix(q, n) = S
    BY <1>1 DEF Prefix
  <1>3. ASSUME NEW i \in 1 .. n
        PROVE  /\ Due(S, R, Prefix(q, i - 1), q[i])
               /\ Prefix(q, i) = Prefix(q, i - 1) \union {q[i]}
    <2>1. \A j : j \in 1 .. i - 1 <=> j \in 1 .. n /\ j < i
      BY <1>1
    <2>2. \A j : j \in 1 .. i <=> j \in 1 .. i - 1 \/ j = i
      BY <1>1
    <2>3. q[i] \in S
      BY <1>1
    <2>4. q[i] \notin Prefix(q, i - 1)
      BY <1>1, <2>1 DEF Prefix
    <2>5. Prefix(q, i - 1) \subseteq S
      BY <1>1, <2>1 DEF Prefix
    <2>6. Prefix(q, i) = Prefix(q, i - 1) \union {q[i]}
      BY <2>2 DEF Prefix
    <2>7. ASSUME NEW a \in S, <<a, q[i]>> \in R PROVE a \in Prefix(q, i - 1)
      <3>1. PICK j \in 1 .. n : q[j] = a
        BY <1>1
      <3>2. j < i
        BY <1>1, <2>7, <3>1
      <3> QED
        BY <2>1, <3>1, <3>2 DEF Prefix
    <2> QED
      BY <2>3, <2>4, <2>5, <2>6, <2>7 DEF Due
  <1> QED
    BY <1>2, <1>3 DEF n

-----------------------------------------------------------------------------
(* What a transaction can make of the columns *)

\* The column ids in the rows of a table.
UsedColumns(i) == {r.object.column.id : r \in {q \in columnRows : q.object.table = i}}

\* A column of C that was in A is a field of the same struct.
Kin(old, new) == \A c \in old, d \in new : c.id = d.id => c.parent = d.parent

\* A table keeps the parents of the columns it keeps, and C is proper.
Fits(A, C) ==
  /\ Proper(C)
  /\ \A w \in A.tables, x \in C.tables : w.id = x.id => Kin(w.columns, x.columns)

\* What rows keep of a catalog.
Recorded(A) ==
  /\ Bounded(Used)
  /\ IdsOf(A) \subseteq Used
  /\ \A i : UsedColumns(i) \subseteq 1 .. MaxColumn
  /\ \A w \in A.tables : Ids(w.columns) \subseteq UsedColumns(w.id)

\* A new column has an id of its own, larger than that of its parent.
LEMMA FreshColumnIs ==
  ASSUME NEW x, SoundColumns(x.columns), UsedColumns(x.id) \subseteq 1 .. MaxColumn
  PROVE  /\ FreshColumn(x) \in Nat \ {0}
         /\ \A i \in Ids(x.columns) \union UsedColumns(x.id) : i < FreshColumn(x)
  <1> DEFINE S == UsedColumns(x.id) \union Ids(x.columns)
  <1>0. MaxColumn \in Nat
    BY CatalogAssumption
  <1>1. S \subseteq 1 .. MaxColumn /\ S # {}
    BY DEF SoundColumns, Tree, Ids
  <1>2. S \in SUBSET Nat /\ \A i \in S : i <= MaxColumn
    BY <1>0, <1>1
  <1>3. FreshColumn(x) = 1 + Max(S)
    BY Zenon DEF FreshColumn, UsedColumns, Ids
  <1>4. Max(S) \in S /\ \A i \in S : i <= Max(S)
    <2> HIDE DEF S
    <2> QED
      BY <1>0, <1>1, <1>2, MaxIs
  <1> HIDE DEF S
  <1>5. Max(S) \in Nat /\ \A i \in S : i \in Nat
    BY <1>2, <1>4
  <1>6. \A i \in S : i < 1 + Max(S)
    BY <1>4, <1>5
  <1>7. S = Ids(x.columns) \union UsedColumns(x.id)
    BY DEF S
  <1> QED
    BY <1>3, <1>5, <1>6, <1>7

LEMMA ColumnAdded ==
  ASSUME NEW cs, SoundColumns(cs), NEW i \in 1 .. MaxColumn, \A c \in cs : c.id < i,
         NEW p \in {Top} \union Ids(cs), NEW t, NEW n
  PROVE  SoundColumns(cs \union {[id |-> i, parent |-> p, type |-> t, name |-> n]})
  <1> DEFINE c == [id |-> i, parent |-> p, type |-> t, name |-> n]
             ds == cs \union {c}
  <1>1. c.id = i /\ c.parent = p /\ c = [id |-> c.id, parent |-> c.parent, type |-> c.type, name |-> c.name]
    OBVIOUS
  <1> HIDE DEF c
  <1>2. ds # {}
    OBVIOUS
  <1>3. \A d \in cs : d.id \in 1 .. MaxColumn /\ d.id < i
    BY DEF SoundColumns, Tree
  <1>4. \A d \in cs : d.id # i
    BY <1>3, CatalogAssumption
  <1>5. \A d, e \in ds : d.id = e.id => d = e
    BY <1>1, <1>4 DEF SoundColumns, Tree
  <1>6. p = Top \/ \E d \in ds : d.id = p /\ d.id < i
    BY <1>3 DEF Ids
  <1>7. \A d \in ds : /\ d = [id |-> d.id, parent |-> d.parent, type |-> d.type, name |-> d.name]
                      /\ d.id \in 1 .. MaxColumn
                      /\ d.parent = Top \/ \E e \in ds : e.id = d.parent /\ e.id < d.id
    BY <1>1, <1>6 DEF SoundColumns, Tree
  <1>8. SoundColumns(ds)
    BY <1>2, <1>5, <1>7 DEF SoundColumns, Tree
  <1> QED
    BY <1>8 DEF c

\* A column has another name or type.
LEMMA ColumnReplaced ==
  ASSUME NEW cs, SoundColumns(cs), NEW c \in cs, NEW d, d.id = c.id, d.parent = c.parent,
         d = [id |-> d.id, parent |-> d.parent, type |-> d.type, name |-> d.name]
  PROVE  /\ SoundColumns((cs \ {c}) \union {d})
         /\ \A e \in (cs \ {c}) \union {d} : \E b \in cs : b.id = e.id /\ b.parent = e.parent
  <1> DEFINE ds == (cs \ {c}) \union {d}
  <1>1. ds # {}
    OBVIOUS
  <1>2. \A e \in ds : \E b \in cs : /\ b.id = e.id /\ b.parent = e.parent
                                    /\ (b = e \/ (b = c /\ e = d))
    OBVIOUS
  <1>3. \A b \in cs : \E e \in ds : b.id = e.id
    OBVIOUS
  <1>4. \A e \in ds : /\ e = [id |-> e.id, parent |-> e.parent, type |-> e.type, name |-> e.name]
                      /\ e.id \in 1 .. MaxColumn
    BY <1>2 DEF SoundColumns, Tree
  <1>5. ASSUME NEW e \in ds
        PROVE  e.parent = Top \/ \E f \in ds : f.id = e.parent /\ f.id < e.id
    <2>1. PICK b \in cs : b.id = e.id /\ b.parent = e.parent
      BY <1>2
    <2>2. b.parent = Top \/ \E f \in cs : f.id = b.parent /\ f.id < b.id
      BY DEF SoundColumns, Tree
    <2> HIDE DEF ds
    <2> QED
      BY <1>3, <2>1, <2>2
  <1>6. \A e, f \in ds : e.id = f.id => e = f
    BY DEF SoundColumns, Tree
  <1> QED
    BY <1>1, <1>2, <1>4, <1>5, <1>6 DEF SoundColumns, Tree

\* A column goes with its fields.
LEMMA ColumnsDropped ==
  ASSUME NEW cs, SoundColumns(cs), NEW G \in SUBSET cs, cs \ G # {},
         \A d \in cs : (\E e \in G : d.parent = e.id) => d \in G
  PROVE  SoundColumns(cs \ G)
  <1> DEFINE ds == cs \ G
  <1>2. ASSUME NEW e \in ds
        PROVE  e.parent = Top \/ \E f \in ds : f.id = e.parent /\ f.id < e.id
    BY DEF SoundColumns, Tree
  <1>3. \A e \in ds : /\ e = [id |-> e.id, parent |-> e.parent, type |-> e.type, name |-> e.name]
                      /\ e.id \in 1 .. MaxColumn
    BY DEF SoundColumns, Tree
  <1>4. \A e, f \in ds : e.id = f.id => e = f
    BY DEF SoundColumns, Tree
  <1> QED
    BY <1>2, <1>3, <1>4 DEF SoundColumns, Tree

\* A table of C has other columns, or another name.
LEMMA ColumnsFit ==
  ASSUME NEW A, NEW C, Sound(C), Fits(A, C), NEW x \in C.tables, NEW cs, SoundColumns(cs),
         NEW y, y.id = x.id, y.columns = cs,
         \A d \in cs : \/ \E c \in x.columns : c.id = d.id /\ c.parent = d.parent
                       \/ \A w \in A.tables : w.id = x.id => d.id \notin Ids(w.columns)
  PROVE  Fits(A, WithTable(C, x, y))
  <1> DEFINE B == WithTable(C, x, y)
  <1>1. y.id = x.id /\ y.columns = cs
    OBVIOUS
  <1>2. B.schemas = C.schemas /\ B.views = C.views /\ B.tables = (C.tables \ {x}) \union {y}
    <2>1. C = [schemas |-> C.schemas, tables |-> C.tables, views |-> C.views]
      BY DEF Sound
    <2>2. B = [schemas |-> C.schemas, tables |-> (C.tables \ {x}) \union {y}, views |-> C.views]
      BY <2>1 DEF WithTable
    <2> HIDE DEF B
    <2> QED
      BY <2>2
  <1> HIDE DEF B
  <1>4. \A z \in B.tables : \E v \in C.tables : v.id = z.id
    BY <1>1, <1>2
  <1>5. Proper(B)
    <2>1. \A s \in B.schemas, z \in B.tables \union B.views : s.id # z.id
      BY <1>2, <1>4 DEF Fits, Proper
    <2>2. \A z \in B.tables, v \in B.views : z.id # v.id
      BY <1>2, <1>4 DEF Fits, Proper
    <2>3. \A z \in B.tables : SoundColumns(z.columns)
      BY <1>1, <1>2 DEF Fits, Proper
    <2> QED
      BY <2>1, <2>2, <2>3 DEF Fits, Proper
  <1>6. ASSUME NEW w \in A.tables, NEW z \in B.tables, w.id = z.id PROVE Kin(w.columns, z.columns)
    <2>1. CASE z = y
      <3>1. Kin(w.columns, x.columns) /\ w.id = x.id
        BY <1>1, <1>6, <2>1 DEF Fits
      <3>2. ASSUME NEW c \in w.columns, NEW d \in cs, c.id = d.id PROVE c.parent = d.parent
        BY <3>1, <3>2 DEF Kin, Ids
      <3> QED
        BY <1>1, <2>1, <3>2 DEF Kin
    <2>2. CASE z \in C.tables
      BY <1>6, <2>2 DEF Fits
    <2> QED
      BY <1>2, <2>1, <2>2
  <1>7. Fits(A, B)
    BY <1>5, <1>6 DEF Fits
  <1> QED
    BY <1>7 DEF B

\* What fits in one operation does in the rest of the transaction.
LEMMA PartFits ==
  ASSUME NEW A, NEW C, Fits(A, C), NEW B,
         B.schemas \subseteq C.schemas, B.tables \subseteq C.tables, B.views \subseteq C.views
  PROVE  Fits(A, B)
  BY DEF Fits, Proper

\* Whatever one operation makes of a proper catalog is proper.
LEMMA OperationFits ==
  ASSUME NEW A, NEW C, Grown(A, C), Fits(A, C), Recorded(A), NEW B \in Operations(C)
  PROVE  Fits(A, B)
  <1>0. Sound(C) /\ Bounded(IdsOf(C)) /\ Proper(C)
    BY DEF Grown, Fits
  <1>1. C = [schemas |-> C.schemas, tables |-> C.tables, views |-> C.views]
    BY <1>0 DEF Sound
  <1>a. /\ Fresh(C) \in Nat
        /\ \A x \in C.schemas \union C.tables \union C.views : x.id # Fresh(C)
        /\ \A x \in A.tables : x.id # Fresh(C)
    <2>1. Fresh(C) \in Nat /\ \A i \in IdsOf(C) \union Used : i < Fresh(C)
      BY <1>0, FreshIs DEF Recorded
    <2>2. \A i \in IdsOf(C) \union Used : i \in Nat
      BY <1>0 DEF Bounded, Recorded
    <2>3. \A i \in IdsOf(C) \union Used : i # Fresh(C)
      BY <2>1, <2>2
    <2> QED
      BY <2>1, <2>3 DEF IdsOf, Recorded
  <1>2. CASE B \in DropSchema(C) \union DropTable(C) \union DropView(C)
    <2>1. B.schemas \subseteq C.schemas /\ B.tables \subseteq C.tables /\ B.views \subseteq C.views
      <3>1. CASE B \in DropSchema(C)
        BY <3>1 DEF DropSchema
      <3>2. CASE B \in DropTable(C)
        <4>1. PICK x \in C.tables : B = [C EXCEPT !.tables = @ \ {x}]
          BY <3>2 DEF DropTable
        <4>2. B = [schemas |-> C.schemas, tables |-> C.tables \ {x}, views |-> C.views]
          BY <1>1, <4>1
        <4> QED
          BY <4>2
      <3>3. CASE B \in DropView(C)
        <4>1. PICK x \in C.views : B = [C EXCEPT !.views = @ \ {x}]
          BY <3>3 DEF DropView
        <4>2. B = [schemas |-> C.schemas, tables |-> C.tables, views |-> C.views \ {x}]
          BY <1>1, <4>1
        <4> QED
          BY <4>2
      <3> QED
        BY <1>2, <3>1, <3>2, <3>3
    <2> QED
      BY <2>1, PartFits
  <1>3. CASE B \in CreateSchema(C)
    <2>1. PICK n : B = [C EXCEPT !.schemas = @ \union {[id |-> Fresh(C), name |-> n]}]
      BY <1>3 DEF CreateSchema
    <2> DEFINE x == [id |-> Fresh(C), name |-> n]
    <2>2. x.id = Fresh(C)
      OBVIOUS
    <2>3. B = [schemas |-> C.schemas \union {x}, tables |-> C.tables, views |-> C.views]
      BY <1>1, <2>1
    <2> HIDE DEF x
    <2>4. B.schemas = C.schemas \union {x} /\ B.tables = C.tables /\ B.views = C.views
      BY <2>3
    <2> QED
      BY <1>0, <1>a, <2>2, <2>4 DEF Proper, Fits
  <1>4. CASE B \in CreateView(C)
    <2>1. PICK s \in C.schemas : B \in {[C EXCEPT !.views = @ \union
                     {[id |-> Fresh(C), schema |-> s.id, name |-> n]}] : n \in Free(C, s.id)}
      BY <1>4, Zenon DEF CreateView
    <2>2. PICK n : B = [C EXCEPT !.views = @ \union {[id |-> Fresh(C), schema |-> s.id, name |-> n]}]
      BY <2>1
    <2> DEFINE x == [id |-> Fresh(C), schema |-> s.id, name |-> n]
    <2>3. x.id = Fresh(C)
      OBVIOUS
    <2>4. B = [schemas |-> C.schemas, tables |-> C.tables, views |-> C.views \union {x}]
      BY <1>1, <2>2
    <2> HIDE DEF x
    <2>5. B.schemas = C.schemas /\ B.tables = C.tables /\ B.views = C.views \union {x}
      BY <2>4
    <2> QED
      BY <1>0, <1>a, <2>3, <2>5 DEF Proper, Fits
  <1>5. CASE B \in CreateTable(C)
    <2> DEFINE c == [id |-> 1, parent |-> Top, type |-> "struct", name |-> CHOOSE d \in ColumnNames : TRUE]
    <2>1. PICK s \in C.schemas : B \in {[C EXCEPT !.tables = @ \union
                     {[id |-> Fresh(C), schema |-> s.id, name |-> n, columns |-> {c}]}] : n \in Free(C, s.id)}
      BY <1>5, Zenon DEF CreateTable
    <2>2. PICK n : B = [C EXCEPT !.tables = @ \union
                          {[id |-> Fresh(C), schema |-> s.id, name |-> n, columns |-> {c}]}]
      <3> HIDE DEF c
      <3> QED
        BY <2>1
    <2>c. /\ c.id = 1 /\ c.parent = Top
          /\ c = [id |-> c.id, parent |-> c.parent, type |-> c.type, name |-> c.name]
      OBVIOUS
    <2> HIDE DEF c
    <2> DEFINE x == [id |-> Fresh(C), schema |-> s.id, name |-> n, columns |-> {c}]
    <2>3. x.id = Fresh(C) /\ x.columns = {c}
      OBVIOUS
    <2>4. B = [schemas |-> C.schemas, tables |-> C.tables \union {x}, views |-> C.views]
      BY <1>1, <2>2
    <2> HIDE DEF x
    <2>5. B.schemas = C.schemas /\ B.tables = C.tables \union {x} /\ B.views = C.views
      BY <2>4
    <2>7. SoundColumns({c})
      <3>1. 1 \in 1 .. MaxColumn
        BY CatalogAssumption
      <3> QED
        BY <2>c, <3>1, FS_Singleton DEF SoundColumns, Tree
    <2>8. Proper(B)
      BY <1>0, <1>a, <2>3, <2>5, <2>7 DEF Proper
    <2>9. ASSUME NEW w \in A.tables, NEW z \in B.tables, w.id = z.id PROVE Kin(w.columns, z.columns)
      BY <1>a, <2>3, <2>5, <2>9 DEF Fits
    <2> QED
      BY <2>8, <2>9 DEF Fits
  <1>6. \A x \in C.tables :
          x = [id |-> x.id, schema |-> x.schema, name |-> x.name, columns |-> x.columns]
    BY <1>0 DEF Sound
  <1>7. CASE B \in RenameTable(C)
    <2>1. PICK x \in C.tables :
             B \in {WithTable(C, x, [x EXCEPT !.name = n]) : n \in Free(C, x.schema)}
      BY <1>7 DEF RenameTable
    <2>2. PICK n \in Free(C, x.schema) : B = WithTable(C, x, [x EXCEPT !.name = n])
      BY <2>1
    <2>3. [x EXCEPT !.name = n]
            = [id |-> x.id, schema |-> x.schema, name |-> n, columns |-> x.columns]
      BY <1>6
    <2>4. SoundColumns(x.columns)
      BY <1>0 DEF Proper
    <2> DEFINE y == [id |-> x.id, schema |-> x.schema, name |-> n, columns |-> x.columns]
    <2>5. y.id = x.id /\ y.columns = x.columns
      OBVIOUS
    <2> HIDE DEF y
    <2>6. \A d \in x.columns : \E c \in x.columns : c.id = d.id /\ c.parent = d.parent
      OBVIOUS
    <2>7. Fits(A, WithTable(C, x, y))
      BY <1>0, <2>4, <2>5, <2>6, ColumnsFit
    <2> QED
      BY <2>2, <2>3, <2>7 DEF y
  <1>8. ASSUME NEW x \in C.tables, NEW cs, B = WithTable(C, x, [x EXCEPT !.columns = cs]),
               SoundColumns(cs),
               \A d \in cs : \/ \E c \in x.columns : c.id = d.id /\ c.parent = d.parent
                             \/ \A w \in A.tables : w.id = x.id => d.id \notin Ids(w.columns)
        PROVE  Fits(A, B)
    <2>1. [x EXCEPT !.columns = cs]
            = [id |-> x.id, schema |-> x.schema, name |-> x.name, columns |-> cs]
      BY <1>6
    <2> DEFINE y == [id |-> x.id, schema |-> x.schema, name |-> x.name, columns |-> cs]
    <2>2. y.id = x.id /\ y.columns = cs
      OBVIOUS
    <2> HIDE DEF y
    <2>3. Fits(A, WithTable(C, x, y))
      BY <1>0, <1>8, <2>2, ColumnsFit
    <2> QED
      BY <1>8, <2>1, <2>3 DEF y
  <1>9. \A x \in C.tables : SoundColumns(x.columns)
    BY <1>0 DEF Proper
  <1>10. CASE B \in AddColumn(C)
    <2> DEFINE Column(x, p, t, n) == [id |-> FreshColumn(x), parent |-> p, type |-> t, name |-> n]
               With(x, p, t, n) ==
                 WithTable(C, x, [x EXCEPT !.columns = @ \union {Column(x, p, t, n)}])
               Under(x, p) == {With(x, p, t, n) : n \in FreeColumn(x, p), t \in {"int", "struct"}}
               Parents(x) == {Top} \union {c.id : c \in {d \in x.columns : d.type = "struct"}}
               Of(x) == UNION {Under(x, p) : p \in Parents(x)}
    <2>1. AddColumn(C) = UNION {Of(x) : x \in {y \in C.tables : FreshColumn(y) <= MaxColumn}}
      BY DEF AddColumn
    <2>2. PICK x \in C.tables : B \in Of(x) /\ FreshColumn(x) <= MaxColumn
      <3> HIDE DEF Of
      <3> QED
        BY <1>10, <2>1
    <2>3. PICK p \in Parents(x) : B \in Under(x, p)
      <3> HIDE DEF Under, Parents
      <3> QED
        BY <2>2
    <2>4. PICK t, n : B = With(x, p, t, n)
      <3> HIDE DEF With
      <3> QED
        BY <2>3
    <2>5. p \in {Top} \union Ids(x.columns)
      BY <2>3 DEF Ids
    <2>6. /\ FreshColumn(x) \in Nat \ {0}
          /\ \A i \in Ids(x.columns) \union UsedColumns(x.id) : i < FreshColumn(x)
      BY <1>9, FreshColumnIs DEF Recorded
    <2>7. FreshColumn(x) \in 1 .. MaxColumn /\ \A c \in x.columns : c.id < FreshColumn(x)
      BY <2>2, <2>6, CatalogAssumption DEF Ids
    <2> DEFINE i == FreshColumn(x)
               c == [id |-> i, parent |-> p, type |-> t, name |-> n]
               cs == x.columns \union {c}
    <2>8. B = WithTable(C, x, [x EXCEPT !.columns = cs]) /\ c.id = i
      BY <2>4, Zenon
    <2>9. SoundColumns(cs)
      <3> HIDE DEF i
      <3> QED
        BY <1>9, <2>5, <2>7, ColumnAdded DEF i
    <2>10. ASSUME NEW w \in A.tables, w.id = x.id PROVE c.id \notin Ids(w.columns)
      <3>1. \A j \in Ids(w.columns) : j < i /\ j \in 1 .. MaxColumn
        BY <2>6, <2>10 DEF Recorded
      <3> QED
        BY <2>8, <3>1, <2>6, CatalogAssumption
    <2> HIDE DEF c, i
    <2>11. \A d \in cs : \/ \E e \in x.columns : e.id = d.id /\ e.parent = d.parent
                         \/ \A w \in A.tables : w.id = x.id => d.id \notin Ids(w.columns)
      BY <2>10
    <2> HIDE DEF cs
    <2> QED
      BY <1>8, <2>8, <2>9, <2>11
  <1>11. ASSUME NEW x \in C.tables, NEW c \in x.columns, NEW d, d.id = c.id, d.parent = c.parent,
                d = [id |-> d.id, parent |-> d.parent, type |-> d.type, name |-> d.name],
                B = WithTable(C, x, [x EXCEPT !.columns = (@ \ {c}) \union {d}])
         PROVE  Fits(A, B)
    <2> DEFINE cs == (x.columns \ {c}) \union {d}
    <2>1. SoundColumns(cs) /\ \A e \in cs : \E b \in x.columns : b.id = e.id /\ b.parent = e.parent
      BY <1>9, <1>11, ColumnReplaced
    <2>2. B = WithTable(C, x, [x EXCEPT !.columns = cs])
      BY <1>11, Zenon
    <2> HIDE DEF cs
    <2> QED
      BY <1>8, <2>1, <2>2
  <1>12. \A x \in C.tables : \A c \in x.columns :
           c = [id |-> c.id, parent |-> c.parent, type |-> c.type, name |-> c.name]
    BY <1>9 DEF SoundColumns, Tree
  <1>13. CASE B \in RenameColumn(C)
    <2>1. PICK x \in C.tables :
             B \in UNION {{WithTable(C, x, [x EXCEPT !.columns = (@ \ {c}) \union {[c EXCEPT !.name = n]}]) :
                              n \in FreeColumn(x, c.parent)} : c \in x.columns}
      BY <1>13, Zenon DEF RenameColumn
    <2>a. PICK c \in x.columns : \E n :
            B = WithTable(C, x, [x EXCEPT !.columns = (@ \ {c}) \union {[c EXCEPT !.name = n]}])
      BY <2>1, Zenon
    <2>2. PICK n : B = WithTable(C, x, [x EXCEPT !.columns = (@ \ {c}) \union {[c EXCEPT !.name = n]}])
      BY <2>a
    <2>3. [c EXCEPT !.name = n] = [id |-> c.id, parent |-> c.parent, type |-> c.type, name |-> n]
      BY <1>12
    <2> DEFINE d == [id |-> c.id, parent |-> c.parent, type |-> c.type, name |-> n]
    <2>4. d.id = c.id /\ d.parent = c.parent
          /\ d = [id |-> d.id, parent |-> d.parent, type |-> d.type, name |-> d.name]
      OBVIOUS
    <2>5. B = WithTable(C, x, [x EXCEPT !.columns = (@ \ {c}) \union {d}])
      BY <2>2, <2>3
    <2> HIDE DEF d
    <2> QED
      BY <1>11, <2>4, <2>5
  <1>14. CASE B \in WidenColumn(C)
    <2>1. PICK x \in C.tables :
             B \in {WithTable(C, x, [x EXCEPT !.columns = (@ \ {c}) \union {[c EXCEPT !.type = "bigint"]}]) :
                      c \in {d \in x.columns : d.type = "int"}}
      BY <1>14, Zenon DEF WidenColumn
    <2>2. PICK c \in x.columns :
            B = WithTable(C, x, [x EXCEPT !.columns = (@ \ {c}) \union {[c EXCEPT !.type = "bigint"]}])
      BY <2>1, Zenon
    <2>3. [c EXCEPT !.type = "bigint"]
            = [id |-> c.id, parent |-> c.parent, type |-> "bigint", name |-> c.name]
      BY <1>12
    <2> DEFINE d == [id |-> c.id, parent |-> c.parent, type |-> "bigint", name |-> c.name]
    <2>4. d.id = c.id /\ d.parent = c.parent
          /\ d = [id |-> d.id, parent |-> d.parent, type |-> d.type, name |-> d.name]
      OBVIOUS
    <2>5. B = WithTable(C, x, [x EXCEPT !.columns = (@ \ {c}) \union {d}])
      BY <2>2, <2>3
    <2> HIDE DEF d
    <2> QED
      BY <1>11, <2>4, <2>5
  <1>15. CASE B \in DropColumn(C)
    <2>1. PICK x \in C.tables :
             B \in {WithTable(C, x, [x EXCEPT !.columns = @ \ Gone]) :
                      Gone \in {G \in SUBSET x.columns :
                        /\ \E c \in G : \A d \in x.columns :
                             d \in G <=> d = c \/ \E e \in G : d.parent = e.id
                        /\ \E d \in x.columns \ G : d.parent = Top}}
      BY <1>15, Zenon DEF DropColumn
    <2>2. PICK G \in SUBSET x.columns :
             /\ \A d \in x.columns : (\E e \in G : d.parent = e.id) => d \in G
             /\ x.columns \ G # {}
             /\ B = WithTable(C, x, [x EXCEPT !.columns = @ \ G])
      BY <2>1, Zenon
    <2>3. SoundColumns(x.columns \ G)
      BY <1>9, <2>2, ColumnsDropped
    <2>4. B = WithTable(C, x, [x EXCEPT !.columns = x.columns \ G])
      BY <2>2, Zenon
    <2>5. \A d \in x.columns \ G : \E c \in x.columns : c.id = d.id /\ c.parent = d.parent
      OBVIOUS
    <2> QED
      BY <1>8, <2>3, <2>4, <2>5
  <1> QED
    BY <1>2, <1>3, <1>4, <1>5, <1>7, <1>10, <1>13, <1>14, <1>15 DEF Operations

LEMMA KinAlone ==
  ASSUME NEW A, Proper(A), \A x, y \in A.tables : x.id = y.id => x = y
  PROVE  Fits(A, A)
  <1>1. ASSUME NEW x \in A.tables PROVE Kin(x.columns, x.columns)
    BY DEF Proper, SoundColumns, Tree, Kin
  <1> QED
    BY <1>1 DEF Fits

\* Whatever a transaction makes of a proper catalog is proper.
LEMMA AfterFits ==
  ASSUME Sound(history[now]), Bounded(IdsOf(history[now])), Recorded(history[now]),
         Proper(history[now]), NEW n \in 0 .. MaxOps, NEW B \in After[n]
  PROVE  Fits(history[now], B)
  <1> DEFINE A == history[now]
             T == {m \in 0 .. MaxOps : \E C \in After[m] : ~Fits(A, C)}
  <1>1. SUFFICES ASSUME T # {} PROVE FALSE
    OBVIOUS
  <1>2. PICK m \in T : \A k \in T : m <= k
    <2> HIDE DEF T
    <2>1. T \in SUBSET Nat
      BY DEF T
    <2> QED
      BY <1>1, <2>1, LeastElement, Zenon
  <1>3. PICK C \in After[m] : ~Fits(A, C)
    BY <1>2
  <1>4. CASE m = 0
    <2>1. C = A
      BY <1>3, <1>4, AfterIs
    <2>2. \A x, y \in A.tables : x.id = y.id => x = y
      BY DEF Sound
    <2>3. Fits(A, A)
      BY <2>2, KinAlone
    <2> QED
      BY <1>3, <2>1, <2>3
  <1>5. CASE m # 0
    <2>1. m - 1 \in 0 .. MaxOps /\ m \in 1 .. MaxOps
      BY <1>2, <1>5, CatalogAssumption
    <2>a. m - 1 \notin T
      <3> SUFFICES ASSUME m - 1 \in T PROVE FALSE
        OBVIOUS
      <3>1. m <= m - 1
        <4> HIDE DEF T
        <4> QED
          BY <1>2
      <3> QED
        BY <2>1, <3>1, CatalogAssumption
    <2>2. PICK D \in After[m - 1] : C \in Operations(D)
      BY <1>3, <2>1, AfterIs DEF More
    <2>3. Grown(A, D)
      BY <2>1, <2>2, AfterGrown DEF Recorded
    <2>4. Fits(A, D)
      BY <2>1, <2>a, <2>2
    <2> QED
      BY <1>3, <2>2, <2>3, <2>4, OperationFits
  <1> QED
    BY <1>4, <1>5

\* One catalog comes after the other: what is new in it has ids of its own.
Succeeds(A, B) ==
  /\ Proper(A) /\ Fits(A, B)
  /\ \A y \in New(A.schemas, B.schemas) \union New(A.tables, B.tables) : y.id \notin IdsOf(A)

\* Every catalog of the history is proper and follows from the one before it.
ProperInv ==
  /\ \A s \in 0 .. now : Proper(history[s])
  /\ \A s \in 1 .. now : Succeeds(history[s - 1], history[s])

\* The rows know every id and every column of the last catalog.
LEMMA NowRecorded ==
  ASSUME CatalogInv, ProperInv
  PROVE  Recorded(history[now])
  <1> DEFINE A == history[now]
  <1>1. now \in Nat /\ now \in 0 .. now /\ Bounded(Used) /\ SoundInv /\ RowsInv
    BY DEF CatalogInv, SoundInv
  <1>2. IdsOf(A) \subseteq Used
    BY <1>1, RowsKnowIds DEF IdsOf, Ids
  <1>3. Encodes(columnRows, ColumnsAt, now)
    BY <1>1 DEF RowsInv
  <1>4. ASSUME NEW i, NEW j \in UsedColumns(i) PROVE j \in 1 .. MaxColumn
    <2>1. PICK r \in columnRows : r.object.column.id = j
      BY DEF UsedColumns
    <2>2. r.begin \in 0 .. now /\ AliveAt(r, r.begin)
      BY <1>1, <1>3, CatalogAssumption DEF Encodes, AliveAt, Live
    <2>3. r.object \in Columns(history[r.begin])
      BY <1>3, <2>2 DEF Encodes, ColumnsAt
    <2>4. PICK x \in history[r.begin].tables : \E c \in x.columns : r.object = [table |-> x.id, column |-> c]
      BY <2>3 DEF Columns
    <2>5. SoundColumns(x.columns)
      BY <2>2, <2>4 DEF ProperInv, Proper
    <2> QED
      BY <2>1, <2>4, <2>5 DEF SoundColumns, Tree
  <1>5. ASSUME NEW w \in A.tables, NEW j \in Ids(w.columns) PROVE j \in UsedColumns(w.id)
    <2>1. PICK c \in w.columns : c.id = j
      BY DEF Ids
    <2> DEFINE o == [table |-> w.id, column |-> c]
    <2>2. o \in Columns(A)
      BY DEF Columns
    <2>3. o.table = w.id /\ o.column = c
      OBVIOUS
    <2> HIDE DEF o
    <2>4. PICK r \in columnRows : r.object = o
      BY <1>1, <1>3, <2>2 DEF Encodes, ColumnsAt
    <2> QED
      BY <2>1, <2>3, <2>4 DEF UsedColumns
  <1> QED
    BY <1>1, <1>2, <1>4, <1>5 DEF Recorded

\* Every commit keeps ProperInv.
LEMMA CommitSucceeds ==
  ASSUME CatalogInv, ProperInv, NEW n \in 0 .. MaxOps, NEW B \in After[n], Commit(B, n)
  PROVE  ProperInv'
  <1> DEFINE A == history[now]
             s == now + 1
  <1>0. now \in Nat /\ now' = s /\ now \in 0 .. now
    BY DEF CatalogInv, SoundInv, Commit
  <1>1. history'[s] = B /\ \A i \in 0 .. now : history'[i] = history[i]
    BY <1>0 DEF Commit
  <1>2. Sound(A) /\ Bounded(Used) /\ Recorded(A) /\ Proper(A)
    BY <1>0, NowRecorded DEF CatalogInv, SoundInv, ProperInv
  <1>3. Bounded(IdsOf(A))
    BY <1>2 DEF Recorded, Bounded
  <1>4. Grown(A, B) /\ Fits(A, B)
    BY <1>2, <1>3, AfterGrown, AfterFits
  <1>5. ASSUME NEW y \in New(A.schemas, B.schemas) \union New(A.tables, B.tables)
        PROVE  y.id \notin IdsOf(A)
    <2>1. y.id \notin Used
      BY <1>4 DEF Grown, New, Ids
    <2> QED
      BY <1>2, <2>1 DEF Recorded
  <1>6. Succeeds(A, B) /\ Proper(B)
    BY <1>2, <1>4, <1>5 DEF Succeeds, Fits
  <1>7. ASSUME NEW i \in 0 .. s PROVE Proper(history'[i])
    <2>1. i \in 0 .. now \/ i = s
      BY <1>0
    <2> QED
      BY <1>1, <1>6, <2>1 DEF ProperInv
  <1>8. ASSUME NEW i \in 1 .. s PROVE Succeeds(history'[i - 1], history'[i])
    <2>1. CASE i = s
      <3>1. i - 1 = now
        BY <1>0, <2>1
      <3> QED
        BY <1>0, <1>1, <1>6, <2>1, <3>1
    <2>2. CASE i # s
      <3>1. i \in 1 .. now /\ i \in 0 .. now /\ i - 1 \in 0 .. now
        BY <1>0, <2>2
      <3> QED
        BY <1>1, <3>1 DEF ProperInv
    <2> QED
      BY <2>1, <2>2
  <1> QED
    BY <1>0, <1>7, <1>8 DEF ProperInv

\* ProperInv is an invariant, with those it rests on.
LEMMA ProperInvariance == Spec => [](CatalogInv /\ SubscriptionInv /\ ProperInv)
  <1>1. DdlInit => ProperInv
    <2> SUFFICES ASSUME DdlInit PROVE ProperInv
      OBVIOUS
    <2>1. history[0] = Start /\ now = 0
      BY DEF DdlInit, Init
    <2> QED
      BY <2>1, CatalogAssumption DEF ProperInv
  <1>2. CatalogInv /\ ProperInv /\ [Next]_vars => ProperInv'
    <2> SUFFICES ASSUME CatalogInv, ProperInv, [Next]_vars PROVE ProperInv'
      OBVIOUS
    <2>1. CASE Transaction
      <3>1. PICK n \in 0 .. MaxOps : \E B \in After[n] : Commit(B, n)
        BY <2>1 DEF Transaction
      <3> QED
        BY <3>1, CommitSucceeds
    <2>2. CASE UNCHANGED catalogVars
      BY <2>2 DEF catalogVars, ProperInv
    <2> QED
      BY <2>1, <2>2 DEF Next, Create, vars
  <1> QED
    BY <1>1, <1>2, Invariance, PTL DEF Spec

-----------------------------------------------------------------------------
(* The depth of a column in a diff *)

\* The diffs of fields.
Nested(D) == {d \in D : d.kind \in {"added", "dropped"} /\ d.parent # Top}

\* A field comes after its struct.
Younger(D) ==
  /\ \A d \in Nested(D) : d.id \in Nat /\ d.parent \in Nat /\ d.parent < d.id
  /\ \A d, e \in Nested(D) : d.id = e.id => d = e

\* What Depth takes for the depth of column i.
DepthStep(g, D, i) ==
  IF \E d \in Nested(D) : d.id = i
  THEN 1 + g[(CHOOSE d \in Nested(D) : d.id = i).parent]
  ELSE 0

Depths(g, D, m) == g = [i \in 0 .. m |-> DepthStep(g, D, i)]

LEMMA DepthStepIs ==
  ASSUME NEW D, Younger(D), NEW m \in Nat, NEW g, NEW h, NEW i \in 0 .. m,
         \A k \in 0 .. i - 1 : g[k] = h[k]
  PROVE  DepthStep(g, D, i) = DepthStep(h, D, i)
  <1>1. CASE \E d \in Nested(D) : d.id = i
    <2> DEFINE e == CHOOSE d \in Nested(D) : d.id = i
    <2>1. e \in Nested(D) /\ e.id = i
      BY <1>1
    <2>2. e.parent \in 0 .. i - 1
      BY <2>1 DEF Younger
    <2> HIDE DEF e
    <2>3. g[e.parent] = h[e.parent]
      BY <2>2
    <2> QED
      BY <1>1, <2>3 DEF DepthStep, e
  <1>2. CASE ~ \E d \in Nested(D) : d.id = i
    BY <1>2 DEF DepthStep
  <1> QED
    BY <1>1, <1>2

\* The function Depth chooses exists: no column is above itself.
LEMMA DepthsExist ==
  ASSUME NEW D, Younger(D)
  PROVE  \A m \in Nat : \E g : Depths(g, D, m)
  <1> DEFINE T == {m \in Nat : ~ \E g : Depths(g, D, m)}
  <1>1. SUFFICES ASSUME T # {} PROVE FALSE
    OBVIOUS
  <1>2. PICK m \in T : \A k \in T : m <= k
    <2> HIDE DEF T
    <2>1. T \in SUBSET Nat
      BY DEF T
    <2> QED
      BY <1>1, <2>1, LeastElement, Zenon
  <1>3. CASE m = 0
    <2> DEFINE h == [i \in 0 .. 0 |-> 0]
    <2>1. ASSUME NEW i \in 0 .. 0 PROVE DepthStep(h, D, i) = 0
      <3>1. ~ \E d \in Nested(D) : d.id = i
        BY DEF Younger
      <3> QED
        BY <3>1 DEF DepthStep
    <2>2. h = [i \in 0 .. 0 |-> DepthStep(h, D, i)]
      BY <2>1
    <2>3. Depths(h, D, 0)
      BY <2>2 DEF Depths
    <2> QED
      BY <1>2, <1>3, <2>3
  <1>4. CASE m # 0
    <2>1. m - 1 \in Nat /\ m - 1 \notin T /\ m \in Nat
      BY <1>2, <1>4
    <2>2. PICK g : Depths(g, D, m - 1)
      BY <2>1
    <2> DEFINE h == [i \in 0 .. m |-> IF i = m THEN DepthStep(g, D, m) ELSE g[i]]
    <2>3. \A i \in 0 .. m - 1 : g[i] = DepthStep(g, D, i)
      <3>1. g = [i \in 0 .. m - 1 |-> DepthStep(g, D, i)]
        BY <2>2 DEF Depths
      <3> QED
        BY <3>1
    <2>4. \A i \in 0 .. m - 1 : h[i] = g[i]
      BY <2>1
    <2>5. ASSUME NEW i \in 0 .. m PROVE h[i] = DepthStep(h, D, i)
      <3>1. \A k \in 0 .. i - 1 : g[k] = h[k]
        BY <2>1, <2>4
      <3>2. DepthStep(g, D, i) = DepthStep(h, D, i)
        <4> HIDE DEF h
        <4> QED
          BY <2>1, <3>1, DepthStepIs
      <3>3. CASE i = m
        BY <3>2, <3>3
      <3>4. CASE i # m
        <4>1. i \in 0 .. m - 1
          BY <2>1, <3>4
        <4> HIDE DEF h
        <4> QED
          BY <2>3, <2>4, <3>2, <4>1
      <3> QED
        BY <3>3, <3>4
    <2>6. h = [i \in 0 .. m |-> h[i]]
      OBVIOUS
    <2> HIDE DEF h
    <2>7. Depths(h, D, m)
      BY <2>5, <2>6 DEF Depths
    <2> QED
      BY <1>2, <2>7
  <1> QED
    BY <1>3, <1>4

\* A field is one deeper than its struct.
LEMMA DepthIs ==
  ASSUME NEW D, Younger(D), \A d \in Nested(D) : d.id <= MaxColumn
  PROVE  /\ \A i \in 0 .. MaxColumn : Depth(D, i) \in Nat
         /\ \A d \in Nested(D) : Depth(D, d.id) = 1 + Depth(D, d.parent)
  <1> DEFINE F == CHOOSE g : Depths(g, D, MaxColumn)
  <1>0. MaxColumn \in Nat
    BY CatalogAssumption
  <1>1. \A i : Depth(D, i) = F[i]
    BY Zenon DEF Depth, Depths, DepthStep, Nested
  <1>2. Depths(F, D, MaxColumn)
    <2>1. \E g : Depths(g, D, MaxColumn)
      BY <1>0, DepthsExist
    <2> QED
      BY <2>1
  <1> HIDE DEF F
  <1>3. \A i \in 0 .. MaxColumn : F[i] = DepthStep(F, D, i)
    <2>1. F = [i \in 0 .. MaxColumn |-> DepthStep(F, D, i)]
      BY <1>2 DEF Depths
    <2> QED
      BY <2>1
  <1>4. \A d \in Nested(D) : F[d.id] = 1 + F[d.parent]
    <2> SUFFICES ASSUME NEW d \in Nested(D) PROVE F[d.id] = 1 + F[d.parent]
      OBVIOUS
    <2>1. d.id \in 0 .. MaxColumn
      BY <1>0 DEF Younger
    <2>2. (CHOOSE e \in Nested(D) : e.id = d.id) = d
      BY DEF Younger
    <2> QED
      BY <1>3, <2>1, <2>2 DEF DepthStep
  <1>5. \A i \in 0 .. MaxColumn : F[i] \in Nat
    <2> DEFINE T == {i \in 0 .. MaxColumn : F[i] \notin Nat}
    <2>1. SUFFICES ASSUME T # {} PROVE FALSE
      OBVIOUS
    <2>2. PICK i \in T : \A k \in T : i <= k
      <3> HIDE DEF T
      <3>1. T \in SUBSET Nat
        BY DEF T
      <3> QED
        BY <2>1, <3>1, LeastElement, Zenon
    <2>3. CASE \E d \in Nested(D) : d.id = i
      <3>1. PICK d \in Nested(D) : d.id = i
        BY <2>3
      <3>2. d.parent \in 0 .. MaxColumn /\ d.parent < i /\ i \in Nat
        BY <1>0, <2>2, <3>1 DEF Younger
      <3>3. F[d.parent] \in Nat
        BY <2>2, <3>2
      <3> QED
        BY <1>4, <2>2, <3>1, <3>3
    <2>4. CASE ~ \E d \in Nested(D) : d.id = i
      BY <1>3, <2>2, <2>4 DEF DepthStep
    <2> QED
      BY <2>3, <2>4
  <1> QED
    BY <1>1, <1>4, <1>5

-----------------------------------------------------------------------------
(* The diff of the columns of a table *)

\* The diffs, by what they are about.
Diffs(old, new, D) ==
  /\ \A d \in D :
       \/ /\ d.kind = "added"
          /\ \E c \in New(old, new) :
               d.id = c.id /\ d.parent = c.parent /\ d.type = c.type /\ d.name = c.name
       \/ d.kind = "dropped" /\ \E c \in New(new, old) : d.id = c.id /\ d.parent = c.parent
       \/ /\ d.kind = "renamed"
          /\ \E c \in new, e \in old : c.id = e.id /\ d.id = c.id /\ d.name = c.name
       \/ /\ d.kind = "type_changed"
          /\ \E c \in new, e \in old : c.id = e.id /\ d.id = c.id /\ d.type = c.type
  /\ \A c \in New(old, new) : \E d \in D : d.kind = "added" /\ d.id = c.id
  /\ \A c \in New(new, old) : \E d \in D : d.kind = "dropped" /\ d.id = c.id
  /\ \A c \in new, e \in old : c.id = e.id =>
       /\ c.name # e.name => \E d \in D : d.kind = "renamed" /\ d.id = c.id
       /\ c.type # e.type => \E d \in D : d.kind = "type_changed" /\ d.id = c.id
  /\ \A d, e \in D : d.kind = e.kind /\ d.id = e.id => d = e

\* Diffs describes DiffColumns.
LEMMA DiffsAre ==
  ASSUME NEW old, NEW new, Tree(old), Tree(new)
  PROVE  Diffs(old, new, DiffColumns(old, new))
  <1> DEFINE D == DiffColumns(old, new)
             A(c) == c \in New(old, new)
             P(c) == c \in New(new, old)
             N(c) == c \in new /\ \E e \in old : e.id = c.id /\ e.name # c.name
             T(c) == c \in new /\ \E e \in old : e.id = c.id /\ e.type # c.type
  <1>1. \A d : d \in D <=> \/ \E c : A(c) /\ d = Added(c)
                           \/ \E c : P(c) /\ d = Dropped(c)
                           \/ \E c : N(c) /\ d = Renamed(c)
                           \/ \E c : T(c) /\ d = Retyped(c)
    BY DEF DiffColumns
  <1>2. \A c : /\ Added(c).kind = "added" /\ Added(c).id = c.id /\ Added(c).parent = c.parent
               /\ Added(c).type = c.type /\ Added(c).name = c.name
    BY DEF Added
  <1>3. \A c : Dropped(c).kind = "dropped" /\ Dropped(c).id = c.id /\ Dropped(c).parent = c.parent
    BY DEF Dropped
  <1>4. \A c : Renamed(c).kind = "renamed" /\ Renamed(c).id = c.id /\ Renamed(c).name = c.name
    BY DEF Renamed
  <1>5. \A c : Retyped(c).kind = "type_changed" /\ Retyped(c).id = c.id /\ Retyped(c).type = c.type
    BY DEF Retyped
  <1>6. /\ \A c : A(c) => c \in new
        /\ \A c : P(c) => c \in old
        /\ \A c, d \in old : c.id = d.id => c = d
        /\ \A c, d \in new : c.id = d.id => c = d
    BY DEF New, Tree
  <1> HIDE DEF D
  <1>7. ASSUME NEW d \in D
        PROVE  \/ /\ d.kind = "added"
                  /\ \E c \in New(old, new) :
                       d.id = c.id /\ d.parent = c.parent /\ d.type = c.type /\ d.name = c.name
               \/ d.kind = "dropped" /\ \E c \in New(new, old) : d.id = c.id /\ d.parent = c.parent
               \/ /\ d.kind = "renamed"
                  /\ \E c \in new, e \in old : c.id = e.id /\ d.id = c.id /\ d.name = c.name
               \/ /\ d.kind = "type_changed"
                  /\ \E c \in new, e \in old : c.id = e.id /\ d.id = c.id /\ d.type = c.type
    <2>1. ASSUME NEW c, A(c), d = Added(c)
          PROVE  /\ d.kind = "added"
                 /\ \E b \in New(old, new) :
                      d.id = b.id /\ d.parent = b.parent /\ d.type = b.type /\ d.name = b.name
      BY <1>2, <2>1
    <2>2. ASSUME NEW c, P(c), d = Dropped(c)
          PROVE  d.kind = "dropped" /\ \E b \in New(new, old) : d.id = b.id /\ d.parent = b.parent
      BY <1>3, <2>2
    <2>3. ASSUME NEW c, N(c), d = Renamed(c)
          PROVE  /\ d.kind = "renamed"
                 /\ \E b \in new, e \in old : b.id = e.id /\ d.id = b.id /\ d.name = b.name
      BY <1>4, <2>3
    <2>4. ASSUME NEW c, T(c), d = Retyped(c)
          PROVE  /\ d.kind = "type_changed"
                 /\ \E b \in new, e \in old : b.id = e.id /\ d.id = b.id /\ d.type = b.type
      BY <1>5, <2>4
    <2> HIDE DEF A, P, N, T
    <2> QED
      BY <1>1, <2>1, <2>2, <2>3, <2>4
  <1>8. /\ \A c \in New(old, new) : \E d \in D : d.kind = "added" /\ d.id = c.id
        /\ \A c \in New(new, old) : \E d \in D : d.kind = "dropped" /\ d.id = c.id
        /\ \A c \in new, e \in old : c.id = e.id =>
             /\ c.name # e.name => \E d \in D : d.kind = "renamed" /\ d.id = c.id
             /\ c.type # e.type => \E d \in D : d.kind = "type_changed" /\ d.id = c.id
    BY <1>1, <1>2, <1>3, <1>4, <1>5
  <1>9. \A d, e \in D : d.kind = e.kind /\ d.id = e.id => d = e
    <2> SUFFICES ASSUME NEW d \in D, NEW e \in D, d.kind = e.kind, d.id = e.id PROVE d = e
      OBVIOUS
    <2>1. \A c : (N(c) => c \in new) /\ (T(c) => c \in new)
      OBVIOUS
    <2> HIDE DEF A, P, N, T
    <2>2. \/ \E b, c : A(b) /\ A(c) /\ d = Added(b) /\ e = Added(c)
          \/ \E b, c : P(b) /\ P(c) /\ d = Dropped(b) /\ e = Dropped(c)
          \/ \E b, c : N(b) /\ N(c) /\ d = Renamed(b) /\ e = Renamed(c)
          \/ \E b, c : T(b) /\ T(c) /\ d = Retyped(b) /\ e = Retyped(c)
      <3>1. /\ d.kind = "added" => \E c : A(c) /\ d = Added(c)
            /\ d.kind = "dropped" => \E c : P(c) /\ d = Dropped(c)
            /\ d.kind = "renamed" => \E c : N(c) /\ d = Renamed(c)
            /\ d.kind = "type_changed" => \E c : T(c) /\ d = Retyped(c)
        BY <1>1, <1>2, <1>3, <1>4, <1>5
      <3>2. /\ e.kind = "added" => \E c : A(c) /\ e = Added(c)
            /\ e.kind = "dropped" => \E c : P(c) /\ e = Dropped(c)
            /\ e.kind = "renamed" => \E c : N(c) /\ e = Renamed(c)
            /\ e.kind = "type_changed" => \E c : T(c) /\ e = Retyped(c)
        BY <1>1, <1>2, <1>3, <1>4, <1>5
      <3> QED
        BY <1>7, <3>1, <3>2
    <2> QED
      BY <1>2, <1>3, <1>4, <1>5, <1>6, <2>1, <2>2
  <1>10. Diffs(old, new, D)
    <2> HIDE DEF A, P, N, T
    <2> QED
      BY <1>7, <1>8, <1>9 DEF Diffs
  <1> QED
    BY <1>10 DEF D

\* A diff has an end.
LEMMA DiffsFinite ==
  ASSUME NEW old, NEW new, Tree(old), Tree(new), NEW D, Diffs(old, new, D)
  PROVE  IsFiniteSet(D) /\ \A d \in D : d.id \in 1 .. MaxColumn
  <1> DEFINE kinds == {"added", "dropped", "renamed", "type_changed"}
             K == kinds \X (1 .. MaxColumn)
             f == [d \in D |-> <<d.kind, d.id>>]
  <1>1. ASSUME NEW d \in D PROVE d.id \in 1 .. MaxColumn /\ d.kind \in kinds
    <2>1. \A c \in old \union new : c.id \in 1 .. MaxColumn
      BY DEF Tree
    <2>2. \E c \in old \union new : d.id = c.id
      BY DEF Diffs, New
    <2> QED
      BY <2>1, <2>2 DEF Diffs
  <1>2. f \in Injection(D, K)
    <2>1. f \in [D -> K]
      BY <1>1
    <2>2. \A d, e \in D : f[d] = f[e] => d = e
      BY DEF Diffs
    <2> HIDE DEF f
    <2> QED
      BY <2>1, <2>2 DEF Injection, IsInjective
  <1>3. IsFiniteSet(kinds)
    <2>1. IsFiniteSet({"added"})
      BY FS_Singleton
    <2>2. IsFiniteSet({"added"} \union {"dropped"})
      BY <2>1, FS_AddElement
    <2>3. IsFiniteSet(({"added"} \union {"dropped"}) \union {"renamed"})
      BY <2>2, FS_AddElement
    <2>4. IsFiniteSet((({"added"} \union {"dropped"}) \union {"renamed"}) \union {"type_changed"})
      BY <2>3, FS_AddElement
    <2>5. (({"added"} \union {"dropped"}) \union {"renamed"}) \union {"type_changed"} = kinds
      OBVIOUS
    <2> QED
      BY <2>4, <2>5
  <1>4. IsFiniteSet(1 .. MaxColumn)
    BY CatalogAssumption, FS_Interval
  <1>5. IsFiniteSet(K)
    BY <1>3, <1>4, FS_Product
  <1> QED
    BY <1>1, <1>2, <1>5, FS_Injection

\* A field in a diff is younger than its parent.
LEMMA DiffsYounger ==
  ASSUME NEW old, NEW new, Tree(old), Tree(new), NEW D, Diffs(old, new, D)
  PROVE  Younger(D) /\ \A d \in Nested(D) : d.id <= MaxColumn
  <1>1. ASSUME NEW d \in Nested(D)
        PROVE  /\ d.id \in Nat /\ d.parent \in Nat /\ d.parent < d.id /\ d.id <= MaxColumn
               /\ d \in D /\ d.kind \in {"added", "dropped"}
    <2>1. \E c \in old \union new : d.id = c.id /\ d.parent = c.parent /\ c.parent # Top
      BY DEF Nested, Diffs, New
    <2>2. \A c \in old \union new : c.parent # Top =>
            \E e \in old \union new : e.id = c.parent /\ e.id < c.id
      BY DEF Tree
    <2>3. \A c \in old \union new : c.id \in 1 .. MaxColumn
      BY DEF Tree
    <2>4. d \in D /\ d.kind \in {"added", "dropped"}
      BY DEF Nested
    <2> QED
      BY <2>1, <2>2, <2>3, <2>4, CatalogAssumption
  <1>2. ASSUME NEW d \in Nested(D), NEW e \in Nested(D), d.id = e.id PROVE d = e
    <2>1. d \in D /\ e \in D /\ d.kind \in {"added", "dropped"} /\ e.kind \in {"added", "dropped"}
      BY <1>1
    <2>2. /\ \A c \in New(old, new) : c \in new /\ \A b \in old : b.id # c.id
          /\ \A c \in New(new, old) : c \in old /\ \A b \in new : b.id # c.id
      BY DEF New, Ids
    <2>3. d.kind = e.kind
      <3>1. \/ d.kind = "added" /\ \E c \in New(old, new) : d.id = c.id
            \/ d.kind = "dropped" /\ \E c \in New(new, old) : d.id = c.id
        BY <2>1 DEF Diffs
      <3>2. \/ e.kind = "added" /\ \E c \in New(old, new) : e.id = c.id
            \/ e.kind = "dropped" /\ \E c \in New(new, old) : e.id = c.id
        BY <2>1 DEF Diffs
      <3> QED
        BY <1>2, <2>2, <3>1, <3>2
    <2> QED
      BY <1>2, <2>1, <2>3 DEF Diffs
  <1> QED
    BY <1>1, <1>2 DEF Younger

\* The order of Normalised.
DiffOrder(D) ==
  {p \in D \X D :
     LET a == p[1]
         b == p[2]
     IN  \/ DiffRank(a) < DiffRank(b)
         \/ a.kind = "added" /\ b.kind = "added" /\ Depth(D, a.id) < Depth(D, b.id)
         \/ a.kind = "dropped" /\ b.kind = "dropped" /\ Depth(D, a.id) > Depth(D, b.id)
         \/ /\ DiffRank(a) = DiffRank(b)
            /\ DiffRank(a) = 0 \/ Depth(D, a.id) = Depth(D, b.id)
            /\ a.id < b.id
         \/ a.id = b.id /\ a.kind = "renamed" /\ b.kind = "type_changed"}

\* Normalised lists the diffs in the order DiffOrder.
LEMMA DiffsListed ==
  ASSUME NEW D, IsFiniteSet(D),
         \A d \in D : /\ d.kind \in {"added", "dropped", "renamed", "type_changed"}
                      /\ d.id \in Nat /\ Depth(D, d.id) \in Nat,
         \A d, e \in D : d.kind = e.kind /\ d.id = e.id => d = e
  PROVE  Lists(Normalised(D), D, DiffOrder(D))
  <1> DEFINE R == DiffOrder(D)
             n == Cardinality(D)
             Less(a, b) ==
               \/ DiffRank(a) < DiffRank(b)
               \/ /\ DiffRank(a) = DiffRank(b)
                  /\ \/ a.kind = "added" /\ Depth(D, a.id) < Depth(D, b.id)
                     \/ a.kind = "dropped" /\ Depth(D, a.id) > Depth(D, b.id)
                     \/ (DiffRank(a) = 0 \/ Depth(D, a.id) = Depth(D, b.id)) /\ a.id < b.id
                     \/ a.id = b.id /\ a.kind = "renamed" /\ b.kind = "type_changed"
             q == [i \in 1 .. n |-> CHOOSE x \in D : Cardinality({y \in D : Less(y, x)}) = i - 1]
  <1>1. Normalised(D) = q
    BY Zenon DEF Normalised, Sorted
  <1>r. \A d \in D : DiffRank(d) = IF d.kind = "added" THEN 1 ELSE IF d.kind = "dropped" THEN 2 ELSE 0
    BY DEF DiffRank
  <1>2. \A a, b \in D : <<a, b>> \in R <=>
           \/ DiffRank(a) < DiffRank(b)
           \/ a.kind = "added" /\ b.kind = "added" /\ Depth(D, a.id) < Depth(D, b.id)
           \/ a.kind = "dropped" /\ b.kind = "dropped" /\ Depth(D, a.id) > Depth(D, b.id)
           \/ /\ DiffRank(a) = DiffRank(b)
              /\ DiffRank(a) = 0 \/ Depth(D, a.id) = Depth(D, b.id)
              /\ a.id < b.id
           \/ a.id = b.id /\ a.kind = "renamed" /\ b.kind = "type_changed"
    BY DEF DiffOrder
  <1> HIDE DEF R
  <1>3. \A a, b \in D : <<a, b>> \in R <=> Less(a, b)
    <2> SUFFICES ASSUME NEW a \in D, NEW b \in D PROVE <<a, b>> \in R <=> Less(a, b)
      OBVIOUS
    <2>1. \A d \in D : d.kind \in {"added", "dropped", "renamed", "type_changed"}
      OBVIOUS
    <2>2. /\ DiffRank(a) = IF a.kind = "added" THEN 1 ELSE IF a.kind = "dropped" THEN 2 ELSE 0
          /\ DiffRank(b) = IF b.kind = "added" THEN 1 ELSE IF b.kind = "dropped" THEN 2 ELSE 0
      BY <1>r
    <2> QED
      BY <1>2, <2>1, <2>2
  <1>4. Orders(R, D)
    <2> DEFINE Prec(a, b) ==
           \/ a.kind = "added" /\ b.kind = "dropped"
           \/ a.kind \in {"renamed", "type_changed"} /\ b.kind \in {"added", "dropped"}
           \/ a.kind = "added" /\ b.kind = "added" /\ Depth(D, a.id) < Depth(D, b.id)
           \/ a.kind = "dropped" /\ b.kind = "dropped" /\ Depth(D, a.id) > Depth(D, b.id)
           \/ /\ a.kind = b.kind /\ a.kind \in {"added", "dropped"}
              /\ Depth(D, a.id) = Depth(D, b.id) /\ a.id < b.id
           \/ /\ a.kind \in {"renamed", "type_changed"} /\ b.kind \in {"renamed", "type_changed"}
              /\ a.id < b.id
           \/ a.id = b.id /\ a.kind = "renamed" /\ b.kind = "type_changed"
    <2>1. \A a, b \in D : <<a, b>> \in R <=> Prec(a, b)
      <3> SUFFICES ASSUME NEW a \in D, NEW b \in D PROVE <<a, b>> \in R <=> Prec(a, b)
        OBVIOUS
      <3>1. /\ DiffRank(a) = IF a.kind = "added" THEN 1 ELSE IF a.kind = "dropped" THEN 2 ELSE 0
            /\ DiffRank(b) = IF b.kind = "added" THEN 1 ELSE IF b.kind = "dropped" THEN 2 ELSE 0
        BY <1>r
      <3>2. /\ a.kind \in {"added", "dropped", "renamed", "type_changed"}
            /\ b.kind \in {"added", "dropped", "renamed", "type_changed"}
        OBVIOUS
      <3> QED
        BY <1>2, <3>1, <3>2
    <2>2. \A a \in D : ~Prec(a, a)
      OBVIOUS
    <2>3. ASSUME NEW a \in D, NEW b \in D, NEW c \in D, Prec(a, b), Prec(b, c) PROVE Prec(a, c)
      <3>1. \A d \in D : d.id \in Nat /\ Depth(D, d.id) \in Nat
        OBVIOUS
      <3>2. CASE b.kind \in {"renamed", "type_changed"}
        BY <2>3, <3>1, <3>2
      <3>3. CASE b.kind = "added"
        BY <2>3, <3>1, <3>3
      <3>4. CASE b.kind = "dropped"
        BY <2>3, <3>1, <3>4
      <3> QED
        BY <3>2, <3>3, <3>4
    <2>4. ASSUME NEW a \in D, NEW b \in D, a # b PROVE Prec(a, b) \/ Prec(b, a)
      <3>1. a.kind # b.kind \/ a.id # b.id
        BY <2>4
      <3>2. \A d \in D : d.id \in Nat /\ Depth(D, d.id) \in Nat
        OBVIOUS
      <3> QED
        BY <3>1, <3>2
    <2> HIDE DEF Prec
    <2> QED
      BY <2>1, <2>2, <2>3, <2>4 DEF Orders
  <1>5. \A x \in D : Cardinality({y \in D : Less(y, x)}) = Place(D, R, x)
    <2> SUFFICES ASSUME NEW x \in D
                 PROVE  Cardinality({y \in D : Less(y, x)}) = Place(D, R, x)
      OBVIOUS
    <2>1. {y \in D : Less(y, x)} = {y \in D : <<y, x>> \in R}
      <3> HIDE DEF Less
      <3> QED
        BY <1>3
    <2> QED
      BY <2>1 DEF Place
  <1>6. ASSUME NEW i \in 1 .. n PROVE q[i] \in D /\ Place(D, R, q[i]) = i - 1
    <2>1. n \in Nat /\ \A k \in 0 .. n - 1 : \E x \in D : Place(D, R, x) = k
      BY <1>4, Places
    <2>2. i - 1 \in 0 .. n - 1
      <3> HIDE DEF n
      <3> QED
        BY <2>1
    <2>3. \E x \in D : Cardinality({y \in D : Less(y, x)}) = i - 1
      <3> HIDE DEF n, Less
      <3> QED
        BY <1>5, <2>1, <2>2
    <2> HIDE DEF n, Less
    <2>4. q[i] \in D /\ Cardinality({y \in D : Less(y, q[i])}) = i - 1
      <3>1. q[i] = CHOOSE x \in D : Cardinality({y \in D : Less(y, x)}) = i - 1
        OBVIOUS
      <3> HIDE DEF q
      <3> QED
        BY <2>3, <3>1, Zenon
    <2> HIDE DEF q
    <2> QED
      BY <1>5, <2>4
  <1>7. q \in [1 .. n -> D]
    <2> HIDE DEF Less, n
    <2>1. \A i \in 1 .. n : q[i] \in D
      BY <1>6
    <2> DEFINE e(i) == CHOOSE x \in D : Cardinality({y \in D : Less(y, x)}) = i - 1
    <2>2. \A i \in 1 .. n : e(i) \in D
      BY <2>1
    <2> HIDE DEF e
    <2>3. [i \in 1 .. n |-> e(i)] \in [1 .. n -> D]
      BY <2>2
    <2> QED
      BY <2>3 DEF e
  <1> HIDE DEF q, Less
  <1>8. Lists(q, D, R)
    BY <1>4, <1>6, <1>7, SortedLists
  <1> QED
    BY <1>1, <1>8 DEF R

-----------------------------------------------------------------------------
(* One diff after the other *)

\* Each diff, when it is possible.
LEMMA AddApplied ==
  ASSUME NEW S, NEW d, d.kind = "added", \A c \in S : c.id # d.id, d.parent = Top \/ d.parent \in Ids(S)
  PROVE  ApplyDiff(<<TRUE, S>>, d) =
           <<TRUE, S \union {[id |-> d.id, parent |-> d.parent, type |-> d.type, name |-> d.name]}>>
  <1>1. {c \in S : c.id = d.id} = {}
    OBVIOUS
  <1> QED
    BY <1>1 DEF ApplyDiff

LEMMA DropApplied ==
  ASSUME NEW S, NEW d, d.kind = "dropped", \E c \in S : c.id = d.id, \A c \in S : c.parent # d.id
  PROVE  ApplyDiff(<<TRUE, S>>, d) = <<TRUE, S \ {c \in S : c.id = d.id}>>
  <1>1. {c \in S : c.id = d.id} # {}
    OBVIOUS
  <1> QED
    BY <1>1 DEF ApplyDiff

LEMMA RenameApplied ==
  ASSUME NEW S, NEW d, d.kind = "renamed", NEW e \in S, \A c \in S : c.id = d.id <=> c = e
  PROVE  ApplyDiff(<<TRUE, S>>, d) = <<TRUE, (S \ {e}) \union {[e EXCEPT !.name = d.name]}>>
  <1>1. {c \in S : c.id = d.id} = {e}
    OBVIOUS
  <1>2. {[c EXCEPT !.name = d.name] : c \in {e}} = {[e EXCEPT !.name = d.name]}
    OBVIOUS
  <1> QED
    BY <1>1, <1>2 DEF ApplyDiff

LEMMA RetypeApplied ==
  ASSUME NEW S, NEW d, d.kind = "type_changed", NEW e \in S, \A c \in S : c.id = d.id <=> c = e
  PROVE  ApplyDiff(<<TRUE, S>>, d) = <<TRUE, (S \ {e}) \union {[e EXCEPT !.type = d.type]}>>
  <1>1. {c \in S : c.id = d.id} = {e}
    OBVIOUS
  <1>2. {[c EXCEPT !.type = d.type] : c \in {e}} = {[e EXCEPT !.type = d.type]}
    OBVIOUS
  <1> QED
    BY <1>1, <1>2 DEF ApplyDiff

\* What the diffs in P say of a column.
Told(P, kind, id) == \E d \in P : d.kind = kind /\ d.id = id
The(P, kind, id) == CHOOSE d \in P : d.kind = kind /\ d.id = id

\* A column of the old ones, as the diffs in P leave it.
Mixed(c, P) ==
  [id |-> c.id, parent |-> c.parent,
   type |-> IF Told(P, "type_changed", c.id) THEN The(P, "type_changed", c.id).type ELSE c.type,
   name |-> IF Told(P, "renamed", c.id) THEN The(P, "renamed", c.id).name ELSE c.name]

\* The columns when the diffs in P have been applied.
Halfway(old, new, P) ==
  {Mixed(c, P) : c \in {e \in old : ~Told(P, "dropped", e.id)}}
    \union {c \in new : Told(P, "added", c.id)}

\* Before any diff the columns are the old ones.
LEMMA HalfwayStarts ==
  ASSUME NEW old, NEW new, Tree(old)
  PROVE  Halfway(old, new, {}) = old
  <1>1. ASSUME NEW c \in old PROVE Mixed(c, {}) = c /\ ~Told({}, "dropped", c.id)
    <2>1. Mixed(c, {}) = [id |-> c.id, parent |-> c.parent, type |-> c.type, name |-> c.name]
      BY DEF Mixed, Told
    <2>2. c = [id |-> c.id, parent |-> c.parent, type |-> c.type, name |-> c.name]
      BY DEF Tree
    <2> QED
      BY <2>1, <2>2 DEF Told
  <1>2. \A c \in new : ~Told({}, "added", c.id)
    BY DEF Told
  <1> QED
    BY <1>1, <1>2 DEF Halfway

\* After all diffs they are the new ones.
LEMMA HalfwayEnds ==
  ASSUME NEW old, NEW new, Tree(old), Tree(new), Kin(old, new),
         NEW D, Diffs(old, new, D)
  PROVE  Halfway(old, new, D) = new
  <1>1. ASSUME NEW e \in old, NEW c \in new, e.id = c.id PROVE Mixed(e, D) = c
    <2>1. \A b \in new : b.id = c.id => b = c
      BY DEF Tree
    <2>2. c = [id |-> c.id, parent |-> c.parent, type |-> c.type, name |-> c.name]
      BY DEF Tree
    <2>3. e.parent = c.parent
      BY <1>1 DEF Kin
    <2>4. (IF Told(D, "type_changed", e.id) THEN The(D, "type_changed", e.id).type ELSE e.type) = c.type
      <3>1. CASE Told(D, "type_changed", e.id)
        <4>1. The(D, "type_changed", e.id) \in D /\ The(D, "type_changed", e.id).kind = "type_changed"
              /\ The(D, "type_changed", e.id).id = e.id
          BY <3>1 DEF Told, The
        <4>2. The(D, "type_changed", e.id).type = c.type
          BY <1>1, <2>1, <4>1 DEF Diffs
        <4> QED
          BY <3>1, <4>2
      <3>2. CASE ~Told(D, "type_changed", e.id)
        <4>1. e.type = c.type
          BY <1>1, <3>2 DEF Diffs, Told
        <4> QED
          BY <3>2, <4>1
      <3> QED
        BY <3>1, <3>2
    <2>5. (IF Told(D, "renamed", e.id) THEN The(D, "renamed", e.id).name ELSE e.name) = c.name
      <3>1. CASE Told(D, "renamed", e.id)
        <4>1. The(D, "renamed", e.id) \in D /\ The(D, "renamed", e.id).kind = "renamed"
              /\ The(D, "renamed", e.id).id = e.id
          BY <3>1 DEF Told, The
        <4>2. The(D, "renamed", e.id).name = c.name
          BY <1>1, <2>1, <4>1 DEF Diffs
        <4> QED
          BY <3>1, <4>2
      <3>2. CASE ~Told(D, "renamed", e.id)
        <4>1. e.name = c.name
          BY <1>1, <3>2 DEF Diffs, Told
        <4> QED
          BY <3>2, <4>1
      <3> QED
        BY <3>1, <3>2
    <2> QED
      BY <1>1, <2>2, <2>3, <2>4, <2>5, Zenon DEF Mixed
  <1>2. \A e \in old : Told(D, "dropped", e.id) <=> \A c \in new : c.id # e.id
    <2>1. ASSUME NEW e \in old, Told(D, "dropped", e.id), NEW c \in new PROVE c.id # e.id
      BY <2>1 DEF Told, Diffs, New, Ids
    <2>2. ASSUME NEW e \in old, \A c \in new : c.id # e.id PROVE Told(D, "dropped", e.id)
      <3>1. e \in New(new, old)
        BY <2>2 DEF New, Ids
      <3> QED
        BY <3>1 DEF Diffs, Told
    <2> QED
      BY <2>1, <2>2
  <1>3. \A c \in new : Told(D, "added", c.id) <=> \A e \in old : e.id # c.id
    <2>1. ASSUME NEW c \in new, Told(D, "added", c.id), NEW e \in old PROVE e.id # c.id
      BY <2>1 DEF Told, Diffs, New, Ids
    <2>2. ASSUME NEW c \in new, \A e \in old : e.id # c.id PROVE Told(D, "added", c.id)
      <3>1. c \in New(old, new)
        BY <2>2 DEF New, Ids
      <3> QED
        BY <3>1 DEF Diffs, Told
    <2> QED
      BY <2>1, <2>2
  <1>4. ASSUME NEW x \in Halfway(old, new, D) PROVE x \in new
    BY <1>1, <1>2 DEF Halfway
  <1>5. ASSUME NEW c \in new PROVE c \in Halfway(old, new, D)
    <2>1. CASE \E e \in old : e.id = c.id
      <3>1. PICK e \in old : e.id = c.id
        BY <2>1
      <3>2. Mixed(e, D) = c /\ ~Told(D, "dropped", e.id)
        BY <1>1, <1>2, <3>1
      <3> QED
        BY <3>2 DEF Halfway
    <2>2. CASE \A e \in old : e.id # c.id
      BY <1>3, <2>2 DEF Halfway
    <2> QED
      BY <2>1, <2>2
  <1> QED
    BY <1>4, <1>5

\* The next diff is one more of D.
NextDiff(D, P, d) ==
  /\ P \subseteq D /\ d \in D /\ d \notin P
  /\ \A e, f \in D : e.kind = f.kind /\ e.id = f.id => e = f

\* What changes with it.
Learns(P, d, Q) ==
  /\ ~Told(P, d.kind, d.id)
  /\ \A k, i : Told(Q, k, i) <=> (Told(P, k, i) \/ (k = d.kind /\ i = d.id))
  /\ \A c : c.id # d.id \/ d.kind \in {"added", "dropped"} => Mixed(c, Q) = Mixed(c, P)
  /\ \A c : c.id = d.id /\ d.kind = "renamed" => Mixed(c, Q) = [Mixed(c, P) EXCEPT !.name = d.name]
  /\ \A c : c.id = d.id /\ d.kind = "type_changed" => Mixed(c, Q) = [Mixed(c, P) EXCEPT !.type = d.type]

\* A diff changes what it is about and nothing else.
LEMMA MixedIs ==
  ASSUME NEW D, NEW P, NEW d, NextDiff(D, P, d)
  PROVE  Learns(P, d, P \union {d})
  <1> DEFINE Q == P \union {d}
  <1>0. P \subseteq D /\ d \in D /\ d \notin P /\ \A e, f \in D : e.kind = f.kind /\ e.id = f.id => e = f
    BY DEF NextDiff
  <1>1. ~Told(P, d.kind, d.id)
    BY <1>0 DEF Told
  <1>2. \A k, i : Told(Q, k, i) <=> (Told(P, k, i) \/ (k = d.kind /\ i = d.id))
    BY DEF Told
  <1>3. ASSUME NEW k, NEW i, k # d.kind \/ i # d.id
        PROVE  The(Q, k, i) = The(P, k, i) /\ (Told(Q, k, i) <=> Told(P, k, i))
    <2>1. \A e : e \in Q /\ e.kind = k /\ e.id = i <=> e \in P /\ e.kind = k /\ e.id = i
      BY <1>3
    <2>2. The(Q, k, i) = The(P, k, i)
      BY <2>1 DEF The
    <2> QED
      BY <1>2, <1>3, <2>2
  <1>4. The(Q, d.kind, d.id) = d /\ Told(Q, d.kind, d.id)
    <2>1. Told(Q, d.kind, d.id)
      BY <1>2
    <2>2. \A e \in Q : e.kind = d.kind /\ e.id = d.id => e = d
      BY <1>0
    <2>3. The(Q, d.kind, d.id) = d
      BY <2>2 DEF The
    <2> QED
      BY <2>1, <2>3
  <1>5. ASSUME NEW c, c.id # d.id \/ d.kind \in {"added", "dropped"}
        PROVE  Mixed(c, Q) = Mixed(c, P)
    <2>1. /\ "type_changed" # d.kind \/ c.id # d.id
          /\ "renamed" # d.kind \/ c.id # d.id
      BY <1>5
    <2>2. /\ The(Q, "type_changed", c.id) = The(P, "type_changed", c.id)
          /\ Told(Q, "type_changed", c.id) <=> Told(P, "type_changed", c.id)
          /\ The(Q, "renamed", c.id) = The(P, "renamed", c.id)
          /\ Told(Q, "renamed", c.id) <=> Told(P, "renamed", c.id)
      <3> HIDE DEF Q
      <3> QED
        BY <1>3, <2>1
    <2> HIDE DEF Q
    <2> QED
      BY <2>2 DEF Mixed
  <1>6. ASSUME NEW c, c.id = d.id, d.kind = "renamed"
        PROVE  Mixed(c, Q) = [Mixed(c, P) EXCEPT !.name = d.name]
    <2>1. /\ The(Q, "type_changed", c.id) = The(P, "type_changed", c.id)
          /\ Told(Q, "type_changed", c.id) <=> Told(P, "type_changed", c.id)
          /\ The(Q, "renamed", c.id) = d /\ Told(Q, "renamed", c.id)
      <3> HIDE DEF Q
      <3>1. "type_changed" # d.kind
        BY <1>6
      <3> QED
        BY <1>3, <1>4, <1>6, <3>1
    <2> HIDE DEF Q
    <2> QED
      BY <2>1 DEF Mixed
  <1>7. ASSUME NEW c, c.id = d.id, d.kind = "type_changed"
        PROVE  Mixed(c, Q) = [Mixed(c, P) EXCEPT !.type = d.type]
    <2>1. /\ The(Q, "renamed", c.id) = The(P, "renamed", c.id)
          /\ Told(Q, "renamed", c.id) <=> Told(P, "renamed", c.id)
          /\ The(Q, "type_changed", c.id) = d /\ Told(Q, "type_changed", c.id)
      <3> HIDE DEF Q
      <3>1. "renamed" # d.kind
        BY <1>7
      <3> QED
        BY <1>3, <1>4, <1>7, <3>1
    <2> HIDE DEF Q
    <2> QED
      BY <2>1 DEF Mixed
  <1> HIDE DEF Q
  <1>8. Learns(P, d, Q)
    BY <1>1, <1>2, <1>5, <1>6, <1>7, Zenon DEF Learns
  <1> QED
    BY <1>8 DEF Q

\* Once the diffs in P are applied, d is possible.
Moves(old, new, P, d) ==
  ApplyDiff(<<TRUE, Halfway(old, new, P)>>, d) = <<TRUE, Halfway(old, new, P \union {d})>>

\* In the order of Normalised every diff is possible when its turn comes:
\* a struct is there before its fields, and has none when it goes.
LEMMA DiffStep ==
  ASSUME NEW old, NEW new, Tree(old), Tree(new), Kin(old, new),
         NEW D, Diffs(old, new, D), NEW P, NEW d, Due(D, DiffOrder(D), P, d)
  PROVE  Moves(old, new, P, d)
  <1> SUFFICES ApplyDiff(<<TRUE, Halfway(old, new, P)>>, d) = <<TRUE, Halfway(old, new, P \union {d})>>
    BY DEF Moves
  <1> DEFINE S == Halfway(old, new, P)
             Q == P \union {d}
             mine == {c \in S : c.id = d.id}
  <1>0. P \subseteq D /\ d \in D /\ d \notin P /\ \A a \in D : <<a, d>> \in DiffOrder(D) => a \in P
    BY DEF Due
  <1>1. /\ \A c \in old \union new : /\ c.id \in Nat /\ c.id # Top /\ c.id \in 1 .. MaxColumn
                                     /\ c = [id |-> c.id, parent |-> c.parent, type |-> c.type, name |-> c.name]
        /\ \A c \in old : c.parent = Top \/ \E e \in old : e.id = c.parent
        /\ \A c \in new : c.parent = Top \/ \E e \in new : e.id = c.parent
        /\ \A c, e \in old : c.id = e.id => c = e
        /\ \A c, e \in new : c.id = e.id => c = e
    BY CatalogAssumption DEF Tree, Top
  <1>2. /\ ~Told(P, d.kind, d.id)
        /\ \A k, i : Told(Q, k, i) <=> (Told(P, k, i) \/ (k = d.kind /\ i = d.id))
        /\ \A c : c.id # d.id \/ d.kind \in {"added", "dropped"} => Mixed(c, Q) = Mixed(c, P)
        /\ \A c : c.id = d.id /\ d.kind = "renamed" => Mixed(c, Q) = [Mixed(c, P) EXCEPT !.name = d.name]
        /\ \A c : c.id = d.id /\ d.kind = "type_changed" => Mixed(c, Q) = [Mixed(c, P) EXCEPT !.type = d.type]
    <2>1. \A e, f \in D : e.kind = f.kind /\ e.id = f.id => e = f
      BY DEF Diffs
    <2>2. NextDiff(D, P, d)
      BY <1>0, <2>1, Zenon DEF NextDiff
    <2>3. Learns(P, d, Q)
      BY <2>2, MixedIs, Zenon
    <2> QED
      BY <2>3, Zenon DEF Learns
  <1>3. \A c : Mixed(c, P).id = c.id /\ Mixed(c, P).parent = c.parent
    BY DEF Mixed
  <1>4. /\ \A i : Told(P, "added", i) => (\E c \in new : c.id = i) /\ \A e \in old : e.id # i
        /\ \A i : Told(P, "dropped", i) => (\E e \in old : e.id = i) /\ \A c \in new : c.id # i
    BY <1>0 DEF Told, Diffs, New, Ids
  <1>5. \A x : x \in S <=> \/ \E e \in old : x = Mixed(e, P) /\ ~Told(P, "dropped", e.id)
                           \/ x \in new /\ Told(P, "added", x.id)
    BY DEF Halfway
  <1>6. \A x : x \in Halfway(old, new, Q) <=>
                           \/ \E e \in old : x = Mixed(e, Q) /\ ~Told(Q, "dropped", e.id)
                           \/ x \in new /\ Told(Q, "added", x.id)
    BY DEF Halfway
  <1>7. Younger(D) /\ \A a \in Nested(D) : a.id <= MaxColumn
    BY DiffsYounger
  <1>8. /\ \A i \in 0 .. MaxColumn : Depth(D, i) \in Nat
        /\ \A a \in Nested(D) : Depth(D, a.id) = 1 + Depth(D, a.parent)
    BY <1>7, DepthIs
  <1> HIDE DEF S, Q
  <1>9. CASE d.kind = "added"
    <2>1. PICK c \in New(old, new) : d.id = c.id /\ d.parent = c.parent /\ d.type = c.type /\ d.name = c.name
      BY <1>0, <1>9 DEF Diffs
    <2>2. c \in new /\ \A e \in old : e.id # c.id
      BY DEF New, Ids
    <2>3. \A x \in S : x.id # d.id
      <3> SUFFICES ASSUME NEW x \in S, x.id = d.id PROVE FALSE
        OBVIOUS
      <3> QED
        BY <1>2, <1>3, <1>5, <1>9, <2>1, <2>2
    <2>4. d.parent = Top \/ d.parent \in Ids(S)
      <3> SUFFICES ASSUME d.parent # Top PROVE \E x \in S : x.id = d.parent
        BY DEF Ids
      <3>1. PICK p \in new : p.id = d.parent
        BY <1>1, <2>1, <2>2
      <3>2. CASE \E e \in old : e.id = p.id
        <4>1. PICK e \in old : e.id = p.id
          BY <3>2
        <4>2. ~Told(P, "dropped", e.id)
          BY <1>4, <4>1
        <4>3. Mixed(e, P) \in S /\ Mixed(e, P).id = e.id
          BY <1>3, <1>5, <4>2
        <4> QED
          BY <3>1, <4>1, <4>3
      <3>3. CASE \A e \in old : e.id # p.id
        <4>1. p \in New(old, new)
          BY <3>3 DEF New, Ids
        <4>2. PICK a \in D : a.kind = "added" /\ a.id = p.id
          BY <4>1 DEF Diffs
        <4>3. d \in Nested(D)
          BY <1>0, <1>9 DEF Nested
        <4>4. Depth(D, a.id) < Depth(D, d.id)
          <5>1. a.id \in 0 .. MaxColumn
            BY <1>1, <4>2
          <5>2. Depth(D, d.id) = 1 + Depth(D, a.id) /\ Depth(D, a.id) \in Nat
            BY <1>8, <3>1, <4>2, <4>3, <5>1
          <5> QED
            BY <5>2
        <4>5. <<a, d>> \in DiffOrder(D)
          BY <1>0, <1>9, <4>2, <4>4 DEF DiffOrder
        <4>6. Told(P, "added", p.id)
          BY <1>0, <4>2, <4>5 DEF Told
        <4> QED
          BY <1>5, <3>1, <4>6
      <3> QED
        BY <3>2, <3>3
    <2>5. ApplyDiff(<<TRUE, S>>, d) =
            <<TRUE, S \union {[id |-> d.id, parent |-> d.parent, type |-> d.type, name |-> d.name]}>>
      BY <1>9, <2>3, <2>4, AddApplied
    <2>6. [id |-> d.id, parent |-> d.parent, type |-> d.type, name |-> d.name] = c
      BY <1>1, <2>1, <2>2
    <2>7. Halfway(old, new, Q) = S \union {c}
      <3>1. \A e \in old : Mixed(e, Q) = Mixed(e, P) /\ (Told(Q, "dropped", e.id) <=> Told(P, "dropped", e.id))
        BY <1>2, <1>9
      <3>2. \A x \in new : Told(Q, "added", x.id) <=> Told(P, "added", x.id) \/ x = c
        BY <1>1, <1>2, <1>9, <2>1, <2>2
      <3>3. ASSUME NEW x PROVE x \in Halfway(old, new, Q) <=> x \in S \/ x = c
        BY <1>5, <1>6, <2>2, <3>1, <3>2
      <3> QED
        BY <3>3
    <2> QED
      BY <2>5, <2>6, <2>7 DEF S, Q
  <1>10. CASE d.kind = "dropped"
    <2>1. PICK c \in New(new, old) : d.id = c.id /\ d.parent = c.parent
      BY <1>0, <1>10 DEF Diffs
    <2>2. c \in old /\ \A e \in new : e.id # c.id
      BY DEF New, Ids
    <2>3. \E x \in S : x.id = d.id
      <3>1. Mixed(c, P) \in S /\ Mixed(c, P).id = d.id
        BY <1>2, <1>3, <1>5, <1>10, <2>1, <2>2
      <3> QED
        BY <3>1
    <2>4. ASSUME NEW x \in S PROVE x.parent # d.id
      <3>1. SUFFICES ASSUME x.parent = d.id PROVE FALSE
        OBVIOUS
      <3>2. x \notin new
        BY <1>1, <2>1, <2>2, <3>1
      <3>3. PICK e \in old : x = Mixed(e, P) /\ ~Told(P, "dropped", e.id)
        BY <1>5, <3>2
      <3>4. e.parent = d.id
        BY <1>3, <3>1, <3>3
      <3>5. \A b \in new : b.id # e.id
        <4> SUFFICES ASSUME NEW b \in new, b.id = e.id PROVE FALSE
          OBVIOUS
        <4>1. b.parent = d.id
          BY <3>4 DEF Kin
        <4> QED
          BY <1>1, <2>1, <2>2, <4>1
      <3>6. e \in New(new, old)
        BY <3>5 DEF New, Ids
      <3>7. PICK a \in D : a.kind = "dropped" /\ a.id = e.id
        BY <3>6 DEF Diffs
      <3>8. a.parent = d.id
        <4>1. PICK b \in New(new, old) : a.id = b.id /\ a.parent = b.parent
          BY <3>7 DEF Diffs
        <4>2. b = e
          BY <1>1, <3>7, <4>1 DEF New
        <4> QED
          BY <3>4, <4>1, <4>2
      <3>9. a \in Nested(D)
        BY <1>1, <2>1, <2>2, <3>7, <3>8 DEF Nested
      <3>10. Depth(D, a.id) > Depth(D, d.id)
        <4>1. d.id \in 0 .. MaxColumn
          BY <1>1, <2>1, <2>2
        <4>2. Depth(D, a.id) = 1 + Depth(D, d.id) /\ Depth(D, d.id) \in Nat
          BY <1>8, <3>8, <3>9, <4>1
        <4> QED
          BY <4>2
      <3>11. <<a, d>> \in DiffOrder(D)
        BY <1>0, <1>10, <3>7, <3>10 DEF DiffOrder
      <3>12. Told(P, "dropped", e.id)
        BY <1>0, <3>7, <3>11 DEF Told
      <3> QED
        BY <3>3, <3>12
    <2>5. ApplyDiff(<<TRUE, S>>, d) = <<TRUE, S \ mine>>
      BY <1>10, <2>3, <2>4, DropApplied, Zenon
    <2>6. Halfway(old, new, Q) = S \ mine
      <3>1. \A e \in old : /\ Mixed(e, Q) = Mixed(e, P)
                           /\ Told(Q, "dropped", e.id) <=> (Told(P, "dropped", e.id) \/ e.id = d.id)
        BY <1>2, <1>10
      <3>2. \A x \in new : (Told(Q, "added", x.id) <=> Told(P, "added", x.id)) /\ x.id # d.id
        BY <1>2, <1>10, <2>1, <2>2
      <3>3. ASSUME NEW x PROVE x \in Halfway(old, new, Q) <=> x \in S /\ x.id # d.id
        BY <1>3, <1>5, <1>6, <3>1, <3>2
      <3> QED
        BY <3>3
    <2> QED
      BY <2>5, <2>6 DEF S, Q
  <1>11. ASSUME NEW c \in new, NEW e \in old, c.id = e.id, d.id = c.id,
                d.kind \notin {"added", "dropped"}
         PROVE  /\ Mixed(e, P) \in S /\ \A x \in S : x.id = d.id <=> x = Mixed(e, P)
                /\ Halfway(old, new, Q) = (S \ {Mixed(e, P)}) \union {Mixed(e, Q)}
    <2>1. ~Told(P, "dropped", e.id) /\ ~Told(P, "added", e.id)
      BY <1>4, <1>11
    <2>2. ASSUME NEW x PROVE x \in mine <=> x = Mixed(e, P)
      <3>1. Mixed(e, P) \in mine
        BY <1>3, <1>5, <1>11, <2>1
      <3>2. ASSUME x \in mine PROVE x = Mixed(e, P)
        <4>1. x \in S /\ x.id = e.id
          BY <1>11, <3>2
        <4> QED
          BY <1>1, <1>3, <1>5, <2>1, <4>1
      <3> QED
        BY <3>1, <3>2
    <2>3. Mixed(e, P) \in S /\ \A x \in S : x.id = d.id <=> x = Mixed(e, P)
      BY <2>2
    <2>4. \A b \in old : b.id # d.id => Mixed(b, Q) = Mixed(b, P)
      BY <1>2
    <2>5. \A i : /\ Told(Q, "dropped", i) <=> Told(P, "dropped", i)
                 /\ Told(Q, "added", i) <=> Told(P, "added", i)
      BY <1>2, <1>11
    <2>6. \A b \in old : b.id = d.id => b = e
      BY <1>1, <1>11
    <2>7. \A b \in old : (b # e => Mixed(b, P) # Mixed(e, P)) /\ (b # e => b.id # d.id)
      BY <1>1, <1>3, <2>6
    <2>8. \A x \in new : Told(P, "added", x.id) => x # Mixed(e, P)
      BY <1>3, <2>1
    <2>9. ASSUME NEW x PROVE x \in Halfway(old, new, Q) <=> (x \in S /\ x # Mixed(e, P)) \/ x = Mixed(e, Q)
      BY <1>5, <1>6, <2>1, <2>4, <2>5, <2>7, <2>8
    <2>10. Halfway(old, new, Q) = (S \ {Mixed(e, P)}) \union {Mixed(e, Q)}
      BY <2>9
    <2> QED
      BY <2>3, <2>10
  <1>12. CASE d.kind = "renamed"
    <2>1. PICK c \in new, e \in old : c.id = e.id /\ d.id = c.id
      BY <1>0, <1>12 DEF Diffs
    <2>2. /\ Mixed(e, P) \in S /\ \A x \in S : x.id = d.id <=> x = Mixed(e, P)
          /\ Halfway(old, new, Q) = (S \ {Mixed(e, P)}) \union {Mixed(e, Q)}
      BY <1>11, <1>12, <2>1
    <2>3. ApplyDiff(<<TRUE, S>>, d) =
            <<TRUE, (S \ {Mixed(e, P)}) \union {[Mixed(e, P) EXCEPT !.name = d.name]}>>
      BY <1>12, <2>2, RenameApplied
    <2>4. Mixed(e, Q) = [Mixed(e, P) EXCEPT !.name = d.name]
      BY <1>2, <1>12, <2>1
    <2> QED
      BY <2>2, <2>3, <2>4 DEF S, Q
  <1>13. CASE d.kind = "type_changed"
    <2>1. PICK c \in new, e \in old : c.id = e.id /\ d.id = c.id
      BY <1>0, <1>13 DEF Diffs
    <2>2. /\ Mixed(e, P) \in S /\ \A x \in S : x.id = d.id <=> x = Mixed(e, P)
          /\ Halfway(old, new, Q) = (S \ {Mixed(e, P)}) \union {Mixed(e, Q)}
      BY <1>11, <1>13, <2>1
    <2>3. ApplyDiff(<<TRUE, S>>, d) =
            <<TRUE, (S \ {Mixed(e, P)}) \union {[Mixed(e, P) EXCEPT !.type = d.type]}>>
      BY <1>13, <2>2, RetypeApplied
    <2>4. Mixed(e, Q) = [Mixed(e, P) EXCEPT !.type = d.type]
      BY <1>2, <1>13, <2>1
    <2> QED
      BY <2>2, <2>3, <2>4 DEF S, Q
  <1> QED
    BY <1>0, <1>9, <1>10, <1>12, <1>13 DEF Diffs

\* Normalised puts the diff of the columns of a table in order.
LEMMA DiffsInOrder ==
  ASSUME NEW old, NEW new, Tree(old), Tree(new)
  PROVE  Lists(Normalised(DiffColumns(old, new)), DiffColumns(old, new),
               DiffOrder(DiffColumns(old, new)))
  <1> DEFINE D == DiffColumns(old, new)
  <1>1. Diffs(old, new, D)
    BY DiffsAre
  <1> HIDE DEF D
  <1>2. IsFiniteSet(D) /\ \A d \in D : d.id \in 1 .. MaxColumn
    BY <1>1, DiffsFinite
  <1>3. Younger(D) /\ \A d \in Nested(D) : d.id <= MaxColumn
    BY <1>1, DiffsYounger
  <1>4. \A i \in 0 .. MaxColumn : Depth(D, i) \in Nat
    BY <1>3, DepthIs
  <1>5. \A d \in D : /\ d.kind \in {"added", "dropped", "renamed", "type_changed"}
                     /\ d.id \in Nat /\ Depth(D, d.id) \in Nat
    <2>1. \A d \in D : d.kind \in {"added", "dropped", "renamed", "type_changed"}
      BY <1>1 DEF Diffs
    <2>2. \A d \in D : d.id \in 0 .. MaxColumn /\ d.id \in Nat
      BY <1>2, CatalogAssumption
    <2> QED
      BY <1>4, <2>1, <2>2
  <1>6. \A d, e \in D : d.kind = e.kind /\ d.id = e.id => d = e
    BY <1>1 DEF Diffs
  <1>7. Lists(Normalised(D), D, DiffOrder(D))
    BY <1>2, <1>5, <1>6, DiffsListed
  <1> QED
    BY <1>7 DEF D

\* The diff of the columns of a table turns the old columns into the new ones,
\* and every diff is possible when its turn comes.
LEMMA ColumnsReplay ==
  ASSUME NEW old, NEW new, Tree(old), Tree(new), Kin(old, new)
  PROVE  ApplyDiffs(old, Normalised(DiffColumns(old, new))) = <<TRUE, new>>
  <1> DEFINE D == DiffColumns(old, new)
             q == Normalised(D)
             n == Len(q)
             at == [i \in 0 .. n |-> <<TRUE, Halfway(old, new, Prefix(q, i))>>]
  <1>1. Diffs(old, new, D)
    BY DiffsAre
  <1> HIDE DEF D
  <1>2. Lists(q, D, DiffOrder(D))
    BY DiffsInOrder DEF D
  <1> HIDE DEF q
  <1>3. n \in Nat /\ DOMAIN q = 1 .. n
    BY <1>2 DEF Lists
  <1>4. /\ Prefix(q, 0) = {} /\ Prefix(q, n) = D
        /\ \A i \in 1 .. n : /\ Due(D, DiffOrder(D), Prefix(q, i - 1), q[i])
                             /\ Prefix(q, i) = Prefix(q, i - 1) \union {q[i]}
    BY <1>2, PrefixIs
  <1> HIDE DEF n
  <1>5. \A i \in 0 .. n : at[i] = <<TRUE, Halfway(old, new, Prefix(q, i))>>
    OBVIOUS
  <1> HIDE DEF at
  <1>6. ASSUME NEW i \in 1 .. n PROVE at[i] = ApplyDiff(at[i - 1], q[i])
    <2>1. i \in 0 .. n /\ i - 1 \in 0 .. n
      BY <1>3
    <2>2. ApplyDiff(<<TRUE, Halfway(old, new, Prefix(q, i - 1))>>, q[i])
            = <<TRUE, Halfway(old, new, Prefix(q, i - 1) \union {q[i]})>>
      <3>1. Due(D, DiffOrder(D), Prefix(q, i - 1), q[i])
        BY <1>4
      <3>2. Moves(old, new, Prefix(q, i - 1), q[i])
        BY <1>1, <3>1, DiffStep, Zenon
      <3> QED
        BY <3>2, Zenon DEF Moves
    <2> QED
      BY <1>4, <1>5, <2>1, <2>2
  <1>7. FoldLeft(ApplyDiff, at[0], q) = at[n]
    BY <1>3, <1>6, DiffsApplied
  <1>8. at[0] = <<TRUE, old>>
    <2>1. 0 \in 0 .. n
      BY <1>3
    <2>2. Halfway(old, new, {}) = old
      BY HalfwayStarts
    <2> QED
      BY <1>4, <1>5, <2>1, <2>2, Zenon
  <1>9. at[n] = <<TRUE, new>>
    <2>1. n \in 0 .. n
      BY <1>3
    <2>2. Halfway(old, new, D) = new
      BY <1>1, HalfwayEnds
    <2> QED
      BY <1>4, <1>5, <2>1, <2>2, Zenon
  <1>10. ApplyDiffs(old, q) = <<TRUE, new>>
    BY <1>7, <1>8, <1>9 DEF ApplyDiffs
  <1> QED
    BY <1>10 DEF q, D

-----------------------------------------------------------------------------
(* The rows of a snapshot, in their order *)

\* Which events of a snapshot come first.
Rank(r) == DdlObjectKindRank(r.event, r.kind)

\* The order of SortDdlRows.
RowOrder(rows) ==
  {p \in rows \X rows : \/ Rank(p[1]) < Rank(p[2])
                        \/ Rank(p[1]) = Rank(p[2]) /\ p[1].object.id < p[2].object.id}

\* SortDdlRows lists the rows in the order RowOrder.
LEMMA RowsSorted ==
  ASSUME NEW rows, IsFiniteSet(rows),
         \A r \in rows : r.object.id \in Nat /\ Rank(r) \in Nat,
         \A a, b \in rows : Rank(a) = Rank(b) /\ a.object.id = b.object.id => a = b
  PROVE  Lists(SortDdlRows(rows), rows, RowOrder(rows))
  <1> DEFINE R == RowOrder(rows)
             n == Cardinality(rows)
             Less(a, b) ==
               \/ Rank(a) < Rank(b)
               \/ Rank(a) = Rank(b) /\ a.object.id # Null /\ (b.object.id # Null => a.object.id < b.object.id)
             q == [i \in 1 .. n |-> CHOOSE x \in rows : Cardinality({y \in rows : Less(y, x)}) = i - 1]
  <1>1. SortDdlRows(rows) = q
    BY Zenon DEF SortDdlRows, Sorted, Rank
  <1>2. \A a, b \in rows :
          <<a, b>> \in R <=> (Rank(a) < Rank(b) \/ (Rank(a) = Rank(b) /\ a.object.id < b.object.id))
    BY DEF RowOrder
  <1>3. \A a, b \in rows : <<a, b>> \in R <=> Less(a, b)
    <2>1. \A r \in rows : r.object.id # Null
      BY DdlRowsAssumption
    <2> QED
      BY <1>2, <2>1
  <1>4. Orders(R, rows)
    <2> HIDE DEF R, Less
    <2> QED
      BY <1>2 DEF Orders
  <1>5. \A x \in rows : Cardinality({y \in rows : Less(y, x)}) = Place(rows, R, x)
    <2> SUFFICES ASSUME NEW x \in rows
                 PROVE  Cardinality({y \in rows : Less(y, x)}) = Place(rows, R, x)
      OBVIOUS
    <2>1. {y \in rows : Less(y, x)} = {y \in rows : <<y, x>> \in R}
      <3> HIDE DEF R, Less
      <3> QED
        BY <1>3
    <2> QED
      BY <2>1 DEF Place
  <1>6. ASSUME NEW i \in 1 .. n PROVE q[i] \in rows /\ Place(rows, R, q[i]) = i - 1
    <2>1. n \in Nat /\ \A k \in 0 .. n - 1 : \E x \in rows : Place(rows, R, x) = k
      <3> HIDE DEF R
      <3> QED
        BY <1>4, Places
    <2>2. i - 1 \in 0 .. n - 1
      <3> HIDE DEF n
      <3> QED
        BY <2>1
    <2>3. \E x \in rows : Cardinality({y \in rows : Less(y, x)}) = i - 1
      <3> HIDE DEF R, n, Less
      <3> QED
        BY <1>5, <2>1, <2>2
    <2> HIDE DEF R, n, Less
    <2>4. q[i] \in rows /\ Cardinality({y \in rows : Less(y, q[i])}) = i - 1
      <3>1. q[i] = CHOOSE x \in rows : Cardinality({y \in rows : Less(y, x)}) = i - 1
        OBVIOUS
      <3> HIDE DEF q
      <3> QED
        BY <2>3, <3>1, Zenon
    <2> HIDE DEF q
    <2> QED
      BY <1>5, <2>4
  <1>7. q \in [1 .. n -> rows]
    <2> HIDE DEF Less, n
    <2>1. \A i \in 1 .. n : q[i] \in rows
      BY <1>6
    <2> DEFINE e(i) == CHOOSE x \in rows : Cardinality({y \in rows : Less(y, x)}) = i - 1
    <2>2. \A i \in 1 .. n : e(i) \in rows
      BY <2>1
    <2> HIDE DEF e
    <2>3. [i \in 1 .. n |-> e(i)] \in [1 .. n -> rows]
      BY <2>2
    <2> QED
      BY <2>3 DEF e
  <1> HIDE DEF q, R, Less
  <1>8. Lists(q, rows, R)
    BY <1>4, <1>6, <1>7, SortedLists
  <1> QED
    BY <1>1, <1>8 DEF R

\* What one transaction makes of a catalog.
Leads(A, B) ==
  /\ Sound(A) /\ Sound(B) /\ Succeeds(A, B) /\ Bounded(IdsOf(A) \union IdsOf(B))
  /\ \A x \in A.schemas, y \in B.schemas : x.id = y.id => x = y
  /\ \A x \in A.tables, y \in B.tables : x.id = y.id => x.schema = y.schema
  /\ \A x \in A.views, y \in B.views : x.id = y.id => x = y

\* Each catalog of the history leads to the next.
LEMMA LeadsAt ==
  ASSUME CatalogInv, ProperInv, NEW s \in 1 .. now
  PROVE  Leads(history[s - 1], history[s])
  <1>1. s \in 0 .. now /\ s - 1 \in 0 .. now
    BY DEF CatalogInv, SoundInv
  <1>2. Bounded(IdsOf(history[s - 1]) \union IdsOf(history[s]))
    <2>1. /\ IdsOf(history[s - 1]) \subseteq Used
          /\ IdsOf(history[s]) \subseteq Used
      BY <1>1, RowsKnowIds DEF CatalogInv, IdsOf, Ids
    <2>2. Bounded(Used)
      BY DEF CatalogInv, SoundInv
    <2> QED
      BY <2>1, <2>2 DEF Bounded
  <1> QED
    BY <1>1, <1>2 DEF CatalogInv, SoundInv, LifeInv, ProperInv, Leads

\* What a row is about.
Concerns(r, s, event, kind, id, schema, name) ==
  /\ r.snapshot = s /\ r.event = event /\ r.kind = kind
  /\ r.object.id = id /\ r.object.schema = schema /\ r.object.name = name

\* What a row with these parts is about.
LEMMA FullConcerns ==
  ASSUME NEW s, NEW event, NEW kind, NEW object, NEW columns, NEW was, NEW diffs,
         NEW r, r = Full(s, event, kind, object, columns, was, diffs)
  PROVE  /\ Concerns(r, s, event, kind, object.id, object.schema, object.name)
         /\ r.columns = columns /\ r.was = was /\ r.diffs = diffs
  BY DEF Full, Concerns

LEMMA ObjectIs ==
  /\ \A x : OfSchema(x).id = x.id /\ OfSchema(x).schema = x.id /\ OfSchema(x).name = x.name
  /\ \A x, y : /\ OfObject(x, y).id = x.id /\ OfObject(x, y).schema = y.id
               /\ OfObject(x, y).name = x.name
  BY DEF OfSchema, OfObject, Resolved

\* The rows, by what they are about.
Rows(A, B, s, rows) ==
  /\ \A r \in rows :
       \/ \E x \in New(A.schemas, B.schemas) :
            Concerns(r, s, "created", "schema", x.id, x.id, x.name)
       \/ \E x \in New(B.schemas, A.schemas) :
            Concerns(r, s, "dropped", "schema", x.id, x.id, x.name)
       \/ \E x \in New(A.tables, B.tables) :
            Concerns(r, s, "created", "table", x.id, x.schema, x.name) /\ r.columns = x.columns
       \/ \E w \in A.tables, x \in B.tables :
            /\ w.id = x.id /\ Concerns(r, s, "altered", "table", x.id, x.schema, x.name)
            /\ r.was = WasName(w, x) /\ r.diffs = ColumnDiffs(w, x)
       \/ \E x \in New(B.tables, A.tables) :
            Concerns(r, s, "dropped", "table", x.id, x.schema, x.name)
       \/ \E x \in New(A.views, B.views) :
            Concerns(r, s, "created", "view", x.id, x.schema, x.name)
       \/ \E x \in New(B.views, A.views) :
            Concerns(r, s, "dropped", "view", x.id, x.schema, x.name)
  /\ \A x \in New(A.schemas, B.schemas) \union New(B.schemas, A.schemas) :
       \E r \in rows : r.kind = "schema" /\ r.object.id = x.id
  /\ \A x \in New(A.tables, B.tables) \union New(B.tables, A.tables) :
       \E r \in rows : r.kind = "table" /\ r.object.id = x.id
  /\ \A w \in A.tables, x \in B.tables : w.id = x.id /\ w # x =>
       \E r \in rows : r.kind = "table" /\ r.object.id = x.id
  /\ \A x \in New(A.views, B.views) \union New(B.views, A.views) :
       \E r \in rows : r.kind = "view" /\ r.object.id = x.id
  /\ \A q, r \in rows : q.kind = r.kind /\ q.object.id = r.object.id => q = r

\* Rows describes the rows of each snapshot.
LEMMA RowsAt ==
  ASSUME CatalogInv, ProperInv, NEW s \in 1 .. now
  PROVE  Rows(history[s - 1], history[s], s, RowsOf(s))
  <1> DEFINE A == history[s - 1]
             B == history[s]
             rows == RowsOf(s)
  <1>1. \A r : r \in rows <=> Happened(s, r)
    BY RowsAre
  <1>2. s \in 0 .. now /\ s - 1 \in 0 .. now
    BY DEF CatalogInv, SoundInv
  <1>3. /\ \A x \in A.tables \union A.views : \E y \in A.schemas : y.id = x.schema
        /\ \A x \in B.tables \union B.views : \E y \in B.schemas : y.id = x.schema
    BY <1>2, SoundAt
  <1>u. /\ \A x, y \in A.schemas : x.id = y.id => x = y
        /\ \A x, y \in B.schemas : x.id = y.id => x = y
        /\ \A x, y \in A.tables : x.id = y.id => x = y
        /\ \A x, y \in B.tables : x.id = y.id => x = y
        /\ \A x, y \in A.views : x.id = y.id => x = y
        /\ \A x, y \in B.views : x.id = y.id => x = y
    BY <1>2, SoundAt
  <1> HIDE DEF A, B, rows
  <1> DEFINE
        SC(r, x) == r = Full(s, "created", "schema", OfSchema(x), {}, Null, <<>>)
        SD(r, x) == r = Full(s, "dropped", "schema", OfSchema(x), {}, Null, <<>>)
        TC(r, x, y) == y.id = x.schema /\ r = Full(s, "created", "table", OfObject(x, y), x.columns, Null, <<>>)
        TA(r, w, x, y) ==
          /\ w.id = x.id /\ w # x /\ y.id = x.schema
          /\ r = Full(s, "altered", "table", OfObject(x, y), {}, WasName(w, x), ColumnDiffs(w, x))
        TD(r, x, y) == y.id = x.schema /\ r = Full(s, "dropped", "table", OfObject(x, y), {}, Null, <<>>)
        VC(r, x, y) == y.id = x.schema /\ r = Full(s, "created", "view", OfObject(x, y), {}, Null, <<>>)
        VD(r, x, y) == y.id = x.schema /\ r = Full(s, "dropped", "view", OfObject(x, y), {}, Null, <<>>)
  <1>4. \A r : r \in rows <=>
           \/ \E x \in New(A.schemas, B.schemas) : SC(r, x)
           \/ \E x \in New(B.schemas, A.schemas) : SD(r, x)
           \/ \E x \in New(A.tables, B.tables), y \in B.schemas : TC(r, x, y)
           \/ \E w \in A.tables, x \in B.tables, y \in B.schemas : TA(r, w, x, y)
           \/ \E x \in New(B.tables, A.tables), y \in A.schemas : TD(r, x, y)
           \/ \E x \in New(A.views, B.views), y \in B.schemas : VC(r, x, y)
           \/ \E x \in New(B.views, A.views), y \in A.schemas : VD(r, x, y)
    BY <1>1, Zenon DEF Happened, A, B
  <1>o. /\ \A x : OfSchema(x).id = x.id /\ OfSchema(x).schema = x.id /\ OfSchema(x).name = x.name
        /\ \A x, y : /\ OfObject(x, y).id = x.id /\ OfObject(x, y).schema = y.id
                     /\ OfObject(x, y).name = x.name
    BY ObjectIs, Zenon
  <1>5. ASSUME NEW r, NEW x
        PROVE  /\ SC(r, x) => Concerns(r, s, "created", "schema", x.id, x.id, x.name)
               /\ SD(r, x) => Concerns(r, s, "dropped", "schema", x.id, x.id, x.name)
    <2>1. ASSUME SC(r, x) PROVE Concerns(r, s, "created", "schema", x.id, x.id, x.name)
      <3>1. Concerns(r, s, "created", "schema", OfSchema(x).id, OfSchema(x).schema, OfSchema(x).name)
        BY <2>1, FullConcerns
      <3> QED
        BY <1>o, <3>1
    <2>2. ASSUME SD(r, x) PROVE Concerns(r, s, "dropped", "schema", x.id, x.id, x.name)
      <3>1. Concerns(r, s, "dropped", "schema", OfSchema(x).id, OfSchema(x).schema, OfSchema(x).name)
        BY <2>2, FullConcerns
      <3> QED
        BY <1>o, <3>1
    <2> QED
      BY <2>1, <2>2
  <1>6. ASSUME NEW r, NEW x, NEW y
        PROVE  /\ TC(r, x, y) => Concerns(r, s, "created", "table", x.id, x.schema, x.name) /\ r.columns = x.columns
               /\ TD(r, x, y) => Concerns(r, s, "dropped", "table", x.id, x.schema, x.name)
               /\ VC(r, x, y) => Concerns(r, s, "created", "view", x.id, x.schema, x.name)
               /\ VD(r, x, y) => Concerns(r, s, "dropped", "view", x.id, x.schema, x.name)
    <2> DEFINE o == OfObject(x, y)
    <2>o. o.id = x.id /\ o.schema = y.id /\ o.name = x.name
      BY <1>o
    <2>1. ASSUME TC(r, x, y)
          PROVE  Concerns(r, s, "created", "table", x.id, x.schema, x.name) /\ r.columns = x.columns
      <3>1. Concerns(r, s, "created", "table", o.id, o.schema, o.name) /\ r.columns = x.columns
        BY <2>1, FullConcerns
      <3> QED
        BY <2>o, <2>1, <3>1
    <2>2. ASSUME TD(r, x, y) PROVE Concerns(r, s, "dropped", "table", x.id, x.schema, x.name)
      <3>1. Concerns(r, s, "dropped", "table", o.id, o.schema, o.name)
        BY <2>2, FullConcerns
      <3> QED
        BY <2>o, <2>2, <3>1
    <2>3. ASSUME VC(r, x, y) PROVE Concerns(r, s, "created", "view", x.id, x.schema, x.name)
      <3>1. Concerns(r, s, "created", "view", o.id, o.schema, o.name)
        BY <2>3, FullConcerns
      <3> QED
        BY <2>o, <2>3, <3>1
    <2>4. ASSUME VD(r, x, y) PROVE Concerns(r, s, "dropped", "view", x.id, x.schema, x.name)
      <3>1. Concerns(r, s, "dropped", "view", o.id, o.schema, o.name)
        BY <2>4, FullConcerns
      <3> QED
        BY <2>o, <2>4, <3>1
    <2> QED
      BY <2>1, <2>2, <2>3, <2>4
  <1>7. ASSUME NEW r, NEW w, NEW x, NEW y, TA(r, w, x, y)
        PROVE  /\ w.id = x.id /\ Concerns(r, s, "altered", "table", x.id, x.schema, x.name)
               /\ r.was = WasName(w, x) /\ r.diffs = ColumnDiffs(w, x)
    <2> DEFINE o == OfObject(x, y)
    <2>1. o.id = x.id /\ o.schema = y.id /\ o.name = x.name
      BY <1>o
    <2>2. /\ Concerns(r, s, "altered", "table", o.id, o.schema, o.name)
          /\ r.was = WasName(w, x) /\ r.diffs = ColumnDiffs(w, x)
      BY <1>7, FullConcerns
    <2> QED
      BY <1>7, <2>1, <2>2
  <1>8. /\ \A x \in New(A.schemas, B.schemas) : \E r \in rows : SC(r, x)
        /\ \A x \in New(B.schemas, A.schemas) : \E r \in rows : SD(r, x)
        /\ \A x \in New(A.tables, B.tables) : \E r \in rows : \E y : TC(r, x, y)
        /\ \A w \in A.tables, x \in B.tables : w.id = x.id /\ w # x => \E r \in rows : \E y : TA(r, w, x, y)
        /\ \A x \in New(B.tables, A.tables) : \E r \in rows : \E y : TD(r, x, y)
        /\ \A x \in New(A.views, B.views) : \E r \in rows : \E y : VC(r, x, y)
        /\ \A x \in New(B.views, A.views) : \E r \in rows : \E y : VD(r, x, y)
    <2>1. \A S, T, x : x \in New(S, T) => x \in T
      BY DEF New
    <2>2. /\ \A x \in New(A.tables, B.tables) \union New(A.views, B.views) :
               \E y \in B.schemas : y.id = x.schema
          /\ \A x \in New(B.tables, A.tables) \union New(B.views, A.views) :
               \E y \in A.schemas : y.id = x.schema
      BY <1>3, <2>1
    <2>3. /\ \A x : SC(Full(s, "created", "schema", OfSchema(x), {}, Null, <<>>), x)
          /\ \A x : SD(Full(s, "dropped", "schema", OfSchema(x), {}, Null, <<>>), x)
      OBVIOUS
    <2>4. \A x, y : y.id = x.schema =>
            /\ \E r : TC(r, x, y)
            /\ \E r : TD(r, x, y)
            /\ \E r : VC(r, x, y)
            /\ \E r : VD(r, x, y)
      OBVIOUS
    <2>5. \A w, x, y : w.id = x.id /\ w # x /\ y.id = x.schema => \E r : TA(r, w, x, y)
      OBVIOUS
    <2> HIDE DEF SC, SD, TC, TA, TD, VC, VD
    <2>6. /\ \A x \in New(A.schemas, B.schemas) : \E r \in rows : SC(r, x)
          /\ \A x \in New(B.schemas, A.schemas) : \E r \in rows : SD(r, x)
      BY <1>4, <2>3
    <2>7. /\ \A x \in New(A.tables, B.tables) : \E r \in rows : \E y : TC(r, x, y)
          /\ \A x \in New(B.tables, A.tables) : \E r \in rows : \E y : TD(r, x, y)
          /\ \A x \in New(A.views, B.views) : \E r \in rows : \E y : VC(r, x, y)
          /\ \A x \in New(B.views, A.views) : \E r \in rows : \E y : VD(r, x, y)
      BY <1>4, <2>2, <2>4
    <2>8. \A w \in A.tables, x \in B.tables : w.id = x.id /\ w # x => \E r \in rows : \E y : TA(r, w, x, y)
      BY <1>3, <1>4, <2>5
    <2> QED
      BY <2>6, <2>7, <2>8
  <1>9. \A q, r \in rows : q.kind = r.kind /\ q.object.id = r.object.id => q = r
    <2> SUFFICES ASSUME NEW q \in rows, NEW r \in rows, q.kind = r.kind, q.object.id = r.object.id
                 PROVE  q = r
      OBVIOUS
    <2>1. \A S, T, x : x \in New(S, T) <=> x \in T /\ \A z \in S : z.id # x.id
      BY DEF New, Ids
    <2> HIDE DEF SC, SD, TC, TA, TD, VC, VD
    <2>2. CASE q.kind = "schema"
      <3>1. /\ \/ \E x \in New(A.schemas, B.schemas) : SC(q, x)
               \/ \E x \in New(B.schemas, A.schemas) : SD(q, x)
            /\ \/ \E x \in New(A.schemas, B.schemas) : SC(r, x)
               \/ \E x \in New(B.schemas, A.schemas) : SD(r, x)
        BY <1>4, <1>6, <1>7, <2>2 DEF Concerns
      <3>2. \/ \E x \in B.schemas : SC(q, x) /\ SC(r, x)
            \/ \E x \in A.schemas : SD(q, x) /\ SD(r, x)
        BY <1>5, <1>u, <2>1, <3>1 DEF Concerns
      <3> QED
        BY <3>2 DEF SC, SD
    <2>3. CASE q.kind = "view"
      <3>1. /\ \/ \E x \in New(A.views, B.views), y \in B.schemas : VC(q, x, y)
               \/ \E x \in New(B.views, A.views), y \in A.schemas : VD(q, x, y)
            /\ \/ \E x \in New(A.views, B.views), y \in B.schemas : VC(r, x, y)
               \/ \E x \in New(B.views, A.views), y \in A.schemas : VD(r, x, y)
        BY <1>4, <1>5, <1>6, <1>7, <2>3 DEF Concerns
      <3>2. \/ \E x \in B.views : \E y, z \in B.schemas : VC(q, x, y) /\ VC(r, x, z)
            \/ \E x \in A.views : \E y, z \in A.schemas : VD(q, x, y) /\ VD(r, x, z)
        BY <1>6, <1>u, <2>1, <3>1 DEF Concerns
      <3> QED
        BY <1>u, <3>2 DEF VC, VD
    <2>4. CASE q.kind = "table"
      <3>1. ASSUME NEW p \in rows, p.kind = "table"
            PROVE  \/ \E x \in New(A.tables, B.tables), y \in B.schemas : TC(p, x, y)
                   \/ \E w \in A.tables, x \in B.tables, y \in B.schemas : TA(p, w, x, y)
                   \/ \E x \in New(B.tables, A.tables), y \in A.schemas : TD(p, x, y)
        BY <1>4, <1>5, <1>6, <3>1 DEF Concerns
      <3>a. \A p, x : /\ (\E y : TC(p, x, y)) => p.object.id = x.id
                      /\ (\E y : TD(p, x, y)) => p.object.id = x.id
                      /\ (\E w, y : TA(p, w, x, y)) => p.object.id = x.id
        BY <1>6, <1>7 DEF Concerns
      <3>b. \A p, w, x, y : TA(p, w, x, y) => p.object.id = w.id
        BY <1>7 DEF Concerns
      <3>c. \/ \E v \in New(A.tables, B.tables), z \in B.schemas : TC(r, v, z)
            \/ \E u \in A.tables, v \in B.tables, z \in B.schemas : TA(r, u, v, z)
            \/ \E v \in New(B.tables, A.tables), z \in A.schemas : TD(r, v, z)
        BY <2>4, <3>1
      <3>d. /\ \A v \in New(A.tables, B.tables) : v \in B.tables /\ \A z \in A.tables : z.id # v.id
            /\ \A v \in New(B.tables, A.tables) : v \in A.tables /\ \A z \in B.tables : z.id # v.id
        BY <2>1
      <3>e. \A p, x, y : (TC(p, x, y) => p.object.id = x.id) /\ (TD(p, x, y) => p.object.id = x.id)
        BY <3>a
      <3>f. \A p, w, x, y : TA(p, w, x, y) => p.object.id = x.id /\ p.object.id = w.id
        BY <3>a, <3>b
      <3>2. ASSUME NEW x \in New(A.tables, B.tables), NEW y \in B.schemas, TC(q, x, y) PROVE q = r
        <4>1. r.object.id = x.id
          BY <1>6, <3>2 DEF Concerns
        <4>2. PICK v \in New(A.tables, B.tables), z \in B.schemas : TC(r, v, z)
          BY <3>c, <3>d, <3>e, <3>f, <4>1
        <4>3. v = x
          BY <1>6, <1>u, <2>1, <4>1, <4>2 DEF Concerns
        <4> QED
          BY <1>u, <3>2, <4>2, <4>3 DEF TC
      <3>3. ASSUME NEW x \in New(B.tables, A.tables), NEW y \in A.schemas, TD(q, x, y) PROVE q = r
        <4>1. r.object.id = x.id
          BY <1>6, <3>3 DEF Concerns
        <4>2. PICK v \in New(B.tables, A.tables), z \in A.schemas : TD(r, v, z)
          BY <3>c, <3>d, <3>e, <3>f, <4>1
        <4>3. v = x
          BY <1>6, <1>u, <2>1, <4>1, <4>2 DEF Concerns
        <4> QED
          BY <1>u, <3>3, <4>2, <4>3 DEF TD
      <3>4. ASSUME NEW w \in A.tables, NEW x \in B.tables, NEW y \in B.schemas, TA(q, w, x, y) PROVE q = r
        <4>1. r.object.id = x.id /\ w.id = x.id
          BY <1>7, <3>4 DEF Concerns
        <4>2. PICK u \in A.tables, v \in B.tables, z \in B.schemas : TA(r, u, v, z)
          BY <3>c, <3>d, <3>e, <3>f, <4>1
        <4>3. v = x /\ u = w
          BY <1>7, <1>u, <4>1, <4>2 DEF Concerns
        <4> QED
          BY <1>u, <3>4, <4>2, <4>3 DEF TA
      <3> QED
        BY <2>4, <3>1, <3>2, <3>3, <3>4
    <2> QED
      BY <1>4, <1>5, <1>6, <1>7, <2>2, <2>3, <2>4 DEF Concerns
  <1> HIDE DEF SC, SD, TC, TA, TD, VC, VD
  <1>10. \A r \in rows :
           \/ \E x \in New(A.schemas, B.schemas) :
                Concerns(r, s, "created", "schema", x.id, x.id, x.name)
           \/ \E x \in New(B.schemas, A.schemas) :
                Concerns(r, s, "dropped", "schema", x.id, x.id, x.name)
           \/ \E x \in New(A.tables, B.tables) :
                Concerns(r, s, "created", "table", x.id, x.schema, x.name) /\ r.columns = x.columns
           \/ \E w \in A.tables, x \in B.tables :
                /\ w.id = x.id /\ Concerns(r, s, "altered", "table", x.id, x.schema, x.name)
                /\ r.was = WasName(w, x) /\ r.diffs = ColumnDiffs(w, x)
           \/ \E x \in New(B.tables, A.tables) :
                Concerns(r, s, "dropped", "table", x.id, x.schema, x.name)
           \/ \E x \in New(A.views, B.views) :
                Concerns(r, s, "created", "view", x.id, x.schema, x.name)
           \/ \E x \in New(B.views, A.views) :
                Concerns(r, s, "dropped", "view", x.id, x.schema, x.name)
    BY <1>4, <1>5, <1>6, <1>7
  <1>11. /\ \A x \in New(A.schemas, B.schemas) \union New(B.schemas, A.schemas) :
              \E r \in rows : r.kind = "schema" /\ r.object.id = x.id
         /\ \A x \in New(A.tables, B.tables) \union New(B.tables, A.tables) :
              \E r \in rows : r.kind = "table" /\ r.object.id = x.id
         /\ \A w \in A.tables, x \in B.tables : w.id = x.id /\ w # x =>
              \E r \in rows : r.kind = "table" /\ r.object.id = x.id
         /\ \A x \in New(A.views, B.views) \union New(B.views, A.views) :
              \E r \in rows : r.kind = "view" /\ r.object.id = x.id
    BY <1>5, <1>6, <1>7, <1>8 DEF Concerns
  <1>12. Rows(A, B, s, rows)
    BY <1>9, <1>10, <1>11, Zenon DEF Rows
  <1> QED
    BY <1>12 DEF A, B, rows

\* Every row has an id, and its rank.
Ranked(rows) ==
  \A r \in rows : /\ r.object.id \in Nat
                  /\ Rank(r) = CASE r.kind = "schema" -> IF r.event = "dropped" THEN 2 ELSE 0
                                 [] r.kind = "view"   -> 1
                                 [] r.kind = "table"  -> IF r.event = "dropped" THEN 0 ELSE 2

\* The rows of a snapshot are put in the order of SortDdlRows.
LEMMA RowsListed ==
  ASSUME NEW A, NEW B, NEW s, NEW rows, Leads(A, B), Rows(A, B, s, rows)
  PROVE  Lists(SortDdlRows(rows), rows, RowOrder(rows)) /\ Ranked(rows)
  <1> DEFINE Schema(r) == r.kind = "schema" /\ \/ r.event = "created" /\ r.object.id \notin IdsOf(A)
                                               \/ r.event = "dropped" /\ r.object.id \in Ids(A.schemas)
             Table(r) == r.kind = "table" /\ \/ r.event = "created" /\ r.object.id \notin IdsOf(A)
                                             \/ r.event = "altered" /\ r.object.id \in Ids(A.tables)
                                             \/ r.event = "dropped" /\ r.object.id \in Ids(A.tables)
             Name(r) == <<r.kind, r.object.id>>
  <1>1. ASSUME NEW r \in rows
        PROVE  /\ Schema(r) \/ Table(r) \/ r.kind = "view"
               /\ r.object.id \in IdsOf(A) \union IdsOf(B)
    <2>1. CASE \E x \in New(A.schemas, B.schemas) :
                 Concerns(r, s, "created", "schema", x.id, x.id, x.name)
      <3>1. Schema(r)
        BY <2>1 DEF Concerns, Leads, Succeeds
      <3>2. r.object.id \in IdsOf(B)
        BY <2>1 DEF Concerns, New, IdsOf
      <3> QED
        BY <3>1, <3>2
    <2>2. CASE \E x \in New(B.schemas, A.schemas) :
                 Concerns(r, s, "dropped", "schema", x.id, x.id, x.name)
      BY <2>2 DEF Concerns, New, Ids, IdsOf
    <2>3. CASE \E x \in New(A.tables, B.tables) :
                 Concerns(r, s, "created", "table", x.id, x.schema, x.name) /\ r.columns = x.columns
      <3>1. Table(r)
        BY <2>3 DEF Concerns, Leads, Succeeds
      <3>2. r.object.id \in IdsOf(B)
        BY <2>3 DEF Concerns, New, IdsOf
      <3> QED
        BY <3>1, <3>2
    <2>4. CASE \E w \in A.tables, x \in B.tables :
                 /\ w.id = x.id /\ Concerns(r, s, "altered", "table", x.id, x.schema, x.name)
                 /\ r.was = WasName(w, x) /\ r.diffs = ColumnDiffs(w, x)
      BY <2>4 DEF Concerns, Ids, IdsOf
    <2>5. CASE \E x \in New(B.tables, A.tables) :
                 Concerns(r, s, "dropped", "table", x.id, x.schema, x.name)
      BY <2>5 DEF Concerns, New, Ids, IdsOf
    <2>6. CASE \E x \in New(A.views, B.views) :
                 Concerns(r, s, "created", "view", x.id, x.schema, x.name)
      BY <2>6 DEF Concerns, New, IdsOf
    <2>7. CASE \E x \in New(B.views, A.views) :
                 Concerns(r, s, "dropped", "view", x.id, x.schema, x.name)
      BY <2>7 DEF Concerns, New, IdsOf
    <2> QED
      BY <2>1, <2>2, <2>3, <2>4, <2>5, <2>6, <2>7 DEF Rows
  <1>2. PICK n \in Nat : \A i \in IdsOf(A) \union IdsOf(B) : i \in Nat /\ i <= n
    BY DEF Leads, Bounded
  <1>3. ASSUME NEW r \in rows
        PROVE  /\ Name(r) \in {"schema", "table", "view"} \X (0 .. n)
               /\ r.kind \in {"schema", "table", "view"} /\ r.object.id \in Nat
    BY <1>1, <1>2
  <1>4. \A q, r \in rows : q.kind = r.kind /\ q.object.id = r.object.id => q = r
    BY DEF Rows
  <1>5. IsFiniteSet(rows)
    <2> DEFINE K == {"schema", "table", "view"} \X (0 .. n)
               f == [r \in rows |-> Name(r)]
    <2>1. f \in Injection(rows, K)
      <3>1. f \in [rows -> K]
        BY <1>3
      <3>2. \A q, r \in rows : f[q] = f[r] => q = r
        BY <1>4
      <3> HIDE DEF f
      <3> QED
        BY <3>1, <3>2 DEF Injection, IsInjective
    <2>2. IsFiniteSet({"schema", "table", "view"})
      <3>1. IsFiniteSet({"schema"})
        BY FS_Singleton
      <3>2. IsFiniteSet({"schema"} \union {"table"})
        BY <3>1, FS_AddElement
      <3>3. IsFiniteSet(({"schema"} \union {"table"}) \union {"view"})
        BY <3>2, FS_AddElement
      <3>4. ({"schema"} \union {"table"}) \union {"view"} = {"schema", "table", "view"}
        OBVIOUS
      <3> QED
        BY <3>3, <3>4
    <2>3. IsFiniteSet(0 .. n)
      BY FS_Interval
    <2>4. IsFiniteSet(K)
      BY <2>2, <2>3, FS_Product
    <2> QED
      BY <2>1, <2>4, FS_Injection
  <1>6. ASSUME NEW r \in rows
        PROVE  Rank(r) = CASE r.kind = "schema" -> IF r.event = "dropped" THEN 2 ELSE 0
                           [] r.kind = "view"   -> 1
                           [] r.kind = "table"  -> IF r.event = "dropped" THEN 0 ELSE 2
    BY DEF Rank, DdlObjectKindRank
  <1>7. ASSUME NEW r \in rows PROVE Rank(r) \in Nat
    <2>1. r.kind = "schema" \/ r.kind = "view" \/ r.kind = "table"
      BY <1>3
    <2>2. 0 \in Nat /\ 1 \in Nat /\ 2 \in Nat
      OBVIOUS
    <2> QED
      BY <1>6, <2>1, <2>2
  <1>8. ASSUME NEW q \in rows, NEW r \in rows, Rank(q) = Rank(r), q.object.id = r.object.id
        PROVE  q = r
    <2>1. q.kind = r.kind
      <3>1. \A i \in Ids(A.schemas) : i \in IdsOf(A) /\ i \notin Ids(A.tables)
        BY DEF Leads, Succeeds, Proper, Ids, IdsOf
      <3>2. \A i \in Ids(A.tables) : i \in IdsOf(A)
        BY DEF Ids, IdsOf
      <3>3. ASSUME NEW p \in rows
            PROVE  \/ Rank(p) = 0 /\ p.kind = "schema" /\ p.object.id \notin IdsOf(A)
                   \/ Rank(p) = 0 /\ p.kind = "table" /\ p.object.id \in Ids(A.tables)
                   \/ Rank(p) = 1 /\ p.kind = "view"
                   \/ Rank(p) = 2 /\ p.kind = "schema" /\ p.object.id \in Ids(A.schemas)
                   \/ Rank(p) = 2 /\ p.kind = "table" /\ p.object.id \notin IdsOf(A)
                   \/ Rank(p) = 2 /\ p.kind = "table" /\ p.object.id \in Ids(A.tables)
        BY <1>1, <1>6
      <3> HIDE DEF Schema, Table, Name
      <3> QED
        BY <1>8, <3>1, <3>2, <3>3
    <2> QED
      BY <1>4, <1>8, <2>1
  <1>9. Lists(SortDdlRows(rows), rows, RowOrder(rows))
    BY <1>3, <1>5, <1>7, <1>8, RowsSorted
  <1> QED
    BY <1>3, <1>6, <1>9, Zenon DEF Ranked

-----------------------------------------------------------------------------
(* One row after the other *)

\* A catalog of these schemas, tables and views.
Cat(S, T, V) == [schemas |-> S, tables |-> T, views |-> V]

\* What row r makes of a catalog, and that it is possible.
Gives(S, T, V, r, schemas, tables, views) ==
  ApplyRow(<<TRUE, Cat(S, T, V)>>, r) = <<TRUE, Cat(schemas, tables, views)>>

\* A row that is possible has the effect of its event.
LEMMA RowApplied ==
  ASSUME NEW C, NEW D, NEW r,
         \/ r.event = "created" /\ ApplyCreated(C, r) = <<TRUE, D>>
         \/ r.event = "dropped" /\ ApplyDropped(C, r) = <<TRUE, D>>
         \/ r.event = "altered" /\ ApplyAltered(C, r) = <<TRUE, D>>
  PROVE  ApplyRow(<<TRUE, C>>, r) = <<TRUE, D>>
  <1> DEFINE a == <<TRUE, C>>
             b == CASE r.event = "created" -> ApplyCreated(a[2], r)
                    [] r.event = "dropped" -> ApplyDropped(a[2], r)
                    [] r.event = "altered" -> ApplyAltered(a[2], r)
  <1>1. a[1] = TRUE /\ a[2] = C
    OBVIOUS
  <1>2. b = <<TRUE, D>>
    <2> HIDE DEF a
    <2> QED
      BY <1>1
  <1>3. ApplyRow(a, r) = <<a[1] /\ b[1], b[2]>>
    BY Zenon DEF ApplyRow
  <1>4. (a[1] /\ b[1]) = TRUE /\ b[2] = D
    <2>1. b[1] = TRUE /\ b[2] = D
      <3> HIDE DEF b
      <3> QED
        BY <1>2
    <2> HIDE DEF a, b
    <2> QED
      BY <1>1, <2>1
  <1> QED
    BY <1>3, <1>4, Zenon

\* Each row, when it is possible.
LEMMA SchemaCreatedApplied ==
  ASSUME NEW S, NEW T, NEW V, NEW r, r.event = "created", r.kind = "schema",
         NEW x, x = [id |-> r.object.id, name |-> r.object.name]
  PROVE  Gives(S, T, V, r, S \union {x}, T, V)
  <1> DEFINE C == Cat(S, T, V)
  <1>c. C = Cat(S, T, V)
    OBVIOUS
  <1> HIDE DEF C
  <1>1. C.schemas = S
    BY <1>c DEF Cat
  <1>w. [C EXCEPT !.schemas = S \union {x}] = Cat(S \union {x}, T, V)
    <2> DEFINE X == S \union {x}
    <2> HIDE DEF X
    <2>1. [C EXCEPT !.schemas = X] = Cat(X, T, V)
      BY <1>c DEF Cat
    <2> QED
      BY <2>1 DEF X
  <1>2. ApplyCreated(C, r) = <<TRUE, [C EXCEPT !.schemas = C.schemas \union {x}]>>
    BY DEF ApplyCreated
  <1>3. ApplyCreated(C, r) = <<TRUE, Cat(S \union {x}, T, V)>>
    BY <1>1, <1>2, <1>w, Zenon
  <1> QED
    BY <1>3, RowApplied DEF C, Gives

LEMMA TableCreatedApplied ==
  ASSUME NEW S, NEW T, NEW V, NEW r, r.event = "created", r.kind = "table",
         NEW x, x = [id |-> r.object.id, schema |-> r.object.schema,
                     name |-> r.object.name, columns |-> r.columns],
         \A y \in T : y.id # r.object.id, \E y \in S : y.id = r.object.schema
  PROVE  Gives(S, T, V, r, S, T \union {x}, V)
  <1> DEFINE C == Cat(S, T, V)
             fits == Affected(C.tables, r) = {} /\ \E y \in C.schemas : y.id = r.object.schema
  <1>c. C = Cat(S, T, V)
    OBVIOUS
  <1> HIDE DEF C, fits
  <1>1. C.schemas = S /\ C.tables = T
    BY <1>c DEF Cat
  <1>w. [C EXCEPT !.tables = T \union {x}] = Cat(S, T \union {x}, V)
    <2> DEFINE X == T \union {x}
    <2> HIDE DEF X
    <2>1. [C EXCEPT !.tables = X] = Cat(S, X, V)
      BY <1>c DEF Cat
    <2> QED
      BY <2>1 DEF X
  <1>2. fits
    BY <1>1 DEF Affected, fits
  <1>3. ApplyCreated(C, r) = <<fits, [C EXCEPT !.tables = C.tables \union {x}]>>
    <2>1. r.kind # "schema"
      OBVIOUS
    <2> QED
      BY <2>1 DEF ApplyCreated, fits
  <1>4. fits = TRUE
    BY <1>2
  <1>5. ApplyCreated(C, r) = <<TRUE, Cat(S, T \union {x}, V)>>
    BY <1>1, <1>3, <1>4, <1>w, Zenon
  <1> QED
    BY <1>5, RowApplied DEF C, Gives

LEMMA ViewCreatedApplied ==
  ASSUME NEW S, NEW T, NEW V, NEW r, r.event = "created", r.kind = "view",
         NEW x, x = [id |-> r.object.id, schema |-> r.object.schema, name |-> r.object.name],
         \A y \in V : y.id # r.object.id, \E y \in S : y.id = r.object.schema
  PROVE  Gives(S, T, V, r, S, T, V \union {x})
  <1> DEFINE C == Cat(S, T, V)
             fits == Affected(C.views, r) = {} /\ \E y \in C.schemas : y.id = r.object.schema
  <1>c. C = Cat(S, T, V)
    OBVIOUS
  <1> HIDE DEF C, fits
  <1>1. C.schemas = S /\ C.views = V
    BY <1>c DEF Cat
  <1>w. [C EXCEPT !.views = V \union {x}] = Cat(S, T, V \union {x})
    <2> DEFINE X == V \union {x}
    <2> HIDE DEF X
    <2>1. [C EXCEPT !.views = X] = Cat(S, T, X)
      BY <1>c DEF Cat
    <2> QED
      BY <2>1 DEF X
  <1>2. fits
    BY <1>1 DEF Affected, fits
  <1>3. ApplyCreated(C, r) = <<fits, [C EXCEPT !.views = C.views \union {x}]>>
    <2>1. r.kind # "schema" /\ r.kind # "table"
      OBVIOUS
    <2> QED
      BY <2>1 DEF ApplyCreated, fits
  <1>4. fits = TRUE
    BY <1>2
  <1>5. ApplyCreated(C, r) = <<TRUE, Cat(S, T, V \union {x})>>
    BY <1>1, <1>3, <1>4, <1>w, Zenon
  <1> QED
    BY <1>5, RowApplied DEF C, Gives

LEMMA SchemaDroppedApplied ==
  ASSUME NEW S, NEW T, NEW V, NEW r, r.event = "dropped", r.kind = "schema",
         \E y \in S : y.id = r.object.id, \A y \in T \union V : y.schema # r.object.id
  PROVE  Gives(S, T, V, r, S \ {y \in S : y.id = r.object.id}, T, V)
  <1> DEFINE C == Cat(S, T, V)
             mine == {y \in S : y.id = r.object.id}
             fits == Affected(C.schemas, r) # {} /\ \A y \in C.tables \union C.views : y.schema # r.object.id
  <1>c. C = Cat(S, T, V)
    OBVIOUS
  <1> HIDE DEF C, fits
  <1>1. C.schemas = S /\ C.tables = T /\ C.views = V
    BY <1>c DEF Cat
  <1>w. [C EXCEPT !.schemas = S \ mine] = Cat(S \ mine, T, V)
    <2> DEFINE X == S \ mine
    <2> HIDE DEF X
    <2>1. [C EXCEPT !.schemas = X] = Cat(X, T, V)
      BY <1>c DEF Cat
    <2> QED
      BY <2>1 DEF X
  <1>m. Affected(C.schemas, r) = mine
    BY <1>1 DEF Affected
  <1>2. fits
    BY <1>1, <1>m DEF fits
  <1> HIDE DEF mine
  <1>3. ApplyDropped(C, r) = <<fits, [C EXCEPT !.schemas = C.schemas \ mine]>>
    BY <1>m DEF ApplyDropped, fits
  <1>4. fits = TRUE
    BY <1>2
  <1>5. ApplyDropped(C, r) = <<TRUE, Cat(S \ mine, T, V)>>
    BY <1>1, <1>3, <1>4, <1>w, Zenon
  <1>6. ApplyRow(<<TRUE, C>>, r) = <<TRUE, Cat(S \ mine, T, V)>>
    BY <1>5, RowApplied
  <1> QED
    BY <1>6 DEF C, mine, Gives

LEMMA TableDroppedApplied ==
  ASSUME NEW S, NEW T, NEW V, NEW r, r.event = "dropped", r.kind = "table",
         \E y \in T : y.id = r.object.id /\ y.name = r.object.name
  PROVE  Gives(S, T, V, r, S, T \ {y \in T : y.id = r.object.id}, V)
  <1> DEFINE C == Cat(S, T, V)
             mine == {y \in T : y.id = r.object.id}
             fits == \E y \in Affected(C.tables, r) : y.name = r.object.name
  <1>c. C = Cat(S, T, V)
    OBVIOUS
  <1> HIDE DEF C, fits
  <1>1. C.tables = T
    BY <1>c DEF Cat
  <1>w. [C EXCEPT !.tables = T \ mine] = Cat(S, T \ mine, V)
    <2> DEFINE X == T \ mine
    <2> HIDE DEF X
    <2>1. [C EXCEPT !.tables = X] = Cat(S, X, V)
      BY <1>c DEF Cat
    <2> QED
      BY <2>1 DEF X
  <1>m. Affected(C.tables, r) = mine
    BY <1>1 DEF Affected
  <1>2. fits
    BY <1>1, <1>m DEF fits
  <1> HIDE DEF mine
  <1>3. ApplyDropped(C, r) = <<fits, [C EXCEPT !.tables = C.tables \ mine]>>
    <2>1. r.kind # "schema"
      OBVIOUS
    <2> QED
      BY <1>m, <2>1 DEF ApplyDropped, fits
  <1>4. fits = TRUE
    BY <1>2
  <1>5. ApplyDropped(C, r) = <<TRUE, Cat(S, T \ mine, V)>>
    BY <1>1, <1>3, <1>4, <1>w, Zenon
  <1>6. ApplyRow(<<TRUE, C>>, r) = <<TRUE, Cat(S, T \ mine, V)>>
    BY <1>5, RowApplied
  <1> QED
    BY <1>6 DEF C, mine, Gives

LEMMA ViewDroppedApplied ==
  ASSUME NEW S, NEW T, NEW V, NEW r, r.event = "dropped", r.kind = "view",
         \E y \in V : y.id = r.object.id /\ y.name = r.object.name
  PROVE  Gives(S, T, V, r, S, T, V \ {y \in V : y.id = r.object.id})
  <1> DEFINE C == Cat(S, T, V)
             mine == {y \in V : y.id = r.object.id}
             fits == \E y \in Affected(C.views, r) : y.name = r.object.name
  <1>c. C = Cat(S, T, V)
    OBVIOUS
  <1> HIDE DEF C, fits
  <1>1. C.views = V
    BY <1>c DEF Cat
  <1>w. [C EXCEPT !.views = V \ mine] = Cat(S, T, V \ mine)
    <2> DEFINE X == V \ mine
    <2> HIDE DEF X
    <2>1. [C EXCEPT !.views = X] = Cat(S, T, X)
      BY <1>c DEF Cat
    <2> QED
      BY <2>1 DEF X
  <1>m. Affected(C.views, r) = mine
    BY <1>1 DEF Affected
  <1>2. fits
    BY <1>1, <1>m DEF fits
  <1> HIDE DEF mine
  <1>3. ApplyDropped(C, r) = <<fits, [C EXCEPT !.views = C.views \ mine]>>
    <2>1. r.kind # "schema" /\ r.kind # "table"
      OBVIOUS
    <2> QED
      BY <1>m, <2>1 DEF ApplyDropped, fits
  <1>4. fits = TRUE
    BY <1>2
  <1>5. ApplyDropped(C, r) = <<TRUE, Cat(S, T, V \ mine)>>
    BY <1>1, <1>3, <1>4, <1>w, Zenon
  <1>6. ApplyRow(<<TRUE, C>>, r) = <<TRUE, Cat(S, T, V \ mine)>>
    BY <1>5, RowApplied
  <1> QED
    BY <1>6 DEF C, mine, Gives

LEMMA TableAlteredApplied ==
  ASSUME NEW S, NEW T, NEW V, NEW r, r.event = "altered",
         NEW w \in T, \A y \in T : y.id = r.object.id <=> y = w,
         w.name = IF r.was = Null THEN r.object.name ELSE r.was,
         NEW columns, ApplyDiffs(w.columns, r.diffs) = <<TRUE, columns>>,
         NEW x, x = [w EXCEPT !.name = r.object.name, !.columns = columns]
  PROVE  Gives(S, T, V, r, S, (T \ {w}) \union {x}, V)
  <1> DEFINE C == Cat(S, T, V)
             old == Affected(C.tables, r)
             Altered(y) == [y EXCEPT !.name = r.object.name, !.columns = ApplyDiffs(@, r.diffs)[2]]
             Is(y) == y.name = IF r.was = Null THEN r.object.name ELSE r.was
             fits == \E y \in old : Is(y) /\ ApplyDiffs(y.columns, r.diffs)[1]
             after == [C EXCEPT !.tables = (@ \ old) \union {Altered(y) : y \in old}]
  <1>c. C = Cat(S, T, V)
    OBVIOUS
  <1>d. ApplyAltered(C, r) = <<fits, after>>
    BY Zenon DEF ApplyAltered
  <1> HIDE DEF C
  <1>1. C.tables = T
    BY <1>c DEF Cat
  <1>m. old = {w}
    BY <1>1 DEF Affected
  <1> HIDE DEF old
  <1>2. fits = TRUE
    <2>1. ApplyDiffs(w.columns, r.diffs)[1]
      OBVIOUS
    <2>2. Is(w)
      OBVIOUS
    <2> HIDE DEF Is
    <2>3. fits
      BY <1>m, <2>1, <2>2
    <2> HIDE DEF fits
    <2> QED
      BY <2>3
  <1>3. Altered(w) = x
    <2>1. ApplyDiffs(w.columns, r.diffs)[2] = columns
      OBVIOUS
    <2> QED
      BY <2>1, Zenon
  <1>4. {Altered(y) : y \in old} = {x}
    <2> HIDE DEF Altered
    <2> QED
      BY <1>3, <1>m
  <1>5. after = Cat(S, (T \ {w}) \union {x}, V)
    <2> DEFINE X == (T \ {w}) \union {x}
    <2>1. after = [C EXCEPT !.tables = X]
      BY <1>1, <1>4, <1>m, Zenon
    <2> HIDE DEF X, after
    <2>2. [C EXCEPT !.tables = X] = Cat(S, X, V)
      BY <1>c DEF Cat
    <2> QED
      BY <2>1, <2>2 DEF X
  <1> HIDE DEF fits, after
  <1>6. ApplyAltered(C, r) = <<TRUE, Cat(S, (T \ {w}) \union {x}, V)>>
    BY <1>2, <1>5, <1>d, Zenon
  <1> QED
    BY <1>6, RowApplied DEF C, Gives

-----------------------------------------------------------------------------
(* The catalog between two rows *)

\* Some row of P is about the object of this kind and id.
About(P, kind, id) == \E r \in P : r.kind = kind /\ r.object.id = id

\* What is in S, or in T where a row in P is about it.
Partly(S, T, P, kind) ==
  {x \in S : ~About(P, kind, x.id)} \union {x \in T : About(P, kind, x.id)}

\* A catalog A on the way to B, when the rows in P have been applied.
Between(A, B, P) ==
  Cat(Partly(A.schemas, B.schemas, P, "schema"),
      Partly(A.tables, B.tables, P, "table"),
      Partly(A.views, B.views, P, "view"))

LEMMA PartlyStarts ==
  ASSUME NEW S, NEW T, NEW kind
  PROVE  Partly(S, T, {}, kind) = S
  <1>1. \A x : ~About({}, kind, x.id)
    BY DEF About
  <1> QED
    BY <1>1 DEF Partly

LEMMA PartlyEnds ==
  ASSUME NEW S, NEW T, NEW P, NEW kind,
         \A x \in S : x \notin T => About(P, kind, x.id),
         \A x \in T : x \notin S => About(P, kind, x.id)
  PROVE  Partly(S, T, P, kind) = T
  BY DEF Partly

\* A row changes what it is about and nothing else.
PartlyNext(S, T, P, r) ==
  LET Q == P \union {r}
      i == r.object.id
  IN  /\ ~About(P, r.kind, i)
      /\ {x \in Partly(S, T, P, r.kind) : x.id = i} = {x \in S : x.id = i}
      /\ Partly(S, T, Q, r.kind) =
           (Partly(S, T, P, r.kind) \ {x \in S : x.id = i}) \union {x \in T : x.id = i}

\* The row that is next changes what it is about, and finds it unchanged.
LEMMA PartlyMoves ==
  ASSUME NEW S, NEW T, NEW P, NEW r, ~About(P, r.kind, r.object.id)
  PROVE  PartlyNext(S, T, P, r)
  <1> DEFINE Q == P \union {r}
             i == r.object.id
             k == r.kind
  <1>1. \A j : About(Q, k, j) <=> About(P, k, j) \/ j = i
    BY DEF About
  <1> HIDE DEF Q, i, k
  <1>2. \A x : x \in Partly(S, T, P, k) <=> (x \in S /\ ~About(P, k, x.id)) \/ (x \in T /\ About(P, k, x.id))
    BY DEF Partly
  <1>3. \A x : x \in Partly(S, T, Q, k) <=> (x \in S /\ ~About(Q, k, x.id)) \/ (x \in T /\ About(Q, k, x.id))
    BY DEF Partly
  <1>4. ~About(P, k, i)
    BY DEF i, k
  <1>5. {x \in Partly(S, T, P, k) : x.id = i} = {x \in S : x.id = i}
    BY <1>2, <1>4
  <1>6. Partly(S, T, Q, k) = (Partly(S, T, P, k) \ {x \in S : x.id = i}) \union {x \in T : x.id = i}
    BY <1>1, <1>2, <1>3, <1>4
  <1> QED
    BY <1>4, <1>5, <1>6, Zenon DEF PartlyNext, Q, i, k

\* A row leaves what is of another kind alone.
LEMMA PartlyRests ==
  ASSUME NEW S, NEW T, NEW P, NEW r, NEW kind, kind # r.kind
  PROVE  Partly(S, T, P \union {r}, kind) = Partly(S, T, P, kind)
  <1>1. \A j : About(P \union {r}, kind, j) <=> About(P, kind, j)
    BY DEF About
  <1> QED
    BY <1>1 DEF Partly

\* Before any row the catalog is the old one.
LEMMA BetweenStarts ==
  ASSUME NEW A, Sound(A), NEW B
  PROVE  Between(A, B, {}) = A
  <1>1. A = Cat(A.schemas, A.tables, A.views)
    BY DEF Sound, Cat
  <1> QED
    BY <1>1, PartlyStarts, Zenon DEF Between

\* After all rows it is the new one.
LEMMA BetweenEnds ==
  ASSUME NEW A, NEW B, NEW s, NEW rows, Leads(A, B), Rows(A, B, s, rows)
  PROVE  Between(A, B, rows) = B
  <1>1. B = Cat(B.schemas, B.tables, B.views)
    BY DEF Leads, Sound, Cat
  <1>n. \A S, T, x : x \in New(S, T) <=> x \in T /\ \A z \in S : z.id # x.id
    BY DEF New, Ids
  <1>2. Partly(A.schemas, B.schemas, rows, "schema") = B.schemas
    <2>1. \A x \in New(A.schemas, B.schemas) \union New(B.schemas, A.schemas) : About(rows, "schema", x.id)
      BY DEF Rows, About
    <2>2. \A x \in A.schemas, y \in B.schemas : x.id = y.id => x = y
      BY DEF Leads
    <2> QED
      BY <1>n, <2>1, <2>2, PartlyEnds
  <1>3. Partly(A.tables, B.tables, rows, "table") = B.tables
    <2>1. \A x \in New(A.tables, B.tables) \union New(B.tables, A.tables) : About(rows, "table", x.id)
      BY DEF Rows, About
    <2>2. \A w \in A.tables, x \in B.tables : w.id = x.id /\ w # x => About(rows, "table", x.id)
      BY DEF Rows, About
    <2>3. \A x \in A.tables : x \notin B.tables => About(rows, "table", x.id)
      BY <1>n, <2>1, <2>2
    <2>4. \A x \in B.tables : x \notin A.tables => About(rows, "table", x.id)
      BY <1>n, <2>1, <2>2
    <2> QED
      BY <2>3, <2>4, PartlyEnds
  <1>4. Partly(A.views, B.views, rows, "view") = B.views
    <2>1. \A x \in New(A.views, B.views) \union New(B.views, A.views) : About(rows, "view", x.id)
      BY DEF Rows, About
    <2>2. \A x \in A.views, y \in B.views : x.id = y.id => x = y
      BY DEF Leads
    <2> QED
      BY <1>n, <2>1, <2>2, PartlyEnds
  <1> QED
    BY <1>1, <1>2, <1>3, <1>4, Zenon DEF Between

\* Once the rows in P are applied, r is possible.
Advances(A, B, P, r) ==
  ApplyRow(<<TRUE, Between(A, B, P)>>, r) = <<TRUE, Between(A, B, P \union {r})>>

\* What makes r possible: what it is about is as it was, its schema is there,
\* and a schema that goes is empty.
Possible(A, B, P, r) ==
  LET S == Partly(A.schemas, B.schemas, P, "schema")
      T == Partly(A.tables, B.tables, P, "table")
      V == Partly(A.views, B.views, P, "view")
  IN  /\ ~About(P, r.kind, r.object.id)
      /\ r.event = "created" /\ r.kind # "schema" => \E y \in S : y.id = r.object.schema
      /\ r.event = "dropped" /\ r.kind = "schema" => \A z \in T \union V : z.schema # r.object.id

\* In the order of SortDdlRows every row is possible when its turn comes.
LEMMA RowPossible ==
  ASSUME NEW A, NEW B, NEW s, NEW rows, Leads(A, B), Rows(A, B, s, rows),
         NEW P, NEW r, Due(rows, RowOrder(rows), P, r)
  PROVE  Possible(A, B, P, r)
  <1> DEFINE S == Partly(A.schemas, B.schemas, P, "schema")
             T == Partly(A.tables, B.tables, P, "table")
             V == Partly(A.views, B.views, P, "view")
             i == r.object.id
  <1>1. P \subseteq rows /\ r \in rows /\ r \notin P /\ \A q \in rows : <<q, r>> \in RowOrder(rows) => q \in P
    BY DEF Due
  <1>2. ~About(P, r.kind, i)
    BY <1>1 DEF About, Rows
  <1>n. \A X, Y, x : x \in New(X, Y) <=> x \in Y /\ \A z \in X : z.id # x.id
    BY DEF New, Ids
  <1>3. \A q \in rows : Rank(q) = CASE q.kind = "schema" -> IF q.event = "dropped" THEN 2 ELSE 0
                                    [] q.kind = "view"   -> 1
                                    [] q.kind = "table"  -> IF q.event = "dropped" THEN 0 ELSE 2
    <2>1. Ranked(rows)
      BY RowsListed
    <2> QED
      BY <2>1 DEF Ranked
  <1>4. \A q \in rows : Rank(q) < Rank(r) => q \in P
    BY <1>1 DEF RowOrder
  <1>5. /\ \A x \in B.tables \union B.views : \E y \in B.schemas : y.id = x.schema
        /\ \A x \in A.schemas, y \in B.schemas : x.id = y.id => x = y
        /\ \A x \in A.tables, y \in B.tables : x.id = y.id => x.schema = y.schema
        /\ \A x \in A.views, y \in B.views : x.id = y.id => x = y
    BY DEF Leads, Sound
  <1>6. ASSUME NEW q \in rows
        PROVE  /\ q.kind = "schema" =>
                    \/ q.event = "created" /\ \E x \in New(A.schemas, B.schemas) : q.object.id = x.id
                    \/ q.event = "dropped" /\ \E x \in New(B.schemas, A.schemas) : q.object.id = x.id
               /\ q.kind = "table" =>
                    \/ q.event = "created" /\ \E x \in New(A.tables, B.tables) :
                         q.object.id = x.id /\ q.object.schema = x.schema
                    \/ q.event = "altered" /\ \E x \in B.tables : q.object.id = x.id
                    \/ q.event = "dropped" /\ \E x \in New(B.tables, A.tables) : q.object.id = x.id
               /\ q.kind = "view" =>
                    \/ q.event = "created" /\ \E x \in New(A.views, B.views) :
                         q.object.id = x.id /\ q.object.schema = x.schema
                    \/ q.event = "dropped" /\ \E x \in New(B.views, A.views) : q.object.id = x.id
               /\ q.kind \in {"schema", "table", "view"}
    BY DEF Rows, Concerns
  <1> HIDE DEF i
  <1>7. ASSUME r.event = "created", r.kind # "schema"
        PROVE  \E y \in S : y.id = r.object.schema
    <2>1. \E x \in B.tables \union B.views : x.schema = r.object.schema
      BY <1>1, <1>6, <1>7, <1>n
    <2>2. PICK y \in B.schemas : y.id = r.object.schema
      BY <1>5, <2>1
    <2>3. CASE About(P, "schema", y.id)
      BY <2>2, <2>3 DEF Partly
    <2>4. CASE ~About(P, "schema", y.id)
      <3>1. y \notin New(A.schemas, B.schemas)
        <4> SUFFICES ASSUME y \in New(A.schemas, B.schemas) PROVE FALSE
          OBVIOUS
        <4>1. PICK q \in rows : q.kind = "schema" /\ q.object.id = y.id
          BY DEF Rows
        <4>2. q.event = "created"
          BY <1>6, <1>n, <2>2, <4>1
        <4>3. Rank(q) = 0
          BY <1>3, <4>1, <4>2
        <4>4. Rank(r) = 1 \/ Rank(r) = 2
          BY <1>1, <1>3, <1>6, <1>7
        <4>5. q \in P
          BY <1>4, <4>3, <4>4
        <4> QED
          BY <2>4, <4>1, <4>5 DEF About
      <3>2. y \in A.schemas
        BY <1>5, <1>n, <3>1
      <3> QED
        BY <2>2, <2>4, <3>2 DEF Partly
    <2> QED
      BY <2>3, <2>4
  <1>8. ASSUME r.event = "dropped", r.kind = "schema", NEW z \in T \union V
        PROVE  z.schema # r.object.id
    <2> SUFFICES ASSUME z.schema = r.object.id PROVE FALSE
      OBVIOUS
    <2>1. \A y \in B.schemas : y.id # r.object.id
      BY <1>1, <1>6, <1>8, <1>n
    <2>2. z \notin B.tables \union B.views
      BY <1>5, <2>1
    <2>3. Rank(r) = 2
      BY <1>1, <1>3, <1>8
    <2>4. CASE z \in A.tables /\ ~About(P, "table", z.id)
      <3>1. z \in New(B.tables, A.tables)
        BY <1>5, <1>n, <2>1, <2>4
      <3>2. PICK q \in rows : q.kind = "table" /\ q.object.id = z.id
        BY <3>1 DEF Rows
      <3>3. q.event = "dropped"
        BY <1>6, <1>n, <3>1, <3>2
      <3>4. Rank(q) = 0
        BY <1>3, <3>2, <3>3
      <3> QED
        BY <1>4, <2>3, <2>4, <3>2, <3>4 DEF About
    <2>5. CASE z \in A.views /\ ~About(P, "view", z.id)
      <3>1. z \in New(B.views, A.views)
        BY <1>5, <1>n, <2>2, <2>5
      <3>2. PICK q \in rows : q.kind = "view" /\ q.object.id = z.id
        BY <3>1 DEF Rows
      <3>4. Rank(q) = 1
        BY <1>3, <3>2
      <3> QED
        BY <1>4, <2>3, <2>5, <3>2, <3>4 DEF About
    <2> QED
      BY <2>2, <2>4, <2>5 DEF Partly
  <1> HIDE DEF S, T, V
  <1>9. r.event = "dropped" /\ r.kind = "schema" => \A z \in T \union V : z.schema # r.object.id
    BY <1>8
  <1> QED
    BY <1>2, <1>7, <1>9, Zenon DEF Possible, S, T, V, i

\* No diff leaves the columns as they are.
LEMMA NoDiffs ==
  ASSUME NEW columns
  PROVE  ApplyDiffs(columns, <<>>) = <<TRUE, columns>>
  <1> DEFINE seq == <<>>
             at == [i \in 0 .. 0 |-> <<TRUE, columns>>]
  <1>1. DOMAIN seq = 1 .. 0 /\ 0 \in Nat /\ at[0] = <<TRUE, columns>>
    <2>1. DOMAIN <<>> = 1 .. 0 /\ 0 \in Nat /\ 0 \in 0 .. 0
      OBVIOUS
    <2>2. at[0] = <<TRUE, columns>>
      BY <2>1, Zenon
    <2> QED
      BY <2>1, <2>2
  <1>2. \A i \in 1 .. 0 : at[i] = ApplyDiff(at[i - 1], seq[i])
    OBVIOUS
  <1> HIDE DEF seq, at
  <1>3. FoldLeft(ApplyDiff, at[0], seq) = at[0]
    BY <1>1, <1>2, DiffsApplied
  <1>4. ApplyDiffs(columns, seq) = <<TRUE, columns>>
    BY <1>1, <1>3, Zenon DEF ApplyDiffs
  <1> QED
    BY <1>4 DEF seq

\* What the row of an altered table says of it turns w into x.
Becomes(w, x) ==
  /\ w.name = IF WasName(w, x) = Null THEN x.name ELSE WasName(w, x)
  /\ ApplyDiffs(w.columns, ColumnDiffs(w, x)) = <<TRUE, x.columns>>
  /\ x = [w EXCEPT !.name = x.name, !.columns = x.columns]

\* The row of a table that was altered tells all that was.
LEMMA AlteredInto ==
  ASSUME NEW A, NEW B, Leads(A, B), NEW w \in A.tables, NEW x \in B.tables, w.id = x.id
  PROVE  Becomes(w, x)
  <1>1. w.name \in Names /\ w.name # Null
    BY DdlRowsAssumption DEF Leads, Sound
  <1>2. w.name = IF WasName(w, x) = Null THEN x.name ELSE WasName(w, x)
    BY <1>1 DEF WasName
  <1>3. Tree(w.columns) /\ Tree(x.columns) /\ Kin(w.columns, x.columns)
    BY DEF Leads, Succeeds, Fits, Proper, SoundColumns
  <1>4. ApplyDiffs(w.columns, ColumnDiffs(w, x)) = <<TRUE, x.columns>>
    <2>1. CASE w.columns = x.columns
      <3>1. ColumnDiffs(w, x) = <<>>
        BY <2>1 DEF ColumnDiffs
      <3> QED
        BY <2>1, <3>1, NoDiffs
    <2>2. CASE w.columns # x.columns
      <3>1. ColumnDiffs(w, x) = Normalised(DiffColumns(w.columns, x.columns))
        BY <2>2 DEF ColumnDiffs
      <3>2. ApplyDiffs(w.columns, Normalised(DiffColumns(w.columns, x.columns))) = <<TRUE, x.columns>>
        BY <1>3, ColumnsReplay
      <3> QED
        BY <3>1, <3>2, Zenon
    <2> QED
      BY <2>1, <2>2
  <1>5. x = [w EXCEPT !.name = x.name, !.columns = x.columns]
    <2>1. /\ w = [id |-> w.id, schema |-> w.schema, name |-> w.name, columns |-> w.columns]
          /\ x = [id |-> x.id, schema |-> x.schema, name |-> x.name, columns |-> x.columns]
          /\ w.schema = x.schema
      BY DEF Leads, Sound
    <2>2. [w EXCEPT !.name = x.name, !.columns = x.columns]
            = [id |-> w.id, schema |-> w.schema, name |-> x.name, columns |-> x.columns]
      BY <2>1
    <2> QED
      BY <2>1, <2>2
  <1> QED
    BY <1>2, <1>4, <1>5, Zenon DEF Becomes

\* So each row brings the catalog one step closer to the new one.
LEMMA RowStep ==
  ASSUME NEW A, NEW B, NEW s, NEW rows, Leads(A, B), Rows(A, B, s, rows),
         NEW P, NEW r, Due(rows, RowOrder(rows), P, r)
  PROVE  Advances(A, B, P, r)
  <1> DEFINE Q == P \union {r}
             S == Partly(A.schemas, B.schemas, P, "schema")
             T == Partly(A.tables, B.tables, P, "table")
             V == Partly(A.views, B.views, P, "view")
             SS == Partly(A.schemas, B.schemas, Q, "schema")
             TT == Partly(A.tables, B.tables, Q, "table")
             VV == Partly(A.views, B.views, Q, "view")
             i == r.object.id
  <1> SUFFICES Gives(S, T, V, r, SS, TT, VV)
    BY Zenon DEF Advances, Between, Gives
  <1>1. r \in rows
    BY DEF Due
  <1>2. Possible(A, B, P, r)
    BY RowPossible
  <1>3. ~About(P, r.kind, r.object.id)
    BY <1>2 DEF Possible
  <1>4. /\ r.event = "created" /\ r.kind # "schema" => \E y \in S : y.id = r.object.schema
        /\ r.event = "dropped" /\ r.kind = "schema" => \A z \in T \union V : z.schema # r.object.id
    BY <1>2, Zenon DEF Possible
  <1>n. \A X, Y, x : x \in New(X, Y) <=> x \in Y /\ \A z \in X : z.id # x.id
    BY DEF New, Ids
  <1>u. /\ \A x, y \in A.schemas : x.id = y.id => x = y
        /\ \A x, y \in B.schemas : x.id = y.id => x = y
        /\ \A x, y \in A.tables : x.id = y.id => x = y
        /\ \A x, y \in B.tables : x.id = y.id => x = y
        /\ \A x, y \in A.views : x.id = y.id => x = y
        /\ \A x, y \in B.views : x.id = y.id => x = y
    BY DEF Leads, Sound
  <1>r. /\ \A x \in B.schemas : x = [id |-> x.id, name |-> x.name]
        /\ \A x \in B.tables : x = [id |-> x.id, schema |-> x.schema, name |-> x.name, columns |-> x.columns]
        /\ \A x \in B.views : x = [id |-> x.id, schema |-> x.schema, name |-> x.name]
    BY DEF Leads, Sound
  <1>5. r.kind = "schema" =>
          /\ {x \in S : x.id = i} = {x \in A.schemas : x.id = i}
          /\ SS = (S \ {x \in A.schemas : x.id = i}) \union {x \in B.schemas : x.id = i}
          /\ TT = T /\ VV = V
    <2> SUFFICES ASSUME r.kind = "schema"
                 PROVE  /\ {x \in S : x.id = i} = {x \in A.schemas : x.id = i}
                        /\ SS = (S \ {x \in A.schemas : x.id = i}) \union {x \in B.schemas : x.id = i}
                        /\ TT = T /\ VV = V
      OBVIOUS
    <2>1. PartlyNext(A.schemas, B.schemas, P, r)
      BY <1>3, PartlyMoves
    <2>2. TT = T /\ VV = V
      BY PartlyRests
    <2> QED
      BY <2>1, <2>2, Zenon DEF PartlyNext
  <1>6. r.kind = "table" =>
          /\ {x \in T : x.id = i} = {x \in A.tables : x.id = i}
          /\ TT = (T \ {x \in A.tables : x.id = i}) \union {x \in B.tables : x.id = i}
          /\ SS = S /\ VV = V
    <2> SUFFICES ASSUME r.kind = "table"
                 PROVE  /\ {x \in T : x.id = i} = {x \in A.tables : x.id = i}
                        /\ TT = (T \ {x \in A.tables : x.id = i}) \union {x \in B.tables : x.id = i}
                        /\ SS = S /\ VV = V
      OBVIOUS
    <2>1. PartlyNext(A.tables, B.tables, P, r)
      BY <1>3, PartlyMoves
    <2>2. SS = S /\ VV = V
      BY PartlyRests
    <2> QED
      BY <2>1, <2>2, Zenon DEF PartlyNext
  <1>7. r.kind = "view" =>
          /\ {x \in V : x.id = i} = {x \in A.views : x.id = i}
          /\ VV = (V \ {x \in A.views : x.id = i}) \union {x \in B.views : x.id = i}
          /\ SS = S /\ TT = T
    <2> SUFFICES ASSUME r.kind = "view"
                 PROVE  /\ {x \in V : x.id = i} = {x \in A.views : x.id = i}
                        /\ VV = (V \ {x \in A.views : x.id = i}) \union {x \in B.views : x.id = i}
                        /\ SS = S /\ TT = T
      OBVIOUS
    <2>1. PartlyNext(A.views, B.views, P, r)
      BY <1>3, PartlyMoves
    <2>2. SS = S /\ TT = T
      BY PartlyRests
    <2> QED
      BY <2>1, <2>2, Zenon DEF PartlyNext
  <1> HIDE DEF Q, S, T, V, SS, TT, VV
  <1>8. ASSUME NEW x \in New(A.schemas, B.schemas),
               Concerns(r, s, "created", "schema", x.id, x.id, x.name)
        PROVE  Gives(S, T, V, r, SS, TT, VV)
    <2>1. r.event = "created" /\ r.kind = "schema" /\ r.object.id = x.id /\ r.object.name = x.name
      BY <1>8 DEF Concerns
    <2>2. x = [id |-> r.object.id, name |-> r.object.name]
      BY <1>n, <1>r, <2>1
    <2>3. SS = S \union {x} /\ TT = T /\ VV = V
      BY <1>5, <1>n, <1>u, <2>1
    <2> QED
      BY <2>1, <2>2, <2>3, SchemaCreatedApplied
  <1>9. ASSUME NEW x \in New(B.schemas, A.schemas),
               Concerns(r, s, "dropped", "schema", x.id, x.id, x.name)
        PROVE  Gives(S, T, V, r, SS, TT, VV)
    <2>1. r.event = "dropped" /\ r.kind = "schema" /\ r.object.id = x.id
      BY <1>9 DEF Concerns
    <2>2. SS = S \ {y \in S : y.id = r.object.id} /\ TT = T /\ VV = V
      BY <1>5, <1>n, <2>1
    <2>3. \E y \in S : y.id = r.object.id
      BY <1>5, <1>n, <2>1
    <2>4. \A z \in T \union V : z.schema # r.object.id
      BY <1>4, <2>1
    <2> QED
      BY <2>1, <2>2, <2>3, <2>4, SchemaDroppedApplied
  <1>10. ASSUME NEW x \in New(A.tables, B.tables),
                Concerns(r, s, "created", "table", x.id, x.schema, x.name), r.columns = x.columns
         PROVE  Gives(S, T, V, r, SS, TT, VV)
    <2>1. /\ r.event = "created" /\ r.kind = "table" /\ r.object.id = x.id
          /\ r.object.schema = x.schema /\ r.object.name = x.name
      BY <1>10 DEF Concerns
    <2>2. x = [id |-> r.object.id, schema |-> r.object.schema,
               name |-> r.object.name, columns |-> r.columns]
      BY <1>10, <1>n, <1>r, <2>1
    <2>3. TT = T \union {x} /\ SS = S /\ VV = V
      BY <1>6, <1>n, <1>u, <2>1
    <2>4. \A y \in T : y.id # r.object.id
      BY <1>6, <1>n, <2>1
    <2>5. \E y \in S : y.id = r.object.schema
      BY <1>4, <2>1
    <2> QED
      BY <2>1, <2>2, <2>3, <2>4, <2>5, TableCreatedApplied
  <1>11. ASSUME NEW w \in A.tables, NEW x \in B.tables, w.id = x.id,
                Concerns(r, s, "altered", "table", x.id, x.schema, x.name),
                r.was = WasName(w, x), r.diffs = ColumnDiffs(w, x)
         PROVE  Gives(S, T, V, r, SS, TT, VV)
    <2>1. r.event = "altered" /\ r.kind = "table" /\ r.object.id = x.id /\ r.object.name = x.name
      BY <1>11 DEF Concerns
    <2>2. /\ w.name = IF WasName(w, x) = Null THEN x.name ELSE WasName(w, x)
          /\ ApplyDiffs(w.columns, ColumnDiffs(w, x)) = <<TRUE, x.columns>>
          /\ x = [w EXCEPT !.name = x.name, !.columns = x.columns]
      <3>1. Becomes(w, x)
        BY <1>11, AlteredInto
      <3> QED
        BY <3>1, Zenon DEF Becomes
    <2>3. {y \in A.tables : y.id = i} = {w} /\ {y \in B.tables : y.id = i} = {x}
      BY <1>11, <1>u, <2>1
    <2>4. w \in T /\ \A y \in T : y.id = r.object.id <=> y = w
      BY <1>6, <2>1, <2>3
    <2>5. TT = (T \ {w}) \union {x} /\ SS = S /\ VV = V
      BY <1>6, <2>1, <2>3
    <2>6. w.name = IF r.was = Null THEN r.object.name ELSE r.was
      BY <1>11, <2>1, <2>2
    <2>7. ApplyDiffs(w.columns, r.diffs) = <<TRUE, x.columns>>
      BY <1>11, <2>2
    <2>8. x = [w EXCEPT !.name = r.object.name, !.columns = x.columns]
      BY <2>1, <2>2
    <2>9. Gives(S, T, V, r, S, (T \ {w}) \union {x}, V)
      BY <2>1, <2>4, <2>6, <2>7, <2>8, TableAlteredApplied
    <2> QED
      BY <2>5, <2>9
  <1>12. ASSUME NEW x \in New(B.tables, A.tables),
                Concerns(r, s, "dropped", "table", x.id, x.schema, x.name)
         PROVE  Gives(S, T, V, r, SS, TT, VV)
    <2>1. r.event = "dropped" /\ r.kind = "table" /\ r.object.id = x.id /\ r.object.name = x.name
      BY <1>12 DEF Concerns
    <2>2. TT = T \ {y \in T : y.id = r.object.id} /\ SS = S /\ VV = V
      BY <1>6, <1>n, <2>1
    <2>3. \E y \in T : y.id = r.object.id /\ y.name = r.object.name
      BY <1>6, <1>n, <2>1
    <2> QED
      BY <2>1, <2>2, <2>3, TableDroppedApplied
  <1>13. ASSUME NEW x \in New(A.views, B.views),
                Concerns(r, s, "created", "view", x.id, x.schema, x.name)
         PROVE  Gives(S, T, V, r, SS, TT, VV)
    <2>1. /\ r.event = "created" /\ r.kind = "view" /\ r.object.id = x.id
          /\ r.object.schema = x.schema /\ r.object.name = x.name
      BY <1>13 DEF Concerns
    <2>2. x = [id |-> r.object.id, schema |-> r.object.schema, name |-> r.object.name]
      BY <1>n, <1>r, <2>1
    <2>3. VV = V \union {x} /\ SS = S /\ TT = T
      BY <1>7, <1>n, <1>u, <2>1
    <2>4. \A y \in V : y.id # r.object.id
      BY <1>7, <1>n, <2>1
    <2>5. \E y \in S : y.id = r.object.schema
      BY <1>4, <2>1
    <2> QED
      BY <2>1, <2>2, <2>3, <2>4, <2>5, ViewCreatedApplied
  <1>14. ASSUME NEW x \in New(B.views, A.views),
                Concerns(r, s, "dropped", "view", x.id, x.schema, x.name)
         PROVE  Gives(S, T, V, r, SS, TT, VV)
    <2>1. r.event = "dropped" /\ r.kind = "view" /\ r.object.id = x.id /\ r.object.name = x.name
      BY <1>14 DEF Concerns
    <2>2. VV = V \ {y \in V : y.id = r.object.id} /\ SS = S /\ TT = T
      BY <1>7, <1>n, <2>1
    <2>3. \E y \in V : y.id = r.object.id /\ y.name = r.object.name
      BY <1>7, <1>n, <2>1
    <2> QED
      BY <2>1, <2>2, <2>3, ViewDroppedApplied
  <1> HIDE DEF i
  <1> QED
    BY <1>1, <1>8, <1>9, <1>10, <1>11, <1>12, <1>13, <1>14 DEF Rows

\* The rows of a snapshot turn the catalog before it into the one after it.
LEMMA RowsLead ==
  ASSUME NEW A, NEW B, NEW s, NEW rows, Leads(A, B), Rows(A, B, s, rows)
  PROVE  Replay(A, SortDdlRows(rows)) = <<TRUE, B>>
  <1> DEFINE q == SortDdlRows(rows)
             n == Len(q)
             at == [i \in 0 .. n |-> <<TRUE, Between(A, B, Prefix(q, i))>>]
  <1>1. Lists(q, rows, RowOrder(rows))
    BY RowsListed
  <1> HIDE DEF q
  <1>2. n \in Nat /\ DOMAIN q = 1 .. n
    BY <1>1 DEF Lists
  <1>3. /\ Prefix(q, 0) = {} /\ Prefix(q, n) = rows
        /\ \A i \in 1 .. n : /\ Due(rows, RowOrder(rows), Prefix(q, i - 1), q[i])
                             /\ Prefix(q, i) = Prefix(q, i - 1) \union {q[i]}
    BY <1>1, PrefixIs
  <1> HIDE DEF n
  <1>4. \A i \in 0 .. n : at[i] = <<TRUE, Between(A, B, Prefix(q, i))>>
    OBVIOUS
  <1> HIDE DEF at
  <1>5. ASSUME NEW i \in 1 .. n PROVE at[i] = ApplyRow(at[i - 1], q[i])
    <2>1. i \in 0 .. n /\ i - 1 \in 0 .. n
      BY <1>2
    <2>2. Due(rows, RowOrder(rows), Prefix(q, i - 1), q[i])
      BY <1>3
    <2>3. Advances(A, B, Prefix(q, i - 1), q[i])
      BY <2>2, RowStep, Zenon
    <2>4. ApplyRow(<<TRUE, Between(A, B, Prefix(q, i - 1))>>, q[i])
            = <<TRUE, Between(A, B, Prefix(q, i - 1) \union {q[i]})>>
      BY <2>3, Zenon DEF Advances
    <2> QED
      BY <1>3, <1>4, <2>1, <2>4
  <1>6. FoldLeft(ApplyRow, at[0], q) = at[n]
    BY <1>2, <1>5, RowsApplied
  <1>7. at[0] = <<TRUE, A>>
    <2>1. 0 \in 0 .. n
      BY <1>2
    <2>2. Between(A, B, {}) = A
      BY BetweenStarts DEF Leads
    <2> QED
      BY <1>3, <1>4, <2>1, <2>2, Zenon
  <1>8. at[n] = <<TRUE, B>>
    <2>1. n \in 0 .. n
      BY <1>2
    <2>2. Between(A, B, rows) = B
      BY BetweenEnds
    <2> QED
      BY <1>3, <1>4, <2>1, <2>2, Zenon
  <1>9. Replay(A, q) = <<TRUE, B>>
    BY <1>6, <1>7, <1>8 DEF Replay
  <1> QED
    BY <1>9 DEF q

\* One after the other, in their order, the rows of a snapshot turn the catalog
\* before it into the one after it, and each is possible when its turn comes
\* (ddl.cpp:398-441, 738-1046).
THEOREM RowsReplayed == Spec => []RowsReplay
  <1>1. CatalogInv /\ ProperInv => RowsReplay
    <2> SUFFICES ASSUME CatalogInv, ProperInv, now > 0 PROVE RowsReplay
      BY DEF RowsReplay
    <2>1. now \in Nat /\ now \in 1 .. now
      BY DEF CatalogInv, SoundInv
    <2>2. Leads(history[now - 1], history[now])
      BY <2>1, LeadsAt
    <2>3. Rows(history[now - 1], history[now], now, RowsOf(now))
      BY <2>1, RowsAt
    <2>4. Replay(history[now - 1], SortDdlRows(RowsOf(now))) = <<TRUE, history[now]>>
      BY <2>2, <2>3, RowsLead
    <2>6. ExtractDdlRows(now, now) = SortDdlRows(RowsOf(now))
      <3> DEFINE f(i) == SortDdlRows(RowsOf(now + i - 1))
      <3>1. now - now + 1 = 1 /\ now + 1 - 1 = now
        BY <2>1
      <3>2. f(1) = SortDdlRows(RowsOf(now))
        BY <3>1, Zenon
      <3>3. ExtractDdlRows(now, now) = FlattenSeq([i \in 1 .. 1 |-> f(i)])
        BY <3>1, Zenon DEF ExtractDdlRows
      <3> HIDE DEF f
      <3>4. [i \in 1 .. 1 |-> f(i)] = [i \in 1 .. 1 |-> f(1)]
        OBVIOUS
      <3>5. FlattenSeq([i \in 1 .. 1 |-> f(1)]) = f(1)
        BY Flattened
      <3> QED
        BY <3>2, <3>3, <3>4, <3>5, Zenon
    <2> QED
      BY <2>4, <2>6 DEF RowsReplay
  <1> QED
    BY <1>1, ProperInvariance, PTL

-----------------------------------------------------------------------------
(* Sequences of sequences *)

\* g flattens the first m of seqs: this is how FlattenSeq is defined.
FlatStep(g, seqs, i) == IF i = 1 THEN seqs[i] ELSE g[i - 1] \o seqs[i]
Flat(g, seqs, m) == g = [i \in 1 .. m |-> FlatStep(g, seqs, i)]

\* The function FlattenSeq chooses exists.
LEMMA FlatExists ==
  ASSUME NEW seqs
  PROVE  \A m \in Nat : \E g : Flat(g, seqs, m)
  <1> DEFINE T == {m \in Nat : ~ \E g : Flat(g, seqs, m)}
  <1>1. SUFFICES ASSUME T # {} PROVE FALSE
    OBVIOUS
  <1>2. PICK m \in T : \A k \in T : m <= k
    <2> HIDE DEF T
    <2>1. T \in SUBSET Nat
      BY DEF T
    <2> QED
      BY <1>1, <2>1, LeastElement, Zenon
  <1>3. CASE m = 0
    <2>1. \A i \in 1 .. 0 : FALSE
      OBVIOUS
    <2>2. Flat([i \in 1 .. 0 |-> i], seqs, 0)
      BY <2>1 DEF Flat
    <2> QED
      BY <1>2, <1>3, <2>2
  <1>4. CASE m # 0
    <2>1. m - 1 \in Nat /\ m - 1 \notin T /\ m \in Nat /\ m \in 1 .. m
      <3> HIDE DEF T
      <3>1. m \in Nat
        BY <1>2 DEF T
      <3> QED
        BY <1>2, <1>4, <3>1
    <2>2. PICK g : Flat(g, seqs, m - 1)
      BY <2>1
    <2> DEFINE h == [i \in 1 .. m |-> IF i = m THEN FlatStep(g, seqs, m) ELSE g[i]]
    <2>3. \A i \in 1 .. m - 1 : g[i] = FlatStep(g, seqs, i)
      BY <2>2 DEF Flat
    <2>4. \A i \in 1 .. m : i # m => i \in 1 .. m - 1
      BY <2>1
    <2>5. \A i \in 1 .. m : i # 1 => i - 1 \in 1 .. m /\ i - 1 # m
      BY <2>1
    <2>6. \A i \in 1 .. m : h[i] = IF i = m THEN FlatStep(g, seqs, m) ELSE g[i]
      OBVIOUS
    <2>7. h = [i \in 1 .. m |-> h[i]]
      OBVIOUS
    <2> HIDE DEF h
    <2>8. \A i \in 1 .. m : FlatStep(h, seqs, i) = FlatStep(g, seqs, i)
      BY <2>5, <2>6 DEF FlatStep
    <2>9. \A i \in 1 .. m : h[i] = FlatStep(h, seqs, i)
      BY <2>3, <2>4, <2>6, <2>8
    <2>10. Flat(h, seqs, m)
      BY <2>7, <2>9 DEF Flat
    <2> QED
      BY <1>2, <2>10
  <1> QED
    BY <1>3, <1>4

\* FlattenSeq puts one sequence after the other.
Flattens(G, S, seqs, n) ==
  /\ G \in [1 .. n -> Seq(S)] /\ G[1] = seqs[1]
  /\ \A i \in 2 .. n : G[i] = G[i - 1] \o seqs[i]
  /\ FlattenSeq(seqs) = G[n]

\* FlattenSeq does so.
LEMMA FlattenIs ==
  ASSUME NEW S, NEW n \in Nat \ {0}, NEW seqs \in [1 .. n -> Seq(S)]
  PROVE  \E G : Flattens(G, S, seqs, n)
  <1> DEFINE G == CHOOSE g : Flat(g, seqs, n)
  <1>1. Len(seqs) = n /\ n # 0
    OBVIOUS
  <1>2. FlattenSeq(seqs) = G[n]
    <2>1. FlattenSeq(seqs) = IF Len(seqs) = 0 THEN seqs
            ELSE (CHOOSE g : g = [i \in 1 .. Len(seqs) |->
                                    IF i = 1 THEN seqs[i] ELSE g[i - 1] \o seqs[i]])[Len(seqs)]
      BY Zenon DEF FlattenSeq
    <2> QED
      BY <1>1, <2>1, Zenon DEF Flat, FlatStep
  <1>3. Flat(G, seqs, n)
    <2>1. \E g : Flat(g, seqs, n)
      BY FlatExists
    <2> QED
      BY <2>1, Zenon
  <1> HIDE DEF G
  <1>4. DOMAIN G = 1 .. n /\ \A i \in 1 .. n : G[i] = FlatStep(G, seqs, i)
    BY <1>3 DEF Flat
  <1>5. G[1] = seqs[1] /\ \A i \in 2 .. n : G[i] = G[i - 1] \o seqs[i]
    <2>1. \A i \in 2 .. n : i \in 1 .. n /\ i # 1
      OBVIOUS
    <2>2. 1 \in 1 .. n
      OBVIOUS
    <2> QED
      BY <1>4, <2>1, <2>2 DEF FlatStep
  <1>6. \A i \in 1 .. n : G[i] \in Seq(S)
    <2> DEFINE T == {i \in 1 .. n : G[i] \notin Seq(S)}
    <2> SUFFICES ASSUME T # {} PROVE FALSE
      OBVIOUS
    <2>1. PICK i \in T : \A k \in T : i <= k
      <3>1. T \in SUBSET Nat
        OBVIOUS
      <3> HIDE DEF T
      <3> QED
        BY <3>1, LeastElement, Zenon
    <2>2. i # 1 /\ i \in 1 .. n
      BY <1>5
    <2>3. i \in 2 .. n /\ i - 1 \in 1 .. n /\ i - 1 < i /\ i \in Nat
      BY <2>2
    <2>4. G[i - 1] \in Seq(S)
      <3>1. i - 1 \notin T
        <4> HIDE DEF T
        <4> QED
          BY <2>1, <2>3
      <3> QED
        BY <2>3, <3>1
    <2>5. seqs[i] \in Seq(S) /\ G[i] = G[i - 1] \o seqs[i]
      BY <1>5, <2>3
    <2>6. G[i] \in Seq(S)
      BY <2>4, <2>5, ConcatProperties
    <2> QED
      BY <2>1, <2>6
  <1>7. G \in [1 .. n -> Seq(S)]
    <2>1. G = [i \in 1 .. n |-> FlatStep(G, seqs, i)]
      BY <1>3 DEF Flat
    <2> QED
      BY <1>6, <2>1
  <1> QED
    BY <1>2, <1>5, <1>7, Zenon DEF Flattens

-----------------------------------------------------------------------------
(* Sequences of diffs, one after the other *)

\* at[i] is what the first i diffs of seq make of base.
DiffRun(at, base, seq, n) == at[0] = base /\ \A i \in 1 .. n : at[i] = ApplyDiff(at[i - 1], seq[i])

\* There is one for as many diffs as one likes.
LEMMA DiffRunExists ==
  ASSUME NEW base, NEW seq
  PROVE  \A m \in Nat : \E at : DiffRun(at, base, seq, m)
  <1> DEFINE T == {m \in Nat : ~ \E at : DiffRun(at, base, seq, m)}
  <1>1. SUFFICES ASSUME T # {} PROVE FALSE
    OBVIOUS
  <1>2. PICK m \in T : \A k \in T : m <= k
    <2> HIDE DEF T
    <2>1. T \in SUBSET Nat
      BY DEF T
    <2> QED
      BY <1>1, <2>1, LeastElement, Zenon
  <1>3. CASE m = 0
    <2>1. \A i \in 1 .. 0 : FALSE
      OBVIOUS
    <2>2. 0 \in 0 .. 0
      OBVIOUS
    <2>3. DiffRun([i \in 0 .. 0 |-> base], base, seq, 0)
      BY <2>1, <2>2 DEF DiffRun
    <2> QED
      BY <1>2, <1>3, <2>3
  <1>4. CASE m # 0
    <2>1. m - 1 \in Nat /\ m - 1 \notin T /\ m \in Nat /\ m \in 1 .. m
      <3> HIDE DEF T
      <3>1. m \in Nat
        BY <1>2 DEF T
      <3> QED
        BY <1>2, <1>4, <3>1
    <2>2. PICK g : DiffRun(g, base, seq, m - 1)
      BY <2>1
    <2> DEFINE h == [i \in 0 .. m |-> IF i = m THEN ApplyDiff(g[m - 1], seq[m]) ELSE g[i]]
    <2>3. \A i \in 0 .. m : h[i] = IF i = m THEN ApplyDiff(g[m - 1], seq[m]) ELSE g[i]
      OBVIOUS
    <2>4. /\ \A i \in 1 .. m : i # m => i \in 1 .. m - 1
          /\ \A i \in 1 .. m : i \in 0 .. m /\ i - 1 \in 0 .. m /\ i - 1 # m
          /\ 0 \in 0 .. m /\ 0 # m
      BY <2>1
    <2>5. g[0] = base /\ \A i \in 1 .. m - 1 : g[i] = ApplyDiff(g[i - 1], seq[i])
      BY <2>2 DEF DiffRun
    <2> HIDE DEF h
    <2>6. h[0] = base
      BY <2>3, <2>4, <2>5
    <2>7. ASSUME NEW i \in 1 .. m PROVE h[i] = ApplyDiff(h[i - 1], seq[i])
      <3>1. h[i - 1] = g[i - 1]
        BY <2>3, <2>4
      <3>2. CASE i = m
        BY <2>3, <2>4, <3>1, <3>2
      <3>3. CASE i # m
        BY <2>3, <2>4, <2>5, <3>1, <3>3
      <3> QED
        BY <3>2, <3>3
    <2>8. DiffRun(h, base, seq, m)
      BY <2>6, <2>7 DEF DiffRun
    <2> QED
      BY <1>2, <2>8
  <1> QED
    BY <1>3, <1>4

\* Diffs after diffs.
LEMMA DiffsAppended ==
  ASSUME NEW S, NEW s \in Seq(S), NEW t \in Seq(S), NEW base
  PROVE  FoldLeft(ApplyDiff, base, s \o t) = FoldLeft(ApplyDiff, FoldLeft(ApplyDiff, base, s), t)
  <1> DEFINE m == Len(s)
             k == Len(t)
             q == s \o t
  <1>1. /\ m \in Nat /\ k \in Nat /\ m + k \in Nat
        /\ DOMAIN s = 1 .. m /\ DOMAIN t = 1 .. k
    OBVIOUS
  <1>2. /\ q \in Seq(S) /\ Len(q) = m + k
        /\ \A i \in 1 .. m + k : q[i] = IF i <= m THEN s[i] ELSE t[i - m]
    BY ConcatProperties
  <1>3. DOMAIN q = 1 .. m + k
    BY <1>2
  <1> HIDE DEF m, k, q
  <1>4. PICK at : DiffRun(at, base, q, m + k)
    BY <1>1, DiffRunExists
  <1>5. at[0] = base /\ \A i \in 1 .. m + k : at[i] = ApplyDiff(at[i - 1], q[i])
    BY <1>4 DEF DiffRun
  <1>6. FoldLeft(ApplyDiff, at[0], q) = at[m + k]
    BY <1>1, <1>3, <1>5, DiffsApplied
  <1>7. FoldLeft(ApplyDiff, at[0], s) = at[m]
    <2>1. \A i \in 1 .. m : i \in 1 .. m + k /\ i <= m
      BY <1>1
    <2>2. \A i \in 1 .. m : at[i] = ApplyDiff(at[i - 1], s[i])
      BY <1>2, <1>5, <2>1
    <2> QED
      BY <1>1, <2>2, DiffsApplied
  <1>8. FoldLeft(ApplyDiff, at[m], t) = at[m + k]
    <2> DEFINE b == [i \in 0 .. k |-> at[m + i]]
    <2>1. \A i \in 1 .. k : /\ m + i \in 1 .. m + k /\ ~(m + i <= m) /\ (m + i) - m = i
                            /\ i \in 0 .. k /\ i - 1 \in 0 .. k /\ m + (i - 1) = (m + i) - 1
      BY <1>1
    <2>2. \A i \in 0 .. k : b[i] = at[m + i]
      OBVIOUS
    <2> HIDE DEF b
    <2>3. ASSUME NEW i \in 1 .. k PROVE b[i] = ApplyDiff(b[i - 1], t[i])
      <3> DEFINE j == m + i
      <3>0. j \in 1 .. m + k /\ ~(j <= m) /\ j - m = i
        BY <2>1, Zenon
      <3> HIDE DEF j
      <3>1. q[m + i] = t[i]
        <4>1. q[j] = t[j - m]
          BY <1>2, <3>0, Zenon
        <4> QED
          BY <3>0, <4>1, Zenon DEF j
      <3>2. at[m + i] = ApplyDiff(at[(m + i) - 1], q[m + i])
        <4>1. at[j] = ApplyDiff(at[j - 1], q[j])
          BY <1>5, <3>0, Zenon
        <4> QED
          BY <4>1, Zenon DEF j
      <3> QED
        BY <2>1, <2>2, <3>1, <3>2
    <2>4. FoldLeft(ApplyDiff, b[0], t) = b[k]
      BY <1>1, <2>3, DiffsApplied
    <2>5. 0 \in 0 .. k /\ k \in 0 .. k /\ m + 0 = m
      BY <1>1
    <2>6. b[0] = at[m] /\ b[k] = at[m + k]
      BY <2>2, <2>5
    <2> QED
      BY <2>4, <2>6
  <1> QED
    BY <1>5, <1>6, <1>7, <1>8 DEF q

\* One sequence of diffs after the other.
LEMMA DiffsFlattened ==
  ASSUME NEW S, NEW n \in Nat \ {0}, NEW seqs \in [1 .. n -> Seq(S)], NEW at,
         \A i \in 1 .. n : FoldLeft(ApplyDiff, at[i - 1], seqs[i]) = at[i]
  PROVE  FoldLeft(ApplyDiff, at[0], FlattenSeq(seqs)) = at[n]
  <1>1. PICK G : Flattens(G, S, seqs, n)
    BY FlattenIs
  <1>2. /\ G \in [1 .. n -> Seq(S)] /\ G[1] = seqs[1]
        /\ \A i \in 2 .. n : G[i] = G[i - 1] \o seqs[i]
        /\ FlattenSeq(seqs) = G[n]
    BY <1>1 DEF Flattens
  <1> DEFINE T == {i \in 1 .. n : FoldLeft(ApplyDiff, at[0], G[i]) # at[i]}
  <1>3. T = {}
    <2> SUFFICES ASSUME T # {} PROVE FALSE
      OBVIOUS
    <2>1. PICK i \in T : \A k \in T : i <= k
      <3>1. T \in SUBSET Nat
        OBVIOUS
      <3> HIDE DEF T
      <3> QED
        BY <3>1, LeastElement, Zenon
    <2>2. i # 1 /\ i \in 1 .. n
      <3>1. 1 - 1 = 0 /\ 1 \in 1 .. n
        OBVIOUS
      <3>2. FoldLeft(ApplyDiff, at[0], G[1]) = at[1]
        BY <1>2, <3>1
      <3> QED
        BY <2>1, <3>2
    <2>3. i \in 2 .. n /\ i - 1 \in 1 .. n /\ i - 1 < i /\ i \in Nat
      BY <2>2
    <2>4. FoldLeft(ApplyDiff, at[0], G[i - 1]) = at[i - 1]
      <3>1. i - 1 \notin T
        <4> HIDE DEF T
        <4> QED
          BY <2>1, <2>3
      <3> QED
        BY <2>3, <3>1
    <2>5. G[i - 1] \in Seq(S) /\ seqs[i] \in Seq(S) /\ G[i] = G[i - 1] \o seqs[i]
      BY <1>2, <2>3
    <2>6. FoldLeft(ApplyDiff, at[0], G[i - 1] \o seqs[i])
            = FoldLeft(ApplyDiff, FoldLeft(ApplyDiff, at[0], G[i - 1]), seqs[i])
      BY <2>5, DiffsAppended
    <2>7. FoldLeft(ApplyDiff, at[0], G[i]) = at[i]
      BY <2>3, <2>4, <2>5, <2>6
    <2> QED
      BY <2>1, <2>7
  <1>4. n \in 1 .. n
    OBVIOUS
  <1> QED
    BY <1>2, <1>3, <1>4

-----------------------------------------------------------------------------
(* The diff of one table at one snapshot *)

\* No table, or one, in the order of their ids.
LEMMA SortedNone == Sorted({}, <) = <<>>
  <1> DEFINE place(x) == Cardinality({y \in {} : y < x})
             q == [i \in 1 .. Cardinality({}) |-> CHOOSE x \in {} : place(x) = i - 1]
  <1>1. Sorted({}, <) = q
    BY Zenon DEF Sorted
  <1> HIDE DEF place
  <1>2. Cardinality({}) = 0
    BY FS_EmptySet
  <1>3. q = <<>>
    BY <1>2
  <1> QED
    BY <1>1, <1>3

\* The list of one id.
LEMMA SortedOne ==
  ASSUME NEW t \in Nat
  PROVE  Sorted({t}, <) = [i \in 1 .. 1 |-> t]
  <1> DEFINE place(x) == Cardinality({y \in {t} : y < x})
             f(i) == CHOOSE x \in {t} : place(x) = i - 1
  <1>1. Sorted({t}, <) = [i \in 1 .. Cardinality({t}) |-> f(i)]
    BY Zenon DEF Sorted
  <1>2. Cardinality({t}) = 1
    BY FS_Singleton
  <1>3. place(t) = 0
    <2>1. {y \in {t} : y < t} = {}
      OBVIOUS
    <2> QED
      BY <2>1, FS_EmptySet
  <1> HIDE DEF place
  <1>4. f(1) = t
    <2>1. 1 - 1 = 0
      OBVIOUS
    <2> QED
      BY <1>3, <2>1
  <1> HIDE DEF f
  <1>5. [i \in 1 .. 1 |-> f(i)] = [i \in 1 .. 1 |-> t]
    BY <1>4
  <1> QED
    BY <1>1, <1>2, <1>5

\* The tables a snapshot creates or renames, as the lookup by name finds them.
LEMMA CreatedIs ==
  ASSUME CatalogInv, NEW s \in 1 .. now
  PROVE  {LookupByName(tableRows, s, q).id : q \in changes[s].tables_created}
           = Ids(New(history[s - 1].tables, history[s].tables)
                   \union RenamedTables(history[s - 1], history[s]))
  <1> DEFINE A == history[s - 1]
             B == history[s]
             T == New(A.tables, B.tables) \union RenamedTables(A, B)
  <1>0. now \in Nat /\ s \in 0 .. now /\ s - 1 \in 0 .. now
    BY DEF CatalogInv, SoundInv
  <1>1. changes[s].tables_created = {Qualified(B, x) : x \in T}
    BY TokensAt
  <1>2. ASSUME NEW x \in T PROVE LookupByName(tableRows, s, Qualified(B, x)).id = x.id
    <2>1. x \in B.tables
      BY DEF New, RenamedTables
    <2>2. PICK y \in B.schemas : y.id = x.schema
      BY <1>0, <2>1, SoundAt
    <2>3. LookupByName(tableRows, s, Qualified(B, x)) = OfObject(x, y)
      BY <2>1, <2>2, TableByNameIs
    <2> QED
      BY <2>3 DEF OfObject, Resolved
  <1> HIDE DEF A, B, T
  <1>3. {LookupByName(tableRows, s, q).id : q \in changes[s].tables_created} = Ids(T)
    BY <1>1, <1>2 DEF Ids
  <1> QED
    BY <1>3 DEF T, A, B

\* The columns a table has in a catalog, if it is there.
ColumnsOf(C, t) == UNION {x.columns : x \in {y \in C.tables : y.id = t}}

\* A table that is not there has none.
LEMMA ColumnsOfIs ==
  ASSUME CatalogInv, NEW s \in 0 .. now, NEW t
  PROVE  /\ t \notin Ids(history[s].tables) => ColumnsOf(history[s], t) = {}
         /\ \A x \in history[s].tables : x.id = t => ColumnsOf(history[s], t) = x.columns
  <1>1. ASSUME t \notin Ids(history[s].tables) PROVE ColumnsOf(history[s], t) = {}
    BY <1>1 DEF Ids, ColumnsOf
  <1>2. ASSUME NEW x \in history[s].tables, x.id = t PROVE ColumnsOf(history[s], t) = x.columns
    <2>1. {y \in history[s].tables : y.id = t} = {x}
      BY <1>2, SoundAt
    <2> QED
      BY <2>1 DEF ColumnsOf
  <1> QED
    BY <1>1, <1>2

\* The diff of a snapshot, of one table.
LEMMA OneTouched ==
  ASSUME CatalogInv, NEW s \in 1 .. now, NEW t \in Nat
  PROVE  LET A == history[s - 1]
             B == history[s]
             created == Ids(New(A.tables, B.tables) \union RenamedTables(A, B))
         IN  SchemaDiffAt(s, {t}) = IF t \in created \union changes[s].tables_altered
                                    THEN TableDiffAt(t, s, created) ELSE <<>>
  <1> DEFINE created == Ids(New(history[s - 1].tables, history[s].tables)
                              \union RenamedTables(history[s - 1], history[s]))
             U == created \union changes[s].tables_altered
             touched == Sorted(U \intersect {t}, <)
             f(i) == TableDiffAt(touched[i], s, created)
  <1>1. {LookupByName(tableRows, s, q).id : q \in changes[s].tables_created} = created
    BY CreatedIs
  <1> HIDE DEF created
  <1>2. SchemaDiffAt(s, {t}) = FlattenSeq([i \in DOMAIN touched |-> f(i)])
    BY <1>1, Zenon DEF SchemaDiffAt
  <1> HIDE DEF f
  <1>3. CASE t \in U
    <2>1. U \intersect {t} = {t}
      BY <1>3
    <2>2. touched = [i \in 1 .. 1 |-> t]
      BY <2>1, SortedOne, Zenon
    <2> HIDE DEF touched
    <2>3. DOMAIN touched = 1 .. 1 /\ touched[1] = t
      BY <2>2
    <2>4. f(1) = TableDiffAt(t, s, created)
      BY <2>3 DEF f
    <2>5. [i \in DOMAIN touched |-> f(i)] = [i \in 1 .. 1 |-> f(1)]
      BY <2>3
    <2>6. FlattenSeq([i \in 1 .. 1 |-> f(1)]) = f(1)
      BY Flattened
    <2> QED
      BY <1>2, <1>3, <2>4, <2>5, <2>6 DEF U, created
  <1>4. CASE t \notin U
    <2>1. U \intersect {t} = {}
      BY <1>4
    <2>2. touched = <<>>
      BY <2>1, SortedNone, Zenon
    <2> HIDE DEF touched
    <2>3. [i \in DOMAIN touched |-> f(i)] = <<>>
      BY <2>2
    <2>4. FlattenSeq(<<>>) = <<>>
      BY DEF FlattenSeq
    <2> QED
      BY <1>2, <1>4, <2>3, <2>4 DEF U, created
  <1> QED
    BY <1>3, <1>4

\* A sequence of diffs that leads from some columns to others.
Advance(diffs, old, new) ==
  /\ \E D : diffs \in Seq(D)
  /\ ApplyDiffs(old, diffs) = <<TRUE, new>>

\* The diffs DiffColumns finds, in the order of Normalised, lead from the old
\* columns to the new.
LEMMA DiffsAdvance ==
  ASSUME NEW old, NEW new, Tree(old), Tree(new), Kin(old, new)
  PROVE  Advance(Normalised(DiffColumns(old, new)), old, new)
  <1> DEFINE D == DiffColumns(old, new)
             q == Normalised(D)
  <1>1. Lists(q, D, DiffOrder(D))
    BY DiffsInOrder
  <1>2. ApplyDiffs(old, q) = <<TRUE, new>>
    BY ColumnsReplay
  <1> HIDE DEF q, D
  <1>3. q \in Seq(D)
    BY <1>1 DEF Lists
  <1>4. Advance(q, old, new)
    BY <1>2, <1>3, Zenon DEF Advance
  <1> QED
    BY <1>4 DEF q, D

\* No diff leads nowhere.
LEMMA NoneAdvance ==
  ASSUME NEW columns
  PROVE  Advance(<<>>, columns, columns)
  <1>1. <<>> \in Seq({})
    OBVIOUS
  <1> QED
    BY <1>1, NoDiffs, Zenon DEF Advance

\* The diff of a table a snapshot created adds all its columns.
LEMMA CreatedAdvance ==
  ASSUME CatalogInv, ProperInv, NEW s \in 1 .. now, NEW created,
         NEW x \in New(history[s - 1].tables, history[s].tables), x.id \in created
  PROVE  Advance(TableDiffAt(x.id, s, created), {}, x.columns)
  <1>0. now \in Nat /\ s \in 0 .. now /\ x \in history[s].tables
    BY DEF CatalogInv, SoundInv, New
  <1>1. PreviousTableName(x.id, s) = Null
    BY NoPrevious
  <1>2. LookupTableColumnsAt(x.id, s) = x.columns
    BY <1>0, LookupColumnsIs
  <1>3. Tree(x.columns)
    BY <1>0 DEF ProperInv, Proper, SoundColumns
  <1>4. {Added(c) : c \in x.columns} = DiffColumns({}, x.columns)
    BY DEF DiffColumns, New, Ids
  <1>5. Tree({}) /\ Kin({}, x.columns)
    BY DEF Tree, Kin
  <1>6. TableDiffAt(x.id, s, created) = Normalised(DiffColumns({}, x.columns))
    BY <1>1, <1>2, <1>4, Zenon DEF TableDiffAt
  <1>7. Advance(Normalised(DiffColumns({}, x.columns)), {}, x.columns)
    BY <1>3, <1>5, DiffsAdvance
  <1> QED
    BY <1>6, <1>7, Zenon

\* The diff of a table that was there before tells how its columns changed.
LEMMA AlteredAdvance ==
  ASSUME CatalogInv, ProperInv, NEW s \in 1 .. now, NEW created,
         NEW w \in history[s - 1].tables, NEW x \in history[s].tables, w.id = x.id
  PROVE  Advance(TableDiffAt(x.id, s, created), w.columns, x.columns)
  <1>0. now \in Nat /\ s \in 0 .. now /\ s - 1 \in 0 .. now
    BY DEF CatalogInv, SoundInv
  <1>1. PreviousTableName(x.id, s) = w.name
    BY PreviousIs
  <1>2. w.name # Null
    <2>1. w.name \in Names
      BY <1>0 DEF CatalogInv, SoundInv, Sound
    <2> QED
      BY <2>1, DdlRowsAssumption
  <1>3. TableDiffAt(x.id, s, created) = IF w.columns = x.columns THEN <<>>
                                        ELSE Normalised(DiffColumns(w.columns, x.columns))
    BY <1>1, <1>2, AlterationIs, Zenon DEF TableDiffAt
  <1>4. Tree(w.columns) /\ Tree(x.columns) /\ Kin(w.columns, x.columns)
    BY <1>0 DEF ProperInv, Succeeds, Fits, Proper, SoundColumns
  <1>5. Advance(Normalised(DiffColumns(w.columns, x.columns)), w.columns, x.columns)
    BY <1>4, DiffsAdvance
  <1>6. Advance(<<>>, w.columns, w.columns)
    BY NoneAdvance
  <1> QED
    BY <1>3, <1>5, <1>6, Zenon

\* The diff of a snapshot, of a table that there is now, leads from its columns
\* before the snapshot to those after it.
LEMMA SnapshotAdvance ==
  ASSUME CatalogInv, ProperInv, NEW s \in 1 .. now, NEW t \in Ids(history[now].tables)
  PROVE  Advance(SchemaDiffAt(s, {t}), ColumnsOf(history[s - 1], t), ColumnsOf(history[s], t))
  <1> DEFINE A == history[s - 1]
             B == history[s]
             created == Ids(New(A.tables, B.tables) \union RenamedTables(A, B))
  <1>0. now \in Nat /\ s \in 0 .. now /\ s - 1 \in 0 .. now /\ now \in 0 .. now
    BY DEF CatalogInv, SoundInv
  <1>1. t \in Nat
    <2>1. Sound(history[now])
      BY <1>0 DEF CatalogInv, SoundInv
    <2> QED
      BY <2>1 DEF Sound, Ids
  <1>2. SchemaDiffAt(s, {t}) = IF t \in created \union changes[s].tables_altered
                               THEN TableDiffAt(t, s, created) ELSE <<>>
    BY <1>1, OneTouched, Zenon
  <1>3. created \subseteq Ids(B.tables) /\ Ids(RenamedTables(A, B)) \subseteq created
    BY DEF New, RenamedTables, Ids
  <1>4. changes[s].tables_altered \ Ids(RenamedTables(A, B)) =
          Ids(AlteredTables(A, B)) \ Ids(RenamedTables(A, B))
    BY TokensAt
  <1>5. Ids(AlteredTables(A, B)) \subseteq Ids(B.tables)
    BY DEF AlteredTables, Ids
  <1>6. CASE t \notin Ids(B.tables)
    <2>1. t \notin Ids(A.tables)
      <3>1. Ids(A.tables) \intersect Ids(history[now].tables) \subseteq Ids(B.tables)
        <4>1. \A q, m, r \in 0 .. now : q <= m /\ m <= r =>
                Ids(history[q].tables) \intersect Ids(history[r].tables)
                  \subseteq Ids(history[m].tables)
          BY DEF CatalogInv, LifeInv
        <4>2. s - 1 <= s /\ s <= now
          BY <1>0
        <4> HIDE DEF created
        <4> QED
          BY <1>0, <4>1, <4>2
      <3> QED
        BY <1>6, <3>1
    <2> HIDE DEF A, B
    <2>2. t \notin created \union changes[s].tables_altered
      <3> HIDE DEF created
      <3> QED
        BY <1>3, <1>4, <1>5, <1>6
    <2>3. ColumnsOf(A, t) = {} /\ ColumnsOf(B, t) = {}
      BY <1>0, <1>6, <2>1, ColumnsOfIs DEF A, B
    <2>4. Advance(<<>>, {}, {})
      BY NoneAdvance
    <2>5. SchemaDiffAt(s, {t}) = <<>>
      BY <1>2, <2>2, Zenon
    <2> QED
      BY <2>3, <2>4, <2>5, Zenon DEF A, B
  <1>7. CASE t \in Ids(B.tables) /\ t \notin Ids(A.tables)
    <2>1. PICK x \in B.tables : x.id = t
      BY <1>7 DEF Ids
    <2>2. x \in New(A.tables, B.tables)
      BY <1>7, <2>1 DEF New
    <2>3. x.id \in created
      BY <2>2 DEF Ids
    <2>4. ColumnsOf(A, t) = {} /\ ColumnsOf(B, t) = x.columns
      BY <1>0, <1>7, <2>1, ColumnsOfIs
    <2> HIDE DEF created
    <2>5. Advance(TableDiffAt(x.id, s, created), {}, x.columns)
      BY <2>2, <2>3, CreatedAdvance
    <2>6. SchemaDiffAt(s, {t}) = TableDiffAt(x.id, s, created)
      BY <1>2, <2>1, <2>3
    <2> QED
      BY <2>4, <2>5, <2>6, Zenon
  <1>8. CASE t \in Ids(B.tables) /\ t \in Ids(A.tables)
    <2>1. PICK x \in B.tables : x.id = t
      BY <1>8 DEF Ids
    <2>2. PICK w \in A.tables : w.id = t
      BY <1>8 DEF Ids
    <2>3. ColumnsOf(A, t) = w.columns /\ ColumnsOf(B, t) = x.columns
      BY <1>0, <2>1, <2>2, ColumnsOfIs
    <2>4. CASE t \in created \union changes[s].tables_altered
      <3> HIDE DEF created
      <3>1. w.id = x.id
        BY <2>1, <2>2
      <3>2. Advance(TableDiffAt(x.id, s, created), w.columns, x.columns)
        BY <3>1, AlteredAdvance
      <3>3. SchemaDiffAt(s, {t}) = TableDiffAt(x.id, s, created)
        BY <1>2, <2>1, <2>4
      <3> QED
        BY <2>3, <3>2, <3>3, Zenon
    <2>5. CASE t \notin created \union changes[s].tables_altered
      <3>1. t \notin Ids(AlteredTables(A, B))
        <4> HIDE DEF created, A, B
        <4> QED
          BY <1>3, <1>4, <2>5
      <3>2. w.columns = x.columns
        BY <2>1, <2>2, <3>1 DEF AlteredTables, Ids
      <3>3. Advance(<<>>, w.columns, w.columns)
        BY NoneAdvance
      <3>4. SchemaDiffAt(s, {t}) = <<>>
        BY <1>2, <2>5, Zenon
      <3> QED
        BY <2>3, <3>2, <3>3, <3>4, Zenon
    <2> QED
      BY <2>4, <2>5
  <1> QED
    BY <1>6, <1>7, <1>8

\* Sequences of elements of a set are sequences of elements of a larger one.
LEMMA SeqsGrow ==
  ASSUME NEW D, NEW S, D \subseteq S, NEW q \in Seq(D)
  PROVE  q \in Seq(S)
  OBVIOUS

\* The tables that a name resolves to are finitely many.
LEMMA OneId ==
  ASSUME CatalogInv, NEW ids, ids \subseteq Ids(history[now].tables), Cardinality(ids) = 1
  PROVE  \E t \in Ids(history[now].tables) : ids = {t}
  <1>0. now \in 0 .. now
    BY DEF CatalogInv, SoundInv
  <1>1. ids \subseteq Used /\ Bounded(Used)
    BY <1>0, RowsKnowIds DEF CatalogInv, SoundInv
  <1>2. ids \in SUBSET Nat /\ \E n \in Nat : \A i \in ids : i <= n
    BY <1>1 DEF Bounded
  <1>3. IsFiniteSet(ids)
    BY <1>2, FS_BoundedSetOfNaturals
  <1>4. PICK t : ids = {t}
    BY <1>3, FS_Singleton
  <1> QED
    BY <1>4

\* What the diffs of a table lead to, over a range of snapshots.
LEMMA RangeAdvance ==
  ASSUME CatalogInv, ProperInv, NEW from \in 1 .. now, NEW t \in Ids(history[now].tables)
  PROVE  ApplyDiffs(ColumnsOf(history[from - 1], t),
                    FlattenSeq([i \in 1 .. now - from + 1 |-> SchemaDiffAt(from + i - 1, {t})]))
           = <<TRUE, ColumnsOf(history[now], t)>>
  <1> DEFINE n == now - from + 1
             seqs == [i \in 1 .. n |-> SchemaDiffAt(from + i - 1, {t})]
             at == [i \in 0 .. n |-> <<TRUE, ColumnsOf(history[(from - 1) + i], t)>>]
             D(i) == CHOOSE d : seqs[i] \in Seq(d)
             S == UNION {D(i) : i \in 1 .. n}
  <1>0. /\ now \in Nat /\ n \in Nat \ {0} /\ 0 \in 0 .. n /\ n \in 0 .. n
        /\ (from - 1) + 0 = from - 1 /\ (from - 1) + n = now
        /\ \A i \in 1 .. n : /\ from + i - 1 \in 1 .. now /\ i \in 0 .. n /\ i - 1 \in 0 .. n
                             /\ (from - 1) + i = from + i - 1
                             /\ (from - 1) + (i - 1) = (from + i - 1) - 1
    BY DEF CatalogInv, SoundInv
  <1> HIDE DEF n
  <1>1. \A i \in 0 .. n : at[i] = <<TRUE, ColumnsOf(history[(from - 1) + i], t)>>
    OBVIOUS
  <1>2. \A i \in 1 .. n : seqs[i] = SchemaDiffAt(from + i - 1, {t})
    OBVIOUS
  <1>3. DOMAIN seqs = 1 .. n
    OBVIOUS
  <1>4. seqs = [i \in 1 .. n |-> seqs[i]]
    OBVIOUS
  <1> HIDE DEF seqs, at
  <1>5. ASSUME NEW i \in 1 .. n
        PROVE  /\ \E d : seqs[i] \in Seq(d)
               /\ FoldLeft(ApplyDiff, at[i - 1], seqs[i]) = at[i]
    <2> DEFINE s == from + i - 1
    <2>1. s \in 1 .. now
      BY <1>0
    <2>2. at[i - 1] = <<TRUE, ColumnsOf(history[s - 1], t)>> /\ at[i] = <<TRUE, ColumnsOf(history[s], t)>>
      BY <1>0, <1>1
    <2>3. seqs[i] = SchemaDiffAt(s, {t})
      BY <1>2
    <2> HIDE DEF s
    <2>4. Advance(SchemaDiffAt(s, {t}), ColumnsOf(history[s - 1], t), ColumnsOf(history[s], t))
      BY <2>1, SnapshotAdvance
    <2>5. Advance(seqs[i], ColumnsOf(history[s - 1], t), ColumnsOf(history[s], t))
      BY <2>3, <2>4, Zenon
    <2> QED
      BY <2>2, <2>5, Zenon DEF Advance, ApplyDiffs
  <1>6. ASSUME NEW i \in 1 .. n PROVE seqs[i] \in Seq(S)
    <2>1. \E d : seqs[i] \in Seq(d)
      BY <1>5, Zenon
    <2>2. seqs[i] \in Seq(D(i))
      BY <2>1, Zenon
    <2>3. D(i) \subseteq S
      <3> HIDE DEF D
      <3> QED
        OBVIOUS
    <2> HIDE DEF D, S
    <2> QED
      BY <2>2, <2>3, SeqsGrow, Zenon
  <1> HIDE DEF D, S
  <1>7. seqs \in [1 .. n -> Seq(S)]
    BY <1>4, <1>6
  <1>8. FoldLeft(ApplyDiff, at[0], FlattenSeq(seqs)) = at[n]
    BY <1>0, <1>5, <1>7, DiffsFlattened
  <1>9. at[0] = <<TRUE, ColumnsOf(history[from - 1], t)>> /\ at[n] = <<TRUE, ColumnsOf(history[now], t)>>
    BY <1>0, <1>1
  <1>10. ApplyDiffs(ColumnsOf(history[from - 1], t), FlattenSeq(seqs)) = <<TRUE, ColumnsOf(history[now], t)>>
    BY <1>8, <1>9, Zenon DEF ApplyDiffs
  <1> QED
    BY <1>10 DEF seqs, n

\* What cdc_schema_diff returns for a name that one table bore leads from the
\* columns the table had before the range to those at its end, and each diff is
\* possible when its turn comes (ddl.cpp:1651-1862).
THEOREM TimelinesReplay == Spec => []DiffsReplay
  <1>1. CatalogInv /\ ProperInv => DiffsReplay
    <2> SUFFICES ASSUME CatalogInv, ProperInv, NEW from \in 1 .. now,
                        NEW q \in AllSchemaNames \X Names,
                        Cardinality(ResolveTableIdsForFilter(q, from, now)) = 1
                 PROVE  Timeline(q, from)
      BY DEF DiffsReplay
    <2> DEFINE ids == ResolveTableIdsForFilter(q, from, now)
               ColumnsIn(s) == UNION {x.columns : x \in {y \in history[s].tables : y.id \in ids}}
    <2>1. Timeline(q, from) <=>
            (ids \subseteq Ids(history[now].tables) =>
               ApplyDiffs(ColumnsIn(from - 1), SchemaDiff(q, from, now)) = <<TRUE, ColumnsIn(now)>>)
      BY Zenon DEF Timeline
    <2>2. SchemaDiff(q, from, now)
            = FlattenSeq([i \in 1 .. now - from + 1 |-> SchemaDiffAt(from + i - 1, ids)])
      BY Zenon DEF SchemaDiff
    <2> SUFFICES ASSUME ids \subseteq Ids(history[now].tables)
                 PROVE  ApplyDiffs(ColumnsIn(from - 1), SchemaDiff(q, from, now)) = <<TRUE, ColumnsIn(now)>>
      BY <2>1
    <2> HIDE DEF ids
    <2>3. PICK t \in Ids(history[now].tables) : ids = {t}
      BY OneId DEF ids
    <2>4. \A s : ColumnsIn(s) = ColumnsOf(history[s], t)
      BY <2>3 DEF ColumnsOf
    <2> HIDE DEF ColumnsIn
    <2>5. ApplyDiffs(ColumnsOf(history[from - 1], t),
                     FlattenSeq([i \in 1 .. now - from + 1 |-> SchemaDiffAt(from + i - 1, {t})]))
            = <<TRUE, ColumnsOf(history[now], t)>>
      BY RangeAdvance
    <2> QED
      BY <2>2, <2>3, <2>4, <2>5, Zenon
  <1> QED
    BY <1>1, ProperInvariance, PTL

-----------------------------------------------------------------------------
(* Rows that a filter keeps, one after the other *)

\* at[i] is what those of the first i rows of seq that are in keep make of base.
RowRun(at, base, seq, keep, n) ==
  /\ at[0] = base
  /\ \A i \in 1 .. n : at[i] = IF i \in keep THEN ApplyRow(at[i - 1], seq[i]) ELSE at[i - 1]

\* There is one for as many rows as one likes.
LEMMA RowRunExists ==
  ASSUME NEW base, NEW seq, NEW keep
  PROVE  \A m \in Nat : \E at : RowRun(at, base, seq, keep, m)
  <1> DEFINE T == {m \in Nat : ~ \E at : RowRun(at, base, seq, keep, m)}
  <1>1. SUFFICES ASSUME T # {} PROVE FALSE
    OBVIOUS
  <1>2. PICK m \in T : \A k \in T : m <= k
    <2> HIDE DEF T
    <2>1. T \in SUBSET Nat
      BY DEF T
    <2> QED
      BY <1>1, <2>1, LeastElement, Zenon
  <1>3. CASE m = 0
    <2>1. \A i \in 1 .. 0 : FALSE
      OBVIOUS
    <2>2. 0 \in 0 .. 0
      OBVIOUS
    <2>3. RowRun([i \in 0 .. 0 |-> base], base, seq, keep, 0)
      BY <2>1, <2>2 DEF RowRun
    <2> QED
      BY <1>2, <1>3, <2>3
  <1>4. CASE m # 0
    <2>1. m - 1 \in Nat /\ m - 1 \notin T /\ m \in Nat /\ m \in 1 .. m
      <3> HIDE DEF T
      <3>1. m \in Nat
        BY <1>2 DEF T
      <3> QED
        BY <1>2, <1>4, <3>1
    <2>2. PICK g : RowRun(g, base, seq, keep, m - 1)
      BY <2>1
    <2> DEFINE Then(k, a) == IF k \in keep THEN ApplyRow(a, seq[k]) ELSE a
               h == [i \in 0 .. m |-> IF i = m THEN Then(m, g[m - 1]) ELSE g[i]]
    <2>3. \A i \in 0 .. m : h[i] = IF i = m THEN Then(m, g[m - 1]) ELSE g[i]
      OBVIOUS
    <2>4. /\ \A i \in 1 .. m : i # m => i \in 1 .. m - 1
          /\ \A i \in 1 .. m : i \in 0 .. m /\ i - 1 \in 0 .. m /\ i - 1 # m
          /\ 0 \in 0 .. m /\ 0 # m
      BY <2>1
    <2>5. g[0] = base /\ \A i \in 1 .. m - 1 : g[i] = Then(i, g[i - 1])
      BY <2>2 DEF RowRun
    <2> HIDE DEF h, Then
    <2>6. h[0] = base
      BY <2>3, <2>4, <2>5
    <2>7. ASSUME NEW i \in 1 .. m PROVE h[i] = Then(i, h[i - 1])
      <3>1. h[i - 1] = g[i - 1]
        BY <2>3, <2>4
      <3>2. CASE i = m
        BY <2>3, <2>4, <3>1, <3>2
      <3>3. CASE i # m
        BY <2>3, <2>4, <2>5, <3>1, <3>3
      <3> QED
        BY <3>2, <3>3
    <2>8. RowRun(h, base, seq, keep, m)
      BY <2>6, <2>7 DEF RowRun, Then
    <2> QED
      BY <1>2, <2>8
  <1> QED
    BY <1>3, <1>4


\* Rows after rows.
LEMMA RowsAppended ==
  ASSUME NEW S, NEW s \in Seq(S), NEW t \in Seq(S), NEW base
  PROVE  FoldLeft(ApplyRow, base, s \o t) = FoldLeft(ApplyRow, FoldLeft(ApplyRow, base, s), t)
  <1> DEFINE m == Len(s)
             k == Len(t)
             q == s \o t
  <1>1. /\ m \in Nat /\ k \in Nat /\ m + k \in Nat
        /\ DOMAIN s = 1 .. m /\ DOMAIN t = 1 .. k
    OBVIOUS
  <1>2. /\ q \in Seq(S) /\ Len(q) = m + k
        /\ \A i \in 1 .. m + k : q[i] = IF i <= m THEN s[i] ELSE t[i - m]
    BY ConcatProperties
  <1>3. DOMAIN q = 1 .. m + k
    BY <1>2
  <1> HIDE DEF m, k, q
  <1>4. PICK at : RowRun(at, base, q, 1 .. m + k, m + k)
    BY <1>1, RowRunExists
  <1>5. at[0] = base /\ \A i \in 1 .. m + k : at[i] = ApplyRow(at[i - 1], q[i])
    BY <1>4 DEF RowRun
  <1>6. FoldLeft(ApplyRow, at[0], q) = at[m + k]
    BY <1>1, <1>3, <1>5, RowsApplied
  <1>7. FoldLeft(ApplyRow, at[0], s) = at[m]
    <2>1. \A i \in 1 .. m : i \in 1 .. m + k /\ i <= m
      BY <1>1
    <2>2. \A i \in 1 .. m : at[i] = ApplyRow(at[i - 1], s[i])
      BY <1>2, <1>5, <2>1
    <2> QED
      BY <1>1, <2>2, RowsApplied
  <1>8. FoldLeft(ApplyRow, at[m], t) = at[m + k]
    <2> DEFINE b == [i \in 0 .. k |-> at[m + i]]
    <2>1. \A i \in 1 .. k : /\ m + i \in 1 .. m + k /\ ~(m + i <= m) /\ (m + i) - m = i
                            /\ i \in 0 .. k /\ i - 1 \in 0 .. k /\ m + (i - 1) = (m + i) - 1
      BY <1>1
    <2>2. \A i \in 0 .. k : b[i] = at[m + i]
      OBVIOUS
    <2> HIDE DEF b
    <2>3. ASSUME NEW i \in 1 .. k PROVE b[i] = ApplyRow(b[i - 1], t[i])
      <3> DEFINE j == m + i
      <3>0. j \in 1 .. m + k /\ ~(j <= m) /\ j - m = i
        BY <2>1, Zenon
      <3> HIDE DEF j
      <3>1. q[m + i] = t[i]
        <4>1. q[j] = t[j - m]
          BY <1>2, <3>0, Zenon
        <4> QED
          BY <3>0, <4>1, Zenon DEF j
      <3>2. at[m + i] = ApplyRow(at[(m + i) - 1], q[m + i])
        <4>1. at[j] = ApplyRow(at[j - 1], q[j])
          BY <1>5, <3>0, Zenon
        <4> QED
          BY <4>1, Zenon DEF j
      <3> QED
        BY <2>1, <2>2, <3>1, <3>2
    <2>4. FoldLeft(ApplyRow, b[0], t) = b[k]
      BY <1>1, <2>3, RowsApplied
    <2>5. 0 \in 0 .. k /\ k \in 0 .. k /\ m + 0 = m
      BY <1>1
    <2>6. b[0] = at[m] /\ b[k] = at[m + k]
      BY <2>2, <2>5
    <2> QED
      BY <2>4, <2>6
  <1> QED
    BY <1>5, <1>6, <1>7, <1>8 DEF q

\* One sequence of rows after the other.
LEMMA RowsFlattened ==
  ASSUME NEW S, NEW n \in Nat \ {0}, NEW seqs \in [1 .. n -> Seq(S)], NEW at,
         \A i \in 1 .. n : FoldLeft(ApplyRow, at[i - 1], seqs[i]) = at[i]
  PROVE  FoldLeft(ApplyRow, at[0], FlattenSeq(seqs)) = at[n]
  <1>1. PICK G : Flattens(G, S, seqs, n)
    BY FlattenIs
  <1>2. /\ G \in [1 .. n -> Seq(S)] /\ G[1] = seqs[1]
        /\ \A i \in 2 .. n : G[i] = G[i - 1] \o seqs[i]
        /\ FlattenSeq(seqs) = G[n]
    BY <1>1 DEF Flattens
  <1> DEFINE T == {i \in 1 .. n : FoldLeft(ApplyRow, at[0], G[i]) # at[i]}
  <1>3. T = {}
    <2> SUFFICES ASSUME T # {} PROVE FALSE
      OBVIOUS
    <2>1. PICK i \in T : \A k \in T : i <= k
      <3>1. T \in SUBSET Nat
        OBVIOUS
      <3> HIDE DEF T
      <3> QED
        BY <3>1, LeastElement, Zenon
    <2>2. i # 1 /\ i \in 1 .. n
      <3>1. 1 - 1 = 0 /\ 1 \in 1 .. n
        OBVIOUS
      <3>2. FoldLeft(ApplyRow, at[0], G[1]) = at[1]
        BY <1>2, <3>1
      <3> QED
        BY <2>1, <3>2
    <2>3. i \in 2 .. n /\ i - 1 \in 1 .. n /\ i - 1 < i /\ i \in Nat
      BY <2>2
    <2>4. FoldLeft(ApplyRow, at[0], G[i - 1]) = at[i - 1]
      <3>1. i - 1 \notin T
        <4> HIDE DEF T
        <4> QED
          BY <2>1, <2>3
      <3> QED
        BY <2>3, <3>1
    <2>5. G[i - 1] \in Seq(S) /\ seqs[i] \in Seq(S) /\ G[i] = G[i - 1] \o seqs[i]
      BY <1>2, <2>3
    <2>6. FoldLeft(ApplyRow, at[0], G[i - 1] \o seqs[i])
            = FoldLeft(ApplyRow, FoldLeft(ApplyRow, at[0], G[i - 1]), seqs[i])
      BY <2>5, RowsAppended
    <2>7. FoldLeft(ApplyRow, at[0], G[i]) = at[i]
      BY <2>3, <2>4, <2>5, <2>6
    <2> QED
      BY <2>1, <2>7
  <1>4. n \in 1 .. n
    OBVIOUS
  <1> QED
    BY <1>2, <1>3, <1>4

-----------------------------------------------------------------------------
(* What a row does, whether it is possible or not *)

\* The object a row is about, once it is created or renamed.
RowSchema(r) == [id |-> r.object.id, name |-> r.object.name]
RowTable(r) == [id |-> r.object.id, schema |-> r.object.schema, name |-> r.object.name, columns |-> r.columns]
RowView(r) == [id |-> r.object.id, schema |-> r.object.schema, name |-> r.object.name]
RowChanged(r, x) == [x EXCEPT !.name = r.object.name, !.columns = ApplyDiffs(@, r.diffs)[2]]

\* The kinds of rows there are.
Known(r) ==
  \/ r.event \in {"created", "dropped"} /\ r.kind \in {"schema", "table", "view"}
  \/ r.event = "altered" /\ r.kind = "table"

\* What becomes of the objects of one kind.
Brought(S, r, x) == IF r.event = "created" THEN S \union {x} ELSE {y \in S : y.id # r.object.id}
SchemasBy(S, r) == IF r.kind = "schema" THEN Brought(S, r, RowSchema(r)) ELSE S
ViewsBy(V, r) == IF r.kind = "view" THEN Brought(V, r, RowView(r)) ELSE V
TablesBy(T, r) ==
  IF r.kind # "table" THEN T
  ELSE IF r.event # "altered" THEN Brought(T, r, RowTable(r))
  ELSE (T \ {y \in T : y.id = r.object.id}) \union {RowChanged(r, y) : y \in {z \in T : z.id = r.object.id}}

\* The catalog of these objects, when the row has been applied.
CatBy(S, T, V, r) == Cat(SchemasBy(S, r), TablesBy(T, r), ViewsBy(V, r))

\* Each kind of object is replaced by itself.
LEMMA CatExcept ==
  ASSUME NEW S, NEW T, NEW V, NEW X
  PROVE  /\ [Cat(S, T, V) EXCEPT !.schemas = X] = Cat(X, T, V)
         /\ [Cat(S, T, V) EXCEPT !.tables = X] = Cat(S, X, V)
         /\ [Cat(S, T, V) EXCEPT !.views = X] = Cat(S, T, X)
         /\ Cat(S, T, V).schemas = S /\ Cat(S, T, V).tables = T /\ Cat(S, T, V).views = V
  BY DEF Cat

\* A row brings about CatBy, and that is all it does.
LEMMA RowEffect ==
  ASSUME NEW S, NEW T, NEW V, NEW r, Known(r), NEW b
  PROVE  \E c : ApplyRow(<<b, Cat(S, T, V)>>, r) = <<c, CatBy(S, T, V, r)>>
  <1> DEFINE C == Cat(S, T, V)
             a == <<b, C>>
             x == CASE r.event = "created" -> ApplyCreated(a[2], r)
                    [] r.event = "dropped" -> ApplyDropped(a[2], r)
                    [] r.event = "altered" -> ApplyAltered(a[2], r)
  <1>1. ApplyRow(a, r) = <<a[1] /\ x[1], x[2]>>
    BY Zenon DEF ApplyRow
  <1>2. a[2] = C
    OBVIOUS
  <1>3. /\ \A X : [C EXCEPT !.schemas = X] = Cat(X, T, V)
        /\ \A X : [C EXCEPT !.tables = X] = Cat(S, X, V)
        /\ \A X : [C EXCEPT !.views = X] = Cat(S, T, X)
        /\ C.schemas = S /\ C.tables = T /\ C.views = V
    <2> DEFINE E(X) == /\ [C EXCEPT !.schemas = X] = Cat(X, T, V)
                       /\ [C EXCEPT !.tables = X] = Cat(S, X, V)
                       /\ [C EXCEPT !.views = X] = Cat(S, T, X)
                       /\ C.schemas = S /\ C.tables = T /\ C.views = V
    <2>1. ASSUME NEW X PROVE E(X)
      BY CatExcept
    <2>2. \A X : E(X)
      <3> HIDE DEF E
      <3> QED
        BY <2>1
    <2> QED
      BY <2>2, Zenon
  <1> HIDE DEF a, C
  <1>4. CASE r.event = "created"
    <2>1. x = ApplyCreated(C, r)
      BY <1>2, <1>4
    <2> HIDE DEF x
    <2>2. CASE r.kind = "schema"
      <3>1. CatBy(S, T, V, r) = Cat(S \union {RowSchema(r)}, T, V)
        BY <1>4, <2>2 DEF CatBy, SchemasBy, TablesBy, ViewsBy, Brought
      <3>2. x[2] = [C EXCEPT !.schemas = C.schemas \union {RowSchema(r)}]
        BY <2>1, <2>2 DEF ApplyCreated, RowSchema
      <3> QED
        BY <1>1, <1>3, <3>1, <3>2, Zenon DEF a, C
    <2>3. CASE r.kind = "table"
      <3>1. CatBy(S, T, V, r) = Cat(S, T \union {RowTable(r)}, V)
        BY <1>4, <2>3 DEF CatBy, SchemasBy, TablesBy, ViewsBy, Brought
      <3>2. x[2] = [C EXCEPT !.tables = C.tables \union {RowTable(r)}]
        BY <2>1, <2>3 DEF ApplyCreated, RowTable
      <3> QED
        BY <1>1, <1>3, <3>1, <3>2, Zenon DEF a, C
    <2>4. CASE r.kind = "view"
      <3>1. CatBy(S, T, V, r) = Cat(S, T, V \union {RowView(r)})
        BY <1>4, <2>4 DEF CatBy, SchemasBy, TablesBy, ViewsBy, Brought
      <3>2. x[2] = [C EXCEPT !.views = C.views \union {RowView(r)}]
        BY <2>1, <2>4 DEF ApplyCreated, RowView
      <3> QED
        BY <1>1, <1>3, <3>1, <3>2, Zenon DEF a, C
    <2> QED
      BY <1>4, <2>2, <2>3, <2>4 DEF Known
  <1>5. CASE r.event = "dropped"
    <2>1. x = ApplyDropped(C, r)
      BY <1>2, <1>5
    <2> DEFINE Rest(X) == {y \in X : y.id # r.object.id}
    <2>r. \A X : X \ Affected(X, r) = Rest(X)
      BY DEF Affected
    <2> HIDE DEF x
    <2>2. CASE r.kind = "schema"
      <3>1. CatBy(S, T, V, r) = Cat(Rest(S), T, V)
        BY <1>5, <2>2 DEF CatBy, SchemasBy, TablesBy, ViewsBy, Brought
      <3>2. x[2] = [C EXCEPT !.schemas = C.schemas \ Affected(C.schemas, r)]
        BY <2>1, <2>2 DEF ApplyDropped
      <3> HIDE DEF Rest
      <3> QED
        BY <1>1, <1>3, <2>r, <3>1, <3>2, Zenon DEF a, C
    <2>3. CASE r.kind = "table"
      <3>1. CatBy(S, T, V, r) = Cat(S, Rest(T), V)
        BY <1>5, <2>3 DEF CatBy, SchemasBy, TablesBy, ViewsBy, Brought
      <3>2. x[2] = [C EXCEPT !.tables = C.tables \ Affected(C.tables, r)]
        BY <2>1, <2>3 DEF ApplyDropped
      <3> HIDE DEF Rest
      <3> QED
        BY <1>1, <1>3, <2>r, <3>1, <3>2, Zenon DEF a, C
    <2>4. CASE r.kind = "view"
      <3>1. CatBy(S, T, V, r) = Cat(S, T, Rest(V))
        BY <1>5, <2>4 DEF CatBy, SchemasBy, TablesBy, ViewsBy, Brought
      <3>2. x[2] = [C EXCEPT !.views = C.views \ Affected(C.views, r)]
        BY <2>1, <2>4 DEF ApplyDropped
      <3> HIDE DEF Rest
      <3> QED
        BY <1>1, <1>3, <2>r, <3>1, <3>2, Zenon DEF a, C
    <2> QED
      BY <1>5, <2>2, <2>3, <2>4 DEF Known
  <1>6. CASE r.event = "altered"
    <2>1. x = ApplyAltered(C, r)
      BY <1>2, <1>6
    <2>2. r.kind = "table"
      BY <1>6 DEF Known
    <2> HIDE DEF x
    <2> DEFINE X == (T \ {y \in T : y.id = r.object.id})
                       \union {RowChanged(r, y) : y \in {z \in T : z.id = r.object.id}}
    <2>3. CatBy(S, T, V, r) = Cat(S, X, V)
      BY <1>6, <2>2 DEF CatBy, SchemasBy, TablesBy, ViewsBy
    <2>4. x[2] = [C EXCEPT !.tables = (C.tables \ Affected(C.tables, r))
                                        \union {RowChanged(r, y) : y \in Affected(C.tables, r)}]
      <3> DEFINE fits == \E y \in Affected(C.tables, r) :
                           /\ y.name = IF r.was = Null THEN r.object.name ELSE r.was
                           /\ ApplyDiffs(y.columns, r.diffs)[1]
                 after == [C EXCEPT !.tables = (@ \ Affected(C.tables, r))
                                        \union {RowChanged(r, y) : y \in Affected(C.tables, r)}]
      <3>1. ApplyAltered(C, r) = <<fits, after>>
        BY Zenon DEF ApplyAltered, RowChanged
      <3> HIDE DEF fits, after
      <3>2. x[2] = after
        BY <2>1, <3>1
      <3> QED
        BY <3>2, Zenon DEF after
    <2>5. (T \ Affected(T, r)) \union {RowChanged(r, y) : y \in Affected(T, r)} = X
      BY Zenon DEF Affected
    <2> HIDE DEF X
    <2> QED
      BY <1>1, <1>3, <2>3, <2>4, <2>5, Zenon DEF a, C
  <1> QED
    BY <1>4, <1>5, <1>6 DEF Known

\* The part of a catalog a subscription is about, kind by kind.
MySchemas(S, sub) == IF sub.scope = "schema" THEN {x \in S : x.id = sub.schema} ELSE {}
MyTables(T, sub) == IF sub.scope = "schema" THEN {x \in T : x.schema = sub.schema} ELSE {x \in T : x.id = sub.table}
MyViews(V, sub) == IF sub.scope = "schema" THEN {x \in V : x.schema = sub.schema} ELSE {}

\* Part is these.
LEMMA PartIs ==
  ASSUME NEW S, NEW T, NEW V, NEW sub, sub.scope \in {"schema", "table"}
  PROVE  Part(Cat(S, T, V), sub) = Cat(MySchemas(S, sub), MyTables(T, sub), MyViews(V, sub))
  <1> DEFINE C == Cat(S, T, V)
  <1>1. C.schemas = S /\ C.tables = T /\ C.views = V
    BY CatExcept
  <1> HIDE DEF C
  <1>2. CASE sub.scope = "schema"
    BY <1>1, <1>2 DEF Part, Cat, MySchemas, MyTables, MyViews, C
  <1>3. CASE sub.scope = "table"
    BY <1>1, <1>3 DEF Part, Cat, MySchemas, MyTables, MyViews, C
  <1> QED
    BY <1>2, <1>3

\* What a row is about is in the schema it names.
Placed(T, V, r) ==
  /\ r.kind = "schema" => r.object.schema = r.object.id
  /\ r.kind = "table" /\ r.event # "created" =>
       \A y \in T : y.id = r.object.id => y.schema = r.object.schema
  /\ r.kind = "view" /\ r.event # "created" =>
       \A y \in V : y.id = r.object.id => y.schema = r.object.schema
  /\ \A y \in T : y = [id |-> y.id, schema |-> y.schema, name |-> y.name, columns |-> y.columns]

\* What a row does to the schemas of a catalog it does to those of the part.
LEMMA SchemasPart ==
  ASSUME NEW S, NEW T, NEW V, NEW r, Known(r), Placed(T, V, r),
         NEW sub, sub.scope \in {"schema", "table"}
  PROVE  MySchemas(SchemasBy(S, r), sub) = IF Covers(sub, r) THEN SchemasBy(MySchemas(S, sub), r)
                                           ELSE MySchemas(S, sub)
  <1>1. RowSchema(r).id = r.object.id
    BY DEF RowSchema
  <1>2. CASE sub.scope = "schema"
    <2>1. Covers(sub, r) <=> r.object.schema = sub.schema
      BY <1>2 DEF Covers
    <2>2. r.kind = "schema" => (Covers(sub, r) <=> r.object.id = sub.schema)
      BY <2>1 DEF Placed
    <2> QED
      BY <1>1, <1>2, <2>2 DEF MySchemas, SchemasBy, Brought
  <1>3. CASE sub.scope = "table"
    <2>1. Covers(sub, r) => r.kind = "table"
      BY <1>3 DEF Covers
    <2> QED
      BY <1>3, <2>1 DEF MySchemas, SchemasBy
  <1> QED
    BY <1>2, <1>3

\* The same of the views.
LEMMA ViewsPart ==
  ASSUME NEW T, NEW V, NEW r, Known(r), Placed(T, V, r),
         NEW sub, sub.scope \in {"schema", "table"}
  PROVE  MyViews(ViewsBy(V, r), sub) = IF Covers(sub, r) THEN ViewsBy(MyViews(V, sub), r)
                                       ELSE MyViews(V, sub)
  <1>1. RowView(r).schema = r.object.schema
    BY DEF RowView
  <1>2. CASE sub.scope = "schema"
    <2>1. Covers(sub, r) <=> r.object.schema = sub.schema
      BY <1>2 DEF Covers
    <2>2. r.kind = "view" /\ r.event # "created" => \A y \in V : y.id = r.object.id => y.schema = r.object.schema
      BY DEF Placed
    <2> QED
      BY <1>1, <1>2, <2>1, <2>2 DEF MyViews, ViewsBy, Brought
  <1>3. CASE sub.scope = "table"
    <2>1. Covers(sub, r) => r.kind = "table"
      BY <1>3 DEF Covers
    <2> QED
      BY <1>3, <2>1 DEF MyViews, ViewsBy
  <1> QED
    BY <1>2, <1>3

\* The same of the tables.
LEMMA TablesPart ==
  ASSUME NEW T, NEW V, NEW r, Known(r), Placed(T, V, r),
         NEW sub, sub.scope \in {"schema", "table"}
  PROVE  MyTables(TablesBy(T, r), sub) = IF Covers(sub, r) THEN TablesBy(MyTables(T, sub), r)
                                         ELSE MyTables(T, sub)
  <1> DEFINE i == r.object.id
             Mine(x) == IF sub.scope = "schema" THEN x.schema = sub.schema ELSE x.id = sub.table
  <1>1. RowTable(r).schema = r.object.schema /\ RowTable(r).id = i
    BY DEF RowTable
  <1>2. \A y \in T : RowChanged(r, y).schema = y.schema /\ RowChanged(r, y).id = y.id
    <2> SUFFICES ASSUME NEW y \in T
                 PROVE  RowChanged(r, y).schema = y.schema /\ RowChanged(r, y).id = y.id
      OBVIOUS
    <2>1. y = [id |-> y.id, schema |-> y.schema, name |-> y.name, columns |-> y.columns]
      BY DEF Placed
    <2> DEFINE c == ApplyDiffs(y.columns, r.diffs)[2]
    <2>2. RowChanged(r, y) = [y EXCEPT !.name = r.object.name, !.columns = c]
      BY Zenon DEF RowChanged
    <2> HIDE DEF c
    <2> QED
      BY <2>1, <2>2
  <1>3. \A X : MyTables(X, sub) = {x \in X : Mine(x)}
    BY DEF MyTables
  <1>4. r.kind = "table" => (Covers(sub, r) <=> Mine(RowTable(r)))
    BY <1>1 DEF Covers
  <1>5. r.kind = "table" /\ r.event # "created" => \A y \in T : y.id = i => (Mine(y) <=> Covers(sub, r))
    BY <1>1, <1>4 DEF Placed
  <1>6. \A y \in T : Mine(RowChanged(r, y)) <=> Mine(y)
    BY <1>2
  <1> HIDE DEF Mine, i
  <1>7. CASE r.kind # "table"
    BY <1>3, <1>7 DEF TablesBy
  <1>8. CASE r.kind = "table" /\ r.event = "created"
    BY <1>3, <1>4, <1>8 DEF TablesBy, Brought
  <1>9. CASE r.kind = "table" /\ r.event = "dropped"
    BY <1>3, <1>5, <1>9 DEF TablesBy, Brought, i
  <1>10. CASE r.kind = "table" /\ r.event = "altered"
    <2> DEFINE Old(X) == {y \in X : y.id = i}
               New1(X) == {RowChanged(r, y) : y \in Old(X)}
    <2>1. \A X : TablesBy(X, r) = (X \ Old(X)) \union New1(X)
      BY <1>10 DEF TablesBy, i
    <2>2. CASE Covers(sub, r)
      <3>1. \A y \in Old(T) : Mine(y) /\ Mine(RowChanged(r, y))
        BY <1>5, <1>6, <1>10, <2>2
      <3>2. Old({x \in T : Mine(x)}) = Old(T)
        BY <3>1
      <3> HIDE DEF Old
      <3>3. {x \in (T \ Old(T)) \union New1(T) : Mine(x)} = ({x \in T : Mine(x)} \ Old(T)) \union New1(T)
        BY <3>1
      <3> HIDE DEF New1
      <3>4. New1({x \in T : Mine(x)}) = New1(T)
        BY <3>2 DEF New1
      <3> QED
        BY <1>3, <2>1, <2>2, <3>2, <3>3, <3>4
    <2>3. CASE ~Covers(sub, r)
      <3>1. \A y \in Old(T) : ~Mine(y) /\ ~Mine(RowChanged(r, y))
        BY <1>5, <1>6, <1>10, <2>3
      <3> HIDE DEF Old
      <3>2. {x \in (T \ Old(T)) \union New1(T) : Mine(x)} = {x \in T : Mine(x)}
        BY <3>1
      <3> QED
        BY <1>3, <2>1, <2>3, <3>2
    <2> QED
      BY <2>2, <2>3
  <1> QED
    BY <1>7, <1>8, <1>9, <1>10 DEF Known

\* What a row that a subscription covers does to the catalog it does to the part
\* the subscription is about; another row leaves that part alone.
Tracks(C, r, D, sub) ==
  IF Covers(sub, r)
  THEN \A b : \E c : ApplyRow(<<b, Part(C, sub)>>, r) = <<c, Part(D, sub)>>
  ELSE Part(D, sub) = Part(C, sub)

\* So it is, for a row of a known kind that is about a placed object.
LEMMA PartTracks ==
  ASSUME NEW S, NEW T, NEW V, NEW r, Known(r), Placed(T, V, r),
         NEW sub, sub.scope \in {"schema", "table"}
  PROVE  Tracks(Cat(S, T, V), r, CatBy(S, T, V, r), sub)
  <1>1. Part(Cat(S, T, V), sub) = Cat(MySchemas(S, sub), MyTables(T, sub), MyViews(V, sub))
    BY PartIs
  <1>2. Part(CatBy(S, T, V, r), sub) = Cat(MySchemas(SchemasBy(S, r), sub), MyTables(TablesBy(T, r), sub),
                                           MyViews(ViewsBy(V, r), sub))
    BY PartIs DEF CatBy
  <1>3. CASE Covers(sub, r)
    <2>1. Part(CatBy(S, T, V, r), sub) = CatBy(MySchemas(S, sub), MyTables(T, sub), MyViews(V, sub), r)
      BY <1>2, <1>3, SchemasPart, TablesPart, ViewsPart DEF CatBy
    <2>2. ASSUME NEW b
          PROVE  \E c : ApplyRow(<<b, Part(Cat(S, T, V), sub)>>, r) = <<c, Part(CatBy(S, T, V, r), sub)>>
      <3>1. \E c : ApplyRow(<<b, Cat(MySchemas(S, sub), MyTables(T, sub), MyViews(V, sub))>>, r)
                     = <<c, CatBy(MySchemas(S, sub), MyTables(T, sub), MyViews(V, sub), r)>>
        BY RowEffect
      <3> QED
        BY <1>1, <2>1, <3>1, Zenon
    <2> QED
      BY <1>3, <2>2, Zenon DEF Tracks
  <1>4. CASE ~Covers(sub, r)
    <2>1. Part(CatBy(S, T, V, r), sub) = Part(Cat(S, T, V), sub)
      BY <1>1, <1>2, <1>4, SchemasPart, TablesPart, ViewsPart
    <2> QED
      BY <1>4, <2>1, Zenon DEF Tracks
  <1> QED
    BY <1>3, <1>4

\* Every row of a snapshot is such a row when its turn comes.
LEMMA RowTracks ==
  ASSUME NEW A, NEW B, NEW s, NEW rows, Leads(A, B), Rows(A, B, s, rows),
         NEW P, NEW r, Due(rows, RowOrder(rows), P, r),
         NEW sub, sub.scope \in {"schema", "table"}
  PROVE  Tracks(Between(A, B, P), r, Between(A, B, P \union {r}), sub)
  <1> DEFINE S == Partly(A.schemas, B.schemas, P, "schema")
             T == Partly(A.tables, B.tables, P, "table")
             V == Partly(A.views, B.views, P, "view")
             D == Between(A, B, P \union {r})
  <1>1. r \in rows
    BY DEF Due
  <1>2. /\ Known(r)
        /\ r.kind = "schema" => r.object.schema = r.object.id
        /\ r.kind = "table" /\ r.event # "created" =>
             \E x \in A.tables \union B.tables : x.id = r.object.id /\ x.schema = r.object.schema
        /\ r.kind = "view" /\ r.event # "created" =>
             \E x \in A.views \union B.views : x.id = r.object.id /\ x.schema = r.object.schema
    BY <1>1 DEF Rows, Concerns, Known, New
  <1>3. /\ T \subseteq A.tables \union B.tables
        /\ V \subseteq A.views \union B.views
    BY DEF Partly
  <1>4. /\ \A x, y \in A.tables \union B.tables : x.id = y.id => x.schema = y.schema
        /\ \A x, y \in A.views \union B.views : x.id = y.id => x.schema = y.schema
        /\ \A y \in A.tables \union B.tables :
             y = [id |-> y.id, schema |-> y.schema, name |-> y.name, columns |-> y.columns]
    BY DEF Leads, Sound
  <1>5. Between(A, B, P) = Cat(S, T, V)
    BY Zenon DEF Between
  <1> HIDE DEF S, T, V, D
  <1>6. Placed(T, V, r)
    BY <1>2, <1>3, <1>4 DEF Placed
  <1>7. D = CatBy(S, T, V, r)
    <2>1. ApplyRow(<<TRUE, Cat(S, T, V)>>, r) = <<TRUE, D>>
      <3>1. Advances(A, B, P, r)
        BY RowStep
      <3> QED
        BY <1>5, <3>1, Zenon DEF Advances, D
    <2>2. PICK c : ApplyRow(<<TRUE, Cat(S, T, V)>>, r) = <<c, CatBy(S, T, V, r)>>
      BY <1>2, RowEffect
    <2>3. <<TRUE, D>> = <<c, CatBy(S, T, V, r)>>
      BY <2>1, <2>2, Zenon
    <2> QED
      BY <2>3
  <1>8. Tracks(Cat(S, T, V), r, CatBy(S, T, V, r), sub)
    BY <1>2, <1>6, PartTracks
  <1> QED
    BY <1>5, <1>7, <1>8, Zenon DEF D

\* The rows of seq lead the part of sub from X to Y.
Leading(C, X, seq, Y, sub) ==
  /\ C[0] = X /\ C[Len(seq)] = Y
  /\ \A i \in 1 .. Len(seq) : Tracks(C[i - 1], seq[i], C[i], sub)
LeadsPart(X, seq, Y, sub) == \E C : Leading(C, X, seq, Y, sub)

\* The rows of a snapshot, in the order of SortDdlRows, lead from A to B.
LEMMA SnapshotLeadsPart ==
  ASSUME NEW A, NEW B, NEW s, NEW rows, Leads(A, B), Rows(A, B, s, rows),
         NEW sub, sub.scope \in {"schema", "table"}
  PROVE  SortDdlRows(rows) \in Seq(rows) /\ LeadsPart(A, SortDdlRows(rows), B, sub)
  <1> DEFINE q == SortDdlRows(rows)
             n == Len(q)
             C == [i \in 0 .. n |-> Between(A, B, Prefix(q, i))]
  <1>1. Lists(q, rows, RowOrder(rows))
    BY RowsListed
  <1> HIDE DEF q
  <1>2. n \in Nat /\ q \in Seq(rows)
    BY <1>1 DEF Lists
  <1>3. /\ Prefix(q, 0) = {} /\ Prefix(q, n) = rows
        /\ \A i \in 1 .. n : /\ Due(rows, RowOrder(rows), Prefix(q, i - 1), q[i])
                             /\ Prefix(q, i) = Prefix(q, i - 1) \union {q[i]}
    BY <1>1, PrefixIs
  <1>4. \A i \in 0 .. n : C[i] = Between(A, B, Prefix(q, i))
    OBVIOUS
  <1>5. 0 \in 0 .. n /\ n \in 0 .. n /\ \A i \in 1 .. n : i \in 0 .. n /\ i - 1 \in 0 .. n
    BY <1>2
  <1> HIDE DEF C, n
  <1>6. ASSUME NEW i \in 1 .. n PROVE Tracks(C[i - 1], q[i], C[i], sub)
    <2>1. Due(rows, RowOrder(rows), Prefix(q, i - 1), q[i])
      BY <1>3
    <2>2. Tracks(Between(A, B, Prefix(q, i - 1)), q[i], Between(A, B, Prefix(q, i - 1) \union {q[i]}), sub)
      BY <2>1, RowTracks
    <2>3. Prefix(q, i) = Prefix(q, i - 1) \union {q[i]}
      BY <1>3
    <2>4. /\ C[i - 1] = Between(A, B, Prefix(q, i - 1))
          /\ C[i] = Between(A, B, Prefix(q, i))
      BY <1>4, <1>5
    <2> QED
      BY <2>2, <2>3, <2>4, Zenon
  <1>7. C[0] = A
    <2>1. Between(A, B, {}) = A
      BY BetweenStarts DEF Leads
    <2> QED
      BY <1>3, <1>4, <1>5, <2>1, Zenon
  <1>8. C[n] = B
    <2>1. Between(A, B, rows) = B
      BY BetweenEnds
    <2> QED
      BY <1>3, <1>4, <1>5, <2>1, Zenon
  <1>9. LeadsPart(A, q, B, sub)
    BY <1>6, <1>7, <1>8, Zenon DEF LeadsPart, Leading, n
  <1> QED
    BY <1>2, <1>9 DEF q

\* Rows after rows.
LEMMA LeadsPartAppended ==
  ASSUME NEW S, NEW s \in Seq(S), NEW t \in Seq(S), NEW X, NEW Y, NEW Z, NEW sub,
         LeadsPart(X, s, Y, sub), LeadsPart(Y, t, Z, sub)
  PROVE  LeadsPart(X, s \o t, Z, sub)
  <1> DEFINE m == Len(s)
             k == Len(t)
             q == s \o t
  <1>1. m \in Nat /\ k \in Nat /\ m + k \in Nat
    OBVIOUS
  <1>2. /\ Len(q) = m + k
        /\ \A i \in 1 .. m + k : q[i] = IF i <= m THEN s[i] ELSE t[i - m]
    BY ConcatProperties
  <1>3. PICK C : Leading(C, X, s, Y, sub)
    BY DEF LeadsPart
  <1>4. PICK D : Leading(D, Y, t, Z, sub)
    BY DEF LeadsPart
  <1>5. C[0] = X /\ C[m] = Y /\ \A i \in 1 .. m : Tracks(C[i - 1], s[i], C[i], sub)
    BY <1>3 DEF Leading
  <1>6. D[0] = Y /\ D[k] = Z /\ \A i \in 1 .. k : Tracks(D[i - 1], t[i], D[i], sub)
    BY <1>4 DEF Leading
  <1> HIDE DEF m, k, q
  <1> DEFINE E == [i \in 0 .. m + k |-> IF i <= m THEN C[i] ELSE D[i - m]]
  <1>7. \A i \in 0 .. m + k : E[i] = IF i <= m THEN C[i] ELSE D[i - m]
    OBVIOUS
  <1> HIDE DEF E
  <1>8. E[0] = X
    BY <1>1, <1>5, <1>7
  <1>9. E[m + k] = Z
    <2>1. m + k \in 0 .. m + k /\ (m + k) - m = k /\ (m + k <= m => k = 0 /\ m + k = m)
      BY <1>1
    <2> QED
      BY <1>5, <1>6, <1>7, <2>1
  <1>10. ASSUME NEW i \in 1 .. m + k PROVE Tracks(E[i - 1], q[i], E[i], sub)
    <2>1. CASE i <= m
      <3>1. i \in 1 .. m /\ i \in 0 .. m + k /\ i - 1 \in 0 .. m + k /\ i - 1 <= m
        BY <1>1, <2>1
      <3>2. E[i - 1] = C[i - 1] /\ E[i] = C[i] /\ q[i] = s[i]
        BY <1>2, <1>7, <2>1, <3>1
      <3> QED
        BY <1>5, <3>1, <3>2
    <2>2. CASE ~(i <= m)
      <3> DEFINE j == i - m
      <3>1. /\ j \in 1 .. k /\ i \in 0 .. m + k /\ i - 1 \in 0 .. m + k
            /\ (i - 1 <= m => j - 1 = 0 /\ i - 1 = m) /\ (i - 1) - m = j - 1
        BY <1>1, <2>2
      <3>2. E[i] = D[j] /\ q[i] = t[j]
        BY <1>2, <1>7, <2>2, <3>1
      <3> HIDE DEF j
      <3>3. E[i - 1] = D[j - 1]
        <4>1. CASE i - 1 <= m
          BY <1>5, <1>6, <1>7, <3>1, <4>1
        <4>2. CASE ~(i - 1 <= m)
          BY <1>7, <3>1, <4>2
        <4> QED
          BY <4>1, <4>2
      <3> QED
        BY <1>6, <3>1, <3>2, <3>3
    <2> QED
      BY <2>1, <2>2
  <1>11. Leading(E, X, q, Z, sub)
    BY <1>2, <1>8, <1>9, <1>10 DEF Leading
  <1> QED
    BY <1>11 DEF LeadsPart, q

\* The rows of one snapshot after those of the other.
LEMMA LeadsPartFlattened ==
  ASSUME NEW S, NEW n \in Nat \ {0}, NEW seqs \in [1 .. n -> Seq(S)], NEW at, NEW sub,
         \A i \in 1 .. n : LeadsPart(at[i - 1], seqs[i], at[i], sub)
  PROVE  FlattenSeq(seqs) \in Seq(S) /\ LeadsPart(at[0], FlattenSeq(seqs), at[n], sub)
  <1>1. PICK G : Flattens(G, S, seqs, n)
    BY FlattenIs
  <1>2. /\ G \in [1 .. n -> Seq(S)] /\ G[1] = seqs[1]
        /\ \A i \in 2 .. n : G[i] = G[i - 1] \o seqs[i]
        /\ FlattenSeq(seqs) = G[n]
    BY <1>1 DEF Flattens
  <1> DEFINE T == {i \in 1 .. n : ~LeadsPart(at[0], G[i], at[i], sub)}
  <1>3. T = {}
    <2> SUFFICES ASSUME T # {} PROVE FALSE
      OBVIOUS
    <2>1. PICK i \in T : \A k \in T : i <= k
      <3>1. T \in SUBSET Nat
        OBVIOUS
      <3> HIDE DEF T
      <3> QED
        BY <3>1, LeastElement, Zenon
    <2>2. i # 1 /\ i \in 1 .. n
      <3>1. 1 - 1 = 0 /\ 1 \in 1 .. n
        OBVIOUS
      <3>2. LeadsPart(at[0], G[1], at[1], sub)
        BY <1>2, <3>1
      <3> QED
        BY <2>1, <3>2
    <2>3. i \in 2 .. n /\ i - 1 \in 1 .. n /\ i - 1 < i /\ i \in Nat
      BY <2>2
    <2>4. LeadsPart(at[0], G[i - 1], at[i - 1], sub)
      <3>1. i - 1 \notin T
        <4> HIDE DEF T
        <4> QED
          BY <2>1, <2>3
      <3> QED
        BY <2>3, <3>1
    <2>5. G[i - 1] \in Seq(S) /\ seqs[i] \in Seq(S) /\ G[i] = G[i - 1] \o seqs[i]
      BY <1>2, <2>3
    <2>6. LeadsPart(at[i - 1], seqs[i], at[i], sub)
      BY <2>2
    <2>7. LeadsPart(at[0], G[i - 1] \o seqs[i], at[i], sub)
      BY <2>4, <2>5, <2>6, LeadsPartAppended
    <2>8. LeadsPart(at[0], G[i], at[i], sub)
      BY <2>5, <2>7
    <2> QED
      BY <2>1, <2>8
  <1>4. n \in 1 .. n
    OBVIOUS
  <1> QED
    BY <1>2, <1>3, <1>4

\* The rows that a subscription covers lead from its part of X to that of Y.
LEMMA CoveredReplay ==
  ASSUME NEW S, NEW rows \in Seq(S), NEW X, NEW Y, NEW sub, LeadsPart(X, rows, Y, sub)
  PROVE  Replay(Part(X, sub), ApplyDdlSubscriptionFilter(rows, {sub}))[2] = Part(Y, sub)
  <1> DEFINE n == Len(rows)
             base == <<TRUE, Part(X, sub)>>
             covered == {i \in 1 .. n : Covers(sub, rows[i])}
             kept == [i \in 1 .. n |-> IF Covers(sub, rows[i]) THEN <<rows[i]>> ELSE <<>>]
  <1>1. n \in Nat /\ DOMAIN rows = 1 .. n /\ \A i \in 1 .. n : rows[i] \in S
    OBVIOUS
  <1>2. ApplyDdlSubscriptionFilter(rows, {sub}) = FlattenSeq(kept)
    <2> DEFINE keep(r) == \E u \in {sub} : Covers(u, r)
    <2>1. ApplyDdlSubscriptionFilter(rows, {sub})
            = FlattenSeq([i \in DOMAIN rows |-> IF keep(rows[i]) THEN <<rows[i]>> ELSE <<>>])
      BY Zenon DEF ApplyDdlSubscriptionFilter, RowsWhere
    <2>2. \A r : keep(r) <=> Covers(sub, r)
      OBVIOUS
    <2> HIDE DEF keep, n
    <2>3. [i \in DOMAIN rows |-> IF keep(rows[i]) THEN <<rows[i]>> ELSE <<>>] = kept
      BY <1>1, <2>2
    <2> QED
      BY <2>1, <2>3, Zenon
  <1>3. PICK C : Leading(C, X, rows, Y, sub)
    BY DEF LeadsPart
  <1>4. C[0] = X /\ C[n] = Y /\ \A i \in 1 .. n : Tracks(C[i - 1], rows[i], C[i], sub)
    BY <1>3 DEF Leading
  <1> HIDE DEF n
  <1>5. /\ \A i \in 1 .. n : kept[i] = IF Covers(sub, rows[i]) THEN <<rows[i]>> ELSE <<>>
        /\ DOMAIN kept = 1 .. n /\ kept = [i \in 1 .. n |-> kept[i]]
    OBVIOUS
  <1>6. PICK at : RowRun(at, base, rows, covered, n)
    BY <1>1, RowRunExists
  <1>7. /\ at[0] = base
        /\ \A i \in 1 .. n : at[i] = IF Covers(sub, rows[i]) THEN ApplyRow(at[i - 1], rows[i]) ELSE at[i - 1]
    BY <1>6 DEF RowRun
  <1> HIDE DEF covered, kept, base
  <1> DEFINE Right(i) == \E b : at[i] = <<b, Part(C[i], sub)>>
             T == {i \in 0 .. n : ~Right(i)}
  <1>8. T = {}
    <2> SUFFICES ASSUME T # {} PROVE FALSE
      OBVIOUS
    <2>1. PICK i \in T : \A k \in T : i <= k
      <3>1. T \in SUBSET Nat
        OBVIOUS
      <3> HIDE DEF T
      <3> QED
        BY <3>1, LeastElement, Zenon
    <2>2. Right(0)
      BY <1>4, <1>7 DEF base
    <2> HIDE DEF Right
    <2>3. i \in 1 .. n /\ i - 1 \in 0 .. n /\ i - 1 < i
      BY <1>1, <2>1, <2>2
    <2>4. Right(i - 1)
      BY <2>1, <2>3
    <2>5. PICK b : at[i - 1] = <<b, Part(C[i - 1], sub)>>
      BY <2>4 DEF Right
    <2>6. Tracks(C[i - 1], rows[i], C[i], sub)
      BY <1>4, <2>3
    <2>7. CASE Covers(sub, rows[i])
      <3>1. PICK c : ApplyRow(<<b, Part(C[i - 1], sub)>>, rows[i]) = <<c, Part(C[i], sub)>>
        BY <2>6, <2>7, Zenon DEF Tracks
      <3>2. at[i] = ApplyRow(at[i - 1], rows[i])
        BY <1>7, <2>3, <2>7
      <3>3. Right(i)
        BY <2>5, <3>1, <3>2, Zenon DEF Right
      <3> QED
        BY <2>1, <3>3
    <2>8. CASE ~Covers(sub, rows[i])
      <3>1. Part(C[i], sub) = Part(C[i - 1], sub)
        BY <2>6, <2>8, Zenon DEF Tracks
      <3>2. at[i] = at[i - 1]
        BY <1>7, <2>3, <2>8
      <3>3. Right(i)
        BY <2>5, <3>1, <3>2, Zenon DEF Right
      <3> QED
        BY <2>1, <3>3
    <2> QED
      BY <2>7, <2>8
  <1>9. at[n][2] = Part(Y, sub)
    <2>1. Right(n)
      BY <1>1, <1>8
    <2> QED
      BY <1>4, <2>1
  <1>10. FoldLeft(ApplyRow, base, FlattenSeq(kept)) = at[n]
    <2>1. CASE n = 0
      <3>1. kept = <<>>
        BY <1>5, <2>1
      <3>2. FlattenSeq(<<>>) = <<>>
        BY DEF FlattenSeq
      <3> DEFINE seq == <<>>
      <3>3. DOMAIN seq = 1 .. 0 /\ 0 \in Nat /\ \A i \in 1 .. 0 : at[i] = ApplyRow(at[i - 1], seq[i])
        OBVIOUS
      <3> HIDE DEF seq
      <3>4. FoldLeft(ApplyRow, at[0], seq) = at[0]
        BY <3>3, RowsApplied
      <3> QED
        BY <1>7, <2>1, <3>1, <3>2, <3>4, Zenon DEF seq
    <2>2. CASE n # 0
      <3>1. n \in Nat \ {0}
        BY <1>1, <2>2
      <3>2. kept \in [1 .. n -> Seq(S)]
        <4>1. ASSUME NEW i \in 1 .. n PROVE kept[i] \in Seq(S)
          <5>1. rows[i] \in S
            BY <1>1
          <5>2. <<rows[i]>> \in Seq(S)
            BY <5>1
          <5>3. <<>> \in Seq(S)
            OBVIOUS
          <5>4. kept[i] = <<rows[i]>> \/ kept[i] = <<>>
            BY <1>5, Zenon
          <5> QED
            BY <5>2, <5>3, <5>4, Zenon
        <4> QED
          BY <1>5, <4>1
      <3>3. ASSUME NEW i \in 1 .. n PROVE FoldLeft(ApplyRow, at[i - 1], kept[i]) = at[i]
        <4>1. CASE Covers(sub, rows[i])
          <5> DEFINE seq == <<rows[i]>>
                     f == [j \in 0 .. 1 |-> IF j = 0 THEN at[i - 1] ELSE ApplyRow(at[i - 1], rows[i])]
          <5>1. DOMAIN seq = 1 .. 1 /\ 1 \in Nat /\ seq[1] = rows[i]
            OBVIOUS
          <5>2. f[0] = at[i - 1] /\ f[1] = ApplyRow(at[i - 1], rows[i])
            OBVIOUS
          <5> HIDE DEF f, seq
          <5>3. \A j \in 1 .. 1 : f[j] = ApplyRow(f[j - 1], seq[j])
            BY <5>1, <5>2
          <5>4. FoldLeft(ApplyRow, f[0], seq) = f[1]
            BY <5>1, <5>3, RowsApplied
          <5>5. kept[i] = seq
            BY <1>5, <4>1 DEF seq
          <5>6. at[i] = ApplyRow(at[i - 1], rows[i])
            BY <1>7, <4>1
          <5> QED
            BY <5>2, <5>4, <5>5, <5>6, Zenon
        <4>2. CASE ~Covers(sub, rows[i])
          <5> DEFINE seq == <<>>
                     f == [j \in 0 .. 0 |-> at[i - 1]]
          <5>1. DOMAIN seq = 1 .. 0 /\ 0 \in Nat
            OBVIOUS
          <5>2. f[0] = at[i - 1]
            OBVIOUS
          <5>3. \A j \in 1 .. 0 : f[j] = ApplyRow(f[j - 1], seq[j])
            OBVIOUS
          <5> HIDE DEF f, seq
          <5>4. FoldLeft(ApplyRow, f[0], seq) = f[0]
            BY <5>1, <5>3, RowsApplied
          <5>5. kept[i] = seq
            BY <1>5, <4>2 DEF seq
          <5>6. at[i] = at[i - 1]
            BY <1>7, <4>2
          <5> QED
            BY <5>2, <5>4, <5>5, <5>6, Zenon
        <4> QED
          BY <4>1, <4>2
      <3>4. FoldLeft(ApplyRow, at[0], FlattenSeq(kept)) = at[n]
        BY <3>1, <3>2, <3>3, RowsFlattened
      <3> QED
        BY <1>7, <3>4
    <2> QED
      BY <2>1, <2>2
  <1> QED
    BY <1>2, <1>9, <1>10, Zenon DEF Replay, base

\* All rows since a snapshot.
LEMMA RangeLeads ==
  ASSUME CatalogInv, ProperInv, NEW from \in 0 .. now - 1,
         NEW sub, sub.scope \in {"schema", "table"}
  PROVE  \E S : /\ ExtractDdlRows(from + 1, now) \in Seq(S)
                /\ LeadsPart(history[from], ExtractDdlRows(from + 1, now), history[now], sub)
  <1> DEFINE n == now - from
             f(i) == SortDdlRows(RowsOf(from + i))
             seqs == [i \in 1 .. n |-> f(i)]
             S == UNION {RowsOf(from + i) : i \in 1 .. n}
             at == [i \in 0 .. n |-> history[from + i]]
  <1>0. now \in Nat /\ from \in Nat /\ n \in Nat \ {0}
    BY DEF CatalogInv, SoundInv
  <1>1. ExtractDdlRows(from + 1, now) = FlattenSeq(seqs)
    <2> DEFINE g(i) == SortDdlRows(RowsOf(from + 1 + i - 1))
    <2>1. ExtractDdlRows(from + 1, now) = FlattenSeq([i \in 1 .. now - (from + 1) + 1 |-> g(i)])
      BY Zenon DEF ExtractDdlRows
    <2>2. now - (from + 1) + 1 = n
      BY <1>0
    <2>3. ASSUME NEW i \in 1 .. n PROVE g(i) = f(i)
      <3>1. from + 1 + i - 1 = from + i
        BY <1>0
      <3> QED
        BY <3>1
    <2> HIDE DEF f, g, n
    <2>4. [i \in 1 .. n |-> g(i)] = [i \in 1 .. n |-> f(i)]
      BY <2>3
    <2> QED
      BY <2>1, <2>2, <2>4, Zenon
  <1>2. \A i \in 0 .. n : at[i] = history[from + i]
    OBVIOUS
  <1>3. \A i \in 1 .. n : seqs[i] = SortDdlRows(RowsOf(from + i))
    OBVIOUS
  <1>4. seqs = [i \in 1 .. n |-> seqs[i]]
    OBVIOUS
  <1>5. \A i \in 1 .. n : RowsOf(from + i) \subseteq S
    OBVIOUS
  <1>6. /\ 0 \in 0 .. n /\ n \in 0 .. n /\ from + 0 = from /\ from + n = now
        /\ \A i \in 1 .. n : /\ i \in 0 .. n /\ i - 1 \in 0 .. n /\ from + i \in 1 .. now
                             /\ from + (i - 1) = (from + i) - 1
    BY <1>0
  <1> HIDE DEF n, f, seqs, S, at
  <1>7. ASSUME NEW i \in 1 .. n
        PROVE  seqs[i] \in Seq(S) /\ LeadsPart(at[i - 1], seqs[i], at[i], sub)
    <2> DEFINE s == from + i
    <2>1. s \in 1 .. now
      BY <1>6
    <2>2. at[i - 1] = history[s - 1] /\ at[i] = history[s] /\ seqs[i] = SortDdlRows(RowsOf(s))
      BY <1>2, <1>3, <1>6
    <2>3. RowsOf(s) \subseteq S
      BY <1>5
    <2> HIDE DEF s
    <2>4. Leads(history[s - 1], history[s])
      BY <2>1, LeadsAt
    <2>5. Rows(history[s - 1], history[s], s, RowsOf(s))
      BY <2>1, RowsAt
    <2>6. /\ SortDdlRows(RowsOf(s)) \in Seq(RowsOf(s))
          /\ LeadsPart(history[s - 1], SortDdlRows(RowsOf(s)), history[s], sub)
      BY <2>4, <2>5, SnapshotLeadsPart
    <2>7. SortDdlRows(RowsOf(s)) \in Seq(S)
      BY <2>3, <2>6, SeqsGrow, Zenon
    <2> QED
      BY <2>2, <2>6, <2>7
  <1>8. seqs \in [1 .. n -> Seq(S)]
    BY <1>4, <1>7
  <1>9. FlattenSeq(seqs) \in Seq(S) /\ LeadsPart(at[0], FlattenSeq(seqs), at[n], sub)
    BY <1>0, <1>7, <1>8, LeadsPartFlattened DEF n
  <1>10. at[0] = history[from] /\ at[n] = history[now]
    BY <1>2, <1>6
  <1> QED
    BY <1>1, <1>9, <1>10

\* A follower that has the part of an earlier catalog makes of the rows it is
\* shown the part of the present one.
LEMMA FollowerRebuilds ==
  ASSUME CatalogInv, ProperInv, NEW from \in 0 .. now - 1,
         NEW sub, sub.scope \in {"schema", "table"}
  PROVE  Replay(Part(history[from], sub),
                ApplyDdlSubscriptionFilter(ExtractDdlRows(from + 1, now), {sub}))[2]
           = Part(history[now], sub)
  <1>1. PICK S : /\ ExtractDdlRows(from + 1, now) \in Seq(S)
                 /\ LeadsPart(history[from], ExtractDdlRows(from + 1, now), history[now], sub)
    BY RangeLeads
  <1> QED
    BY <1>1, CoveredReplay

\* The filters of cdc_ddl_changes_query keep for an id what those of a consumer
\* keep for a subscription to it.
LEMMA SameFilter ==
  ASSUME NEW rows, NEW sub, NEW schemas, NEW tables,
         \A r : Covers(sub, r) <=> \/ r.object.schema \in schemas
                                   \/ r.kind = "table" /\ r.object.id \in tables
  PROVE  ApplyDdlQueryFilter(rows, schemas, tables) = ApplyDdlSubscriptionFilter(rows, {sub})
  <1> DEFINE a(r) == \/ r.object.schema \in schemas
                     \/ r.kind = "table" /\ r.object.id \in tables
             b(r) == \E u \in {sub} : Covers(u, r)
  <1>1. ApplyDdlQueryFilter(rows, schemas, tables)
          = FlattenSeq([i \in DOMAIN rows |-> IF a(rows[i]) THEN <<rows[i]>> ELSE <<>>])
    BY Zenon DEF ApplyDdlQueryFilter, RowsWhere
  <1>2. ApplyDdlSubscriptionFilter(rows, {sub})
          = FlattenSeq([i \in DOMAIN rows |-> IF b(rows[i]) THEN <<rows[i]>> ELSE <<>>])
    BY Zenon DEF ApplyDdlSubscriptionFilter, RowsWhere
  <1>3. \A r : a(r) <=> b(r)
    OBVIOUS
  <1> HIDE DEF a, b
  <1>4. [i \in DOMAIN rows |-> IF a(rows[i]) THEN <<rows[i]>> ELSE <<>>]
          = [i \in DOMAIN rows |-> IF b(rows[i]) THEN <<rows[i]>> ELSE <<>>]
    BY <1>3
  <1> QED
    BY <1>1, <1>2, <1>4, Zenon

\* Whoever follows a table or a schema by its id is shown the same rows by
\* cdc_ddl_changes_query and by a consumer, and makes of the part of the catalog
\* it had at the start of a range the part there is at its end, whatever the
\* objects are called meanwhile (ddl.cpp:1001-1041, 1474-1496).
THEOREM FollowersRebuild == Spec => []FollowersCanRebuild
  <1>1. CatalogInv /\ ProperInv => FollowersCanRebuild
    <2> SUFFICES ASSUME CatalogInv, ProperInv, NEW from \in 0 .. now - 1
                 PROVE  LET rows == ExtractDdlRows(from + 1, now)
                            ByTable(id) == ApplyDdlQueryFilter(rows, {}, {id})
                            BySchema(id) == ApplyDdlQueryFilter(rows, {id}, {})
                            Rebuilt(sub, seen) ==
                              /\ seen = ApplyDdlSubscriptionFilter(rows, {sub})
                              /\ Replay(Part(history[from], sub), seen)[2] = Part(history[now], sub)
                        IN  /\ \A x \in history[from].tables :
                                 Rebuilt(TableSubscription(LookupById(tableRows, from, x.id), from), ByTable(x.id))
                            /\ \A x \in history[from].schemas :
                                 Rebuilt(SchemaSubscription(LookupSchemaById(from, x.id), from), BySchema(x.id))
      BY Zenon DEF FollowersCanRebuild
    <2> DEFINE rows == ExtractDdlRows(from + 1, now)
               Rebuilt(sub, seen) ==
                 /\ seen = ApplyDdlSubscriptionFilter(rows, {sub})
                 /\ Replay(Part(history[from], sub), seen)[2] = Part(history[now], sub)
    <2>0. now \in Nat /\ from \in 0 .. now
      BY DEF CatalogInv, SoundInv
    <2>1. ASSUME NEW sub, sub.scope \in {"schema", "table"}, NEW schemas, NEW tables,
                 \A r : Covers(sub, r) <=> \/ r.object.schema \in schemas
                                           \/ r.kind = "table" /\ r.object.id \in tables
          PROVE  Rebuilt(sub, ApplyDdlQueryFilter(rows, schemas, tables))
      <3>1. ApplyDdlQueryFilter(rows, schemas, tables) = ApplyDdlSubscriptionFilter(rows, {sub})
        BY <2>1, SameFilter
      <3>2. Replay(Part(history[from], sub), ApplyDdlSubscriptionFilter(rows, {sub}))[2] = Part(history[now], sub)
        BY <2>1, FollowerRebuilds
      <3> QED
        BY <3>1, <3>2, Zenon
    <2> HIDE DEF rows, Rebuilt
    <2>2. ASSUME NEW x \in history[from].tables
          PROVE  Rebuilt(TableSubscription(LookupById(tableRows, from, x.id), from),
                         ApplyDdlQueryFilter(rows, {}, {x.id}))
      <3> DEFINE sub == TableSubscription(LookupById(tableRows, from, x.id), from)
      <3>1. PICK y \in history[from].schemas : y.id = x.schema
        BY <2>0, SoundAt
      <3>2. LookupById(tableRows, from, x.id) = OfObject(x, y)
        BY <2>0, <3>1, TableByIdIs
      <3>3. sub.scope = "table" /\ sub.table = x.id
        BY <3>2, ObjectIs DEF TableSubscription
      <3> HIDE DEF sub
      <3>4. \A r : Covers(sub, r) <=> \/ r.object.schema \in {}
                                      \/ r.kind = "table" /\ r.object.id \in {x.id}
        BY <3>3 DEF Covers
      <3>5. Rebuilt(sub, ApplyDdlQueryFilter(rows, {}, {x.id}))
        BY <2>1, <3>3, <3>4
      <3> QED
        BY <3>5 DEF sub
    <2>3. ASSUME NEW x \in history[from].schemas
          PROVE  Rebuilt(SchemaSubscription(LookupSchemaById(from, x.id), from),
                         ApplyDdlQueryFilter(rows, {x.id}, {}))
      <3> DEFINE sub == SchemaSubscription(LookupSchemaById(from, x.id), from)
      <3>1. LookupSchemaById(from, x.id) = OfSchema(x)
        BY <2>0, LookupSchemaByIdIs
      <3>2. sub.scope = "schema" /\ sub.schema = x.id
        BY <3>1, ObjectIs DEF SchemaSubscription
      <3> HIDE DEF sub
      <3>3. \A r : Covers(sub, r) <=> \/ r.object.schema \in {x.id}
                                      \/ r.kind = "table" /\ r.object.id \in {}
        BY <3>2 DEF Covers
      <3>4. Rebuilt(sub, ApplyDdlQueryFilter(rows, {x.id}, {}))
        BY <2>1, <3>2, <3>3
      <3> QED
        BY <3>4 DEF sub
    <2> QED
      BY <2>2, <2>3, Zenon DEF Rebuilt, rows
  <1> QED
    BY <1>1, ProperInvariance, PTL

=============================================================================
