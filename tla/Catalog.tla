------------------------------ MODULE Catalog ------------------------------
(***************************************************************************)
(* The DuckLake catalog the extension reads: versioned rows of schemas,    *)
(* tables, views and columns, and for each snapshot the changes it made.   *)
(* DuckLake itself is not in this repository; it is modelled by what       *)
(* ddl.cpp and consumer.cpp ask of its ducklake_* tables.  Next to the     *)
(* rows stands the history they encode: the catalog as of each snapshot.   *)
(***************************************************************************)
EXTENDS Integers, FiniteSetsExt

CONSTANTS
  SchemaNames,   \* besides "main"
  Names,         \* of tables and views
  ColumnNames,
  Start,         \* the catalog at snapshot 0
  MaxSnapshot,   \* bound: last snapshot
  MaxOps,        \* bound: operations of one transaction
  MaxTotal,      \* bound: operations altogether
  MaxColumn      \* bound: column ids of one table

AllSchemaNames == SchemaNames \union {"main"}

Top == 0   \* the parent of a column that is no field of a struct

\* Columns have ids of their own, and a field is younger than the struct it is in.
Tree(columns) ==
  /\ \A c \in columns : /\ c = [id |-> c.id, parent |-> c.parent, type |-> c.type, name |-> c.name]
                        /\ c.id \in 1 .. MaxColumn
                        /\ c.parent = Top \/ \E d \in columns : d.id = c.parent /\ d.id < c.id
  /\ \A c, d \in columns : c.id = d.id => c = d

\* The columns of a table.
SoundColumns(columns) == columns # {} /\ Tree(columns)

\* What every catalog is like that DuckLake lets a transaction leave: ids and
\* names are unique, and tables and views are in schemas it has.
Sound(C) ==
  /\ C = [schemas |-> C.schemas, tables |-> C.tables, views |-> C.views]
  /\ \A x \in C.schemas : /\ x = [id |-> x.id, name |-> x.name]
                          /\ x.id \in Nat /\ x.name \in AllSchemaNames
  /\ \A x \in C.tables :
       /\ x = [id |-> x.id, schema |-> x.schema, name |-> x.name, columns |-> x.columns]
       /\ x.id \in Nat /\ x.name \in Names
  /\ \A x \in C.views : /\ x = [id |-> x.id, schema |-> x.schema, name |-> x.name]
                        /\ x.id \in Nat /\ x.name \in Names
  /\ \A x, y \in C.schemas : x.id = y.id \/ x.name = y.name => x = y
  /\ \A x, y \in C.tables : x.id = y.id \/ (x.schema = y.schema /\ x.name = y.name) => x = y
  /\ \A x, y \in C.views : x.id = y.id \/ (x.schema = y.schema /\ x.name = y.name) => x = y
  /\ \A x \in C.tables \union C.views : \E y \in C.schemas : y.id = x.schema
  /\ \E x \in C.schemas : x.name = "main"

\* One counter gives all its objects their ids, and its tables have sound columns.
Proper(C) ==
  /\ \A x \in C.schemas, y \in C.tables \union C.views : x.id # y.id
  /\ \A x \in C.tables, y \in C.views : x.id # y.id
  /\ \A x \in C.tables : SoundColumns(x.columns)

\* The first catalog is sound, and one of its ids is the largest.
ASSUME CatalogAssumption ==
  /\ MaxSnapshot \in Nat /\ MaxOps \in Nat /\ MaxTotal \in Nat /\ MaxColumn \in Nat \ {0}
  /\ "main" \notin SchemaNames /\ ColumnNames # {}
  /\ Sound(Start) /\ Proper(Start)
  /\ \E x \in Start.schemas \union Start.tables \union Start.views :
       \A y \in Start.schemas \union Start.tables \union Start.views : y.id <= x.id

VARIABLES
  history,       \* history[s]: the catalog as of snapshot s
  now,           \* the last snapshot
  schemaRows,    \* ducklake_schema
  tableRows,     \* ducklake_table
  viewRows,      \* ducklake_view
  columnRows,    \* ducklake_column
  bumped,        \* ducklake_schema_versions, of tables
  changes,       \* changes[s]: what snapshots() says of snapshot s
  total          \* operations so far, for the bound

catalogVars == <<history, now, schemaRows, tableRows, viewRows, columnRows, bumped, changes,
                 total>>

Live == MaxSnapshot + 1   \* end_snapshot of a row that has not ended

-----------------------------------------------------------------------------
(* The rows of a catalog: what is versioned apart is kept apart *)

TableObject(x) == [id |-> x.id, schema |-> x.schema, name |-> x.name]

Columns(C) ==
  UNION {{[table |-> x.id, column |-> c] : c \in x.columns} : x \in C.tables}

TableObjects(C) == {TableObject(x) : x \in C.tables}

\* What rows become when a snapshot s leaves the given objects.
Versioned(rows, objects, s) ==
  {IF r.end = Live /\ r.object \notin objects THEN [r EXCEPT !.end = s] ELSE r : r \in rows}
    \union {[object |-> o, begin |-> s, end |-> Live] :
              o \in objects \ {r.object : r \in {q \in rows : q.end = Live}}}

\* The predicate of every lookup "as of": end_snapshot is exclusive.
AliveAt(r, s) == r.begin <= s /\ r.end > s

Before == IF now = 0 THEN Start ELSE history[now - 1]

Init ==
  /\ history = [s \in {0} |-> Start]
  /\ now = 0
  /\ schemaRows = Versioned({}, Start.schemas, 0)
  /\ tableRows = Versioned({}, TableObjects(Start), 0)
  /\ viewRows = Versioned({}, Start.views, 0)
  /\ columnRows = Versioned({}, Columns(Start), 0)
  /\ bumped = {}
  /\ changes = [s \in {} |-> {}]
  /\ total = 0

-----------------------------------------------------------------------------
(* What one operation of a transaction can make of a catalog C *)

Fresh(C) ==
  1 + Max({r.object.id : r \in schemaRows \union tableRows \union viewRows}
            \union {x.id : x \in C.schemas \union C.tables \union C.views})

FreshColumn(x) ==
  1 + Max({r.object.column.id : r \in {q \in columnRows : q.object.table = x.id}}
            \union {c.id : c \in x.columns})

Free(C, schema) == Names \ {x.name : x \in {y \in C.tables \union C.views : y.schema = schema}}

CreateSchema(C) ==
  {[C EXCEPT !.schemas = @ \union {[id |-> Fresh(C), name |-> n]}] :
     n \in SchemaNames \ {x.name : x \in C.schemas}}

\* DROP SCHEMA .. CASCADE
DropSchema(C) ==
  {[schemas |-> C.schemas \ {d},
    tables |-> {x \in C.tables : x.schema # d.id},
    views |-> {x \in C.views : x.schema # d.id}] : d \in {x \in C.schemas : x.name # "main"}}

\* A table of one column, which may be a struct.
CreateTable(C) ==
  UNION {{[C EXCEPT !.tables = @ \union
             {[id |-> Fresh(C), schema |-> x.id, name |-> n,
               columns |-> {[id |-> 1, parent |-> Top, type |-> "struct",
                             name |-> CHOOSE c \in ColumnNames : TRUE]}]}] :
            n \in Free(C, x.id)} : x \in C.schemas}

WithTable(C, x, y) == [C EXCEPT !.tables = (@ \ {x}) \union {y}]

RenameTable(C) ==
  UNION {{WithTable(C, x, [x EXCEPT !.name = n]) : n \in Free(C, x.schema)} : x \in C.tables}

DropTable(C) == {[C EXCEPT !.tables = @ \ {x}] : x \in C.tables}

CreateView(C) ==
  UNION {{[C EXCEPT !.views = @ \union {[id |-> Fresh(C), schema |-> x.id, name |-> n]}] :
            n \in Free(C, x.id)} : x \in C.schemas}

DropView(C) == {[C EXCEPT !.views = @ \ {x}] : x \in C.views}

\* A column and its siblings have different names.
FreeColumn(x, parent) ==
  ColumnNames \ {c.name : c \in {d \in x.columns : d.parent = parent}}

AddColumn(C) ==
  UNION {UNION {{WithTable(C, x, [x EXCEPT !.columns = @ \union
                    {[id |-> FreshColumn(x), parent |-> p, type |-> t, name |-> n]}]) :
                   n \in FreeColumn(x, p), t \in {"int", "struct"}} :
                  p \in {Top} \union {c.id : c \in {d \in x.columns : d.type = "struct"}}} :
           x \in {y \in C.tables : FreshColumn(y) <= MaxColumn}}

RenameColumn(C) ==
  UNION {UNION {{WithTable(C, x, [x EXCEPT !.columns = (@ \ {c}) \union {[c EXCEPT !.name = n]}]) :
                   n \in FreeColumn(x, c.parent)} : c \in x.columns} : x \in C.tables}

WidenColumn(C) ==
  UNION {{WithTable(C, x, [x EXCEPT !.columns = (@ \ {c}) \union {[c EXCEPT !.type = "bigint"]}]) :
            c \in {d \in x.columns : d.type = "int"}} : x \in C.tables}

\* With its fields; the last column of a table stays.
DropColumn(C) ==
  UNION {{WithTable(C, x, [x EXCEPT !.columns = @ \ Gone]) :
            Gone \in {G \in SUBSET x.columns :
              /\ \E c \in G : \A d \in x.columns :
                   d \in G <=> d = c \/ \E e \in G : d.parent = e.id
              /\ \E d \in x.columns \ G : d.parent = Top}} : x \in C.tables}

Operations(C) ==
  UNION {CreateSchema(C), DropSchema(C), CreateTable(C), RenameTable(C), DropTable(C),
         CreateView(C), DropView(C), AddColumn(C), RenameColumn(C), WidenColumn(C), DropColumn(C)}

-----------------------------------------------------------------------------
(* Snapshots *)

SchemaName(C, id) == (CHOOSE x \in C.schemas : x.id = id).name

Qualified(C, x) == <<SchemaName(C, x.schema), x.name>>

Ids(S) == {x.id : x \in S}

New(S, T) == {x \in T : x.id \notin Ids(S)}

\* The tables that a transaction from A to B has renamed, and altered, as in B.
RenamedTables(A, B) == {y \in B.tables : \E x \in A.tables : x.id = y.id /\ x.name # y.name}
AlteredTables(A, B) == {y \in B.tables : \E x \in A.tables : x.id = y.id /\ x.columns # y.columns}

\* The changes of a transaction from A to B.  A renamed table is among the
\* created ones, and may be among the altered ones.
Tokens(A, B, noise) ==
  [schemas_created |-> {x.name : x \in New(A.schemas, B.schemas)},
   schemas_dropped |-> Ids(A.schemas) \ Ids(B.schemas),
   tables_created |-> {Qualified(B, x) : x \in New(A.tables, B.tables) \union RenamedTables(A, B)},
   tables_altered |-> Ids(AlteredTables(A, B)) \union noise,
   tables_dropped |-> Ids(A.tables) \ Ids(B.tables),
   views_created |-> {Qualified(B, x) : x \in New(A.views, B.views)},
   views_dropped |-> Ids(A.views) \ Ids(B.views)]

\* A transaction commits.  One that only changes data leaves B = history[now].
Commit(B, ops) ==
  LET s == now + 1
      A == history[now]
  IN  /\ now' = s
      /\ history' = [i \in 0 .. s |-> IF i = s THEN B ELSE history[i]]
      /\ schemaRows' = Versioned(schemaRows, B.schemas, s)
      /\ tableRows' = Versioned(tableRows, TableObjects(B), s)
      /\ viewRows' = Versioned(viewRows, B.views, s)
      /\ columnRows' = Versioned(columnRows, Columns(B), s)
      /\ bumped' = bumped \union {<<x.id, s>> : x \in New(A.tables, B.tables)
                                                   \union AlteredTables(A, B)}
      /\ \E noise \in SUBSET Ids(RenamedTables(A, B)) :
           changes' = [i \in 1 .. s |-> IF i = s THEN Tokens(A, B, noise) ELSE changes[i]]
      /\ total' = total + ops

\* What n operations can make of the last catalog.
After[n \in 0 .. MaxOps] ==
  IF n = 0 THEN {history[now]} ELSE UNION {Operations(C) : C \in After[n - 1]}

Transaction ==
  \E n \in 0 .. MaxOps :
    /\ now < MaxSnapshot /\ total + n <= MaxTotal
    /\ \E B \in After[n] : Commit(B, n)
=============================================================================
