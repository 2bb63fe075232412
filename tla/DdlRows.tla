------------------------------ MODULE DdlRows ------------------------------
(***************************************************************************)
(* The typed DDL events of a snapshot range, as ddl.cpp rebuilds them from *)
(* the tokens of the snapshots and the versioned rows of the catalog; the  *)
(* filters, ticks and per-table diffs made of them; and the subscriptions  *)
(* of consumer.cpp, which name the objects whose events a consumer gets.   *)
(***************************************************************************)
EXTENDS Catalog, SequencesExt

CONSTANTS
  Null,
  Scopes   \* what consumers are created for, of {"schema", "table"}

\* An id or a name is never NULL.
ASSUME DdlRowsAssumption ==
  /\ Null \notin Nat \union Names \union AllSchemaNames \union (AllSchemaNames \X Names)
  /\ Scopes \subseteq {"schema", "table"}

VARIABLE subscription   \* the one of the consumer, or Null

vars == <<catalogVars, subscription>>

-----------------------------------------------------------------------------
(* Lookups (ddl.cpp:90-187, consumer.cpp:820-921, 3195-3219) *)

Resolved(schema, schemaName, id, name) ==
  [schema |-> schema, schemaName |-> schemaName, id |-> id, name |-> name]

\* LIMIT 1
Pick(S, none) == IF S = {} THEN none ELSE CHOOSE x \in S : TRUE

SchemaObject(r) == Resolved(r.object.id, r.object.name, r.object.id, r.object.name)

LookupSchemaByName(s, name) ==
  Pick({SchemaObject(r) : r \in {q \in schemaRows : q.begin = s /\ q.object.name = name}},
       Resolved(Null, name, Null, name))

LookupSchemaById(s, id) ==
  Pick({SchemaObject(r) : r \in {q \in schemaRows : q.object.id = id /\ AliveAt(q, s)}},
       Resolved(id, Null, id, Null))

\* t JOIN s USING (schema_id), for the rows of tables or of views.
Joined(rows) == {j \in rows \X schemaRows : j[1].object.schema = j[2].object.id}

JoinedObject(j) ==
  Resolved(j[2].object.id, j[2].object.name, j[1].object.id, j[1].object.name)

\* LookupTableByName, LookupViewByName: the object that begins with the snapshot.
LookupByName(rows, s, q) ==
  Pick({JoinedObject(j) : j \in {k \in Joined(rows) :
          k[1].begin = s /\ k[2].object.name = q[1] /\ k[1].object.name = q[2]}},
       Resolved(Null, q[1], Null, q[2]))

\* Mutant of LookupById: end_snapshot taken for the last snapshot of a row.
LookupByIdInclusive(rows, s, id) ==
  Pick({JoinedObject(j) : j \in {k \in Joined(rows) :
          k[1].object.id = id /\ k[1].begin <= s /\ k[1].end >= s /\ AliveAt(k[2], s)}},
       Resolved(Null, Null, id, Null))

\* LookupTableById, LookupViewById
LookupById(rows, s, id) ==
  Pick({JoinedObject(j) : j \in {k \in Joined(rows) :
          k[1].object.id = id /\ AliveAt(k[1], s) /\ AliveAt(k[2], s)}},
       Resolved(Null, Null, id, Null))

PreviousTableName(id, s) ==
  LET past == {r \in tableRows : r.object.id = id /\ r.begin < s}
  IN  IF past = {} THEN Null
      ELSE (CHOOSE r \in past : \A q \in past : q.begin <= r.begin).object.name

LookupTableColumnsAt(id, s) ==
  {r.object.column : r \in {q \in columnRows : q.object.table = id /\ AliveAt(q, s)}}

TableSchemaVersionBumpedAt(id, s) == <<id, s>> \in bumped

-----------------------------------------------------------------------------
(* Columns (ddl.cpp:285-441) *)

\* The elements of S, each once, where Precedes orders them: the i-th is the one
\* that i - 1 others precede.
Sorted(S, Precedes(_, _)) ==
  LET place(x) == Cardinality({y \in S : Precedes(y, x)})
  IN  [i \in 1 .. Cardinality(S) |-> CHOOSE x \in S : place(x) = i - 1]

Added(c) == [kind |-> "added", id |-> c.id, parent |-> c.parent, name |-> c.name, type |-> c.type]
Dropped(c) == [kind |-> "dropped", id |-> c.id, parent |-> c.parent, name |-> c.name, type |-> c.type]
Renamed(c) == [kind |-> "renamed", id |-> c.id, name |-> c.name]
Retyped(c) == [kind |-> "type_changed", id |-> c.id, type |-> c.type]

\* Mutant of DiffColumns: columns are matched by name.
DiffByName(old, new) ==
  {Added(c) : c \in {d \in new : \A e \in old : e.name # d.name}}
    \union {Dropped(c) : c \in {d \in old : \A e \in new : e.name # d.name}}
    \union {Retyped(c) : c \in {d \in new : \E e \in old : e.name = d.name /\ e.type # d.type}}

\* Columns are matched by their ids.
DiffColumns(old, new) ==
  {Added(c) : c \in New(old, new)}
    \union {Dropped(c) : c \in New(new, old)}
    \union {Renamed(c) : c \in {d \in new : \E e \in old : e.id = d.id /\ e.name # d.name}}
    \union {Retyped(c) : c \in {d \in new : \E e \in old : e.id = d.id /\ e.type # d.type}}

\* How many of the columns above a column are in the diff with it, or are the
\* parent of one that is.
Depth(diffs, id) ==
  LET nested == {d \in diffs : d.kind \in {"added", "dropped"} /\ d.parent # Top}
      depth[i \in 0 .. MaxColumn] ==
        IF \E d \in nested : d.id = i
        THEN 1 + depth[(CHOOSE d \in nested : d.id = i).parent]
        ELSE 0
  IN  depth[id]

\* Mutant of Normalised: fields are dropped in the order they were added.
NormalisedAlike(diffs) ==
  Sorted(diffs, LAMBDA a, b :
    \/ Depth(diffs, a.id) < Depth(diffs, b.id)
    \/ Depth(diffs, a.id) = Depth(diffs, b.id) /\ a.id < b.id
    \/ a.id = b.id /\ a.kind = "renamed" /\ b.kind = "type_changed")

DiffRank(d) == CASE d.kind = "added" -> 1 [] d.kind = "dropped" -> 2 [] OTHER -> 0

\* NormaliseDiffParentChildOrdering: parents are added before their fields,
\* and dropped after them.
Normalised(diffs) ==
  Sorted(diffs, LAMBDA a, b :
    LET x == Depth(diffs, a.id)
        y == Depth(diffs, b.id)
    IN  \/ DiffRank(a) < DiffRank(b)
        \/ /\ DiffRank(a) = DiffRank(b)
           /\ \/ a.kind = "added" /\ x < y
              \/ a.kind = "dropped" /\ x > y
              \/ (DiffRank(a) = 0 \/ x = y) /\ a.id < b.id
              \/ a.id = b.id /\ a.kind = "renamed" /\ b.kind = "type_changed")

AlterationAt(id, s) ==
  IF TableSchemaVersionBumpedAt(id, s)
  THEN Normalised(DiffColumns(LookupTableColumnsAt(id, s - 1), LookupTableColumnsAt(id, s)))
  ELSE <<>>

-----------------------------------------------------------------------------
(* Rows (ddl.cpp:738-1046) *)

Row(s, event, kind, object) ==
  [snapshot |-> s, event |-> event, kind |-> kind, object |-> object,
   columns |-> {}, was |-> Null, diffs |-> <<>>]

\* What becomes of an entry of tables_created: a table that had another name
\* before has been renamed.
IsRename(s, q) ==
  LET object == LookupByName(tableRows, s, q)
  IN  object.id # Null /\ PreviousTableName(object.id, s) \notin {Null, q[2]}

CreatedTableRow(s, q) ==
  LET object == LookupByName(tableRows, s, q)
      previous == PreviousTableName(object.id, s)
  IN  IF IsRename(s, q)
      THEN [Row(s, "altered", "table", object) EXCEPT
              !.was = previous, !.diffs = AlterationAt(object.id, s)]
      ELSE [Row(s, "created", "table", object) EXCEPT
              !.columns = LookupTableColumnsAt(object.id, s)]

\* Mutant of Promoted: a table that is renamed and altered is reported twice.
PromotedNone(s) == {}

\* finding1_promoted_table_ids
Promoted(s) ==
  {LookupByName(tableRows, s, q).id : q \in {p \in changes[s].tables_created : IsRename(s, p)}}

AlteredTableRow(s, id) ==
  [Row(s, "altered", "table", LookupById(tableRows, s, id)) EXCEPT !.diffs = AlterationAt(id, s)]

RowsOf(s) ==
  {Row(s, "created", "schema", LookupSchemaByName(s, n)) : n \in changes[s].schemas_created}
    \union {CreatedTableRow(s, q) : q \in changes[s].tables_created}
    \union {AlteredTableRow(s, id) : id \in changes[s].tables_altered \ Promoted(s)}
    \union {Row(s, "created", "view", LookupByName(viewRows, s, q)) : q \in changes[s].views_created}
    \union {Row(s, "dropped", "schema", LookupSchemaById(s - 1, id)) :
              id \in changes[s].schemas_dropped}
    \union {Row(s, "dropped", "table", LookupById(tableRows, s - 1, id)) :
              id \in changes[s].tables_dropped}
    \union {Row(s, "dropped", "view", LookupById(viewRows, s - 1, id)) :
              id \in changes[s].views_dropped}

\* Mutant of DdlObjectKindRank: schemas first, whatever happens to them.
RankAlike(event, kind) == CASE kind = "schema" -> 0 [] kind = "view" -> 1 [] kind = "table" -> 2

DdlObjectKindRank(event, kind) ==
  CASE kind = "schema" -> IF event = "dropped" THEN 2 ELSE 0
    [] kind = "view"   -> 1
    [] kind = "table"  -> IF event = "dropped" THEN 0 ELSE 2

\* An event without an id comes last among its like.
SortDdlRows(rows) ==
  Sorted(rows, LAMBDA a, b :
    LET x == DdlObjectKindRank(a.event, a.kind)
        y == DdlObjectKindRank(b.event, b.kind)
    IN  \/ x < y
        \/ x = y /\ a.object.id # Null /\ (b.object.id # Null => a.object.id < b.object.id))

\* ExtractDdlRows without a table filter.
ExtractDdlRows(from, to) ==
  FlattenSeq([i \in 1 .. to - from + 1 |-> SortDdlRows(RowsOf(from + i - 1))])

-----------------------------------------------------------------------------
(* Filters and ticks (ddl.cpp:1001-1041, 1210-1262, 1454-1496) *)

Covers(sub, row) ==
  \/ sub.scope = "catalog"
  \/ sub.scope = "schema" /\ row.object.schema = sub.schema
  \/ sub.scope = "table" /\ row.kind = "table" /\ row.object.id = sub.table

\* The rows that a filter keeps, in their order.
RowsWhere(rows, Keep(_)) ==
  FlattenSeq([i \in DOMAIN rows |-> IF Keep(rows[i]) THEN <<rows[i]>> ELSE <<>>])

ApplyDdlSubscriptionFilter(rows, subs) ==
  RowsWhere(rows, LAMBDA r : \E sub \in subs : Covers(sub, r))

\* The ids a query filter keeps; a name is looked up at the end of the range.
ApplyDdlQueryFilter(rows, schemas, tables) ==
  RowsWhere(rows, LAMBDA r : \/ r.object.schema \in schemas
                             \/ r.kind = "table" /\ r.object.id \in tables)

\* Mutant of AppendDdlTickRows: every snapshot with events has a tick.
AppendTickAlways(s, subs) ==
  LET rows == RowsOf(s)
  IN  IF rows = {} THEN <<>>
      ELSE <<[schemas |-> {r.object.schema : r \in rows},
              tables |-> {r.object.id : r \in {q \in rows : q.kind = "table" /\ \E u \in subs : Covers(u, q)}}]>>

\* The tick of a snapshot, unless it is of no concern to the consumer.
AppendDdlTickRows(s, subs) ==
  LET rows == {r \in RowsOf(s) : \E sub \in subs : Covers(sub, r)}
  IN  IF rows = {} THEN <<>>
      ELSE <<[schemas |-> {r.object.schema : r \in rows},
              tables |-> {r.object.id : r \in {q \in rows : q.kind = "table"}}]>>

-----------------------------------------------------------------------------
(* cdc_schema_diff (ddl.cpp:1651-1862) *)

ResolveTableIdsForFilter(q, from, to) ==
  {j[1].object.id : j \in {k \in Joined(tableRows) :
     /\ k[2].object.name = q[1] /\ k[1].object.name = q[2]
     /\ k[1].begin <= to /\ k[1].end > from}}

\* One table at one snapshot: a created table adds all its columns.
TableDiffAt(id, s, created) ==
  IF id \in created /\ PreviousTableName(id, s) = Null
  THEN Normalised({Added(c) : c \in LookupTableColumnsAt(id, s)})
  ELSE AlterationAt(id, s)

\* Each table once, be it renamed and altered.  Neither drops nor the ids of
\* the tables are reported.
SchemaDiffAt(s, ids) ==
  LET created == {LookupByName(tableRows, s, q).id : q \in changes[s].tables_created}
      touched == Sorted((created \union changes[s].tables_altered) \intersect ids, <)
  IN  FlattenSeq([i \in DOMAIN touched |-> TableDiffAt(touched[i], s, created)])

SchemaDiff(q, from, to) ==
  LET ids == ResolveTableIdsForFilter(q, from, to)
  IN  FlattenSeq([i \in 1 .. to - from + 1 |-> SchemaDiffAt(from + i - 1, ids)])

-----------------------------------------------------------------------------
(* Subscriptions (consumer.cpp:820-1100, 3193-3290) *)

ResolveSchemaByNameAt(s, name) ==
  {SchemaObject(r) : r \in {q \in schemaRows : q.object.name = name /\ AliveAt(q, s)}}

ResolveCurrentTableName(s, q) ==
  {JoinedObject(j) : j \in {k \in Joined(tableRows) :
     /\ k[2].object.name = q[1] /\ k[1].object.name = q[2]
     /\ AliveAt(k[1], s) /\ AliveAt(k[2], s)}}

ResolveTableByIdAt(s, id) ==
  {JoinedObject(j) : j \in {k \in Joined(tableRows) :
     k[1].object.id = id /\ AliveAt(k[1], s) /\ AliveAt(k[2], s)}}

\* The first life of a table of this name, and where it began.
ResolveFirstLiveTableByName(q) ==
  LET named == {k \in Joined(tableRows) :
                 /\ k[2].object.name = q[1] /\ k[1].object.name = q[2]
                 /\ AliveAt(k[2], k[1].begin)}
  IN  {[at |-> j[1].begin, object |-> JoinedObject(j)] :
         j \in {k \in named : \A l \in named : k[1].begin <= l[1].begin}}

TableSubscription(o, at) ==
  [scope |-> "table", schema |-> o.schema, table |-> o.id,
   original |-> <<o.schemaName, o.name>>, at |-> at]

SchemaSubscription(o, at) ==
  [scope |-> "schema", schema |-> o.schema, table |-> Null, original |-> o.name, at |-> at]

\* cdc_dml_consumer_create: a table that is not live at the start, but was
\* once, will do if the start is the beginning.
ResolveDmlCreateSubscriptions(q, s, beginning) ==
  LET live == ResolveCurrentTableName(s, q)
  IN  IF live = {} /\ beginning
      THEN {TableSubscription(f.object, f.at) : f \in ResolveFirstLiveTableByName(q)}
      ELSE {TableSubscription(o, s) : o \in live}

\* cdc_ddl_consumer_create, for one schema or one table.
ResolveDdlCreateSubscriptions(scope, q, s) ==
  IF scope = "schema"
  THEN {SchemaSubscription(o, s) : o \in ResolveSchemaByNameAt(s, q[1])}
  ELSE {TableSubscription(o, s) : o \in ResolveCurrentTableName(s, q)}

Create(scope, q, s, beginning) ==
  /\ subscription = Null
  /\ \E sub \in ResolveDdlCreateSubscriptions(scope, q, s)
                  \union ResolveDmlCreateSubscriptions(q, s, beginning) : subscription' = sub
  /\ UNCHANGED catalogVars

\* Mutant of CurrentName: the object is looked up by the name it had.
CurrentNameByName(sub) ==
  IF sub.scope = "schema"
  THEN IF ResolveSchemaByNameAt(now, sub.original) = {} THEN Null ELSE sub.original
  ELSE IF ResolveCurrentTableName(now, sub.original) = {} THEN Null ELSE sub.original

\* LoadConsumerSubscriptions: the name the object has now, if it is there.
CurrentName(sub) ==
  IF sub.scope = "schema"
  THEN LookupSchemaById(now, sub.schema).name
  ELSE Pick({<<o.schemaName, o.name>> : o \in ResolveTableByIdAt(now, sub.table)}, Null)

Status(sub) ==
  CASE CurrentName(sub) = Null         -> "dropped"
    [] CurrentName(sub) = sub.original -> "active"
    [] OTHER                           -> "renamed"

-----------------------------------------------------------------------------

DdlInit == Init /\ subscription = Null

Next ==
  \/ Transaction /\ UNCHANGED subscription
  \/ \E scope \in Scopes, q \in AllSchemaNames \X Names, s \in 0 .. now :
       Create(scope, q, s, s = 0)

Spec == DdlInit /\ [][Next]_vars

-----------------------------------------------------------------------------
(* Applying what the rows say to what was there before.  A pair <<fits, x>> *)
(* also says whether each event was possible when its turn came.            *)

ApplyDiff(a, d) ==
  LET old == {c \in a[2] : c.id = d.id}
  IN  CASE d.kind = "added" ->
             <<a[1] /\ old = {} /\ (d.parent = Top \/ d.parent \in Ids(a[2])),
               a[2] \union {[id |-> d.id, parent |-> d.parent, type |-> d.type, name |-> d.name]}>>
        [] d.kind = "dropped" ->
             <<a[1] /\ old # {} /\ \A c \in a[2] : c.parent # d.id, a[2] \ old>>
        [] d.kind = "renamed" ->
             <<a[1] /\ old # {}, (a[2] \ old) \union {[c EXCEPT !.name = d.name] : c \in old}>>
        [] d.kind = "type_changed" ->
             <<a[1] /\ old # {}, (a[2] \ old) \union {[c EXCEPT !.type = d.type] : c \in old}>>

ApplyDiffs(columns, diffs) == FoldLeft(ApplyDiff, <<TRUE, columns>>, diffs)

\* The one of S with the id of the event.
Affected(S, r) == {x \in S : x.id = r.object.id}

ApplyCreated(C, r) ==
  CASE r.kind = "schema" ->
         <<TRUE, [C EXCEPT !.schemas = @ \union {[id |-> r.object.id, name |-> r.object.name]}]>>
    [] r.kind = "table" ->
         <<Affected(C.tables, r) = {} /\ \E x \in C.schemas : x.id = r.object.schema,
           [C EXCEPT !.tables = @ \union {[id |-> r.object.id, schema |-> r.object.schema,
                                           name |-> r.object.name, columns |-> r.columns]}]>>
    [] r.kind = "view" ->
         <<Affected(C.views, r) = {} /\ \E x \in C.schemas : x.id = r.object.schema,
           [C EXCEPT !.views = @ \union {[id |-> r.object.id, schema |-> r.object.schema,
                                          name |-> r.object.name]}]>>

ApplyDropped(C, r) ==
  CASE r.kind = "schema" ->
         <<Affected(C.schemas, r) # {} /\ \A x \in C.tables \union C.views : x.schema # r.object.id,
           [C EXCEPT !.schemas = @ \ Affected(@, r)]>>
    [] r.kind = "table" ->
         <<\E x \in Affected(C.tables, r) : x.name = r.object.name,
           [C EXCEPT !.tables = @ \ Affected(@, r)]>>
    [] r.kind = "view" ->
         <<\E x \in Affected(C.views, r) : x.name = r.object.name,
           [C EXCEPT !.views = @ \ Affected(@, r)]>>

ApplyAltered(C, r) ==
  LET old == Affected(C.tables, r)
      Altered(x) == [x EXCEPT !.name = r.object.name, !.columns = ApplyDiffs(@, r.diffs)[2]]
  IN  <<\E x \in old : /\ x.name = IF r.was = Null THEN r.object.name ELSE r.was
                       /\ ApplyDiffs(x.columns, r.diffs)[1],
        [C EXCEPT !.tables = (@ \ old) \union {Altered(x) : x \in old}]>>

ApplyRow(a, r) ==
  LET b == CASE r.event = "created" -> ApplyCreated(a[2], r)
             [] r.event = "dropped" -> ApplyDropped(a[2], r)
             [] r.event = "altered" -> ApplyAltered(a[2], r)
  IN  <<a[1] /\ b[1], b[2]>>

Replay(C, rows) == FoldLeft(ApplyRow, <<TRUE, C>>, rows)

\* The part of a catalog a subscription is about.
Part(C, sub) ==
  CASE sub.scope = "schema" ->
         [schemas |-> {x \in C.schemas : x.id = sub.schema},
          tables |-> {x \in C.tables : x.schema = sub.schema},
          views |-> {x \in C.views : x.schema = sub.schema}]
    [] sub.scope = "table" ->
         [schemas |-> {}, tables |-> {x \in C.tables : x.id = sub.table}, views |-> {}]

-----------------------------------------------------------------------------
(* Properties *)

\* The rows of a snapshot tell all that happened in it and nothing else: one
\* after the other they turn the catalog before it into the catalog after it.
\* A schema is there before what is created in it and is empty when it goes,
\* a struct before its fields (ddl.cpp:738-886, 398-441).
RowsReplay == now > 0 => Replay(history[now - 1], ExtractDdlRows(now, now)) = <<TRUE, history[now]>>

\* Whoever follows a table, or a schema, by its id gets every event of it and
\* can rebuild it over any range of snapshots, whatever it is called meanwhile
\* (ddl.cpp:1001-1041, 1474-1496).
FollowersCanRebuild ==
  \A from \in 0 .. now - 1 :
    LET rows == ExtractDdlRows(from + 1, now)
        ByTable(id) == ApplyDdlQueryFilter(rows, {}, {id})
        BySchema(id) == ApplyDdlQueryFilter(rows, {id}, {})
        Rebuilt(sub, seen) ==
          /\ seen = ApplyDdlSubscriptionFilter(rows, {sub})
          /\ Replay(Part(history[from], sub), seen)[2] = Part(history[now], sub)
    IN  /\ \A x \in history[from].tables :
             Rebuilt(TableSubscription(LookupById(tableRows, from, x.id), from), ByTable(x.id))
        /\ \A x \in history[from].schemas :
             Rebuilt(SchemaSubscription(LookupSchemaById(from, x.id), from), BySchema(x.id))

\* A snapshot has a tick for a consumer if and only if it changed something the
\* consumer follows, and the tick names the tables that changed (ddl.cpp:1210-1262).
TicksWhereChanged ==
  now > 0 /\ subscription # Null =>
    LET A == Part(history[now - 1], subscription)
        B == Part(history[now], subscription)
        ticks == AppendDdlTickRows(now, {subscription})
    IN  /\ ticks = <<>> <=> A = B
        /\ ticks # <<>> => ticks[1].tables = Ids((A.tables \ B.tables) \union (B.tables \ A.tables))

\* The status of a subscription is what its owner would conclude from the rows
\* since the object was looked up: gone when it was dropped, renamed when the
\* last name is not the first (consumer.cpp:3234-3290).
StatusFollowsRows ==
  subscription # Null =>
    LET rows == {r \in UNION {RowsOf(s) : s \in subscription.at + 1 .. now} : Covers(subscription, r)}
        gone == \E r \in rows : r.event = "dropped" /\
                  (subscription.scope = "schema" => r.kind = "schema")
        renames == {r \in rows : r.kind = "table" /\ r.was # Null}
        last == {r \in renames : \A q \in renames : q.snapshot <= r.snapshot}
    IN  CASE gone -> Status(subscription) = "dropped"
          [] ~gone /\ (\/ subscription.scope = "schema"
                       \/ \A r \in last : r.object.name = subscription.original[2]) ->
               Status(subscription) = "active"
          [] OTHER -> Status(subscription) = "renamed"

\* The diff of a name leads from the columns of its tables before the range to
\* their columns at the end.
Timeline(q, from) ==
  LET ids == ResolveTableIdsForFilter(q, from, now)
      ColumnsIn(s) == UNION {x.columns : x \in {y \in history[s].tables : y.id \in ids}}
  IN  ids \subseteq Ids(history[now].tables) =>
        ApplyDiffs(ColumnsIn(from - 1), SchemaDiff(q, from, now)) = <<TRUE, ColumnsIn(now)>>

\* cdc_schema_diff of a name that one table bore in a range leads from the
\* columns before the range to the columns at its end, through all the names
\* of the table (ddl.cpp:1642-1862).  It reads no subscription, and every
\* catalog is reached without one.
DiffsReplay ==
  subscription = Null =>
    \A from \in 1 .. now : \A q \in AllSchemaNames \X Names :
      Cardinality(ResolveTableIdsForFilter(q, from, now)) = 1 => Timeline(q, from)

\* What ddl.cpp:1644-1646 says: a name that several tables bore in the range
\* still gives the timeline of the table that bears it at the end.
OneTimeline ==
  \A from \in 1 .. now : \A x \in history[now].tables :
    LET before == {y \in history[from - 1].tables : y.id = x.id}
    IN  ApplyDiffs(UNION {y.columns : y \in before}, SchemaDiff(Qualified(history[now], x), from, now))
          = <<TRUE, x.columns>>
=============================================================================
