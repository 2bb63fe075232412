# TLA+ specifications of the DuckLake CDC extension

The extension gives a DuckLake catalog durable change-data-capture consumers.
A consumer is a row with a cursor (`last_committed_snapshot`), a lease
(`owner_token`, `owner_heartbeat_at`) and a few subscription rows; clients of
any process read windows of snapshots after the cursor, process them, and
commit. Everything that is hard here comes from several connections, often of
several processes, running multi-statement calls over the same row, while the
catalog grows, loses old snapshots, and changes the shape of its tables.

The modules here are read beside `src/src/*.cpp`; `PROJECT.json` maps every
definition to the lines it translates.

## The system

| Component | State | Operations | What makes it correct |
|---|---|---|---|
| Owner-token lease (`consumer.cpp` 1569-1705, 2162-2179, 1436-1525) | `owner_token`, `owner_heartbeat_at`; `TOKEN_CACHE` per connection | acquire (two paths), heartbeat, release, force-release | at most one connection holds the lease; a live lease is never taken over; orphaned leases come back; audit rows tell the truth |
| Windows (`consumer.cpp` 1741-1875) | none | resolve first match, boundary, cursor and head to a window | nothing left out, no shape change let in, bounded |
| Cursor (`consumer.cpp` 1936-2111, 3436-3632, 1307-1328) | `last_committed_snapshot`; `DML_SAFE_COMMIT_RANGES` per connection and name | `cdc_window`, `cdc_commit` (three paths), `cdc_consumer_reset` | the cursor moves forward, onto existing snapshots, and a DML consumer stays in its schema-shape epoch |
| Index of decoded changes (`consumer.cpp` 2300-2420) | `SNAPSHOT_CHANGE_INDEXES`, process-wide | lookup, query, merge, prune, evict | a load leaves out no snapshot of its range |
| Stateful reads (`consumer.cpp` 2685-2914, `ddl.cpp` 1269-1345, `dml.cpp` 858-1007) | the local variables of the call | probe, wait, advance over nothing, window, extract, auto-commit | nothing subscribed is skipped; everything subscribed arrives |
| Postgres notification (`consumer.cpp` 224-304, `ducklake_metadata.cpp` 762-784) | a LISTEN connection per waiting call | listen, wait, drain | no lost wake-up |
| Lifecycle (`consumer.cpp` 1008-1231, 1374-1390) | the consumer, subscription and audit rows | create, drop, list | names and ids are unique; subscriptions stay with their consumer; a drop takes what it has seen |
| Subscriptions (`consumer.cpp` 531-1000, 3150-3290) | the subscription rows | resolve a name when the consumer is created; report the current name and a status later | the status is what the owner would conclude from the events |
| DML segment coalescing (`dml.cpp` 492-581) | `DML_SEGMENT_CACHE`, process-wide | reserve, publish, fail | a waiter gets a complete segment of its own key, and never waits for nobody |
| DDL rows (`ddl.cpp` 90-445, 738-1262, 1609-1880) | none | extract, sort, promote renames, filter, tick, diff | the rows replay what happened to the catalog, parents before children |
| Bootstrap and configuration (`ducklake_metadata.cpp` 255-395, 786-855) | the state tables; three per-process caches | configure, create if absent, choose the state schema | one set of tables, there before it is named |
| Compatibility check (`compat_check.cpp`) | the version of the catalog | checked before every call | nothing is written to a catalog of another format |
| DML rows, statistics, audit reads, doctor, registration | none | queries | see "Not modelled" |

How they interact: every stateful read acquires the lease and resolves a window
against the cursor it read with the lease; DML windows, commits and resets scan
the change log through the shared index; commits check owner, order and
existence in the WHERE clause of an UPDATE; a listen call waits, without the
lease, until a probe of the change log finds something. The lease is the only
mutual exclusion between processes; the caches above are per process, or per
connection, and not told about what other processes do. Every call goes through
the version check and the bootstrap first.

Hard behaviours: a call is a sequence of statements and any other client runs
between two of them; any statement can fail and leave what was written before
it; connections die with their caches; leases lapse in mid-call; DuckLake
commits, alters and expires snapshots all the time; clients commit late, twice,
or what they were never shown; a wake-up races a wait. The list of hazards, each at its
line and with the properties that cover it, is in `PROJECT.json`.

## The modules

| Module | Models | Checked by |
|---|---|---|
| `LeaseSpec` | abstract: a lease with a holder that is live or lapsed; acquire, renew, lapse, release, abandon | (refined by `Lease`) |
| `Lease` | every statement of both acquisition paths, heartbeat, release and force-release; failures, disconnects, the clock | `MCLease` |
| `Window` | the resolution of a window as operators, and what a window promises (`Exact`) | through `Cursor`, `Listen` |
| `CursorSpec` | abstract: the row of a consumer, which commits move forward, resets put anywhere, and drops and creations replace | (refined by `Cursor`) |
| `Cursor` | the statements of window, commit and reset of several clients over one cursor, in a growing and expiring catalog; the lease appears as `LeaseSpec` promises it | `MCCursor` |
| `SnapshotIndex` | the shared index of one catalog and the readers that load ranges through it | `MCSnapshotIndex` |
| `DeliverySpec` | abstract: an at-least-once queue over a growing log; batches that are read, handed over and acknowledged, or committed first | (refined by `Listen`) |
| `Listen` | the stateful reads of one consumer from probe to delivery; lease and commit are one step each, as `LeaseSpec` and `Cursor` justify | `MCListen` |
| `Lifecycle` | the transaction of a creation with its retries, and a drop statement by statement | `MCLifecycle` |
| `DmlSegments` | the map of segments that are being built, its builders and waiters | itself |
| `Catalog` | external: DuckLake's versioned rows and change tokens, and the history they encode | through `DdlRows` |
| `DdlRows` | the events, ticks and diffs rebuilt from those rows; subscriptions and their status | `MCDdlRows` |
| `Bootstrap` | version check, `cdc_configure`, creation and naming of the state tables in several processes | `MCBootstrap` |
| `Lease_proofs`, `Cursor_proofs` (with the theorems about `Window`), `SnapshotIndex_proofs`, `Listen_proofs`, `Lifecycle_proofs`, `DmlSegments_proofs`, `Bootstrap_proofs`, `DdlRows_proofs` | the theorems | TLAPS |

Conventions. Variables have the names of the code's columns, caches and locals.
`pc[c]` names the statement that the call of client `c` runs next; each
statement is one action, because the database runs it atomically (in
`DmlSegments` and `Bootstrap` a step is also a critical section of the process).
`Return(c)` ends a call, successfully or not, and forgets its local variables.
Snapshots are numbers; what a snapshot touches is data of the catalog, drawn
from a small set when it is committed. A definition whose comment starts with
"Mutant of" is a plausible mistake in the definition after it. It is not part
of any specification: with it in place the property it is paired with in
`PROJECT.json` fails.

### Lease

`owner` and `age` are the row; `age` counts from the heartbeat in instants and
is capped right above `LeaseInterval`. `cached[c]` is the connection's entry of
`TOKEN_CACHE`. Tokens are drawn fresh, as `uuid()` does. The path over
`UPDATE ... RETURNING` is `AcquireFreeOrOwn`, `LoadRow`, `JudgeReturning`,
`TakeExpired`, `AuditTakeover`; the legacy one is `LoadRow`, `JudgeLegacy`,
`AuditIntent`, `UpdateLegacy`, `ReloadLegacy`. Both end in `CacheToken`.
`Holder` maps the row to the client that knows its token, from its cache or
from the call it is in, or to `"orphan"`: that is the refinement of `LeaseSpec`.

### Cursor

`AcquireForWindow`, `LoadSubscriptions`, `ReadBounds`, `ResolveDml` (or
`ResolveDdl`) are `cdc_window`; `BeginCommit`, `LoadSubscriptions`,
`ValidateCommit`, `UpdateCursor`, `VerifyCommit`, `RecheckCommit`,
`WriteCursor` are `cdc_commit` over the three backends; `BeginReset`,
`ResolveReset`, `LoadSubscriptions`, `ValidateReset`, `WriteReset` are
`cdc_consumer_reset`. The subscriptions are loaded by the consumer's name in a
statement of their own, before the scan they are for (consumer.cpp:3477, 1972,
1993): `tables` is what the rows say, at most one table, and `loaded[c]` what
the call of `c` goes by. `DropSubscriptions` and `DropRow` are the two
deletions of a drop, after which `cursor` is `NoSnapshot` until `Create`, so
that a call may load the subscriptions of the consumer that was, of the one
that came after, or none. `win[c]` is history, the window `c` was last given
under the lease it has; another's lease, or a new one, starts without. `pinned`
is history too: the shape changes behind the cursor the consumer was created at.
The heartbeat that a commit refreshes with the cursor belongs to `Lease`.
Constants switch on what an environment may do: `Guesses` (clients commit
snapshots that do not exist yet), `Resets`, `Expires`, `Recreates`.

### SnapshotIndex

`changes` is the set of snapshots the index holds; the code's `loaded_from` and
`loaded_to` are its least and greatest element, because every merge ends with
the pruning that sets them so. A reader's cursor starts where its consumer is
created and moves within a range it has loaded.

### Listen

One consumer of either kind. `log[s]` says what snapshot `s` does to what the
consumer is subscribed to. `Touches` is what the probe of a waiting call
recognizes, `HasRows` what the extraction returns rows for; the two are
separate code and differ. `LoadRow`, `Scan`, `AdvanceLease`, `AdvanceCommit`,
`GiveUp`, `WaitAfresh`, `Wait` and `Wake` are the loop of a waiting call,
`LoadSubscriptions`, `Acquire`, `ReadWindow`, `Extract`, `CommitRead` and
`Deliver` the read that follows. `Recreate` drops the consumer and creates it
again, perhaps with another scope, while calls hold what they have read of the
old one (`subscribed`). `delivered`, `lost` and `floor` are history: what calls
have returned, what died with a call that had committed it for its caller, and
where the cursor was last put by a creation or a reset. `Batch(c)` maps the
variables of a call to what it has in hand: that is the refinement of
`DeliverySpec`.

### Lifecycle

No table has a key. `ReadConsumers` is the look for the name and
`MAX(consumer_id) + 1`, `CommitCreate` the three inserts, which show together;
`clean[c]` says that nothing was written since the transaction began, and
`Serializable` whether the metadata backend minds. `RetryCreate` is the loop of
`CreateConsumer` over transient errors. `LoadRow`, `AuditDrop`,
`DropSubscriptions` and `DropConsumer` are the statements of a drop, each in a
transaction of its own: `Fail` leaves what was written. `creation` is
history, the identity that neither name nor id has.

### DmlSegments

`cache` is `DML_SEGMENT_CACHE`, `state` and `segment` the entries it points to;
callers hold pointers to entries that the map has forgotten, and an entry is
allocated again only when nobody does. There is one condition variable for all
keys: `notified` is per waiter and not kept for one that does not wait.
`WakeSpuriously` is what a condition variable may do. A waiter that finds its
entry failed erases the key and becomes a builder (`AfterFailure`), even when
another entry is under that key by then.

### Catalog and DdlRows

`Catalog` is DuckLake, modelled by what the extension asks of it: rows with
`begin` and `end` snapshots, and `changes[s]`, the tokens of snapshot `s`. A
transaction applies up to `MaxOps` operations to schemas, tables, views, columns
and fields of structs, so that one snapshot may create, rename, alter and drop
together. `history` is the catalog as of each snapshot: the truth that rows
encode and that the properties compare with. `DdlRows` has the lookups, the
column diff and its normalization, the promotion of a creation to a rename, the
sorting, the filters, the ticks, `cdc_schema_diff`, and the subscriptions a
creation resolves with the status that is reported for them later. Columns have
ids, parents, names and types; defaults and nullability, which are compared the
same way as types, are left out.

### Bootstrap

`BeginCall`, `Check`, `Resolve`, `Activate`, `Probe`, `Lock`, `Recheck`,
`Create` (or `CreateFails`), `Name` and `Run` are the beginning of every call.
`tables[s]` tells a schema that is absent, empty, or has the tables; the three
backends differ in what a probe answers for an empty schema (`ProbeSays`) and in
where the tables go (`CreatedIn`). `configured`, `active` and `remembered` are
the caches of a process, which `Restart` loses. `Migrate` is another program
that changes the format of the catalog.

## The runs

| Run | Bounds | Shows |
|---|---|---|
| `LeaseReturning` | 2 clients, 6 tokens, interval 1 | type invariant, `AtMostOneHolder`, `ReloadTellsHit`, `AuditMatchesTakeover`, refinement of `LeaseSpec`, `OrphanRecovered` |
| `LeaseLegacy` | the same | refinement of `LeaseSpec` over the legacy statements |
| `CursorDml` | 2 clients, 2 snapshots, windows of 2, SQLite commits, resets | `PinnedShape`, `SafeRangeSound`, `WindowExact`, `CursorMonotone`, refinement of `CursorSpec` |
| `CursorDdl` | 2 clients, 3 snapshots, Postgres commits, resets, expiry, re-creation | `WindowExact`, `CommitLandsOnSnapshot`, refinement of `CursorSpec` |
| `IndexSharing` | 2 readers, capacity 2, 4 snapshots | `NoHoleAhead`, `LeaderMissesNothing`, `WithinCapacity` |
| `IndexOneReader` | 1 reader, capacity 3, 6 snapshots, resets | `NoSnapshotMissed` |
| `Listen` | 2 clients, both kinds, 2 snapshots, windows of 1, 1 fault, notifications, re-creation | `NothingSkipped`, `NoLostWakeup`, `WindowReachesMatch`, refinement of `DeliverySpec` |
| `ListenLive` | 2 clients, both kinds, 2 snapshots, 1 fault, polling | `EventuallyDelivered` |
| `Lifecycle` | 3 clients, 2 names, 3 creations, 2 attempts, 2 faults | `OneRowEach`, `SubscriptionsFollow`, `VisibleIsComplete`, `DropTakesWhatItSaw` |
| `DmlSegments` | 3 calls at once, 2 keys, 3 entries | `InFlightHasBuilder`, `WaitHasEnd`, `WaiterGetsSegment`, `EveryCallEnds` |
| `Bootstrap` | 3 calls in 2 processes, 3 backends, 2 attempts, 2 faults | `NamesReady`, `CacheTruthful`, `OneHome` |
| `DdlRows` | every 3 operations in up to 3 snapshots, 1 schema besides main, 2 names, 2 column names | `RowsReplay`, `FollowersCanRebuild`, `TicksWhereChanged`, `StatusFollowsRows`, `DiffsReplay` |

Why the bounds are enough. Two clients: every property about a consumer is about
one client and another that interferes; a third adds no new pair of statements.
`Lifecycle` has a third because a drop may race a drop of another name and a
creation, `DmlSegments` because the interesting case is a builder, a waiter of
its failed entry, and a third call that has put a newer entry under the key.
Three entries are enough there: each call points to one, and the map only to
those that are being built. Six tokens let both clients hold, orphan and
re-acquire the lease before a token is used again (`FirstFreshToken` breaks the
symmetry among tokens where liveness forbids declaring it; tokens are
interchangeable). Interval 1 separates a live lease, a lapsed one and one
between load and takeover. Two snapshots with any history before the consumer's
creation give a boundary before, at and after the end of a window; `CursorDdl`
has a third because expiry needs one to lose. In the index a capacity of 2 under
4 snapshots forces pruning in the middle of a load. In `Listen`, windows of 1
with matches 2 away make the span of the probe matter, and one fault puts a
lapse, a failure, a reset or a re-creation at any point of any call. In
`Bootstrap` two threads of one process race for its mutex and a process without
that mutex races both; two faults let a creation fail on every attempt, or a
process restart twice. Three operations in `DdlRows` are what it takes to rename
a table, create another under its name, and change one of them, in one
transaction or in several. What the bounds leave out of safety, the theorems
cover.

`VIEW`s in `CursorDdl` and the hand-run `CursorStaleRange` hide variables that
the checked properties and the actions of that instance do not read. Symmetry is
declared for safety only.

Deadlock is checked where the system never stops (`Lease*`, `Listen*`,
`DmlSegments`, `Bootstrap`): there it says that no call is ever stuck between
two statements. The bounded catalogs and the bounded number of creations in
`Cursor`, `SnapshotIndex`, `Lifecycle` and `DdlRows` come to rest, so their runs
say `CHECK_DEADLOCK FALSE`.

### Where the program differs from what it says

These configurations are run by hand; each checks one statement that a document
or a comment makes of the program, and TLC finds it violated. `findings` in
`PROJECT.json` quotes the statements.

| Configuration (module) | Violated | Because |
|---|---|---|
| `LeaseLegacyAudit` (`MCLease`) | `AuditMatchesTakeover` | the legacy path audits a takeover before the UPDATE that may miss |
| `CursorStaleRange` (`MCCursor`) | `CommitRespectsBoundary` | a safe commit range outlives the consumer it was resolved for |
| `CursorGap`, `CursorResetGap` | `WindowExact`, `PinnedShape` | snapshots expire between two statements |
| `CursorGuess` | `PinnedShape` | a commit ahead of the head is checked against the catalog as it is |
| `CursorRepeat`, `CursorBoundary`, `CursorTerminal` | `WindowRepeats`, `BoundaryAnnounced`, `TerminalMeansParked` | the end of a window follows the head and `max_snapshots`; the documents describe something else |
| `IndexTwoReaders` (`MCSnapshotIndex`) | `NoSnapshotMissed` | the index takes two disjoint ranges for one |
| `ListenSkips` (`MCListen`) | `NothingSkipped` | the probe does not know all that the extraction returns rows for |
| `ListenRecreated` (`MCListen`) | `NothingSkipped` | a waiting call advances the cursor of a new consumer over what the old one did not want |
| `LifecycleRacingDrops` (`MCLifecycle`) | `DropTakesWhatItSaw` | a drop deletes by name what it has read by id |
| `LifecycleSnapshot` (`MCLifecycle`) | `OneRowEach` | uniqueness rests on serializable transactions alone |
| `DmlSegmentsOneBuilder` (`DmlSegments`) | `OneBuilder` | a late waiter erases the key of a newer entry |
| `BootstrapLate`, `BootstrapPrecreated` (`MCBootstrap`) | `NamesReady` | a call is configured between its two critical sections; an empty schema passes for a complete one |
| `DdlRowsTimeline` (`MCDdlRows`) | `OneTimeline` | a name that several tables bore gives one diff |

`CursorRecreated` (`MCCursor`) is run by hand too, and passes: `WindowExact`
with a DML consumer that is dropped and created again with another of two
tables, while two clients read windows, guess commits, and reset it, in 6.5
million states. It fails when a drop or a creation leaves the lease in the row,
or when a window outlives the lease it was given under.

`NoCallStarves` of `DmlSegments` (the instance of `DmlSegmentsOneBuilder`, under
`FairSpec`) also fails, and contradicts no document: while others come
and go, a waiter can be woken to a newer entry each time. That is why
`EveryCallEnds` speaks of the time after the last call has come.

### Fairness

`Lease!Fairness`: a client takes the next statement of a call it is in, an idle
client asks for the lease again (consumers poll), and clocks advance. Failures
are not fair, and `OrphanRecovered` speaks of the time after they stop: without
that, a client may lose every lease it takes over.

`Listen!Fairness`: a call goes on until it ends (waits are bounded by the
timeout of the call, at most `HARD_WAIT_TIMEOUT_MS`), and each application keeps
calling a listen function, however often it also reads. The latter is strong
fairness, since being idle is not a lasting condition for an application that
also reads. Nothing is assumed of snapshots, faults or notifications.

`DmlSegments!Fairness`: a thread that wants the mutex gets it, a waiter that was
notified wakes up, and a scan ends, with rows or with an exception. Nothing is
assumed of spurious wake-ups, of which scans fail, or of new calls.

## The proofs

All theorems hold for every set of clients, readers, tables, keys, names and
processes, and for every value of the numeric constants. Every safety property
of the runs is proved, under the assumptions named here.

`Lease_proofs`. `TypeCorrect`. The inductive invariant `IInv` says that tokens
which are anywhere (row, caches, targets and loaded rows of calls) are told
apart by where they came from, and what the result of an UPDATE implies about
row and target; `AtMostOneHolder` alone is not inductive, because a
call that is about to cache a token holds it as much as the cache does. From it
follow `Exclusive`, `ReloadReliable`, `AuditExact` (for the returning path only:
on the other it is false) and `Refinement`, where every statement maps to a step
of `LeaseSpec` or to a stutter.

`Cursor_proofs`. `DmlWindowExact`, `DmlWindowBounded` and `DdlWindowExact` are
about the operators of `Window` alone. `TypeCorrect`. `Monotone` needs the order
between the cursor and a goal that has passed a check while the owner holds the
lease. `LandsOnSnapshot` holds where the existence of the snapshot is part of the
UPDATE (not on SQLite) and clients do not guess: `LandInv` says that what the
UPDATE refused stays refused until the call ends, so that the statements after
it only report.

The properties of a DML consumer rest on one another. `PastInv`: what calls in
flight remember lies in the past of the catalog. `LoadInv`: the subscriptions
that the call of the lease's holder has loaded are those the consumer has. A
call that holds no lease any more may go by those of a consumer that is gone,
and resolve a window for them. That is why `WindowExact` speaks of the lease's
holder, and it rests on `DropRow` and `Create` leaving no owner in the row
(`LeavesWindows`). With these `WindowsExact`,
`SafeRanges` and `PinnedToShape` hold because between two statements the
catalog only grows; each has the weakest of three named assumptions it
needs: `Kept` (nothing expires; the consumer may be dropped and created with
other tables at any time), `Lasting` (and a name stays with its table),
`Settled` (and clients do not guess, nor operators reset a consumer that is
being created again). Without them the properties are false, and a configuration
shows it: `CursorGap`, `CursorResetGap`, `CursorStaleRange`, `CursorGuess`. The
windows of a DDL consumer are exact in every environment (`DdlWindowsExact`).

`Refinement`: every statement of every call, on all three commit paths, is a step
of `CursorSpec` or a stutter. A commit moves the cursor in one step, made by the
client that was asked for it while it holds the lease, and never twice to different
places; this is what `Listen` assumes when it commits in one step.

`SnapshotIndex_proofs`. `TypeCorrect`, and `IndexBounded`, a count over finite
sets. `LoadInv` ties the range of a running load to the cursor;
`HolesStayBehind` and `LeaderExact` need it, and that no reader is reset.
`OneReaderExact` holds for a single reader, resets included. With two readers
and no further condition it is false (`IndexTwoReaders`).

`Listen_proofs`. Five invariants. `BoundInv`: nothing any call remembers is
beyond the head. `WakeInv`: who waits has looked at the head or is notified;
`NoWakeupLost` follows for every environment. `ReadyInv`: what a scan found is
the first match after the base it was found for, and its span the distance;
`MatchesReached` follows, again for every environment. `CallsInv` says what a
call relies on while it holds the lease: its base is the cursor, and there
is no row of its subscription in what it has inspected or passed. A call that has
lost the lease relies on nothing, since its commit is refused: that is why
the invariant is conditional on the owner, and why lapses and takeovers do no
harm. `AtLeastOnce` assumes `WaitsSeeRows` (the probe knows what the extraction
returns) and `SameScope` (a consumer is created again with the same
subscription). Without them it is false (`ListenSkips`, `ListenRecreated`).
`BatchInv` says that the rows of a call lie in its window, beyond the cursor it
has read. With `CallsInv` it makes them, while the call may commit them, exactly
what is due between that cursor and the end of the window, and `Refinement`
follows, under the same two assumptions: each step of a read is a step of
`DeliverySpec` or a stutter. In particular no commit, of the call or of the
application later, moves the cursor over a row that is not in the batch it
commits.

`Lifecycle_proofs`. Under a serializable backend and drops of one name that do
not race: `TypeCorrect`, `NamesAndIdsUnique`, `NothingInherited`,
`VisibleComplete`, `DropsAreAudited`. `CreateInv` says that a transaction that
is still clean has read the tables as they are, `DropInv` that a drop in
progress still finds its own row, under its name and its id, and that its audit
row is there. `OneRowEach` is not inductive without the first, nor the others
without the second. `LifecycleSnapshot` and `LifecycleRacingDrops` show that both
assumptions are needed.

`DmlSegments_proofs`. `TypeCorrect`, `EntriesAreBuilt`, `NobodyStranded`,
`WaitersServed`, without further assumption. `BuilderInv`: each entry has at most
one builder, and only a builder's entry is unfinished. `WaiterInv`: the entry of
a waiter is of its key, and is finished only if the waiter was notified.

`Bootstrap_proofs`. `TypeCorrect`. `CacheIsTruthful` needs that no empty schema
was there before, `OneHomeForAll` that all processes are configured alike before
their first call, `CallsNameTheTables` both. `TruthInv` follows a call from its
probe to the moment it remembers a schema; `HomeInv` says that every schema a
call has resolved, and a process has configured, is the one the operators want.
`BootstrapLate` and `BootstrapPrecreated` show what happens otherwise.

`DdlRows_proofs`. For any first catalog that is sound and proper
(`CatalogAssumption`: names and ids unique, columns in trees, as DuckLake keeps
them) and transactions of any number of operations. `Invariance`: `RowsInv` says that the
versioned rows of schemas, tables, views and columns still encode what there was
at every snapshot so far, `LifeInv` that an id stands for one thing for ever
and does not come back, `ChangesInv` and `BumpedInv` that the tokens and bumps
of a snapshot are those of the difference to the one before. A transaction keeps
them because every catalog it can make has grown out of the last by fresh
ids only (`Grown`), by induction over its operations; the library's induction
theorem takes an operator, and `LeastElement` does the same with a set. Then each
lookup of `ddl.cpp` is shown to find what was there, at the snapshot and with
the names it is asked for, and `RowsExact` follows: the rows of a snapshot are
those of what happened in it, each table once, however it was renamed and
altered. `Ticks` and `Statuses` are consequences, the latter by a second
induction: what is different at the end became different at some snapshot, and
has its row there (`FirstChange`).

`RowsReplayed` adds the order. `ProperInv` says that one counter gives all
objects of a catalog their ids, that the columns of a table form trees in which
a field is younger than its struct, and that what is new in a snapshot was in
none before; a transaction keeps it (`CommitSucceeds`). `SortedLists` shows that
a sequence whose i-th element is the one that i - 1 others precede lists them in
that order, and `RowsApplied` and `DiffsApplied` turn the fold over the sequence
into one step after another, by `LeastElement` again. `Between` is the catalog
when some of the rows have been applied, `Halfway` the same of the columns and
diffs of a table. Then one step is left: with every row before it applied, a row
finds what it needs (`RowPossible`: its schema is there, or empty) and changes
what it is about as the transaction did (`RowStep`), and so does a diff
(`DiffStep`, with `DepthIs` for the depth of nested columns). The theorem covers
any number of columns, fields in fields, and operations in one transaction, where
the run has three operations.

Two theorems go from one snapshot to a range. `FlattenIs` says what
`FlattenSeq` makes of a sequence of sequences, and `DiffsFlattened` and
`RowsFlattened` that a fold over it is a fold over each in turn.
`TimelinesReplay`: the diff of a table at one snapshot leads from the columns it
had to those it has (`SnapshotAdvance`, no columns where there is no table), and
so the diffs of a range lead from its start to its end (`RangeAdvance`).
`FollowersRebuild`: a row that a subscription covers does to the part of the
catalog the subscription is about what it does to the catalog, and any other row
leaves that part alone (`Tracks`, `PartTracks`). So the rows of a range lead the
part from its start to its end (`RangeLeads`), and leaving out those that the
filter drops changes nothing (`CoveredReplay`). This
needs that tables and views stay in their schema (`Placed`; DuckLake moves
none), and the order of the rows: `RowTracks` rests on `RowStep`. The filters of
`DdlRows` are written with `RowsWhere` and not with `SelectSeq`, of whose recursive
definition the prover can use nothing.

Only model-checked: liveness (`OrphanRecovered`, `EventuallyDelivered`,
`EveryCallEnds`), which is beyond the prover. Every invariant and every
action property that a run checks is stated by a theorem.

## Limits

A snapshot holds one thing in `Listen`; a change log entry of several tokens is
covered only as far as one of them decides. `Listen` takes windows and commits
as one step each; `Cursor` has their statements, and `SnapshotIndex` the scans
behind them: the three are not composed into one state space. Adaptive coalescing
of listen calls is a delay between two statements, and the interleavings allow
any. Explicit windows (`start_snapshot`, `end_snapshot`) and interrupts of a
waiting call are left out. The native Postgres path is modelled by its statements, not by libpq's
errors. Time is only in `Lease`; timeouts elsewhere are choices.

`Lifecycle` takes the rows of a creation as one subscription: they are inserted
in one transaction, so that they are there together. Ids and creations are
capped by `MaxCreations`.

In `CursorDml` `max_snapshots` is the number of snapshots, which a boundary
between the first touch and the end needs, and so never cuts a window off;
that it does no harm when it does is in `DmlWindowExact` and `DmlWindowBounded`,
for every length, and in `CursorDdl` and `Listen`. While a
drop is under way the consumer's row is there and its subscriptions are not;
the properties of a DML consumer say nothing of that time. A consumer is pinned
to one table; several would only make its sets of snapshots larger.

`DdlRows` assumes that DuckLake writes its rows as `Catalog` does, and that the
extension can read them: its lookups do not fail. In the code a lookup whose
query fails is taken for one that finds nothing (ddl.cpp:98, 132, 159, 173, 195,
270; consumer.cpp:3210 for the status of a subscription), so that an event may
come with NULL ids or without its columns, and be dropped by a filter; the
properties hold for calls in which no lookup fails. The code splits a qualified
name at its first dot (ddl.cpp:754-759), the model keeps schema and name as a
pair: names with dots in them are outside it. The row `table_rename` of
`cdc_schema_diff` (ddl.cpp:1834-1839) is left out; no property is about it.

## Not modelled

- Extraction of DML rows (`dml.cpp` 640-857): it builds a query over DuckLake's
  `table_changes` and copies the result. The columns are read when the call is
  bound and the rows when it runs; what DuckLake returns when the schema has
  changed in between is not decided in this repository.
- Stateless range queries (`dml.cpp` 1020-1250): no consumer, no lease, no
  state; what they ask of the change log is what `Catalog` and `DdlRows` have.
- Statistics, audit reads and doctor (`stats.cpp`): reports over the state
  tables that change nothing and promise no consistency between their queries.
- Registration of the functions, loading of libpq, argument parsing, messages
  and result types.
- The schema and preflight caches: they hold facts of a committed snapshot,
  which do not change, so that a hit and a miss give the same.

## Observations

Found on the way, each short of a finding: `created.schema` sorts before
`dropped.schema` of the same name in one transaction, so a follower sees two of
that name for a moment; `docs/api.md:655` lists an `event_kind` `renamed` for
objects that the code never emits (a rename is `altered.table` with the old
name); the comparator of `NormaliseDiffParentChildOrdering` (ddl.cpp:430-444)
calls diffs of different kinds equal, which is no strict weak order when an
alteration mixes them, and does no harm only because added columns come in the
order of `column_order`, a struct before its fields, and dropped ones without
others between them; a creation that fails after its COMMIT is tried again and refused
because the consumer, its own, exists.

## Plan

What would come next, in this order:

1. `Cursor` over `SnapshotIndex`: a commit or a reset that is validated through
   an index with a hole behind the head.
2. Several consumers of one catalog, each a `DeliverySpec` over the same log,
   with one index between them.
3. Stateless range queries against a catalog that expires.
