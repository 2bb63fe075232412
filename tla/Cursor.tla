------------------------------- MODULE Cursor -------------------------------
(***************************************************************************)
(* The cursor of one consumer: cdc_window, cdc_commit, cdc_consumer_reset, *)
(* and the drop and re-creation of the consumer under its name, against a  *)
(* catalog that grows and expires snapshots (src/src/consumer.cpp).        *)
(*                                                                         *)
(* The lease appears as LeaseSpec promises it: an owning client, which can *)
(* lose the lease between any two statements.  When that may happen (the   *)
(* lapse of the lease) is the subject of module Lease.  Every statement of *)
(* a call is one action; a failing statement ends its call.                *)
(***************************************************************************)
EXTENDS Window

CONSTANTS
  Client,        \* connections that use the consumer
  Nobody,        \* the owner of a free lease
  Table,         \* tables a DML consumer of this name can be pinned to
  Kind,          \* consumer_kind: "dml" or "ddl"
  Backend,       \* "returning" (DuckDB), "postgres" or "sqlite": the commit path
  MaxWindow,     \* max_snapshots of the calls
  MaxSnapshot,   \* bound: the catalog stops growing at this snapshot
  Guesses,       \* clients may commit snapshots that do not exist (yet)
  Resets,        \* operators use cdc_consumer_reset
  Expires,       \* DuckLake maintenance expires old snapshots
  Recreates      \* the consumer is dropped and created again

ASSUME NobodyAssumption == Nobody \notin Client
ASSUME KindAssumption == Kind \in {"dml", "ddl"}
ASSUME CommitAssumption == Backend \in {"returning", "postgres", "sqlite"}
ASSUME BoundsAssumption == MaxSnapshot \in Nat /\ MaxWindow \in Nat \ {0}
ASSUME SwitchAssumption == {Guesses, Resets, Expires, Recreates} \subseteq BOOLEAN

VARIABLES
  head, oldest,  \* the snapshots that exist: oldest .. head
  hits,          \* hits[t]: snapshots with events of table t
  shape,         \* shape[t]: snapshots that alter or drop t (or its schema)
  tables,        \* the pinned table of the subscription rows; {}: they are deleted
  owner, cursor, \* owner_token and last_committed_snapshot of the consumer's
                 \* row; the cursor is NoSnapshot when there is no row
  pinned,        \* history: the shape changes behind the consumer's creation
  pc,            \* pc[c]: the statement c's call runs next
  base,          \* base[c]: the cursor in the row c's call read
  seenHead,      \* seenHead[c]: the head c's window call read
  goal,          \* goal[c]: the snapshot c's commit or reset goes for
  loaded,        \* loaded[c]: the tables of the subscriptions c's call loaded
  win,           \* history: the window c was last given under the lease it has
  safe           \* safe[c]: DML_SAFE_COMMIT_RANGES entry of c's connection

catalog == <<head, oldest, hits, shape>>
locals  == <<base, seenHead, goal, loaded>>
vars == <<head, oldest, hits, shape, tables, owner, cursor, pinned, pc, base,
          seenHead, goal, loaded, win, safe>>

Snapshot == 0 .. MaxSnapshot
NoWindow == DmlWindow(0, 0, NoSnapshot, NoSnapshot, 1)
NoRange  == [cursor |-> NoSnapshot, until |-> NoSnapshot]

PC == {"idle", "load", "bounds", "resolve",
       "commit_load", "validate", "update", "verify", "recheck", "write",
       "reset_resolve", "reset_load", "reset_validate", "reset_write"}

TypeOK ==
  /\ head \in Snapshot /\ oldest \in Snapshot
  /\ hits \in [Table -> SUBSET Snapshot] /\ shape \in [Table -> SUBSET Snapshot]
  /\ tables \in SUBSET Table
  /\ owner \in Client \union {Nobody} /\ cursor \in Snapshot \union {NoSnapshot}
  /\ pinned \in SUBSET Snapshot
  /\ pc \in [Client -> PC]
  /\ base \in [Client -> Snapshot] /\ seenHead \in [Client -> Snapshot]
  /\ goal \in [Client -> Snapshot] /\ loaded \in [Client -> SUBSET Table]
  /\ win \in [Client -> [base: Snapshot, head: Snapshot, start: Nat, end: Snapshot,
                         boundary: Snapshot \union {NoSnapshot}]]
  /\ safe \in [Client -> [cursor: Snapshot \union {NoSnapshot},
                          until: Snapshot \union {NoSnapshot}]]

\* The snapshots that touch or reshape one of the tables of a subscription.
Hits(S)   == UNION {hits[t] : t \in S}
Shapes(S) == UNION {shape[t] : t \in S}

\* The shape changes at or before x: they tell the schema-shape epoch of x.
Behind(x) == {b \in Shapes(tables) : b <= x}

\* The consumer has just been created (start_at), in a catalog with a history.
Init ==
  /\ head \in Snapshot /\ oldest = 0
  /\ hits \in [Table -> SUBSET (1 .. head)] /\ shape \in [Table -> SUBSET (1 .. head)]
  /\ \E t \in Table : tables = {t}
  /\ owner = Nobody /\ cursor \in 0 .. head
  /\ pinned = Behind(cursor)
  /\ pc = [c \in Client |-> "idle"]
  /\ base = [c \in Client |-> 0] /\ seenHead = [c \in Client |-> 0]
  /\ goal = [c \in Client |-> 0] /\ loaded = [c \in Client |-> {}]
  /\ win = [c \in Client |-> NoWindow]
  /\ safe = [c \in Client |-> NoRange]

-----------------------------------------------------------------------------
(* Helpers *)

Exists(s) == oldest <= s /\ s <= head

\* What a scan of the change log can find: the rows that still exist, or
\* all of them when the index of decoded changes has kept the others.
Scans(S) == {S, {s \in S : s >= oldest}}

\* Mutant of FindsBoundary: a change in the requested snapshot is missed.
FindsInnerBoundary(S, lo, hi) == \E s \in S : lo < s /\ s < hi

\* NextDmlSubscribedSchemaChangeSnapshot finds a shape change in (lo, hi].
FindsBoundary(S, lo, hi) == \E s \in S : lo < s /\ s <= hi

\* Mutants of MayCommit: the order, the existence, or the owner is not checked.
MayCommitBack(c) == owner = c /\ Exists(goal[c])
MayCommitAbsent(c) == owner = c /\ cursor <= goal[c]
MayCommitFreed(c) == cursor <= goal[c] /\ Exists(goal[c])

\* What a commit demands of the row and the catalog.
MayCommit(c) == owner = c /\ cursor <= goal[c] /\ Exists(goal[c])

Goto(c, label) == pc' = [pc EXCEPT ![c] = label]

\* The call of c returns or throws, and its local variables are gone.
Return(c) ==
  /\ Goto(c, "idle")
  /\ base' = [base EXCEPT ![c] = 0]
  /\ seenHead' = [seenHead EXCEPT ![c] = 0]
  /\ goal' = [goal EXCEPT ![c] = 0]
  /\ loaded' = [loaded EXCEPT ![c] = {}]

-----------------------------------------------------------------------------
(* The catalog *)

\* DuckLake commits a snapshot that may touch one of the tables, change its
\* shape, or both.
CommitSnapshot ==
  /\ head < MaxSnapshot
  /\ head' = head + 1
  /\ \E t \in Table, touches \in BOOLEAN, alters \in BOOLEAN :
       /\ hits' = IF touches THEN [hits EXCEPT ![t] = @ \union {head + 1}] ELSE hits
       /\ shape' = IF alters THEN [shape EXCEPT ![t] = @ \union {head + 1}] ELSE shape
  /\ UNCHANGED <<oldest, tables, owner, cursor, pinned, pc, locals, win, safe>>

ExpireSnapshots ==
  /\ Expires
  /\ oldest < head
  /\ oldest' \in oldest + 1 .. head
  /\ UNCHANGED <<head, hits, shape, tables, owner, cursor, pinned, pc, locals, win,
                 safe>>

-----------------------------------------------------------------------------
(* cdc_window *)

\* The lease is acquired or refreshed; RETURNING or the reload of the row
\* gives the cursor.  A lapsed lease may be another client's until then, and
\* no window has been given under a lease that c did not have.
AcquireForWindow(c) ==
  /\ pc[c] = "idle"
  /\ cursor # NoSnapshot
  /\ owner' = c
  /\ win' = IF owner = c THEN win ELSE [win EXCEPT ![c] = NoWindow]
  /\ base' = [base EXCEPT ![c] = cursor]
  /\ Goto(c, IF Kind = "dml" THEN "load" ELSE "bounds")
  /\ UNCHANGED <<catalog, tables, cursor, pinned, seenHead, goal, loaded, safe>>

\* LoadDmlConsumerSubscriptions, before the scan of a window, of a commit or
\* of a reset.  It goes by the name, and finds nothing while a drop is under
\* way.
LoadSubscriptions(c) ==
  /\ \/ pc[c] = "load" /\ Goto(c, "bounds")
     \/ pc[c] = "commit_load" /\ Goto(c, "validate")
     \/ pc[c] = "reset_load" /\ Goto(c, "reset_validate")
  /\ loaded' = [loaded EXCEPT ![c] = tables]
  /\ UNCHANGED <<catalog, tables, owner, cursor, pinned, base, seenHead, goal, win, safe>>

\* DML: the bounds query.  A cursor that is not a snapshot any more raises
\* CDC_GAP.
ReadBounds(c) ==
  /\ Kind = "dml"
  /\ pc[c] = "bounds"
  /\ \/ /\ Exists(base[c])
        /\ seenHead' = [seenHead EXCEPT ![c] = head]
        /\ Goto(c, "resolve")
        /\ UNCHANGED <<base, goal, loaded>>
     \/ /\ ~Exists(base[c])
        /\ Return(c)
  /\ UNCHANGED <<catalog, tables, owner, cursor, pinned, win, safe>>

\* DML: the change log up to that head is scanned for the subscriptions that
\* were loaded.
\* The second scan, for the boundary, finds the rows the first has decoded
\* (module SnapshotIndex).  With the cursor at the head the shortcut for
\* Postgres gives this result too.
ResolveDml(c) ==
  /\ pc[c] = "resolve"
  /\ \E H \in Scans(Hits(loaded[c])), B \in Scans(Shapes(loaded[c])),
        first \in Snapshot \union {NoSnapshot}, boundary \in Snapshot \union {NoSnapshot} :
       LET w == DmlWindow(base[c], seenHead[c], first, boundary, MaxWindow)
       IN /\ IsFirst(first, H, base[c], seenHead[c])
          /\ IsFirst(boundary, B, base[c], seenHead[c])
          /\ win' = [win EXCEPT ![c] = w]
          /\ safe' = [safe EXCEPT ![c] = [cursor |-> base[c], until |-> SafeUntil(w)]]
  /\ Return(c)
  /\ UNCHANGED <<catalog, tables, owner, cursor, pinned>>

\* DDL: one query reads the bounds and the first change after the cursor.
ResolveDdl(c) ==
  /\ Kind = "ddl"
  /\ pc[c] = "bounds"
  /\ \/ /\ Exists(base[c])
        /\ \E first \in Snapshot \union {NoSnapshot} :
             /\ IsFirst(first, oldest .. head, base[c], head)
             /\ win' = [win EXCEPT ![c] = DdlWindow(base[c], head, first, MaxWindow)]
     \/ /\ ~Exists(base[c])
        /\ UNCHANGED win
  /\ Return(c)
  /\ UNCHANGED <<catalog, tables, owner, cursor, pinned, safe>>

-----------------------------------------------------------------------------
(* cdc_commit *)

\* The row is loaded.  A cached safe range for its cursor spares the call
\* the boundary check, and so does a snapshot that is not past the cursor.
\* A client commits what a window or a listen call has shown it, so that s
\* was in the catalog once, unless it guesses.
BeginCommit(c, s) ==
  /\ pc[c] = "idle"
  /\ cursor # NoSnapshot
  /\ Guesses \/ s <= head
  /\ base' = [base EXCEPT ![c] = cursor]
  /\ goal' = [goal EXCEPT ![c] = s]
  /\ win' = [win EXCEPT ![c] = NoWindow]
  /\ LET spared == \/ Kind = "ddl" \/ s <= cursor
                   \/ safe[c].cursor = cursor /\ s <= safe[c].until
     IN Goto(c, IF spared THEN "update" ELSE "commit_load")
  /\ UNCHANGED <<catalog, tables, owner, cursor, pinned, seenHead, loaded, safe>>

\* ValidateDmlConsumerShapeBoundary: what was loaded decides.
ValidateCommit(c) ==
  /\ pc[c] = "validate"
  /\ \E B \in Scans(Shapes(loaded[c])) :
       \/ ~FindsBoundary(B, base[c], goal[c]) /\ Goto(c, "update") /\ UNCHANGED locals
       \/ FindsBoundary(B, base[c], goal[c]) /\ Return(c)
  /\ UNCHANGED <<catalog, tables, owner, cursor, pinned, win, safe>>

\* One UPDATE has owner, order and existence in its WHERE clause: RETURNING
\* tells whether it matched, Postgres asks for the row again, SQLite skips it.
UpdateCursor(c) ==
  /\ pc[c] = "update"
  /\ \/ /\ Backend = "returning" /\ MayCommit(c)
        /\ cursor' = goal[c]
        /\ Return(c)
     \/ /\ Backend = "postgres"
        /\ cursor' = IF MayCommit(c) THEN goal[c] ELSE cursor
        /\ Goto(c, "verify")
        /\ UNCHANGED locals
     \/ /\ Backend = "sqlite" \/ (Backend = "returning" /\ ~MayCommit(c))
        /\ Goto(c, "recheck")
        /\ UNCHANGED <<cursor, locals>>
  /\ UNCHANGED <<catalog, tables, owner, pinned, win, safe>>

\* VerifyCommittedConsumer; when it finds nothing, the legacy statements
\* find out why.
VerifyCommit(c) ==
  /\ pc[c] = "verify"
  /\ LET verified == owner = c /\ cursor = goal[c]
     IN \/ verified /\ Return(c)
        \/ ~verified /\ Goto(c, "recheck") /\ UNCHANGED locals
  /\ UNCHANGED <<catalog, tables, owner, cursor, pinned, win, safe>>

\* Legacy: the row is loaded again; CDC_BUSY and ValidateCommitSnapshot.
RecheckCommit(c) ==
  /\ pc[c] = "recheck"
  /\ \/ MayCommit(c) /\ Goto(c, "write") /\ UNCHANGED locals
     \/ ~MayCommit(c) /\ Return(c)
  /\ UNCHANGED <<catalog, tables, owner, cursor, pinned, win, safe>>

\* Mutant of WriteCursor: the UPDATE goes by the name alone.
WriteCursorByName(c) ==
  /\ pc[c] = "write"
  /\ cursor' = goal[c]
  /\ Return(c)
  /\ UNCHANGED <<catalog, tables, owner, pinned, win, safe>>

\* Legacy: this UPDATE looks at the owner only.
WriteCursor(c) ==
  /\ pc[c] = "write"
  /\ cursor' = IF owner = c THEN goal[c] ELSE cursor
  /\ Return(c)
  /\ UNCHANGED <<catalog, tables, owner, pinned, win, safe>>

-----------------------------------------------------------------------------
(* cdc_consumer_reset, the lease, and the consumer's name *)

\* The row is loaded.
BeginReset(c) ==
  /\ Resets
  /\ pc[c] = "idle"
  /\ cursor # NoSnapshot
  /\ base' = [base EXCEPT ![c] = cursor]
  /\ Goto(c, "reset_resolve")
  /\ UNCHANGED <<catalog, tables, owner, cursor, pinned, seenHead, goal, loaded, win, safe>>

\* ResolveResetSnapshot: the target exists.  A reset to the cursor is not
\* validated.
ResolveReset(c, s) ==
  /\ pc[c] = "reset_resolve"
  /\ Exists(s)
  /\ goal' = [goal EXCEPT ![c] = s]
  /\ Goto(c, IF Kind = "ddl" \/ s = base[c] THEN "reset_write" ELSE "reset_load")
  /\ UNCHANGED <<catalog, tables, owner, cursor, pinned, base, seenHead, loaded, win, safe>>

\* ValidateDmlConsumerResetTarget: no boundary between cursor and target.
ValidateReset(c) ==
  /\ pc[c] = "reset_validate"
  /\ \E B \in Scans(Shapes(loaded[c])) :
       LET crosses == \/ FindsBoundary(B, base[c], goal[c])
                      \/ FindsBoundary(B, goal[c], base[c])
       IN \/ ~crosses /\ Goto(c, "reset_write") /\ UNCHANGED locals
          \/ crosses /\ Return(c)
  /\ UNCHANGED <<catalog, tables, owner, cursor, pinned, win, safe>>

\* The UPDATE goes by name alone and clears the lease.
WriteReset(c) ==
  /\ pc[c] = "reset_write"
  /\ \/ cursor # NoSnapshot /\ cursor' = goal[c] /\ owner' = Nobody
     \/ cursor = NoSnapshot /\ UNCHANGED <<cursor, owner>>
  /\ Return(c)
  /\ UNCHANGED <<catalog, tables, pinned, win, safe>>

\* Released, force-released, or orphaned by a failure.
LoseLease ==
  /\ owner # Nobody
  /\ owner' = Nobody
  /\ UNCHANGED <<catalog, tables, cursor, pinned, pc, locals, win, safe>>

\* cdc_consumer_drop deletes the subscriptions and then the row, if nothing
\* fails in between.  Two drops at a time are a matter of module Lifecycle.
DropSubscriptions ==
  /\ Recreates
  /\ tables # {}
  /\ tables' = {}
  /\ UNCHANGED <<catalog, owner, cursor, pinned, pc, locals, win, safe>>

DropRow ==
  /\ Recreates
  /\ cursor # NoSnapshot /\ tables = {}
  /\ cursor' = NoSnapshot
  /\ owner' = Nobody
  /\ UNCHANGED <<catalog, tables, pinned, pc, locals, win, safe>>

\* A consumer of the same name is created, in one transaction, at a snapshot
\* that existed when it was looked up.  The caches of the connections are
\* keyed by name.
Create(t, s) ==
  /\ Recreates
  /\ cursor = NoSnapshot
  /\ s <= head
  /\ tables' = {t}
  /\ cursor' = s
  /\ owner' = Nobody
  /\ pinned' = {b \in shape[t] : b <= s}
  /\ UNCHANGED <<catalog, pc, locals, win, safe>>

\* A statement of c's call throws.
StatementFails(c) ==
  /\ pc[c] # "idle"
  /\ Return(c)
  /\ UNCHANGED <<catalog, tables, owner, cursor, pinned, win, safe>>

Step(c) == \/ LoadSubscriptions(c) \/ ReadBounds(c) \/ ResolveDml(c) \/ ResolveDdl(c)
           \/ ValidateCommit(c) \/ UpdateCursor(c) \/ VerifyCommit(c)
           \/ RecheckCommit(c) \/ WriteCursor(c)
           \/ ValidateReset(c) \/ WriteReset(c)

Next == \/ CommitSnapshot \/ ExpireSnapshots \/ LoseLease
        \/ DropSubscriptions \/ DropRow \/ \E t \in Table, s \in Snapshot : Create(t, s)
        \/ \E c \in Client : \/ AcquireForWindow(c) \/ BeginReset(c)
                             \/ \E s \in Snapshot : BeginCommit(c, s) \/ ResolveReset(c, s)
                             \/ Step(c)
                             \/ StatementFails(c)

Spec == Init /\ [][Next]_vars

-----------------------------------------------------------------------------
(* Properties *)

\* The shape changes of the pinned table at or before the cursor are those
\* that preceded the consumer's creation, whatever its clients commit and
\* its operators reset: a DML consumer stays in its schema-shape epoch, until
\* it is dropped.
PinnedShape ==
  Kind = "dml" /\ tables # {} => Behind(cursor) = pinned

\* A cached range that spares commits the boundary check holds no boundary.
SafeRangeSound ==
  \A c \in Client, b \in Shapes(tables) :
    ~(safe[c].cursor < b /\ b <= safe[c].until /\ safe[c].cursor # NoSnapshot)

\* A window given under the lease its client has leaves no event of the
\* consumer's table out and lets no shape change in, although the catalog
\* has grown since, and however the statements it was resolved by interleave
\* with resets, and with the drop and creation of consumers of this name.
WindowExact ==
  \A c \in Client : owner = c =>
    /\ Kind = "ddl" => Exact(win[c], 1 .. head, {})
    /\ Kind = "dml" /\ tables # {} => Exact(win[c], Hits(tables), Shapes(tables))

\* Only a reset, a drop or a creation moves the cursor back: no commit does,
\* however late its last statement runs.
CursorMonotone ==
  [][cursor' >= cursor \/ owner' = Nobody]_vars

\* A commit puts the cursor on a snapshot that is in the catalog: it never
\* leaves the consumer in a gap of its own making.
CommitLandsOnSnapshot ==
  [][cursor' # cursor /\ owner' # Nobody => Exists(cursor')]_vars

\* What the call of a client is about.
Request(c) ==
  CASE pc[c] \in {"commit_load", "validate", "update", "verify", "recheck", "write"} ->
         [kind |-> "commit", snapshot |-> goal[c]]
    [] pc[c] \in {"reset_load", "reset_validate", "reset_write"} ->
         [kind |-> "reset", snapshot |-> goal[c]]
    [] OTHER -> [kind |-> "none", snapshot |-> 0]

Abstract == INSTANCE CursorSpec WITH
  Strict <- Backend # "sqlite" /\ ~Guesses, NoRow <- NoSnapshot,
  request <- [c \in Client |-> Request(c)]

\* The statements of windows, commits and resets implement the row of
\* CursorSpec: however late the last statement of a commit runs, it acts for
\* the client that holds the lease since it asked, and goes forward.
ImplementsCursorSpec == Abstract!Spec

\* A commit never passes a shape change of the pinned table.
CommitRespectsBoundary ==
  [][Kind = "dml" /\ owner' # Nobody =>
       \A b \in Shapes(tables) : ~(cursor < b /\ b <= cursor')]_vars

\* Until its holder commits, the window does not change.
WindowRepeats ==
  [][\A c \in Client :
       win[c] # NoWindow /\ win'[c] # NoWindow /\ owner = c
         /\ win'[c].base = win[c].base => win'[c] = win[c]]_vars

\* A boundary between the cursor and the head a window saw is announced.
BoundaryAnnounced ==
  Kind = "dml" => \A c \in Client : \A b \in Shapes(tables) :
    owner = c /\ win[c].base < b /\ b <= win[c].head => win[c].boundary # NoSnapshot

\* A terminal window means a cursor parked right before the boundary.
TerminalMeansParked ==
  \A c \in Client : owner = c /\ Terminal(win[c]) => win[c].base = win[c].boundary - 1
=============================================================================
