--------------------------- MODULE SnapshotIndex ---------------------------
(***************************************************************************)
(* The process-wide index of decoded snapshot changes of one catalog       *)
(* (SNAPSHOT_CHANGE_INDEXES and LoadDecodedSnapshotChanges of              *)
(* src/src/consumer.cpp), shared by the readers of all consumers.          *)
(*                                                                         *)
(* A reader loads the changes of (from, to]: it looks into the index under *)
(* its mutex, and on a miss queries the catalog without the mutex, and     *)
(* takes it again to merge what it found.                                  *)
(***************************************************************************)
EXTENDS Integers, FiniteSets

CONSTANTS
  Reader,        \* consumers, each read by one call at a time
  Capacity,      \* SNAPSHOT_CHANGE_INDEX_MAX_SNAPSHOTS_PER_CATALOG
  MaxSnapshot,   \* bound: the catalog stops growing at this snapshot
  Resets         \* operators use cdc_consumer_reset

ASSUME CapacityAssumption == Capacity \in Nat \ {0}
ASSUME MaxSnapshotAssumption == MaxSnapshot \in Nat
ASSUME ResetsAssumption == Resets \in BOOLEAN

VARIABLES
  head, oldest,  \* the snapshots that exist: oldest .. head
  changes,       \* the snapshots whose changes the index holds
  cursor,        \* cursor[r]: last_committed_snapshot of r's consumer
  pc,            \* pc[r]: the next step of r's load
  from, to,      \* from[r], to[r]: the range it is asked for
  rows           \* rows[r]: the snapshots it has found

vars == <<head, oldest, changes, cursor, pc, from, to, rows>>

Snapshot == 0 .. MaxSnapshot
NotCreated == -1

TypeOK ==
  /\ head \in Snapshot /\ oldest \in Snapshot
  /\ changes \in SUBSET Snapshot
  /\ cursor \in [Reader -> Snapshot \union {NotCreated}]
  /\ pc \in [Reader -> {"idle", "lookup", "query", "merge", "return"}]
  /\ from \in [Reader -> Snapshot] /\ to \in [Reader -> Snapshot]
  /\ rows \in [Reader -> SUBSET Snapshot]

Init ==
  /\ head = 0 /\ oldest = 0
  /\ changes = {}
  /\ cursor = [r \in Reader |-> NotCreated]
  /\ pc = [r \in Reader |-> "idle"]
  /\ from = [r \in Reader |-> 0] /\ to = [r \in Reader |-> 0]
  /\ rows = [r \in Reader |-> {}]

Goto(r, label) == pc' = [pc EXCEPT ![r] = label]

-----------------------------------------------------------------------------
(* The index *)

\* Mutant of InRange: the lower bound is off by one.
InRangeAfterFirst(r, s) == from[r] + 1 < s /\ s <= to[r]

\* The rows a load is asked for.
InRange(r, s) == from[r] < s /\ s <= to[r]

\* A hit: loaded_from <= from + 1 and loaded_to >= to.  The bounds are the
\* least and the greatest snapshot held, because every merge ends with
\* PruneSnapshotChangeIndexLocked, which sets them so.
Covers(S, lo, hi) == (\E s \in S : s <= lo + 1) /\ (\E s \in S : s >= hi)

\* Mutant of Prune: the limit is exceeded by one.
PruneLate(S) == {s \in S : Cardinality({t \in S : t > s}) <= Capacity}

\* Over capacity, the lowest snapshots go.
Prune(S) == {s \in S : Cardinality({t \in S : t > s}) < Capacity}

\* A merge of a range that ends before the index does starts it afresh.
Kept(S, hi) == IF \E s \in S : hi < s THEN {} ELSE S

-----------------------------------------------------------------------------
(* The environment *)

CommitSnapshot ==
  /\ head < MaxSnapshot
  /\ head' = head + 1
  /\ UNCHANGED <<oldest, changes, cursor, pc, from, to, rows>>

ExpireSnapshots ==
  /\ oldest < head
  /\ oldest' \in oldest + 1 .. head
  /\ UNCHANGED <<head, changes, cursor, pc, from, to, rows>>

\* A consumer is created at an existing snapshot (start_at).
Create(r) ==
  /\ cursor[r] = NotCreated
  /\ \E s \in oldest .. head : cursor' = [cursor EXCEPT ![r] = s]
  /\ UNCHANGED <<head, oldest, changes, pc, from, to, rows>>

\* The indexes of other catalogs have been used more recently.
EvictIndex ==
  /\ changes # {}
  /\ changes' = {}
  /\ UNCHANGED <<head, oldest, cursor, pc, from, to, rows>>

\* The process ends and another one starts: the cursors are in the catalog.
Restart ==
  /\ changes' = {}
  /\ pc' = [r \in Reader |-> "idle"]
  /\ from' = [r \in Reader |-> 0] /\ to' = [r \in Reader |-> 0]
  /\ rows' = [r \in Reader |-> {}]
  /\ UNCHANGED <<head, oldest, cursor>>

-----------------------------------------------------------------------------
(* LoadDecodedSnapshotChanges *)

\* A window loads from the cursor to the head it has read, a commit from
\* the cursor to the snapshot it is to validate.
BeginLoad(r) ==
  /\ pc[r] = "idle"
  /\ cursor[r] # NotCreated
  /\ from' = [from EXCEPT ![r] = cursor[r]]
  /\ \E s \in cursor[r] + 1 .. head : to' = [to EXCEPT ![r] = s]
  /\ Goto(r, "lookup")
  /\ UNCHANGED <<head, oldest, changes, cursor, rows>>

\* A reset to an earlier snapshot loads what lies between it and the cursor;
\* one to a later snapshot loads like a commit.
BeginReset(r) ==
  /\ Resets
  /\ pc[r] = "idle"
  /\ cursor[r] # NotCreated
  /\ \E s \in oldest .. cursor[r] - 1 : from' = [from EXCEPT ![r] = s]
  /\ to' = [to EXCEPT ![r] = cursor[r]]
  /\ Goto(r, "lookup")
  /\ UNCHANGED <<head, oldest, changes, cursor, rows>>

Lookup(r) ==
  /\ pc[r] = "lookup"
  /\ \/ /\ Covers(changes, from[r], to[r])
        /\ rows' = [rows EXCEPT ![r] = {s \in changes : InRange(r, s)}]
        /\ Goto(r, "return")
     \/ /\ ~Covers(changes, from[r], to[r])
        /\ Goto(r, "query")
        /\ UNCHANGED rows
  /\ UNCHANGED <<head, oldest, changes, cursor, from, to>>

Query(r) ==
  /\ pc[r] = "query"
  /\ rows' = [rows EXCEPT ![r] = {s \in oldest .. head : InRange(r, s)}]
  /\ Goto(r, "merge")
  /\ UNCHANGED <<head, oldest, changes, cursor, from, to>>

\* MergeDecodedSnapshotChanges.
Merge(r) ==
  /\ pc[r] = "merge"
  /\ changes' = Prune(Kept(changes, to[r]) \union rows[r])
  /\ Goto(r, "return")
  /\ UNCHANGED <<head, oldest, cursor, from, to, rows>>

\* The snapshots the cursor may be at when the call's window is committed, or
\* the consumer has been reset.
Reached(r) == from[r] .. to[r]

\* The caller gets the rows; the cursor stays, or moves to a snapshot of the
\* range that the window or the commit was about.
Return(r) ==
  /\ pc[r] = "return"
  /\ \E s \in Reached(r) : cursor' = [cursor EXCEPT ![r] = s]
  /\ Goto(r, "idle")
  /\ from' = [from EXCEPT ![r] = 0] /\ to' = [to EXCEPT ![r] = 0]
  /\ rows' = [rows EXCEPT ![r] = {}]
  /\ UNCHANGED <<head, oldest, changes>>

Next == \/ CommitSnapshot \/ ExpireSnapshots \/ EvictIndex \/ Restart
        \/ \E r \in Reader : \/ Create(r) \/ BeginLoad(r) \/ BeginReset(r)
                             \/ Lookup(r) \/ Query(r) \/ Merge(r) \/ Return(r)

Spec == Init /\ [][Next]_vars

-----------------------------------------------------------------------------
(* Properties *)

\* Every snapshot of r's range that still exists is among what r has found.
Complete(r) == \A s \in oldest .. head : from[r] < s /\ s <= to[r] => s \in rows[r]

\* No load leaves out a snapshot of its range, whether what it returns came
\* from the index or from the catalog.
NoSnapshotMissed == \A r \in Reader : pc[r] = "return" => Complete(r)

\* The same of the reader that no other is ahead of.
LeaderMissesNothing ==
  \A r \in Reader :
    pc[r] = "return" /\ (\A q \in Reader : cursor[q] <= cursor[r]) => Complete(r)

\* The index has no hole ahead of all cursors: a snapshot that lies between
\* two it holds is there too, however loads, evictions and other readers'
\* merges have interleaved.
NoHoleAhead ==
  \A s \in oldest .. head, lo \in changes, hi \in changes :
    lo <= s /\ s <= hi /\ (\A r \in Reader : cursor[r] < s) => s \in changes

\* A catalog's index never outgrows its capacity.
WithinCapacity == Cardinality(changes) <= Capacity
=============================================================================
