------------------------ MODULE SnapshotIndex_proofs ------------------------
(***************************************************************************)
(* Proofs about SnapshotIndex, for any readers and any capacity.           *)
(***************************************************************************)
EXTENDS SnapshotIndex, FiniteSetTheorems, TLAPS

\* Pruning takes from the low end: what is above a survivor survives.
LEMMA PruneKeepsTop ==
  ASSUME NEW S \in SUBSET Snapshot, NEW low \in Prune(S), NEW s \in S, low <= s
  PROVE  s \in Prune(S)
  <1> DEFINE Above(x) == {t \in S : t > x}
  <1>1. IsFiniteSet(Above(low))
    <2>1. IsFiniteSet(Snapshot)
      BY FS_Interval, MaxSnapshotAssumption DEF Snapshot
    <2> QED
      BY <2>1, FS_Subset
  <1>2. low \in Snapshot /\ s \in Snapshot
    BY DEF Prune
  <1>3. Above(s) \in SUBSET Above(low)
    <2> SUFFICES ASSUME NEW t \in S, t > s PROVE t > low
      OBVIOUS
    <2>1. t \in Int /\ s \in Int /\ low \in Int
      BY <1>2 DEF Snapshot
    <2> QED
      BY <2>1
  <1>4. Cardinality(Above(s)) <= Cardinality(Above(low))
    BY <1>1, <1>3, FS_Subset
  <1>5. Cardinality(Above(s)) \in Nat /\ Cardinality(Above(low)) \in Nat
    BY <1>1, <1>3, FS_Subset, FS_CardinalityType
  <1>6. Cardinality(Above(low)) < Capacity
    BY DEF Prune
  <1> QED
    BY <1>4, <1>5, <1>6, CapacityAssumption DEF Prune

\* Every variable keeps its type; the snapshots in existence are an interval
\* and nothing but what has existed is in the index.
TypeInv ==
  /\ TypeOK
  /\ oldest <= head
  /\ \A s \in changes : s <= head
  /\ \A r \in Reader : cursor[r] <= head

\* While a load runs, its range starts or ends at the cursor and ends at an
\* existing snapshot, and what it queried stays complete.
LoadInv ==
  \A r \in Reader :
    /\ pc[r] # "idle" => /\ from[r] = cursor[r] \/ (Resets /\ to[r] = cursor[r])
                         /\ from[r] <= to[r] /\ to[r] <= head
    /\ pc[r] = "merge" => Complete(r) /\ \A s \in rows[r] : from[r] < s /\ s <= to[r]

\* The proofs split [Next]_vars into these cases.
LEMMA NextCases ==
  ASSUME [Next]_vars
  PROVE  \/ CommitSnapshot \/ ExpireSnapshots \/ EvictIndex \/ Restart
         \/ \E r \in Reader : Create(r)
         \/ \E r \in Reader : BeginLoad(r)
         \/ \E r \in Reader : BeginReset(r)
         \/ \E r \in Reader : Lookup(r)
         \/ \E r \in Reader : Query(r)
         \/ \E r \in Reader : Merge(r)
         \/ \E r \in Reader : Return(r)
         \/ UNCHANGED vars
  BY DEF Next

\* The types, and what they say of the catalog, hold initially and are kept.
LEMMA TypeInvInit == Init => TypeInv
  BY MaxSnapshotAssumption DEF Init, TypeInv, TypeOK, Snapshot, NotCreated

LEMMA TypeInvStep ==
  ASSUME TypeInv, LoadInv, [Next]_vars
  PROVE  TypeInv'
  <1> USE MaxSnapshotAssumption DEF TypeInv, TypeOK, Snapshot, NotCreated, Goto
  <1>1. CASE CommitSnapshot
    BY <1>1 DEF CommitSnapshot
  <1>2. CASE ExpireSnapshots
    BY <1>2 DEF ExpireSnapshots
  <1>3. CASE EvictIndex
    BY <1>3 DEF EvictIndex
  <1>4. CASE Restart
    BY <1>4 DEF Restart
  <1>5. ASSUME NEW r \in Reader, Create(r) PROVE TypeInv'
    BY <1>5 DEF Create
  <1>6. ASSUME NEW r \in Reader, BeginLoad(r) PROVE TypeInv'
    BY <1>6 DEF BeginLoad
  <1>12. ASSUME NEW r \in Reader, BeginReset(r) PROVE TypeInv'
    BY <1>12 DEF BeginReset
  <1>7. ASSUME NEW r \in Reader, Lookup(r) PROVE TypeInv'
    BY <1>7 DEF Lookup
  <1>8. ASSUME NEW r \in Reader, Query(r) PROVE TypeInv'
    BY <1>8 DEF Query
  <1>9. ASSUME NEW r \in Reader, Merge(r) PROVE TypeInv'
    <2>1. /\ changes' \in SUBSET (changes \union rows[r])
          /\ \A s \in rows[r] : s <= head
      <3>1. changes' \in SUBSET (changes \union rows[r])
        BY <1>9 DEF Merge, Prune, Kept
      <3>2. to[r] \in Int /\ to[r] <= head /\ \A s \in rows[r] : s <= to[r]
        BY <1>9 DEF Merge, LoadInv
      <3>3. \A s \in rows[r] : s \in Int
        OBVIOUS
      <3> QED
        BY <3>1, <3>2, <3>3
    <2> QED
      BY <1>9, <2>1 DEF Merge
  <1>10. ASSUME NEW r \in Reader, Return(r) PROVE TypeInv'
    BY <1>10 DEF Return, Reached, LoadInv
  <1>11. CASE UNCHANGED vars
    BY <1>11 DEF vars
  <1> QED
    BY <1>1, <1>2, <1>3, <1>4, <1>5, <1>6, <1>7, <1>8, <1>9, <1>10, <1>11,
       <1>12, NextCases

\* A load in progress stays anchored at its cursor: nothing but its own
\* return moves the cursor of a consumer that exists.
LEMMA LoadInvStep ==
  ASSUME TypeInv, LoadInv, [Next]_vars
  PROVE  LoadInv'
  <1> USE MaxSnapshotAssumption DEF TypeInv, TypeOK, Snapshot, NotCreated, LoadInv, Complete, Goto, InRange
  <1>1. CASE CommitSnapshot
    BY <1>1 DEF CommitSnapshot
  <1>2. CASE ExpireSnapshots
    BY <1>2 DEF ExpireSnapshots
  <1>3. CASE EvictIndex
    BY <1>3 DEF EvictIndex
  <1>4. CASE Restart
    BY <1>4 DEF Restart
  <1>5. ASSUME NEW r \in Reader, Create(r) PROVE LoadInv'
    BY <1>5 DEF Create
  <1>6. ASSUME NEW r \in Reader, BeginLoad(r) PROVE LoadInv'
    BY <1>6 DEF BeginLoad
  <1>12. ASSUME NEW r \in Reader, BeginReset(r) PROVE LoadInv'
    BY <1>12 DEF BeginReset
  <1>7. ASSUME NEW r \in Reader, Lookup(r) PROVE LoadInv'
    BY <1>7 DEF Lookup
  <1>8. ASSUME NEW r \in Reader, Query(r) PROVE LoadInv'
    BY <1>8 DEF Query
  <1>9. ASSUME NEW r \in Reader, Merge(r) PROVE LoadInv'
    BY <1>9 DEF Merge
  <1>10. ASSUME NEW r \in Reader, Return(r) PROVE LoadInv'
    BY <1>10 DEF Return, Reached
  <1>11. CASE UNCHANGED vars
    BY <1>11 DEF vars
  <1> QED
    BY <1>1, <1>2, <1>3, <1>4, <1>5, <1>6, <1>7, <1>8, <1>9, <1>10, <1>11,
       <1>12, NextCases

LEMMA Loads == Spec => [](TypeInv /\ LoadInv)
  <1>1. Init => TypeInv /\ LoadInv
    BY TypeInvInit DEF Init, LoadInv
  <1>2. TypeInv /\ LoadInv /\ [Next]_vars => TypeInv' /\ LoadInv'
    BY TypeInvStep, LoadInvStep
  <1> QED
    BY <1>1, <1>2, PTL DEF Spec

\* Every variable of the index and of the loads keeps its type.
THEOREM TypeCorrect == Spec => []TypeOK
  <1>1. TypeInv => TypeOK
    BY DEF TypeInv
  <1> QED
    BY <1>1, Loads, PTL

\* After a merge the index ends where the merged range does.
LEMMA MergeBounded ==
  ASSUME TypeInv, LoadInv, NEW r \in Reader, Merge(r), NEW x \in changes'
  PROVE  x <= to[r]
  <1>1. x \in Kept(changes, to[r]) \union rows[r]
    BY DEF Merge, Prune
  <1>2. CASE x \in rows[r]
    BY <1>2 DEF Merge, LoadInv
  <1>3. CASE x \in Kept(changes, to[r])
    <2>1. x \in changes /\ ~(to[r] < x)
      BY <1>3 DEF Kept
    <2>2. x \in Int /\ to[r] \in Int
      BY <2>1, MaxSnapshotAssumption DEF TypeInv, TypeOK, Snapshot
    <2> QED
      BY <2>1, <2>2
  <1> QED
    BY <1>1, <1>2, <1>3

-----------------------------------------------------------------------------
(* Many readers, no resets *)

\* Only a creation or a return moves a cursor, and never back.
LEMMA CursorsAdvance ==
  ASSUME ~Resets, TypeInv, LoadInv, [Next]_vars
  PROVE  \A r \in Reader : cursor[r] <= cursor'[r]
  <1> USE MaxSnapshotAssumption DEF TypeInv, TypeOK, Snapshot, NotCreated
  <1>1. ASSUME NEW r \in Reader, Create(r) PROVE \A q \in Reader : cursor[q] <= cursor'[q]
    BY <1>1 DEF Create
  <1>2. ASSUME NEW r \in Reader, Return(r) PROVE \A q \in Reader : cursor[q] <= cursor'[q]
    BY <1>2 DEF Return, Reached, LoadInv
  <1>3. CASE UNCHANGED cursor
    BY <1>3
  <1> QED
    BY <1>1, <1>2, <1>3, NextCases
    DEF CommitSnapshot, ExpireSnapshots, EvictIndex, Restart, BeginLoad, BeginReset,
        Lookup, Query, Merge, vars

\* A merge fills its whole range, so that it opens no hole ahead of its own
\* cursor; and no other step adds to the index.
LEMMA NoHoleAheadStep ==
  ASSUME ~Resets, TypeInv, LoadInv, NoHoleAhead, [Next]_vars
  PROVE  NoHoleAhead'
  <1> USE MaxSnapshotAssumption DEF TypeInv, TypeOK, Snapshot, NotCreated
  <1>1. \A s \in Int : (\A r \in Reader : cursor'[r] < s) => (\A r \in Reader : cursor[r] < s)
    <2>1. \A r \in Reader : cursor[r] \in Int /\ cursor'[r] \in Int /\ cursor[r] <= cursor'[r]
      <3>1. TypeInv'
        BY TypeInvStep
      <3> QED
        BY <3>1, CursorsAdvance
    <2> QED
      BY <2>1
  <1>2. ASSUME NEW r \in Reader, Merge(r) PROVE NoHoleAhead'
    <2> SUFFICES ASSUME NEW s \in oldest .. head, NEW lo \in changes', NEW hi \in changes',
                        lo <= s, s <= hi, \A q \in Reader : cursor[q] < s
                 PROVE  s \in changes'
      BY <1>2 DEF Merge, NoHoleAhead
    <2> DEFINE S == Kept(changes, to[r]) \union rows[r]
    <2>1. S \in SUBSET Snapshot /\ lo \in Prune(S) /\ hi \in S
      BY <1>2 DEF Merge, Kept, Prune
    <2>2. hi <= to[r]
      BY <1>2, MergeBounded
    <2>3. from[r] < s /\ s <= to[r]
      BY <1>2, <2>1, <2>2 DEF Merge, LoadInv
    <2>4. s \in S
      BY <1>2, <2>3 DEF Merge, LoadInv, Complete
    <2>5. s \in Prune(S)
      <3> HIDE DEF S
      <3> QED
        BY <2>1, <2>4, PruneKeepsTop
    <2> QED
      BY <1>2, <2>5 DEF Merge
  <1>3. CASE CommitSnapshot
    <2> SUFFICES ASSUME NEW s \in oldest .. head', NEW hi \in changes, s <= hi
                 PROVE  s \in oldest .. head
      BY <1>1, <1>3 DEF CommitSnapshot, NoHoleAhead
    <2> QED
      BY <1>3 DEF CommitSnapshot
  <1>4. CASE changes' = {}
    BY <1>4 DEF NoHoleAhead
  <1>5. CASE changes' = changes /\ head' = head /\ oldest' \in oldest .. head
    BY <1>1, <1>5 DEF NoHoleAhead
  <1> QED
    BY <1>2, <1>3, <1>4, <1>5, NextCases
    DEF ExpireSnapshots, EvictIndex, Restart, Create, BeginLoad, BeginReset, Lookup, Query,
        Return, vars

\* A hit of the reader that is ahead of all others lies in no hole.
LEMMA LeaderStep ==
  ASSUME ~Resets, TypeInv, LoadInv, NoHoleAhead, LeaderMissesNothing, [Next]_vars
  PROVE  LeaderMissesNothing'
  <1> USE MaxSnapshotAssumption DEF TypeInv, TypeOK, Snapshot, NotCreated, Goto
  <1> SUFFICES ASSUME NEW r \in Reader, pc'[r] = "return",
                      \A q \in Reader : cursor'[q] <= cursor'[r]
               PROVE  Complete(r)'
    BY DEF LeaderMissesNothing
  <1>1. TypeInv' /\ \A q \in Reader : cursor[q] <= cursor'[q]
    BY TypeInvStep, CursorsAdvance
  <1>2. CASE Lookup(r)
    <2> SUFFICES ASSUME NEW s \in oldest .. head, from[r] < s, s <= to[r]
                 PROVE  s \in changes
      BY <1>2 DEF Lookup, Complete, InRange
    <2>1. \A q \in Reader : cursor[q] < s
      BY <1>2 DEF Lookup, LoadInv
    <2>2. PICK lo \in changes, hi \in changes : lo <= from[r] + 1 /\ to[r] <= hi
      BY <1>2 DEF Lookup, Covers
    <2>3. lo <= s /\ s <= hi
      <3>1. lo \in Int /\ hi \in Int
        OBVIOUS
      <3>2. from[r] \in Int /\ to[r] \in Int
        OBVIOUS
      <3>3. s \in Int
        OBVIOUS
      <3> QED
        BY <2>2, <3>1, <3>2, <3>3
    <2> QED
      BY <2>1, <2>3 DEF NoHoleAhead
  <1>3. CASE Merge(r)
    BY <1>3 DEF Merge, LoadInv, Complete
  <1>4. CASE pc[r] = "return" /\ from'[r] = from[r] /\ to'[r] = to[r] /\ rows'[r] = rows[r]
             /\ cursor'[r] = cursor[r] /\ oldest <= oldest' /\ head <= head'
    <2>1. \A q \in Reader : cursor[q] <= cursor[r]
      BY <1>1, <1>4
    <2>2. Complete(r) /\ to[r] <= head
      BY <1>4, <2>1 DEF LeaderMissesNothing, LoadInv
    <2> QED
      BY <1>1, <1>4, <2>2 DEF Complete
  <1>5. ASSUME NEW q \in Reader, q # r, Lookup(q) \/ Merge(q)
        PROVE  pc[r] = "return" /\ from'[r] = from[r] /\ to'[r] = to[r] /\ rows'[r] = rows[r]
             /\ cursor'[r] = cursor[r] /\ oldest <= oldest' /\ head <= head'
    BY <1>5 DEF Lookup, Merge
  <1>6. ASSUME NEW q \in Reader, Create(q) \/ BeginLoad(q) \/ BeginReset(q) \/ Query(q) \/ Return(q)
        PROVE  pc[r] = "return" /\ from'[r] = from[r] /\ to'[r] = to[r] /\ rows'[r] = rows[r]
             /\ cursor'[r] = cursor[r] /\ oldest <= oldest' /\ head <= head'
    BY <1>6 DEF Create, BeginLoad, BeginReset, Query, Return, LoadInv
  <1>7. ASSUME CommitSnapshot \/ ExpireSnapshots \/ EvictIndex \/ UNCHANGED vars
        PROVE  pc[r] = "return" /\ from'[r] = from[r] /\ to'[r] = to[r] /\ rows'[r] = rows[r]
             /\ cursor'[r] = cursor[r] /\ oldest <= oldest' /\ head <= head'
    BY <1>7 DEF CommitSnapshot, ExpireSnapshots, EvictIndex, vars
  <1>8. ~Restart
    BY DEF Restart
  <1> QED
    BY <1>2, <1>3, <1>4, <1>5, <1>6, <1>7, <1>8, NextCases

\* The invariant that carries the results.
LEMMA Inductive ==
  ASSUME ~Resets
  PROVE  Spec => [](NoHoleAhead /\ LeaderMissesNothing)
  <1>1. Init => NoHoleAhead /\ LeaderMissesNothing
    BY DEF Init, NoHoleAhead, LeaderMissesNothing
  <1>2. /\ TypeInv /\ LoadInv /\ NoHoleAhead /\ LeaderMissesNothing
        /\ [Next]_vars
        => NoHoleAhead' /\ LeaderMissesNothing'
    BY NoHoleAheadStep, LeaderStep
  <1> QED
    BY <1>1, <1>2, Loads, PTL DEF Spec

\* Without resets, the index of a catalog never has a hole ahead of all
\* cursors.
THEOREM HolesStayBehind ==
  ASSUME ~Resets
  PROVE  Spec => []NoHoleAhead
  BY Inductive, PTL

\* Without resets, the reader that no other is ahead of misses no change.
THEOREM LeaderExact ==
  ASSUME ~Resets
  PROVE  Spec => []LeaderMissesNothing
  BY Inductive, PTL

-----------------------------------------------------------------------------
(* One reader, resets included *)

\* Above its least snapshot, the index has no hole up to S.
Filled(S, hi) == \A s \in oldest .. head, lo \in S : lo <= s /\ s <= hi => s \in S

\* The index of a single reader is solid, reaches up to the cursor, and up to
\* the end of the range once a load is over.
OneInv(r) ==
  /\ cursor[r] = NotCreated => changes = {} /\ pc[r] = "idle"
  /\ \A hi \in changes : Filled(changes, hi)
  /\ Filled(changes, cursor[r])
  /\ pc[r] = "return" => Filled(changes, to[r]) /\ Complete(r)

\* The reader's own steps, where the index or the range of interest changes.
LEMMA OneLookup ==
  ASSUME TypeInv, LoadInv, NEW r \in Reader, OneInv(r), Lookup(r)
  PROVE  OneInv(r)'
  <1> USE MaxSnapshotAssumption DEF TypeInv, TypeOK, Snapshot, NotCreated, Goto
  <1>1. CASE ~Covers(changes, from[r], to[r])
    BY <1>1 DEF Lookup, OneInv, Filled
  <1>2. CASE Covers(changes, from[r], to[r])
    <2>1. PICK lo \in changes, hi \in changes : lo <= from[r] + 1 /\ to[r] <= hi
      BY <1>2 DEF Covers
    <2>2. lo \in Int /\ hi \in Int /\ from[r] \in Int /\ to[r] \in Int
      OBVIOUS
    <2>3. Filled(changes, hi)
      BY DEF OneInv
    <2>4. Filled(changes, to[r])
      BY <2>1, <2>2, <2>3 DEF Filled
    <2>5. ASSUME NEW s \in oldest .. head, from[r] < s, s <= to[r]
          PROVE  s \in changes
      <3>1. lo <= s /\ s <= hi
        BY <2>1, <2>2, <2>5
      <3> QED
        BY <2>3, <3>1 DEF Filled
    <2>6. rows' = [rows EXCEPT ![r] = {s \in changes : InRange(r, s)}]
      BY <1>2 DEF Lookup
    <2>7. Complete(r)'
      BY <2>5, <2>6 DEF Lookup, Complete, InRange
    <2> QED
      BY <2>4, <2>7 DEF Lookup, OneInv, Filled
  <1> QED
    BY <1>1, <1>2

LEMMA OneMerge ==
  ASSUME TypeInv, LoadInv, NEW r \in Reader, OneInv(r), Merge(r)
  PROVE  OneInv(r)'
  <1> USE MaxSnapshotAssumption DEF TypeInv, TypeOK, Snapshot, NotCreated, Goto
  <1> DEFINE S == Kept(changes, to[r]) \union rows[r]
  <1>1. /\ S \in SUBSET Snapshot /\ changes' = Prune(S)
        /\ Kept(changes, to[r]) \subseteq changes
    BY DEF Merge, Kept
  <1>2. /\ cursor[r] \in Int /\ from[r] \in Int /\ to[r] \in Int
        /\ cursor[r] = from[r] \/ cursor[r] = to[r]
        /\ from[r] <= to[r]
    BY DEF Merge, LoadInv
  <1>3. Complete(r)
    BY DEF Merge, LoadInv
  <1>4. ASSUME NEW s \in oldest .. head, NEW lo \in Prune(S), lo <= s, s <= to[r]
        PROVE  s \in Prune(S)
    <2>1. CASE from[r] < s
      <3>1. s \in S
        BY <1>3, <1>4, <2>1 DEF Complete
      <3> QED
        BY <1>1, <1>4, <3>1, PruneKeepsTop
    <2>2. CASE s <= from[r]
      <3>1. lo \in S /\ lo \in Int /\ s \in Int
        BY <1>1 DEF Prune
      <3>2. lo \notin rows[r]
        BY <1>2, <1>4, <2>2, <3>1 DEF Merge, LoadInv
      <3>3. lo \in changes /\ ~ \E x \in changes : to[r] < x
        BY <3>1, <3>2 DEF Kept
      <3>4. s <= cursor[r]
        BY <1>2, <1>4, <2>2, <3>1
      <3>5. s \in changes
        BY <1>4, <3>3, <3>4 DEF OneInv, Filled
      <3>6. s \in S
        BY <3>3, <3>5 DEF Kept
      <3> QED
        BY <1>1, <1>4, <3>6, PruneKeepsTop
    <2> QED
      BY <1>2, <2>1, <2>2
  <1>5. \A x \in changes' : x <= to[r] /\ x \in Int
    BY <1>1, MergeBounded DEF Prune
  <1>6. oldest' = oldest /\ head' = head /\ cursor' = cursor /\ to' = to
    BY DEF Merge
  <1> HIDE DEF S
  <1>7. \A hi \in Int : hi <= to[r] => Filled(changes, hi)'
    BY <1>1, <1>2, <1>4, <1>6 DEF Filled
  <1>8. Complete(r)'
    BY <1>3 DEF Merge, Complete
  <1>9. cursor[r] # NotCreated
    BY DEF Merge, OneInv
  <1>10. cursor[r] <= to[r]
    BY <1>2
  <1>11. \A hi \in changes' : Filled(changes, hi)'
    BY <1>5, <1>7
  <1>12. Filled(changes, cursor[r])' /\ Filled(changes, to[r])'
    BY <1>2, <1>6, <1>7, <1>10
  <1> QED
    BY <1>6, <1>8, <1>9, <1>11, <1>12 DEF OneInv

LEMMA OneStep ==
  ASSUME TypeInv, LoadInv, NEW r \in Reader, Reader = {r}, OneInv(r), [Next]_vars
  PROVE  OneInv(r)'
  <1> USE MaxSnapshotAssumption
      DEF TypeInv, TypeOK, Snapshot, NotCreated, Goto, OneInv, Filled, Complete
  <1>1. CASE CommitSnapshot
    BY <1>1 DEF CommitSnapshot, LoadInv
  <1>2. CASE ExpireSnapshots
    BY <1>2 DEF ExpireSnapshots
  <1>3. CASE EvictIndex
    BY <1>3 DEF EvictIndex
  <1>4. CASE Restart
    BY <1>4 DEF Restart
  <1>5. CASE Create(r)
    BY <1>5 DEF Create
  <1>6. CASE BeginLoad(r)
    BY <1>6 DEF BeginLoad
  <1>7. CASE BeginReset(r)
    BY <1>7 DEF BeginReset
  <1>8. CASE Lookup(r)
    BY <1>8, OneLookup
  <1>9. CASE Query(r)
    BY <1>9 DEF Query
  <1>10. CASE Merge(r)
    BY <1>10, OneMerge
  <1>11. CASE Return(r)
    BY <1>11 DEF Return, Reached
  <1>12. CASE UNCHANGED vars
    BY <1>12 DEF vars
  <1> QED
    BY <1>1, <1>2, <1>3, <1>4, <1>5, <1>6, <1>7, <1>8, <1>9, <1>10, <1>11, <1>12, NextCases

\* A process that reads for one consumer only misses no change, resets,
\* evictions, expirations and restarts included: the holes of the index need
\* a second reader.
THEOREM OneReaderExact ==
  ASSUME NEW r0, Reader = {r0}
  PROVE  Spec => []NoSnapshotMissed
  <1>1. Init => OneInv(r0)
    BY DEF Init, OneInv, Filled, NotCreated
  <1>2. TypeInv /\ LoadInv /\ OneInv(r0) /\ [Next]_vars => OneInv(r0)'
    BY OneStep
  <1>3. OneInv(r0) => NoSnapshotMissed
    BY DEF OneInv, NoSnapshotMissed
  <1> QED
    BY <1>1, <1>2, <1>3, Loads, PTL DEF Spec
-----------------------------------------------------------------------------
(* The size of the index *)

\* Of the survivors of pruning, no two have as many snapshots above them, and
\* all have less than the capacity.
LEMMA PruneBounded ==
  ASSUME NEW S \in SUBSET Snapshot
  PROVE  IsFiniteSet(Prune(S)) /\ Cardinality(Prune(S)) <= Capacity
  <1> DEFINE Above(x) == {t \in S : t > x}
  <1> DEFINE f == [x \in Prune(S) |-> Cardinality(Above(x))]
  <1>1. IsFiniteSet(S) /\ IsFiniteSet(Prune(S))
    <2>1. IsFiniteSet(Snapshot)
      BY FS_Interval, MaxSnapshotAssumption DEF Snapshot
    <2>2. IsFiniteSet(S)
      BY <2>1, FS_Subset
    <2>3. Prune(S) \in SUBSET S
      BY DEF Prune
    <2> QED
      BY <2>2, <2>3, FS_Subset
  <1>2. ASSUME NEW x \in S
        PROVE  IsFiniteSet(Above(x)) /\ Cardinality(Above(x)) \in Nat
    BY <1>1, FS_Subset, FS_CardinalityType
  <1>3. f \in [Prune(S) -> 0 .. Capacity - 1]
    <2> SUFFICES ASSUME NEW x \in Prune(S) PROVE Cardinality(Above(x)) \in 0 .. Capacity - 1
      OBVIOUS
    <2>1. x \in S /\ Cardinality(Above(x)) < Capacity
      BY DEF Prune
    <2> HIDE DEF Above
    <2> QED
      BY <1>2, <2>1, CapacityAssumption
  <1>4. ASSUME NEW x \in Prune(S), NEW y \in Prune(S), x < y
        PROVE  f[x] # f[y]
    <2>1. x \in S /\ y \in S /\ x \in Int /\ y \in Int
      BY DEF Prune, Snapshot
    <2>2. y \in Above(x) /\ y \notin Above(y)
      BY <1>4, <2>1
    <2>3. Above(y) \in SUBSET Above(x)
      <3> SUFFICES ASSUME NEW t \in S, t > y PROVE t > x
        OBVIOUS
      <3>1. t \in Int
        BY DEF Snapshot
      <3> QED
        BY <1>4, <2>1, <3>1
    <2>4. Cardinality(Above(y)) # Cardinality(Above(x))
      <3> HIDE DEF Above
      <3> QED
        BY <1>2, <2>1, <2>2, <2>3, FS_Subset
    <2> QED
      BY <2>4
  <1>5. \A x, y \in Prune(S) : x # y => f[x] # f[y]
    <2> SUFFICES ASSUME NEW x \in Prune(S), NEW y \in Prune(S), x # y PROVE f[x] # f[y]
      OBVIOUS
    <2>1. x < y \/ y < x
      BY DEF Prune, Snapshot
    <2> QED
      BY <1>4, <2>1
  <1>6. IsFiniteSet(0 .. Capacity - 1) /\ Cardinality(0 .. Capacity - 1) = Capacity
    BY FS_Interval, CapacityAssumption
  <1>7. Cardinality(Prune(S)) \in Nat
    BY <1>1, FS_CardinalityType
  <1>8. ~(Cardinality(0 .. Capacity - 1) < Cardinality(Prune(S)))
    <2> HIDE DEF f
    <2> QED
      BY <1>1, <1>3, <1>5, <1>6, FS_PigeonHole
  <1> QED
    BY <1>1, <1>6, <1>7, <1>8, CapacityAssumption

\* The index of a catalog never outgrows its capacity, whatever its readers do.
THEOREM IndexBounded == Spec => []WithinCapacity
  <1>1. Init => WithinCapacity
    BY FS_EmptySet, CapacityAssumption DEF Init, WithinCapacity
  <1>2. ASSUME TypeInv, LoadInv, WithinCapacity, [Next]_vars PROVE WithinCapacity'
    <2>1. CASE changes' = changes
      BY <1>2, <2>1 DEF WithinCapacity
    <2>2. CASE changes' = {}
      BY <2>2, FS_EmptySet, CapacityAssumption DEF WithinCapacity
    <2>3. ASSUME NEW r \in Reader, Merge(r) PROVE WithinCapacity'
      <3>1. Kept(changes, to[r]) \union rows[r] \in SUBSET Snapshot
        BY <1>2 DEF TypeInv, TypeOK, Kept
      <3> QED
        BY <2>3, <3>1, PruneBounded DEF Merge, WithinCapacity
    <2> QED
      BY <1>2, <2>1, <2>2, <2>3, NextCases
         DEF CommitSnapshot, ExpireSnapshots, EvictIndex, Restart, Create, BeginLoad, BeginReset,
             Lookup, Query, Return, vars
  <1>3. (TypeInv /\ LoadInv) /\ WithinCapacity /\ [Next]_vars => WithinCapacity'
    BY <1>2
  <1> QED
    BY <1>1, <1>3, Loads, PTL DEF Spec
=============================================================================
