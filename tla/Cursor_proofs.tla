---------------------------- MODULE Cursor_proofs ----------------------------
(***************************************************************************)
(* Proofs about Window, for every catalog, cursor, head and max_snapshots, *)
(* and about Cursor, for any clients and tables and all commit paths.      *)
(***************************************************************************)
EXTENDS Cursor, TLAPS

-----------------------------------------------------------------------------
(* Windows *)

\* A DML window resolved from the real first touch and first shape change
\* leaves nothing out and lets no shape change in.
THEOREM DmlWindowExact ==
  ASSUME NEW touches \in SUBSET Nat, NEW changes \in SUBSET Nat,
         NEW at \in Nat, NEW last \in Nat, NEW max \in Nat \ {0},
         NEW first \in Nat \union {NoSnapshot},
         NEW boundary \in Nat \union {NoSnapshot},
         IsFirst(first, touches, at, last), IsFirst(boundary, changes, at, last)
  PROVE  Exact(DmlWindow(at, last, first, boundary, max), touches, changes)
  BY DEF NoSnapshot, IsFirst, Exact, DmlWindow, HasChanges, Least

\* The window lies after the cursor and within the head, holds at most max
\* snapshots, and its safe commit range never reaches a shape change.
THEOREM DmlWindowBounded ==
  ASSUME NEW touches \in SUBSET Nat, NEW changes \in SUBSET Nat,
         NEW at \in Nat, NEW last \in Nat, NEW max \in Nat \ {0},
         at <= last,
         NEW first \in Nat \union {NoSnapshot},
         NEW boundary \in Nat \union {NoSnapshot},
         IsFirst(first, touches, at, last), IsFirst(boundary, changes, at, last)
  PROVE  LET w == DmlWindow(at, last, first, boundary, max)
         IN /\ w.start > at /\ w.end >= at /\ w.end <= last
            /\ w.end - w.start < max
            /\ \A s \in changes : ~(at < s /\ s <= SafeUntil(w))
            /\ Terminal(w) => w.end = w.boundary - 1
  BY DEF NoSnapshot, IsFirst, DmlWindow, HasChanges, Least, SafeUntil, Terminal

\* A DDL window of a cursor that still exists leaves no snapshot out, and
\* lies between the cursor and the head.
THEOREM DdlWindowExact ==
  ASSUME NEW from \in Nat, NEW at \in Nat, NEW last \in Nat, NEW max \in Nat \ {0},
         from <= at, at <= last,
         NEW first \in Nat \union {NoSnapshot},
         IsFirst(first, from .. last, at, last)
  PROVE  LET w == DdlWindow(at, last, first, max)
         IN /\ Exact(w, 1 .. last, {})
            /\ w.start > at /\ w.end >= at /\ w.end <= last
            /\ w.end - w.start < max
            /\ ~Terminal(w)
  BY DEF NoSnapshot, IsFirst, Exact, DdlWindow, HasChanges, Least, Terminal

-----------------------------------------------------------------------------
(* The cursor *)

\* The proofs split [Next]_vars into these cases.
LEMMA NextCases ==
  ASSUME [Next]_vars
  PROVE  \/ CommitSnapshot \/ ExpireSnapshots \/ LoseLease
         \/ DropSubscriptions \/ DropRow
         \/ \E t \in Table, s \in Snapshot : Create(t, s)
         \/ \E c \in Client : AcquireForWindow(c)
         \/ \E c \in Client : LoadSubscriptions(c)
         \/ \E c \in Client : ReadBounds(c)
         \/ \E c \in Client : ResolveDml(c)
         \/ \E c \in Client : ResolveDdl(c)
         \/ \E c \in Client, s \in Snapshot : BeginCommit(c, s)
         \/ \E c \in Client : ValidateCommit(c)
         \/ \E c \in Client : UpdateCursor(c)
         \/ \E c \in Client : VerifyCommit(c)
         \/ \E c \in Client : RecheckCommit(c)
         \/ \E c \in Client : WriteCursor(c)
         \/ \E c \in Client : BeginReset(c)
         \/ \E c \in Client, s \in Snapshot : ResolveReset(c, s)
         \/ \E c \in Client : ValidateReset(c)
         \/ \E c \in Client : WriteReset(c)
         \/ \E c \in Client : StatementFails(c)
         \/ UNCHANGED vars
  BY DEF Next, Step

\* A call that ends leaves its local variables well-typed.
LEMMA ReturnTyped ==
  ASSUME TypeOK, NEW c \in Client, Return(c)
  PROVE  /\ pc' \in [Client -> PC]
         /\ base' \in [Client -> Snapshot] /\ seenHead' \in [Client -> Snapshot]
         /\ goal' \in [Client -> Snapshot] /\ loaded' \in [Client -> SUBSET Table]
  BY BoundsAssumption DEF TypeOK, PC, Return, Goto, Snapshot

\* The UPDATE of a commit either moves the cursor to an existing goal that is
\* not behind it, or leaves the cursor alone.
LEMMA UpdateCases ==
  ASSUME NEW c \in Client, UpdateCursor(c)
  PROVE  \/ cursor' = goal[c] /\ MayCommit(c) /\ Return(c)
         \/ /\ \/ cursor' = goal[c] /\ MayCommit(c)
               \/ cursor' = cursor
            /\ Goto(c, "verify") \/ Goto(c, "recheck")
            /\ UNCHANGED locals
  BY DEF UpdateCursor, locals

\* A DML window lies in the catalog.
LEMMA DmlWindowTyped ==
  ASSUME NEW cursorSeen \in Snapshot, NEW headSeen \in Snapshot,
         NEW first \in Snapshot \union {NoSnapshot},
         NEW boundary \in Snapshot \union {NoSnapshot},
         first # NoSnapshot => cursorSeen < first /\ first <= headSeen,
         boundary # NoSnapshot => cursorSeen < boundary /\ boundary <= headSeen
  PROVE  LET w == DmlWindow(cursorSeen, headSeen, first, boundary, MaxWindow)
         IN /\ w \in [base: Snapshot, head: Snapshot, start: Nat, end: Snapshot,
                      boundary: Snapshot \union {NoSnapshot}]
            /\ SafeUntil(w) \in Snapshot
  BY BoundsAssumption DEF DmlWindow, Least, SafeUntil, HasChanges, Snapshot, NoSnapshot

LEMMA DdlWindowTyped ==
  ASSUME NEW cursorSeen \in Snapshot, NEW headSeen \in Snapshot,
         NEW first \in Snapshot \union {NoSnapshot},
         first # NoSnapshot => cursorSeen < first /\ first <= headSeen
  PROVE  DdlWindow(cursorSeen, headSeen, first, MaxWindow) \in
           [base: Snapshot, head: Snapshot, start: Nat, end: Snapshot,
            boundary: Snapshot \union {NoSnapshot}]
  BY BoundsAssumption DEF DdlWindow, Least, Snapshot, NoSnapshot

\* The created consumer and its catalog are well-typed.
LEMMA TypeInit == Init => TypeOK
  <1> SUFFICES ASSUME Init PROVE TypeOK
    OBVIOUS
  <1>1. NoWindow \in [base: Snapshot, head: Snapshot, start: Nat, end: Snapshot,
                      boundary: Snapshot \union {NoSnapshot}]
    BY BoundsAssumption DEF NoWindow, DmlWindow, Least, Snapshot, NoSnapshot
  <1>2. NoRange \in [cursor: Snapshot \union {NoSnapshot}, until: Snapshot \union {NoSnapshot}]
    BY DEF NoRange
  <1>3. head \in Snapshot /\ oldest \in Snapshot /\ 1 .. head \in SUBSET Snapshot
        /\ cursor \in Snapshot /\ 0 \in Snapshot
    BY BoundsAssumption DEF Init, Snapshot
  <1>4. shape \in [Table -> SUBSET Snapshot] /\ hits \in [Table -> SUBSET Snapshot]
    BY <1>3 DEF Init
  <1>5. pinned \in SUBSET Snapshot /\ tables \in SUBSET Table
    BY <1>4 DEF Init, Behind, Shapes
  <1> QED
    BY <1>1, <1>2, <1>3, <1>4, <1>5 DEF Init, TypeOK, PC

\* Every variable keeps its type: windows, safe ranges and cursors are made
\* of snapshots the catalog has had.
THEOREM TypeCorrect == Spec => []TypeOK
  <1>1. TypeOK /\ [Next]_vars => TypeOK'
    <2> SUFFICES ASSUME TypeOK, [Next]_vars PROVE TypeOK'
      OBVIOUS
    <2> USE BoundsAssumption DEF TypeOK, PC, Goto, catalog, locals
    <2>0. NoWindow \in [base: Snapshot, head: Snapshot, start: Nat, end: Snapshot,
                        boundary: Snapshot \union {NoSnapshot}]
      BY DEF NoWindow, DmlWindow, Least, Snapshot, NoSnapshot
    <2>1. CASE CommitSnapshot
      <3>1. head + 1 \in Snapshot
        BY <2>1 DEF CommitSnapshot, Snapshot
      <3>2. hits' \in [Table -> SUBSET Snapshot] /\ shape' \in [Table -> SUBSET Snapshot]
        BY <2>1, <3>1 DEF CommitSnapshot
      <3> QED
        BY <2>1, <3>1, <3>2 DEF CommitSnapshot
    <2>2. CASE ExpireSnapshots
      BY <2>2 DEF ExpireSnapshots, Snapshot
    <2>3. CASE LoseLease
      BY <2>3 DEF LoseLease
    <2>4. ASSUME NEW t \in Table, NEW s \in Snapshot, Create(t, s) PROVE TypeOK'
      BY <2>4 DEF Create
    <2>20. CASE DropSubscriptions \/ DropRow
      BY <2>20 DEF DropSubscriptions, DropRow
    <2>5. ASSUME NEW c \in Client, AcquireForWindow(c) PROVE TypeOK'
      <3>1. win' \in [Client -> [base: Snapshot, head: Snapshot, start: Nat, end: Snapshot,
                                 boundary: Snapshot \union {NoSnapshot}]]
        BY <2>0, <2>5 DEF AcquireForWindow
      <3>2. base' \in [Client -> Snapshot] /\ pc' \in [Client -> PC] /\ owner' \in Client
        BY <2>5 DEF AcquireForWindow
      <3> QED
        BY <2>5, <3>1, <3>2 DEF AcquireForWindow
    <2>21. ASSUME NEW c \in Client, LoadSubscriptions(c) PROVE TypeOK'
      <3>1. \E label \in PC : pc' = [pc EXCEPT ![c] = label]
        BY <2>21 DEF LoadSubscriptions
      <3> QED
        BY <2>21, <3>1 DEF LoadSubscriptions
    <2>6. ASSUME NEW c \in Client, ReadBounds(c) PROVE TypeOK'
      <3>1. CASE Exists(base[c])
        <4>1. /\ seenHead' = [seenHead EXCEPT ![c] = head] /\ pc' = [pc EXCEPT ![c] = "resolve"]
              /\ UNCHANGED <<base, goal, loaded, catalog, tables, owner, cursor, pinned, win, safe>>
          BY <2>6, <3>1 DEF ReadBounds, Goto
        <4>2. seenHead' \in [Client -> Snapshot] /\ pc' \in [Client -> PC]
          BY <4>1
        <4> QED
          BY <4>1, <4>2
      <3>2. CASE ~Exists(base[c])
        BY <2>6, <3>2, ReturnTyped DEF ReadBounds
      <3> QED
        BY <3>1, <3>2
    <2>7. ASSUME NEW c \in Client, ResolveDml(c) PROVE TypeOK'
      <3>1. PICK H \in Scans(Hits(loaded[c])), B \in Scans(Shapes(loaded[c])),
                 first \in Snapshot \union {NoSnapshot},
                 boundary \in Snapshot \union {NoSnapshot} :
              LET w == DmlWindow(base[c], seenHead[c], first, boundary, MaxWindow)
              IN /\ IsFirst(first, H, base[c], seenHead[c])
                 /\ IsFirst(boundary, B, base[c], seenHead[c])
                 /\ win' = [win EXCEPT ![c] = w]
                 /\ safe' = [safe EXCEPT ![c] = [cursor |-> base[c], until |-> SafeUntil(w)]]
        BY <2>7 DEF ResolveDml
      <3> DEFINE w == DmlWindow(base[c], seenHead[c], first, boundary, MaxWindow)
      <3>2. /\ w \in [base: Snapshot, head: Snapshot, start: Nat, end: Snapshot,
                      boundary: Snapshot \union {NoSnapshot}]
            /\ SafeUntil(w) \in Snapshot
        <4>1. /\ first # NoSnapshot => base[c] < first /\ first <= seenHead[c]
              /\ boundary # NoSnapshot => base[c] < boundary /\ boundary <= seenHead[c]
          BY <3>1 DEF IsFirst
        <4>2. base[c] \in Snapshot /\ seenHead[c] \in Snapshot
          OBVIOUS
        <4> QED
          BY <4>1, <4>2, DmlWindowTyped
      <3> HIDE DEF w
      <3>3. win' = [win EXCEPT ![c] = w]
            /\ safe' = [safe EXCEPT ![c] = [cursor |-> base[c], until |-> SafeUntil(w)]]
        BY <3>1 DEF w
      <3> QED
        BY <2>7, <3>2, <3>3, ReturnTyped DEF ResolveDml
    <2>8. ASSUME NEW c \in Client, ResolveDdl(c) PROVE TypeOK'
      <3>1. CASE Exists(base[c])
        <4>1. PICK first \in Snapshot \union {NoSnapshot} :
                /\ IsFirst(first, oldest .. head, base[c], head)
                /\ win' = [win EXCEPT ![c] = DdlWindow(base[c], head, first, MaxWindow)]
          BY <2>8, <3>1 DEF ResolveDdl
        <4>2. DdlWindow(base[c], head, first, MaxWindow) \in
                [base: Snapshot, head: Snapshot, start: Nat, end: Snapshot,
                 boundary: Snapshot \union {NoSnapshot}]
          BY <4>1, DdlWindowTyped DEF IsFirst
        <4> QED
          BY <2>8, <4>1, <4>2, ReturnTyped DEF ResolveDdl
      <3>2. CASE ~Exists(base[c])
        BY <2>8, <3>2, ReturnTyped DEF ResolveDdl
      <3> QED
        BY <3>1, <3>2
    <2>9. ASSUME NEW c \in Client, NEW s \in Snapshot, BeginCommit(c, s) PROVE TypeOK'
      <3>1. \E label \in PC : pc' = [pc EXCEPT ![c] = label]
        BY <2>9 DEF BeginCommit
      <3>2. base' = [base EXCEPT ![c] = cursor] /\ cursor \in Snapshot
        BY <2>9 DEF BeginCommit
      <3> QED
        BY <2>0, <2>9, <3>1, <3>2 DEF BeginCommit
    <2>10. ASSUME NEW c \in Client, ValidateCommit(c) PROVE TypeOK'
      <3>1. CASE Goto(c, "update") /\ UNCHANGED locals
        BY <2>10, <3>1 DEF ValidateCommit
      <3>2. CASE Return(c)
        BY <2>10, <3>2, ReturnTyped DEF ValidateCommit
      <3> QED
        BY <2>10, <3>1, <3>2 DEF ValidateCommit
    <2>11. ASSUME NEW c \in Client, UpdateCursor(c) PROVE TypeOK'
      <3>1. CASE cursor' = goal[c] /\ Return(c)
        BY <2>11, <3>1, ReturnTyped DEF UpdateCursor
      <3>2. CASE /\ cursor' \in {cursor, goal[c]}
                 /\ Goto(c, "verify") \/ Goto(c, "recheck")
                 /\ UNCHANGED locals
        BY SMTT(30), <2>11, <3>2 DEF UpdateCursor
      <3> QED
        BY <2>11, <3>1, <3>2, UpdateCases
    <2>19. ASSUME NEW c \in Client, VerifyCommit(c) PROVE TypeOK'
      <3>1. CASE Goto(c, "recheck") /\ UNCHANGED locals
        BY <2>19, <3>1 DEF VerifyCommit
      <3>2. CASE Return(c)
        BY <2>19, <3>2, ReturnTyped DEF VerifyCommit
      <3> QED
        BY <2>19, <3>1, <3>2 DEF VerifyCommit
    <2>12. ASSUME NEW c \in Client, RecheckCommit(c) PROVE TypeOK'
      <3>1. CASE Goto(c, "write") /\ UNCHANGED locals
        BY <2>12, <3>1 DEF RecheckCommit, MayCommit
      <3>2. CASE Return(c)
        BY <2>12, <3>2, ReturnTyped DEF RecheckCommit, MayCommit
      <3> QED
        BY <2>12, <3>1, <3>2 DEF RecheckCommit, MayCommit
    <2>13. ASSUME NEW c \in Client, WriteCursor(c) PROVE TypeOK'
      BY <2>13, ReturnTyped DEF WriteCursor
    <2>14. ASSUME NEW c \in Client, BeginReset(c) PROVE TypeOK'
      BY <2>14 DEF BeginReset
    <2>22. ASSUME NEW c \in Client, NEW s \in Snapshot, ResolveReset(c, s) PROVE TypeOK'
      <3>1. \E label \in PC : pc' = [pc EXCEPT ![c] = label]
        BY <2>22 DEF ResolveReset
      <3> QED
        BY <2>22, <3>1 DEF ResolveReset
    <2>15. ASSUME NEW c \in Client, ValidateReset(c) PROVE TypeOK'
      <3>1. CASE Goto(c, "reset_write") /\ UNCHANGED locals
        BY <2>15, <3>1 DEF ValidateReset
      <3>2. CASE Return(c)
        BY <2>15, <3>2, ReturnTyped DEF ValidateReset
      <3> QED
        BY <2>15, <3>1, <3>2 DEF ValidateReset
    <2>16. ASSUME NEW c \in Client, WriteReset(c) PROVE TypeOK'
      BY <2>16, ReturnTyped DEF WriteReset
    <2>17. ASSUME NEW c \in Client, StatementFails(c) PROVE TypeOK'
      BY <2>17, ReturnTyped DEF StatementFails
    <2>18. CASE UNCHANGED vars
      BY <2>18 DEF vars
    <2> QED
      BY <2>1, <2>2, <2>3, <2>4, <2>5, <2>6, <2>7, <2>8, <2>9, <2>10, <2>11, <2>12,
         <2>13, <2>14, <2>15, <2>16, <2>17, <2>18, <2>19, <2>20, <2>21, <2>22, NextCases
  <1> QED
    BY TypeInit, <1>1, PTL DEF Spec

-----------------------------------------------------------------------------

\* The last statement of a legacy commit looks at the owner only.  It cannot
\* move the cursor back, because whoever moved it since the check has ended
\* the client's ownership, for the rest of its call.
OrderInv ==
  \A c \in Client : pc[c] = "write" /\ owner = c => cursor <= goal[c]

LEMMA OrderStep ==
  ASSUME TypeOK, OrderInv, [Next]_vars
  PROVE  OrderInv'
  <1> USE NobodyAssumption DEF OrderInv, TypeOK, Goto, catalog, locals
  <1>1. CASE CommitSnapshot \/ ExpireSnapshots \/ LoseLease \/ DropSubscriptions \/ DropRow
    BY <1>1 DEF CommitSnapshot, ExpireSnapshots, LoseLease, DropSubscriptions, DropRow
  <1>2. ASSUME NEW t \in Table, NEW s \in Snapshot, Create(t, s) PROVE OrderInv'
    BY <1>2 DEF Create
  <1>18. ASSUME NEW c \in Client, LoadSubscriptions(c) PROVE OrderInv'
    BY <1>18 DEF LoadSubscriptions
  <1>3. ASSUME NEW c \in Client, AcquireForWindow(c) PROVE OrderInv'
    BY <1>3 DEF AcquireForWindow
  <1>4. ASSUME NEW c \in Client, ReadBounds(c) PROVE OrderInv'
    BY <1>4 DEF ReadBounds, Return
  <1>5. ASSUME NEW c \in Client, ResolveDml(c) PROVE OrderInv'
    BY <1>5 DEF ResolveDml, Return
  <1>6. ASSUME NEW c \in Client, ResolveDdl(c) PROVE OrderInv'
    BY <1>6 DEF ResolveDdl, Return
  <1>7. ASSUME NEW c \in Client, NEW s \in Snapshot, BeginCommit(c, s) PROVE OrderInv'
    BY <1>7 DEF BeginCommit
  <1>8. ASSUME NEW c \in Client, ValidateCommit(c) PROVE OrderInv'
    BY <1>8 DEF ValidateCommit, Return
  <1>9. ASSUME NEW c \in Client, UpdateCursor(c) PROVE OrderInv'
    BY <1>9 DEF UpdateCursor, MayCommit, Return
  <1>17. ASSUME NEW c \in Client, VerifyCommit(c) PROVE OrderInv'
    BY <1>17 DEF VerifyCommit, Return
  <1>10. ASSUME NEW c \in Client, RecheckCommit(c) PROVE OrderInv'
    BY <1>10 DEF RecheckCommit, MayCommit, Return
  <1>11. ASSUME NEW c \in Client, WriteCursor(c) PROVE OrderInv'
    BY <1>11 DEF WriteCursor, Return
  <1>12. ASSUME NEW c \in Client, BeginReset(c) PROVE OrderInv'
    BY <1>12 DEF BeginReset
  <1>19. ASSUME NEW c \in Client, NEW s \in Snapshot, ResolveReset(c, s) PROVE OrderInv'
    BY <1>19 DEF ResolveReset
  <1>13. ASSUME NEW c \in Client, ValidateReset(c) PROVE OrderInv'
    BY <1>13 DEF ValidateReset, Return
  <1>14. ASSUME NEW c \in Client, WriteReset(c) PROVE OrderInv'
    BY <1>14 DEF WriteReset, Return
  <1>15. ASSUME NEW c \in Client, StatementFails(c) PROVE OrderInv'
    BY <1>15 DEF StatementFails, Return
  <1>16. CASE UNCHANGED vars
    BY <1>16 DEF vars
  <1> QED
    BY <1>1, <1>2, <1>3, <1>4, <1>5, <1>6, <1>7, <1>8, <1>9, <1>10, <1>11, <1>12,
       <1>13, <1>14, <1>15, <1>16, <1>17, <1>18, <1>19, NextCases

\* A commit never moves the cursor back, on any path, whatever resets,
\* takeovers, expirations and re-creations come between its statements.
THEOREM Monotone == Spec => CursorMonotone
  <1>1. Init => OrderInv
    BY DEF Init, OrderInv
  <1>2. TypeOK /\ OrderInv /\ [Next]_vars => OrderInv'
    BY OrderStep
  <1>3. ASSUME TypeOK, OrderInv, [Next]_vars
        PROVE  cursor' >= cursor \/ owner' = Nobody
    <2>1. cursor \in Int
      BY <1>3, BoundsAssumption DEF TypeOK, Snapshot, NoSnapshot
    <2>2. ASSUME NEW c \in Client, UpdateCursor(c) PROVE cursor' >= cursor
      <3>1. cursor' = cursor \/ (cursor' = goal[c] /\ cursor <= goal[c])
        BY <2>2, UpdateCases DEF MayCommit, Return
      <3> QED
        BY <1>3, <2>1, <3>1, BoundsAssumption DEF TypeOK, Snapshot
    <2>3. ASSUME NEW c \in Client, WriteCursor(c) PROVE cursor' >= cursor
      BY <1>3, <2>1, <2>3, BoundsAssumption DEF WriteCursor, TypeOK, Snapshot, OrderInv
    <2>4. CASE UNCHANGED cursor
      BY <2>1, <2>4
    <2>5. DropRow \/ (\E t \in Table, s \in Snapshot : Create(t, s)) => owner' = Nobody
      BY DEF DropRow, Create
    <2>6. ASSUME NEW c \in Client, WriteReset(c) PROVE cursor' = cursor \/ owner' = Nobody
      BY <2>6 DEF WriteReset
    <2> QED
      BY <1>3, <2>2, <2>3, <2>4, <2>5, <2>6, NextCases
      DEF CommitSnapshot, ExpireSnapshots, LoseLease, DropSubscriptions, AcquireForWindow,
          LoadSubscriptions, ReadBounds, ResolveDml, ResolveDdl, BeginCommit, ValidateCommit,
          VerifyCommit, RecheckCommit, BeginReset, ResolveReset, ValidateReset, StatementFails,
          vars
  <1> QED
    BY <1>1, <1>2, <1>3, TypeCorrect, PTL DEF Spec, CursorMonotone

-----------------------------------------------------------------------------
(* Commits land on existing snapshots, where one UPDATE has all conditions  *)
(* in its WHERE clause and clients commit what they were shown.             *)

\* The legacy statements find nothing to commit: what the UPDATE refused
\* stays refused until the call has ended.
LandInv(c) ==
  /\ goal[c] <= head
  /\ pc[c] = "verify" /\ MayCommit(c) => cursor = goal[c]
  /\ pc[c] = "recheck" => ~MayCommit(c)
  /\ pc[c] # "write"

\* The catalog only grows at one end and shrinks at the other; nobody is
\* given the lease, or moves the cursor, in the middle of a commit of another.
LEMMA LandKept ==
  ASSUME TypeOK, NEW c \in Client, LandInv(c), TypeOK',
         head <= head', oldest <= oldest',
         pc'[c] = pc[c], goal'[c] = goal[c],
         owner' = c => owner = c /\ cursor' = cursor
  PROVE  LandInv(c)'
  <1>1. /\ goal[c] \in Nat /\ head \in Nat /\ oldest \in Nat /\ head' \in Nat /\ oldest' \in Nat
    BY BoundsAssumption DEF TypeOK, Snapshot
  <1>2. MayCommit(c)' => MayCommit(c)
    BY <1>1 DEF LandInv, MayCommit, Exists
  <1>3. MayCommit(c)' => cursor' = cursor
    BY DEF MayCommit
  <1> QED
    BY <1>1, <1>2, <1>3 DEF LandInv

LEMMA LandStep ==
  ASSUME Backend # "sqlite", ~Guesses, TypeOK, TypeOK', [Next]_vars, \A c \in Client : LandInv(c)
  PROVE  \A c \in Client : LandInv(c)'
  <1> USE NobodyAssumption
  <1>1. head \in Nat /\ oldest \in Nat /\ head <= head /\ oldest <= oldest
    BY BoundsAssumption DEF TypeOK, Snapshot
  <1>2. CASE \/ CommitSnapshot \/ ExpireSnapshots \/ LoseLease \/ UNCHANGED vars
            \/ DropSubscriptions \/ DropRow
    <2>1. /\ head <= head' /\ oldest <= oldest'
      BY <1>1, <1>2 DEF CommitSnapshot, ExpireSnapshots, LoseLease, DropSubscriptions, DropRow,
                        catalog, vars
    <2>2. /\ pc' = pc /\ goal' = goal
          /\ owner' = Nobody \/ (owner' = owner /\ cursor' = cursor)
      BY <1>2 DEF CommitSnapshot, ExpireSnapshots, LoseLease, DropSubscriptions, DropRow, locals,
                  vars
    <2> QED
      BY <2>1, <2>2, LandKept
  <1>3. ASSUME NEW t \in Table, NEW s \in Snapshot, Create(t, s)
        PROVE  \A c \in Client : LandInv(c)'
    <2>1. UNCHANGED <<head, oldest, pc, goal>> /\ owner' = Nobody
      BY <1>3 DEF Create, catalog, locals
    <2> QED
      BY <1>1, <2>1, LandKept
  <1>4. ASSUME NEW c \in Client,
               \/ AcquireForWindow(c) \/ LoadSubscriptions(c) \/ ReadBounds(c)
               \/ ResolveDml(c) \/ ResolveDdl(c) \/ BeginReset(c)
               \/ \E s \in Snapshot : BeginCommit(c, s) \/ ResolveReset(c, s)
               \/ ValidateCommit(c) \/ UpdateCursor(c) \/ VerifyCommit(c) \/ RecheckCommit(c)
               \/ WriteCursor(c) \/ ValidateReset(c) \/ WriteReset(c) \/ StatementFails(c)
        PROVE  \A d \in Client : LandInv(d)'
    <2>1. head' = head /\ oldest' = oldest
      BY <1>4 DEF AcquireForWindow, LoadSubscriptions, ReadBounds, ResolveDml, ResolveDdl,
                  BeginCommit, BeginReset, ResolveReset, ValidateCommit, UpdateCursor, VerifyCommit,
                  RecheckCommit, WriteCursor, ValidateReset, WriteReset, StatementFails, catalog
    <2>2. LandInv(c)
      BY <1>4
    <2>3. owner' = c \/ owner' = Nobody \/ (owner' = owner /\ cursor' = cursor)
      BY <1>4 DEF AcquireForWindow, LoadSubscriptions, ReadBounds, ResolveDml, ResolveDdl,
                  BeginCommit, BeginReset, ResolveReset, ValidateCommit, UpdateCursor, VerifyCommit,
                  RecheckCommit, WriteCursor, ValidateReset, WriteReset, StatementFails, MayCommit
    <2>4. \/ \E label \in PC : Goto(c, label) /\ goal' = goal
          \/ \E label \in PC, s \in Snapshot :
               Goto(c, label) /\ goal' = [goal EXCEPT ![c] = s] /\ s <= head
      <3>1. CASE Return(c)
        <4>1. 0 \in Snapshot /\ 0 <= head /\ "idle" \in PC
          BY <1>1, BoundsAssumption DEF PC, Snapshot
        <4>2. Goto(c, "idle") /\ goal' = [goal EXCEPT ![c] = 0]
          BY <3>1 DEF Return
        <4> QED
          BY <4>1, <4>2
      <3>2. CASE ~Return(c)
        BY <1>4, <3>2
        DEF AcquireForWindow, LoadSubscriptions, ReadBounds, ResolveDml, ResolveDdl,
            BeginCommit, BeginReset, ResolveReset, ValidateCommit, UpdateCursor, VerifyCommit,
            RecheckCommit, WriteCursor, ValidateReset, WriteReset, StatementFails, Exists, PC,
            locals
      <3> QED
        BY <3>1, <3>2
    <2>5. ASSUME NEW d \in Client, d # c PROVE LandInv(d)'
      <3>1. pc'[d] = pc[d] /\ goal'[d] = goal[d]
        BY <2>4, <2>5 DEF Goto, TypeOK
      <3> QED
        BY <1>1, <1>4, <2>1, <2>3, <2>5, <3>1, LandKept
    <2>6. goal'[c] <= head'
      BY <2>1, <2>2, <2>4 DEF LandInv, TypeOK
    <2>7. ASSUME pc'[c] \notin {"verify", "recheck", "write"} PROVE LandInv(c)'
      BY <2>6, <2>7 DEF LandInv, MayCommit, Exists
    <2>8. ASSUME Return(c) PROVE LandInv(c)'
      <3>1. pc'[c] = "idle"
        BY <2>8 DEF Return, Goto, TypeOK
      <3> QED
        BY <2>7, <3>1
    <2>9. ASSUME UpdateCursor(c) PROVE LandInv(c)'
      <3>1. CASE Return(c)
        BY <2>8, <3>1
      <3>2. CASE ~Return(c)
        <4>1. /\ UNCHANGED <<goal, owner, head, oldest>>
              /\ \/ Goto(c, "verify") /\ cursor' = IF MayCommit(c) THEN goal[c] ELSE cursor
                 \/ Goto(c, "recheck") /\ ~MayCommit(c) /\ cursor' = cursor
          BY <1>4, <2>1, <2>9, <3>2 DEF UpdateCursor, locals
        <4>2. pc'[c] \in {"verify", "recheck"}
              /\ (pc'[c] = "recheck" => ~MayCommit(c) /\ cursor' = cursor)
              /\ (pc'[c] = "verify" => cursor' = IF MayCommit(c) THEN goal[c] ELSE cursor)
          BY <4>1 DEF Goto, TypeOK
        <4>3. MayCommit(c)' => owner = c /\ cursor' <= goal[c] /\ Exists(goal[c])
          BY <4>1 DEF MayCommit, Exists
        <4> QED
          BY <2>6, <4>1, <4>2, <4>3 DEF LandInv, MayCommit, Exists
      <3> QED
        BY <3>1, <3>2
    <2>10. ASSUME VerifyCommit(c) PROVE LandInv(c)'
      <3>1. CASE Return(c)
        BY <2>8, <3>1
      <3>2. CASE ~Return(c)
        <4>1. /\ UNCHANGED <<goal, owner, cursor, head, oldest>> /\ pc'[c] = "recheck"
              /\ pc[c] = "verify" /\ ~(owner = c /\ cursor = goal[c])
          BY <2>1, <2>10, <3>2 DEF VerifyCommit, Goto, TypeOK, locals
        <4> QED
          BY <2>2, <2>6, <4>1 DEF LandInv, MayCommit, Exists
      <3> QED
        BY <3>1, <3>2
    <2>11. ASSUME RecheckCommit(c) PROVE LandInv(c)'
      <3>1. Return(c)
        BY <2>2, <2>11 DEF RecheckCommit, LandInv
      <3> QED
        BY <2>8, <3>1
    <2>12. ASSUME ~(UpdateCursor(c) \/ VerifyCommit(c) \/ RecheckCommit(c)) PROVE LandInv(c)'
      <3>1. pc'[c] \notin {"verify", "recheck", "write"}
        BY <1>4, <2>12
        DEF AcquireForWindow, LoadSubscriptions, ReadBounds, ResolveDml, ResolveDdl, BeginCommit,
            BeginReset, ResolveReset, ValidateCommit, WriteCursor, ValidateReset, WriteReset,
            StatementFails, Return, Goto, TypeOK
      <3> QED
        BY <2>7, <3>1
    <2> QED
      BY <1>4, <2>5, <2>9, <2>10, <2>11, <2>12
  <1> QED
    BY <1>2, <1>3, <1>4, NextCases

\* With one UPDATE per commit, its legacy statements never write.
LEMMA LegacyNeverWrites ==
  ASSUME Backend # "sqlite", ~Guesses
  PROVE  Spec => [](\A c \in Client : LandInv(c))
  <1> DEFINE AllLand == \A c \in Client : LandInv(c)
  <1>1. Init => AllLand
    <2> SUFFICES ASSUME Init, NEW c \in Client PROVE LandInv(c)
      OBVIOUS
    <2>1. head \in Nat /\ goal[c] = 0 /\ pc[c] = "idle"
      BY BoundsAssumption DEF Init, Snapshot
    <2> QED
      BY <2>1 DEF LandInv
  <1>2. TypeOK /\ TypeOK' /\ AllLand /\ [Next]_vars => AllLand'
    BY LandStep
  <1> QED
    BY <1>1, <1>2, TypeCorrect, PTL DEF Spec

\* With one UPDATE per commit, no commit leaves the cursor in a gap, however
\* expiry interleaves with its statements.
THEOREM LandsOnSnapshot ==
  ASSUME Backend # "sqlite", ~Guesses
  PROVE  Spec => CommitLandsOnSnapshot
  <1> DEFINE AllLand == \A c \in Client : LandInv(c)
  <1>1. AllLand /\ [Next]_vars => [cursor' # cursor /\ owner' # Nobody => Exists(cursor')]_vars
    <2> SUFFICES ASSUME AllLand, [Next]_vars, cursor' # cursor, owner' # Nobody
                 PROVE  Exists(cursor')
      OBVIOUS
    <2>1. ASSUME NEW c \in Client, UpdateCursor(c) PROVE Exists(cursor')
      BY <2>1 DEF UpdateCursor, MayCommit
    <2>2. ASSUME NEW c \in Client, WriteCursor(c) PROVE Exists(cursor')
      BY <2>2 DEF WriteCursor, LandInv
    <2> QED
      BY <2>1, <2>2, NextCases
      DEF CommitSnapshot, ExpireSnapshots, LoseLease, DropSubscriptions, DropRow, Create,
          AcquireForWindow, LoadSubscriptions, ReadBounds, ResolveDml, ResolveDdl, BeginCommit,
          ValidateCommit, VerifyCommit, RecheckCommit, BeginReset, ResolveReset, ValidateReset,
          WriteReset, StatementFails, vars
  <1> QED
    BY <1>1, LegacyNeverWrites, PTL DEF Spec, CommitLandsOnSnapshot

-----------------------------------------------------------------------------
(* What legacy commits rely on.                                              *)

Strictly == Backend # "sqlite" /\ ~Guesses

\* What the last UPDATE of a legacy commit may rely on, although it does not
\* check it.
WriteInv ==
  /\ OrderInv
  /\ \A c \in Client : pc[c] = "write" => goal[c] <= head
  /\ Strictly => \A c \in Client : pc[c] # "write"

LEMMA WriteInvHolds == Spec => []WriteInv
  <1> DEFINE Seen == \A c \in Client : pc[c] = "write" => goal[c] <= head
             Unused == \A c \in Client : pc[c] # "write"
  <1>1. Init => OrderInv /\ Seen
    BY DEF Init, OrderInv
  <1>2. TypeOK /\ Seen /\ [Next]_vars => Seen'
    <2> SUFFICES ASSUME TypeOK, Seen, [Next]_vars, NEW c \in Client, pc'[c] = "write"
                 PROVE  goal'[c] <= head'
      OBVIOUS
    <2>1. head \in Nat /\ goal[c] \in Nat
      BY BoundsAssumption DEF TypeOK, Snapshot
    <2>2. head' \in {head, head + 1}
      BY NextCases
      DEF CommitSnapshot, ExpireSnapshots, LoseLease, DropSubscriptions, DropRow, Create,
          AcquireForWindow, LoadSubscriptions, ReadBounds, ResolveDml, ResolveDdl, BeginCommit,
          ValidateCommit, UpdateCursor, VerifyCommit, RecheckCommit, WriteCursor, BeginReset,
          ResolveReset, ValidateReset, WriteReset, StatementFails, catalog, vars
    <2>3. CASE pc[c] = "write" /\ goal'[c] = goal[c]
      BY <2>1, <2>2, <2>3
    <2>4. CASE RecheckCommit(c) /\ MayCommit(c) /\ UNCHANGED goal
      BY <2>1, <2>2, <2>4 DEF MayCommit, Exists
    <2>5. \/ pc[c] = "write" /\ goal'[c] = goal[c]
          \/ RecheckCommit(c) /\ MayCommit(c) /\ UNCHANGED goal
      <3>1. CASE \/ CommitSnapshot \/ ExpireSnapshots \/ LoseLease \/ UNCHANGED vars
                \/ DropSubscriptions \/ DropRow
                \/ \E t \in Table, s \in Snapshot : Create(t, s)
        BY <3>1 DEF CommitSnapshot, ExpireSnapshots, LoseLease, DropSubscriptions, DropRow, Create,
                    locals, vars
      <3>2. ASSUME NEW d \in Client,
                   \/ AcquireForWindow(d) \/ LoadSubscriptions(d) \/ ReadBounds(d)
                   \/ ResolveDml(d) \/ ResolveDdl(d) \/ BeginReset(d)
                   \/ \E s \in Snapshot : BeginCommit(d, s) \/ ResolveReset(d, s)
                   \/ ValidateCommit(d) \/ UpdateCursor(d) \/ VerifyCommit(d)
                   \/ WriteCursor(d) \/ ValidateReset(d) \/ WriteReset(d) \/ StatementFails(d)
            PROVE  pc[c] = "write" /\ goal'[c] = goal[c]
        BY <3>2 DEF AcquireForWindow, LoadSubscriptions, ReadBounds, ResolveDml, ResolveDdl,
                    BeginCommit, BeginReset, ResolveReset, ValidateCommit, UpdateCursor,
                    VerifyCommit,
                    WriteCursor, ValidateReset, WriteReset, StatementFails, Return, Goto, TypeOK,
                    locals
      <3>3. ASSUME NEW d \in Client, RecheckCommit(d)
            PROVE  \/ pc[c] = "write" /\ goal'[c] = goal[c]
                   \/ RecheckCommit(c) /\ MayCommit(c) /\ UNCHANGED goal
        <4>1. CASE MayCommit(d) /\ Goto(d, "write") /\ UNCHANGED locals
          BY <3>3, <4>1 DEF Goto, TypeOK, locals
        <4>2. CASE Return(d)
          BY <4>2 DEF Return, Goto, TypeOK
        <4> QED
          BY <3>3, <4>1, <4>2 DEF RecheckCommit
      <3> QED
        BY <3>1, <3>2, <3>3, NextCases
    <2> QED
      BY <2>3, <2>4, <2>5
  <1>3. TypeOK /\ OrderInv /\ [Next]_vars => OrderInv'
    BY OrderStep
  <1>4. Spec => [](OrderInv /\ Seen)
    BY <1>1, <1>2, <1>3, TypeCorrect, PTL DEF Spec
  <1>5. CASE Strictly
    <2>1. (\A c \in Client : LandInv(c)) => Unused
      BY DEF LandInv
    <2>2. Spec => []Unused
      BY <1>5, <2>1, LegacyNeverWrites, PTL DEF Strictly
    <2>3. OrderInv /\ Seen /\ Unused => WriteInv
      BY DEF WriteInv
    <2> QED
      BY <1>4, <2>2, <2>3, PTL
  <1>6. CASE ~Strictly
    <2>1. OrderInv /\ Seen => WriteInv
      BY <1>6 DEF WriteInv
    <2> QED
      BY <1>4, <2>1, PTL
  <1> QED
    BY <1>5, <1>6

-----------------------------------------------------------------------------
(* Windows, safe ranges and schema-shape epochs of a DML consumer, in a      *)
(* catalog that is not being expired.                                        *)

Kept == Kind = "dml" /\ ~Expires

\* Consumers of this name are always pinned to the same table.
Lasting == Kept /\ (Recreates => \E t : Table = {t})

\* Clients commit what they have seen, and operators do not reset a consumer
\* that is being created again.
Settled == Lasting /\ ~Guesses /\ (Recreates => ~Resets)

\* What calls remember lies in the past of the catalog.
PastInv ==
  /\ oldest = 0 /\ cursor <= head
  /\ \A t \in Table : shape[t] \subseteq 1 .. head /\ hits[t] \subseteq 1 .. head
  /\ \A c \in Client : /\ base[c] <= head /\ seenHead[c] <= head
                       /\ ~Guesses \/ pc[c] \in {"reset_load", "reset_validate", "reset_write"} =>
                            goal[c] <= head
                       /\ win[c].end <= head /\ win[c].head <= head
                       /\ safe[c].until <= head
                       /\ pc[c] = "resolve" => base[c] <= seenHead[c]

\* What the call of the lease's holder has loaded is what the consumer is
\* subscribed to, until it is dropped; without drops that goes for every call.
LoadInv ==
  /\ \A c \in Client :
       owner = c /\ tables # {} =>
         (pc[c] \in {"bounds", "resolve", "validate"} => loaded[c] = tables)
  /\ ~Recreates =>
       \A c \in Client : pc[c] \in {"bounds", "resolve", "validate", "reset_validate"} =>
         loaded[c] = tables

\* The window given under the lease that its client has is exact.
WindowsInv ==
  \A c \in Client : owner = c /\ tables # {} =>
    Exact(win[c], Hits(tables), Shapes(tables))

\* Cached ranges are safe for every table a consumer of the name can have.
RangesInv ==
  \A c \in Client, t \in Table : Recreates \/ t \in tables =>
    ~FindsBoundary(shape[t], safe[c].cursor, safe[c].until)

\* The cursor that the call of the lease's holder has read is of the
\* consumer's epoch, and so is its goal once it has passed its check; a
\* reset's are whoever holds the lease.
EpochInv ==
  /\ tables # {} => Behind(cursor) = pinned
  /\ tables # {} \/ Recreates
  /\ \A c \in Client :
       /\ owner = c /\ tables # {} =>
            /\ pc[c] \in {"commit_load", "validate", "update", "verify", "recheck", "write"} =>
                 Behind(base[c]) = pinned
            /\ pc[c] \in {"update", "verify", "recheck", "write"} =>
                 ~FindsBoundary(Shapes(tables), base[c], goal[c])
       /\ pc[c] \in {"reset_resolve", "reset_load", "reset_validate"} => Behind(base[c]) = pinned
       /\ pc[c] = "reset_write" => Behind(goal[c]) = pinned
       /\ Recreates => pc[c] \notin {"reset_resolve", "reset_load", "reset_validate", "reset_write"}

\* The tables of a subscription have the types of their parts.
LEMMA PartsTyped ==
  ASSUME TypeOK, NEW S \in SUBSET Table
  PROVE  Hits(S) \in SUBSET Snapshot /\ Shapes(S) \in SUBSET Snapshot
  BY DEF TypeOK, Hits, Shapes

\* Where no shape change lies between x and y, they are of the same epoch.
LEMMA SameEpoch ==
  ASSUME TypeOK, NEW x \in Snapshot, NEW y \in Snapshot,
         ~FindsBoundary(Shapes(tables), x, y), ~FindsBoundary(Shapes(tables), y, x)
  PROVE  Behind(x) = Behind(y)
  <1>1. \A b \in Shapes(tables) : b \in Int
    BY PartsTyped, BoundsAssumption DEF TypeOK, Snapshot
  <1>2. x \in Int /\ y \in Int
    BY BoundsAssumption DEF Snapshot
  <1>3. \A b \in Shapes(tables) : b <= x <=> b <= y
    BY <1>1, <1>2 DEF FindsBoundary
  <1> QED
    BY <1>3 DEF Behind

\* What a scan finds while nothing expires: all of the catalog.
LEMMA ScansAll ==
  ASSUME TypeOK, PastInv, NEW S \in SUBSET Table
  PROVE  Scans(Shapes(S)) = {Shapes(S)} /\ Scans(Hits(S)) = {Hits(S)}
  <1>1. ASSUME NEW P, P \subseteq 1 .. head PROVE Scans(P) = {P}
    <2>1. \A s \in P : s >= oldest
      BY <1>1 DEF PastInv
    <2>2. {s \in P : s >= oldest} = P
      BY <2>1
    <2> QED
      BY <2>2 DEF Scans
  <1>2. Shapes(S) \subseteq 1 .. head /\ Hits(S) \subseteq 1 .. head
    BY DEF PastInv, Shapes, Hits
  <1> QED
    BY <1>1, <1>2

\* The window that ResolveDml gives is exact for the subscriptions loaded.
Gives(c, w) ==
  /\ win' = [win EXCEPT ![c] = w]
  /\ safe' = [safe EXCEPT ![c] = [cursor |-> base[c], until |-> SafeUntil(w)]]
  /\ Exact(w, Hits(loaded[c]), Shapes(loaded[c]))
  /\ w.end <= head /\ w.head <= head
  /\ SafeUntil(w) <= head
  /\ ~FindsBoundary(Shapes(loaded[c]), base[c], SafeUntil(w))
  /\ loaded[c] = {} => SafeUntil(w) = base[c]

LEMMA Resolved ==
  ASSUME TypeOK, PastInv, NEW c \in Client, ResolveDml(c)
  PROVE  \E w : Gives(c, w)
  <1>0. PICK H \in Scans(Hits(loaded[c])), B \in Scans(Shapes(loaded[c])),
             first \in Snapshot \union {NoSnapshot}, boundary \in Snapshot \union {NoSnapshot} :
          LET w == DmlWindow(base[c], seenHead[c], first, boundary, MaxWindow)
          IN /\ IsFirst(first, H, base[c], seenHead[c])
             /\ IsFirst(boundary, B, base[c], seenHead[c])
             /\ win' = [win EXCEPT ![c] = w]
             /\ safe' = [safe EXCEPT ![c] = [cursor |-> base[c], until |-> SafeUntil(w)]]
    BY DEF ResolveDml
  <1>9. loaded[c] \in SUBSET Table
    BY DEF TypeOK
  <1>1. H = Hits(loaded[c]) /\ B = Shapes(loaded[c])
    BY <1>9, ScansAll
  <1> DEFINE w == DmlWindow(base[c], seenHead[c], first, boundary, MaxWindow)
  <1>2. /\ Hits(loaded[c]) \in SUBSET Nat /\ Shapes(loaded[c]) \in SUBSET Nat
        /\ base[c] \in Nat /\ seenHead[c] \in Nat /\ head \in Nat
        /\ base[c] <= seenHead[c] /\ seenHead[c] <= head
        /\ first \in Nat \union {NoSnapshot} /\ boundary \in Nat \union {NoSnapshot}
    BY <1>9, PartsTyped, BoundsAssumption DEF TypeOK, Snapshot, PastInv, ResolveDml
  <1>3. Exact(w, Hits(loaded[c]), Shapes(loaded[c]))
    BY <1>0, <1>1, <1>2, BoundsAssumption, DmlWindowExact
  <1>4. /\ w.end >= base[c] /\ w.end <= seenHead[c]
        /\ \A s \in Shapes(loaded[c]) : ~(base[c] < s /\ s <= SafeUntil(w))
    BY <1>0, <1>1, <1>2, BoundsAssumption, DmlWindowBounded
  <1>5. w.head = seenHead[c] /\ w.base = base[c] /\ w.end \in Int
    BY <1>2, BoundsAssumption DEF DmlWindow, Least, NoSnapshot
  <1>6. SafeUntil(w) <= head /\ w.end <= head /\ w.head <= head
    <2> HIDE DEF w
    <2> QED
      BY <1>2, <1>4, <1>5 DEF SafeUntil
  <1>7. ASSUME loaded[c] = {} PROVE SafeUntil(w) = base[c]
    <2>1. Hits(loaded[c]) = {} /\ Shapes(loaded[c]) = {}
      BY <1>7 DEF Hits, Shapes
    <2>2. first = NoSnapshot /\ boundary = NoSnapshot
      BY <1>0, <1>1, <2>1 DEF IsFirst
    <2> QED
      BY <1>2, <2>2 DEF DmlWindow, SafeUntil, HasChanges
  <1>8. Gives(c, w)
    BY <1>0, <1>3, <1>4, <1>6, <1>7 DEF FindsBoundary, Gives
  <1> QED
    BY <1>8

\* A new snapshot is after everything: it changes no epoch.
LEMMA Grows ==
  ASSUME TypeOK, PastInv, CommitSnapshot, NEW S \in SUBSET Table
  PROVE  LET later == UNION {shape'[t] : t \in S}
         IN /\ \A x \in Snapshot : x <= head =>
                 {b \in later : b <= x} = {b \in Shapes(S) : b <= x}
            /\ \A lo, hi \in Int : hi <= head =>
                 (FindsBoundary(later, lo, hi) <=> FindsBoundary(Shapes(S), lo, hi))
            /\ later \subseteq Shapes(S) \union {head + 1}
            /\ UNION {hits'[t] : t \in S} \subseteq Hits(S) \union {head + 1}
  <1> DEFINE later == UNION {shape'[t] : t \in S}
  <1>1. \A t \in Table : /\ shape'[t] \in {shape[t], shape[t] \union {head + 1}}
                         /\ hits'[t] \in {hits[t], hits[t] \union {head + 1}}
    BY DEF CommitSnapshot, TypeOK
  <1>2. head \in Int /\ Snapshot \subseteq Int
    BY BoundsAssumption DEF TypeOK, Snapshot
  <1>3. Shapes(S) \subseteq later /\ later \subseteq Shapes(S) \union {head + 1}
    BY <1>1 DEF Shapes
  <1>4. UNION {hits'[t] : t \in S} \subseteq Hits(S) \union {head + 1}
    BY <1>1 DEF Hits
  <1> HIDE DEF later
  <1>5. \A x \in Snapshot : x <= head => {b \in later : b <= x} = {b \in Shapes(S) : b <= x}
    BY <1>2, <1>3
  <1>6. \A lo, hi \in Int : hi <= head =>
          (FindsBoundary(later, lo, hi) <=> FindsBoundary(Shapes(S), lo, hi))
    BY <1>2, <1>3 DEF FindsBoundary
  <1> QED
    BY <1>3, <1>4, <1>5, <1>6 DEF later

\* The past stays the past.
LEMMA PastStep ==
  ASSUME Kept, TypeOK, WriteInv, PastInv, [Next]_vars
  PROVE  PastInv'
  <1> USE BoundsAssumption DEF Kept, TypeOK, Snapshot, PastInv, Goto, catalog, locals
  <1>0. NoWindow.end = 0 /\ NoWindow.head = 0
    BY DEF NoWindow, DmlWindow, NoSnapshot
  <1>1. CASE CommitSnapshot
    <2>1. \A t \in Table : shape'[t] \subseteq 1 .. head + 1 /\ hits'[t] \subseteq 1 .. head + 1
      <3> SUFFICES ASSUME NEW t \in Table
                   PROVE  shape'[t] \subseteq 1 .. head + 1 /\ hits'[t] \subseteq 1 .. head + 1
        OBVIOUS
      <3>1. head \in Nat
        OBVIOUS
      <3>2. 1 .. head \subseteq 1 .. head + 1 /\ head + 1 \in 1 .. head + 1
        BY <3>1
      <3>3. /\ shape'[t] \subseteq shape[t] \union {head + 1}
            /\ hits'[t] \subseteq hits[t] \union {head + 1}
            /\ shape[t] \subseteq 1 .. head /\ hits[t] \subseteq 1 .. head
        BY <1>1 DEF CommitSnapshot
      <3> QED
        BY <3>2, <3>3
    <2> QED
      BY SMTT(30), <1>1, <2>1 DEF CommitSnapshot, NoSnapshot
  <1>2. CASE LoseLease \/ DropSubscriptions \/ DropRow
    BY <1>2 DEF LoseLease, DropSubscriptions, DropRow, NoSnapshot
  <1>3. ASSUME NEW t \in Table, NEW s \in Snapshot, Create(t, s) PROVE PastInv'
    BY <1>3 DEF Create
  <1>4. ASSUME NEW c \in Client, AcquireForWindow(c) PROVE PastInv'
    <2>1. pc' = [pc EXCEPT ![c] = "load"] /\ base' = [base EXCEPT ![c] = cursor]
      BY <1>4 DEF AcquireForWindow
    <2>2. UNCHANGED <<head, oldest, shape, hits, cursor, seenHead, goal, safe>>
      BY <1>4 DEF AcquireForWindow
    <2>3. win' = win \/ win' = [win EXCEPT ![c] = NoWindow]
      BY <1>4 DEF AcquireForWindow
    <2> QED
      BY <1>0, <2>1, <2>2, <2>3
  <1>18. ASSUME NEW c \in Client, LoadSubscriptions(c) PROVE PastInv'
    <2>1. \E label \in {"bounds", "validate", "reset_validate"} :
            /\ pc' = [pc EXCEPT ![c] = label]
            /\ label = "reset_validate" => pc[c] = "reset_load"
      BY <1>18 DEF LoadSubscriptions
    <2> QED
      BY <1>18, <2>1 DEF LoadSubscriptions
  <1>5. ASSUME NEW c \in Client, ReadBounds(c) PROVE PastInv'
    BY <1>5 DEF ReadBounds, Return, Exists
  <1>6. ASSUME NEW c \in Client, NEW s \in Snapshot, BeginCommit(c, s) PROVE PastInv'
    <2>1. \E label \in {"update", "commit_load"} : pc' = [pc EXCEPT ![c] = label]
      BY <1>6 DEF BeginCommit
    <2> QED
      BY <1>0, <1>6, <2>1 DEF BeginCommit
  <1>7. ASSUME NEW c \in Client, ValidateCommit(c) PROVE PastInv'
    BY <1>7 DEF ValidateCommit, Return
  <1>8. ASSUME NEW c \in Client, UpdateCursor(c) PROVE PastInv'
    <2>1. cursor' <= head
      BY <1>8, UpdateCases DEF MayCommit, Exists
    <2>2. CASE Return(c)
      BY <1>8, <2>1, <2>2 DEF UpdateCursor, Return
    <2>3. CASE /\ Goto(c, "verify") \/ Goto(c, "recheck")
               /\ UNCHANGED locals
      BY <1>8, <2>1, <2>3 DEF UpdateCursor
    <2> QED
      BY <1>8, <2>2, <2>3, UpdateCases
  <1>9. ASSUME NEW c \in Client, VerifyCommit(c) PROVE PastInv'
    BY <1>9 DEF VerifyCommit, Return
  <1>10. ASSUME NEW c \in Client, RecheckCommit(c) PROVE PastInv'
    <2>1. CASE Goto(c, "write") /\ UNCHANGED locals
      BY <1>10, <2>1 DEF RecheckCommit, MayCommit
    <2>2. CASE Return(c)
      BY <1>10, <2>2 DEF RecheckCommit, MayCommit, Return
    <2> QED
      BY <1>10, <2>1, <2>2 DEF RecheckCommit, MayCommit
  <1>11. ASSUME NEW c \in Client, WriteCursor(c) PROVE PastInv'
    <2>1. cursor' <= head
      BY <1>11 DEF WriteCursor, WriteInv
    <2> QED
      BY <1>11, <2>1 DEF WriteCursor, Return
  <1>12. ASSUME NEW c \in Client, BeginReset(c) PROVE PastInv'
    BY <1>12 DEF BeginReset
  <1>19. ASSUME NEW c \in Client, NEW s \in Snapshot, ResolveReset(c, s) PROVE PastInv'
    <2>1. \E label \in {"reset_load", "reset_write"} : pc' = [pc EXCEPT ![c] = label]
      BY <1>19 DEF ResolveReset
    <2> QED
      BY <1>19, <2>1 DEF ResolveReset, Exists
  <1>13. ASSUME NEW c \in Client, ValidateReset(c) PROVE PastInv'
    BY <1>13 DEF ValidateReset, Return
  <1>14. ASSUME NEW c \in Client, WriteReset(c) PROVE PastInv'
    BY <1>14 DEF WriteReset, Return
  <1>15. ASSUME NEW c \in Client, StatementFails(c) PROVE PastInv'
    BY <1>15 DEF StatementFails, Return
  <1>16. ASSUME NEW c \in Client, ResolveDml(c) PROVE PastInv'
    <2>1. PICK w : Gives(c, w)
      BY <1>16, Resolved
    <2>2. UNCHANGED <<head, oldest, cursor, shape, hits>>
      BY <1>16 DEF ResolveDml
    <2>3. /\ pc' = [pc EXCEPT ![c] = "idle"] /\ base' = [base EXCEPT ![c] = 0]
          /\ seenHead' = [seenHead EXCEPT ![c] = 0] /\ goal' = [goal EXCEPT ![c] = 0]
      BY <1>16 DEF ResolveDml, Return
    <2> QED
      BY <2>1, <2>2, <2>3 DEF Gives
  <1>17. CASE UNCHANGED vars
    BY <1>17 DEF vars
  <1> QED
    BY <1>1, <1>2, <1>3, <1>4, <1>5, <1>6, <1>7, <1>8, <1>9, <1>10, <1>11, <1>12, <1>13,
       <1>14, <1>15, <1>16, <1>17, <1>18, <1>19, NextCases
    DEF ExpireSnapshots, ResolveDdl

\* What a call has loaded stays true while its client has the lease.
LEMMA LoadStep ==
  ASSUME Kept, TypeOK, LoadInv, [Next]_vars
  PROVE  LoadInv'
  <1> USE NobodyAssumption DEF Kept, TypeOK, LoadInv, Goto, catalog, locals
  <1>1. CASE CommitSnapshot \/ LoseLease \/ DropSubscriptions \/ DropRow
    BY <1>1 DEF CommitSnapshot, LoseLease, DropSubscriptions, DropRow
  <1>2. ASSUME NEW t \in Table, NEW s \in Snapshot, Create(t, s) PROVE LoadInv'
    BY <1>2 DEF Create
  <1>3. ASSUME NEW c \in Client, AcquireForWindow(c) PROVE LoadInv'
    BY <1>3 DEF AcquireForWindow
  <1>4. ASSUME NEW c \in Client, LoadSubscriptions(c) PROVE LoadInv'
    <2>1. /\ \E label \in PC : pc' = [pc EXCEPT ![c] = label]
          /\ loaded' = [loaded EXCEPT ![c] = tables] /\ UNCHANGED <<owner, tables>>
      BY <1>4 DEF LoadSubscriptions, PC
    <2> QED
      BY <2>1
  <1>5. ASSUME NEW c \in Client, ReadBounds(c) PROVE LoadInv'
    BY <1>5 DEF ReadBounds, Return
  <1>6. ASSUME NEW c \in Client,
               \/ ResolveDml(c) \/ ValidateCommit(c) \/ UpdateCursor(c) \/ VerifyCommit(c)
               \/ RecheckCommit(c) \/ WriteCursor(c) \/ ValidateReset(c) \/ WriteReset(c)
               \/ StatementFails(c) \/ BeginReset(c)
               \/ \E s \in Snapshot : BeginCommit(c, s) \/ ResolveReset(c, s)
        PROVE  LoadInv'
    <2>1. UNCHANGED tables /\ owner' \in {owner, Nobody}
      BY <1>6
      DEF ResolveDml, ValidateCommit, UpdateCursor, VerifyCommit, RecheckCommit, WriteCursor,
          ValidateReset, WriteReset, StatementFails, BeginReset, BeginCommit, ResolveReset
    <2>2. /\ \E label \in PC \ {"bounds", "resolve", "validate", "reset_validate"} :
               pc' = [pc EXCEPT ![c] = label]
          /\ loaded' = loaded \/ loaded' = [loaded EXCEPT ![c] = {}]
      BY <1>6
      DEF ResolveDml, ValidateCommit, UpdateCursor, VerifyCommit, RecheckCommit, WriteCursor,
          ValidateReset, WriteReset, StatementFails, BeginReset, BeginCommit, ResolveReset,
          Return, PC
    <2> QED
      BY <2>1, <2>2
  <1>7. CASE UNCHANGED vars
    BY <1>7 DEF vars
  <1> QED
    BY <1>1, <1>2, <1>3, <1>4, <1>5, <1>6, <1>7, NextCases DEF ExpireSnapshots, ResolveDdl

\* A statement that resolves no window leaves those alone that it does not
\* clear, and nobody gets another's lease, or another consumer, with a window.
WindowsLeft ==
  /\ UNCHANGED <<safe, hits, shape>>
  /\ Recreates \/ UNCHANGED tables
  /\ \A c \in Client : owner' = c /\ tables' # {} =>
       win'[c] = NoWindow \/ (owner = c /\ win'[c] = win[c] /\ tables' = tables)

LEMMA LeavesWindows ==
  ASSUME Kept, TypeOK, [Next]_vars
  PROVE  CommitSnapshot \/ WindowsLeft \/ \E c \in Client : ResolveDml(c)
  <1> USE NobodyAssumption DEF WindowsLeft, catalog
  <1>1. ASSUME NEW c \in Client, AcquireForWindow(c) PROVE WindowsLeft
    BY <1>1 DEF AcquireForWindow, TypeOK
  <1>2. ASSUME NEW c \in Client, NEW s \in Snapshot, BeginCommit(c, s) PROVE WindowsLeft
    BY <1>2 DEF BeginCommit, TypeOK
  <1>3. CASE DropSubscriptions \/ DropRow \/ LoseLease \/ UNCHANGED vars
    BY <1>3 DEF DropSubscriptions, DropRow, LoseLease, vars
  <1>4. ASSUME NEW t \in Table, NEW s \in Snapshot, Create(t, s) PROVE WindowsLeft
    BY <1>4 DEF Create
  <1>5. ASSUME NEW c \in Client,
               \/ LoadSubscriptions(c) \/ ReadBounds(c) \/ ValidateCommit(c) \/ UpdateCursor(c)
               \/ VerifyCommit(c) \/ RecheckCommit(c) \/ WriteCursor(c) \/ BeginReset(c)
               \/ (\E s \in Snapshot : ResolveReset(c, s)) \/ ValidateReset(c) \/ WriteReset(c)
               \/ StatementFails(c)
        PROVE  WindowsLeft
    <2>1. UNCHANGED <<safe, hits, shape, tables, win>> /\ owner' \in {owner, Nobody}
      BY <1>5
      DEF LoadSubscriptions, ReadBounds, ValidateCommit, UpdateCursor, VerifyCommit, RecheckCommit,
          WriteCursor, BeginReset, ResolveReset, ValidateReset, WriteReset, StatementFails
    <2> QED
      BY <2>1
  <1> QED
    BY <1>1, <1>2, <1>3, <1>4, <1>5, NextCases DEF Kept, ExpireSnapshots, ResolveDdl

\* The window of a client that has none says nothing.
LEMMA NoWindowExact ==
  ASSUME TypeOK, NEW S \in SUBSET Table
  PROVE  Exact(NoWindow, Hits(S), Shapes(S))
  <1>1. NoWindow = [base |-> 0, head |-> 0, start |-> 1, end |-> 0, boundary |-> NoSnapshot]
    BY DEF NoWindow, DmlWindow
  <1>2. Hits(S) \subseteq Int /\ Shapes(S) \subseteq Int
    BY PartsTyped, BoundsAssumption DEF TypeOK, Snapshot
  <1> QED
    BY <1>1, <1>2 DEF Exact, HasChanges

\* No later snapshot makes a window inexact, and the lease and the consumer
\* it was given under end together.
LEMMA WindowsStep ==
  ASSUME Kept, TypeOK, TypeOK', PastInv, LoadInv, WindowsInv, [Next]_vars
  PROVE  WindowsInv'
  <1> USE BoundsAssumption DEF WindowsInv
  <1>1. CASE CommitSnapshot
    <2> DEFINE laterHits == UNION {hits'[t] : t \in tables}
               laterShapes == UNION {shape'[t] : t \in tables}
    <2>1. UNCHANGED <<owner, tables, win>>
      BY <1>1 DEF CommitSnapshot
    <2> SUFFICES ASSUME NEW c \in Client, owner = c, tables # {}
                 PROVE  Exact(win[c], laterHits, laterShapes)
      BY <2>1 DEF Hits, Shapes
    <2>2. /\ win[c].end <= head /\ win[c].head <= head
          /\ win[c].end \in Int /\ win[c].head \in Int /\ head \in Int
      BY DEF PastInv, Snapshot, NoSnapshot, TypeOK
    <2>3. /\ \A s \in laterHits : s \in Hits(tables) \/ s = head + 1
          /\ \A s \in laterShapes : s \in Shapes(tables) \/ s = head + 1
      <3>1. tables \in SUBSET Table
        BY DEF TypeOK
      <3> QED
        BY <1>1, <3>1, Grows
    <2>4. ~(head + 1 <= win[c].end) /\ ~(head + 1 <= win[c].head)
      BY <2>2
    <2>5. Exact(win[c], Hits(tables), Shapes(tables))
      OBVIOUS
    <2> HIDE DEF laterHits, laterShapes
    <2> QED
      BY <2>3, <2>4, <2>5 DEF Exact
  <1>2. CASE WindowsLeft
    <2> SUFFICES ASSUME NEW c \in Client, owner' = c, tables' # {}
                 PROVE  Exact(win'[c], Hits(tables'), Shapes(tables'))
      BY <1>2 DEF WindowsLeft, Hits, Shapes
    <2>1. tables' \in SUBSET Table
      BY DEF TypeOK
    <2> QED
      BY <1>2, <2>1, NoWindowExact DEF WindowsLeft
  <1>3. ASSUME NEW c \in Client, ResolveDml(c) PROVE WindowsInv'
    <2>1. PICK w : Gives(c, w)
      BY <1>3, Resolved
    <2>2. UNCHANGED <<owner, tables, hits, shape>> /\ pc[c] = "resolve"
      BY <1>3 DEF ResolveDml, catalog
    <2>3. owner = c /\ tables # {} => Exact(w, Hits(tables), Shapes(tables))
      BY <2>1, <2>2 DEF LoadInv, Gives
    <2>4. win'[c] = w /\ \A d \in Client : d # c => win'[d] = win[d]
      BY <2>1 DEF TypeOK, Gives
    <2> QED
      BY <2>2, <2>3, <2>4 DEF Hits, Shapes
  <1> QED
    BY <1>1, <1>2, <1>3, LeavesWindows

LEMMA RangesStep ==
  ASSUME Lasting, TypeOK, PastInv, LoadInv, RangesInv, [Next]_vars
  PROVE  RangesInv'
  <1> USE DEF RangesInv
  <1>1. CASE CommitSnapshot
    <2> SUFFICES ASSUME NEW c \in Client, NEW t \in Table, Recreates \/ t \in tables
                 PROVE  ~FindsBoundary(shape'[t], safe[c].cursor, safe[c].until)
      BY <1>1 DEF CommitSnapshot
    <2>1. safe[c].until <= head /\ safe[c].cursor \in Int /\ safe[c].until \in Int
      BY BoundsAssumption DEF PastInv, Snapshot, NoSnapshot, TypeOK
    <2>2. shape'[t] \subseteq shape[t] \union {head + 1} /\ head \in Int
      BY <1>1, BoundsAssumption DEF CommitSnapshot, TypeOK, Snapshot
    <2> QED
      BY <2>1, <2>2 DEF FindsBoundary
  <1>2. CASE WindowsLeft
    BY <1>2 DEF WindowsLeft
  <1>3. ASSUME NEW c \in Client, ResolveDml(c) PROVE RangesInv'
    <2>1. PICK w : Gives(c, w)
      BY <1>3, Resolved
    <2>2. UNCHANGED <<tables, shape>> /\ pc[c] = "resolve"
      BY <1>3 DEF ResolveDml, catalog
    <2>3. ASSUME NEW t \in Table, Recreates \/ t \in tables
          PROVE  ~FindsBoundary(shape[t], base[c], SafeUntil(w))
      <3>1. CASE t \in loaded[c]
        BY <2>1, <3>1 DEF FindsBoundary, Shapes, Gives
      <3>2. CASE loaded[c] = {}
        <4>1. base[c] \in Int /\ shape[t] \subseteq Int
          BY BoundsAssumption DEF TypeOK, Snapshot
        <4> QED
          BY <2>1, <3>2, <4>1 DEF FindsBoundary, Gives
      <3>3. loaded[c] \in SUBSET Table
        BY DEF TypeOK
      <3>4. t \in loaded[c] \/ loaded[c] = {}
        BY <2>2, <2>3, <3>3 DEF LoadInv, Lasting
      <3> QED
        BY <3>1, <3>2, <3>4
    <2>4. /\ safe'[c].cursor = base[c] /\ safe'[c].until = SafeUntil(w)
          /\ \A d \in Client : d # c => safe'[d] = safe[d]
      BY <2>1 DEF TypeOK, Gives
    <2> QED
      BY <2>2, <2>3, <2>4
  <1> QED
    BY <1>1, <1>2, <1>3, LeavesWindows DEF Lasting

\* The goal of the holder's commit, when it is neither behind the cursor nor
\* beyond a shape change, is of the cursor's epoch.
LEMMA SettledGoal ==
  ASSUME TypeOK, EpochInv, NEW c \in Client, pc[c] \in {"update", "write"}, owner = c,
         cursor <= goal[c], tables # {}
  PROVE  Behind(goal[c]) = pinned
  <1>1. /\ Behind(cursor) = pinned /\ Behind(base[c]) = pinned
        /\ ~FindsBoundary(Shapes(tables), base[c], goal[c])
    BY DEF EpochInv
  <1>2. /\ \A b \in Shapes(tables) : b \in Int
        /\ base[c] \in Int /\ goal[c] \in Int /\ cursor \in Int
    BY PartsTyped, BoundsAssumption DEF TypeOK, Snapshot, NoSnapshot
  <1>3. ASSUME NEW b \in Shapes(tables), b <= goal[c] PROVE b <= cursor
    BY <1>1, <1>2, <1>3 DEF FindsBoundary, Behind
  <1>4. ASSUME NEW b \in Shapes(tables), b <= cursor PROVE b <= goal[c]
    BY <1>2, <1>4
  <1> QED
    BY <1>1, <1>3, <1>4 DEF Behind

\* What a commit may rely on that is not checked against the catalog: the
\* range cached for its cursor, or the cursor itself.
LEMMA Spared ==
  ASSUME TypeOK, RangesInv, NEW c \in Client, NEW s \in Snapshot,
         s <= cursor \/ (safe[c].cursor = cursor /\ s <= safe[c].until)
  PROVE  ~FindsBoundary(Shapes(tables), cursor, s)
  <1>1. /\ \A t \in tables : t \in Table /\ \A b \in shape[t] : b \in Int
        /\ cursor \in Int /\ s \in Int /\ safe[c].until \in Int
    BY BoundsAssumption DEF TypeOK, Snapshot, NoSnapshot
  <1>2. \A t \in tables : ~FindsBoundary(shape[t], safe[c].cursor, safe[c].until)
    BY <1>1 DEF RangesInv
  <1>3. \A t \in tables : ~FindsBoundary(shape[t], cursor, s)
    BY <1>1, <1>2 DEF FindsBoundary
  <1> QED
    BY <1>3 DEF FindsBoundary, Shapes

\* What EpochInv asks of the next state, when the consumer stays the same and
\* the catalog's shape changes too.
StaysInEpoch ==
  /\ UNCHANGED <<tables, shape, pinned>>
  /\ tables # {} => Behind(cursor') = pinned
  /\ tables # {} \/ Recreates
  /\ \A c \in Client :
       /\ owner' = c /\ tables # {} =>
            /\ pc'[c] \in {"commit_load", "validate", "update", "verify", "recheck", "write"} =>
                 Behind(base'[c]) = pinned
            /\ pc'[c] \in {"update", "verify", "recheck", "write"} =>
                 ~FindsBoundary(Shapes(tables), base'[c], goal'[c])
       /\ pc'[c] \in {"reset_resolve", "reset_load", "reset_validate"} =>
            Behind(base'[c]) = pinned
       /\ pc'[c] = "reset_write" => Behind(goal'[c]) = pinned
       /\ Recreates =>
            pc'[c] \notin {"reset_resolve", "reset_load", "reset_validate", "reset_write"}

LEMMA EpochKept == StaysInEpoch => EpochInv'
  BY DEF StaysInEpoch, EpochInv, Behind, Shapes

\* A cursor that moves moves within its epoch.
LEMMA EpochStep ==
  ASSUME Settled, TypeOK, PastInv, WriteInv, LoadInv, RangesInv, EpochInv, [Next]_vars
  PROVE  EpochInv'
  <1> USE NobodyAssumption, BoundsAssumption
      DEF Settled, Lasting, Kept, TypeOK, Snapshot, EpochInv, StaysInEpoch, Goto, catalog, locals
  <1>1. CASE CommitSnapshot
    <2> DEFINE later == UNION {shape'[t] : t \in tables}
    <2>1. /\ \A c \in Client : base[c] <= head /\ goal[c] <= head
          /\ cursor <= head
      BY DEF PastInv
    <2>2. /\ pc' = pc /\ base' = base /\ goal' = goal /\ cursor' = cursor
          /\ pinned' = pinned /\ tables' = tables /\ owner' = owner
      BY <1>1 DEF CommitSnapshot
    <2>3. /\ \A x \in Snapshot : x <= head => {b \in later : b <= x} = Behind(x)
          /\ \A lo, hi \in Int : hi <= head =>
               (FindsBoundary(later, lo, hi) <=> FindsBoundary(Shapes(tables), lo, hi))
      BY <1>1, Grows DEF Behind
    <2>4. \A c \in Client :
            FindsBoundary(later, base[c], goal[c]) <=>
            FindsBoundary(Shapes(tables), base[c], goal[c])
      <3>1. \A c \in Client : base[c] \in Int /\ goal[c] \in Int
        OBVIOUS
      <3> QED
        BY <2>1, <2>3, <3>1
    <2>5. cursor \in Snapshot => {b \in later : b <= cursor} = Behind(cursor)
      BY <2>1, <2>3
    <2>6. \A c \in Client : /\ {b \in later : b <= base[c]} = Behind(base[c])
                            /\ {b \in later : b <= goal[c]} = Behind(goal[c])
      BY <2>1, <2>3
    <2>7. cursor = NoSnapshot => {b \in later : b <= cursor} = Behind(cursor)
      <3>1. /\ \A b \in Shapes(tables) : b \in Nat
            /\ \A b \in later : b \in Nat
        <4>1. tables \in SUBSET Table
          OBVIOUS
        <4>2. Shapes(tables) \in SUBSET Snapshot
          BY <4>1, PartsTyped
        <4>3. \A b \in later : b \in Shapes(tables) \/ b = head + 1
          BY <1>1, <4>1, Grows
        <4> HIDE DEF later
        <4> QED
          BY <4>2, <4>3
      <3> QED
        BY <3>1 DEF NoSnapshot, Behind
    <2> HIDE DEF later
    <2>8. /\ tables # {} => {b \in later : b <= cursor} = pinned
          /\ tables # {} \/ Recreates
          /\ \A c \in Client :
               /\ owner = c /\ tables # {} =>
                    /\ pc[c] \in {"commit_load", "validate", "update", "verify", "recheck",
                                 "write"} =>
                         {b \in later : b <= base[c]} = pinned
                    /\ pc[c] \in {"update", "verify", "recheck", "write"} =>
                         ~FindsBoundary(later, base[c], goal[c])
               /\ pc[c] \in {"reset_resolve", "reset_load", "reset_validate"} =>
                    {b \in later : b <= base[c]} = pinned
               /\ pc[c] = "reset_write" => {b \in later : b <= goal[c]} = pinned
               /\ Recreates =>
                    pc[c] \notin {"reset_resolve", "reset_load", "reset_validate", "reset_write"}
      BY <2>4, <2>5, <2>6, <2>7
    <2> QED
      BY <2>2, <2>8 DEF Behind, Shapes, later
  <1>2. CASE LoseLease
    BY <1>2, EpochKept DEF LoseLease
  <1>3. CASE DropSubscriptions \/ DropRow
    BY <1>3 DEF DropSubscriptions, DropRow
  <1>20. ASSUME NEW t \in Table, NEW s \in Snapshot, Create(t, s) PROVE EpochInv'
    <2>1. Behind(cursor)' = pinned'
      BY <1>20 DEF Create, Behind, Shapes
    <2>2. owner' = Nobody /\ pc' = pc /\ Recreates
      BY <1>20 DEF Create
    <2> QED
      BY <2>1, <2>2
  <1>4. ASSUME NEW c \in Client, AcquireForWindow(c) PROVE StaysInEpoch
    BY <1>4 DEF AcquireForWindow
  <1>18. ASSUME NEW c \in Client, LoadSubscriptions(c) PROVE StaysInEpoch
    BY <1>18 DEF LoadSubscriptions
  <1>5. ASSUME NEW c \in Client, ReadBounds(c) PROVE StaysInEpoch
    BY <1>5 DEF ReadBounds, Return
  <1>6. ASSUME NEW c \in Client, NEW s \in Snapshot, BeginCommit(c, s) PROVE StaysInEpoch
    <2>1. CASE s <= cursor \/ (safe[c].cursor = cursor /\ s <= safe[c].until)
      <3>1. ~FindsBoundary(Shapes(tables), cursor, s)
        BY <2>1, Spared
      <3>2. pc' = [pc EXCEPT ![c] = "update"]
        BY <1>6, <2>1 DEF BeginCommit
      <3> QED
        BY <1>6, <3>1, <3>2 DEF BeginCommit
    <2>2. CASE ~(s <= cursor \/ (safe[c].cursor = cursor /\ s <= safe[c].until))
      <3>1. pc' = [pc EXCEPT ![c] = "commit_load"]
        BY <1>6, <2>2 DEF BeginCommit
      <3> QED
        BY <1>6, <3>1 DEF BeginCommit
    <2> QED
      BY <2>1, <2>2
  <1>7. ASSUME NEW c \in Client, ValidateCommit(c) PROVE StaysInEpoch
    <2>1. CASE Return(c)
      BY <1>7, <2>1 DEF ValidateCommit, Return
    <2>2. CASE ~Return(c)
      <3>1. /\ pc[c] = "validate" /\ pc' = [pc EXCEPT ![c] = "update"]
            /\ UNCHANGED <<locals, catalog, tables, owner, cursor, pinned>>
            /\ ~FindsBoundary(Shapes(loaded[c]), base[c], goal[c])
        BY <1>7, <2>2, ScansAll DEF ValidateCommit
      <3>2. owner = c /\ tables # {} => ~FindsBoundary(Shapes(tables), base[c], goal[c])
        BY <3>1 DEF LoadInv
      <3> QED
        BY <3>1, <3>2
    <2> QED
      BY <2>1, <2>2
  <1>8. ASSUME NEW c \in Client, UpdateCursor(c) PROVE StaysInEpoch
    <2>1. MayCommit(c) /\ tables # {} => Behind(goal[c]) = pinned
      BY <1>8, SettledGoal DEF UpdateCursor, MayCommit
    <2>2. tables # {} => Behind(cursor') = pinned
      BY <1>8, <2>1, UpdateCases
    <2>3. CASE Return(c)
      BY <1>8, <2>2, <2>3 DEF UpdateCursor, Return
    <2>4. CASE (Goto(c, "verify") \/ Goto(c, "recheck")) /\ UNCHANGED locals
      BY <1>8, <2>2, <2>4 DEF UpdateCursor
    <2> QED
      BY <1>8, <2>3, <2>4, UpdateCases
  <1>9. ASSUME NEW c \in Client, VerifyCommit(c) PROVE StaysInEpoch
    BY <1>9 DEF VerifyCommit, Return
  <1>10. ASSUME NEW c \in Client, RecheckCommit(c) PROVE StaysInEpoch
    BY <1>10 DEF RecheckCommit, MayCommit, Return
  <1>11. ASSUME NEW c \in Client, WriteCursor(c) PROVE StaysInEpoch
    <2>1. CASE owner = c
      <3>1. tables # {} => Behind(goal[c]) = pinned
        BY <1>11, SettledGoal, <2>1 DEF WriteCursor, WriteInv, OrderInv
      <3> QED
        BY <1>11, <2>1, <3>1 DEF WriteCursor, Return
    <2>2. CASE owner # c
      BY <1>11, <2>2 DEF WriteCursor, Return
    <2> QED
      BY <2>1, <2>2
  <1>12. ASSUME NEW c \in Client, BeginReset(c) PROVE StaysInEpoch
    BY <1>12 DEF BeginReset
  <1>19. ASSUME NEW c \in Client, NEW s \in Snapshot, ResolveReset(c, s) PROVE StaysInEpoch
    <2>1. pc' = [pc EXCEPT ![c] = "reset_load"]
          \/ (pc' = [pc EXCEPT ![c] = "reset_write"] /\ s = base[c])
      BY <1>19 DEF ResolveReset
    <2> QED
      BY <1>19, <2>1 DEF ResolveReset
  <1>13. ASSUME NEW c \in Client, ValidateReset(c) PROVE StaysInEpoch
    <2>1. CASE Return(c)
      BY <1>13, <2>1 DEF ValidateReset, Return
    <2>2. CASE ~Return(c)
      <3>1. pc[c] = "reset_validate" /\ loaded[c] = tables /\ loaded[c] \in SUBSET Table
        BY <1>13 DEF ValidateReset, LoadInv
      <3>2. Scans(Shapes(loaded[c])) = {Shapes(tables)}
        BY <3>1, ScansAll
      <3>3. /\ ~FindsBoundary(Shapes(tables), base[c], goal[c])
            /\ ~FindsBoundary(Shapes(tables), goal[c], base[c])
            /\ pc' = [pc EXCEPT ![c] = "reset_write"]
            /\ UNCHANGED <<locals, catalog, tables, owner, cursor, pinned>>
        BY <1>13, <2>2, <3>2 DEF ValidateReset
      <3>4. Behind(base[c]) = Behind(goal[c])
        BY <3>3, SameEpoch
      <3> QED
        BY <3>1, <3>3, <3>4
    <2> QED
      BY <2>1, <2>2
  <1>14. ASSUME NEW c \in Client, WriteReset(c) PROVE StaysInEpoch
    BY <1>14 DEF WriteReset, Return
  <1>15. ASSUME NEW c \in Client, StatementFails(c) PROVE StaysInEpoch
    BY <1>15 DEF StatementFails, Return
  <1>16. ASSUME NEW c \in Client, ResolveDml(c) PROVE StaysInEpoch
    BY <1>16 DEF ResolveDml, Return
  <1>17. CASE UNCHANGED vars
    BY <1>17, EpochKept DEF vars
  <1> QED
    BY <1>1, <1>2, <1>3, <1>4, <1>5, <1>6, <1>7, <1>8, <1>9, <1>10, <1>11, <1>12, <1>13,
       <1>14, <1>15, <1>16, <1>17, <1>18, <1>19, <1>20, EpochKept, NextCases
    DEF ExpireSnapshots, ResolveDdl

\* The created consumer satisfies them all.
LEMMA KeptInit ==
  ASSUME Init
  PROVE  PastInv /\ LoadInv /\ WindowsInv /\ RangesInv /\ EpochInv
  <1>1. /\ NoWindow.end = 0 /\ NoWindow.head = 0
        /\ NoRange.cursor = -1 /\ NoRange.until = -1
    BY DEF NoWindow, DmlWindow, NoRange, NoSnapshot
  <1>2. TypeOK /\ head \in Nat /\ tables \in SUBSET Table
    BY TypeInit, BoundsAssumption DEF TypeOK, Snapshot
  <1>7. LoadInv
    BY DEF Init, LoadInv
  <1>3. PastInv
    BY <1>1, <1>2 DEF Init, PastInv
  <1>4. EpochInv
    BY DEF Init, EpochInv
  <1>5. RangesInv
    BY <1>1, <1>2, BoundsAssumption DEF Init, RangesInv, FindsBoundary, TypeOK, Snapshot
  <1>6. WindowsInv
    BY <1>2, NoWindowExact DEF Init, WindowsInv
  <1> QED
    BY <1>3, <1>4, <1>5, <1>6, <1>7

LEMMA PastHolds ==
  ASSUME Kept
  PROVE  Spec => [](PastInv /\ LoadInv /\ WindowsInv)
  <1>1. Init => PastInv /\ LoadInv /\ WindowsInv
    BY KeptInit
  <1>2. TypeOK /\ TypeOK' /\ WriteInv /\ PastInv /\ LoadInv /\ WindowsInv /\ [Next]_vars =>
          (PastInv /\ LoadInv /\ WindowsInv)'
    BY PastStep, LoadStep, WindowsStep
  <1> QED
    BY <1>1, <1>2, TypeCorrect, WriteInvHolds, PTL DEF Spec

LEMMA RangesHold ==
  ASSUME Lasting
  PROVE  Spec => []RangesInv
  <1>1. Init => RangesInv
    BY KeptInit
  <1>2. TypeOK /\ PastInv /\ LoadInv /\ RangesInv /\ [Next]_vars => RangesInv'
    BY RangesStep
  <1>3. Spec => [](PastInv /\ LoadInv)
    BY PastHolds, PTL DEF Lasting
  <1> QED
    BY <1>1, <1>2, <1>3, TypeCorrect, PTL DEF Spec

\* A window of a DML consumer is exact as long as the lease lasts under which
\* it was given.  The subscriptions are loaded by name between the lease and
\* the scans, so a drop and a creation with another table may come between
\* any two of them; what then is resolved for a consumer that is no more goes
\* to a client whose lease the drop has ended.  Nothing may expire.
THEOREM WindowsExact ==
  ASSUME Kept
  PROVE  Spec => []WindowExact
  <1>1. WindowsInv => WindowExact
    BY DEF WindowsInv, WindowExact, Kept
  <1> QED
    BY <1>1, PastHolds, PTL

\* A cached safe commit range never spans a shape change, unless the name
\* comes to stand for a consumer of another table.
THEOREM SafeRanges ==
  ASSUME Lasting
  PROVE  Spec => []SafeRangeSound
  <1>1. TypeOK /\ RangesInv => SafeRangeSound
    BY DEF RangesInv, SafeRangeSound, FindsBoundary, Shapes, TypeOK
  <1> QED
    BY <1>1, RangesHold, TypeCorrect, PTL

\* A DML consumer stays in its schema-shape epoch: no interleaving of
\* windows, commits, cached safe ranges, takeovers, and resets or
\* re-creations moves it out, as long as clients do not guess and the catalog
\* does not expire.
THEOREM PinnedToShape ==
  ASSUME Settled
  PROVE  Spec => []PinnedShape
  <1>1. Init => EpochInv
    BY KeptInit
  <1>2. TypeOK /\ PastInv /\ WriteInv /\ LoadInv /\ RangesInv /\ EpochInv /\ [Next]_vars =>
          EpochInv'
    BY EpochStep
  <1>3. Spec => [](PastInv /\ LoadInv /\ RangesInv)
    BY PastHolds, RangesHold, PTL DEF Settled, Lasting
  <1>4. EpochInv => PinnedShape
    BY DEF EpochInv, PinnedShape
  <1> QED
    BY <1>1, <1>2, <1>3, <1>4, TypeCorrect, WriteInvHolds, PTL DEF Spec

-----------------------------------------------------------------------------
(* The windows of a DDL consumer, whatever its clients guess, operators      *)
(* reset and maintenance expires.                                            *)

DdlInv ==
  \A c \in Client : /\ pc[c] # "resolve"
                    /\ win[c].end <= head /\ win[c].head <= head
                    /\ Exact(win[c], 1 .. head, {})

\* A window that is exact stays so while the catalog only grows.
LEMMA DdlKept ==
  ASSUME TypeOK, DdlInv, head' \in {head, head + 1}, UNCHANGED win,
         \A c \in Client : pc'[c] # "resolve"
  PROVE  DdlInv'
  <1> SUFFICES ASSUME NEW c \in Client
               PROVE  win[c].end <= head' /\ win[c].head <= head' /\ Exact(win[c], 1 .. head', {})
    BY DEF DdlInv
  <1>1. /\ win[c].end <= head /\ win[c].head <= head /\ Exact(win[c], 1 .. head, {})
        /\ head \in Nat /\ win[c].end \in Nat /\ win[c].head \in Nat
    BY BoundsAssumption DEF DdlInv, TypeOK, Snapshot
  <1>2. \A s \in 1 .. head' : s \in 1 .. head \/ ~(s <= win[c].end \/ s <= win[c].head)
    BY <1>1
  <1> QED
    BY <1>1, <1>2 DEF Exact

LEMMA DdlStep ==
  ASSUME Kind = "ddl", TypeOK, DdlInv, [Next]_vars
  PROVE  DdlInv'
  <1> USE DEF TypeOK, Goto, catalog, locals
  <1>1. head \in Nat
    BY BoundsAssumption DEF Snapshot
  <1>2. NoWindow.end = 0 /\ NoWindow.head = 0 /\ Exact(NoWindow, 1 .. head, {})
    BY <1>1 DEF NoWindow, DmlWindow, NoSnapshot, Exact, HasChanges
  <1>3. CASE \/ CommitSnapshot \/ ExpireSnapshots \/ LoseLease \/ UNCHANGED vars
            \/ DropSubscriptions \/ DropRow \/ \E t \in Table, s \in Snapshot : Create(t, s)
    <2>1. head' \in {head, head + 1} /\ UNCHANGED <<win, pc>>
      BY <1>3 DEF CommitSnapshot, ExpireSnapshots, LoseLease, DropSubscriptions, DropRow, Create,
                  vars
    <2> QED
      BY <2>1, DdlKept DEF DdlInv
  <1>8. ASSUME NEW c \in Client, AcquireForWindow(c) PROVE DdlInv'
    <2>1. head' = head /\ pc' = [pc EXCEPT ![c] = "bounds"]
      BY <1>8 DEF AcquireForWindow
    <2>2. win' = win \/ win' = [win EXCEPT ![c] = NoWindow]
      BY <1>8 DEF AcquireForWindow
    <2> QED
      BY <1>1, <1>2, <2>1, <2>2 DEF DdlInv
  <1>5. ASSUME NEW c \in Client, NEW s \in Snapshot, BeginCommit(c, s) PROVE DdlInv'
    BY <1>1, <1>2, <1>5 DEF BeginCommit, DdlInv
  <1>6. ASSUME NEW c \in Client, ResolveDdl(c) PROVE DdlInv'
    <2>1. head' = head /\ pc' = [pc EXCEPT ![c] = "idle"]
      BY <1>6 DEF ResolveDdl, Return
    <2>2. CASE UNCHANGED win
      BY <2>1, <2>2 DEF DdlInv
    <2>3. CASE ~UNCHANGED win
      <3>1. PICK first \in Snapshot \union {NoSnapshot} :
              /\ IsFirst(first, oldest .. head, base[c], head)
              /\ win' = [win EXCEPT ![c] = DdlWindow(base[c], head, first, MaxWindow)]
        BY <1>6, <2>3 DEF ResolveDdl
      <3> DEFINE w == DdlWindow(base[c], head, first, MaxWindow)
      <3>2. /\ oldest \in Nat /\ base[c] \in Nat /\ oldest <= base[c] /\ base[c] <= head
            /\ first \in Nat \union {NoSnapshot}
        BY <1>6, <2>3, BoundsAssumption DEF ResolveDdl, Exists, Snapshot
      <3>3. Exact(w, 1 .. head, {}) /\ w.end <= head
        BY <1>1, <3>1, <3>2, BoundsAssumption, DdlWindowExact
      <3>4. w.head = head
        BY DEF DdlWindow
      <3> HIDE DEF w
      <3>5. win' = [win EXCEPT ![c] = w]
        BY <3>1 DEF w
      <3> QED
        BY <1>1, <2>1, <3>3, <3>4, <3>5 DEF DdlInv
    <2> QED
      BY <2>2, <2>3
  <1>7. ASSUME NEW c \in Client,
               \/ LoadSubscriptions(c) \/ ValidateCommit(c) \/ UpdateCursor(c) \/ VerifyCommit(c)
               \/ RecheckCommit(c) \/ WriteCursor(c) \/ BeginReset(c)
               \/ (\E s \in Snapshot : ResolveReset(c, s))
               \/ ValidateReset(c) \/ WriteReset(c) \/ StatementFails(c)
        PROVE  DdlInv'
    <2>1. head' = head /\ UNCHANGED win
      BY <1>7 DEF LoadSubscriptions, ValidateCommit, UpdateCursor, VerifyCommit, RecheckCommit,
                  WriteCursor, BeginReset, ResolveReset, ValidateReset, WriteReset, StatementFails
    <2>2. \E label \in PC \ {"resolve"} : pc' = [pc EXCEPT ![c] = label]
      BY <1>7 DEF LoadSubscriptions, ValidateCommit, UpdateCursor, VerifyCommit, RecheckCommit,
                  WriteCursor, BeginReset, ResolveReset, ValidateReset, WriteReset,
                  StatementFails, Return, PC
    <2>3. \A d \in Client : pc'[d] # "resolve"
      BY <2>2 DEF DdlInv
    <2> QED
      BY <2>1, <2>3, DdlKept
  <1> QED
    BY <1>3, <1>5, <1>6, <1>7, <1>8, NextCases DEF ReadBounds, ResolveDml, DdlInv

\* The window of a DDL consumer leaves no snapshot out, for any guessing,
\* expiry, resets and re-creations.
THEOREM DdlWindowsExact ==
  ASSUME Kind = "ddl"
  PROVE  Spec => []WindowExact
  <1>1. Init => DdlInv
    <2> SUFFICES ASSUME Init PROVE DdlInv
      OBVIOUS
    <2>1. head \in Nat /\ \A c \in Client : win[c] = NoWindow /\ pc[c] = "idle"
      BY BoundsAssumption DEF Init, Snapshot
    <2>2. NoWindow.end = 0 /\ NoWindow.head = 0 /\ Exact(NoWindow, 1 .. head, {})
      BY <2>1 DEF NoWindow, DmlWindow, NoSnapshot, Exact, HasChanges
    <2> QED
      BY <2>1, <2>2 DEF DdlInv
  <1>2. TypeOK /\ DdlInv /\ [Next]_vars => DdlInv'
    BY DdlStep
  <1>3. DdlInv => WindowExact
    BY DEF DdlInv, WindowExact
  <1> QED
    BY <1>1, <1>2, <1>3, TypeCorrect, PTL DEF Spec

-----------------------------------------------------------------------------
(* Refinement: the statements of all calls against one-step commits.         *)

Requests == [c \in Client |-> Request(c)]

\* The statements of a call that has asked for a commit, for a reset, or not
\* yet for anything.
CommitPC == {"commit_load", "validate", "update", "verify", "recheck", "write"}
ResetPC  == {"reset_load", "reset_validate", "reset_write"}
OtherPC  == {"idle", "load", "bounds", "resolve", "reset_resolve"}

\* What a statement makes of its call's request.
LEMMA OneRequest ==
  ASSUME TypeOK, NEW c \in Client, NEW label \in PC, NEW s, Goto(c, label),
         goal' = [goal EXCEPT ![c] = s]
  PROVE  /\ label \in CommitPC =>
              Requests' = [Requests EXCEPT ![c] = [kind |-> "commit", snapshot |-> s]]
         /\ label \in ResetPC =>
              Requests' = [Requests EXCEPT ![c] = [kind |-> "reset", snapshot |-> s]]
         /\ label \in OtherPC =>
              Requests' = [Requests EXCEPT ![c] = Abstract!Nothing]
  <1>1. /\ pc' = [pc EXCEPT ![c] = label] /\ goal'[c] = s /\ pc'[c] = label
        /\ \A d \in Client \ {c} : pc'[d] = pc[d] /\ goal'[d] = goal[d]
    BY DEF Goto, TypeOK
  <1>2. \A d \in Client \ {c} : Request(d)' = Request(d)
    BY <1>1 DEF Request
  <1>3. /\ label \in CommitPC =>
             Request(c)' = [kind |-> "commit", snapshot |-> s]
        /\ label \in ResetPC =>
             Request(c)' = [kind |-> "reset", snapshot |-> s]
        /\ label \in OtherPC => Request(c)' = Abstract!Nothing
    BY <1>1 DEF Request, Abstract!Nothing, CommitPC, ResetPC, OtherPC
  <1> QED
    BY <1>2, <1>3 DEF Requests

\* A call that returns has no request any more, and a statement between two
\* of the same request changes none.
LEMMA Ended ==
  ASSUME TypeOK, NEW c \in Client, Return(c)
  PROVE  Requests' = [Requests EXCEPT ![c] = Abstract!Nothing]
  BY OneRequest DEF Return, PC, OtherPC

LEMMA Continued ==
  ASSUME TypeOK, NEW c \in Client, NEW label \in PC, Goto(c, label), UNCHANGED goal,
         \/ pc[c] \in OtherPC /\ label \in OtherPC
         \/ /\ pc[c] \in CommitPC
            /\ label \in CommitPC
         \/ /\ pc[c] \in ResetPC
            /\ label \in ResetPC
  PROVE  Requests' = Requests
  <1>1. \A d \in Client \ {c} : pc'[d] = pc[d]
    BY DEF Goto, TypeOK
  <1>2. pc'[c] = label
    BY DEF Goto, TypeOK
  <1>3. \A d \in Client : Request(d)' = Request(d)
    BY <1>1, <1>2 DEF Request, CommitPC, ResetPC, OtherPC
  <1> QED
    BY <1>3 DEF Requests

\* Every statement is a step of the row of CursorSpec, or changes nothing
\* there.
LEMMA RefinementStep ==
  ASSUME TypeOK, WriteInv, [Next]_vars
  PROVE  [Abstract!Next]_(Abstract!vars)
  <1> USE DEF catalog, locals, CommitPC, ResetPC, OtherPC
  <1>1. /\ head \in Snapshot /\ oldest \in Snapshot
        /\ cursor \in Snapshot \union {NoSnapshot} /\ NoSnapshot \notin Nat
        /\ Snapshot \subseteq Nat
        /\ \A c \in Client : goal[c] \in Snapshot
    BY BoundsAssumption DEF TypeOK, Snapshot, NoSnapshot
  <1>2. ASSUME UNCHANGED <<head, oldest, owner, cursor>>, Requests' = Requests
        PROVE  UNCHANGED Abstract!vars
    BY <1>2 DEF Abstract!vars, Requests
  <1>3. ASSUME UNCHANGED <<head, oldest, owner, cursor>>, NEW c \in Client, Return(c)
        PROVE  Abstract!Next
    <2>1. Abstract!End(c)
      BY <1>3, Ended DEF Abstract!End, Requests
    <2> QED
      BY <2>1 DEF Abstract!Next
  <1>4. ASSUME UNCHANGED <<pc, goal>> PROVE Requests' = Requests
    BY <1>4 DEF Requests, Request
  <1>5. \A c \in Client : pc[c] \in CommitPC =>
          Requests[c] = [kind |-> "commit", snapshot |-> goal[c]]
    BY DEF Requests, Request
  <1>6. \A c \in Client : pc[c] \in ResetPC =>
          Requests[c] = [kind |-> "reset", snapshot |-> goal[c]]
    BY DEF Requests, Request
  <1>7. \A c \in Client : pc[c] \in OtherPC => Requests[c] = Abstract!Nothing
    BY DEF Requests, Request, Abstract!Nothing
  \* What is left to show of a commit, and of a request.
  <1>8. ASSUME NEW c \in Client, UNCHANGED <<head, oldest, owner>>,
               pc[c] \in {"update", "write"}, owner = c, cursor <= goal[c], goal[c] <= head,
               Strictly => oldest <= goal[c], cursor' = goal[c],
               Requests' = Requests \/ Return(c)
        PROVE  Abstract!Next
    <2>1. Requests' \in {Requests, [Requests EXCEPT ![c] = Abstract!Nothing]}
      BY <1>8, Ended
    <2>2. Abstract!Commit(c)
      BY <1>5, <1>8, <2>1 DEF Abstract!Commit, Requests, Strictly
    <2> QED
      BY <2>2 DEF Abstract!Next
  <1>9. CASE CommitSnapshot \/ ExpireSnapshots \/ LoseLease \/ UNCHANGED vars
    <2>1. Requests' = Requests
      BY <1>4, <1>9 DEF CommitSnapshot, ExpireSnapshots, LoseLease, vars
    <2>2. Abstract!Grow \/ Abstract!Expire \/ Abstract!Lose \/ UNCHANGED Abstract!vars
      BY <1>1, <1>9, <2>1
      DEF CommitSnapshot, ExpireSnapshots, LoseLease, vars, Requests,
          Abstract!Grow, Abstract!Expire, Abstract!Lose, Abstract!vars
    <2> QED
      BY <2>2 DEF Abstract!Next
  <1>10. ASSUME NEW t \in Table, NEW s \in Snapshot, Create(t, s) PROVE Abstract!Next
    <2>1. Requests' = Requests
      BY <1>4, <1>10 DEF Create
    <2>2. s \in 0 .. head
      BY <1>1, <1>10, BoundsAssumption DEF Create, Snapshot
    <2>3. Abstract!Create
      BY <1>10, <2>1, <2>2 DEF Create, Abstract!Create, Requests
    <2> QED
      BY <2>3 DEF Abstract!Next
  <1>18. CASE DropSubscriptions
    <2>1. Requests' = Requests
      BY <1>4, <1>18 DEF DropSubscriptions
    <2> QED
      BY <1>2, <1>18, <2>1 DEF DropSubscriptions
  <1>19. CASE DropRow
    <2>1. Requests' = Requests
      BY <1>4, <1>19 DEF DropRow
    <2>2. Abstract!Drop
      BY <1>19, <2>1 DEF DropRow, Abstract!Drop, Requests
    <2> QED
      BY <2>2 DEF Abstract!Next
  <1>11. ASSUME NEW c \in Client, AcquireForWindow(c) PROVE Abstract!Next
    <2>1. Requests' = Requests
      BY <1>11, Continued DEF AcquireForWindow, PC
    <2>2. Abstract!Acquire(c)
      BY <1>7, <1>11, <2>1 DEF AcquireForWindow, Abstract!Acquire, Requests
    <2> QED
      BY <2>2 DEF Abstract!Next
  <1>12. ASSUME NEW c \in Client, NEW s \in Snapshot, BeginCommit(c, s) PROVE Abstract!Next
    <2>1. Requests' = [Requests EXCEPT ![c] = [kind |-> "commit", snapshot |-> s]]
      <3>1. PICK label \in {"update", "commit_load"} : Goto(c, label)
        BY <1>12 DEF BeginCommit
      <3>2. goal' = [goal EXCEPT ![c] = s] /\ label \in PC
        BY <1>12 DEF BeginCommit, PC
      <3> QED
        BY <3>1, <3>2, OneRequest
    <2>2. Abstract!Ask(c, "commit", s)
      BY <1>7, <1>12, <2>1 DEF BeginCommit, Abstract!Ask, Requests
    <2> QED
      BY <2>2 DEF Abstract!Next
  <1>13. ASSUME NEW c \in Client, NEW s \in Snapshot, ResolveReset(c, s) PROVE Abstract!Next
    <2>1. Requests' = [Requests EXCEPT ![c] = [kind |-> "reset", snapshot |-> s]]
      BY <1>13, OneRequest DEF ResolveReset, PC
    <2>2. Abstract!Ask(c, "reset", s)
      BY <1>7, <1>13, <2>1 DEF ResolveReset, Exists, Abstract!Ask, Requests
    <2> QED
      BY <2>2 DEF Abstract!Next
  <1>14. ASSUME NEW c \in Client,
                \/ LoadSubscriptions(c) \/ ReadBounds(c) \/ ResolveDml(c) \/ ResolveDdl(c)
                \/ ValidateCommit(c) \/ VerifyCommit(c) \/ RecheckCommit(c) \/ BeginReset(c)
                \/ ValidateReset(c) \/ StatementFails(c)
         PROVE  [Abstract!Next]_(Abstract!vars)
    <2>1. UNCHANGED <<head, oldest, owner, cursor>>
      BY <1>14 DEF LoadSubscriptions, ReadBounds, ResolveDml, ResolveDdl, ValidateCommit,
                   VerifyCommit, RecheckCommit, BeginReset, ValidateReset, StatementFails
    <2>2. CASE Return(c)
      BY <1>3, <2>1, <2>2
    <2>3. CASE ~Return(c)
      <3>1. Requests' = Requests
        BY <1>14, <2>3, Continued
        DEF LoadSubscriptions, ReadBounds, ResolveDml, ResolveDdl, ValidateCommit, VerifyCommit,
            RecheckCommit, BeginReset, ValidateReset, StatementFails, PC
      <3> QED
        BY <1>2, <2>1, <3>1
    <2> QED
      BY <2>2, <2>3
  <1>15. ASSUME NEW c \in Client, UpdateCursor(c) PROVE [Abstract!Next]_(Abstract!vars)
    <2>1. /\ pc[c] = "update" /\ UNCHANGED <<head, oldest, owner>>
      BY <1>15 DEF UpdateCursor
    <2>2. Requests' = Requests \/ Return(c)
      BY <1>15, Continued DEF UpdateCursor, PC
    <2>3. CASE cursor' = goal[c] /\ MayCommit(c)
      BY <1>8, <2>1, <2>2, <2>3 DEF MayCommit, Exists
    <2>4. CASE cursor' = cursor
      BY <1>2, <1>3, <2>1, <2>2, <2>4
    <2> QED
      BY <1>15, <2>3, <2>4, UpdateCases
  <1>16. ASSUME NEW c \in Client, WriteCursor(c) PROVE Abstract!Next
    <2>1. /\ pc[c] = "write" /\ UNCHANGED <<head, oldest, owner>> /\ Return(c)
      BY <1>16 DEF WriteCursor
    <2>2. CASE owner = c
      BY <1>8, <1>16, <2>1, <2>2 DEF WriteCursor, WriteInv, OrderInv
    <2>3. CASE owner # c
      BY <1>3, <1>16, <2>1, <2>3 DEF WriteCursor
    <2> QED
      BY <2>2, <2>3
  <1>17. ASSUME NEW c \in Client, WriteReset(c) PROVE Abstract!Next
    <2>1. Requests' = [Requests EXCEPT ![c] = Abstract!Nothing]
      BY <1>17, Ended DEF WriteReset
    <2>2. Requests[c] = [kind |-> "reset", snapshot |-> goal[c]]
      BY <1>6, <1>17 DEF WriteReset
    <2>3. CASE cursor # NoSnapshot
      <3>1. Abstract!Reset(c)
        BY <1>17, <2>1, <2>2, <2>3 DEF WriteReset, Abstract!Reset, Requests
      <3> QED
        BY <3>1 DEF Abstract!Next
    <2>4. CASE cursor = NoSnapshot
      BY <1>3, <1>17, <2>4 DEF WriteReset
    <2> QED
      BY <2>3, <2>4
  <1> QED
    BY <1>9, <1>10, <1>11, <1>12, <1>13, <1>14, <1>15, <1>16, <1>17, <1>18, <1>19, NextCases

\* The cursor of the code is the cursor of CursorSpec: on all three commit
\* paths a commit takes place in one step of the client that asked for it
\* and holds the lease, forward and onto a snapshot the catalog has had.
THEOREM Refinement == Spec => ImplementsCursorSpec
  <1>1. Init => Abstract!Init
    <2> SUFFICES ASSUME Init PROVE Abstract!Init
      OBVIOUS
    <2>1. [c \in Client |-> Request(c)] = [c \in Client |-> Abstract!Nothing]
      BY DEF Init, Request, Abstract!Nothing
    <2> QED
      BY <2>1 DEF Init, Abstract!Init
  <1>2. TypeOK /\ WriteInv /\ [Next]_vars => [Abstract!Next]_(Abstract!vars)
    BY RefinementStep
  <1> QED
    BY <1>1, <1>2, TypeCorrect, WriteInvHolds, PTL DEF Spec, ImplementsCursorSpec, Abstract!Spec
=============================================================================
