------------------------------- MODULE Window -------------------------------
(***************************************************************************)
(* How cdc_window turns what it read of the catalog into a window          *)
(* (ResolveDmlWindowIndexed and ResolveWindowFast of consumer.cpp).        *)
(*                                                                         *)
(* Snapshots are numbers.  A window is computed for a cursor and the head  *)
(* of the catalog; -1 stands for "no such snapshot", as in the code.       *)
(***************************************************************************)
EXTENDS Integers

NoSnapshot == -1

\* Mutant of IsFirst: the decoded changes are scanned unsorted.
IsAny(n, S, lo, hi) == \/ n \in S /\ lo < n /\ n <= hi
                       \/ n = NoSnapshot /\ \A m \in S : ~(lo < m /\ m <= hi)

\* n is what an ascending scan of S for a snapshot in (lo, hi] returns:
\* FirstDmlSubscribedSnapshot and NextDmlSubscribedSchemaChangeSnapshot over
\* the snapshots they look for.
IsFirst(n, S, lo, hi) ==
  \/ /\ n \in S /\ lo < n /\ n <= hi
     /\ \A m \in S : lo < m /\ m <= hi => n <= m
  \/ /\ n = NoSnapshot
     /\ \A m \in S : ~(lo < m /\ m <= hi)

Least(a, b) == IF a <= b THEN a ELSE b

\* The window of a DML consumer, from the first snapshot that touches its
\* table and the first that changes the table's shape.
DmlWindow(cursor, head, first, boundary, max) ==
  LET end    == Least(head, first + max - 1)
      capped == boundary # NoSnapshot /\ boundary <= end
      window(s, e, b) == [base |-> cursor, head |-> head, start |-> s, end |-> e,
                          boundary |-> b]
  IN IF first = NoSnapshot /\ boundary = NoSnapshot
     THEN window(cursor + 1, cursor, NoSnapshot)
     ELSE IF boundary # NoSnapshot /\ (first = NoSnapshot \/ boundary <= first)
     THEN window(boundary, boundary - 1, boundary)
     ELSE IF capped THEN window(first, boundary - 1, boundary)
     ELSE window(first, end, NoSnapshot)

\* The window of a DDL consumer, from the first snapshot after its cursor.
\* It has no boundary: schema changes are part of the window.
DdlWindow(cursor, head, first, max) ==
  [base |-> cursor, head |-> head,
   start |-> IF first = NoSnapshot THEN cursor + 1 ELSE first,
   end |-> IF first = NoSnapshot THEN cursor ELSE Least(head, first + max - 1),
   boundary |-> NoSnapshot]

HasChanges(w) == w.end >= w.start

\* No more DML of the pinned shape is coming.
Terminal(w) == ~HasChanges(w) /\ w.boundary # NoSnapshot

\* Mutant of SafeUntil: the end of the window is taken for exclusive.
SafePastEnd(w) == IF HasChanges(w) THEN w.end + 1 ELSE w.base

\* CacheDmlSafeCommitRange: how far a commit needs no boundary check.
SafeUntil(w) == IF HasChanges(w) THEN w.end ELSE w.base

-----------------------------------------------------------------------------
(* What a window promises, against the snapshots that really touch the       *)
(* subscription (hits) and change the pinned shape (shape).                  *)

\* Between the cursor and the end of the window nothing is left out, no
\* shape change is let in, and a window without changes or boundary means
\* that there was nothing up to the head.
Exact(w, hits, shape) ==
  /\ \A s \in hits : w.base < s /\ s <= w.end => w.start <= s
  /\ \A s \in shape : ~(w.base < s /\ s <= w.end)
  /\ ~HasChanges(w) /\ w.boundary = NoSnapshot =>
       \A s \in hits \union shape : ~(w.base < s /\ s <= w.head)
=============================================================================
