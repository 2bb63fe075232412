---------------------------- MODULE DeliverySpec ----------------------------
(***************************************************************************)
(* What the reads of one consumer promise the applications that share it:  *)
(* at-least-once delivery of a log that grows.  A batch is all there is in *)
(* a range of snapshots.  The cursor moves over a range only if nothing is *)
(* in it, or in one step of the client that holds the lease and the batch  *)
(* of just that range: once the application has the batch, or, if it wants *)
(* them committed for it, before.  No window, probe or notification is in  *)
(* sight.                                                                  *)
(***************************************************************************)
EXTENDS Naturals

CONSTANTS Client, Nobody

VARIABLES
  head, due,         \* the last snapshot; those with rows for the consumer
  owner, cursor,
  floor,             \* where the cursor was put last
  delivered, lost,   \* since then: handed over, and committed but never handed over
  batch              \* batch[c]: what c's call has read, and how far it is with it

vars == <<head, due, owner, cursor, floor, delivered, lost, batch>>

NoBatch == [state |-> "none", from |-> 0, to |-> 0, rows |-> {}]

Init == /\ head = 0 /\ due = {}
        /\ owner = Nobody /\ cursor = 0 /\ floor = 0
        /\ delivered = {} /\ lost = {}
        /\ batch = [c \in Client |-> NoBatch]

Publish == /\ head' = head + 1
           /\ due' \in {due, due \union {head + 1}}
           /\ UNCHANGED <<owner, cursor, floor, delivered, lost, batch>>

\* The lease is exclusive, and taken before anything is read.
Acquire(c) == /\ owner \in {Nobody, c} /\ batch[c] = NoBatch
              /\ owner' = c
              /\ UNCHANGED <<head, due, cursor, floor, delivered, lost, batch>>
Lose == /\ owner' = Nobody
        /\ UNCHANGED <<head, due, cursor, floor, delivered, lost, batch>>

\* A client that has lost the lease may still read, from wherever it was.
Read(c) ==
  /\ batch[c] = NoBatch
  /\ \E from, to \in 0 .. head :
       LET rows == due \intersect (from + 1 .. to)
       IN  /\ rows # {}
           /\ batch' = [batch EXCEPT ![c] = [state |-> "read", from |-> from, to |-> to, rows |-> rows]]
  /\ UNCHANGED <<head, due, owner, cursor, floor, delivered, lost>>

Holds(c) == owner = c /\ cursor = batch[c].from

\* Committed first, for a caller that asked for it.
Pass(c) == /\ batch[c].state = "read" /\ Holds(c)
           /\ cursor' = batch[c].to
           /\ batch' = [batch EXCEPT ![c].state = "passed"]
           /\ UNCHANGED <<head, due, owner, floor, delivered, lost>>

Hand(c) == /\ \/ /\ batch[c].state = "read"
                 /\ batch' = [batch EXCEPT ![c].state = "handed"]
              \/ /\ batch[c].state = "passed"
                 /\ batch' = [batch EXCEPT ![c] = NoBatch]
           /\ delivered' = delivered \union batch[c].rows
           /\ UNCHANGED <<head, due, owner, cursor, floor, lost>>

Acknowledge(c) == /\ batch[c].state = "handed" /\ Holds(c)
                  /\ cursor' = batch[c].to
                  /\ batch' = [batch EXCEPT ![c] = NoBatch]
                  /\ UNCHANGED <<head, due, owner, floor, delivered, lost>>

Skip(c) == /\ owner = c
           /\ cursor' \in cursor .. head
           /\ due \intersect (cursor + 1 .. cursor') = {}
           /\ UNCHANGED <<head, due, owner, floor, delivered, lost, batch>>

\* The call ends early, or its commit is refused.  What was not committed is
\* read again.
Drop(c) == /\ batch[c] # NoBatch
           /\ batch' = [batch EXCEPT ![c] = NoBatch]
           /\ lost' = lost \union IF batch[c].state = "passed" THEN batch[c].rows ELSE {}
           /\ UNCHANGED <<head, due, owner, cursor, floor, delivered>>

\* The cursor is reset, or the consumer is created again.
Restart == /\ cursor' \in 0 .. head
           /\ floor' = cursor'
           /\ owner' = Nobody
           /\ delivered' = {} /\ lost' = {}
           /\ UNCHANGED <<head, due, batch>>

Next == \/ Publish \/ Lose \/ Restart
        \/ \E c \in Client : \/ Acquire(c) \/ Read(c) \/ Pass(c) \/ Hand(c)
                             \/ Acknowledge(c) \/ Skip(c) \/ Drop(c)

Spec == Init /\ [][Next]_vars
=============================================================================
