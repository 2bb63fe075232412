---------------------------- MODULE CursorSpec ----------------------------
(***************************************************************************)
(* What the row of one consumer promises its clients, whatever statements  *)
(* their calls are made of: a commit is one step of the client that asked  *)
(* for it, holds the lease and goes forward; everything else that moves    *)
(* the cursor ends the lease with it.  Listen models commits like this.    *)
(***************************************************************************)
EXTENDS Naturals

CONSTANTS
  Client, Nobody,
  Snapshot,  \* what can be a snapshot, now or later
  NoRow,     \* the cursor while there is no consumer of this name
  Strict     \* the step that commits checks that the snapshot still exists

VARIABLES
  head, oldest,  \* the snapshots that exist: oldest .. head
  owner, cursor,
  request        \* request[c]: what c's call is asked to do

vars == <<head, oldest, owner, cursor, request>>

Nothing == [kind |-> "none", snapshot |-> 0]

Init == /\ head \in Snapshot /\ oldest = 0
        /\ owner = Nobody /\ cursor \in 0 .. head
        /\ request = [c \in Client |-> Nothing]

\* The catalog grows at one end and shrinks at the other.
Grow   == head' = head + 1 /\ UNCHANGED <<oldest, owner, cursor, request>>
Expire == oldest' \in oldest + 1 .. head /\ UNCHANGED <<head, owner, cursor, request>>

\* A client takes the lease between its calls, and loses it at any time.
Acquire(c) == /\ cursor # NoRow
              /\ request[c] = Nothing
              /\ owner' = c
              /\ UNCHANGED <<head, oldest, cursor, request>>
Lose == owner' = Nobody /\ UNCHANGED <<head, oldest, cursor, request>>

Ask(c, kind, s) ==
  /\ request[c] = Nothing
  /\ kind = "reset" => oldest <= s /\ s <= head
  /\ request' = [request EXCEPT ![c] = [kind |-> kind, snapshot |-> s]]
  /\ UNCHANGED <<head, oldest, owner, cursor>>

\* The call returns, or throws.
End(c) == /\ request' = [request EXCEPT ![c] = Nothing]
          /\ UNCHANGED <<head, oldest, owner, cursor>>

\* The holder moves the cursor forward, to a snapshot the catalog has had;
\* it may still have to look whether it did.
Commit(c) ==
  /\ request[c].kind = "commit" /\ owner = c
  /\ cursor <= request[c].snapshot /\ request[c].snapshot <= head
  /\ Strict => oldest <= request[c].snapshot
  /\ cursor' = request[c].snapshot
  /\ request' \in {request, [request EXCEPT ![c] = Nothing]}
  /\ UNCHANGED <<head, oldest, owner>>

Reset(c) ==
  /\ request[c].kind = "reset" /\ cursor # NoRow
  /\ cursor' = request[c].snapshot
  /\ owner' = Nobody
  /\ request' = [request EXCEPT ![c] = Nothing]
  /\ UNCHANGED <<head, oldest>>

\* The consumer is dropped, and another is created with its name.
Drop   == /\ cursor # NoRow /\ cursor' = NoRow
          /\ owner' = Nobody
          /\ UNCHANGED <<head, oldest, request>>
Create == /\ cursor = NoRow /\ cursor' \in 0 .. head
          /\ owner' = Nobody
          /\ UNCHANGED <<head, oldest, request>>

Next == \/ Grow \/ Expire \/ Lose \/ Drop \/ Create
        \/ \E c \in Client : Acquire(c) \/ End(c) \/ Commit(c) \/ Reset(c)
        \/ \E c \in Client, kind \in {"commit", "reset"}, s \in Snapshot : Ask(c, kind, s)

Spec == Init /\ [][Next]_vars
=============================================================================
