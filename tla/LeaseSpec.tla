----------------------------- MODULE LeaseSpec -----------------------------
(***************************************************************************)
(* What the owner-token lease of one consumer row promises its clients,    *)
(* with no token, no statement and no cache in sight.                      *)
(*                                                                         *)
(* A lease is free, held by one client, or orphaned: its token is in the   *)
(* row but no client knows it any more (the holder disconnected, or the    *)
(* call that took it failed before it could remember the token).  While it *)
(* is live nobody but its holder touches it, except an operator, who may   *)
(* free it at any time.                                                    *)
(***************************************************************************)
CONSTANTS Client, Free, Orphan

VARIABLES holder, live

vars == <<holder, live>>

Init == holder = Free /\ live = FALSE

\* A free or a lapsed lease goes to any client that asks.
Acquire(c) == /\ holder = Free \/ ~live
              /\ holder' = c
              /\ live' = TRUE

\* The holder extends its own lease, even a lapsed one nobody has taken.
Renew(c) == holder = c /\ live' = TRUE /\ UNCHANGED holder

\* Time passes without a heartbeat.
Lapse == holder # Free /\ live' = FALSE /\ UNCHANGED holder

\* The holder lets go, or an operator takes the lease away.
Release == holder' = Free /\ live' = FALSE

\* The holder is gone and leaves its token in the row.
Abandon(c) == holder = c /\ holder' = Orphan /\ UNCHANGED live

Next == \/ \E c \in Client : Acquire(c) \/ Renew(c) \/ Abandon(c)
        \/ Lapse
        \/ Release

Spec == Init /\ [][Next]_vars
=============================================================================
