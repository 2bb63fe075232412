------------------------------- MODULE Listen -------------------------------
(***************************************************************************)
(* The stateful reads of one consumer (cdc_ddl_* and cdc_dml_*, _listen    *)
(* and _read): wait for a snapshot of interest, take the window, extract   *)
(* its rows, and move the cursor where nothing was found or the caller     *)
(* asked for it (consumer.cpp, dml.cpp, ddl.cpp).                          *)
(*                                                                         *)
(* The lease is LeaseSpec's; a commit is one UPDATE whose WHERE clause     *)
(* checks owner and order.  Modules Lease, Cursor and SnapshotIndex have   *)
(* what is behind these.                                                   *)
(***************************************************************************)
EXTENDS Window

CONSTANTS
  Client,        \* connections, each of an application with a loop of reads
  Nobody,        \* the owner of a free lease
  Kinds,         \* consumer kinds, of {"ddl", "dml"}
  Content,       \* what a snapshot can hold, of Contents
  Notifies,      \* snapshots are notified (Postgres), else polled for
  AutoCommits,   \* values of auto_commit
  Scopes,        \* what DDL consumers are subscribed to, of {"object", "catalog"}
  Recreates,     \* the consumer may be dropped and created again, while it is read
  MaxWindow,     \* max_snapshots of the calls
  MaxSnapshot,   \* bound: the catalog stops growing at this snapshot
  MaxFaults      \* bound: failures, lapses and resets

\* What a snapshot does to the objects subscribed to, by the tokens of its
\* change log entry: altered_table and dropped_table ("table"), created_table
\* ("created"), created_schema ("schema"), dropped_schema, created_view and
\* dropped_view ("view"), inserts and deletes of rows whose change type is
\* subscribed ("rows") or is not ("touch"), DDL that only a subscription to the
\* catalog covers ("elsewhere"), or nothing ("other").
Contents == {"table", "created", "schema", "dropped_schema", "view", "rows",
             "touch", "elsewhere", "other"}

ASSUME ListenAssumption ==
  /\ Nobody \notin Client
  /\ Kinds \subseteq {"ddl", "dml"} /\ Content \subseteq Contents
  /\ Notifies \in BOOLEAN /\ AutoCommits \subseteq BOOLEAN
  /\ Scopes \subseteq {"object", "catalog"} /\ Recreates \in BOOLEAN
  /\ MaxWindow \in Nat \ {0} /\ MaxSnapshot \in Nat /\ MaxFaults \in Nat

VARIABLES
  head, log,     \* log[s]: what snapshot s <= head holds
  kind,          \* consumer_kind
  scope,         \* scope_kind of its subscription
  owner, cursor, \* owner_token and last_committed_snapshot of the row
  floor,         \* history: where the cursor was created or reset to
  delivered,     \* history: snapshots whose rows a call returned since then
  lost,          \* history: rows of a call that failed after its auto-commit
  faults,        \* how many faults there have been
  pc,            \* pc[c]: the statement c's call runs next
  opt,           \* opt[c]: listen or read, and auto_commit
  subscribed,    \* subscribed[c]: the scope c's call has read
  base,          \* base[c]: the cursor in the row c's call read last
  inspected,     \* inspected[c]: the head when c's call last scanned
  ready,         \* ready[c]: what the scan found, and how far from the cursor
  win,           \* win[c]: the window of c's call
  rows,          \* rows[c]: the snapshots of the rows it has extracted
  notified       \* notified[c]: its LISTEN connection holds a notification

catalog == <<head, log>>
consumer == <<kind, scope, owner, cursor>>
history == <<floor, delivered, lost, faults>>
call == <<opt, subscribed, base, inspected, ready, win, rows, notified>>
vars == <<head, log, kind, scope, owner, cursor, floor, delivered, lost, faults, pc,
          opt, subscribed, base, inspected, ready, win, rows, notified>>

Snapshot == 0 .. MaxSnapshot
NoWindow == [base |-> 0, head |-> 0, start |-> 1, end |-> 0, boundary |-> NoSnapshot]
NotReady == [snapshot |-> NoSnapshot, span |-> 0]
NoOption == [listen |-> FALSE, auto |-> FALSE]

Waits == {"load", "scan", "advance", "advance_commit", "deadline", "wait"}
PC == Waits \union {"idle", "subscribe", "acquire", "window", "extract", "commit", "return", "app"}

\* The variables stay in their types; what a scan found is ahead of the
\* cursor it started from.
TypeOK ==
  /\ head \in Snapshot /\ log \in [1 .. MaxSnapshot -> Content \union {"none"}]
  /\ kind \in Kinds /\ scope \in Scopes
  /\ owner \in Client \union {Nobody} /\ cursor \in Snapshot /\ floor \in Snapshot
  /\ delivered \in SUBSET Snapshot /\ lost \in SUBSET Snapshot
  /\ faults \in 0 .. MaxFaults
  /\ pc \in [Client -> PC]
  /\ opt \in [Client -> [listen: BOOLEAN, auto: BOOLEAN]]
  /\ subscribed \in [Client -> Scopes \union {"none"}]
  /\ base \in [Client -> Snapshot] /\ inspected \in [Client -> Snapshot]
  /\ \A c \in Client :
       ready[c] = NotReady \/ ready[c] \in [snapshot: Snapshot, span: Snapshot \ {0}]
  /\ win \in [Client -> [base: Snapshot, head: Snapshot, start: Nat, end: Snapshot,
                         boundary: Snapshot \union {NoSnapshot}]]
  /\ rows \in [Client -> SUBSET Snapshot]
  /\ notified \in [Client -> BOOLEAN]

\* A consumer has just been created at the first snapshot.
Init ==
  /\ head = 0 /\ log = [s \in 1 .. MaxSnapshot |-> "none"]
  /\ kind \in Kinds /\ scope \in Scopes
  /\ owner = Nobody /\ cursor = 0 /\ floor = 0
  /\ delivered = {} /\ lost = {} /\ faults = 0
  /\ pc = [c \in Client |-> "idle"]
  /\ opt = [c \in Client |-> NoOption]
  /\ subscribed = [c \in Client |-> "none"]
  /\ base = [c \in Client |-> 0] /\ inspected = [c \in Client |-> 0]
  /\ ready = [c \in Client |-> NotReady]
  /\ win = [c \in Client |-> NoWindow]
  /\ rows = [c \in Client |-> {}]
  /\ notified = [c \in Client |-> FALSE]

-----------------------------------------------------------------------------
(* What the code sees in a change log entry *)

\* What DDL a subscription covers, of the kinds both sides recognize.
Covered(sub) ==
  {"table", "created", "schema"} \union (IF sub = "catalog" THEN {"elsewhere"} ELSE {})

\* The probe of a waiting call: SnapshotTouchesSubscriptions for DDL; for DML
\* FirstDmlSubscribedSnapshot, which does not look at the change types.
Touches(what, sub) ==
  what \in IF kind = "ddl" THEN Covered(sub) ELSE {"rows", "touch"}

\* A read has rows to return: typed DDL rows of the subscription, or rows of
\* the table with a subscribed change type.
HasRows(what, sub) ==
  what \in IF kind = "ddl" THEN Covered(sub) \union {"dropped_schema", "view"} ELSE {"rows"}

\* The shape of a DML consumer's table changes.
Reshapes(what) == kind = "dml" /\ what \in {"table", "dropped_schema"}

\* The snapshots up to hi for which one of these holds.
Touching(hi, sub) == {s \in 1 .. hi : Touches(log[s], sub)}
WithRows(hi, sub) == {s \in 1 .. hi : HasRows(log[s], sub)}
Reshaping(hi)     == {s \in 1 .. hi : Reshapes(log[s])}

-----------------------------------------------------------------------------
(* Helpers *)

Goto(c, label) == pc' = [pc EXCEPT ![c] = label]

\* The call of c returns or throws: its local variables and its LISTEN
\* connection are gone.
Return(c) ==
  /\ Goto(c, "idle")
  /\ opt' = [opt EXCEPT ![c] = NoOption]
  /\ subscribed' = [subscribed EXCEPT ![c] = "none"]
  /\ base' = [base EXCEPT ![c] = 0]
  /\ inspected' = [inspected EXCEPT ![c] = 0]
  /\ ready' = [ready EXCEPT ![c] = NotReady]
  /\ win' = [win EXCEPT ![c] = NoWindow]
  /\ rows' = [rows EXCEPT ![c] = {}]
  /\ notified' = [notified EXCEPT ![c] = FALSE]

\* AcquireLease grants the lease, or throws CDC_BUSY.
MayAcquire(c) == owner \in {Nobody, c}

\* Mutant of MayCommit: a commit that goes forward needs no lease.
MayCommitForward(c, s) == cursor <= s

\* The WHERE clause of a commit.
MayCommit(c, s) == owner = c /\ cursor <= s

Greater(a, b) == IF a >= b THEN a ELSE b

\* Mutant of Limit: the span of the probe is not considered.
LimitPlain(c) == MaxWindow

\* The window after a successful probe is at least as long as its span.
Limit(c) == Greater(MaxWindow, ready[c].span)

-----------------------------------------------------------------------------
(* The catalog *)

CommitSnapshot ==
  /\ head < MaxSnapshot
  /\ head' = head + 1
  /\ \E what \in Content : log' = [log EXCEPT ![head + 1] = what]
  /\ notified' = [c \in Client |-> notified[c] \/ (Notifies /\ pc[c] \in Waits)]
  /\ UNCHANGED <<consumer, history, pc, opt, subscribed, base, inspected, ready, win, rows>>

-----------------------------------------------------------------------------
(* Waiting: WaitForNextSnapshotWithSubscriptions *)

\* A read of a DML consumer does not wait; one of a DDL consumer goes
\* through the same loop with timeout 0.  The subscriptions the probe goes by
\* are read before it.
BeginCall(c, listen) ==
  /\ pc[c] = "idle"
  /\ \E auto \in AutoCommits : opt' = [opt EXCEPT ![c] = [listen |-> listen, auto |-> auto]]
  /\ subscribed' = [subscribed EXCEPT ![c] = scope]
  /\ Goto(c, IF kind = "ddl" \/ listen THEN "load" ELSE "acquire")
  /\ UNCHANGED <<catalog, consumer, history, base, inspected, ready, win, rows, notified>>

LoadRow(c) ==
  /\ pc[c] = "load"
  /\ base' = [base EXCEPT ![c] = cursor]
  /\ Goto(c, "scan")
  /\ UNCHANGED <<catalog, consumer, history, opt, subscribed, inspected, ready, win, rows, notified>>

\* NextMatchingSnapshot: the head is read first and bounds the scan.
Scan(c) ==
  /\ pc[c] = "scan"
  /\ inspected' = [inspected EXCEPT ![c] = head]
  /\ \E first \in Snapshot \union {NoSnapshot} :
       /\ IsFirst(first, Touching(head, subscribed[c]), base[c], head)
       /\ \/ /\ first # NoSnapshot
             /\ ready' = [ready EXCEPT ![c] = [snapshot |-> first, span |-> first - base[c]]]
             /\ notified' = [notified EXCEPT ![c] = FALSE]
             /\ Goto(c, IF kind = "ddl" THEN "subscribe" ELSE "acquire")
          \/ /\ first = NoSnapshot
             /\ Goto(c, IF kind = "ddl" /\ head > base[c] THEN "advance" ELSE "deadline")
             /\ UNCHANGED <<ready, notified>>
  /\ UNCHANGED <<catalog, consumer, history, opt, subscribed, base, win, rows>>

\* Mutant of SameCursor: the cursor may have moved back since the scan.
CursorNotAhead(c) == cursor <= inspected[c]

\* The premise of the scan still holds.
SameCursor(c) == cursor = base[c]

\* AdvanceDdlCursorPastInspectedSnapshots: the lease is acquired, and its
\* row shows whether the cursor is still the one the scan started from.
AdvanceLease(c) ==
  /\ pc[c] = "advance"
  /\ \/ /\ MayAcquire(c)
        /\ owner' = c
        /\ Goto(c, IF SameCursor(c) THEN "advance_commit" ELSE "deadline")
        /\ UNCHANGED call
     \/ /\ ~MayAcquire(c)
        /\ Return(c)
        /\ UNCHANGED owner
  /\ UNCHANGED <<catalog, kind, scope, cursor, history>>

\* ... and the commit; the call returns without rows, or throws.
AdvanceCommit(c) ==
  /\ pc[c] = "advance_commit"
  /\ cursor' = IF MayCommit(c, inspected[c]) THEN inspected[c] ELSE cursor
  /\ Return(c)
  /\ UNCHANGED <<catalog, kind, scope, owner, history>>

\* The time is up, which for a read it is at once.
GiveUp(c) ==
  /\ pc[c] = "deadline"
  /\ Return(c)
  /\ UNCHANGED <<catalog, consumer, history>>

\* Mutant of Wait: notifications are drained before the wait, too.
WaitAfresh(c) ==
  /\ pc[c] = "deadline" /\ opt[c].listen
  /\ notified' = [notified EXCEPT ![c] = FALSE]
  /\ Goto(c, "wait")
  /\ UNCHANGED <<catalog, consumer, history, opt, subscribed, base, inspected, ready, win, rows>>

Wait(c) ==
  /\ pc[c] = "deadline" /\ opt[c].listen
  /\ Goto(c, "wait")
  /\ UNCHANGED <<catalog, consumer, history, call>>

\* select() returns for a notification, or because the time of the wait, or
\* of one polling interval, is up; the notifications are drained.
Wake(c) ==
  /\ pc[c] = "wait"
  /\ notified' = [notified EXCEPT ![c] = FALSE]
  /\ Goto(c, "load")
  /\ UNCHANGED <<catalog, consumer, history, opt, subscribed, base, inspected, ready, win, rows>>

-----------------------------------------------------------------------------
(* Reading *)

\* CdcDdlInit reads the subscriptions again, for the rows.
LoadSubscriptions(c) ==
  /\ pc[c] = "subscribe"
  /\ subscribed' = [subscribed EXCEPT ![c] = scope]
  /\ Goto(c, "acquire")
  /\ UNCHANGED <<catalog, consumer, history, opt, base, inspected, ready, win, rows, notified>>

\* ReadWindow acquires the lease; the row it gets has the cursor.
Acquire(c) ==
  /\ pc[c] = "acquire"
  /\ \/ /\ MayAcquire(c)
        /\ owner' = c
        /\ base' = [base EXCEPT ![c] = cursor]
        /\ Goto(c, "window")
        /\ UNCHANGED <<opt, subscribed, inspected, ready, win, rows, notified>>
     \/ /\ ~MayAcquire(c)
        /\ Return(c)
        /\ UNCHANGED owner
  /\ UNCHANGED <<catalog, kind, scope, cursor, history>>

\* w is the window ReadWindow finds; every snapshot counts for a DDL window.
WindowOf(c, w) ==
  \E first, boundary \in Snapshot \union {NoSnapshot} :
    /\ IsFirst(first, IF kind = "ddl" THEN 1 .. head ELSE Touching(head, subscribed[c]), base[c], head)
    /\ IsFirst(boundary, Reshaping(head), base[c], head)
    /\ w = IF kind = "ddl" THEN DdlWindow(base[c], head, first, Limit(c))
           ELSE DmlWindow(base[c], head, first, boundary, Limit(c))

ReadWindow(c) ==
  /\ pc[c] = "window"
  /\ \E w \in [base: {base[c]}, head: {head}, start: 1 .. MaxSnapshot + 1, end: Snapshot,
               boundary: Snapshot \union {NoSnapshot}] :
       /\ WindowOf(c, w)
       /\ \/ /\ HasChanges(w)
             /\ win' = [win EXCEPT ![c] = w]
             /\ Goto(c, "extract")
             /\ UNCHANGED <<opt, subscribed, base, inspected, ready, rows, notified>>
          \/ /\ ~HasChanges(w)
             /\ Return(c)
  /\ UNCHANGED <<catalog, consumer, history>>

\* Mutant of Commits: listening does not advance over windows without rows.
CommitsAuto(c, found) == opt[c].auto

\* The call commits its window itself.
Commits(c, found) ==
  opt[c].auto \/ (kind = "dml" /\ opt[c].listen /\ found = {})

Extract(c) ==
  /\ pc[c] = "extract"
  /\ LET found == WithRows(head, subscribed[c]) \intersect (win[c].start .. win[c].end)
     IN  /\ rows' = [rows EXCEPT ![c] = found]
         /\ Goto(c, IF Commits(c, found) THEN "commit" ELSE "return")
  /\ UNCHANGED <<catalog, consumer, history, opt, subscribed, base, inspected, ready, win, notified>>

\* A commit that is refused throws, and the rows are not returned.
CommitRead(c) ==
  /\ pc[c] = "commit"
  /\ \/ /\ MayCommit(c, win[c].end)
        /\ cursor' = win[c].end
        /\ Goto(c, "return")
        /\ UNCHANGED call
     \/ /\ ~MayCommit(c, win[c].end)
        /\ Return(c)
        /\ UNCHANGED cursor
  /\ UNCHANGED <<catalog, kind, scope, owner, history>>

\* The rows reach the application, which commits them later unless the call
\* has.
Deliver(c) ==
  /\ pc[c] = "return"
  /\ delivered' = delivered \union rows[c]
  /\ \/ /\ opt[c].auto \/ rows[c] = {}
        /\ Return(c)
     \/ /\ ~opt[c].auto /\ rows[c] # {}
        /\ Goto(c, "app")
        /\ UNCHANGED call
  /\ UNCHANGED <<catalog, consumer, floor, lost, faults>>

\* cdc_commit of the window the rows came with.
AppCommit(c) ==
  /\ pc[c] = "app"
  /\ cursor' = IF MayCommit(c, win[c].end) THEN win[c].end ELSE cursor
  /\ Return(c)
  /\ UNCHANGED <<catalog, kind, scope, owner, history>>

-----------------------------------------------------------------------------
(* Faults *)

Fault == faults < MaxFaults /\ faults' = faults + 1

\* The application or its call dies.  Rows that an auto-commit has passed are
\* not read again.
Fail(c) ==
  /\ Fault /\ pc[c] # "idle"
  /\ lost' = lost \union IF pc[c] = "return" /\ opt[c].auto THEN rows[c] ELSE {}
  /\ Return(c)
  /\ UNCHANGED <<catalog, consumer, floor, delivered>>

\* The lease lapses, or is released by force.
LoseLease ==
  /\ Fault /\ owner # Nobody
  /\ owner' = Nobody
  /\ UNCHANGED <<catalog, kind, scope, cursor, floor, delivered, lost, pc, call>>

\* cdc_consumer_reset, which clears the lease.  A DML consumer stays between
\* the same two shape changes.
Reset(s) ==
  /\ Fault /\ s <= head
  /\ \A b \in Reshaping(head) : b <= Least(cursor, s) \/ Greater(cursor, s) < b
  /\ cursor' = s /\ floor' = s
  /\ owner' = Nobody
  /\ delivered' = {} /\ lost' = {}
  /\ UNCHANGED <<catalog, kind, scope, pc, call>>

\* cdc_consumer_drop and a creation under the same name, at any snapshot and
\* for any subscription; calls that are under way do not notice.
Recreate(s) ==
  /\ Recreates
  /\ Fault /\ s <= head
  /\ \E sub \in Scopes : scope' = sub
  /\ cursor' = s /\ floor' = s
  /\ owner' = Nobody
  /\ delivered' = {} /\ lost' = {}
  /\ UNCHANGED <<catalog, kind, pc, call>>

-----------------------------------------------------------------------------

Step(c) ==
  \/ LoadRow(c) \/ Scan(c) \/ AdvanceLease(c) \/ AdvanceCommit(c)
  \/ GiveUp(c) \/ Wait(c) \/ Wake(c)
  \/ LoadSubscriptions(c) \/ Acquire(c) \/ ReadWindow(c) \/ Extract(c) \/ CommitRead(c)
  \/ Deliver(c) \/ AppCommit(c)

Next ==
  \/ CommitSnapshot
  \/ \E c \in Client : Step(c) \/ Fail(c)
  \/ \E c \in Client, listen \in BOOLEAN : BeginCall(c, listen)
  \/ LoseLease
  \/ \E s \in Snapshot : Reset(s) \/ Recreate(s)

Spec == Init /\ [][Next]_vars

\* A call goes on until it ends, waits are bounded by their timeouts, and
\* every application listens again and again.
Fairness ==
  \A c \in Client : WF_vars(Step(c)) /\ SF_vars(BeginCall(c, TRUE))

FairSpec == Spec /\ Fairness

-----------------------------------------------------------------------------
(* Properties *)

\* Nothing subscribed to is skipped: what is behind the cursor was returned
\* by a call, is being returned, or died with the call that had committed it
\* for its caller.  Whatever the order of probes, advances, commits, resets
\* and lapses of the lease (docs/design.md: "the core at-least-once
\* contract").
NothingSkipped ==
  \A s \in WithRows(cursor, scope) :
    \/ s <= floor
    \/ s \in delivered \union lost
    \/ \E c \in Client : pc[c] = "return" /\ opt[c].auto /\ s \in rows[c]

\* A snapshot committed after the probe of a call looked wakes that call: it
\* is listening before it looks (docs/hazard-log.md H-006, "level-triggered
\* checks before waiting").
NoLostWakeup ==
  \A c \in Client :
    Notifies /\ pc[c] = "wait" /\ inspected[c] < head => notified[c]

\* The window of a call that was woken up holds the snapshot it was woken up
\* for, however far that is from the cursor, unless the cursor moved between
\* the probe and the lease.
WindowReachesMatch ==
  \A c \in Client :
    /\ pc[c] = "extract" /\ ready[c] # NotReady
    /\ win[c].base = ready[c].snapshot - ready[c].span
    => win[c].start <= ready[c].snapshot /\ ready[c].snapshot <= win[c].end

\* Applications that keep listening get every row there is, except behind a
\* change of the shape a DML consumer is pinned to, rows that a failed
\* auto-committing call took with it, and what a reset moved the cursor past.
EventuallyDelivered ==
  \A s \in 1 .. MaxSnapshot :
    HasRows(log[s], scope) ~> \/ s \in delivered \union lost
                       \/ s <= floor
                       \/ \E b \in Reshaping(s) : floor < b

-----------------------------------------------------------------------------
(* Refinement *)

\* What c's call has extracted and not committed yet, or not returned yet.
Batch(c) ==
  IF rows[c] = {} THEN [state |-> "none", from |-> 0, to |-> 0, rows |-> {}]
  ELSE [state |-> CASE pc[c] = "app" -> "handed"
                    [] pc[c] = "return" /\ opt[c].auto -> "passed"
                    [] OTHER -> "read",
        from |-> base[c], to |-> win[c].end, rows |-> rows[c]]

Abstract == INSTANCE DeliverySpec WITH
  due <- WithRows(head, scope), batch <- [c \in Client |-> Batch(c)]

\* The reads of all applications implement an at-least-once queue: the cursor
\* moves over a range of snapshots only if nothing subscribed to is in it, or
\* with the rows of exactly that range, all of them, in the hands of the
\* client that holds the lease (docs/design.md: "the core at-least-once
\* contract").
ImplementsDelivery == Abstract!Spec
=============================================================================
