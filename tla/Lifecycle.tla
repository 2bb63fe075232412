----------------------------- MODULE Lifecycle -----------------------------
(***************************************************************************)
(* The life of consumers: cdc_ddl_consumer_create, cdc_dml_consumer_create *)
(* and cdc_consumer_drop as the statements they run against the consumer,  *)
(* subscription and audit tables (consumer.cpp).                           *)
(*                                                                         *)
(* None of the tables has a key.  A creation looks for its name and takes  *)
(* MAX(consumer_id) + 1 inside a transaction; a drop reads the row, writes *)
(* its audit row, and deletes the subscriptions by id and the consumer by  *)
(* name, each in a transaction of its own.                                 *)
(***************************************************************************)
EXTENDS Naturals

CONSTANTS
  Client,
  Name,          \* names of consumers
  NoName,        \* what an idle client's call is about
  Serializable,  \* the metadata backend refuses a transaction whose reads are
                 \* stale when it writes (SQLite), or lets it through (others)
  RacingDrops,   \* two clients may drop the same consumer at once
  MaxAttempt,    \* how often CreateConsumer tries
  MaxCreations,  \* bound: how many creations begin
  MaxFaults      \* bound: statements that fail

ASSUME LifecycleAssumption ==
  /\ NoName \notin Name
  /\ Serializable \in BOOLEAN /\ RacingDrops \in BOOLEAN
  /\ MaxAttempt \in Nat \ {0} /\ MaxCreations \in Nat /\ MaxFaults \in Nat

VARIABLES
  consumers,     \* rows of the consumer table: name, consumer_id, creation
  subscriptions, \* rows of the subscription table: consumer_id, creation
  audit,         \* rows of the audit table: action, consumer_id, creation
  creations,     \* history: how many creations have begun their transaction
  faults,        \* how many statements have failed
  pc,            \* pc[c]: the statement c's call runs next
  arg,           \* arg[c]: the consumer_name of the call
  attempt,       \* attempt[c]: attempts of the creation so far
  row,           \* row[c]: the row the call inserts, or drops
  clean          \* clean[c]: nothing was written since c's transaction began

tables == <<consumers, subscriptions, audit>>
bounds == <<creations, faults>>
call == <<arg, attempt, row>>
vars == <<consumers, subscriptions, audit, creations, faults, pc, arg, attempt, row, clean>>

\* A creation is the number of the transaction that inserted the rows: the
\* identity of a consumer, which no column has.
Creation == 1 .. MaxCreations
Id == 1 .. MaxCreations
Consumer == [name: Name, id: Id, creation: Creation]
NoRow == [name |-> NoName, id |-> 0, creation |-> 0]

Dropping == {"drop_audit", "drop_subscriptions", "drop_consumer"}
PC == {"idle", "create", "insert", "report", "drop"} \union Dropping

\* The variables stay in their types; ids and creations never exceed what has
\* been handed out.
TypeOK ==
  /\ consumers \subseteq Consumer
  /\ subscriptions \subseteq [id: Id, creation: Creation]
  /\ audit \subseteq [action: {"create", "drop"}, id: Id, creation: Creation]
  /\ creations \in 0 .. MaxCreations /\ faults \in 0 .. MaxFaults
  /\ pc \in [Client -> PC]
  /\ arg \in [Client -> Name \union {NoName}]
  /\ attempt \in [Client -> 0 .. MaxAttempt]
  /\ row \in [Client -> Consumer \union {NoRow}]
  /\ clean \in [Client -> BOOLEAN]
  /\ \A r \in consumers : r.creation <= creations

\* Bootstrap has created the tables.
Init ==
  /\ consumers = {} /\ subscriptions = {} /\ audit = {}
  /\ creations = 0 /\ faults = 0
  /\ pc = [c \in Client |-> "idle"]
  /\ arg = [c \in Client |-> NoName]
  /\ attempt = [c \in Client |-> 0]
  /\ row = [c \in Client |-> NoRow]
  /\ clean = [c \in Client |-> FALSE]

-----------------------------------------------------------------------------
(* Helpers *)

Goto(c, label) == pc' = [pc EXCEPT ![c] = label]

\* The call returns, or throws what it caught.
Return(c) ==
  /\ Goto(c, "idle")
  /\ arg' = [arg EXCEPT ![c] = NoName]
  /\ attempt' = [attempt EXCEPT ![c] = 0]
  /\ row' = [row EXCEPT ![c] = NoRow]

\* What transactions have read is stale once another one has written.
Written == clean' = [c \in Client |-> FALSE]

\* Mutant of Named: the look for the name finds nothing.
NamedNothing(n) == {}

Named(n) == {r \in consumers : r.name = n}

\* COALESCE(MAX(consumer_id), 0) + 1.
IsNextId(id) ==
  /\ \A r \in consumers : r.id < id
  /\ id = 1 \/ \E r \in consumers : r.id = id - 1

-----------------------------------------------------------------------------
(* cdc_ddl_consumer_create, cdc_dml_consumer_create *)

BeginCreate(c, n) ==
  /\ pc[c] = "idle"
  /\ Goto(c, "create")
  /\ arg' = [arg EXCEPT ![c] = n]
  /\ attempt' = [attempt EXCEPT ![c] = 1]
  /\ UNCHANGED <<tables, bounds, row, clean>>

\* Start and subscriptions have been resolved; BEGIN, the look for the name,
\* and the next id, which read the same state of the tables.
ReadConsumers(c) ==
  /\ pc[c] = "create"
  /\ \/ /\ Named(arg[c]) # {}
        /\ Return(c)
        /\ UNCHANGED <<creations, clean>>
     \/ /\ Named(arg[c]) = {} /\ creations < MaxCreations
        /\ creations' = creations + 1
        /\ \E id \in Id :
             /\ IsNextId(id)
             /\ row' = [row EXCEPT ![c] = [name |-> arg[c], id |-> id, creation |-> creations + 1]]
        /\ clean' = [clean EXCEPT ![c] = TRUE]
        /\ Goto(c, "insert")
        /\ UNCHANGED <<arg, attempt>>
  /\ UNCHANGED <<tables, faults>>

\* Mutant of CommitCreate: the subscriptions are inserted afterwards.
CommitConsumerOnly(c) ==
  /\ pc[c] = "insert"
  /\ clean[c] \/ ~Serializable
  /\ consumers' = consumers \union {row[c]}
  /\ audit' = audit \union {[action |-> "create", id |-> row[c].id, creation |-> row[c].creation]}
  /\ Written
  /\ Goto(c, "report")
  /\ UNCHANGED <<subscriptions, bounds, call>>

\* The writes of the transaction, which show when it commits.
CommitCreate(c) ==
  /\ pc[c] = "insert"
  /\ clean[c] \/ ~Serializable
  /\ consumers' = consumers \union {row[c]}
  /\ subscriptions' = subscriptions \union {[id |-> row[c].id, creation |-> row[c].creation]}
  /\ audit' = audit \union {[action |-> "create", id |-> row[c].id, creation |-> row[c].creation]}
  /\ Written
  /\ Goto(c, "report")
  /\ UNCHANGED <<bounds, call>>

\* The backend refuses, and the transaction is rolled back.
AbortCreate(c) ==
  /\ pc[c] = "insert" /\ Serializable /\ ~clean[c]
  /\ Return(c)
  /\ UNCHANGED <<tables, bounds, clean>>

\* The result row needs the subscriptions, by name.
ReportCreate(c) ==
  /\ pc[c] = "report"
  /\ Return(c)
  /\ UNCHANGED <<tables, bounds, clean>>

\* One of the transient errors of IsH022TransientMessage, in any statement:
\* CreateConsumer starts again, unless this was the last attempt.
RetryCreate(c) ==
  /\ faults < MaxFaults /\ faults' = faults + 1
  /\ pc[c] \in {"create", "insert", "report"} /\ attempt[c] < MaxAttempt
  /\ Goto(c, "create")
  /\ attempt' = [attempt EXCEPT ![c] = @ + 1]
  /\ row' = [row EXCEPT ![c] = NoRow]
  /\ UNCHANGED <<tables, creations, arg, clean>>

-----------------------------------------------------------------------------
(* cdc_consumer_drop *)

BeginDrop(c, n) ==
  /\ pc[c] = "idle"
  /\ RacingDrops \/ \A d \in Client : pc[d] \in Dropping \union {"drop"} => arg[d] # n
  /\ Goto(c, "drop")
  /\ arg' = [arg EXCEPT ![c] = n]
  /\ UNCHANGED <<tables, bounds, attempt, row, clean>>

\* Mutant of LoadRow: the audit row is left to the end of the drop.
LoadRowUnaudited(c) ==
  /\ pc[c] = "drop"
  /\ \/ /\ Named(arg[c]) = {}
        /\ Return(c)
     \/ /\ \E r \in Named(arg[c]) : row' = [row EXCEPT ![c] = r]
        /\ Goto(c, "drop_subscriptions")
        /\ UNCHANGED <<arg, attempt>>
  /\ UNCHANGED <<tables, bounds, clean>>

\* LoadConsumerOrThrow.
LoadRow(c) ==
  /\ pc[c] = "drop"
  /\ \/ /\ Named(arg[c]) = {}
        /\ Return(c)
     \/ /\ \E r \in Named(arg[c]) : row' = [row EXCEPT ![c] = r]
        /\ Goto(c, "drop_audit")
        /\ UNCHANGED <<arg, attempt>>
  /\ UNCHANGED <<tables, bounds, clean>>

\* Mutant of AuditDrop: the two deletions the other way round.
AuditDropAndConsumer(c) ==
  /\ pc[c] = "drop_audit"
  /\ audit' = audit \union {[action |-> "drop", id |-> row[c].id, creation |-> row[c].creation]}
  /\ consumers' = {r \in consumers : r.name # arg[c]}
  /\ Written
  /\ Goto(c, "drop_subscriptions")
  /\ UNCHANGED <<subscriptions, bounds, call>>

AuditDrop(c) ==
  /\ pc[c] = "drop_audit"
  /\ audit' = audit \union {[action |-> "drop", id |-> row[c].id, creation |-> row[c].creation]}
  /\ Written
  /\ Goto(c, "drop_subscriptions")
  /\ UNCHANGED <<consumers, subscriptions, bounds, call>>

DropSubscriptions(c) ==
  /\ pc[c] = "drop_subscriptions"
  /\ subscriptions' = {s \in subscriptions : s.id # row[c].id}
  /\ Written
  /\ Goto(c, "drop_consumer")
  /\ UNCHANGED <<consumers, audit, bounds, call>>

DropConsumer(c) ==
  /\ pc[c] = "drop_consumer"
  /\ consumers' = {r \in consumers : r.name # arg[c]}
  /\ Written
  /\ Return(c)
  /\ UNCHANGED <<subscriptions, audit, bounds>>

-----------------------------------------------------------------------------
(* Failures *)

\* A statement fails for good, or the client dies; an open transaction is
\* rolled back, what a drop has written stays.
Fail(c) ==
  /\ faults < MaxFaults /\ faults' = faults + 1
  /\ pc[c] # "idle"
  /\ Return(c)
  /\ UNCHANGED <<tables, creations, clean>>

Step(c) ==
  \/ ReadConsumers(c) \/ CommitCreate(c) \/ AbortCreate(c) \/ ReportCreate(c)
  \/ LoadRow(c) \/ AuditDrop(c) \/ DropSubscriptions(c) \/ DropConsumer(c)

Next ==
  \E c \in Client :
    \/ \E n \in Name : BeginCreate(c, n) \/ BeginDrop(c, n)
    \/ Step(c)
    \/ RetryCreate(c) \/ Fail(c)

Spec == Init /\ [][Next]_vars

-----------------------------------------------------------------------------
(* Properties *)

\* No name and no id stands for two consumers: the tables have no key, and
\* only the look inside the transaction keeps it so (consumer.cpp:1139-1147).
OneRowEach ==
  \A r, q \in consumers : r.name = q.name \/ r.id = q.id => r = q

\* Subscriptions are joined to their consumer by an id that is used again
\* after a drop: each belongs to the consumer they were created with, none is
\* left behind for the next consumer of that id (consumer.cpp:1385-1386).
SubscriptionsFollow ==
  \A s \in subscriptions :
    \E r \in consumers : r.id = s.id /\ r.creation = s.creation

\* A consumer is never seen without its subscriptions (it would match every
\* change, SnapshotTouchesSubscriptions), unless a drop has audited it and
\* has not come to its end (consumer.cpp:1152-1181, 1384-1386).
VisibleIsComplete ==
  \A r \in consumers :
    \/ \E s \in subscriptions : s.id = r.id
    \/ \E a \in audit : a.action = "drop" /\ a.creation = r.creation

\* A drop takes away only the consumer it has read and audited; another that
\* was created meanwhile, under its name or with its id, is left alone
\* (consumer.cpp:1380-1386).
DropTakesWhatItSaw ==
  [][\A r \in consumers \ consumers' :
       \E a \in audit : a.action = "drop" /\ a.creation = r.creation]_vars
=============================================================================
