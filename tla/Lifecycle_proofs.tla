------------------------- MODULE Lifecycle_proofs -------------------------
(***************************************************************************)
(* Proofs about Lifecycle, for any clients, names and bounds, where stale  *)
(* transactions are refused and nobody drops what is being dropped: the    *)
(* configurations LifecycleSnapshot and LifecycleRacingDrops show that     *)
(* neither assumption can go.                                              *)
(***************************************************************************)
EXTENDS Lifecycle, TLAPS

TablesInv == OneRowEach /\ SubscriptionsFollow /\ VisibleIsComplete

\* What a creation has read is true until somebody writes.
CreateInv ==
  \A c \in Client :
    pc[c] = "insert" =>
      /\ row[c] \in Consumer /\ row[c].creation <= creations
      /\ clean[c] => \A r \in consumers : r.name # row[c].name /\ r.id < row[c].id

\* A consumer that is being dropped is there until the drop ends: its id is not
\* used again, and its subscriptions are the ones deleted.
DropInv ==
  \A c \in Client :
    pc[c] \in Dropping =>
      /\ row[c] \in consumers /\ row[c].name = arg[c]
      /\ pc[c] # "drop_audit" => \E a \in audit : a.action = "drop" /\ a.creation = row[c].creation
      /\ pc[c] = "drop_consumer" => \A s \in subscriptions : s.id # row[c].id

DropsApart ==
  \A c, d \in Client :
    /\ pc[c] \in Dropping \union {"drop"} /\ pc[d] \in Dropping \union {"drop"}
    /\ arg[c] = arg[d]
    => c = d

\* A call that runs has the name of its consumer.
CallInv == \A c \in Client : pc[c] # "idle" => arg[c] \in Name

IInv == TypeOK /\ CallInv /\ TablesInv /\ CreateInv /\ DropInv /\ DropsApart

LEMMA InitIInv == Init => IInv
  BY LifecycleAssumption
     DEF Init, IInv, TypeOK, PC, Dropping, NoRow, CallInv, TablesInv, OneRowEach,
         SubscriptionsFollow, VisibleIsComplete, CreateInv, DropInv, DropsApart

-----------------------------------------------------------------------------
(* Types *)

LEMMA TypeStep ==
  ASSUME TypeOK, CallInv, CreateInv, DropInv, [Next]_vars
  PROVE  TypeOK' /\ CallInv'
  <1> USE LifecycleAssumption DEF TypeOK, CallInv, PC, Dropping, Creation, Id, Goto, Return, NoRow
  <1>1. ASSUME NEW c \in Client, NEW n \in Name, BeginCreate(c, n) \/ BeginDrop(c, n)
        PROVE  TypeOK' /\ CallInv'
    BY <1>1 DEF BeginCreate, BeginDrop, tables, bounds
  <1>2. ASSUME NEW c \in Client, ReadConsumers(c) PROVE TypeOK' /\ CallInv'
    <2>1. CASE Named(arg[c]) # {}
      BY <1>2, <2>1 DEF ReadConsumers, tables
    <2>2. CASE Named(arg[c]) = {}
      <3>1. PICK id \in Id :
              row' = [row EXCEPT ![c] = [name |-> arg[c], id |-> id, creation |-> creations + 1]]
        BY <1>2, <2>2 DEF ReadConsumers
      <3>2. creations' = creations + 1 /\ creations < MaxCreations /\ pc[c] = "create"
        BY <1>2, <2>2 DEF ReadConsumers
      <3>3. [name |-> arg[c], id |-> id, creation |-> creations + 1] \in Consumer
        BY <3>2 DEF Consumer
      <3>4. row' \in [Client -> Consumer \union {NoRow}]
        BY <3>1, <3>3
      <3>5. /\ pc' = [pc EXCEPT ![c] = "insert"] /\ clean' = [clean EXCEPT ![c] = TRUE]
            /\ UNCHANGED <<consumers, subscriptions, audit, faults, arg, attempt>>
        BY <1>2, <2>2 DEF ReadConsumers, tables
      <3>6. creations' \in 0 .. MaxCreations /\ \A r \in consumers' : r.creation <= creations'
        <4>1. \A r \in consumers : r.creation \in Nat /\ r.creation <= creations
          BY DEF Consumer
        <4> QED
          BY <3>2, <3>5, <4>1
      <3> QED
        BY <3>2, <3>4, <3>5, <3>6
    <2> QED
      BY <2>1, <2>2
  <1>3. ASSUME NEW c \in Client, CommitCreate(c) PROVE TypeOK' /\ CallInv'
    <2>1. row[c] \in Consumer /\ row[c].creation <= creations
      BY <1>3 DEF CommitCreate, CreateInv
    <2>2. row[c].id \in Id /\ row[c].creation \in Creation
      BY <2>1 DEF Consumer
    <2>3. /\ audit' \subseteq [action : {"create", "drop"}, id : Id, creation : Creation]
          /\ subscriptions' \subseteq [id : Id, creation : Creation]
      BY <1>3, <2>2 DEF CommitCreate
    <2>4. consumers' \subseteq Consumer /\ \A r \in consumers' : r.creation <= creations
      BY <1>3, <2>1 DEF CommitCreate
    <2> QED
      BY <1>3, <2>3, <2>4 DEF CommitCreate, bounds, call, Written
  <1>4. ASSUME NEW c \in Client, AbortCreate(c) \/ ReportCreate(c) PROVE TypeOK' /\ CallInv'
    BY <1>4 DEF AbortCreate, ReportCreate, tables, bounds
  <1>5. ASSUME NEW c \in Client, RetryCreate(c) \/ Fail(c) PROVE TypeOK' /\ CallInv'
    <2>1. faults' \in 0 .. MaxFaults
      BY <1>5 DEF RetryCreate, Fail
    <2> QED
      BY <1>5, <2>1 DEF RetryCreate, Fail, tables
  <1>6. ASSUME NEW c \in Client, LoadRow(c) PROVE TypeOK' /\ CallInv'
    BY <1>6 DEF LoadRow, Named, tables, bounds
  <1>7. ASSUME NEW c \in Client, AuditDrop(c) PROVE TypeOK' /\ CallInv'
    <2>1. row[c].id \in Id /\ row[c].creation \in Creation
      BY <1>7 DEF AuditDrop, DropInv, Consumer
    <2>2. audit' \subseteq [action : {"create", "drop"}, id : Id, creation : Creation]
      BY <1>7, <2>1 DEF AuditDrop
    <2> QED
      BY <1>7, <2>2 DEF AuditDrop, Written, bounds, call
  <1>8. ASSUME NEW c \in Client, DropSubscriptions(c) \/ DropConsumer(c) PROVE TypeOK' /\ CallInv'
    <2>1. /\ consumers' \subseteq consumers /\ subscriptions' \subseteq subscriptions
          /\ UNCHANGED <<audit, creations, faults>> /\ clean' \in [Client -> BOOLEAN]
      BY <1>8 DEF DropSubscriptions, DropConsumer, Written, bounds
    <2>2. CASE DropSubscriptions(c)
      BY <2>1, <2>2 DEF DropSubscriptions, call
    <2>3. CASE DropConsumer(c)
      BY <2>1, <2>3 DEF DropConsumer
    <2> QED
      BY <1>8, <2>2, <2>3
  <1>9. CASE UNCHANGED vars
    BY <1>9 DEF vars
  <1> QED
    BY <1>1, <1>2, <1>3, <1>4, <1>5, <1>6, <1>7, <1>8, <1>9 DEF Next, Step

-----------------------------------------------------------------------------
(* Calls *)

\* A step that writes no table and does right by its own call.
LEMMA QuietStep ==
  ASSUME IInv, NEW c \in Client,
         UNCHANGED tables, creations' \in Nat, creations <= creations',
         \A d \in Client \ {c} :
           pc'[d] = pc[d] /\ arg'[d] = arg[d] /\ row'[d] = row[d] /\ clean'[d] = clean[d],
         pc'[c] = "insert" =>
           /\ row'[c] \in Consumer /\ row'[c].creation <= creations'
           /\ clean'[c] => \A r \in consumers : r.name # row'[c].name /\ r.id < row'[c].id,
         pc'[c] \in Dropping =>
           pc'[c] = "drop_audit" /\ row'[c] \in consumers /\ row'[c].name = arg'[c],
         pc'[c] \in Dropping \union {"drop"} =>
           \A d \in Client \ {c} : pc[d] \in Dropping \union {"drop"} => arg[d] # arg'[c]
  PROVE  TablesInv' /\ CreateInv' /\ DropInv' /\ DropsApart'
  <1>1. consumers' = consumers /\ subscriptions' = subscriptions /\ audit' = audit
    BY DEF tables
  <1>2. TablesInv'
    BY <1>1 DEF IInv, TablesInv, OneRowEach, SubscriptionsFollow, VisibleIsComplete
  <1>3. CreateInv'
    <2> SUFFICES ASSUME NEW d \in Client, pc'[d] = "insert"
                 PROVE  /\ row'[d] \in Consumer /\ row'[d].creation <= creations'
                        /\ clean'[d] => \A r \in consumers' : r.name # row'[d].name /\ r.id < row'[d].id
      BY DEF CreateInv
    <2>1. CASE d = c
      BY <1>1, <2>1
    <2>2. CASE d # c
      <3>1. /\ pc[d] = "insert" /\ row'[d] = row[d] /\ clean'[d] = clean[d]
            /\ row[d] \in Consumer /\ row[d].creation <= creations
            /\ clean[d] => \A r \in consumers : r.name # row[d].name /\ r.id < row[d].id
        BY <2>2 DEF IInv, CreateInv
      <3>2. row[d].creation \in Nat /\ creations \in Nat
        BY <3>1, LifecycleAssumption DEF IInv, TypeOK, Consumer, Creation
      <3> QED
        BY <1>1, <3>1, <3>2
    <2> QED
      BY <2>1, <2>2
  <1>4. DropInv'
    <2> SUFFICES ASSUME NEW d \in Client, pc'[d] \in Dropping
                 PROVE  /\ row'[d] \in consumers' /\ row'[d].name = arg'[d]
                        /\ pc'[d] # "drop_audit" =>
                             \E a \in audit' : a.action = "drop" /\ a.creation = row'[d].creation
                        /\ pc'[d] = "drop_consumer" => \A s \in subscriptions' : s.id # row'[d].id
      BY DEF DropInv
    <2>1. CASE d = c
      BY <1>1, <2>1
    <2>2. CASE d # c
      BY <1>1, <2>2 DEF IInv, DropInv
    <2> QED
      BY <2>1, <2>2
  <1>5. DropsApart'
    BY DEF IInv, DropsApart
  <1> QED
    BY <1>2, <1>3, <1>4, <1>5

\* Beginnings, failures, and what creations and drops read.
LEMMA QuietActions ==
  ASSUME IInv, ~RacingDrops, NEW c \in Client,
         \/ \E n \in Name : BeginCreate(c, n) \/ BeginDrop(c, n)
         \/ ReadConsumers(c) \/ AbortCreate(c) \/ ReportCreate(c) \/ RetryCreate(c)
         \/ LoadRow(c) \/ Fail(c)
  PROVE  TablesInv' /\ CreateInv' /\ DropInv' /\ DropsApart'
  <1> USE LifecycleAssumption
  <1>1. TypeOK /\ creations \in Nat /\ creations <= creations
    BY DEF IInv, TypeOK
  <1>2. ASSUME NEW n \in Name, BeginCreate(c, n) \/ BeginDrop(c, n)
        PROVE  TablesInv' /\ CreateInv' /\ DropInv' /\ DropsApart'
    <2>1. /\ UNCHANGED tables /\ creations' = creations /\ UNCHANGED <<row, clean>>
          /\ arg' = [arg EXCEPT ![c] = n]
          /\ \/ pc' = [pc EXCEPT ![c] = "create"]
             \/ /\ pc' = [pc EXCEPT ![c] = "drop"]
                /\ \A d \in Client : pc[d] \in Dropping \union {"drop"} => arg[d] # n
      BY <1>2 DEF BeginCreate, BeginDrop, Goto, bounds
    <2>2. \A d \in Client \ {c} : pc'[d] = pc[d] /\ arg'[d] = arg[d] /\ row'[d] = row[d] /\ clean'[d] = clean[d]
      BY <1>1, <2>1 DEF TypeOK
    <2>3. arg'[c] = n /\ (pc'[c] = "create" \/ pc'[c] = "drop")
      BY <1>1, <2>1 DEF TypeOK
    <2>4. pc'[c] = "drop" => \A d \in Client : pc[d] \in Dropping \union {"drop"} => arg[d] # n
      BY <1>1, <2>1 DEF TypeOK
    <2> QED
      BY <1>1, <2>1, <2>2, <2>3, <2>4, QuietStep DEF Dropping
  <1>3. ASSUME UNCHANGED tables, creations' = creations, UNCHANGED clean,
               \/ Return(c)
               \/ /\ pc' = [pc EXCEPT ![c] = "create"] /\ arg' = arg
                  /\ row' = [row EXCEPT ![c] = NoRow]
        PROVE  TablesInv' /\ CreateInv' /\ DropInv' /\ DropsApart'
    <2>1. \A d \in Client \ {c} : pc'[d] = pc[d] /\ arg'[d] = arg[d] /\ row'[d] = row[d] /\ clean'[d] = clean[d]
      BY <1>1, <1>3 DEF TypeOK, Return, Goto
    <2>2. pc'[c] \in {"idle", "create"}
      BY <1>1, <1>3 DEF TypeOK, Return, Goto
    <2> QED
      BY <1>1, <1>3, <2>1, <2>2, QuietStep DEF Dropping
  <1>4. CASE AbortCreate(c) \/ ReportCreate(c) \/ RetryCreate(c) \/ Fail(c)
    BY <1>3, <1>4 DEF AbortCreate, ReportCreate, RetryCreate, Fail, Goto, bounds
  <1>5. CASE ReadConsumers(c)
    <2>1. CASE Named(arg[c]) # {}
      BY <1>3, <1>5, <2>1 DEF ReadConsumers
    <2>2. CASE Named(arg[c]) = {}
      <3>1. /\ pc[c] = "create" /\ UNCHANGED tables /\ creations' = creations + 1
            /\ creations < MaxCreations
            /\ clean' = [clean EXCEPT ![c] = TRUE] /\ arg' = arg
            /\ pc' = [pc EXCEPT ![c] = "insert"]
        BY <1>5, <2>2 DEF ReadConsumers, Goto
      <3>2. PICK id \in Id :
              /\ IsNextId(id)
              /\ row' = [row EXCEPT ![c] = [name |-> arg[c], id |-> id, creation |-> creations + 1]]
        BY <1>5, <2>2 DEF ReadConsumers
      <3>3. \A d \in Client \ {c} : pc'[d] = pc[d] /\ arg'[d] = arg[d] /\ row'[d] = row[d] /\ clean'[d] = clean[d]
        BY <1>1, <3>1, <3>2 DEF TypeOK
      <3>4. /\ pc'[c] = "insert" /\ row'[c].name = arg[c] /\ row'[c].id = id
            /\ row'[c] = [name |-> arg[c], id |-> id, creation |-> creations + 1]
            /\ row'[c].creation = creations'
        BY <1>1, <3>1, <3>2 DEF TypeOK
      <3>5. row'[c] \in Consumer
        BY <1>1, <3>1, <3>4 DEF IInv, CallInv, Consumer, Creation
      <3>6. \A r \in consumers : r.name # row'[c].name /\ r.id < row'[c].id
        BY <2>2, <3>2, <3>4 DEF Named, IsNextId
      <3>7. creations' \in Nat /\ creations <= creations' /\ row'[c].creation <= creations'
        BY <1>1, <3>1, <3>4
      <3>8. pc'[c] \notin Dropping \union {"drop"}
        BY <3>4 DEF Dropping
      <3> QED
        BY <3>1, <3>3, <3>5, <3>6, <3>7, <3>8, QuietStep
    <2> QED
      BY <2>1, <2>2
  <1>6. CASE LoadRow(c)
    <2>1. CASE Named(arg[c]) = {}
      BY <1>3, <1>6, <2>1 DEF LoadRow, bounds
    <2>2. CASE Named(arg[c]) # {}
      <3>1. /\ pc[c] = "drop" /\ UNCHANGED tables /\ creations' = creations
            /\ clean' = clean /\ arg' = arg
            /\ pc' = [pc EXCEPT ![c] = "drop_audit"]
        BY <1>6, <2>2 DEF LoadRow, Goto, bounds
      <3>2. PICK r \in Named(arg[c]) : row' = [row EXCEPT ![c] = r]
        BY <1>6, <2>2 DEF LoadRow
      <3>3. \A d \in Client \ {c} : pc'[d] = pc[d] /\ arg'[d] = arg[d] /\ row'[d] = row[d] /\ clean'[d] = clean[d]
        BY <1>1, <3>1, <3>2 DEF TypeOK
      <3>4. pc'[c] = "drop_audit" /\ row'[c] \in consumers /\ row'[c].name = arg'[c]
        BY <1>1, <3>1, <3>2 DEF TypeOK, Named
      <3>5. \A d \in Client \ {c} : pc[d] \in Dropping \union {"drop"} => arg[d] # arg'[c]
        BY <3>1 DEF IInv, DropsApart
      <3> QED
        BY <1>1, <3>1, <3>3, <3>4, <3>5, QuietStep DEF Dropping
    <2> QED
      BY <2>1, <2>2
  <1> QED
    BY <1>2, <1>4, <1>5, <1>6

-----------------------------------------------------------------------------
(* Writes *)

\* A consumer that a drop holds is the only one of its name and of its id.
LEMMA HeldIsUnique ==
  ASSUME IInv, NEW c \in Client, pc[c] \in Dropping
  PROVE  /\ row[c] \in consumers /\ row[c].name = arg[c]
         /\ \A r \in consumers : r.name = row[c].name \/ r.id = row[c].id => r = row[c]
  BY DEF IInv, DropInv, TablesInv, OneRowEach

LEMMA CommitStep ==
  ASSUME IInv, Serializable, NEW c \in Client, CommitCreate(c)
  PROVE  TablesInv' /\ CreateInv' /\ DropInv' /\ DropsApart'
  <1>1. /\ pc[c] = "insert" /\ clean[c]
        /\ consumers' = consumers \union {row[c]}
        /\ subscriptions' = subscriptions \union {[id |-> row[c].id, creation |-> row[c].creation]}
        /\ audit' = audit \union {[action |-> "create", id |-> row[c].id, creation |-> row[c].creation]}
        /\ pc' = [pc EXCEPT ![c] = "report"] /\ clean' = [d \in Client |-> FALSE]
        /\ creations' = creations /\ arg' = arg /\ row' = row
    BY DEF CommitCreate, Written, Goto, bounds, call
  <1>2. \A r \in consumers : r.name # row[c].name /\ r.id < row[c].id
    BY <1>1 DEF IInv, CreateInv
  <1>3. row[c].id \in Nat /\ \A r \in consumers : r.id \in Nat /\ r.id # row[c].id
    BY <1>1, <1>2 DEF IInv, TypeOK, CreateInv, Consumer, Id
  <1>4. \A d \in Client : pc'[d] = pc[d] \/ (d = c /\ pc'[d] = "report")
    BY <1>1 DEF IInv, TypeOK
  <1>5. OneRowEach'
    BY <1>1, <1>2, <1>3 DEF IInv, TablesInv, OneRowEach
  <1>6. SubscriptionsFollow'
    BY <1>1 DEF IInv, TablesInv, SubscriptionsFollow
  <1>7. VisibleIsComplete'
    <2> SUFFICES ASSUME NEW r \in consumers'
                 PROVE  \/ \E s \in subscriptions' : s.id = r.id
                        \/ \E a \in audit' : a.action = "drop" /\ a.creation = r.creation
      BY DEF VisibleIsComplete
    <2>1. CASE r \in consumers
      BY <1>1, <2>1 DEF IInv, TablesInv, VisibleIsComplete
    <2>2. CASE r = row[c]
      <3>1. PICK s \in subscriptions' : s = [id |-> row[c].id, creation |-> row[c].creation]
        BY <1>1
      <3>2. s.id = r.id
        BY <2>2, <3>1
      <3> QED
        BY <3>2
    <2> QED
      BY <1>1, <2>1, <2>2
  <1>8. CreateInv'
    BY <1>1, <1>4 DEF IInv, CreateInv
  <1>9. DropInv'
    <2> SUFFICES ASSUME NEW d \in Client, pc'[d] \in Dropping
                 PROVE  /\ row[d] \in consumers' /\ row[d].name = arg[d]
                        /\ pc[d] # "drop_audit" =>
                             \E a \in audit' : a.action = "drop" /\ a.creation = row[d].creation
                        /\ pc[d] = "drop_consumer" => \A s \in subscriptions' : s.id # row[d].id
                        /\ pc'[d] = pc[d]
      BY <1>1 DEF DropInv
    <2>1. pc'[d] = pc[d]
      BY <1>4 DEF Dropping
    <2>2. row[d] \in consumers
      BY <2>1, HeldIsUnique
    <2>3. row[d].id # row[c].id
      BY <1>3, <2>2
    <2> QED
      BY <1>1, <2>1, <2>2, <2>3 DEF IInv, DropInv
  <1>10. DropsApart'
    BY <1>1, <1>4 DEF IInv, DropsApart, Dropping
  <1> QED
    BY <1>5, <1>6, <1>7, <1>8, <1>9, <1>10 DEF TablesInv

LEMMA DropStep ==
  ASSUME IInv, NEW c \in Client, AuditDrop(c) \/ DropSubscriptions(c) \/ DropConsumer(c)
  PROVE  TablesInv' /\ CreateInv' /\ DropInv' /\ DropsApart'
  <1>1. pc[c] \in Dropping /\ clean' = [d \in Client |-> FALSE] /\ creations' = creations
    BY DEF AuditDrop, DropSubscriptions, DropConsumer, Dropping, Written, bounds
  <1>2. /\ row[c] \in consumers /\ row[c].name = arg[c]
        /\ \A r \in consumers : r.name = row[c].name \/ r.id = row[c].id => r = row[c]
    BY <1>1, HeldIsUnique
  <1>3. \A d \in Client \ {c} : pc'[d] = pc[d] /\ arg'[d] = arg[d] /\ row'[d] = row[d]
    BY DEF IInv, TypeOK, AuditDrop, DropSubscriptions, DropConsumer, Return, Goto, call
  <1>4. \A d \in Client \ {c} : pc[d] \in Dropping => row[d].name # row[c].name
    BY <1>1, <1>2 DEF IInv, DropsApart, DropInv
  <1>5. pc'[c] \in {"drop_subscriptions", "drop_consumer", "idle"}
    BY DEF IInv, TypeOK, AuditDrop, DropSubscriptions, DropConsumer, Return, Goto
  <1>6. CreateInv'
    BY <1>1, <1>3, <1>5 DEF IInv, CreateInv
  <1>7. DropsApart'
    <2>1. pc'[c] # "idle" => arg' = arg
      BY DEF IInv, TypeOK, AuditDrop, DropSubscriptions, DropConsumer, Return, Goto, call
    <2> QED
      BY <1>1, <1>3, <1>5, <2>1 DEF IInv, DropsApart, Dropping
  <1>8. CASE AuditDrop(c)
    <2>1. /\ audit' = audit \union {[action |-> "drop", id |-> row[c].id, creation |-> row[c].creation]}
          /\ consumers' = consumers /\ subscriptions' = subscriptions
          /\ arg' = arg /\ row' = row /\ pc'[c] = "drop_subscriptions"
      BY <1>8 DEF AuditDrop, Goto, call, IInv, TypeOK
    <2>2. TablesInv'
      BY <2>1 DEF IInv, TablesInv, OneRowEach, SubscriptionsFollow, VisibleIsComplete
    <2>3. DropInv'
      <3> SUFFICES ASSUME NEW d \in Client, pc'[d] \in Dropping
                   PROVE  /\ row[d] \in consumers /\ row[d].name = arg[d]
                          /\ pc'[d] # "drop_audit" =>
                               \E a \in audit' : a.action = "drop" /\ a.creation = row[d].creation
                          /\ pc'[d] = "drop_consumer" => \A s \in subscriptions : s.id # row[d].id
        BY <2>1 DEF DropInv
      <3>1. CASE d = c
        <4>1. PICK a \in audit' : a = [action |-> "drop", id |-> row[c].id, creation |-> row[c].creation]
          BY <2>1
        <4>2. a.action = "drop" /\ a.creation = row[c].creation
          BY <4>1
        <4> QED
          BY <1>2, <2>1, <3>1, <4>2
      <3>2. CASE d # c
        BY <1>3, <2>1, <3>2 DEF IInv, DropInv
      <3> QED
        BY <3>1, <3>2
    <2> QED
      BY <1>6, <1>7, <2>2, <2>3
  <1>9. CASE DropSubscriptions(c)
    <2>1. /\ subscriptions' = {s \in subscriptions : s.id # row[c].id}
          /\ consumers' = consumers /\ audit' = audit /\ pc[c] = "drop_subscriptions"
          /\ arg' = arg /\ row' = row /\ pc'[c] = "drop_consumer"
      BY <1>9 DEF DropSubscriptions, Goto, call, IInv, TypeOK
    <2>2. \E a \in audit : a.action = "drop" /\ a.creation = row[c].creation
      BY <1>1, <2>1 DEF IInv, DropInv
    <2>3. VisibleIsComplete'
      <3> SUFFICES ASSUME NEW r \in consumers
                   PROVE  \/ \E s \in subscriptions' : s.id = r.id
                          \/ \E a \in audit : a.action = "drop" /\ a.creation = r.creation
        BY <2>1 DEF VisibleIsComplete
      <3>1. CASE r.id = row[c].id
        BY <1>2, <2>2, <3>1
      <3>2. CASE r.id # row[c].id
        BY <2>1, <3>2 DEF IInv, TablesInv, VisibleIsComplete
      <3> QED
        BY <3>1, <3>2
    <2>4. OneRowEach' /\ SubscriptionsFollow'
      BY <2>1 DEF IInv, TablesInv, OneRowEach, SubscriptionsFollow
    <2>5. DropInv'
      <3> SUFFICES ASSUME NEW d \in Client, pc'[d] \in Dropping
                   PROVE  /\ row[d] \in consumers /\ row[d].name = arg[d]
                          /\ pc'[d] # "drop_audit" =>
                               \E a \in audit : a.action = "drop" /\ a.creation = row[d].creation
                          /\ pc'[d] = "drop_consumer" => \A s \in subscriptions' : s.id # row[d].id
        BY <2>1 DEF DropInv
      <3>1. CASE d = c
        BY <1>2, <2>1, <2>2, <3>1
      <3>2. CASE d # c
        BY <1>3, <2>1, <3>2 DEF IInv, DropInv
      <3> QED
        BY <3>1, <3>2
    <2> QED
      BY <1>6, <1>7, <2>3, <2>4, <2>5 DEF TablesInv
  <1>10. CASE DropConsumer(c)
    <2>1. /\ consumers' = {r \in consumers : r.name # arg[c]}
          /\ subscriptions' = subscriptions /\ audit' = audit /\ pc[c] = "drop_consumer"
          /\ pc'[c] = "idle"
      BY <1>10 DEF DropConsumer, Return, Goto, IInv, TypeOK
    <2>2. \A s \in subscriptions : s.id # row[c].id
      BY <1>1, <2>1 DEF IInv, DropInv
    <2>3. SubscriptionsFollow'
      <3> SUFFICES ASSUME NEW s \in subscriptions
                   PROVE  \E r \in consumers' : r.id = s.id /\ r.creation = s.creation
        BY <2>1 DEF SubscriptionsFollow
      <3>1. PICK r \in consumers : r.id = s.id /\ r.creation = s.creation
        BY DEF IInv, TablesInv, SubscriptionsFollow
      <3>2. r.name # arg[c]
        BY <1>2, <2>2, <3>1
      <3> QED
        BY <2>1, <3>1, <3>2
    <2>4. OneRowEach' /\ VisibleIsComplete'
      BY <2>1 DEF IInv, TablesInv, OneRowEach, VisibleIsComplete
    <2>5. DropInv'
      <3> SUFFICES ASSUME NEW d \in Client, pc'[d] \in Dropping
                   PROVE  /\ row'[d] \in consumers' /\ row'[d].name = arg'[d]
                          /\ pc'[d] # "drop_audit" =>
                               \E a \in audit' : a.action = "drop" /\ a.creation = row'[d].creation
                          /\ pc'[d] = "drop_consumer" => \A s \in subscriptions' : s.id # row'[d].id
        BY DEF DropInv
      <3>1. d # c
        BY <2>1 DEF Dropping
      <3>2. row[d] \in consumers /\ row[d].name # arg[c]
        BY <1>2, <1>3, <1>4, <3>1 DEF IInv, DropInv
      <3> QED
        BY <1>3, <2>1, <3>1, <3>2 DEF IInv, DropInv
    <2> QED
      BY <1>6, <1>7, <2>3, <2>4, <2>5 DEF TablesInv
  <1> QED
    BY <1>8, <1>9, <1>10

LEMMA StepIInv ==
  ASSUME Serializable, ~RacingDrops, IInv, [Next]_vars
  PROVE  IInv'
  <1>1. TypeOK' /\ CallInv'
    BY TypeStep DEF IInv
  <1>2. CASE UNCHANGED vars
    BY <1>1, <1>2 DEF vars, IInv, TablesInv, OneRowEach, SubscriptionsFollow, VisibleIsComplete,
                      CreateInv, DropInv, DropsApart
  <1>3. ASSUME NEW c \in Client,
               \/ \E n \in Name : BeginCreate(c, n) \/ BeginDrop(c, n)
               \/ Step(c) \/ RetryCreate(c) \/ Fail(c)
        PROVE  TablesInv' /\ CreateInv' /\ DropInv' /\ DropsApart'
    BY <1>3, QuietActions, CommitStep, DropStep DEF Step
  <1> QED
    BY <1>1, <1>2, <1>3 DEF Next, IInv

LEMMA Invariance ==
  ASSUME Serializable, ~RacingDrops
  PROVE  Spec => []IInv
  <1>1. IInv /\ [Next]_vars => IInv'
    BY StepIInv
  <1> QED
    BY <1>1, InitIInv, PTL DEF Spec

-----------------------------------------------------------------------------

\* The variables stay in their types (CreateConsumerOnce, ConsumerDropInit).
THEOREM TypeCorrect ==
  ASSUME Serializable, ~RacingDrops
  PROVE  Spec => []TypeOK
  BY Invariance, PTL DEF IInv

\* Neither a name nor an id stands for two consumers (CreateConsumerOnce).
THEOREM NamesAndIdsUnique ==
  ASSUME Serializable, ~RacingDrops
  PROVE  Spec => []OneRowEach
  BY Invariance, PTL DEF IInv, TablesInv

\* No consumer inherits the subscriptions of one that was dropped
\* (ConsumerDropInit).
THEOREM NothingInherited ==
  ASSUME Serializable, ~RacingDrops
  PROVE  Spec => []SubscriptionsFollow
  BY Invariance, PTL DEF IInv, TablesInv

\* A consumer without subscriptions is one that a drop has left so
\* (CreateConsumerOnce, ConsumerDropInit).
THEOREM VisibleComplete ==
  ASSUME Serializable, ~RacingDrops
  PROVE  Spec => []VisibleIsComplete
  BY Invariance, PTL DEF IInv, TablesInv

\* A drop deletes no consumer but the one it has read (ConsumerDropInit).
THEOREM DropsAreAudited ==
  ASSUME Serializable, ~RacingDrops
  PROVE  Spec => DropTakesWhatItSaw
  <1>1. ASSUME IInv, [Next]_vars, NEW r \in consumers \ consumers'
        PROVE  \E a \in audit : a.action = "drop" /\ a.creation = r.creation
    <2>1. PICK c \in Client : DropConsumer(c)
      BY <1>1 DEF Next, Step, vars, tables, BeginCreate, BeginDrop, ReadConsumers, CommitCreate,
                  AbortCreate, ReportCreate, LoadRow, AuditDrop, DropSubscriptions, RetryCreate, Fail
    <2>2. pc[c] = "drop_consumer" /\ r.name = arg[c]
      BY <1>1, <2>1 DEF DropConsumer
    <2>3. r = row[c]
      BY <1>1, <2>2, HeldIsUnique DEF Dropping
    <2> QED
      BY <1>1, <2>2, <2>3 DEF IInv, DropInv, Dropping
  <1>2. IInv /\ [Next]_vars =>
          [\A r \in consumers \ consumers' :
             \E a \in audit : a.action = "drop" /\ a.creation = r.creation]_vars
    BY <1>1
  <1> QED
    BY <1>2, Invariance, PTL DEF Spec, DropTakesWhatItSaw
=============================================================================
