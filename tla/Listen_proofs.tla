--------------------------- MODULE Listen_proofs ---------------------------
(***************************************************************************)
(* Proofs about Listen, for any number of applications, any windows and    *)
(* any faults.  NothingSkipped is proved where reads see no more than      *)
(* waits, and a consumer that is created again is subscribed as before:    *)
(* the configurations ListenSkips and ListenRecreated show why.            *)
(***************************************************************************)
EXTENDS Listen, TLAPS

\* Touches and HasRows, as functions of the kind.
TouchedBy(k, sub) == IF k = "ddl" THEN Covered(sub) ELSE {"rows", "touch"}
RowsOf(k, sub) ==
  IF k = "ddl" THEN Covered(sub) \union {"dropped_schema", "view"} ELSE {"rows"}

\* Nothing points beyond the catalog.
BoundInv ==
  /\ cursor <= head
  /\ \A s \in 1 .. MaxSnapshot : head < s => log[s] = "none"
  /\ \A c \in Client : base[c] <= head /\ inspected[c] <= head /\ win[c].end <= head

\* A call that has looked and not gone on is notified of what came since.
WakeInv ==
  \A c \in Client :
    /\ Notifies /\ inspected[c] < head
    /\ pc[c] \in {"advance", "advance_commit", "deadline", "wait"}
    => notified[c]

\* What a scan found is the first match after the cursor it started from, as
\* long as the subscription it looked with is the one the call goes by.
ReadyInv ==
  \A c \in Client :
    /\ pc[c] = "idle" => ready[c] = NotReady
    /\ pc[c] = "subscribe" => kind = "ddl"
    /\ ready[c] # NotReady =>
         /\ ready[c].snapshot <= head /\ ready[c].span <= ready[c].snapshot
         /\ kind = "dml" =>
              /\ log[ready[c].snapshot] \in TouchedBy(kind, subscribed[c])
              /\ \A s \in 1 .. ready[c].snapshot :
                   ready[c].snapshot - ready[c].span < s /\ s < ready[c].snapshot
                     => log[s] \notin TouchedBy(kind, subscribed[c])

\* The calls that rely on the cursor they have read, if the lease is theirs.
Holding(c) ==
  \/ pc[c] \in {"advance_commit", "window", "extract", "commit", "app"}
  \/ pc[c] = "return" /\ ~opt[c].auto /\ rows[c] # {}

\* Up to where a call may move the cursor, its rows are all there is.
CallInv(c) ==
  /\ pc[c] # "idle" => subscribed[c] = scope
  /\ pc[c] \in {"advance", "advance_commit"} =>
       /\ kind = "ddl"
       /\ \A s \in 1 .. inspected[c] : base[c] < s => log[s] \notin TouchedBy(kind, subscribed[c])
  /\ Holding(c) /\ owner = c => cursor = base[c]
  /\ pc[c] \in {"extract", "commit", "return", "app"} =>
       \A s \in 1 .. win[c].end :
         base[c] < s /\ log[s] \in RowsOf(kind, subscribed[c]) => win[c].start <= s
  /\ pc[c] \in {"commit", "return", "app"} =>
       \A s \in 1 .. win[c].end :
         win[c].start <= s /\ log[s] \in RowsOf(kind, subscribed[c]) => s \in rows[c]
  /\ pc[c] = "commit" => opt[c].auto \/ rows[c] = {}
  /\ pc[c] = "app" /\ owner = c => rows[c] \subseteq delivered

CallsInv == \A c \in Client : CallInv(c)

-----------------------------------------------------------------------------
(* Types *)

\* The half of TypeOK that is about calls.
CallOK ==
  /\ pc \in [Client -> PC]
  /\ opt \in [Client -> [listen: BOOLEAN, auto: BOOLEAN]]
  /\ subscribed \in [Client -> Scopes \union {"none"}]
  /\ base \in [Client -> Snapshot] /\ inspected \in [Client -> Snapshot]
  /\ \A c \in Client :
       ready[c] = NotReady \/ ready[c] \in [snapshot: Snapshot, span: Snapshot \ {0}]
  /\ win \in [Client -> [base: Snapshot, head: Snapshot, start: Nat, end: Snapshot,
                         boundary: Snapshot \union {NoSnapshot}]]
  /\ rows \in [Client -> SUBSET Snapshot]
  /\ notified \in [Client -> BOOLEAN]

\* TypeOK leaves the domain of ready open.
ReadyType == ready \in [Client -> [snapshot: Snapshot \union {NoSnapshot}, span: Snapshot]]

LEMMA ReturnType ==
  ASSUME CallOK, ReadyType, NEW c \in Client, Return(c)
  PROVE  CallOK' /\ ReadyType'
  <1>1. 0 \in Snapshot
    BY ListenAssumption DEF Snapshot
  <1>2. NoOption \in [listen: BOOLEAN, auto: BOOLEAN]
    BY DEF NoOption
  <1>3. NoWindow \in [base: Snapshot, head: Snapshot, start: Nat, end: Snapshot,
                      boundary: Snapshot \union {NoSnapshot}]
    BY <1>1 DEF NoWindow
  <1>4. NotReady \in [snapshot: Snapshot \union {NoSnapshot}, span: Snapshot]
    BY <1>1 DEF NotReady
  <1>5. ready' = [ready EXCEPT ![c] = NotReady]
    BY DEF Return
  <1>6. ReadyType' /\ \A d \in Client : ready'[d] = IF d = c THEN NotReady ELSE ready[d]
    BY <1>4, <1>5 DEF ReadyType
  <1> QED
    BY <1>1, <1>2, <1>3, <1>6 DEF CallOK, Return, Goto, PC

\* A step of a call that only goes on, or returns.
LEMMA MoveType ==
  ASSUME CallOK, ReadyType, NEW c \in Client,
         \/ \E label \in PC : Goto(c, label) /\ UNCHANGED call
         \/ Return(c)
  PROVE  CallOK' /\ ReadyType'
  <1>1. CASE Return(c)
    BY <1>1, ReturnType
  <1>2. CASE \E label \in PC : Goto(c, label) /\ UNCHANGED call
    BY <1>2 DEF CallOK, ReadyType, Goto, call
  <1> QED
    BY <1>1, <1>2

LEMMA LimitType ==
  ASSUME CallOK, ReadyType, NEW c \in Client
  PROVE  Limit(c) \in Nat /\ Limit(c) >= 1 /\ Limit(c) >= ready[c].span
  BY ListenAssumption DEF Limit, Greater, ReadyType, Snapshot

\* What the calls do to their variables.
LEMMA CallType ==
  ASSUME TypeOK, ReadyType, [Next]_vars
  PROVE  CallOK' /\ ReadyType'
  <1> USE ListenAssumption
  <1>1. CallOK /\ head \in Snapshot /\ cursor \in Snapshot /\ 0 \in Snapshot
    <2>1. 0 \in Snapshot
      BY DEF Snapshot
    <2>2. head \in Snapshot /\ cursor \in Snapshot
      BY DEF TypeOK
    <2>3. CallOK
      BY DEF TypeOK, CallOK
    <2> QED
      BY <2>1, <2>2, <2>3
  <1>2. CASE CommitSnapshot
    BY <1>1, <1>2 DEF CommitSnapshot, CallOK, ReadyType
  <1>3. ASSUME NEW c \in Client, NEW listen \in BOOLEAN, BeginCall(c, listen)
        PROVE  CallOK' /\ ReadyType'
    <2>1. PICK auto \in AutoCommits : opt' = [opt EXCEPT ![c] = [listen |-> listen, auto |-> auto]]
      BY <1>3 DEF BeginCall
    <2>2. opt' \in [Client -> [listen: BOOLEAN, auto: BOOLEAN]]
      BY <1>1, <2>1 DEF CallOK
    <2>3. subscribed' \in [Client -> Scopes \union {"none"}]
      BY <1>1, <1>3 DEF BeginCall, CallOK, TypeOK
    <2> QED
      BY <1>1, <1>3, <2>2, <2>3 DEF BeginCall, CallOK, ReadyType, Goto, PC, Waits
  <1>4. ASSUME NEW c \in Client, LoadRow(c) \/ Wake(c) \/ LoadSubscriptions(c)
        PROVE  CallOK' /\ ReadyType'
    <2>1. CASE LoadRow(c)
      BY <1>1, <2>1 DEF LoadRow, CallOK, ReadyType, Goto, PC, Waits
    <2>2. CASE Wake(c)
      BY <1>1, <2>2 DEF Wake, CallOK, ReadyType, Goto, PC, Waits
    <2>3. CASE LoadSubscriptions(c)
      BY <1>1, <2>3 DEF LoadSubscriptions, CallOK, ReadyType, Goto, PC, Waits, TypeOK
    <2> QED
      BY <1>4, <2>1, <2>2, <2>3
  <1>5. ASSUME NEW c \in Client, Scan(c) PROVE CallOK' /\ ReadyType'
    <2>1. PICK first \in Snapshot \union {NoSnapshot} :
            /\ IsFirst(first, Touching(head, subscribed[c]), base[c], head)
            /\ \/ /\ first # NoSnapshot
                  /\ ready' = [ready EXCEPT ![c] = [snapshot |-> first, span |-> first - base[c]]]
                  /\ notified' = [notified EXCEPT ![c] = FALSE]
                  /\ Goto(c, IF kind = "ddl" THEN "subscribe" ELSE "acquire")
               \/ /\ first = NoSnapshot
                  /\ Goto(c, IF kind = "ddl" /\ head > base[c] THEN "advance" ELSE "deadline")
                  /\ UNCHANGED <<ready, notified>>
      BY <1>5 DEF Scan
    <2>2. /\ inspected' = [inspected EXCEPT ![c] = head]
          /\ UNCHANGED <<opt, subscribed, base, win, rows>>
      BY <1>5 DEF Scan
    <2>3. CASE first = NoSnapshot
      <3>1. UNCHANGED <<ready, notified>> /\ (Goto(c, "advance") \/ Goto(c, "deadline"))
        BY <2>1, <2>3
      <3>2. pc' \in [Client -> PC]
        BY <1>1, <3>1 DEF CallOK, Goto, PC, Waits
      <3>3. inspected' \in [Client -> Snapshot]
        BY <1>1, <2>2 DEF CallOK
      <3> QED
        BY <1>1, <2>2, <3>1, <3>2, <3>3 DEF CallOK, ReadyType
    <2>4. CASE first # NoSnapshot
      <3>1. first \in Snapshot /\ base[c] < first /\ base[c] \in Snapshot
        BY <1>1, <2>1, <2>4 DEF IsFirst, CallOK
      <3>2. first - base[c] \in Snapshot \ {0}
        BY <3>1 DEF Snapshot
      <3>3. [snapshot |-> first, span |-> first - base[c]] \in [snapshot: Snapshot, span: Snapshot \ {0}]
        BY <3>1, <3>2
      <3>4. ready' = [ready EXCEPT ![c] = [snapshot |-> first, span |-> first - base[c]]]
        BY <2>1, <2>4
      <3>5. \A d \in Client : ready'[d] = IF d = c THEN [snapshot |-> first, span |-> first - base[c]] ELSE ready[d]
        BY <3>4 DEF ReadyType
      <3>6. ReadyType'
        BY <3>3, <3>4 DEF ReadyType
      <3>7. \A d \in Client :
              ready'[d] = NotReady \/ ready'[d] \in [snapshot: Snapshot, span: Snapshot \ {0}]
        BY <1>1, <3>3, <3>5 DEF CallOK
      <3>8. /\ notified' \in [Client -> BOOLEAN] /\ pc' \in [Client -> PC]
            /\ inspected' \in [Client -> Snapshot]
        BY <1>1, <2>1, <2>2, <2>4 DEF CallOK, Goto, PC, Waits
      <3> QED
        BY <1>1, <2>2, <3>6, <3>7, <3>8 DEF CallOK
    <2> QED
      BY <2>3, <2>4
  <1>6. ASSUME NEW c \in Client,
               \/ AdvanceLease(c) \/ AdvanceCommit(c) \/ GiveUp(c) \/ Wait(c) \/ CommitRead(c)
               \/ Deliver(c) \/ AppCommit(c) \/ Fail(c)
        PROVE  CallOK' /\ ReadyType'
    <2>1. \/ \E label \in PC : Goto(c, label) /\ UNCHANGED call
          \/ Return(c)
      BY <1>6 DEF AdvanceLease, AdvanceCommit, GiveUp, Wait, CommitRead, Deliver, AppCommit, Fail, PC, Waits
    <2> QED
      BY <1>1, <2>1, MoveType
  <1>7. ASSUME NEW c \in Client, Acquire(c) PROVE CallOK' /\ ReadyType'
    <2>1. CASE MayAcquire(c)
      <3>1. /\ base' = [base EXCEPT ![c] = cursor] /\ pc' = [pc EXCEPT ![c] = "window"]
            /\ UNCHANGED <<opt, subscribed, inspected, ready, win, rows, notified>>
        BY <1>7, <2>1 DEF Acquire, Goto
      <3> QED
        BY <1>1, <3>1 DEF CallOK, ReadyType, PC
    <2>2. CASE ~MayAcquire(c)
      BY <1>1, <1>7, <2>2, MoveType DEF Acquire
    <2> QED
      BY <2>1, <2>2
  <1>8. ASSUME NEW c \in Client, ReadWindow(c) PROVE CallOK' /\ ReadyType'
    <2>1. CASE Return(c)
      BY <1>1, <2>1, MoveType
    <2>2. CASE ~Return(c)
      <3>1. PICK w \in [base: {base[c]}, head: {head}, start: 1 .. MaxSnapshot + 1, end: Snapshot,
                        boundary: Snapshot \union {NoSnapshot}] :
              /\ win' = [win EXCEPT ![c] = w]
              /\ Goto(c, "extract")
              /\ UNCHANGED <<opt, subscribed, base, inspected, ready, rows, notified>>
        BY <1>8, <2>2 DEF ReadWindow
      <3>2. w \in [base: Snapshot, head: Snapshot, start: Nat, end: Snapshot,
                   boundary: Snapshot \union {NoSnapshot}]
        BY <1>1 DEF CallOK
      <3> QED
        BY <1>1, <3>1, <3>2 DEF CallOK, ReadyType, Goto, PC
    <2> QED
      BY <2>1, <2>2
  <1>9. ASSUME NEW c \in Client, Extract(c) PROVE CallOK' /\ ReadyType'
    <2> DEFINE found == WithRows(head, subscribed[c]) \intersect (win[c].start .. win[c].end)
    <2>1. /\ rows' = [rows EXCEPT ![c] = found]
          /\ Goto(c, IF Commits(c, found) THEN "commit" ELSE "return")
          /\ UNCHANGED <<opt, subscribed, base, inspected, ready, win, notified>>
      BY <1>9 DEF Extract
    <2>2. found \in SUBSET Snapshot
      BY <1>1 DEF WithRows, Snapshot
    <2> HIDE DEF found
    <2> QED
      BY <1>1, <2>1, <2>2 DEF CallOK, ReadyType, Goto, PC
  <1>10. CASE LoseLease \/ (\E s \in Snapshot : Reset(s) \/ Recreate(s)) \/ UNCHANGED vars
    <2>1. UNCHANGED <<pc, opt, subscribed, base, inspected, ready, win, rows, notified>>
      BY <1>10 DEF LoseLease, Reset, Recreate, vars, call
    <2> QED
      BY <1>1, <2>1 DEF CallOK, ReadyType
  <1> QED
    BY <1>2, <1>3, <1>4, <1>5, <1>6, <1>7, <1>8, <1>9, <1>10 DEF Next, Step

LEMMA TypeStep ==
  ASSUME TypeOK, ReadyType, [Next]_vars
  PROVE  TypeOK' /\ ReadyType'
  <1> USE ListenAssumption
  <1> DEFINE WorldOK ==
        /\ head \in Snapshot /\ log \in [1 .. MaxSnapshot -> Content \union {"none"}]
        /\ kind \in Kinds /\ scope \in Scopes
        /\ owner \in Client \union {Nobody} /\ cursor \in Snapshot /\ floor \in Snapshot
        /\ delivered \in SUBSET Snapshot /\ lost \in SUBSET Snapshot
        /\ faults \in 0 .. MaxFaults
  <1>1. CallOK' /\ ReadyType' /\ WorldOK /\ CallOK
    BY CallType DEF TypeOK, CallOK
  <1>2. CASE CommitSnapshot
    <2>1. head' \in Snapshot
      BY <1>1, <1>2 DEF CommitSnapshot, Snapshot
    <2>2. log' \in [1 .. MaxSnapshot -> Content \union {"none"}]
      BY <1>1, <1>2 DEF CommitSnapshot
    <2>3. WorldOK'
      BY <1>1, <1>2, <2>1, <2>2 DEF CommitSnapshot, consumer, history
    <2> QED
      BY <1>1, <2>3 DEF TypeOK, CallOK
  <1>3. ASSUME NEW c \in Client,
               \/ \E listen \in BOOLEAN : BeginCall(c, listen)
               \/ Step(c) \/ Fail(c)
        PROVE  WorldOK'
    <2>1. head' = head /\ log' = log /\ kind' = kind /\ scope' = scope /\ floor' = floor
      BY <1>3 DEF BeginCall, Step, LoadRow, Scan, AdvanceLease, AdvanceCommit, GiveUp, Wait, Wake,
                  LoadSubscriptions, Acquire, ReadWindow, Extract, CommitRead, Deliver, AppCommit, Fail,
                  catalog, consumer, history
    <2>2. owner' = owner \/ owner' = c
      BY <1>3 DEF BeginCall, Step, LoadRow, Scan, AdvanceLease, AdvanceCommit, GiveUp, Wait, Wake,
                  LoadSubscriptions, Acquire, ReadWindow, Extract, CommitRead, Deliver, AppCommit, Fail,
                  consumer
    <2>3. cursor' = cursor \/ cursor' = inspected[c] \/ cursor' = win[c].end
      BY <1>3 DEF BeginCall, Step, LoadRow, Scan, AdvanceLease, AdvanceCommit, GiveUp, Wait, Wake,
                  LoadSubscriptions, Acquire, ReadWindow, Extract, CommitRead, Deliver, AppCommit, Fail,
                  consumer
    <2>4. /\ delivered' = delivered \/ delivered' = delivered \union rows[c]
          /\ lost' = lost \/ lost' = lost \union rows[c]
      BY <1>3 DEF BeginCall, Step, LoadRow, Scan, AdvanceLease, AdvanceCommit, GiveUp, Wait, Wake,
                  LoadSubscriptions, Acquire, ReadWindow, Extract, CommitRead, Deliver, AppCommit, Fail,
                  history
    <2>5. faults' = faults \/ (faults < MaxFaults /\ faults' = faults + 1)
      BY <1>3 DEF BeginCall, Step, LoadRow, Scan, AdvanceLease, AdvanceCommit, GiveUp, Wait, Wake,
                  LoadSubscriptions, Acquire, ReadWindow, Extract, CommitRead, Deliver, AppCommit, Fail,
                  Fault, history
    <2>6. inspected[c] \in Snapshot /\ win[c].end \in Snapshot /\ rows[c] \in SUBSET Snapshot
      BY <1>1 DEF CallOK
    <2> QED
      BY <1>1, <2>1, <2>2, <2>3, <2>4, <2>5, <2>6
  <1>4. CASE LoseLease
    BY <1>1, <1>4 DEF LoseLease, Fault, catalog, TypeOK, CallOK
  <1>5. ASSUME NEW s \in Snapshot, Reset(s) \/ Recreate(s) PROVE WorldOK'
    BY <1>1, <1>5 DEF Reset, Recreate, Fault, catalog
  <1>6. CASE UNCHANGED vars
    BY <1>1, <1>6 DEF vars, TypeOK, CallOK
  <1>7. WorldOK' => TypeOK'
    BY <1>1 DEF TypeOK, CallOK
  <1> HIDE DEF WorldOK
  <1> QED
    BY <1>1, <1>2, <1>3, <1>4, <1>5, <1>6, <1>7 DEF Next

LEMMA InitInv ==
  Init => TypeOK /\ ReadyType /\ BoundInv /\ WakeInv /\ ReadyInv /\ CallsInv /\ NothingSkipped
  <1> SUFFICES ASSUME Init
               PROVE  TypeOK /\ ReadyType /\ BoundInv /\ WakeInv /\ ReadyInv /\ CallsInv /\ NothingSkipped
    OBVIOUS
  <1> USE ListenAssumption
  <1>1. 0 \in Snapshot /\ 0 \in 0 .. MaxFaults
    BY DEF Snapshot
  <1>2. TypeOK
    BY <1>1 DEF Init, TypeOK, PC, Waits, NoOption, NoWindow
  <1>3. ReadyType
    BY <1>1 DEF Init, ReadyType, NotReady
  <1>4. BoundInv /\ WakeInv /\ ReadyInv
    BY DEF Init, BoundInv, WakeInv, ReadyInv, NoWindow
  <1>5. CallsInv /\ NothingSkipped
    BY DEF Init, CallsInv, CallInv, Holding, NothingSkipped, WithRows
  <1> QED
    BY <1>2, <1>3, <1>4, <1>5

-----------------------------------------------------------------------------
(* The catalog, notifications, and what scans found *)

\* The window a read finds ends within the catalog, and leaves out no rows.
LEMMA WindowHolds ==
  ASSUME TypeOK, ReadyType, BoundInv, NEW c \in Client,
         NEW w \in [base: {base[c]}, head: {head}, start: 1 .. MaxSnapshot + 1, end: Snapshot,
                    boundary: Snapshot \union {NoSnapshot}],
         WindowOf(c, w), HasChanges(w)
  PROVE  /\ w.base = base[c] /\ w.end <= head /\ base[c] < w.start
         /\ \A s \in 1 .. w.end :
              base[c] < s /\ log[s] \in RowsOf(kind, subscribed[c]) => w.start <= s
  <1>1. /\ head \in Nat /\ base[c] \in Nat /\ base[c] <= head
        /\ MaxSnapshot \in Nat /\ head <= MaxSnapshot
    BY ListenAssumption DEF TypeOK, BoundInv, Snapshot
  <1>2. Limit(c) \in Nat /\ Limit(c) >= 1
    BY LimitType DEF TypeOK, CallOK
  <1>3. PICK first, boundary \in Snapshot \union {NoSnapshot} :
          /\ IsFirst(first, IF kind = "ddl" THEN 1 .. head ELSE Touching(head, subscribed[c]), base[c], head)
          /\ IsFirst(boundary, Reshaping(head), base[c], head)
          /\ w = IF kind = "ddl" THEN DdlWindow(base[c], head, first, Limit(c))
                 ELSE DmlWindow(base[c], head, first, boundary, Limit(c))
    BY DEF WindowOf
  <1>4. first \in Nat \union {NoSnapshot} /\ boundary \in Nat \union {NoSnapshot}
    BY <1>1 DEF Snapshot
  <1>5. CASE kind = "ddl"
    <2>1. IsFirst(first, 1 .. head, base[c], head) /\ w = DdlWindow(base[c], head, first, Limit(c))
      BY <1>3, <1>5
    <2> QED
      BY <1>1, <1>2, <1>4, <2>1 DEF IsFirst, DdlWindow, HasChanges, Least, NoSnapshot
  <1>6. CASE kind # "ddl"
    <2>1. /\ IsFirst(first, Touching(head, subscribed[c]), base[c], head)
          /\ w = DmlWindow(base[c], head, first, boundary, Limit(c))
      BY <1>3, <1>6
    <2>2. w.base = base[c] /\ w.end <= head /\ base[c] < w.start
      BY <1>1, <1>2, <1>3, <1>4, <2>1 DEF IsFirst, DmlWindow, HasChanges, Least, NoSnapshot
    <2>3. ASSUME NEW s \in 1 .. w.end, base[c] < s, log[s] \in RowsOf(kind, subscribed[c])
          PROVE  w.start <= s
      <3>1. w.end \in Nat
        BY <1>1 DEF Snapshot
      <3>2. s \in Touching(head, subscribed[c])
        BY <1>1, <1>6, <2>2, <2>3, <3>1 DEF Touching, Touches, RowsOf
      <3> QED
        BY <1>1, <1>2, <1>3, <1>4, <2>1, <2>2, <2>3, <3>1, <3>2
           DEF IsFirst, DmlWindow, HasChanges, Least, NoSnapshot
    <2> QED
      BY <2>2, <2>3
  <1> QED
    BY <1>5, <1>6

LEMMA BoundStep ==
  ASSUME TypeOK, ReadyType, BoundInv, [Next]_vars
  PROVE  BoundInv'
  <1> USE ListenAssumption
  <1>1. /\ head \in Nat /\ cursor \in Nat /\ cursor <= head
        /\ \A c \in Client : base[c] \in Nat /\ inspected[c] \in Nat /\ win[c].end \in Nat
      BY DEF TypeOK, BoundInv, Snapshot
  <1>2. CASE CommitSnapshot
    <2>1. head' = head + 1 /\ UNCHANGED <<cursor, base, inspected, win>>
      BY <1>2 DEF CommitSnapshot, consumer
    <2>2. PICK what \in Content : log' = [log EXCEPT ![head + 1] = what]
      BY <1>2 DEF CommitSnapshot
    <2>3. \A s \in 1 .. MaxSnapshot : head' < s => log'[s] = "none"
      BY <1>1, <2>1, <2>2 DEF BoundInv, TypeOK
    <2> QED
      BY <1>1, <2>1, <2>3 DEF BoundInv
  <1>3. ASSUME head' = head, log' = log, cursor' <= head,
               \A c \in Client : base'[c] <= head /\ inspected'[c] <= head /\ win'[c].end <= head
        PROVE  BoundInv'
    BY <1>3 DEF BoundInv
  <1>4. ASSUME NEW c \in Client,
               \/ \E listen \in BOOLEAN : BeginCall(c, listen)
               \/ Step(c) \/ Fail(c)
        PROVE  BoundInv'
    <2>1. head' = head /\ log' = log
      BY <1>4 DEF BeginCall, Step, LoadRow, Scan, AdvanceLease, AdvanceCommit, GiveUp, Wait, Wake,
                  LoadSubscriptions, Acquire, ReadWindow, Extract, CommitRead, Deliver, AppCommit, Fail,
                  catalog
    <2>2. \/ cursor' = cursor \/ cursor' = inspected[c]
          \/ cursor' = win[c].end
      BY <1>4 DEF BeginCall, Step, LoadRow, Scan, AdvanceLease, AdvanceCommit, GiveUp, Wait, Wake,
                  LoadSubscriptions, Acquire, ReadWindow, Extract, CommitRead, Deliver, AppCommit, Fail,
                  consumer
    <2>3. cursor' <= head
      BY <1>1, <2>2 DEF BoundInv
    <2>4. /\ \/ base' = base
             \/ base' = [base EXCEPT ![c] = cursor]
             \/ base' = [base EXCEPT ![c] = 0]
          /\ \/ inspected' = inspected
             \/ inspected' = [inspected EXCEPT ![c] = head]
             \/ inspected' = [inspected EXCEPT ![c] = 0]
      BY <1>4 DEF BeginCall, Step, LoadRow, Scan, AdvanceLease, AdvanceCommit, GiveUp, Wait, Wake,
                  LoadSubscriptions, Acquire, ReadWindow, Extract, CommitRead, Deliver, AppCommit, Fail,
                  Return, call
    <2>5. \/ win' = win
          \/ win' = [win EXCEPT ![c] = NoWindow]
          \/ \E w \in [base: {base[c]}, head: {head}, start: 1 .. MaxSnapshot + 1, end: Snapshot,
                       boundary: Snapshot \union {NoSnapshot}] :
               WindowOf(c, w) /\ HasChanges(w) /\ win' = [win EXCEPT ![c] = w]
      <3>1. CASE ReadWindow(c)
        BY <3>1 DEF ReadWindow, Return
      <3>2. CASE ~ReadWindow(c)
        BY <1>4, <3>2
           DEF BeginCall, Step, LoadRow, Scan, AdvanceLease, AdvanceCommit, GiveUp, Wait, Wake,
               LoadSubscriptions, Acquire, Extract, CommitRead, Deliver, AppCommit, Fail, Return, call
      <3> QED
        BY <3>1, <3>2
    <2>6. \A d \in Client : win'[d].end <= head
      <3>1. \E e \in Nat : e <= head /\ \A d \in Client : win'[d].end \in {win[d].end, e}
        <4>1. CASE win' = win
          BY <1>1, <4>1
        <4>2. CASE win' = [win EXCEPT ![c] = NoWindow]
          <5>1. \A d \in Client : win'[d] = IF d = c THEN NoWindow ELSE win[d]
            BY <4>2 DEF TypeOK
          <5>2. NoWindow.end = 0
            BY DEF NoWindow
          <5> QED
            BY <1>1, <5>1, <5>2
        <4>3. ASSUME NEW w \in [base: {base[c]}, head: {head}, start: 1 .. MaxSnapshot + 1, end: Snapshot,
                                boundary: Snapshot \union {NoSnapshot}],
                     WindowOf(c, w), HasChanges(w), win' = [win EXCEPT ![c] = w]
              PROVE  \E e \in Nat : e <= head /\ \A d \in Client : win'[d].end \in {win[d].end, e}
          <5>1. w.end <= head /\ w.end \in Nat
            BY <4>3, WindowHolds DEF Snapshot
          <5>2. \A d \in Client : win'[d] = IF d = c THEN w ELSE win[d]
            BY <4>3 DEF TypeOK
          <5> QED
            BY <5>1, <5>2
        <4> QED
          BY <2>5, <4>1, <4>2, <4>3
      <3> QED
        BY <1>1, <3>1 DEF BoundInv
    <2>7. \A d \in Client : base'[d] <= head /\ inspected'[d] <= head
      <3> SUFFICES ASSUME NEW d \in Client PROVE base'[d] <= head /\ inspected'[d] <= head
        OBVIOUS
      <3>1. base'[d] \in {base[d], cursor, 0} /\ inspected'[d] \in {inspected[d], head, 0}
        BY <2>4 DEF TypeOK
      <3> QED
        BY <1>1, <3>1 DEF BoundInv
    <2> QED
      BY <1>3, <2>1, <2>3, <2>6, <2>7
  <1>5. CASE LoseLease \/ UNCHANGED vars
    BY <1>3, <1>5 DEF BoundInv, LoseLease, catalog, call, vars
  <1>6. ASSUME NEW s \in Snapshot, Reset(s) \/ Recreate(s) PROVE BoundInv'
    BY <1>3, <1>6 DEF BoundInv, Reset, Recreate, catalog, call
  <1> QED
    BY <1>2, <1>4, <1>5, <1>6 DEF Next

LEMMA WakeStep ==
  ASSUME TypeOK, BoundInv, WakeInv, [Next]_vars
  PROVE  WakeInv'
  <1> DEFINE Sleepy == {"advance", "advance_commit", "deadline", "wait"}
  <1>1. head \in Nat /\ \A c \in Client : inspected[c] \in Nat /\ inspected[c] <= head
    BY ListenAssumption DEF TypeOK, BoundInv, Snapshot
  <1>2. CASE CommitSnapshot
    <2>1. /\ pc' = pc /\ inspected' = inspected
          /\ notified' = [c \in Client |-> notified[c] \/ (Notifies /\ pc[c] \in Waits)]
      BY <1>2 DEF CommitSnapshot
    <2> QED
      BY <2>1 DEF WakeInv, Waits
  <1>3. ASSUME NEW c \in Client, head' = head,
               \A d \in Client \ {c} :
                 pc'[d] = pc[d] /\ inspected'[d] = inspected[d] /\ notified'[d] = notified[d],
               \/ pc'[c] \notin Sleepy
               \/ inspected'[c] = head
               \/ pc[c] \in Sleepy /\ inspected'[c] = inspected[c] /\ notified'[c] = notified[c]
        PROVE  WakeInv'
    BY <1>1, <1>3 DEF WakeInv
  <1>4. ASSUME NEW c \in Client,
               \/ \E listen \in BOOLEAN : BeginCall(c, listen)
               \/ Step(c) \/ Fail(c)
        PROVE  WakeInv'
    <2>1. head' = head
      BY <1>4 DEF BeginCall, Step, LoadRow, Scan, AdvanceLease, AdvanceCommit, GiveUp, Wait, Wake,
                  LoadSubscriptions, Acquire, ReadWindow, Extract, CommitRead, Deliver, AppCommit, Fail,
                  catalog
    <2>2. \/ Return(c)
          \/ \E label \in PC :
               /\ Goto(c, label) /\ inspected' = inspected
               /\ notified' = notified /\ (label \in Sleepy => pc[c] \in Sleepy)
          \/ /\ Wake(c) \/ Scan(c)
      BY <1>4 DEF BeginCall, Step, LoadRow, AdvanceLease, AdvanceCommit, GiveUp, Wait,
                  LoadSubscriptions, Acquire, ReadWindow, Extract, CommitRead, Deliver, AppCommit, Fail,
                  call, PC, Waits
    <2>3. CASE Return(c)
      <3>1. /\ pc'[c] = "idle"
            /\ \A d \in Client \ {c} :
                 pc'[d] = pc[d] /\ inspected'[d] = inspected[d] /\ notified'[d] = notified[d]
        BY <2>3 DEF Return, Goto, TypeOK
      <3> QED
        BY <1>3, <2>1, <3>1
    <2>4. ASSUME NEW label \in PC, Goto(c, label), inspected' = inspected,
                 notified' = notified, label \in Sleepy => pc[c] \in Sleepy
          PROVE  WakeInv'
      <3>1. \A d \in Client : pc'[d] = IF d = c THEN label ELSE pc[d]
        BY <2>4 DEF Goto, TypeOK
      <3> QED
        BY <1>3, <2>1, <2>4, <3>1
    <2>5. CASE Wake(c)
      <3>1. \A d \in Client : /\ pc'[d] = IF d = c THEN "load" ELSE pc[d]
                              /\ d # c => notified'[d] = notified[d]
                              /\ inspected'[d] = inspected[d]
        BY <2>5 DEF Wake, Goto, TypeOK
      <3> QED
        BY <1>3, <2>1, <3>1
    <2>6. CASE Scan(c)
      <3>1. /\ inspected' = [inspected EXCEPT ![c] = head]
            /\ notified' = notified \/ notified' = [notified EXCEPT ![c] = FALSE]
            /\ \E label \in PC : Goto(c, label)
        BY <2>6 DEF Scan, PC, Waits
      <3>2. /\ inspected'[c] = head
            /\ \A d \in Client \ {c} :
                 pc'[d] = pc[d] /\ inspected'[d] = inspected[d] /\ notified'[d] = notified[d]
        BY <3>1 DEF Goto, TypeOK
      <3> QED
        BY <1>3, <2>1, <3>2
    <2> QED
      BY <2>2, <2>3, <2>4, <2>5, <2>6
  <1>5. CASE LoseLease \/ (\E s \in Snapshot : Reset(s) \/ Recreate(s)) \/ UNCHANGED vars
    <2>1. UNCHANGED <<head, pc, inspected, notified>>
      BY <1>5 DEF LoseLease, Reset, Recreate, catalog, call, vars
    <2> QED
      BY <2>1 DEF WakeInv
  <1> QED
    BY <1>2, <1>4, <1>5 DEF Next

LEMMA TouchesBy ==
  ASSUME NEW what, NEW sub
  PROVE  /\ Touches(what, sub) <=> what \in TouchedBy(kind, sub)
         /\ HasRows(what, sub) <=> what \in RowsOf(kind, sub)
  BY DEF Touches, HasRows, TouchedBy, RowsOf

\* What was found stays so while the catalog grows.
LEMMA ReadyKept ==
  ASSUME TypeOK, BoundInv, ReadyInv, kind' = kind, head' \in Nat, head <= head',
         \A s \in 1 .. head : log'[s] = log[s],
         NEW c \in Client,
         pc'[c] = "idle" => ready'[c] = NotReady,
         pc'[c] = "subscribe" => kind = "ddl",
         \/ ready'[c] = NotReady
         \/ ready'[c] = ready[c] /\ (kind = "dml" => subscribed'[c] = subscribed[c])
  PROVE  /\ pc'[c] = "idle" => ready'[c] = NotReady
         /\ pc'[c] = "subscribe" => kind' = "ddl"
         /\ ready'[c] # NotReady =>
              /\ ready'[c].snapshot <= head' /\ ready'[c].span <= ready'[c].snapshot
              /\ kind' = "dml" =>
                   /\ log'[ready'[c].snapshot] \in TouchedBy(kind', subscribed'[c])
                   /\ \A s \in 1 .. ready'[c].snapshot :
                        ready'[c].snapshot - ready'[c].span < s /\ s < ready'[c].snapshot
                          => log'[s] \notin TouchedBy(kind', subscribed'[c])
  <1> SUFFICES ASSUME ready'[c] # NotReady
               PROVE  /\ ready[c].snapshot <= head' /\ ready[c].span <= ready[c].snapshot
                      /\ kind = "dml" =>
                           /\ log'[ready[c].snapshot] \in TouchedBy(kind, subscribed[c])
                           /\ \A s \in 1 .. ready[c].snapshot :
                                ready[c].snapshot - ready[c].span < s /\ s < ready[c].snapshot
                                  => log'[s] \notin TouchedBy(kind, subscribed[c])
    OBVIOUS
  <1>1. ready[c] # NotReady
    OBVIOUS
  <1>2. ready[c] \in [snapshot: Snapshot, span: Snapshot \ {0}]
    BY <1>1 DEF TypeOK
  <1>3. /\ ready[c].snapshot <= head /\ ready[c].span <= ready[c].snapshot
        /\ kind = "dml" =>
             /\ log[ready[c].snapshot] \in TouchedBy(kind, subscribed[c])
             /\ \A s \in 1 .. ready[c].snapshot :
                  ready[c].snapshot - ready[c].span < s /\ s < ready[c].snapshot
                    => log[s] \notin TouchedBy(kind, subscribed[c])
    BY <1>1 DEF ReadyInv
  <1>4. head \in Nat /\ ready[c].snapshot \in 1 .. head
    BY <1>2, <1>3, ListenAssumption DEF TypeOK, Snapshot
  <1>5. \A s \in 1 .. ready[c].snapshot : log'[s] = log[s]
    BY <1>4
  <1>6. log'[ready[c].snapshot] = log[ready[c].snapshot]
    BY <1>4
  <1>7. ready[c].snapshot <= head'
    BY <1>4
  <1> QED
    BY <1>3, <1>5, <1>6, <1>7

LEMMA ReadyStep ==
  ASSUME TypeOK, ReadyType, BoundInv, ReadyInv, [Next]_vars, head' \in Nat
  PROVE  ReadyInv'
  <1>1. head \in Nat /\ \A c \in Client : base[c] \in Nat /\ base[c] <= head
    BY ListenAssumption DEF TypeOK, BoundInv, Snapshot
  <1>2. ASSUME kind' = kind, head <= head',
               \A s \in 1 .. head : log'[s] = log[s],
               \A c \in Client :
                 /\ pc'[c] = "idle" => ready'[c] = NotReady
                 /\ pc'[c] = "subscribe" => kind = "ddl"
                 /\ \/ ready'[c] = NotReady
                    \/ ready'[c] = ready[c] /\ (kind = "dml" => subscribed'[c] = subscribed[c])
        PROVE  ReadyInv'
    BY <1>2, ReadyKept DEF ReadyInv
  <1>3. CASE CommitSnapshot
    <2>1. /\ head' = head + 1 /\ UNCHANGED <<kind, pc, ready, subscribed>>
          /\ \A s \in 1 .. head : log'[s] = log[s]
      BY <1>1, <1>3 DEF CommitSnapshot, consumer, TypeOK, Snapshot
    <2>2. head <= head'
      BY <1>1, <2>1
    <2> QED
      BY <1>2, <2>1, <2>2 DEF ReadyInv
  <1>4. ASSUME NEW c \in Client, UNCHANGED <<kind, head, log>>,
               \A d \in Client \ {c} :
                 pc'[d] = pc[d] /\ ready'[d] = ready[d] /\ subscribed'[d] = subscribed[d],
               pc'[c] = "idle" => ready'[c] = NotReady,
               pc'[c] = "subscribe" => kind = "ddl",
               \/ ready'[c] = NotReady
               \/ ready'[c] = ready[c] /\ (kind = "dml" => subscribed'[c] = subscribed[c])
        PROVE  ReadyInv'
    <2>1. \A d \in Client :
            /\ pc'[d] = "idle" => ready'[d] = NotReady
            /\ pc'[d] = "subscribe" => kind = "ddl"
            /\ \/ ready'[d] = NotReady
               \/ ready'[d] = ready[d] /\ (kind = "dml" => subscribed'[d] = subscribed[d])
      BY <1>4 DEF ReadyInv
    <2> QED
      BY <1>1, <1>2, <1>4, <2>1
  <1>5. ASSUME NEW c \in Client,
               \/ LoadRow(c) \/ AdvanceLease(c) \/ AdvanceCommit(c) \/ GiveUp(c) \/ Wait(c) \/ Wake(c)
               \/ Acquire(c) \/ ReadWindow(c) \/ Extract(c) \/ CommitRead(c)
               \/ Deliver(c) \/ AppCommit(c) \/ Fail(c)
        PROVE  ReadyInv'
    <2>1. UNCHANGED <<kind, head, log>>
      BY <1>5 DEF LoadRow, AdvanceLease, AdvanceCommit, GiveUp, Wait, Wake, Acquire, ReadWindow,
                  Extract, CommitRead, Deliver, AppCommit, Fail, catalog, consumer
    <2>2. \/ Return(c)
          \/ \E label \in PC \ {"idle", "subscribe"} : Goto(c, label) /\ UNCHANGED <<ready, subscribed>>
      BY <1>5 DEF LoadRow, AdvanceLease, AdvanceCommit, GiveUp, Wait, Wake, Acquire, ReadWindow,
                  Extract, CommitRead, Deliver, AppCommit, Fail, call, PC, Waits
    <2>3. CASE Return(c)
      <3>1. /\ pc'[c] = "idle" /\ ready'[c] = NotReady
            /\ \A d \in Client \ {c} :
                 pc'[d] = pc[d] /\ ready'[d] = ready[d] /\ subscribed'[d] = subscribed[d]
        BY <2>3 DEF Return, Goto, TypeOK, ReadyType
      <3> QED
        BY <1>4, <2>1, <3>1
    <2>4. ASSUME NEW label \in PC \ {"idle", "subscribe"}, Goto(c, label), UNCHANGED <<ready, subscribed>>
          PROVE  ReadyInv'
      <3>1. \A d \in Client : pc'[d] = IF d = c THEN label ELSE pc[d]
        BY <2>4 DEF Goto, TypeOK
      <3> QED
        BY <1>4, <2>1, <2>4, <3>1
    <2> QED
      BY <2>2, <2>3, <2>4
  <1>6. ASSUME NEW c \in Client, NEW listen \in BOOLEAN, BeginCall(c, listen) PROVE ReadyInv'
    <2>1. /\ UNCHANGED <<kind, head, log, ready>> /\ pc[c] = "idle"
          /\ subscribed' = [subscribed EXCEPT ![c] = scope]
          /\ \E label \in {"load", "acquire"} : pc' = [pc EXCEPT ![c] = label]
      BY <1>6 DEF BeginCall, Goto, catalog, consumer
    <2>2. /\ pc'[c] \in {"load", "acquire"}
          /\ \A d \in Client \ {c} : pc'[d] = pc[d] /\ subscribed'[d] = subscribed[d]
      BY <2>1 DEF TypeOK
    <2>3. ready'[c] = NotReady
      BY <2>1 DEF ReadyInv
    <2> QED
      BY <1>4, <2>1, <2>2, <2>3
  <1>7. ASSUME NEW c \in Client, LoadSubscriptions(c) PROVE ReadyInv'
    <2>1. /\ UNCHANGED <<kind, head, log, ready>> /\ pc[c] = "subscribe"
          /\ subscribed' = [subscribed EXCEPT ![c] = scope]
          /\ pc' = [pc EXCEPT ![c] = "acquire"]
      BY <1>7 DEF LoadSubscriptions, Goto, catalog, consumer
    <2>2. /\ pc'[c] = "acquire"
          /\ \A d \in Client \ {c} : pc'[d] = pc[d] /\ subscribed'[d] = subscribed[d]
      BY <2>1 DEF TypeOK
    <2>3. kind # "dml"
      BY <2>1 DEF ReadyInv
    <2> QED
      BY <1>4, <2>1, <2>2, <2>3
  <1>8. ASSUME NEW c \in Client, Scan(c) PROVE ReadyInv'
    <2>1. PICK first \in Snapshot \union {NoSnapshot} :
            /\ IsFirst(first, Touching(head, subscribed[c]), base[c], head)
            /\ \/ /\ first # NoSnapshot
                  /\ ready' = [ready EXCEPT ![c] = [snapshot |-> first, span |-> first - base[c]]]
                  /\ Goto(c, IF kind = "ddl" THEN "subscribe" ELSE "acquire")
               \/ /\ first = NoSnapshot
                  /\ Goto(c, "advance") \/ Goto(c, "deadline")
                  /\ ready' = ready
      BY <1>8 DEF Scan
    <2>2. UNCHANGED <<kind, head, log, subscribed>>
      BY <1>8 DEF Scan, catalog, consumer
    <2>3. CASE first = NoSnapshot
      <3>1. /\ pc'[c] \in {"advance", "deadline"} /\ ready' = ready
            /\ \A d \in Client \ {c} : pc'[d] = pc[d]
        BY <2>1, <2>3 DEF Goto, TypeOK
      <3> QED
        BY <1>4, <2>2, <3>1
    <2>4. CASE first # NoSnapshot
      <3>1. /\ first \in Touching(head, subscribed[c]) /\ base[c] < first /\ first <= head
            /\ \A m \in Touching(head, subscribed[c]) : base[c] < m /\ m <= head => first <= m
        BY <2>1, <2>4 DEF IsFirst
      <3>2. first \in 1 .. head /\ log[first] \in TouchedBy(kind, subscribed[c])
        BY <3>1, TouchesBy DEF Touching
      <3>3. ASSUME NEW s \in 1 .. first, base[c] < s, s < first
            PROVE  log[s] \notin TouchedBy(kind, subscribed[c])
        <4>1. s \notin Touching(head, subscribed[c])
          BY <1>1, <3>1, <3>2, <3>3
        <4>2. s \in 1 .. head
          BY <1>1, <3>2
        <4> QED
          BY <4>1, <4>2, TouchesBy DEF Touching
      <3>4. /\ \A d \in Client \ {c} : pc'[d] = pc[d] /\ ready'[d] = ready[d]
            /\ ready'[c] = [snapshot |-> first, span |-> first - base[c]]
            /\ pc'[c] = IF kind = "ddl" THEN "subscribe" ELSE "acquire"
        BY <2>1, <2>4 DEF Goto, TypeOK, ReadyType
      <3>5. ready'[c].snapshot = first /\ ready'[c].span = first - base[c]
        BY <3>4
      <3>6. first - (first - base[c]) = base[c] /\ first - base[c] <= first
        BY <1>1, <3>2
      <3> SUFFICES ASSUME NEW d \in Client
                   PROVE  /\ pc'[d] = "idle" => ready'[d] = NotReady
                          /\ pc'[d] = "subscribe" => kind = "ddl"
                          /\ ready'[d] # NotReady =>
                               /\ ready'[d].snapshot <= head /\ ready'[d].span <= ready'[d].snapshot
                               /\ kind = "dml" =>
                                    /\ log[ready'[d].snapshot] \in TouchedBy(kind, subscribed[d])
                                    /\ \A s \in 1 .. ready'[d].snapshot :
                                         ready'[d].snapshot - ready'[d].span < s /\ s < ready'[d].snapshot
                                           => log[s] \notin TouchedBy(kind, subscribed[d])
        BY <2>2 DEF ReadyInv
      <3>7. CASE d = c
        BY <3>1, <3>2, <3>3, <3>4, <3>5, <3>6, <3>7
      <3>8. CASE d # c
        BY <3>4, <3>8 DEF ReadyInv
      <3> QED
        BY <3>7, <3>8
    <2> QED
      BY <2>3, <2>4
  <1>9. CASE LoseLease \/ (\E s \in Snapshot : Reset(s) \/ Recreate(s)) \/ UNCHANGED vars
    <2>1. UNCHANGED <<head, log, kind, pc, ready, subscribed>>
      BY <1>9 DEF LoseLease, Reset, Recreate, catalog, call, vars
    <2> QED
      BY <2>1 DEF ReadyInv
  <1> QED
    BY <1>3, <1>5, <1>6, <1>7, <1>8, <1>9 DEF Next, Step

-----------------------------------------------------------------------------
(* What calls rely on *)

\* A consumer that is created again is subscribed as before.
SameScope == Recreates => \E sub : Scopes = {sub}

\* The variables of a call that steps of others must leave alone.
Locals(c) == <<pc[c], opt[c], subscribed[c], base[c], inspected[c], ready[c], win[c], rows[c]>>

\* A call is not disturbed by a step that leaves it alone, does not give it
\* the lease, and does not move the cursor under its lease.
LEMMA CallKept ==
  ASSUME TypeOK, BoundInv, NEW c \in Client, CallInv(c),
         head' \in Nat, head <= head', \A s \in 1 .. head : log'[s] = log[s],
         kind' = kind, scope' = scope, Locals(c)' = Locals(c),
         owner' = c => owner = c /\ cursor' = cursor /\ delivered \subseteq delivered'
  PROVE  CallInv(c)'
  <1>1. /\ pc'[c] = pc[c] /\ opt'[c] = opt[c] /\ subscribed'[c] = subscribed[c]
        /\ base'[c] = base[c] /\ inspected'[c] = inspected[c] /\ win'[c] = win[c]
        /\ rows'[c] = rows[c]
    BY DEF Locals
  <1>2. /\ head \in Nat /\ inspected[c] \in Nat /\ win[c].end \in Nat
        /\ inspected[c] <= head /\ win[c].end <= head
    BY ListenAssumption DEF TypeOK, BoundInv, Snapshot
  <1>3. /\ \A s \in 1 .. inspected[c] : log'[s] = log[s]
        /\ \A s \in 1 .. win[c].end : log'[s] = log[s]
    BY <1>2
  <1>4. Holding(c)' <=> Holding(c)
    BY <1>1 DEF Holding
  <1>5. /\ pc'[c] # "idle" => subscribed'[c] = scope'
        /\ pc'[c] \in {"advance", "advance_commit"} =>
             /\ kind' = "ddl"
             /\ \A s \in 1 .. inspected'[c] :
                  base'[c] < s => log'[s] \notin TouchedBy(kind', subscribed'[c])
    BY <1>1, <1>3 DEF CallInv
  <1>6. /\ pc'[c] \in {"extract", "commit", "return", "app"} =>
             \A s \in 1 .. win'[c].end :
               base'[c] < s /\ log'[s] \in RowsOf(kind', subscribed'[c]) => win'[c].start <= s
        /\ pc'[c] \in {"commit", "return", "app"} =>
             \A s \in 1 .. win'[c].end :
               win'[c].start <= s /\ log'[s] \in RowsOf(kind', subscribed'[c]) => s \in rows'[c]
    BY <1>1, <1>3 DEF CallInv
  <1>7. /\ Holding(c)' /\ owner' = c => cursor' = base'[c]
        /\ pc'[c] = "commit" => opt'[c].auto \/ rows'[c] = {}
        /\ pc'[c] = "app" /\ owner' = c => rows'[c] \subseteq delivered'
    BY <1>1, <1>4 DEF CallInv
  <1> QED
    BY <1>5, <1>6, <1>7 DEF CallInv

\* A call that has nothing to rely on but its subscriptions.
LEMMA CallFresh ==
  ASSUME NEW c \in Client,
         \/ pc'[c] = "idle"
         \/ /\ pc'[c] \in {"load", "scan", "deadline", "wait", "subscribe", "acquire"}
            /\ subscribed'[c] = scope'
  PROVE  CallInv(c)'
  BY DEF CallInv, Holding

\* The steps of one application leave the calls of the others alone.
LEMMA OthersKept ==
  ASSUME TypeOK, ReadyType, NEW c \in Client, NEW d \in Client, d # c,
         Step(c) \/ Fail(c) \/ \E listen \in BOOLEAN : BeginCall(c, listen)
  PROVE  Locals(d)' = Locals(d)
  <1>1. CASE Return(c)
    BY <1>1 DEF Return, Goto, Locals, TypeOK, ReadyType
  <1>2. CASE \E label \in PC : Goto(c, label) /\ UNCHANGED call
    BY <1>2 DEF Goto, Locals, TypeOK, call
  <1>3. CASE BeginCall(c, TRUE) \/ BeginCall(c, FALSE)
    BY <1>3 DEF BeginCall, Goto, Locals, TypeOK
  <1>4. CASE LoadRow(c) \/ Wake(c) \/ LoadSubscriptions(c)
    BY <1>4 DEF LoadRow, Wake, LoadSubscriptions, Goto, Locals, TypeOK
  <1>5. CASE Scan(c)
    <2>1. /\ inspected' = [inspected EXCEPT ![c] = head]
          /\ ready' = ready \/ \E r : ready' = [ready EXCEPT ![c] = r]
          /\ UNCHANGED <<opt, subscribed, base, win, rows>>
          /\ \E label \in PC : Goto(c, label)
      BY <1>5 DEF Scan, PC, Waits
    <2> QED
      BY <2>1 DEF Goto, Locals, TypeOK, ReadyType
  <1>6. CASE Acquire(c) /\ ~Return(c)
    BY <1>6 DEF Acquire, Goto, Locals, TypeOK
  <1>7. CASE ReadWindow(c) /\ ~Return(c)
    <2>1. /\ \E w : win' = [win EXCEPT ![c] = w]
          /\ Goto(c, "extract")
          /\ UNCHANGED <<opt, subscribed, base, inspected, ready, rows>>
      BY <1>7 DEF ReadWindow
    <2> QED
      BY <2>1 DEF Goto, Locals, TypeOK
  <1>8. CASE Extract(c)
    <2>1. /\ \E found : rows' = [rows EXCEPT ![c] = found]
          /\ \E label \in PC : Goto(c, label)
          /\ UNCHANGED <<opt, subscribed, base, inspected, ready, win>>
      BY <1>8 DEF Extract, PC
    <2> QED
      BY <2>1 DEF Goto, Locals, TypeOK
  <1>9. CASE AdvanceLease(c) \/ AdvanceCommit(c) \/ GiveUp(c) \/ Wait(c) \/ CommitRead(c)
             \/ Deliver(c) \/ AppCommit(c) \/ Fail(c)
    <2>1. Return(c) \/ \E label \in PC : Goto(c, label) /\ UNCHANGED call
      BY <1>9 DEF AdvanceLease, AdvanceCommit, GiveUp, Wait, CommitRead, Deliver, AppCommit, Fail, PC, Waits
    <2> QED
      BY <1>1, <1>2, <2>1
  <1> QED
    BY <1>1, <1>3, <1>4, <1>5, <1>6, <1>7, <1>8, <1>9 DEF Step

\* What a call relies on after a step of its own.
LEMMA OwnStep ==
  ASSUME TypeOK, ReadyType, BoundInv, NEW c \in Client, CallInv(c),
         Step(c) \/ Fail(c) \/ \E listen \in BOOLEAN : BeginCall(c, listen)
  PROVE  CallInv(c)'
  <1>1. /\ head \in Nat /\ base[c] \in Nat /\ inspected[c] \in Nat /\ win[c].end \in Nat
        /\ win[c].end <= head /\ head <= MaxSnapshot
    BY ListenAssumption DEF TypeOK, BoundInv, Snapshot
  <1>2. CASE Return(c)
    <2>1. pc'[c] = "idle"
      BY <1>2 DEF Return, Goto, TypeOK
    <2> QED
      BY <2>1, CallFresh
  <1>3. CASE \E listen \in BOOLEAN : BeginCall(c, listen)
    <2>1. pc'[c] \in {"load", "acquire"} /\ subscribed'[c] = scope'
      BY <1>3 DEF BeginCall, Goto, TypeOK, consumer
    <2> QED
      BY <2>1, CallFresh
  <1>4. CASE LoadRow(c) \/ Wake(c) \/ Wait(c) \/ LoadSubscriptions(c)
    <2>1. CASE LoadRow(c) \/ Wake(c) \/ Wait(c)
      <3>1. /\ pc'[c] \in {"scan", "load", "wait"} /\ pc[c] # "idle"
            /\ subscribed'[c] = subscribed[c] /\ scope' = scope
        BY <2>1 DEF LoadRow, Wake, Wait, Goto, TypeOK, consumer, call
      <3> QED
        BY <3>1, CallFresh DEF CallInv
    <2>2. CASE LoadSubscriptions(c)
      <3>1. pc'[c] = "acquire" /\ subscribed'[c] = scope'
        BY <2>2 DEF LoadSubscriptions, Goto, TypeOK, consumer
      <3> QED
        BY <3>1, CallFresh
    <2> QED
      BY <1>4, <2>1, <2>2
  <1>5. CASE Scan(c)
    <2>1. PICK first \in Snapshot \union {NoSnapshot} :
            /\ IsFirst(first, Touching(head, subscribed[c]), base[c], head)
            /\ \/ /\ first # NoSnapshot
                  /\ Goto(c, IF kind = "ddl" THEN "subscribe" ELSE "acquire")
               \/ /\ first = NoSnapshot
                  /\ Goto(c, IF kind = "ddl" /\ head > base[c] THEN "advance" ELSE "deadline")
      BY <1>5 DEF Scan
    <2>2. /\ inspected'[c] = head /\ pc[c] # "idle"
          /\ UNCHANGED <<kind, scope, log, subscribed, base>>
      BY <1>5 DEF Scan, TypeOK, catalog, consumer
    <2>3. subscribed'[c] = scope'
      BY <2>2 DEF CallInv
    <2>4. CASE pc'[c] # "advance"
      <3>1. pc'[c] \in {"subscribe", "acquire", "deadline"}
        BY <2>1, <2>4 DEF Goto, TypeOK
      <3> QED
        BY <2>3, <3>1, CallFresh
    <2>5. CASE pc'[c] = "advance"
      <3>1. kind = "ddl" /\ first = NoSnapshot
        BY <2>1, <2>5 DEF Goto, TypeOK
      <3>2. \A m \in Touching(head, subscribed[c]) : ~(base[c] < m /\ m <= head)
        BY <2>1, <3>1 DEF IsFirst, Touching, NoSnapshot
      <3>3. \A s \in 1 .. head : base[c] < s => log[s] \notin TouchedBy(kind, subscribed[c])
        BY <1>1, <3>2 DEF Touching, Touches, TouchedBy
      <3> QED
        BY <2>2, <2>3, <2>5, <3>1, <3>3 DEF CallInv, Holding
    <2> QED
      BY <2>4, <2>5
  <1>6. CASE AdvanceLease(c) /\ ~Return(c)
    <2>1. /\ pc[c] = "advance" /\ UNCHANGED <<kind, scope, cursor, log>> /\ UNCHANGED call
          /\ Goto(c, IF SameCursor(c) THEN "advance_commit" ELSE "deadline")
      BY <1>6 DEF AdvanceLease, catalog
    <2>2. /\ pc'[c] = IF SameCursor(c) THEN "advance_commit" ELSE "deadline"
          /\ subscribed' = subscribed /\ base' = base /\ inspected' = inspected
      BY <2>1 DEF Goto, TypeOK, call
    <2>3. subscribed'[c] = scope'
      BY <2>1, <2>2 DEF CallInv
    <2>4. CASE SameCursor(c)
      BY <2>1, <2>2, <2>3, <2>4 DEF CallInv, Holding, SameCursor
    <2>5. CASE ~SameCursor(c)
      BY <2>2, <2>3, <2>5, CallFresh
    <2> QED
      BY <2>4, <2>5
  <1>7. CASE Acquire(c) /\ ~Return(c)
    <2>1. /\ pc[c] = "acquire" /\ pc'[c] = "window" /\ base'[c] = cursor'
          /\ subscribed' = subscribed /\ scope' = scope
      BY <1>7 DEF Acquire, Goto, TypeOK
    <2> QED
      BY <2>1 DEF CallInv, Holding
  <1>8. CASE ReadWindow(c) /\ ~Return(c)
    <2>1. PICK w \in [base: {base[c]}, head: {head}, start: 1 .. MaxSnapshot + 1, end: Snapshot,
                      boundary: Snapshot \union {NoSnapshot}] :
            WindowOf(c, w) /\ HasChanges(w) /\ win' = [win EXCEPT ![c] = w] /\ Goto(c, "extract")
      BY <1>8 DEF ReadWindow
    <2>2. /\ pc[c] = "window" /\ pc'[c] = "extract" /\ win'[c] = w
          /\ UNCHANGED <<kind, scope, cursor, owner, log, subscribed, base>>
      BY <1>8, <2>1 DEF ReadWindow, Goto, TypeOK, catalog, consumer
    <2>3. \A s \in 1 .. w.end : base[c] < s /\ log[s] \in RowsOf(kind, subscribed[c]) => w.start <= s
      BY <2>1, WindowHolds
    <2> QED
      BY <2>2, <2>3 DEF CallInv, Holding
  <1>9. CASE Extract(c)
    <2> DEFINE found == WithRows(head, subscribed[c]) \intersect (win[c].start .. win[c].end)
    <2>1. /\ pc[c] = "extract" /\ rows'[c] = found
          /\ pc'[c] = IF Commits(c, found) THEN "commit" ELSE "return"
          /\ UNCHANGED <<kind, scope, cursor, owner, log, opt, subscribed, base, win>>
      BY <1>9 DEF Extract, Goto, TypeOK, catalog, consumer
    <2>2. ASSUME NEW s \in 1 .. win[c].end, win[c].start <= s, log[s] \in RowsOf(kind, subscribed[c])
          PROVE  s \in found
      <3>1. win[c].start \in Nat
        BY DEF TypeOK
      <3>2. s \in 1 .. head /\ s \in win[c].start .. win[c].end
        BY <1>1, <2>2, <3>1
      <3> QED
        BY <2>2, <3>2 DEF WithRows, HasRows, RowsOf
    <2>3. pc'[c] = "commit" => opt[c].auto \/ found = {}
      BY <2>1 DEF Commits
    <2> HIDE DEF found
    <2> QED
      BY <2>1, <2>2, <2>3 DEF CallInv, Holding
  <1>10. CASE CommitRead(c) /\ ~Return(c)
    <2>1. /\ pc[c] = "commit" /\ pc'[c] = "return"
          /\ UNCHANGED <<kind, scope, owner, log>> /\ UNCHANGED call
      BY <1>10 DEF CommitRead, Goto, TypeOK, catalog
    <2>2. UNCHANGED <<opt, subscribed, base, win, rows>>
      BY <2>1 DEF call
    <2> QED
      BY <2>1, <2>2 DEF CallInv, Holding
  <1>11. CASE Deliver(c) /\ ~Return(c)
    <2>1. /\ pc[c] = "return" /\ pc'[c] = "app" /\ ~opt[c].auto /\ rows[c] # {}
          /\ delivered' = delivered \union rows[c]
          /\ UNCHANGED <<kind, scope, owner, cursor, log>> /\ UNCHANGED call
      BY <1>11 DEF Deliver, Goto, TypeOK, catalog, consumer
    <2>2. UNCHANGED <<opt, subscribed, base, win, rows>>
      BY <2>1 DEF call
    <2> QED
      BY <2>1, <2>2 DEF CallInv, Holding
  <1>12. CASE AdvanceCommit(c) \/ GiveUp(c) \/ AppCommit(c) \/ Fail(c)
    BY <1>2, <1>12 DEF AdvanceCommit, GiveUp, AppCommit, Fail
  <1> QED
    BY <1>2, <1>3, <1>4, <1>5, <1>6, <1>7, <1>8, <1>9, <1>10, <1>11, <1>12 DEF Step

\* Who moves the cursor has the lease and keeps it, and only an acquisition
\* gives the lease to somebody.
LEMMA OwnersOnly ==
  ASSUME TypeOK, NEW c \in Client,
         Step(c) \/ Fail(c) \/ \E listen \in BOOLEAN : BeginCall(c, listen)
  PROVE  /\ UNCHANGED <<head, log, kind, scope, floor>>
         /\ delivered \subseteq delivered' /\ lost \subseteq lost'
         /\ owner' = c \/ (owner' = owner /\ cursor' = cursor)
  <1>1. UNCHANGED <<head, log, kind, scope, floor>>
    BY DEF BeginCall, Step, LoadRow, Scan, AdvanceLease, AdvanceCommit, GiveUp, Wait, Wake,
           LoadSubscriptions, Acquire, ReadWindow, Extract, CommitRead, Deliver, AppCommit, Fail,
           catalog, consumer, history
  <1>2. /\ delivered' = delivered \/ delivered' = delivered \union rows[c]
        /\ lost \subseteq lost'
    BY DEF BeginCall, Step, LoadRow, Scan, AdvanceLease, AdvanceCommit, GiveUp, Wait, Wake,
           LoadSubscriptions, Acquire, ReadWindow, Extract, CommitRead, Deliver, AppCommit, Fail,
           history
  <1>3. owner' = c \/ (owner' = owner /\ cursor' = cursor)
    BY DEF BeginCall, Step, LoadRow, Scan, AdvanceLease, AdvanceCommit, GiveUp, Wait, Wake,
           LoadSubscriptions, Acquire, ReadWindow, Extract, CommitRead, Deliver, AppCommit, Fail,
           consumer, MayCommit
  <1> QED
    BY <1>1, <1>2, <1>3

LEMMA CallsStep ==
  ASSUME TypeOK, ReadyType, BoundInv, CallsInv, SameScope, [Next]_vars, head' \in Nat
  PROVE  CallsInv'
  <1>1. head \in Nat /\ head <= head /\ Nobody \notin Client
    BY ListenAssumption DEF TypeOK, Snapshot
  <1>2. ASSUME head <= head', \A s \in 1 .. head : log'[s] = log[s],
               kind' = kind, scope' = scope, \A c \in Client : Locals(c)' = Locals(c),
               owner' = Nobody \/ (owner' = owner /\ cursor' = cursor /\ delivered' = delivered)
        PROVE  CallsInv'
    BY <1>1, <1>2, CallKept DEF CallsInv
  <1>3. CASE CommitSnapshot
    <2>1. /\ head' = head + 1 /\ UNCHANGED <<kind, scope, owner, cursor, delivered>>
          /\ \A s \in 1 .. head : log'[s] = log[s]
      BY <1>1, <1>3 DEF CommitSnapshot, consumer, history, TypeOK, Snapshot
    <2>2. \A c \in Client : Locals(c)' = Locals(c)
      BY <1>3 DEF CommitSnapshot, Locals
    <2> QED
      BY <1>1, <1>2, <2>1, <2>2
  <1>4. ASSUME NEW c \in Client,
               Step(c) \/ Fail(c) \/ \E listen \in BOOLEAN : BeginCall(c, listen)
        PROVE  CallsInv'
    <2> SUFFICES ASSUME NEW d \in Client PROVE CallInv(d)'
      BY DEF CallsInv
    <2>1. CallInv(c) /\ CallInv(d)
      BY DEF CallsInv
    <2>2. CASE d = c
      BY <1>4, <2>1, <2>2, OwnStep
    <2>3. CASE d # c
      <3>1. Locals(d)' = Locals(d)
        BY <1>4, <2>3, OthersKept
      <3>2. /\ UNCHANGED <<head, log, kind, scope>>
            /\ owner' = d => owner = d /\ cursor' = cursor /\ delivered \subseteq delivered'
        BY <1>4, <2>3, OwnersOnly
      <3> QED
        BY <1>1, <2>1, <3>1, <3>2, CallKept
    <2> QED
      BY <2>2, <2>3
  <1>5. CASE LoseLease \/ (\E s \in Snapshot : Reset(s)) \/ UNCHANGED vars
    <2>1. /\ UNCHANGED <<head, log, kind, scope>>
          /\ owner' = Nobody \/ (owner' = owner /\ cursor' = cursor /\ delivered' = delivered)
      BY <1>5 DEF LoseLease, Reset, catalog, vars
    <2>2. \A c \in Client : Locals(c)' = Locals(c)
      BY <1>5 DEF LoseLease, Reset, call, vars, Locals
    <2> QED
      BY <1>1, <1>2, <2>1, <2>2
  <1>6. ASSUME NEW s \in Snapshot, Recreate(s) PROVE CallsInv'
    <2>1. PICK sub : Scopes = {sub}
      BY <1>6 DEF Recreate, SameScope
    <2>2. scope' = scope
      BY <1>6, <2>1 DEF Recreate, TypeOK
    <2>3. UNCHANGED <<head, log, kind>> /\ owner' = Nobody
      BY <1>6 DEF Recreate, catalog
    <2>4. \A c \in Client : Locals(c)' = Locals(c)
      BY <1>6 DEF Recreate, call, Locals
    <2> QED
      BY <1>1, <1>2, <2>2, <2>3, <2>4
  <1> QED
    BY <1>3, <1>4, <1>5, <1>6 DEF Next

-----------------------------------------------------------------------------
(* Nothing is skipped *)

\* Reads return nothing that waits do not see: the schemas that are dropped
\* and the views are outside of what happens to the consumer's subscription.
WaitsSeeRows == "ddl" \in Kinds => Content \intersect {"dropped_schema", "view"} = {}

\* A snapshot behind the cursor is accounted for.
Kept(s) ==
  \/ s <= floor
  \/ s \in delivered \union lost
  \/ \E c \in Client : pc[c] = "return" /\ opt[c].auto /\ s \in rows[c]

\* What a call has kept stays so after every statement of an application.
LEMMA KeptStep ==
  ASSUME TypeOK, ReadyType, NEW c \in Client,
         Step(c) \/ Fail(c) \/ \E listen \in BOOLEAN : BeginCall(c, listen),
         NEW s \in Snapshot, Kept(s)
  PROVE  Kept(s)'
  <1>1. floor' = floor /\ delivered \subseteq delivered' /\ lost \subseteq lost'
    BY OwnersOnly
  <1>2. CASE s <= floor \/ s \in delivered \union lost
    BY <1>1, <1>2 DEF Kept
  <1>3. ASSUME NEW d \in Client, pc[d] = "return", opt[d].auto, s \in rows[d]
        PROVE  Kept(s)'
    <2>1. CASE d # c
      <3>1. pc'[d] = pc[d] /\ opt'[d] = opt[d] /\ rows'[d] = rows[d]
        BY <2>1, OthersKept DEF Locals
      <3> QED
        BY <1>3, <3>1 DEF Kept
    <2>2. CASE d = c
      <3>1. Deliver(c) \/ Fail(c)
        BY <1>3, <2>2 DEF BeginCall, Step, LoadRow, Scan, AdvanceLease, AdvanceCommit, GiveUp, Wait, Wake,
             LoadSubscriptions, Acquire, ReadWindow, Extract, CommitRead, AppCommit
      <3>2. rows[c] \subseteq delivered' \union lost'
        BY <1>3, <2>2, <3>1 DEF Deliver, Fail
      <3> QED
        BY <1>3, <2>2, <3>2 DEF Kept
    <2> QED
      BY <2>1, <2>2
  <1> QED
    BY <1>2, <1>3 DEF Kept

\* How far a call moves the cursor, everything is accounted for.
LEMMA MoveKept ==
  ASSUME TypeOK, ReadyType, BoundInv, NEW c \in Client, CallInv(c), WaitsSeeRows,
         AdvanceCommit(c) \/ CommitRead(c) \/ AppCommit(c), cursor' # cursor,
         NEW s \in 1 .. cursor', cursor < s, HasRows(log[s], scope)
  PROVE  Kept(s)'
  <1>1. /\ head \in Nat /\ cursor \in Nat /\ inspected[c] \in Nat /\ win[c].end \in Nat
        /\ inspected[c] <= head /\ win[c].end <= head /\ head <= MaxSnapshot
    BY ListenAssumption DEF TypeOK, BoundInv, Snapshot
  <1>2. /\ owner = c /\ pc[c] \in {"advance_commit", "commit", "app"}
        /\ cursor' = IF pc[c] = "advance_commit" THEN inspected[c] ELSE win[c].end
    BY DEF AdvanceCommit, CommitRead, AppCommit, MayCommit
  <1>3. base[c] = cursor /\ subscribed[c] = scope
    BY <1>2 DEF CallInv, Holding
  <1>4. log[s] \in RowsOf(kind, subscribed[c])
    BY <1>3 DEF HasRows, RowsOf
  <1>5. CASE pc[c] = "advance_commit"
    <2>1. /\ kind = "ddl" /\ s \in 1 .. inspected[c]
          /\ log[s] \notin TouchedBy(kind, subscribed[c])
      BY <1>2, <1>3, <1>5 DEF CallInv
    <2>2. log[s] \in {"dropped_schema", "view"}
      BY <1>4, <2>1 DEF RowsOf, TouchedBy
    <2>3. log[s] \in Content \union {"none"} /\ "ddl" \in Kinds
      <3>1. s \in 1 .. MaxSnapshot /\ MaxSnapshot \in Nat
        BY <1>1, <2>1, ListenAssumption
      <3>2. log \in [1 .. MaxSnapshot -> Content \union {"none"}] /\ kind \in Kinds
        BY DEF TypeOK
      <3> QED
        BY <2>1, <3>1, <3>2
    <2> QED
      <3>1. log[s] \in Content
        BY <2>2, <2>3
      <3> QED
        BY <2>2, <2>3, <3>1 DEF WaitsSeeRows
  <1>6. CASE pc[c] # "advance_commit"
    <2>1. s \in 1 .. win[c].end /\ pc[c] \in {"commit", "app"}
      BY <1>2, <1>6
    <2>2. s \in rows[c]
      BY <1>3, <1>4, <2>1 DEF CallInv
    <2>3. CASE pc[c] = "commit"
      <3>1. CommitRead(c)
        BY <2>3 DEF AdvanceCommit, AppCommit
      <3>2. MayCommit(c, win[c].end)
        BY <3>1 DEF CommitRead
      <3>3. pc'[c] = "return" /\ rows' = rows /\ opt' = opt
        BY <3>1, <3>2 DEF CommitRead, Goto, TypeOK, call
      <3>4. opt[c].auto
        BY <2>2, <2>3 DEF CallInv
      <3> QED
        BY <2>2, <3>3, <3>4 DEF Kept
    <2>4. CASE pc[c] = "app"
      <3>1. s \in delivered
        BY <1>2, <2>2, <2>4 DEF CallInv
      <3>2. AppCommit(c)
        BY <2>4 DEF AdvanceCommit, CommitRead
      <3> QED
        BY <3>1, <3>2 DEF AppCommit, history, Kept
    <2> QED
      BY <2>1, <2>3, <2>4
  <1> QED
    BY <1>5, <1>6

LEMMA SkipStep ==
  ASSUME TypeOK, ReadyType, BoundInv, CallsInv, WaitsSeeRows, SameScope, NothingSkipped,
         [Next]_vars, TypeOK'
  PROVE  NothingSkipped'
  <1>1. /\ head \in Nat /\ cursor \in Nat /\ cursor <= head /\ cursor' \in Nat
        /\ head <= MaxSnapshot /\ cursor' <= MaxSnapshot
    BY ListenAssumption DEF TypeOK, BoundInv, Snapshot
  <1>2. \A s \in 1 .. cursor : HasRows(log[s], scope) => Kept(s)
    BY DEF NothingSkipped, WithRows, Kept
  <1>3. ASSUME \A s \in 1 .. cursor' : HasRows(log[s], scope)' => Kept(s)'
        PROVE  NothingSkipped'
    BY <1>3 DEF NothingSkipped, WithRows, Kept
  <1>4. CASE CommitSnapshot
    <2>1. /\ \A s \in 1 .. cursor : log'[s] = log[s]
          /\ UNCHANGED <<kind, scope, cursor, floor, delivered, lost, pc, opt, rows>>
      BY <1>1, <1>4 DEF CommitSnapshot, consumer, history, TypeOK, Snapshot
    <2> QED
      BY <1>2, <1>3, <2>1 DEF HasRows, Kept
  <1>5. ASSUME NEW c \in Client,
               Step(c) \/ Fail(c) \/ \E listen \in BOOLEAN : BeginCall(c, listen)
        PROVE  NothingSkipped'
    <2>1. UNCHANGED <<head, log, kind, scope>>
      BY <1>5, OwnersOnly
    <2>2. cursor' = cursor \/ AdvanceCommit(c) \/ CommitRead(c) \/ AppCommit(c)
      BY <1>5 DEF BeginCall, Step, LoadRow, Scan, AdvanceLease, GiveUp, Wait, Wake,
             LoadSubscriptions, Acquire, ReadWindow, Extract, Deliver, Fail, consumer
    <2>3. ASSUME NEW s \in 1 .. cursor', HasRows(log[s], scope) PROVE Kept(s)'
      <3>1. CASE s <= cursor
        <4>1. s \in Snapshot /\ s \in 1 .. cursor
          BY <1>1, <2>3, <3>1, ListenAssumption DEF Snapshot
        <4>2. Kept(s)
          BY <1>2, <2>3, <4>1
        <4> QED
          BY <1>5, <4>1, <4>2, KeptStep
      <3>2. CASE cursor < s
        <4>1. cursor' # cursor
          BY <1>1, <3>2
        <4>2. CallInv(c)
          BY DEF CallsInv
        <4> QED
          BY <2>2, <2>3, <3>2, <4>1, <4>2, MoveKept
      <3> QED
        BY <1>1, <3>1, <3>2
    <2> QED
      BY <1>3, <2>1, <2>3 DEF HasRows
  <1>6. CASE LoseLease \/ UNCHANGED vars
    <2>1. UNCHANGED <<log, kind, scope, cursor, floor, delivered, lost, pc, opt, rows>>
      BY <1>6 DEF LoseLease, catalog, call, vars
    <2> QED
      BY <1>2, <1>3, <2>1 DEF HasRows, Kept
  <1>7. ASSUME NEW s \in Snapshot, Reset(s) \/ Recreate(s) PROVE NothingSkipped'
    <2>1. floor' = cursor'
      BY <1>7 DEF Reset, Recreate
    <2> QED
      BY <1>1, <1>3, <2>1 DEF Kept
  <1> QED
    BY <1>4, <1>5, <1>6, <1>7 DEF Next

-----------------------------------------------------------------------------
(* Windows reach what calls were woken up for *)

\* The window resolved from the cursor the probe started from holds the
\* snapshot the probe has found.
LEMMA MatchInWindow ==
  ASSUME TypeOK, ReadyType, BoundInv, ReadyInv, NEW c \in Client,
         NEW w \in [base: {base[c]}, head: {head}, start: 1 .. MaxSnapshot + 1, end: Snapshot,
                    boundary: Snapshot \union {NoSnapshot}],
         WindowOf(c, w), HasChanges(w),
         ready[c] # NotReady, w.base = ready[c].snapshot - ready[c].span
  PROVE  w.start <= ready[c].snapshot /\ ready[c].snapshot <= w.end
  <1> DEFINE snapshot == ready[c].snapshot
             span == ready[c].span
  <1>1. /\ head \in Nat /\ base[c] \in Nat /\ base[c] <= head
        /\ MaxSnapshot \in Nat /\ head <= MaxSnapshot
    BY ListenAssumption DEF TypeOK, BoundInv, Snapshot
  <1>2. Limit(c) \in Nat /\ Limit(c) >= 1 /\ Limit(c) >= span
    BY LimitType DEF TypeOK, CallOK
  <1>3. ready[c] \in [snapshot: Snapshot, span: Snapshot \ {0}]
    BY DEF TypeOK
  <1>4. snapshot \in Nat /\ span \in Nat \ {0} /\ snapshot <= head
    BY <1>1, <1>3 DEF ReadyInv, Snapshot
  <1>5. snapshot = base[c] + span
    BY <1>1, <1>4
  <1>6. PICK first, boundary \in Snapshot \union {NoSnapshot} :
          /\ IsFirst(first, IF kind = "ddl" THEN 1 .. head ELSE Touching(head, subscribed[c]), base[c], head)
          /\ IsFirst(boundary, Reshaping(head), base[c], head)
          /\ w = IF kind = "ddl" THEN DdlWindow(base[c], head, first, Limit(c))
                 ELSE DmlWindow(base[c], head, first, boundary, Limit(c))
    BY DEF WindowOf
  <1>7. first \in Nat \union {NoSnapshot} /\ boundary \in Nat \union {NoSnapshot}
    BY <1>1 DEF Snapshot
  <1> HIDE DEF snapshot, span
  <1>8. CASE kind = "ddl"
    <2>1. IsFirst(first, 1 .. head, base[c], head) /\ w = DdlWindow(base[c], head, first, Limit(c))
      BY <1>6, <1>8
    <2>2. snapshot \in 1 .. head /\ base[c] < snapshot
      BY <1>1, <1>4, <1>5
    <2>3. first \in 1 .. head /\ base[c] < first /\ first <= snapshot
      BY <1>1, <1>7, <2>1, <2>2 DEF IsFirst, NoSnapshot
    <2>4. w.start = first /\ w.end = Least(head, first + Limit(c) - 1)
      BY <2>1, <2>3 DEF DdlWindow, NoSnapshot
    <2>5. w.start <= snapshot /\ snapshot <= w.end
      BY <1>1, <1>2, <1>4, <1>5, <2>3, <2>4 DEF Least
    <2> QED
      BY <2>5 DEF snapshot
  <1>9. CASE kind # "ddl"
    <2>1. /\ IsFirst(first, Touching(head, subscribed[c]), base[c], head)
          /\ w = DmlWindow(base[c], head, first, boundary, Limit(c))
      BY <1>6, <1>9
    <2>2. kind = "dml"
      BY <1>9, ListenAssumption DEF TypeOK
    <2>3. /\ log[snapshot] \in TouchedBy(kind, subscribed[c])
          /\ \A s \in 1 .. snapshot :
               snapshot - span < s /\ s < snapshot => log[s] \notin TouchedBy(kind, subscribed[c])
      BY <2>2 DEF ReadyInv, snapshot, span
    <2>4. snapshot \in Touching(head, subscribed[c]) /\ base[c] < snapshot
      BY <1>1, <1>4, <1>5, <2>3, TouchesBy DEF Touching
    <2>5. first \in Touching(head, subscribed[c]) /\ base[c] < first /\ first <= snapshot
      BY <1>4, <2>1, <2>4 DEF IsFirst
    <2>6. first \in 1 .. snapshot /\ log[first] \in TouchedBy(kind, subscribed[c])
      BY <1>1, <1>4, <2>5, TouchesBy DEF Touching
    <2>7. first = snapshot
      BY <1>1, <1>4, <1>5, <2>3, <2>5, <2>6
    <2>8. w.start <= snapshot /\ snapshot <= w.end
      BY <1>1, <1>2, <1>4, <1>6, <1>7, <2>1, <2>4, <2>7
         DEF IsFirst, DmlWindow, HasChanges, Least, NoSnapshot
    <2> QED
      BY <2>8 DEF snapshot
  <1> QED
    BY <1>8, <1>9

LEMMA MatchStep ==
  ASSUME TypeOK, ReadyType, BoundInv, ReadyInv, WindowReachesMatch, [Next]_vars
  PROVE  WindowReachesMatch'
  <1>1. ASSUME \A c \in Client :
                 \/ pc'[c] # "extract"
                 \/ pc'[c] = pc[c] /\ ready'[c] = ready[c] /\ win'[c] = win[c]
        PROVE  WindowReachesMatch'
    BY <1>1 DEF WindowReachesMatch
  <1>2. CASE CommitSnapshot \/ LoseLease \/ (\E s \in Snapshot : Reset(s) \/ Recreate(s)) \/ UNCHANGED vars
    <2>1. UNCHANGED <<pc, ready, win>>
      BY <1>2 DEF CommitSnapshot, LoseLease, Reset, Recreate, call, vars
    <2> QED
      BY <1>1, <2>1
  <1>3. ASSUME NEW c \in Client,
               Step(c) \/ Fail(c) \/ \E listen \in BOOLEAN : BeginCall(c, listen)
        PROVE  WindowReachesMatch'
    <2>1. \A d \in Client \ {c} : pc'[d] = pc[d] /\ ready'[d] = ready[d] /\ win'[d] = win[d]
      BY <1>3, OthersKept DEF Locals
    <2>2. CASE ReadWindow(c) /\ ~Return(c)
      <3>1. PICK w \in [base: {base[c]}, head: {head}, start: 1 .. MaxSnapshot + 1, end: Snapshot,
                        boundary: Snapshot \union {NoSnapshot}] :
              WindowOf(c, w) /\ HasChanges(w) /\ win' = [win EXCEPT ![c] = w]
        BY <2>2 DEF ReadWindow
      <3>2. win'[c] = w /\ ready' = ready
        BY <2>2, <3>1 DEF ReadWindow, TypeOK
      <3>3. /\ ready[c] # NotReady /\ w.base = ready[c].snapshot - ready[c].span
            => w.start <= ready[c].snapshot /\ ready[c].snapshot <= w.end
        BY <3>1, MatchInWindow
      <3> QED
        BY <2>1, <3>2, <3>3 DEF WindowReachesMatch
    <2>3. CASE ~ReadWindow(c) \/ Return(c)
      <3>1. \E label \in PC \ {"extract"} : Goto(c, label)
        BY <1>3, <2>3 DEF BeginCall, Step, LoadRow, Scan, AdvanceLease, AdvanceCommit, GiveUp, Wait, Wake,
               LoadSubscriptions, Acquire, Extract, CommitRead, Deliver, AppCommit, Fail, Return, PC, Waits
      <3>2. pc'[c] # "extract"
        BY <3>1 DEF Goto, TypeOK
      <3> QED
        BY <1>1, <2>1, <3>2
    <2> QED
      BY <2>2, <2>3
  <1> QED
    BY <1>2, <1>3 DEF Next

-----------------------------------------------------------------------------
(* Refinement: the reads of all applications against an at-least-once queue. *)

Due == WithRows(head, scope)
Batches == [c \in Client |-> Batch(c)]

\* The rows of a call are rows of its window, which begins after its cursor.
BatchInv ==
  \A c \in Client :
    /\ pc[c] \in {"extract", "commit", "return", "app"} => base[c] < win[c].start
    /\ pc[c] \notin {"commit", "return", "app"} => rows[c] = {}
    /\ \A s \in rows[c] : /\ win[c].start <= s /\ s <= win[c].end /\ s \in Nat
                          /\ log[s] \in RowsOf(kind, subscribed[c])

LEMMA BatchStep ==
  ASSUME TypeOK, ReadyType, BoundInv, BatchInv, [Next]_vars
  PROVE  BatchInv'
  <1>1. head \in Nat /\ MaxSnapshot \in Nat /\ head <= MaxSnapshot
        /\ \A c \in Client : base[c] \in Nat /\ win[c].end \in Nat /\ win[c].end <= head /\ win[c].start \in Nat
    BY ListenAssumption DEF TypeOK, BoundInv, Snapshot
  <1>2. ASSUME NEW c \in Client, Locals(c)' = Locals(c), kind' = kind,
               \A s \in 1 .. head : log'[s] = log[s]
        PROVE  /\ pc'[c] \in {"extract", "commit", "return", "app"} => base'[c] < win'[c].start
               /\ pc'[c] \notin {"commit", "return", "app"} => rows'[c] = {}
               /\ \A s \in rows'[c] : /\ win'[c].start <= s /\ s <= win'[c].end /\ s \in Nat
                                      /\ log'[s] \in RowsOf(kind', subscribed'[c])
    <2>1. /\ pc'[c] = pc[c] /\ base'[c] = base[c] /\ win'[c] = win[c] /\ rows'[c] = rows[c]
          /\ subscribed'[c] = subscribed[c]
      BY <1>2 DEF Locals
    <2>2. ASSUME NEW s \in rows[c] PROVE log'[s] = log[s]
      <3>1. base[c] < win[c].start
        BY <2>2 DEF BatchInv
      <3>2. s \in 1 .. head
        BY <1>1, <2>2, <3>1 DEF BatchInv
      <3> QED
        BY <1>2, <3>2
    <2> QED
      BY <1>2, <2>1, <2>2 DEF BatchInv
  <1>3. CASE CommitSnapshot \/ LoseLease \/ (\E s \in Snapshot : Reset(s) \/ Recreate(s)) \/ UNCHANGED vars
    <2>1. kind' = kind /\ \A s \in 1 .. head : log'[s] = log[s]
      BY <1>1, <1>3 DEF CommitSnapshot, LoseLease, Reset, Recreate, consumer, catalog, vars, TypeOK
    <2>2. \A c \in Client : Locals(c)' = Locals(c)
      BY <1>3 DEF CommitSnapshot, LoseLease, Reset, Recreate, call, vars, Locals
    <2> QED
      BY <1>2, <2>1, <2>2 DEF BatchInv
  <1>4. ASSUME NEW c \in Client,
               Step(c) \/ Fail(c) \/ \E listen \in BOOLEAN : BeginCall(c, listen)
        PROVE  BatchInv'
    <2>1. UNCHANGED <<head, log, kind, scope>>
      BY <1>4, OwnersOnly
    <2>2. \A d \in Client \ {c} : Locals(d)' = Locals(d)
      BY <1>4, OthersKept
    <2>3. ASSUME /\ pc'[c] \in {"extract", "commit", "return", "app"} => base'[c] < win'[c].start
                 /\ pc'[c] \notin {"commit", "return", "app"} => rows'[c] = {}
                 /\ \A s \in rows'[c] : /\ win'[c].start <= s /\ s <= win'[c].end /\ s \in Nat
                                        /\ log[s] \in RowsOf(kind, subscribed'[c])
          PROVE  BatchInv'
      <3> SUFFICES ASSUME NEW d \in Client
                   PROVE  /\ pc'[d] \in {"extract", "commit", "return", "app"} => base'[d] < win'[d].start
                          /\ pc'[d] \notin {"commit", "return", "app"} => rows'[d] = {}
                          /\ \A s \in rows'[d] : /\ win'[d].start <= s /\ s <= win'[d].end /\ s \in Nat
                                                 /\ log'[s] \in RowsOf(kind', subscribed'[d])
        BY DEF BatchInv
      <3>1. CASE d = c
        BY <2>1, <2>3, <3>1
      <3>2. CASE d # c
        BY <1>2, <2>1, <2>2, <3>2
      <3> QED
        BY <3>1, <3>2
    <2>4. CASE Return(c)
      <3>1. pc'[c] = "idle" /\ rows'[c] = {}
        BY <2>4 DEF Return, Goto, TypeOK
      <3> QED
        BY <2>3, <3>1
    <2>5. ASSUME UNCHANGED rows, rows[c] = {},
                 pc'[c] \notin {"extract", "commit", "return", "app"}
          PROVE  BatchInv'
      BY <2>3, <2>5
    <2>6. CASE \E listen \in BOOLEAN : BeginCall(c, listen)
      <3>1. pc[c] = "idle" /\ rows' = rows /\ pc'[c] \in {"load", "acquire"}
        BY <2>6 DEF BeginCall, Goto, TypeOK
      <3> QED
        BY <2>5, <3>1 DEF BatchInv
    <2>7. CASE /\ LoadRow(c) \/ Scan(c) \/ AdvanceLease(c) \/ Wait(c) \/ Wake(c)
                  \/ LoadSubscriptions(c) \/ Acquire(c)
               /\ ~Return(c)
      <3>1. /\ pc[c] \in {"load", "scan", "advance", "deadline", "wait", "subscribe", "acquire"}
            /\ rows' = rows
            /\ \E label \in {"load", "scan", "subscribe", "acquire", "advance", "advance_commit",
                             "deadline", "wait", "window"} : Goto(c, label)
        BY <2>7 DEF LoadRow, Scan, AdvanceLease, Wait, Wake, LoadSubscriptions, Acquire, call
      <3> QED
        BY <2>5, <3>1 DEF BatchInv, Goto, TypeOK
    <2>8. CASE ReadWindow(c) /\ ~Return(c)
      <3>1. PICK w \in [base: {base[c]}, head: {head}, start: 1 .. MaxSnapshot + 1, end: Snapshot,
                        boundary: Snapshot \union {NoSnapshot}] :
              WindowOf(c, w) /\ HasChanges(w) /\ win' = [win EXCEPT ![c] = w]
        BY <2>8 DEF ReadWindow
      <3>2. pc[c] = "window" /\ win'[c] = w /\ rows' = rows /\ base' = base /\ pc'[c] = "extract"
        BY <2>8, <3>1 DEF ReadWindow, Goto, TypeOK
      <3>3. base[c] < w.start
        BY <3>1, WindowHolds
      <3> QED
        BY <2>3, <3>2, <3>3 DEF BatchInv
    <2>9. CASE Extract(c)
      <3>1. /\ pc[c] = "extract" /\ pc'[c] \in {"commit", "return"}
            /\ UNCHANGED <<subscribed, base, win>>
            /\ rows'[c] = WithRows(head, subscribed[c]) \intersect (win[c].start .. win[c].end)
        BY <2>9 DEF Extract, Goto, TypeOK
      <3>2. base'[c] < win'[c].start
        BY <3>1 DEF BatchInv
      <3>3. ASSUME NEW s \in rows'[c]
            PROVE  /\ win[c].start <= s /\ s <= win[c].end /\ s \in Nat
                   /\ log[s] \in RowsOf(kind, subscribed[c])
        <4>1. s \in win[c].start .. win[c].end /\ s \in 1 .. head /\ HasRows(log[s], subscribed[c])
          BY <3>1, <3>3 DEF WithRows
        <4>2. log[s] \in RowsOf(kind, subscribed[c])
          BY <4>1 DEF HasRows, RowsOf
        <4> QED
          BY <1>1, <4>1, <4>2
      <3>4. log' = log /\ kind' = kind /\ subscribed'[c] = subscribed[c] /\ win'[c] = win[c]
        BY <2>1, <3>1
      <3> QED
        BY <2>3, <3>1, <3>2, <3>3, <3>4
    <2>10. CASE (CommitRead(c) \/ Deliver(c)) /\ ~Return(c)
      <3>1. /\ pc[c] \in {"commit", "return"} /\ pc'[c] \in {"return", "app"}
            /\ UNCHANGED <<subscribed, base, win, rows>>
        BY <2>10 DEF CommitRead, Deliver, Goto, TypeOK, call
      <3> QED
        BY <2>3, <3>1 DEF BatchInv
    <2>11. CASE AdvanceCommit(c) \/ GiveUp(c) \/ AppCommit(c) \/ Fail(c)
      BY <2>4, <2>11 DEF AdvanceCommit, GiveUp, AppCommit, Fail
    <2> QED
      BY <1>4, <2>4, <2>6, <2>7, <2>8, <2>9, <2>10, <2>11 DEF Step
  <1> QED
    BY <1>3, <1>4 DEF Next

\* What a call holds is all there is between the cursor it has read and the
\* end of its window.
LEMMA BatchIs ==
  ASSUME TypeOK, BoundInv, BatchInv, NEW c \in Client, CallInv(c),
         pc[c] \in {"commit", "return", "app"}
  PROVE  rows[c] = Due \intersect (base[c] + 1 .. win[c].end)
  <1>1. /\ head \in Nat /\ base[c] \in Nat /\ win[c].end \in Nat /\ win[c].end <= head
        /\ win[c].start \in Nat /\ subscribed[c] = scope /\ base[c] < win[c].start
    BY ListenAssumption DEF TypeOK, BoundInv, Snapshot, CallInv, BatchInv
  <1>2. Due = {s \in 1 .. head : log[s] \in RowsOf(kind, subscribed[c])}
    BY <1>1 DEF Due, WithRows, HasRows, RowsOf
  <1>3. ASSUME NEW s \in rows[c] PROVE s \in Due \intersect (base[c] + 1 .. win[c].end)
    BY <1>1, <1>2, <1>3 DEF BatchInv
  <1>4. ASSUME NEW s \in Due, s \in base[c] + 1 .. win[c].end PROVE s \in rows[c]
    <2>1. s \in 1 .. win[c].end /\ base[c] < s /\ log[s] \in RowsOf(kind, subscribed[c])
      BY <1>1, <1>2, <1>4
    <2>2. win[c].start <= s
      BY <2>1 DEF CallInv
    <2> QED
      BY <2>1, <2>2 DEF CallInv
  <1> QED
    BY <1>3, <1>4

\* How the batches change with the step of one application.
LEMMA OneBatch ==
  ASSUME TypeOK, ReadyType, NEW c \in Client,
         Step(c) \/ Fail(c) \/ \E listen \in BOOLEAN : BeginCall(c, listen)
  PROVE  /\ Batches' = [Batches EXCEPT ![c] = Batch(c)']
         /\ Return(c) => Batches' = [Batches EXCEPT ![c] = Abstract!NoBatch]
         /\ rows[c] = {} /\ rows'[c] = {} => Batches' = Batches
  <1>1. \A d \in Client \ {c} : Batch(d)' = Batch(d)
    <2> SUFFICES ASSUME NEW d \in Client \ {c} PROVE Batch(d)' = Batch(d)
      OBVIOUS
    <2>1. Locals(d)' = Locals(d)
      BY OthersKept
    <2> QED
      BY <2>1 DEF Locals, Batch
  <1>2. Batches' = [Batches EXCEPT ![c] = Batch(c)']
    BY <1>1 DEF Batches
  <1>3. Return(c) => Batch(c)' = Abstract!NoBatch
    <2>1. Return(c) => rows'[c] = {}
      BY DEF Return, TypeOK
    <2> QED
      BY <2>1 DEF Batch, Abstract!NoBatch
  <1>4. rows[c] = {} /\ rows'[c] = {} => Batch(c)' = Batch(c)
    BY DEF Batch
  <1> QED
    BY <1>2, <1>3, <1>4 DEF Batches

\* The catalog, and what ends the lease, against the queue.
LEMMA RefinementOutside ==
  ASSUME TypeOK, BoundInv, SameScope,
         CommitSnapshot \/ LoseLease \/ (\E s \in Snapshot : Reset(s) \/ Recreate(s)) \/ UNCHANGED vars
  PROVE  [Abstract!Next]_(Abstract!vars)
  <1>1. head \in Nat /\ MaxSnapshot \in Nat /\ head <= MaxSnapshot
    BY ListenAssumption DEF TypeOK, Snapshot
  <1>2. Batches' = Batches
    BY DEF CommitSnapshot, LoseLease, Reset, Recreate, call, vars, Batches, Batch
  <1>3. CASE CommitSnapshot
    <2>1. /\ head' = head + 1 /\ UNCHANGED <<kind, scope, owner, cursor, floor, delivered, lost>>
          /\ \A s \in 1 .. head : log'[s] = log[s]
      BY <1>1, <1>3 DEF CommitSnapshot, consumer, history, TypeOK
    <2>2. \A s \in 1 .. head : HasRows(log[s], scope)' <=> HasRows(log[s], scope)
      BY <2>1 DEF HasRows
    <2>3. Due' = Due \/ Due' = Due \union {head + 1}
      <3>1. Due' = {s \in 1 .. head + 1 : HasRows(log[s], scope)'}
        BY <2>1 DEF Due, WithRows
      <3>2. 1 .. head + 1 = (1 .. head) \union {head + 1}
        BY <1>1
      <3>3. Due = {s \in 1 .. head : HasRows(log[s], scope)'}
        BY <2>2 DEF Due, WithRows
      <3> QED
        BY <3>1, <3>2, <3>3
    <2>4. Abstract!Publish
      BY <1>2, <2>1, <2>3 DEF Abstract!Publish, Due, Batches
    <2> QED
      BY <2>4 DEF Abstract!Next
  <1>4. CASE LoseLease
    <2>1. Due' = Due
      BY <1>4 DEF LoseLease, catalog, Due, WithRows, HasRows
    <2>2. Abstract!Lose
      BY <1>2, <1>4, <2>1 DEF LoseLease, catalog, Abstract!Lose, Due, Batches
    <2> QED
      BY <2>2 DEF Abstract!Next
  <1>5. ASSUME NEW s \in Snapshot, Reset(s) \/ Recreate(s) PROVE Abstract!Next
    <2>1. scope' = scope
      <3>1. CASE Reset(s)
        BY <3>1 DEF Reset
      <3>2. CASE Recreate(s)
        <4>1. PICK sub : Scopes = {sub}
          BY <3>2 DEF Recreate, SameScope
        <4> QED
          BY <3>2, <4>1 DEF Recreate, TypeOK
      <3> QED
        BY <1>5, <3>1, <3>2
    <2>2. /\ UNCHANGED <<head, log, kind>> /\ cursor' = s /\ floor' = s /\ s <= head
          /\ owner' = Nobody /\ delivered' = {} /\ lost' = {}
      BY <1>5 DEF Reset, Recreate, catalog
    <2>3. Due' = Due
      BY <2>1, <2>2 DEF Due, WithRows, HasRows
    <2>4. s \in 0 .. head
      BY <1>1, <2>2 DEF Snapshot
    <2>5. Abstract!Restart
      BY <1>2, <2>2, <2>3, <2>4 DEF Abstract!Restart, Due, Batches
    <2> QED
      BY <2>5 DEF Abstract!Next
  <1>6. CASE UNCHANGED vars
    <2>1. Due' = Due
      BY <1>6 DEF vars, Due, WithRows, HasRows
    <2> QED
      BY <1>2, <1>6, <2>1 DEF vars, Abstract!vars, Due, Batches
  <1> QED
    BY <1>3, <1>4, <1>5, <1>6

\* Every statement of a call is a step of the queue, or changes nothing there.
LEMMA RefinementCall ==
  ASSUME TypeOK, ReadyType, BoundInv, BatchInv, WaitsSeeRows, NEW c \in Client, CallInv(c),
         Step(c) \/ Fail(c) \/ \E listen \in BOOLEAN : BeginCall(c, listen)
  PROVE  [Abstract!Next]_(Abstract!vars)
  <1>1. /\ head \in Nat /\ MaxSnapshot \in Nat /\ head <= MaxSnapshot
        /\ cursor \in Nat /\ base[c] \in Nat /\ base[c] <= head
        /\ inspected[c] \in Nat /\ inspected[c] <= head
        /\ win[c].end \in Nat /\ win[c].end <= head
    BY ListenAssumption DEF TypeOK, BoundInv, Snapshot
  <1>2. /\ UNCHANGED <<head, log, kind, scope, floor>> /\ Due' = Due
    <2>1. UNCHANGED <<head, log, kind, scope, floor>>
      BY OwnersOnly
    <2> QED
      BY <2>1 DEF Due, WithRows, HasRows
  <1>3. /\ Batches' = [Batches EXCEPT ![c] = Batch(c)']
        /\ Return(c) => Batches' = [Batches EXCEPT ![c] = Abstract!NoBatch]
        /\ rows[c] = {} /\ rows'[c] = {} => Batches' = Batches
    BY OneBatch
  <1>4. /\ Batches[c] = Batch(c)
        /\ Return(c) => rows'[c] = {}
    BY DEF Batches, Return, TypeOK
  \* What is left to show of the kinds of steps.
  <1>5. ASSUME Batches' = Batches, UNCHANGED <<owner, cursor, delivered, lost>>
        PROVE  UNCHANGED Abstract!vars
    BY <1>2, <1>5 DEF Abstract!vars, Due, Batches
  <1>6. ASSUME Batches' = Batches, UNCHANGED <<owner, delivered, lost>>,
               owner = c, cursor <= cursor', cursor' \in Nat, cursor' <= head,
               \A s \in Due : ~(cursor < s /\ s <= cursor')
        PROVE  Abstract!Next
    <2>1. Due \intersect (cursor + 1 .. cursor') = {} /\ cursor' \in cursor .. head
      BY <1>1, <1>6 DEF Due, WithRows
    <2>2. Abstract!Skip(c)
      BY <1>2, <1>6, <2>1 DEF Abstract!Skip, Due, Batches
    <2> QED
      BY <2>2 DEF Abstract!Next
  <1>7. ASSUME Return(c), UNCHANGED <<owner, cursor, delivered>>,
               lost' = lost \union IF pc[c] = "return" /\ opt[c].auto THEN rows[c] ELSE {}
        PROVE  [Abstract!Next]_(Abstract!vars)
    <2>1. CASE rows[c] = {}
      <3>1. lost' = lost
        BY <1>7, <2>1
      <3> QED
        BY <1>3, <1>4, <1>5, <1>7, <2>1, <3>1
    <2>2. CASE rows[c] # {}
      <3>1. Batches[c].state = (IF pc[c] = "return" /\ opt[c].auto THEN "passed"
                                ELSE IF pc[c] = "app" THEN "handed" ELSE "read")
            /\ Batches[c].rows = rows[c]
        BY <1>4, <2>2 DEF Batch
      <3>2. Batches[c] # Abstract!NoBatch
        BY <2>2, <3>1 DEF Abstract!NoBatch
      <3>3. lost' = lost \union IF Batches[c].state = "passed" THEN Batches[c].rows ELSE {}
        BY <1>7, <3>1
      <3>4. Abstract!Drop(c)
        BY <1>2, <1>3, <1>7, <3>2, <3>3 DEF Abstract!Drop, Due, Batches
      <3> QED
        BY <3>4 DEF Abstract!Next
    <2> QED
      BY <2>1, <2>2
  <1>8. ASSUME owner \in {Nobody, c}, owner' = c, rows[c] = {}, rows'[c] = {},
               UNCHANGED <<cursor, delivered, lost>>
        PROVE  Abstract!Next
    <2>1. Batches[c] = Abstract!NoBatch
      BY <1>4, <1>8 DEF Batch, Abstract!NoBatch
    <2>2. Abstract!Acquire(c)
      BY <1>2, <1>3, <1>8, <2>1 DEF Abstract!Acquire, Due, Batches
    <2> QED
      BY <2>2 DEF Abstract!Next
  <1>9. CASE \E listen \in BOOLEAN : BeginCall(c, listen)
    <2>1. pc[c] = "idle" /\ UNCHANGED <<owner, cursor, delivered, lost, rows>>
      BY <1>9 DEF BeginCall, consumer, history
    <2> QED
      BY <1>3, <1>5, <2>1 DEF BatchInv
  <1>10. CASE LoadRow(c) \/ Scan(c) \/ GiveUp(c) \/ Wait(c) \/ Wake(c) \/ LoadSubscriptions(c) \/ ReadWindow(c)
    <2>1. /\ pc[c] \in {"load", "scan", "deadline", "wait", "subscribe", "window"}
          /\ UNCHANGED <<owner, cursor, delivered, lost>>
          /\ rows' = rows \/ Return(c)
      BY <1>10 DEF LoadRow, Scan, GiveUp, Wait, Wake, LoadSubscriptions, ReadWindow,
                   consumer, history, call
    <2>2. rows[c] = {}
      BY <2>1 DEF BatchInv
    <2>3. rows'[c] = {}
      BY <1>4, <2>1, <2>2
    <2> QED
      BY <1>3, <1>5, <2>1, <2>2, <2>3
  <1>11. CASE AdvanceLease(c) \/ Acquire(c)
    <2>1. /\ pc[c] \in {"advance", "acquire"}
          /\ UNCHANGED <<cursor, delivered, lost>>
          /\ rows' = rows \/ Return(c)
          /\ owner' = owner \/ (owner \in {Nobody, c} /\ owner' = c)
      BY <1>11 DEF AdvanceLease, Acquire, MayAcquire, history, call
    <2>2. rows[c] = {}
      BY <2>1 DEF BatchInv
    <2>3. rows'[c] = {}
      BY <1>4, <2>1, <2>2
    <2>4. CASE owner' = owner
      BY <1>3, <1>5, <2>1, <2>2, <2>3, <2>4
    <2>5. CASE owner \in {Nobody, c} /\ owner' = c
      BY <1>8, <2>1, <2>2, <2>3, <2>5
    <2> QED
      BY <2>1, <2>4, <2>5
  <1>12. CASE AdvanceCommit(c)
    <2>1. /\ pc[c] = "advance_commit" /\ UNCHANGED <<owner, delivered, lost>> /\ Return(c)
          /\ cursor' = IF MayCommit(c, inspected[c]) THEN inspected[c] ELSE cursor
      BY <1>12 DEF AdvanceCommit, history
    <2>2. rows[c] = {} /\ rows'[c] = {}
      BY <1>4, <2>1 DEF BatchInv
    <2>3. CASE ~MayCommit(c, inspected[c])
      BY <1>3, <1>5, <2>1, <2>2, <2>3
    <2>4. CASE MayCommit(c, inspected[c])
      <3>1. owner = c /\ cursor <= inspected[c] /\ cursor' = inspected[c]
        BY <2>1, <2>4 DEF MayCommit
      <3>2. base[c] = cursor /\ subscribed[c] = scope /\ kind = "ddl"
        BY <2>1, <3>1 DEF CallInv, Holding
      <3>3. ASSUME NEW s \in Due, cursor < s, s <= inspected[c] PROVE FALSE
        <4>1. s \in 1 .. head /\ HasRows(log[s], scope) /\ s \in 1 .. inspected[c]
          BY <1>1, <3>3 DEF Due, WithRows
        <4>2. log[s] \notin TouchedBy(kind, subscribed[c])
          BY <2>1, <3>2, <3>3, <4>1 DEF CallInv
        <4>3. log[s] \in {"dropped_schema", "view"}
          BY <3>2, <4>1, <4>2 DEF HasRows, TouchedBy
        <4>4. log[s] \in Content \union {"none"} /\ "ddl" \in Kinds
          <5>1. s \in 1 .. MaxSnapshot
            BY <1>1, <4>1
          <5> QED
            BY <3>2, <5>1 DEF TypeOK
        <4> QED
          BY <4>3, <4>4 DEF WaitsSeeRows
      <3> QED
        BY <1>1, <1>3, <1>6, <2>1, <2>2, <3>1, <3>3
    <2> QED
      BY <2>3, <2>4
  <1>13. CASE Extract(c)
    <2> DEFINE found == WithRows(head, subscribed[c]) \intersect (win[c].start .. win[c].end)
    <2>1. /\ pc[c] = "extract" /\ rows'[c] = found
          /\ pc'[c] = IF Commits(c, found) THEN "commit" ELSE "return"
          /\ UNCHANGED <<owner, cursor, delivered, lost, opt, base, win>>
      BY <1>13 DEF Extract, Goto, TypeOK, consumer, history
    <2>2. rows[c] = {} /\ base[c] < win[c].start /\ subscribed[c] = scope
      BY <2>1 DEF BatchInv, CallInv
    <2>3. CASE found = {}
      BY <1>3, <1>5, <2>1, <2>2, <2>3
    <2>4. CASE found # {}
      <3>1. found = Due \intersect (base[c] + 1 .. win[c].end)
        <4>1. win[c].start \in Nat
          BY DEF TypeOK
        <4>2. found = Due \intersect (win[c].start .. win[c].end)
          BY <2>2 DEF Due
        <4>3. ASSUME NEW s \in Due, s \in base[c] + 1 .. win[c].end PROVE win[c].start <= s
          <5>1. s \in 1 .. win[c].end /\ base[c] < s /\ log[s] \in RowsOf(kind, subscribed[c])
            BY <1>1, <2>2, <4>3 DEF Due, WithRows, HasRows, RowsOf
          <5> QED
            BY <2>1, <5>1 DEF CallInv
        <4> QED
          BY <1>1, <2>2, <4>1, <4>2, <4>3
      <3>2. ~(pc'[c] = "return" /\ opt'[c].auto) /\ pc'[c] # "app"
        BY <2>1 DEF Commits
      <3> HIDE DEF found
      <3>3. Batch(c)' = [state |-> "read", from |-> base[c], to |-> win[c].end, rows |-> found]
        BY <2>1, <2>4, <3>2 DEF Batch
      <3>4. Batches[c] = Abstract!NoBatch
        BY <1>4, <2>2 DEF Batch, Abstract!NoBatch
      <3>5. base[c] \in 0 .. head /\ win[c].end \in 0 .. head
        BY <1>1
      <3>6. Abstract!Read(c)
        <4>1. \E from, to \in 0 .. head :
                /\ Due \intersect (from + 1 .. to) # {}
                /\ Batches' = [Batches EXCEPT ![c] =
                     [state |-> "read", from |-> from, to |-> to, rows |-> Due \intersect (from + 1 .. to)]]
          BY <1>3, <2>4, <3>1, <3>3, <3>5
        <4> QED
          BY <1>2, <2>1, <3>4, <4>1 DEF Abstract!Read, Due, Batches
      <3> QED
        BY <3>6 DEF Abstract!Next
    <2> QED
      BY <2>3, <2>4
  <1>14. CASE CommitRead(c)
    <2>1. pc[c] = "commit" /\ UNCHANGED <<owner, delivered, lost>>
      BY <1>14 DEF CommitRead, history
    <2>2. CASE ~MayCommit(c, win[c].end)
      <3>1. Return(c) /\ cursor' = cursor
        BY <1>14, <2>2 DEF CommitRead
      <3> QED
        BY <1>7, <2>1, <3>1
    <2>3. CASE MayCommit(c, win[c].end)
      <3>1. /\ owner = c /\ cursor <= win[c].end /\ cursor' = win[c].end
            /\ pc'[c] = "return" /\ UNCHANGED <<opt, base, win, rows>>
        BY <1>14, <2>3 DEF CommitRead, MayCommit, Goto, TypeOK, call
      <3>2. cursor = base[c] /\ rows[c] = Due \intersect (base[c] + 1 .. win[c].end)
        BY <2>1, <3>1, BatchIs DEF CallInv, Holding
      <3>3. CASE rows[c] = {}
        <4>1. \A s \in Due : ~(cursor < s /\ s <= cursor')
          BY <1>1, <3>1, <3>2, <3>3 DEF Due, WithRows
        <4> QED
          BY <1>1, <1>3, <1>6, <2>1, <3>1, <3>3, <4>1
      <3>4. CASE rows[c] # {}
        <4>1. opt[c].auto
          BY <2>1, <3>4 DEF CallInv
        <4>2. Batch(c) = [state |-> "read", from |-> base[c], to |-> win[c].end, rows |-> rows[c]]
          BY <2>1, <3>4 DEF Batch
        <4>3. Batch(c)' = [state |-> "passed", from |-> base[c], to |-> win[c].end, rows |-> rows[c]]
          BY <3>1, <3>4, <4>1 DEF Batch
        <4>4. Batches' = [Batches EXCEPT ![c].state = "passed"]
          <5>1. [Batches[c] EXCEPT !.state = "passed"] = Batch(c)'
            BY <1>4, <4>2, <4>3
          <5> QED
            BY <1>3, <5>1
        <4>5. Batches[c].state = "read" /\ Batches[c].from = cursor /\ Batches[c].to = cursor'
          BY <1>4, <3>1, <3>2, <4>2
        <4>6. Abstract!Pass(c)
          BY <1>2, <2>1, <3>1, <4>4, <4>5 DEF Abstract!Pass, Abstract!Holds, Due, Batches
        <4> QED
          BY <4>6 DEF Abstract!Next
      <3> QED
        BY <3>3, <3>4
    <2> QED
      BY <2>2, <2>3
  <1>15. CASE Deliver(c)
    <2>1. /\ pc[c] = "return" /\ delivered' = delivered \union rows[c]
          /\ UNCHANGED <<owner, cursor, lost>>
      BY <1>15 DEF Deliver, consumer
    <2>2. CASE rows[c] = {}
      <3>1. Return(c) /\ delivered' = delivered
        BY <1>15, <2>1, <2>2 DEF Deliver
      <3> QED
        BY <1>3, <1>4, <1>5, <2>1, <2>2, <3>1
    <2>3. CASE rows[c] # {} /\ opt[c].auto
      <3>1. Return(c)
        BY <1>15, <2>3 DEF Deliver
      <3>2. Batches[c].state = "passed" /\ Batches[c].rows = rows[c]
        BY <1>4, <2>1, <2>3 DEF Batch
      <3>3. Abstract!Hand(c)
        BY <1>2, <1>3, <2>1, <3>1, <3>2 DEF Abstract!Hand, Due, Batches
      <3> QED
        BY <3>3 DEF Abstract!Next
    <2>4. CASE rows[c] # {} /\ ~opt[c].auto
      <3>1. pc'[c] = "app" /\ UNCHANGED <<opt, base, win, rows>>
        BY <1>15, <2>4 DEF Deliver, Goto, TypeOK, call
      <3>2. Batch(c) = [state |-> "read", from |-> base[c], to |-> win[c].end, rows |-> rows[c]]
        BY <2>1, <2>4 DEF Batch
      <3>3. Batch(c)' = [state |-> "handed", from |-> base[c], to |-> win[c].end, rows |-> rows[c]]
        BY <2>4, <3>1 DEF Batch
      <3>4. Batches' = [Batches EXCEPT ![c].state = "handed"]
        <4>1. [Batches[c] EXCEPT !.state = "handed"] = Batch(c)'
          BY <1>4, <3>2, <3>3
        <4> QED
          BY <1>3, <4>1
      <3>5. Batches[c].state = "read" /\ Batches[c].rows = rows[c]
        BY <1>4, <3>2
      <3>6. Abstract!Hand(c)
        BY <1>2, <2>1, <3>4, <3>5 DEF Abstract!Hand, Due, Batches
      <3> QED
        BY <3>6 DEF Abstract!Next
    <2> QED
      BY <2>2, <2>3, <2>4
  <1>16. CASE AppCommit(c)
    <2>1. /\ pc[c] = "app" /\ UNCHANGED <<owner, delivered, lost>> /\ Return(c)
          /\ cursor' = IF MayCommit(c, win[c].end) THEN win[c].end ELSE cursor
      BY <1>16 DEF AppCommit, history
    <2>2. CASE ~MayCommit(c, win[c].end)
      BY <1>7, <2>1, <2>2
    <2>3. CASE MayCommit(c, win[c].end)
      <3>1. owner = c /\ cursor <= win[c].end /\ cursor' = win[c].end
        BY <2>1, <2>3 DEF MayCommit
      <3>2. cursor = base[c] /\ rows[c] = Due \intersect (base[c] + 1 .. win[c].end)
        BY <2>1, <3>1, BatchIs DEF CallInv, Holding
      <3>3. CASE rows[c] = {}
        <4>1. \A s \in Due : ~(cursor < s /\ s <= cursor')
          BY <1>1, <3>1, <3>2, <3>3 DEF Due, WithRows
        <4> QED
          BY <1>1, <1>3, <1>4, <1>6, <2>1, <3>1, <3>3, <4>1
      <3>4. CASE rows[c] # {}
        <4>1. Batches[c].state = "handed" /\ Batches[c].from = cursor /\ Batches[c].to = cursor'
          BY <1>4, <2>1, <3>1, <3>2, <3>4 DEF Batch
        <4>2. Abstract!Acknowledge(c)
          BY <1>2, <1>3, <2>1, <3>1, <4>1 DEF Abstract!Acknowledge, Abstract!Holds, Due, Batches
        <4> QED
          BY <4>2 DEF Abstract!Next
      <3> QED
        BY <3>3, <3>4
    <2> QED
      BY <2>2, <2>3
  <1>17. CASE Fail(c)
    <2>1. /\ Return(c) /\ UNCHANGED <<owner, cursor, delivered>>
          /\ lost' = lost \union IF pc[c] = "return" /\ opt[c].auto THEN rows[c] ELSE {}
      BY <1>17 DEF Fail, consumer
    <2> QED
      BY <1>7, <2>1
  <1> QED
    BY <1>9, <1>10, <1>11, <1>12, <1>13, <1>14, <1>15, <1>16, <1>17 DEF Step

-----------------------------------------------------------------------------
(* The theorems *)

\* The catalog, the row of the consumer and the calls stay in their types.
THEOREM TypeCorrect == Spec => [](TypeOK /\ ReadyType)
  <1>1. Init => TypeOK /\ ReadyType
    BY InitInv
  <1>2. TypeOK /\ ReadyType /\ [Next]_vars => (TypeOK /\ ReadyType)'
    BY TypeStep
  <1> QED
    BY <1>1, <1>2, PTL DEF Spec

\* Nothing points beyond the catalog, and scans found the first match.
LEMMA Grounded == Spec => [](TypeOK /\ ReadyType /\ BoundInv /\ ReadyInv)
  <1> DEFINE GInv == TypeOK /\ ReadyType /\ BoundInv /\ ReadyInv
  <1>1. Init => GInv
    BY InitInv
  <1>2. GInv /\ [Next]_vars => GInv'
    <2> SUFFICES ASSUME GInv, [Next]_vars PROVE GInv'
      OBVIOUS
    <2>1. TypeOK' /\ ReadyType'
      BY TypeStep
    <2>2. head' \in Nat
      BY <2>1, ListenAssumption DEF TypeOK, Snapshot
    <2> QED
      BY <2>1, <2>2, BoundStep, ReadyStep
  <1> QED
    BY <1>1, <1>2, PTL DEF Spec

\* A snapshot that is committed after a call has looked wakes the call up,
\* whatever other calls, faults and notifications there are: listening comes
\* before looking.
THEOREM NoWakeupLost == Spec => []NoLostWakeup
  <1>1. Init => WakeInv
    BY InitInv
  <1>2. TypeOK /\ ReadyType /\ BoundInv /\ ReadyInv /\ WakeInv /\ [Next]_vars => WakeInv'
    BY WakeStep
  <1>3. WakeInv => NoLostWakeup
    BY DEF WakeInv, NoLostWakeup
  <1> QED
    BY <1>1, <1>2, <1>3, Grounded, PTL DEF Spec

\* A call that was woken up gets a window with the snapshot it was woken up
\* for, for windows of any length and any distance of the match.
THEOREM MatchesReached == Spec => []WindowReachesMatch
  <1>1. Init => WindowReachesMatch
    BY DEF Init, WindowReachesMatch
  <1>2. /\ TypeOK /\ ReadyType /\ BoundInv /\ ReadyInv
        /\ WindowReachesMatch /\ [Next]_vars
        => WindowReachesMatch'
    BY MatchStep
  <1> QED
    BY <1>1, <1>2, Grounded, PTL DEF Spec

\* At-least-once: what is behind the cursor was returned, is being returned
\* or died with a call that had committed it for its caller, for any number
\* of applications, commits, resets and lapses of the lease; where reads
\* return nothing that waits do not see.
THEOREM AtLeastOnce ==
  ASSUME WaitsSeeRows, SameScope
  PROVE  Spec => []NothingSkipped
  <1>1. Init => CallsInv /\ NothingSkipped
    BY InitInv
  <1>2. /\ TypeOK /\ ReadyType /\ BoundInv /\ ReadyInv /\ TypeOK'
        /\ CallsInv /\ NothingSkipped /\ [Next]_vars
        => (CallsInv /\ NothingSkipped)'
    <2> SUFFICES ASSUME TypeOK, ReadyType, BoundInv, TypeOK', CallsInv, NothingSkipped, [Next]_vars
                 PROVE  CallsInv' /\ NothingSkipped'
      OBVIOUS
    <2>1. head' \in Nat
      BY ListenAssumption DEF TypeOK, Snapshot
    <2> QED
      BY <2>1, CallsStep, SkipStep
  <1> QED
    BY <1>1, <1>2, Grounded, PTL DEF Spec

\* The reads of all applications, with their probes, windows, leases, commits
\* and failures, implement the at-least-once queue of DeliverySpec, under the
\* assumptions of AtLeastOnce.
THEOREM Refinement ==
  ASSUME WaitsSeeRows, SameScope
  PROVE  Spec => ImplementsDelivery
  <1>1. Init => CallsInv /\ BatchInv /\ Abstract!Init
    <2> SUFFICES ASSUME Init PROVE CallsInv /\ BatchInv /\ Abstract!Init
      OBVIOUS
    <2>1. CallsInv
      BY InitInv
    <2>2. \A c \in Client : pc[c] = "idle" /\ rows[c] = {}
      BY DEF Init
    <2>3. BatchInv
      BY <2>2 DEF BatchInv
    <2>4. [c \in Client |-> Batch(c)] = [c \in Client |-> Abstract!NoBatch]
      BY <2>2 DEF Batch, Abstract!NoBatch
    <2>5. WithRows(head, scope) = {}
      BY DEF Init, WithRows
    <2> QED
      BY <2>1, <2>3, <2>4, <2>5 DEF Init, Abstract!Init
  <1>2. /\ TypeOK /\ ReadyType /\ BoundInv /\ ReadyInv /\ TypeOK'
        /\ CallsInv /\ BatchInv /\ [Next]_vars
        => (CallsInv /\ BatchInv)'
    <2> SUFFICES ASSUME TypeOK, ReadyType, BoundInv, TypeOK', CallsInv, BatchInv, [Next]_vars
                 PROVE  CallsInv' /\ BatchInv'
      OBVIOUS
    <2>1. head' \in Nat
      BY ListenAssumption DEF TypeOK, Snapshot
    <2> QED
      BY <2>1, CallsStep, BatchStep
  <1>3. /\ TypeOK /\ ReadyType /\ BoundInv /\ CallsInv /\ BatchInv /\ [Next]_vars
        => [Abstract!Next]_(Abstract!vars)
    <2> SUFFICES ASSUME TypeOK, ReadyType, BoundInv, CallsInv, BatchInv, [Next]_vars
                 PROVE  [Abstract!Next]_(Abstract!vars)
      OBVIOUS
    <2>1. ASSUME NEW c \in Client,
                 Step(c) \/ Fail(c) \/ \E listen \in BOOLEAN : BeginCall(c, listen)
          PROVE  [Abstract!Next]_(Abstract!vars)
      <3>1. CallInv(c)
        BY DEF CallsInv
      <3> QED
        BY <2>1, <3>1, RefinementCall
    <2>2. CASE CommitSnapshot \/ LoseLease \/ (\E s \in Snapshot : Reset(s) \/ Recreate(s)) \/ UNCHANGED vars
      BY <2>2, RefinementOutside
    <2> QED
      BY <2>1, <2>2 DEF Next
  <1> QED
    BY <1>1, <1>2, <1>3, Grounded, PTL DEF Spec, ImplementsDelivery, Abstract!Spec
=============================================================================
