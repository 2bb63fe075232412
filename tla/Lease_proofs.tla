---------------------------- MODULE Lease_proofs ----------------------------
(***************************************************************************)
(* Proofs about Lease, for any set of clients, any supply of tokens, any   *)
(* lease interval and both acquisition paths.                              *)
(***************************************************************************)
EXTENDS Lease, TLAPS

\* The proofs split [Next]_vars into these cases.
LEMMA NextCases ==
  ASSUME [Next]_vars
  PROVE  \/ \E c \in Client : Call(c)
         \/ \E c \in Client : Step(c)
         \/ \E c \in Client : Fault(c)
         \/ Tick
         \/ UNCHANGED vars
  BY DEF Next

\* A call that ends leaves its local variables well-typed.
LEMMA ReturnTyped ==
  ASSUME TypeOK, NEW c \in Client, Return(c)
  PROVE  /\ pc' \in [Client -> PC]
         /\ seen' \in [Client -> Token \union {NoToken}]
         /\ seenAge' \in [Client -> 0 .. LeaseInterval + 1]
         /\ target' \in [Client -> Token \union {NoToken}]
         /\ hit' \in [Client -> {"none", "miss", "free", "own", "expired"}]
         /\ audited' \in [Client -> BOOLEAN]
  BY LeaseIntervalAssumption DEF TypeOK, PC, Return, Goto

\* Every variable keeps its type: the ages stay within the cap, the local
\* variables of a call stay tokens and labels whatever path it takes.
THEOREM TypeCorrect == Spec => []TypeOK
  <1>1. Init => TypeOK
    BY LeaseIntervalAssumption DEF Init, TypeOK, PC
  <1>2. TypeOK /\ [Next]_vars => TypeOK'
    <2> SUFFICES ASSUME TypeOK, [Next]_vars PROVE TypeOK'
      OBVIOUS
    <2> USE LeaseIntervalAssumption DEF TypeOK, PC, Goto
    <2>1. ASSUME NEW c \in Client, Call(c) PROVE TypeOK'
      BY <2>1 DEF Call, BeginAcquire, HeartbeatCheck, ReleaseCheck, ForceRelease
    <2>2. ASSUME NEW c \in Client, Step(c) PROVE TypeOK'
      <3>1. CASE AcquireFreeOrOwn(c)
        BY <3>1 DEF AcquireFreeOrOwn, Owns
      <3>2. CASE LoadRow(c)
        BY <3>2 DEF LoadRow
      <3>10. CASE AuditTakeover(c) \/ AuditIntent(c)
        BY <3>10 DEF AuditTakeover, AuditIntent
      <3>3. CASE JudgeReturning(c)
        BY <3>3, ReturnTyped DEF JudgeReturning
      <3>4. CASE TakeExpired(c)
        <4>1. CASE owner = seen[c] /\ Expired
          BY <3>4, <4>1 DEF TakeExpired
        <4>2. CASE ~(owner = seen[c] /\ Expired)
          BY <3>4, <4>2, ReturnTyped DEF TakeExpired
        <4> QED
          BY <4>1, <4>2
      <3>5. CASE JudgeLegacy(c)
        BY <3>5, ReturnTyped DEF JudgeLegacy, ForgetRow
      <3>6. CASE UpdateLegacy(c)
        BY <3>6 DEF UpdateLegacy, Found
      <3>7. CASE ReloadLegacy(c) \/ CacheToken(c)
        BY <3>7, ReturnTyped DEF ReloadLegacy, CacheToken
      <3>8. CASE HeartbeatUpdate(c) \/ HeartbeatReload(c)
        BY <3>8, ReturnTyped DEF HeartbeatUpdate, HeartbeatReload
      <3>9. CASE ReleaseUpdate(c) \/ ReleaseReload(c)
        BY <3>9, ReturnTyped DEF ReleaseUpdate, ReleaseReload
      <3> QED
        BY <2>2, <3>1, <3>2, <3>3, <3>4, <3>5, <3>6, <3>7, <3>8, <3>9, <3>10
           DEF Step
    <2>3. ASSUME NEW c \in Client, Fault(c) PROVE TypeOK'
      BY <2>3, ReturnTyped DEF Fault, StatementFails, Disconnect
    <2>4. CASE Tick
      BY <2>4 DEF Tick, Older
    <2>5. CASE UNCHANGED vars
      BY <2>5 DEF vars
    <2> QED
      BY <2>1, <2>2, <2>3, <2>4, <2>5, NextCases
  <1> QED
    BY <1>1, <1>2, PTL DEF Spec

-----------------------------------------------------------------------------
(* The inductive invariant.  Exclusion alone is not inductive: a call may    *)
(* carry a token it has not written yet, and it may be about to write one    *)
(* although its client owns the row under another.                           *)

Known(c) == {cached[c], target[c]}

\* No token is known to two clients, in a cache or in a call.
TokensDisjoint ==
  \A c, d \in Client : \A t \in Token :
    t \in Known(c) /\ t \in Known(d) => c = d

Writing == {"audit", "cache", "audit_before", "update", "reload"}

\* What is true of the local state of one client, whatever the others do.
CallInv(c) ==
  /\ target[c] # NoToken <=> pc[c] \in Writing
  /\ target[c] \notin {NoToken, cached[c]} => ~Owns(c)
  /\ pc[c] = "judge" /\ ~(seen[c] # NoToken /\ seen[c] = cached[c]) => ~Owns(c)
  /\ pc[c] \in {"audit_before", "update"} /\ target[c] # cached[c]
       => owner # target[c]
  /\ pc[c] = "hb_reload" => hit[c] = "own" \/ ~Owns(c)
  /\ pc[c] = "reload" => hit[c] # "miss" \/ owner # target[c]

IInv == TypeOK /\ TokensDisjoint /\ \A c \in Client : CallInv(c)

\* What every step of client c leaves alone: the others' local state, and
\* a row that the others do not own.
Shape(c) ==
  /\ \A d \in Client \ {c} :
       /\ cached'[d] = cached[d] /\ target'[d] = target[d]
       /\ pc'[d] = pc[d] /\ seen'[d] = seen[d] /\ hit'[d] = hit[d]
  /\ owner' \in {owner, NoToken, cached'[c], target'[c]}
  /\ \A t \in {cached'[c], target'[c]} :
       t \in {NoToken, cached[c], target[c]} \/ Fresh(t)

\* A step of that shape keeps tokens apart ...
LEMMA ShapeDisjoint ==
  ASSUME IInv, TypeOK', NEW c \in Client, Shape(c)
  PROVE  TokensDisjoint'
  <1> SUFFICES ASSUME NEW d \in Client, NEW e \in Client, NEW t \in Token,
                      t \in Known(d)', t \in Known(e)'
               PROVE  d = e
    BY DEF TokensDisjoint
  <1>1. t \in Known(d) /\ t \in Known(e) => d = e
    BY DEF IInv, TokensDisjoint
  <1>2. CASE d # c /\ e # c
    BY <1>1, <1>2 DEF Shape, Known
  <1>3. CASE d = c /\ e # c
    BY <1>1, <1>3, NoTokenAssumption DEF Shape, Known, Fresh
  <1>4. CASE d # c /\ e = c
    BY <1>1, <1>4, NoTokenAssumption DEF Shape, Known, Fresh
  <1> QED
    BY <1>2, <1>3, <1>4

\* ... and does not disturb what is true of the other clients.
LEMMA ShapeOthers ==
  ASSUME IInv, TypeOK', TokensDisjoint', NEW c \in Client, Shape(c),
         NEW d \in Client, d # c
  PROVE  CallInv(d)'
  <1>1. /\ cached'[d] = cached[d] /\ target'[d] = target[d]
        /\ pc'[d] = pc[d] /\ seen'[d] = seen[d] /\ hit'[d] = hit[d]
    BY DEF Shape
  <1>2. CallInv(d)
    BY DEF IInv
  <1>3. owner' = owner \/ owner' = NoToken \/ owner' \notin Known(d)'
    <2>1. owner' \in {owner, NoToken} \/ owner' \in Known(c)'
      BY DEF Shape, Known
    <2>2. owner' \in Token \/ owner' = NoToken
      BY DEF TypeOK
    <2> QED
      BY <2>1, <2>2 DEF TokensDisjoint
  <1>4. CASE owner' = owner
    BY <1>1, <1>2, <1>4 DEF CallInv, Owns
  <1>5. CASE owner' = NoToken
    BY <1>1, <1>2, <1>5 DEF CallInv, Owns, Writing
  <1>6. CASE owner' \notin Known(d)'
    BY <1>1, <1>2, <1>6 DEF CallInv, Owns, Known, Writing
  <1> QED
    BY <1>3, <1>4, <1>5, <1>6

\* Every step of a client has that shape and re-establishes what is true of
\* the client's own local state.
LEMMA CallShape ==
  ASSUME IInv, TypeOK', NEW c \in Client, Call(c)
  PROVE  Shape(c) /\ CallInv(c)'
  <1> USE NoTokenAssumption DEF IInv, TypeOK, CallInv, Shape, Goto, Owns, Writing
  <1>1. CASE BeginAcquire(c)
    BY <1>1 DEF BeginAcquire
  <1>2. CASE HeartbeatCheck(c)
    BY <1>2 DEF HeartbeatCheck
  <1>3. CASE ReleaseCheck(c)
    BY <1>3 DEF ReleaseCheck
  <1>4. CASE ForceRelease(c)
    BY <1>4 DEF ForceRelease
  <1> QED
    BY <1>1, <1>2, <1>3, <1>4 DEF Call

LEMMA FaultShape ==
  ASSUME IInv, TypeOK', NEW c \in Client, Fault(c)
  PROVE  Shape(c) /\ CallInv(c)'
  <1> USE NoTokenAssumption
      DEF IInv, TypeOK, CallInv, Shape, Goto, Owns, Writing, Return
  <1>1. CASE StatementFails(c)
    BY <1>1 DEF StatementFails
  <1>2. CASE Disconnect(c)
    BY <1>2 DEF Disconnect
  <1> QED
    BY <1>1, <1>2 DEF Fault

LEMMA StepShape ==
  ASSUME IInv, TypeOK', NEW c \in Client, Step(c)
  PROVE  Shape(c) /\ CallInv(c)'
  <1> USE NoTokenAssumption DEF IInv, TypeOK, CallInv, Shape, Goto, Owns, Writing
  <1>1. CASE AcquireFreeOrOwn(c)
    BY <1>1 DEF AcquireFreeOrOwn, Fresh
  <1>2. CASE LoadRow(c)
    BY <1>2 DEF LoadRow
  <1>3. CASE JudgeReturning(c)
    BY <1>3 DEF JudgeReturning, Return
  <1>4. CASE TakeExpired(c)
    <2>1. CASE owner = seen[c] /\ Expired
      BY <1>4, <2>1 DEF TakeExpired, Fresh
    <2>2. CASE ~(owner = seen[c] /\ Expired)
      BY <1>4, <2>2 DEF TakeExpired, Return
    <2> QED
      BY <2>1, <2>2
  <1>5. CASE AuditTakeover(c)
    BY <1>5 DEF AuditTakeover
  <1>6. CASE JudgeLegacy(c)
    BY <1>6 DEF JudgeLegacy, Return, ForgetRow, Fresh, SeenExpired
  <1>7. CASE AuditIntent(c)
    BY <1>7 DEF AuditIntent
  <1>8. CASE UpdateLegacy(c)
    BY <1>8 DEF UpdateLegacy, Found
  <1>9. CASE ReloadLegacy(c)
    BY <1>9 DEF ReloadLegacy, Return
  <1>10. CASE CacheToken(c)
    BY <1>10 DEF CacheToken, Return
  <1>11. CASE HeartbeatUpdate(c)
    BY <1>11 DEF HeartbeatUpdate
  <1>12. CASE HeartbeatReload(c)
    BY <1>12 DEF HeartbeatReload, Return
  <1>13. CASE ReleaseUpdate(c)
    BY <1>13 DEF ReleaseUpdate
  <1>14. CASE ReleaseReload(c)
    BY <1>14 DEF ReleaseReload, Return
  <1> QED
    BY <1>1, <1>2, <1>3, <1>4, <1>5, <1>6, <1>7, <1>8, <1>9, <1>10, <1>11,
       <1>12, <1>13, <1>14 DEF Step

LEMMA TickInv ==
  ASSUME IInv, Tick
  PROVE  TokensDisjoint' /\ \A c \in Client : CallInv(c)'
  <1>1. UNCHANGED <<owner, cached, pc, seen, target, hit>>
    BY DEF Tick
  <1> QED
    BY <1>1 DEF IInv, TokensDisjoint, Known, CallInv, Owns

LEMMA StutterInv ==
  ASSUME IInv, UNCHANGED vars
  PROVE  TokensDisjoint' /\ \A c \in Client : CallInv(c)'
  BY DEF vars, IInv, TokensDisjoint, Known, CallInv, Owns

LEMMA IInvPreserved == IInv /\ TypeOK' /\ [Next]_vars => IInv'
  <1> SUFFICES ASSUME IInv, TypeOK', [Next]_vars PROVE IInv'
    OBVIOUS
  <1>1. ASSUME NEW c \in Client, Shape(c), CallInv(c)' PROVE IInv'
    <2>1. TokensDisjoint'
      BY <1>1, ShapeDisjoint
    <2>2. ASSUME NEW d \in Client PROVE CallInv(d)'
      BY <1>1, <2>1, ShapeOthers
    <2> QED
      BY <2>1, <2>2 DEF IInv
  <1>2. ASSUME NEW c \in Client, Call(c) \/ Step(c) \/ Fault(c) PROVE IInv'
    BY <1>1, <1>2, CallShape, StepShape, FaultShape
  <1>3. CASE Tick \/ UNCHANGED vars
    BY <1>3, TickInv, StutterInv DEF IInv
  <1> QED
    BY <1>2, <1>3, NextCases

\* The inductive invariant holds of every reachable state.
THEOREM InductiveInvariant == Spec => []IInv
  <1>1. Init => TokensDisjoint /\ \A c \in Client : CallInv(c)
    BY NoTokenAssumption
       DEF Init, TokensDisjoint, CallInv, Known, Owns, Writing
  <1>2. Init /\ TypeOK => IInv
    BY <1>1 DEF IInv
  <1> QED
    BY <1>2, IInvPreserved, TypeCorrect, PTL DEF Spec

\* Two connections never both hold the token in the row.
THEOREM Exclusive == Spec => []AtMostOneHolder
  <1>1. IInv => AtMostOneHolder
    BY DEF IInv, TypeOK, AtMostOneHolder, Holds, TokensDisjoint, Known
  <1> QED
    BY <1>1, InductiveInvariant, PTL

\* Reading the row back tells a heartbeat and a legacy acquisition whether
\* their UPDATE hit it.
THEOREM ReloadReliable == Spec => []ReloadTellsHit
  <1>1. IInv => ReloadTellsHit
    BY DEF IInv, ReloadTellsHit, CallInv
  <1> QED
    BY <1>1, InductiveInvariant, PTL

-----------------------------------------------------------------------------
(* The audit trail of the returning path.                                    *)

\* How far a call's audit row and its UPDATE have got at each statement.
AuditInv ==
  \A c \in Client :
    /\ pc[c] \notin {"audit_before", "update", "reload"}
    /\ pc[c] \in {"idle", "try", "load", "judge", "take", "audit"} => ~audited[c]
    /\ pc[c] = "audit" => hit[c] = "expired"
    /\ pc[c] = "cache" => (audited[c] <=> hit[c] = "expired")

LEMMA AuditInvPreserved ==
  Backend = "returning" /\ TypeOK /\ AuditInv /\ [Next]_vars => AuditInv'
  <1> SUFFICES ASSUME Backend = "returning", TypeOK, AuditInv, [Next]_vars
               PROVE  AuditInv'
    OBVIOUS
  <1> USE DEF TypeOK, AuditInv, Goto
  <1>1. ASSUME NEW c \in Client, Call(c) PROVE AuditInv'
    BY <1>1 DEF Call, BeginAcquire, HeartbeatCheck, ReleaseCheck, ForceRelease
  <1>2. ASSUME NEW c \in Client, Fault(c) PROVE AuditInv'
    BY <1>2 DEF Fault, StatementFails, Disconnect, Return
  <1>3. ASSUME NEW c \in Client, Step(c) PROVE AuditInv'
    <2>1. CASE AcquireFreeOrOwn(c)
      BY <2>1 DEF AcquireFreeOrOwn
    <2>2. CASE LoadRow(c)
      BY <2>2 DEF LoadRow
    <2>3. CASE JudgeReturning(c)
      BY <2>3 DEF JudgeReturning, Return
    <2>4. CASE TakeExpired(c)
      <3>1. CASE owner = seen[c] /\ Expired
        BY <2>4, <3>1 DEF TakeExpired
      <3>2. CASE ~(owner = seen[c] /\ Expired)
        BY <2>4, <3>2 DEF TakeExpired, Return
      <3> QED
        BY <3>1, <3>2
    <2>5. CASE AuditTakeover(c)
      BY <2>5 DEF AuditTakeover
    <2>6. CASE JudgeLegacy(c) \/ AuditIntent(c) \/ UpdateLegacy(c) \/ ReloadLegacy(c)
      BY <2>6 DEF JudgeLegacy, AuditIntent, UpdateLegacy, ReloadLegacy
    <2>7. CASE CacheToken(c)
      BY <2>7 DEF CacheToken, Return
    <2>8. CASE HeartbeatUpdate(c)
      BY <2>8 DEF HeartbeatUpdate
    <2>9. CASE HeartbeatReload(c)
      BY <2>9 DEF HeartbeatReload, Return
    <2>10. CASE ReleaseUpdate(c)
      BY <2>10 DEF ReleaseUpdate
    <2>11. CASE ReleaseReload(c)
      BY <2>11 DEF ReleaseReload, Return
    <2> QED
      BY <1>3, <2>1, <2>2, <2>3, <2>4, <2>5, <2>6, <2>7, <2>8, <2>9, <2>10,
         <2>11 DEF Step
  <1>4. CASE Tick \/ UNCHANGED vars
    BY <1>4 DEF Tick, vars
  <1> QED
    BY <1>1, <1>2, <1>3, <1>4, NextCases

\* Where UPDATE ... RETURNING is supported, a call that returns a lease has
\* written a lease_force_acquire row if and only if it took the lease over.
THEOREM AuditExact == Backend = "returning" => (Spec => []AuditMatchesTakeover)
  <1> SUFFICES ASSUME Backend = "returning" PROVE Spec => []AuditMatchesTakeover
    OBVIOUS
  <1>1. Init => AuditInv
    BY DEF Init, AuditInv
  <1>2. TypeOK /\ AuditInv /\ [Next]_vars => AuditInv'
    BY AuditInvPreserved
  <1>3. AuditInv => AuditMatchesTakeover
    BY DEF AuditInv, AuditMatchesTakeover
  <1> QED
    BY <1>1, <1>2, <1>3, TypeCorrect, PTL DEF Spec

-----------------------------------------------------------------------------
(* Refinement: both paths implement LeaseSpec.                               *)

\* What Holder is, without the CHOOSE.
LEMMA HolderValue ==
  ASSUME AtMostOneHolder
  PROVE  /\ owner = NoToken => Holder = NoToken
         /\ \A c \in Client : Holds(c) => Holder = c
         /\ Orphaned => Holder = "orphan"
         /\ owner # NoToken => Holder # NoToken
  BY ClientAssumption DEF AtMostOneHolder, Holder, Holds, Orphaned

LEMMA HolderValueNext ==
  ASSUME AtMostOneHolder'
  PROVE  /\ owner' = NoToken => Holder' = NoToken
         /\ \A c \in Client : Holds(c)' => Holder' = c
         /\ Orphaned' => Holder' = "orphan"
         /\ owner' # NoToken => Holder' # NoToken
  BY ClientAssumption DEF AtMostOneHolder, Holder, Holds, Orphaned

\* A step that leaves the row alone, and in which no client but c can come
\* to hold or to lose its token, is invisible, or c abandons the lease.
LEMMA RowUntouched ==
  ASSUME AtMostOneHolder, AtMostOneHolder', NEW c \in Client,
         UNCHANGED <<owner, age>>,
         \A d \in Client : Holds(d)' => Holds(d),
         \A d \in Client \ {c} : Holds(d) => Holds(d)'
  PROVE  Abstract!Abandon(c) \/ UNCHANGED Abstract!vars
  <1>1. Live' = Live
    BY DEF Live
  <1>2. CASE owner = NoToken
    BY <1>1, <1>2, HolderValue, HolderValueNext DEF Abstract!vars
  <1>3. ASSUME NEW d \in Client, Holds(d)' PROVE UNCHANGED Abstract!vars
    BY <1>1, <1>3, HolderValue, HolderValueNext DEF Abstract!vars
  <1>4. CASE Orphaned /\ Orphaned'
    BY <1>1, <1>4, HolderValue, HolderValueNext DEF Abstract!vars
  <1>5. CASE Holds(c) /\ Orphaned'
    BY <1>1, <1>5, HolderValue, HolderValueNext DEF Abstract!Abandon
  <1>6. owner # NoToken => Orphaned' \/ \E d \in Client : Holds(d)'
    BY DEF Orphaned
  <1>7. owner # NoToken => Orphaned \/ \E d \in Client : Holds(d)
    BY DEF Orphaned
  <1>8. Orphaned' => \A d \in Client : ~Holds(d)'
    BY DEF Orphaned
  <1> QED
    BY <1>2, <1>3, <1>4, <1>5, <1>6, <1>7, <1>8

\* The statements that grant or renew a lease to c.
LEMMA Granted ==
  ASSUME TypeOK, AtMostOneHolder, AtMostOneHolder', NEW c \in Client,
         owner = NoToken \/ Expired \/ Holds(c), Holds(c)', age' = 0
  PROVE  Abstract!Acquire(c) \/ Abstract!Renew(c)
  <1>1. Holder' = c /\ Live' = TRUE
    BY HolderValueNext, LeaseIntervalAssumption DEF Holds, Live
  <1>2. owner = NoToken => Holder = NoToken
    BY HolderValue
  <1>3. Expired => ~Live
    BY LeaseIntervalAssumption DEF TypeOK, Expired, Live
  <1>4. Holds(c) => Holder = c
    BY HolderValue
  <1> QED
    BY <1>1, <1>2, <1>3, <1>4 DEF Abstract!Acquire, Abstract!Renew

LEMMA Freed ==
  ASSUME AtMostOneHolder', owner' = NoToken
  PROVE  Abstract!Release
  BY HolderValueNext DEF Abstract!Release, Live

LEMMA CallRefines ==
  ASSUME IInv, AtMostOneHolder, AtMostOneHolder', NEW c \in Client, Call(c)
  PROVE  [Abstract!Next]_(Abstract!vars)
  <1>1. CASE ForceRelease(c)
    BY <1>1, Freed DEF ForceRelease, Abstract!Next
  <1>2. CASE BeginAcquire(c) \/ HeartbeatCheck(c) \/ ReleaseCheck(c)
    <2>1. UNCHANGED <<owner, age, cached, target>>
      BY <1>2 DEF BeginAcquire, HeartbeatCheck, ReleaseCheck
    <2> QED
      BY <2>1, RowUntouched DEF Holds, Abstract!Next
  <1> QED
    BY <1>1, <1>2 DEF Call

\* A call that ends leaves the others alone and c with no more tokens.
LEMMA ReturnRefines ==
  ASSUME IInv, AtMostOneHolder, AtMostOneHolder', NEW c \in Client, Return(c),
         UNCHANGED <<owner, age>>,
         \A d \in Client \ {c} : cached'[d] = cached[d],
         cached'[c] \in {NoToken, cached[c], target[c]}
  PROVE  [Abstract!Next]_(Abstract!vars)
  <1>1. target' = [target EXCEPT ![c] = NoToken]
    BY DEF Return
  <1>2. \A d \in Client : Holds(d)' => Holds(d)
    BY <1>1 DEF IInv, TypeOK, Holds
  <1>3. \A d \in Client \ {c} : Holds(d) => Holds(d)'
    BY <1>1 DEF IInv, TypeOK, Holds
  <1> QED
    BY <1>2, <1>3, RowUntouched DEF Abstract!Next

LEMMA FaultRefines ==
  ASSUME IInv, AtMostOneHolder, AtMostOneHolder', NEW c \in Client, Fault(c)
  PROVE  [Abstract!Next]_(Abstract!vars)
  <1>1. CASE StatementFails(c)
    BY <1>1, ReturnRefines DEF StatementFails
  <1>2. CASE Disconnect(c)
    BY <1>2, ReturnRefines DEF Disconnect, IInv, TypeOK
  <1> QED
    BY <1>1, <1>2 DEF Fault

LEMMA TickRefines ==
  ASSUME IInv, AtMostOneHolder, AtMostOneHolder', Tick
  PROVE  [Abstract!Next]_(Abstract!vars)
  <1>1. UNCHANGED <<owner, cached, target>>
    BY DEF Tick
  <1>2. Holder' = Holder
    BY <1>1, HolderValue, HolderValueNext DEF Holds, Orphaned
  <1>3. age' >= age
    BY LeaseIntervalAssumption DEF Tick, Older, IInv, TypeOK
  <1>4. Live' => Live
    BY <1>1, <1>3, LeaseIntervalAssumption DEF Tick, Older, Live, IInv, TypeOK
  <1>5. Live \in BOOLEAN /\ Live' \in BOOLEAN
    BY DEF Live
  <1>6. CASE Live' = Live
    BY <1>2, <1>6 DEF Abstract!vars
  <1>7. CASE Live' # Live
    <2>1. Live' = FALSE /\ Live
      BY <1>4, <1>5, <1>7
    <2>2. Holder # NoToken
      BY <2>1, HolderValue DEF Live
    <2> QED
      BY <1>2, <2>1, <2>2 DEF Abstract!Next, Abstract!Lapse
  <1> QED
    BY <1>6, <1>7

LEMMA StepRefines ==
  ASSUME IInv, AtMostOneHolder, AtMostOneHolder', NEW c \in Client, Step(c)
  PROVE  [Abstract!Next]_(Abstract!vars)
  <1> TypeOK /\ CallInv(c)
    BY DEF IInv
  \* Statements that touch neither the row nor any token.
  <1>1. ASSUME UNCHANGED <<owner, age, cached, target>>
        PROVE  [Abstract!Next]_(Abstract!vars)
    BY <1>1, RowUntouched DEF Holds, Abstract!Next
  <1>2. ASSUME owner = NoToken \/ Expired \/ Holds(c), Holds(c)', age' = 0
        PROVE  [Abstract!Next]_(Abstract!vars)
    BY <1>2, Granted DEF Abstract!Next
  <1>3. CASE AcquireFreeOrOwn(c)
    <2>1. CASE owner = NoToken
      BY <1>2, <1>3, <2>1, NoTokenAssumption DEF AcquireFreeOrOwn, Holds, TypeOK, Owns
    <2>2. CASE Owns(c)
      BY <1>2, <1>3, <2>2 DEF AcquireFreeOrOwn, Holds, TypeOK, Owns
    <2>3. CASE owner # NoToken /\ ~Owns(c)
      BY <1>1, <1>3, <2>3 DEF AcquireFreeOrOwn
    <2> QED
      BY <2>1, <2>2, <2>3
  <1>4. CASE LoadRow(c) \/ AuditTakeover(c) \/ AuditIntent(c)
    BY <1>1, <1>4 DEF LoadRow, AuditTakeover, AuditIntent
  <1>5. CASE JudgeReturning(c)
    BY <1>1, <1>5, ReturnRefines DEF JudgeReturning
  <1>6. CASE TakeExpired(c)
    <2>1. CASE owner = seen[c] /\ Expired
      BY <1>2, <1>6, <2>1, NoTokenAssumption DEF TakeExpired, Holds, TypeOK
    <2>2. CASE ~(owner = seen[c] /\ Expired)
      BY <1>6, <2>2, ReturnRefines DEF TakeExpired
    <2> QED
      BY <2>1, <2>2
  <1>7. CASE JudgeLegacy(c)
    <2>1. CASE Return(c)
      BY <1>7, <2>1, ReturnRefines DEF JudgeLegacy
    <2>2. CASE ~Return(c)
      <3>1. /\ UNCHANGED <<owner, age, cached>>
            /\ \A d \in Client \ {c} : target'[d] = target[d]
            /\ target[c] = NoToken
            /\ Fresh(target'[c]) \/ target'[c] = cached[c]
        BY <1>7, <2>2 DEF JudgeLegacy, TypeOK, CallInv, Writing
      <3>2. \A d \in Client : Holds(d)' <=> Holds(d)
        BY <3>1 DEF Holds, Fresh
      <3> QED
        BY <3>1, <3>2, RowUntouched DEF Abstract!Next
    <2> QED
      BY <2>1, <2>2
  <1>8. CASE UpdateLegacy(c)
    <2>1. CASE owner = NoToken \/ Expired \/ Owns(c)
      <3>1. owner' = target[c] /\ target' = target /\ target[c] # NoToken /\ age' = 0
        BY <1>8, <2>1 DEF UpdateLegacy, CallInv, Writing
      <3> QED
        BY <1>2, <2>1, <3>1 DEF Holds, Owns
    <2>2. CASE ~(owner = NoToken \/ Expired \/ Owns(c))
      BY <1>1, <1>8, <2>2 DEF UpdateLegacy
    <2> QED
      BY <2>1, <2>2
  <1>9. CASE ReloadLegacy(c)
    BY <1>1, <1>9, ReturnRefines DEF ReloadLegacy
  <1>10. CASE CacheToken(c)
    BY <1>10, ReturnRefines DEF CacheToken, TypeOK
  <1>11. CASE HeartbeatUpdate(c)
    <2>1. CASE Owns(c)
      BY <1>2, <1>11, <2>1 DEF HeartbeatUpdate, Holds, Owns
    <2>2. CASE ~Owns(c)
      BY <1>1, <1>11, <2>2 DEF HeartbeatUpdate
    <2> QED
      BY <2>1, <2>2
  <1>12. CASE HeartbeatReload(c)
    BY <1>12, ReturnRefines DEF HeartbeatReload
  <1>13. CASE ReleaseUpdate(c)
    BY <1>1, <1>13, Freed DEF ReleaseUpdate, Abstract!Next
  <1>14. CASE ReleaseReload(c)
    BY <1>14, ReturnRefines DEF ReleaseReload, TypeOK
  <1> QED
    BY <1>3, <1>4, <1>5, <1>6, <1>7, <1>8, <1>9, <1>10, <1>11, <1>12, <1>13,
       <1>14 DEF Step

\* Every behaviour of the statements is a behaviour of the abstract lease: a
\* live lease changes hands only through its holder or an operator.
THEOREM Refinement == Spec => ImplementsLeaseSpec
  <1>1. Init => Abstract!Init
    BY DEF Init, Abstract!Init, Holder, Live
  <1>2. /\ IInv /\ IInv' /\ AtMostOneHolder /\ AtMostOneHolder' /\ [Next]_vars
        => [Abstract!Next]_(Abstract!vars)
    <2> SUFFICES ASSUME IInv, IInv', AtMostOneHolder, AtMostOneHolder', [Next]_vars
                 PROVE  [Abstract!Next]_(Abstract!vars)
      OBVIOUS
    <2>1. CASE UNCHANGED vars
      <3>1. UNCHANGED <<owner, age, cached, target>>
        BY <2>1 DEF vars
      <3>2. Holder' = Holder
        BY <3>1, HolderValue, HolderValueNext DEF Holds, Orphaned
      <3> QED
        BY <3>1, <3>2 DEF Abstract!vars, Live
    <2> QED
      BY <2>1, CallRefines, StepRefines, FaultRefines, TickRefines, NextCases
  <1> QED
    BY <1>1, <1>2, InductiveInvariant, Exclusive, PTL
       DEF Spec, ImplementsLeaseSpec, Abstract!Spec
=============================================================================
