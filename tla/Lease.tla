------------------------------- MODULE Lease -------------------------------
(***************************************************************************)
(* The owner-token lease of one consumer row (src/src/consumer.cpp).       *)
(*                                                                         *)
(* The row of __ducklake_cdc_consumers is shared by every client; each     *)
(* client remembers the token it was last granted in TOKEN_CACHE.  Every   *)
(* SQL statement is one atomic action here; a call of the API is a         *)
(* sequence of them and other clients run between any two.  A statement    *)
(* may fail and end its call, and a client may disconnect in mid-call.     *)
(*                                                                         *)
(* Two acquisition paths exist: backends with UPDATE ... RETURNING         *)
(* ("returning") and the others ("legacy").                                *)
(***************************************************************************)
EXTENDS Integers

CONSTANTS
  Client,         \* connections that call the API for this consumer
  Token,          \* the UUIDs that can be generated
  NoToken,        \* NULL in the row, the empty string in the cache
  LeaseInterval,  \* lease_interval_seconds
  Backend         \* which acquisition path the state backend takes

ASSUME NoTokenAssumption == NoToken \notin Token
\* Clients are told apart from the two marks of a row without a client.
ASSUME ClientAssumption == /\ {NoToken, "orphan"} \cap Client = {}
                           /\ NoToken # "orphan"
ASSUME LeaseIntervalAssumption == LeaseInterval \in Nat \ {0}
ASSUME BackendAssumption == Backend \in {"returning", "legacy"}

VARIABLES
  owner,     \* owner_token of the row
  age,       \* now() - owner_heartbeat_at, capped just above LeaseInterval
  cached,    \* cached[c]: TOKEN_CACHE entry of c's connection
  pc,        \* pc[c]: the statement c's call runs next
  seen,      \* seen[c]: owner_token in the row c loaded
  seenAge,   \* seenAge[c]: age of the heartbeat in the row c loaded
  target,    \* target[c]: the token c's call will own, once it has one
  hit,       \* hit[c]: what the last UPDATE of c's call found in the row
  audited    \* audited[c]: c's call wrote a lease_force_acquire audit row

vars == <<owner, age, cached, pc, seen, seenAge, target, hit, audited>>

PC == {"idle", "try", "load", "judge", "take", "audit", "cache",
       "audit_before", "update", "reload",
       "hb_update", "hb_reload", "rel_update", "rel_reload"}

TypeOK ==
  /\ owner \in Token \union {NoToken}
  /\ age \in 0 .. LeaseInterval + 1
  /\ cached \in [Client -> Token \union {NoToken}]
  /\ pc \in [Client -> PC]
  /\ seen \in [Client -> Token \union {NoToken}]
  /\ seenAge \in [Client -> 0 .. LeaseInterval + 1]
  /\ target \in [Client -> Token \union {NoToken}]
  /\ hit \in [Client -> {"none", "miss", "free", "own", "expired"}]
  /\ audited \in [Client -> BOOLEAN]

Init ==
  /\ owner = NoToken
  /\ age = 0
  /\ cached = [c \in Client |-> NoToken]
  /\ pc = [c \in Client |-> "idle"]
  /\ seen = [c \in Client |-> NoToken]
  /\ seenAge = [c \in Client |-> 0]
  /\ target = [c \in Client |-> NoToken]
  /\ hit = [c \in Client |-> "none"]
  /\ audited = [c \in Client |-> FALSE]

-----------------------------------------------------------------------------
(* Helpers *)

\* Mutant of Expired: a lease expires one instant early.
ExpiredEarly == owner # NoToken /\ age >= LeaseInterval

Expired == owner # NoToken /\ age > LeaseInterval

\* c's cached token is the one in the row.
Owns(c) == owner # NoToken /\ owner = cached[c]

\* Mutant of Fresh: tokens are unique only against the row.
UnlikeOwner(t) == t # owner

\* uuid() never returns a token that is still around somewhere.
Fresh(t) == /\ t # owner
            /\ \A c \in Client : t \notin {cached[c], target[c], seen[c]}

\* The class of row an UPDATE by c finds.
Found(c) == IF owner = NoToken THEN "free"
            ELSE IF owner = cached[c] THEN "own" ELSE "expired"

Goto(c, label) == pc' = [pc EXCEPT ![c] = label]

\* The call of c ends, by returning or by throwing (CDC_BUSY or an error of
\* the database); its local variables are gone.
Return(c) ==
  /\ Goto(c, "idle")
  /\ seen' = [seen EXCEPT ![c] = NoToken]
  /\ seenAge' = [seenAge EXCEPT ![c] = 0]
  /\ target' = [target EXCEPT ![c] = NoToken]
  /\ hit' = [hit EXCEPT ![c] = "none"]
  /\ audited' = [audited EXCEPT ![c] = FALSE]

-----------------------------------------------------------------------------
(* Acquiring: cdc_window, the listen functions and the DDL cursor advance *)

\* TryUseFreshCachedLease: a heartbeat younger than a quarter of the lease
\* is not renewed; such a call goes on with the lease it has.
HasFreshLease(c) == Owns(c) /\ 4 * age < LeaseInterval

BeginAcquire(c) ==
  /\ pc[c] = "idle"
  /\ ~HasFreshLease(c)
  /\ Goto(c, IF Backend = "returning" THEN "try" ELSE "load")
  /\ UNCHANGED <<owner, age, cached, seen, seenAge, target, hit, audited>>

\* Returning path, first UPDATE: a free row gets a new token, the caller's
\* own row keeps its token (expired or not); other rows do not match.
AcquireFreeOrOwn(c) ==
  /\ pc[c] = "try"
  /\ \/ /\ owner = NoToken
        /\ \E t \in Token : /\ Fresh(t)
                            /\ owner' = t
                            /\ target' = [target EXCEPT ![c] = t]
        /\ age' = 0
        /\ hit' = [hit EXCEPT ![c] = "free"]
        /\ Goto(c, "cache")
     \/ /\ Owns(c)
        /\ target' = [target EXCEPT ![c] = owner]
        /\ age' = 0
        /\ hit' = [hit EXCEPT ![c] = "own"]
        /\ Goto(c, "cache")
        /\ UNCHANGED owner
     \/ /\ owner # NoToken /\ ~Owns(c)
        /\ hit' = [hit EXCEPT ![c] = "miss"]
        /\ Goto(c, "load")
        /\ UNCHANGED <<owner, age, target>>
  /\ UNCHANGED <<cached, seen, seenAge, audited>>

\* Both paths: LoadConsumerOrThrow.
LoadRow(c) ==
  /\ pc[c] = "load"
  /\ seen' = [seen EXCEPT ![c] = owner]
  /\ seenAge' = [seenAge EXCEPT ![c] = age]
  /\ Goto(c, "judge")
  /\ UNCHANGED <<owner, age, cached, target, hit, audited>>

\* Mutant of SeenExpired: only an own lease counts as expired.
OwnSeenExpired(c) == seen[c] # NoToken /\ seen[c] = cached[c] /\ seenAge[c] > LeaseInterval

\* LeaseExpired on the loaded row, against the clock of a later moment.
SeenExpired(c) == seen[c] # NoToken /\ seenAge[c] > LeaseInterval

\* Returning path: only an expired row is worth the takeover UPDATE.  A row
\* that was freed since the first UPDATE reads as "not expired".
JudgeReturning(c) ==
  /\ Backend = "returning"
  /\ pc[c] = "judge"
  /\ \/ /\ SeenExpired(c)
        /\ Goto(c, "take")
        /\ seenAge' = [seenAge EXCEPT ![c] = 0]
        /\ UNCHANGED <<seen, target, hit, audited>>
     \/ /\ ~SeenExpired(c)
        /\ Return(c)
  /\ UNCHANGED <<owner, age, cached>>

\* Second UPDATE: the row must still hold the token that was judged and
\* still be expired.
TakeExpired(c) ==
  /\ pc[c] = "take"
  /\ \/ /\ owner = seen[c] /\ Expired
        /\ \E t \in Token : /\ Fresh(t)
                            /\ owner' = t
                            /\ target' = [target EXCEPT ![c] = t]
        /\ age' = 0
        /\ hit' = [hit EXCEPT ![c] = "expired"]
        /\ Goto(c, "audit")
        /\ seen' = [seen EXCEPT ![c] = NoToken]
        /\ UNCHANGED <<seenAge, audited>>
     \/ /\ ~(owner = seen[c] /\ Expired)
        /\ Return(c)
        /\ UNCHANGED <<owner, age>>
  /\ UNCHANGED cached

\* Mutant of AuditTakeover: the audit row is forgotten.
TakeoverUnaudited(c) ==
  /\ pc[c] = "audit"
  /\ Goto(c, "cache")
  /\ UNCHANGED <<owner, age, cached, seen, seenAge, target, hit, audited>>

\* InsertAuditRow('lease_force_acquire') after the takeover.
AuditTakeover(c) ==
  /\ pc[c] = "audit"
  /\ audited' = [audited EXCEPT ![c] = TRUE]
  /\ Goto(c, "cache")
  /\ UNCHANGED <<owner, age, cached, seen, seenAge, target, hit>>

ForgetRow(c) ==
  /\ seen' = [seen EXCEPT ![c] = NoToken]
  /\ seenAge' = [seenAge EXCEPT ![c] = 0]
  /\ UNCHANGED <<hit, audited>>

\* Legacy path: decide from the loaded row which token to write, and whether
\* this is going to be a takeover.
JudgeLegacy(c) ==
  LET owns == seen[c] # NoToken /\ seen[c] = cached[c]
      takeover == SeenExpired(c) /\ ~owns
  IN /\ Backend = "legacy"
     /\ pc[c] = "judge"
     /\ \/ /\ seen[c] # NoToken /\ ~SeenExpired(c) /\ ~owns
           /\ Return(c)
        \/ /\ seen[c] = NoToken \/ takeover
           /\ \E t \in Token : /\ Fresh(t)
                               /\ target' = [target EXCEPT ![c] = t]
           /\ Goto(c, IF takeover THEN "audit_before" ELSE "update")
           /\ ForgetRow(c)
        \/ /\ owns
           /\ target' = [target EXCEPT ![c] = seen[c]]
           /\ Goto(c, "update")
           /\ ForgetRow(c)
     /\ UNCHANGED <<owner, age, cached>>

\* The legacy path writes its audit row before the UPDATE it announces.
AuditIntent(c) ==
  /\ pc[c] = "audit_before"
  /\ audited' = [audited EXCEPT ![c] = TRUE]
  /\ Goto(c, "update")
  /\ UNCHANGED <<owner, age, cached, seen, seenAge, target, hit>>

\* The legacy UPDATE matches a free, an expired or the caller's own row.
UpdateLegacy(c) ==
  /\ pc[c] = "update"
  /\ \/ /\ owner = NoToken \/ Expired \/ Owns(c)
        /\ owner' = target[c]
        /\ age' = 0
        /\ hit' = [hit EXCEPT ![c] = Found(c)]
     \/ /\ owner # NoToken /\ ~Expired /\ ~Owns(c)
        /\ hit' = [hit EXCEPT ![c] = "miss"]
        /\ UNCHANGED <<owner, age>>
  /\ Goto(c, "reload")
  /\ UNCHANGED <<cached, seen, seenAge, target, audited>>

\* ... and the row is read again to learn whether it did.
ReloadLegacy(c) ==
  /\ pc[c] = "reload"
  /\ \/ /\ owner = target[c]
        /\ Goto(c, "cache")
        /\ UNCHANGED <<seen, seenAge, target, hit, audited>>
     \/ /\ owner # target[c]
        /\ Return(c)
  /\ UNCHANGED <<owner, age, cached>>

\* Mutant of CacheToken: the wrong column of the returned row is cached.
CacheWrongColumn(c) ==
  /\ pc[c] = "cache"
  /\ cached' = [cached EXCEPT ![c] = hit[c]]
  /\ Return(c)
  /\ UNCHANGED <<owner, age>>

\* CacheToken, once AcquireLease has returned.
CacheToken(c) ==
  /\ pc[c] = "cache"
  /\ cached' = [cached EXCEPT ![c] = target[c]]
  /\ Return(c)
  /\ UNCHANGED <<owner, age>>

-----------------------------------------------------------------------------
(* cdc_consumer_heartbeat *)

\* A client whose cached token is not in the row gets CDC_BUSY at once, here
\* and in a release; nothing has changed then.
HeartbeatCheck(c) ==
  /\ pc[c] = "idle"
  /\ Owns(c)
  /\ Goto(c, "hb_update")
  /\ UNCHANGED <<owner, age, cached, seen, seenAge, target, hit, audited>>

HeartbeatUpdate(c) ==
  /\ pc[c] = "hb_update"
  /\ \/ /\ Owns(c)
        /\ age' = 0
        /\ hit' = [hit EXCEPT ![c] = "own"]
     \/ /\ ~Owns(c)
        /\ hit' = [hit EXCEPT ![c] = "miss"]
        /\ UNCHANGED age
  /\ Goto(c, "hb_reload")
  /\ UNCHANGED <<owner, cached, seen, seenAge, target, audited>>

HeartbeatReload(c) ==
  /\ pc[c] = "hb_reload"
  /\ Return(c)
  /\ UNCHANGED <<owner, age, cached>>

-----------------------------------------------------------------------------
(* cdc_consumer_release and cdc_consumer_force_release *)

ReleaseCheck(c) ==
  /\ pc[c] = "idle"
  /\ Owns(c)
  /\ Goto(c, "rel_update")
  /\ UNCHANGED <<owner, age, cached, seen, seenAge, target, hit, audited>>

ReleaseUpdate(c) ==
  /\ pc[c] = "rel_update"
  /\ \/ /\ Owns(c)
        /\ owner' = NoToken
        /\ age' = 0
        /\ hit' = [hit EXCEPT ![c] = "own"]
     \/ /\ ~Owns(c)
        /\ hit' = [hit EXCEPT ![c] = "miss"]
        /\ UNCHANGED <<owner, age>>
  /\ Goto(c, "rel_reload")
  /\ UNCHANGED <<cached, seen, seenAge, target, audited>>

\* The cached token is erased only when the row is seen free.
ReleaseReload(c) ==
  /\ pc[c] = "rel_reload"
  /\ cached' = IF owner = NoToken THEN [cached EXCEPT ![c] = NoToken] ELSE cached
  /\ Return(c)
  /\ UNCHANGED <<owner, age>>

\* ForceReleaseConsumer, and the lease half of ResetConsumer: by name, with
\* no look at who holds the token.
ForceRelease(c) ==
  /\ pc[c] = "idle"
  /\ owner' = NoToken
  /\ age' = 0
  /\ UNCHANGED <<cached, pc, seen, seenAge, target, hit, audited>>

-----------------------------------------------------------------------------
(* Faults and time *)

\* A statement of c's call throws; the call ends, what it wrote stays.
StatementFails(c) ==
  /\ pc[c] # "idle"
  /\ Return(c)
  /\ UNCHANGED <<owner, age, cached>>

\* c's connection is gone, and its entry of the cache with it.
Disconnect(c) ==
  /\ cached' = [cached EXCEPT ![c] = NoToken]
  /\ Return(c)
  /\ UNCHANGED <<owner, age>>

Older(n) == IF n > LeaseInterval THEN n ELSE n + 1

Tick ==
  /\ owner # NoToken \/ \E c \in Client : pc[c] = "judge" /\ seen[c] # NoToken
  /\ age' = IF owner = NoToken THEN age ELSE Older(age)
  /\ seenAge' = [c \in Client |->
                   IF pc[c] = "judge" /\ seen[c] # NoToken
                   THEN Older(seenAge[c]) ELSE seenAge[c]]
  /\ UNCHANGED <<owner, cached, pc, seen, target, hit, audited>>

Call(c) == \/ BeginAcquire(c) \/ HeartbeatCheck(c)
           \/ ReleaseCheck(c) \/ ForceRelease(c)

Step(c) == \/ AcquireFreeOrOwn(c) \/ LoadRow(c) \/ JudgeReturning(c)
           \/ TakeExpired(c) \/ AuditTakeover(c) \/ JudgeLegacy(c)
           \/ AuditIntent(c) \/ UpdateLegacy(c) \/ ReloadLegacy(c)
           \/ CacheToken(c) \/ HeartbeatUpdate(c) \/ HeartbeatReload(c)
           \/ ReleaseUpdate(c) \/ ReleaseReload(c)

Fault(c) == StatementFails(c) \/ Disconnect(c)

Next == \/ \E c \in Client : Call(c) \/ Step(c) \/ Fault(c)
        \/ Tick

Spec == Init /\ [][Next]_vars

-----------------------------------------------------------------------------
(* Properties *)

\* The token in the row is one that c knows: from an earlier call, or from
\* the call it is in.
Holds(c) == owner # NoToken /\ owner \in {cached[c], target[c]}

\* Two connections never both hold the token in the row, whatever the order
\* in which their acquire, heartbeat and release statements run: a token is
\* granted to one connection and no UPDATE ever puts it in another's hands.
AtMostOneHolder ==
  \A c, d \in Client : Holds(c) /\ Holds(d) => c = d

\* Heartbeat and the legacy acquisition never look at the row count of
\* their UPDATE; they read the row back.  What they read is a reliable
\* answer: if the row shows their token, the UPDATE did hit it.
ReloadTellsHit ==
  \A c \in Client :
    /\ pc[c] = "hb_reload" /\ Owns(c) => hit[c] = "own"
    /\ pc[c] = "reload" /\ owner = target[c] => hit[c] # "miss"

\* A call that has done its UPDATE, and is about to return or to remember its
\* token, has written a lease_force_acquire audit row if, and only if, that
\* UPDATE took over an expired lease.
AuditMatchesTakeover ==
  \A c \in Client : pc[c] \in {"reload", "cache"} =>
    (audited[c] <=> hit[c] = "expired")

\* The lease as its clients see it.
Live == owner # NoToken /\ age <= LeaseInterval

Holder == IF owner = NoToken THEN NoToken
          ELSE IF \E c \in Client : Holds(c)
               THEN CHOOSE c \in Client : Holds(c)
               ELSE "orphan"

Abstract == INSTANCE LeaseSpec WITH Free <- NoToken, Orphan <- "orphan",
                                    holder <- Holder, live <- Live

\* The statements of both paths implement the lease of LeaseSpec: no client
\* takes over or renews a live lease of another, and only a failure or a
\* disconnect orphans one.
ImplementsLeaseSpec == Abstract!Spec

\* Clients take the next statement of the call they are in, and poll: an
\* idle client asks for the lease again.  Clocks advance.
Fairness == /\ WF_vars(Tick)
            /\ \A c \in Client : WF_vars(Step(c)) /\ WF_vars(BeginAcquire(c))

FairSpec == Spec /\ Fairness

\* From some time on there are only calls, their statements, and the clock.
Quiet == <>[][(\E c \in Client : Call(c) \/ Step(c)) \/ Tick]_vars

Orphaned == owner # NoToken /\ \A c \in Client : ~Holds(c)

\* Once faults stop, a lease whose token nobody knows does not stay: nobody
\* can renew it, it lapses, and a polling client takes it over.
OrphanRecovered == Quiet => (Orphaned ~> ~Orphaned)
=============================================================================
