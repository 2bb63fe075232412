----------------------------- MODULE Bootstrap -----------------------------
(***************************************************************************)
(* What every cdc_* call does before its own work: it checks the version   *)
(* of the catalog, creates the state tables unless they are there, and     *)
(* finds out in which schema they are, once for each table it needs        *)
(* (compat_check.cpp, ducklake_metadata.cpp); and cdc_configure, which     *)
(* chooses that schema.  One catalog, attached in several processes.       *)
(***************************************************************************)
EXTENDS Naturals

CONSTANTS
  Client,      \* threads
  Process,
  ProcessOf,   \* ProcessOf[c]: the process the thread belongs to
  Nobody,      \* holder of a free mutex
  Backends,    \* of {"postgres", "duckdb", "sqlite"}
  Wishes,      \* what the operators want configured, of {"default", "custom"}
  Heedless,    \* processes configure when they please: late, or not at all
  Precreated,  \* the schemas exist and are empty from the start
  MaxAttempt,  \* attempts of the bootstrap on Postgres
  MaxFaults    \* bound: failures of statements, and restarts

Schema == {"default", "custom", "main"}

ASSUME BootstrapAssumption ==
  /\ ProcessOf \in [Client -> Process] /\ Nobody \notin Client
  /\ Backends \subseteq {"postgres", "duckdb", "sqlite"}
  /\ Wishes \subseteq {"default", "custom"}
  /\ Heedless \in BOOLEAN /\ Precreated \in BOOLEAN
  /\ MaxAttempt \in Nat \ {0} /\ MaxFaults \in Nat

VARIABLES
  backend,    \* of the metadata database
  wish,       \* the state_schema the operators want
  supported,  \* the format of the catalog is one the extension supports
  tables,     \* tables[s]: schema s is "absent", "empty" or has the "tables"
  configured, \* configured[p]: the entry of CDC_CATALOG_CONFIGS, or "none"
  active,     \* active[p]: the attachment is in ACTIVE_CDC_CATALOGS
  remembered, \* remembered[p]: the schemas in STATE_SCHEMA_CACHE
  mutex,      \* mutex[p]: who holds STATE_BOOTSTRAP_MUTEX
  pc,         \* pc[c]: what c's call does next
  resolved,   \* resolved[c]: the state schema its bootstrap is for
  attempt,    \* attempt[c]: attempts of that bootstrap
  named,      \* named[c]: where the call expects the tables it has named
  faults

catalog == <<backend, wish, supported>>
process == <<configured, active, remembered, mutex>>
call == <<resolved, attempt, named>>
vars == <<backend, wish, supported, tables, configured, active, remembered, mutex, pc,
          resolved, attempt, named, faults>>

PC == {"idle", "check", "resolve", "activate", "probe", "lock", "recheck", "create",
       "remember", "name", "name_again", "run"}

\* The variables stay in their types; who holds the mutex is in its section.
TypeOK ==
  /\ backend \in Backends /\ wish \in Wishes /\ supported \in BOOLEAN
  /\ tables \in [Schema -> {"absent", "empty", "tables"}]
  /\ configured \in [Process -> {"none", "default", "custom"}]
  /\ active \in [Process -> BOOLEAN]
  /\ remembered \in [Process -> SUBSET Schema]
  /\ mutex \in [Process -> Client \union {Nobody}]
  /\ pc \in [Client -> PC]
  /\ resolved \in [Client -> Schema]
  /\ attempt \in [Client -> 0 .. MaxAttempt]
  /\ named \in [Client -> SUBSET Schema]
  /\ faults \in 0 .. MaxFaults
  /\ \A c \in Client :
       pc[c] \in {"recheck", "create", "remember"} <=> mutex[ProcessOf[c]] = c

Init ==
  /\ backend \in Backends /\ wish \in Wishes /\ supported = TRUE
  /\ tables = [s \in Schema |->
       IF s = "main" THEN IF backend = "postgres" THEN "absent" ELSE "empty"
       ELSE IF Precreated THEN "empty" ELSE "absent"]
  /\ configured = [p \in Process |-> "none"]
  /\ active = [p \in Process |-> FALSE]
  /\ remembered = [p \in Process |-> {}]
  /\ mutex = [p \in Process |-> Nobody]
  /\ pc = [c \in Client |-> "idle"]
  /\ resolved = [c \in Client |-> "default"]
  /\ attempt = [c \in Client |-> 0]
  /\ named = [c \in Client |-> {}]
  /\ faults = 0

-----------------------------------------------------------------------------
(* Helpers *)

Goto(c, label) == pc' = [pc EXCEPT ![c] = label]

\* The call returns or throws: what it holds is released.
Return(c) ==
  /\ Goto(c, "idle")
  /\ resolved' = [resolved EXCEPT ![c] = "default"]
  /\ attempt' = [attempt EXCEPT ![c] = 0]
  /\ named' = [named EXCEPT ![c] = {}]
  /\ mutex' = [mutex EXCEPT ![ProcessOf[c]] = IF @ = c THEN Nobody ELSE @]

\* ResolveCdcCatalogState(..).state_schema.
StateSchema(c) ==
  IF configured[ProcessOf[c]] = "none" THEN "default" ELSE configured[ProcessOf[c]]

\* What ProbeStateSchema may answer: a query of the table decides.  When it
\* fails, the enumerations do, which need not show a schema that is there.
ProbeSays(s, there) ==
  \/ tables[s] = "tables" /\ there /\ UNCHANGED faults
  \/ tables[s] = "tables" /\ ~there /\ faults < MaxFaults /\ faults' = faults + 1
  \/ tables[s] = "empty" /\ UNCHANGED faults
  \/ tables[s] = "absent" /\ ~there /\ UNCHANGED faults

\* Where the tables are created: SQLite refuses CREATE SCHEMA.
CreatedIn(s) == IF backend = "sqlite" THEN "main" ELSE s

-----------------------------------------------------------------------------
(* cdc_configure *)

\* The operator does it before the first call of the process, unless heedless.
\* The mapping of an attachment is set once, and never under its calls.
Configure(p, s) ==
  /\ configured[p] = "none" /\ ~active[p]
  /\ \/ Heedless
     \/ s = wish /\ \A c \in Client : ProcessOf[c] = p => pc[c] = "idle"
  /\ configured' = [configured EXCEPT ![p] = s]
  /\ UNCHANGED <<catalog, tables, active, remembered, mutex, pc, call, faults>>

-----------------------------------------------------------------------------
(* CheckCatalogOrThrow *)

BeginCall(c) ==
  /\ pc[c] = "idle"
  /\ Heedless \/ wish = "default" \/ configured[ProcessOf[c]] = wish
  /\ Goto(c, "check")
  /\ UNCHANGED <<catalog, tables, process, call, faults>>

\* Another version of DuckLake migrates the catalog.
Migrate ==
  /\ supported
  /\ supported' = FALSE
  /\ UNCHANGED <<backend, wish, tables, process, pc, call, faults>>

\* What the query for the version gives: nothing, when it fails.
ReadCatalogVersion ==
  {IF supported THEN "supported" ELSE "unsupported"} \union
  (IF faults < MaxFaults THEN {"unknown"} ELSE {})

\* A version that cannot be read passes.
Check(c) ==
  /\ pc[c] = "check"
  /\ \E version \in ReadCatalogVersion :
       /\ faults' = IF version = "unknown" THEN faults + 1 ELSE faults
       /\ \/ /\ version # "unsupported"
             /\ Goto(c, "resolve")
             /\ UNCHANGED <<mutex, call>>
          \/ /\ version = "unsupported"
             /\ Return(c)
  /\ UNCHANGED <<catalog, tables, configured, active, remembered>>

-----------------------------------------------------------------------------
(* BootstrapConsumerStateOrThrow *)

Resolve(c) ==
  /\ pc[c] = "resolve"
  /\ resolved' = [resolved EXCEPT ![c] = StateSchema(c)]
  /\ Goto(c, "activate")
  /\ UNCHANGED <<catalog, tables, process, attempt, named, faults>>

Activate(c) ==
  /\ pc[c] = "activate"
  /\ active' = [active EXCEPT ![ProcessOf[c]] = TRUE]
  /\ Goto(c, "probe")
  /\ UNCHANGED <<catalog, tables, configured, remembered, mutex, call, faults>>

Remember(c, s) ==
  remembered' = [remembered EXCEPT ![ProcessOf[c]] = @ \union {s}]

\* The look before the mutex.
Probe(c) ==
  /\ pc[c] = "probe"
  /\ \E there \in BOOLEAN :
       /\ ProbeSays(resolved[c], there)
       /\ IF there
          THEN Remember(c, resolved[c]) /\ Goto(c, "name")
          ELSE UNCHANGED remembered /\ Goto(c, "lock")
  /\ UNCHANGED <<catalog, tables, configured, active, mutex, call>>

Lock(c) ==
  /\ pc[c] = "lock" /\ mutex[ProcessOf[c]] = Nobody
  /\ mutex' = [mutex EXCEPT ![ProcessOf[c]] = c]
  /\ attempt' = [attempt EXCEPT ![c] = 1]
  /\ Goto(c, "recheck")
  /\ UNCHANGED <<catalog, tables, configured, active, remembered, resolved, named, faults>>

Unlock(c) == mutex' = [mutex EXCEPT ![ProcessOf[c]] = Nobody]

\* The look at the beginning of an attempt.
Recheck(c) ==
  /\ pc[c] = "recheck"
  /\ \E there \in BOOLEAN :
       /\ ProbeSays(resolved[c], there)
       /\ IF there
          THEN Remember(c, resolved[c]) /\ Unlock(c) /\ Goto(c, "name")
          ELSE UNCHANGED <<remembered, mutex>> /\ Goto(c, "create")
  /\ UNCHANGED <<catalog, tables, configured, active, call>>

\* Mutant of Create: the cache is filled before the transaction commits.
CreateRemembered(c) ==
  /\ pc[c] = "create"
  /\ resolved[c] \notin remembered[ProcessOf[c]]
  /\ Remember(c, CreatedIn(resolved[c]))
  /\ UNCHANGED <<catalog, tables, configured, active, mutex, pc, call, faults>>

\* Mutant of Create: no IF NOT EXISTS, and the failure that follows is taken
\* for that of SQLite.
CreateBeside(c) ==
  /\ pc[c] = "create"
  /\ LET s == CreatedIn(resolved[c])
     IN  tables' = [tables EXCEPT ![IF tables[s] = "absent" THEN s ELSE "main"] = "tables"]
  /\ Goto(c, "remember")
  /\ UNCHANGED <<catalog, process, call, faults>>

\* The transaction that creates schema and tables, where they are not there
\* already, commits.
Create(c) ==
  /\ pc[c] = "create"
  /\ tables' = [tables EXCEPT ![CreatedIn(resolved[c])] = "tables"]
  /\ Goto(c, "remember")
  /\ UNCHANGED <<catalog, process, call, faults>>

\* It fails and is rolled back, for one because a transaction of another
\* process creates the same schema.  On Postgres there is another attempt.
CreateFails(c) ==
  /\ pc[c] = "create"
  /\ \/ faults < MaxFaults /\ faults' = faults + 1
     \/ tables[CreatedIn(resolved[c])] = "tables" /\ UNCHANGED faults
  /\ \/ /\ backend = "postgres" /\ attempt[c] < MaxAttempt
        /\ attempt' = [attempt EXCEPT ![c] = @ + 1]
        /\ Goto(c, "recheck")
        /\ UNCHANGED <<resolved, named, mutex>>
     \/ /\ backend # "postgres" \/ attempt[c] = MaxAttempt
        /\ Return(c)
  /\ UNCHANGED <<catalog, tables, configured, active, remembered>>

RememberCreated(c) ==
  /\ pc[c] = "remember"
  /\ IF backend # "sqlite" THEN Remember(c, resolved[c]) ELSE UNCHANGED remembered
  /\ Unlock(c)
  /\ Goto(c, "name")
  /\ UNCHANGED <<catalog, tables, configured, active, call, faults>>

-----------------------------------------------------------------------------
(* StateTable, for the tables the call needs *)

\* Mutant of Name: the database is asked every time.
NameUncached(c) ==
  /\ pc[c] \in {"name", "name_again"}
  /\ LET s == StateSchema(c)
     IN  \E there \in BOOLEAN :
           /\ ProbeSays(s, there)
           /\ named' = [named EXCEPT ![c] = @ \union {IF there THEN s ELSE "main"}]
  /\ Goto(c, IF pc[c] = "name" THEN "name_again" ELSE "run")
  /\ UNCHANGED <<catalog, tables, process, resolved, attempt>>

\* The configuration is resolved anew; StateSchemaExists asks the cache, then
\* the database.  Without the state schema the tables are in main.
Name(c) ==
  /\ pc[c] \in {"name", "name_again"}
  /\ LET s == StateSchema(c)
     IN  \E there \in BOOLEAN :
           /\ IF s \in remembered[ProcessOf[c]]
              THEN there /\ UNCHANGED faults
              ELSE ProbeSays(s, there)
           /\ named' = [named EXCEPT ![c] = @ \union {IF there THEN s ELSE "main"}]
           /\ IF there THEN Remember(c, s) ELSE UNCHANGED remembered
  /\ Goto(c, IF pc[c] = "name" THEN "name_again" ELSE "run")
  /\ UNCHANGED <<catalog, tables, configured, active, mutex, resolved, attempt>>

\* The statements of the call itself.
Run(c) ==
  /\ pc[c] = "run"
  /\ Return(c)
  /\ UNCHANGED <<catalog, tables, configured, active, remembered, faults>>

-----------------------------------------------------------------------------
(* Failures *)

\* A process dies, or detaches the catalog and attaches it again: open
\* transactions are rolled back, and the process knows nothing any more.
Restart(p) ==
  /\ faults < MaxFaults /\ faults' = faults + 1
  /\ configured' = [configured EXCEPT ![p] = "none"]
  /\ active' = [active EXCEPT ![p] = FALSE]
  /\ remembered' = [remembered EXCEPT ![p] = {}]
  /\ mutex' = [mutex EXCEPT ![p] = Nobody]
  /\ pc' = [c \in Client |-> IF ProcessOf[c] = p THEN "idle" ELSE pc[c]]
  /\ resolved' = [c \in Client |-> IF ProcessOf[c] = p THEN "default" ELSE resolved[c]]
  /\ attempt' = [c \in Client |-> IF ProcessOf[c] = p THEN 0 ELSE attempt[c]]
  /\ named' = [c \in Client |-> IF ProcessOf[c] = p THEN {} ELSE named[c]]
  /\ UNCHANGED <<catalog, tables>>

Step(c) ==
  \/ Check(c) \/ Resolve(c) \/ Activate(c) \/ Probe(c) \/ Lock(c) \/ Recheck(c)
  \/ Create(c) \/ CreateFails(c) \/ RememberCreated(c) \/ Name(c) \/ Run(c)

Next ==
  \/ \E c \in Client : BeginCall(c) \/ Step(c)
  \/ \E p \in Process : Restart(p) \/ \E s \in {"default", "custom"} : Configure(p, s)
  \/ Migrate

Spec == Init /\ [][Next]_vars

-----------------------------------------------------------------------------
(* Properties *)

\* A call that has been through bootstrap works on one set of tables, which
\* exists: what it names twice, and long after the bootstrap looked, is in one
\* schema (ducklake_metadata.cpp:376-395, 796-812).
NamesReady ==
  \A c \in Client :
    pc[c] = "run" => \E s \in Schema : named[c] = {s} /\ tables[s] = "tables"

\* The cache claims only what has been committed and is there for everybody
\* (ducklake_metadata.cpp:833-837).
CacheTruthful ==
  \A p \in Process : \A s \in remembered[p] : tables[s] = "tables"

\* All processes, before and after they restart, keep their state in one
\* place; a second set of tables would hide the consumers in the first
\* (ducklake_metadata.cpp:261-276, 815-826).
OneHome ==
  \A s, t \in Schema : tables[s] = "tables" /\ tables[t] = "tables" => s = t
=============================================================================
