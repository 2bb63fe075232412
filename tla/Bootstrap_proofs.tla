------------------------- MODULE Bootstrap_proofs -------------------------
(***************************************************************************)
(* Proofs about Bootstrap, for any processes, threads and backends.        *)
(* OneHome needs the care of the operators, CacheTruthful that no empty    *)
(* schema was there before, and NamesReady both.                           *)
(***************************************************************************)
EXTENDS Bootstrap, TLAPS

\* The state schema is never main, which is where SQLite has the tables.
SchemaInv == \A c \in Client : resolved[c] \in {"default", "custom"}

\* What has been seen of a schema, or created there, is there.
TruthInv ==
  /\ \A s \in {"default", "custom"} : tables[s] # "empty"
  /\ CacheTruthful
  /\ \A c \in Client : pc[c] = "remember" => tables[CreatedIn(resolved[c])] = "tables"

Chosen == {"activate", "probe", "lock", "recheck", "create", "remember"}
Ready == {"name", "name_again", "run"}
TheHome == CreatedIn(wish)

\* Calls run in processes that are configured as the operators wish, and create
\* the tables there.
HomeInv ==
  /\ \A p \in Process : configured[p] \in {"none", wish}
  /\ \A c \in Client : pc[c] # "idle" => StateSchema(c) = wish
  /\ \A c \in Client : pc[c] \in Chosen => resolved[c] = wish
  /\ \A s \in Schema : tables[s] = "tables" => s = TheHome

\* After bootstrap the tables are there; the cache knows, but on SQLite, where
\* the schema it would know of does not exist.
NamedInv ==
  \A c \in Client :
    /\ pc[c] \in Ready =>
         /\ tables[TheHome] = "tables"
         /\ backend # "sqlite" => wish \in remembered[ProcessOf[c]]
    /\ named[c] = IF pc[c] \in {"name_again", "run"} THEN {TheHome} ELSE {}

LEMMA InitInv ==
  Init => /\ TypeOK /\ SchemaInv
          /\ ~Precreated => TruthInv
          /\ HomeInv /\ NamedInv
  <1> SUFFICES ASSUME Init
               PROVE  /\ TypeOK /\ SchemaInv
                      /\ ~Precreated => TruthInv
                      /\ HomeInv /\ NamedInv
    OBVIOUS
  <1>1. TypeOK
    BY BootstrapAssumption DEF Init, TypeOK, PC, Schema
  <1>2. SchemaInv /\ NamedInv
    BY DEF Init, SchemaInv, NamedInv, Ready
  <1>3. ASSUME ~Precreated PROVE TruthInv
    BY <1>3 DEF Init, TruthInv, CacheTruthful, Schema
  <1>4. HomeInv
    <2>1. \A s \in Schema : tables[s] # "tables"
      BY DEF Init
    <2>2. \A c \in Client : pc[c] = "idle"
      BY DEF Init
    <2>3. \A p \in Process : configured[p] = "none"
      BY DEF Init
    <2> QED
      BY <2>1, <2>2, <2>3 DEF HomeInv, Chosen
  <1> QED
    BY <1>1, <1>2, <1>3, <1>4

-----------------------------------------------------------------------------
(* Types *)

LEMMA TypeStep ==
  ASSUME TypeOK, SchemaInv, [Next]_vars
  PROVE  TypeOK' /\ SchemaInv'
  <1> USE BootstrapAssumption DEF TypeOK, SchemaInv, PC, Schema, Goto
  <1>1. \A c \in Client : StateSchema(c) \in {"default", "custom"}
    BY DEF StateSchema
  <1>2. ASSUME NEW c \in Client, BeginCall(c) \/ Resolve(c) \/ Activate(c) PROVE TypeOK' /\ SchemaInv'
    <2>1. CASE BeginCall(c)
      BY <2>1 DEF BeginCall, catalog, process, call
    <2>2. CASE Resolve(c)
      BY <1>1, <2>2 DEF Resolve, catalog, process
    <2>3. CASE Activate(c)
      BY <2>3 DEF Activate, catalog, call
    <2> QED
      BY <1>2, <2>1, <2>2, <2>3
  <1>3. ASSUME NEW c \in Client, Check(c) PROVE TypeOK' /\ SchemaInv'
    <2>1. PICK version \in ReadCatalogVersion :
            /\ faults' = IF version = "unknown" THEN faults + 1 ELSE faults
            /\ \/ Goto(c, "resolve") /\ UNCHANGED <<mutex, call>>
               \/ Return(c)
      BY <1>3 DEF Check
    <2>2. faults' \in 0 .. MaxFaults
      <3>1. CASE version = "unknown"
        <4>1. version \in {"supported", "unsupported"} \/ faults < MaxFaults
          BY <2>1 DEF ReadCatalogVersion
        <4> QED
          BY <2>1, <3>1, <4>1
      <3>2. CASE version # "unknown"
        BY <2>1, <3>2
      <3> QED
        BY <3>1, <3>2
    <2>3. pc[c] = "check" /\ UNCHANGED <<catalog, tables, configured, active, remembered>>
      BY <1>3 DEF Check
    <2>4. CASE Return(c)
      BY <2>2, <2>3, <2>4 DEF Return, catalog
    <2>5. CASE Goto(c, "resolve") /\ UNCHANGED <<mutex, call>>
      BY <2>2, <2>3, <2>5 DEF catalog, call
    <2> QED
      BY <2>1, <2>4, <2>5
  <1>4. ASSUME NEW c \in Client, Probe(c) PROVE TypeOK' /\ SchemaInv'
    <2>1. faults' \in 0 .. MaxFaults
      BY <1>4 DEF Probe, ProbeSays
    <2>2. remembered' \in [Process -> SUBSET Schema]
      BY <1>4 DEF Probe, Remember
    <2> QED
      BY <1>4, <2>1, <2>2 DEF Probe, catalog, call
  <1>5. ASSUME NEW c \in Client, Lock(c) PROVE TypeOK' /\ SchemaInv'
    BY <1>5 DEF Lock, catalog
  <1>6. ASSUME NEW c \in Client, Recheck(c) PROVE TypeOK' /\ SchemaInv'
    <2>1. faults' \in 0 .. MaxFaults
      BY <1>6 DEF Recheck, ProbeSays
    <2>2. remembered' \in [Process -> SUBSET Schema]
      BY <1>6 DEF Recheck, Remember
    <2> QED
      BY <1>6, <2>1, <2>2 DEF Recheck, Unlock, catalog, call
  <1>7. ASSUME NEW c \in Client, Create(c) PROVE TypeOK' /\ SchemaInv'
    BY <1>7 DEF Create, CreatedIn, catalog, process, call
  <1>8. ASSUME NEW c \in Client, CreateFails(c) PROVE TypeOK' /\ SchemaInv'
    <2>1. faults' \in 0 .. MaxFaults
      BY <1>8 DEF CreateFails
    <2> QED
      BY <1>8, <2>1 DEF CreateFails, Return, catalog
  <1>9. ASSUME NEW c \in Client, RememberCreated(c) PROVE TypeOK' /\ SchemaInv'
    <2>1. remembered' \in [Process -> SUBSET Schema]
      BY <1>9 DEF RememberCreated, Remember
    <2>2. /\ pc[c] = "remember" /\ pc' = [pc EXCEPT ![c] = "name"]
          /\ mutex' = [mutex EXCEPT ![ProcessOf[c]] = Nobody]
          /\ UNCHANGED <<backend, wish, supported, tables, configured, active, resolved, attempt, named, faults>>
      BY <1>9 DEF RememberCreated, Unlock, catalog, call
    <2> QED
      BY <2>1, <2>2
  <1>10. ASSUME NEW c \in Client, Name(c) PROVE TypeOK' /\ SchemaInv'
    <2>1. faults' \in 0 .. MaxFaults
      BY <1>10 DEF Name, ProbeSays
    <2>2. remembered' \in [Process -> SUBSET Schema]
      BY <1>1, <1>10 DEF Name, Remember
    <2>3. named' \in [Client -> SUBSET Schema]
      BY <1>1, <1>10 DEF Name
    <2> QED
      BY <1>10, <2>1, <2>2, <2>3 DEF Name, catalog
  <1>11. ASSUME NEW c \in Client, Run(c) PROVE TypeOK' /\ SchemaInv'
    BY <1>11 DEF Run, Return, catalog
  <1>12. ASSUME NEW p \in Process, Restart(p) PROVE TypeOK' /\ SchemaInv'
    BY <1>12 DEF Restart, catalog
  <1>13. ASSUME NEW p \in Process, NEW s \in {"default", "custom"}, Configure(p, s) PROVE TypeOK' /\ SchemaInv'
    BY <1>13 DEF Configure, catalog, call
  <1>14. CASE Migrate
    BY <1>14 DEF Migrate, process, call
  <1>15. CASE UNCHANGED vars
    BY <1>15 DEF vars
  <1> QED
    BY <1>2, <1>3, <1>4, <1>5, <1>6, <1>7, <1>8, <1>9, <1>10, <1>11, <1>12, <1>13, <1>14, <1>15
       DEF Next, Step

-----------------------------------------------------------------------------
(* The cache *)

LEMMA StateSchemaType ==
  ASSUME TypeOK, NEW c \in Client
  PROVE  StateSchema(c) \in {"default", "custom"}
  BY BootstrapAssumption DEF TypeOK, StateSchema

\* A step keeps TruthInv when it forgets nothing of the database, and what the
\* cache learns is so.
LEMMA TruthKept ==
  ASSUME TruthInv, tables' = tables, backend' = backend,
         \A p \in Process : \A s \in remembered'[p] : s \in remembered[p] \/ tables[s] = "tables",
         \A c \in Client : pc'[c] = "remember" => pc[c] = "remember" /\ resolved'[c] = resolved[c]
  PROVE  TruthInv'
  BY DEF TruthInv, CacheTruthful, CreatedIn

LEMMA TruthStep ==
  ASSUME TypeOK, SchemaInv, TruthInv, [Next]_vars
  PROVE  TruthInv'
  <1>1. ASSUME NEW c \in Client,
               BeginCall(c) \/ Check(c) \/ Activate(c) \/ Lock(c) \/ CreateFails(c) \/ Run(c)
        PROVE  TruthInv'
    <2>1. tables' = tables /\ backend' = backend /\ remembered' = remembered
      BY <1>1 DEF BeginCall, Check, Activate, Lock, CreateFails, Run, catalog, process
    <2>2. \/ Return(c)
          \/ \E label \in PC \ {"remember"} :
               Goto(c, label) /\ resolved' = resolved
      BY <1>1 DEF BeginCall, Check, Activate, Lock, CreateFails, Run, call, PC
    <2>3. \A d \in Client : pc'[d] = "remember" => pc[d] = "remember" /\ resolved'[d] = resolved[d]
      <3>1. CASE Return(c)
        BY <3>1 DEF Return, Goto, TypeOK
      <3>2. CASE ~Return(c)
        BY <2>2, <3>2 DEF Goto, TypeOK
      <3> QED
        BY <3>1, <3>2
    <2> QED
      BY <2>1, <2>3, TruthKept
  <1>2. ASSUME NEW c \in Client, Probe(c) \/ Recheck(c) PROVE TruthInv'
    <2>1. /\ tables' = tables /\ backend' = backend
          /\ \/ remembered' = remembered
             \/ /\ tables[resolved[c]] # "absent"
                /\ remembered' = [remembered EXCEPT ![ProcessOf[c]] = @ \union {resolved[c]}]
      BY <1>2 DEF Probe, Recheck, ProbeSays, Remember, catalog
    <2>2. \A d \in Client : pc'[d] = "remember" => pc[d] = "remember" /\ resolved'[d] = resolved[d]
      BY <1>2 DEF Probe, Recheck, Goto, call, TypeOK
    <2>3. tables[resolved[c]] \in {"absent", "tables"}
      BY DEF TypeOK, Schema, SchemaInv, TruthInv
    <2>4. \A p \in Process : \A s \in remembered'[p] : s \in remembered[p] \/ tables[s] = "tables"
      BY <2>1, <2>3 DEF TypeOK
    <2> QED
      BY <2>1, <2>2, <2>4, TruthKept
  <1>3. ASSUME NEW c \in Client, Create(c) PROVE TruthInv'
    <2>1. /\ tables' = [tables EXCEPT ![CreatedIn(resolved[c])] = "tables"]
          /\ backend' = backend /\ remembered' = remembered /\ resolved' = resolved
          /\ pc' = [pc EXCEPT ![c] = "remember"]
      BY <1>3 DEF Create, Goto, catalog, process, call
    <2>2. CreatedIn(resolved[c]) \in Schema
      BY DEF TypeOK, CreatedIn, Schema
    <2>3. \A s \in Schema : tables'[s] = tables[s] \/ tables'[s] = "tables"
      BY <2>1, <2>2 DEF TypeOK
    <2>4. tables'[CreatedIn(resolved[c])] = "tables"
      BY <2>1, <2>2 DEF TypeOK
    <2>5. \A d \in Client : CreatedIn(resolved[d]) \in Schema
      BY DEF TypeOK, CreatedIn, Schema
    <2>6. \A d \in Client : CreatedIn(resolved[d])' = CreatedIn(resolved[d])
      BY <2>1 DEF CreatedIn
    <2>7. \A d \in Client : pc'[d] = "remember" => tables'[CreatedIn(resolved[d])] = "tables"
      <3> SUFFICES ASSUME NEW d \in Client, pc'[d] = "remember"
                   PROVE  tables'[CreatedIn(resolved[d])] = "tables"
        OBVIOUS
      <3>1. CASE d = c
        BY <2>4, <3>1
      <3>2. CASE d # c
        BY <2>1, <2>3, <2>5, <3>2 DEF TypeOK, TruthInv
      <3> QED
        BY <3>1, <3>2
    <2>8. CacheTruthful'
      BY <2>1, <2>3 DEF TruthInv, CacheTruthful, TypeOK
    <2>9. \A s \in {"default", "custom"} : tables'[s] # "empty"
      BY <2>3 DEF TruthInv, Schema
    <2> QED
      BY <2>6, <2>7, <2>8, <2>9 DEF TruthInv
  <1>4. ASSUME NEW c \in Client, RememberCreated(c) PROVE TruthInv'
    <2>1. /\ tables' = tables /\ backend' = backend /\ pc[c] = "remember"
          /\ \/ remembered' = remembered
             \/ /\ backend # "sqlite"
                /\ remembered' = [remembered EXCEPT ![ProcessOf[c]] = @ \union {resolved[c]}]
      BY <1>4 DEF RememberCreated, Remember, catalog
    <2>2. \A d \in Client : pc'[d] = "remember" => pc[d] = "remember" /\ resolved'[d] = resolved[d]
      BY <1>4 DEF RememberCreated, Goto, call, TypeOK
    <2>3. backend # "sqlite" => tables[resolved[c]] = "tables"
      BY <2>1 DEF TruthInv, CreatedIn
    <2>4. \A p \in Process : \A s \in remembered'[p] : s \in remembered[p] \/ tables[s] = "tables"
      BY <2>1, <2>3 DEF TypeOK
    <2> QED
      BY <2>1, <2>2, <2>4, TruthKept
  <1>5. ASSUME NEW c \in Client, Name(c) PROVE TruthInv'
    <2> DEFINE s == StateSchema(c)
    <2>1. /\ tables' = tables /\ backend' = backend
          /\ \/ remembered' = remembered
             \/ /\ s \in remembered[ProcessOf[c]] \/ tables[s] # "absent"
                /\ remembered' = [remembered EXCEPT ![ProcessOf[c]] = @ \union {s}]
      BY <1>5 DEF Name, ProbeSays, Remember, catalog
    <2>2. \A d \in Client : pc'[d] = "remember" => pc[d] = "remember" /\ resolved'[d] = resolved[d]
      BY <1>5 DEF Name, Goto, TypeOK
    <2>3. tables[s] \in {"absent", "tables"}
      <3>1. s \in {"default", "custom"}
        BY StateSchemaType
      <3> HIDE DEF s
      <3> QED
        BY <3>1 DEF TypeOK, Schema, TruthInv
    <2>4. \A p \in Process : \A t \in remembered'[p] : t \in remembered[p] \/ tables[t] = "tables"
      <3> HIDE DEF s
      <3> QED
        BY <2>1, <2>3 DEF TypeOK
    <2> QED
      BY <2>1, <2>2, <2>4, TruthKept
  <1>6. ASSUME NEW p \in Process, Restart(p) PROVE TruthInv'
    <2>1. /\ tables' = tables /\ backend' = backend
          /\ remembered' = [remembered EXCEPT ![p] = {}]
          /\ \A d \in Client : pc'[d] = "remember" => pc[d] = "remember" /\ resolved'[d] = resolved[d]
      BY <1>6 DEF Restart, catalog
    <2>2. \A q \in Process : \A t \in remembered'[q] : t \in remembered[q]
      BY <2>1 DEF TypeOK
    <2> QED
      BY <2>1, <2>2, TruthKept
  <1>7. ASSUME NEW p \in Process, NEW s \in {"default", "custom"}, Configure(p, s) PROVE TruthInv'
    BY <1>7, TruthKept DEF Configure, catalog, call
  <1>8. CASE Migrate
    BY <1>8, TruthKept DEF Migrate, process, call
  <1>10. ASSUME NEW c \in Client, Resolve(c) PROVE TruthInv'
    <2>1. \A d \in Client : pc'[d] = "remember" => pc[d] = "remember" /\ resolved'[d] = resolved[d]
      BY <1>10 DEF Resolve, Goto, TypeOK
    <2> QED
      BY <1>10, <2>1, TruthKept DEF Resolve, catalog, process
  <1>9. CASE UNCHANGED vars
    BY <1>9, TruthKept DEF vars
  <1> QED
    BY <1>1, <1>2, <1>3, <1>4, <1>5, <1>6, <1>7, <1>8, <1>9, <1>10 DEF Next, Step

-----------------------------------------------------------------------------
(* The home *)

LEMMA WishType ==
  ASSUME TypeOK
  PROVE  wish \in {"default", "custom"} /\ TheHome \in Schema
  BY BootstrapAssumption DEF TypeOK, TheHome, CreatedIn, Schema

\* A step of a call that neither configures nor creates.
LEMMA HomeKept ==
  ASSUME HomeInv, tables' = tables, backend' = backend, wish' = wish, configured' = configured,
         \A c \in Client : pc'[c] # "idle" => pc[c] # "idle",
         \A c \in Client : pc'[c] \in Chosen => pc[c] \in Chosen /\ resolved'[c] = resolved[c]
  PROVE  HomeInv'
  BY DEF HomeInv, StateSchema, TheHome, CreatedIn

LEMMA HomeStep ==
  ASSUME ~Heedless, TypeOK, HomeInv, [Next]_vars
  PROVE  HomeInv'
  <1> USE BootstrapAssumption
  <1>1. ASSUME NEW c \in Client,
               \/ Check(c) \/ Activate(c) \/ Probe(c) \/ Lock(c) \/ Recheck(c)
               \/ CreateFails(c) \/ RememberCreated(c) \/ Name(c) \/ Run(c)
        PROVE  HomeInv'
    <2>1. /\ tables' = tables /\ backend' = backend /\ wish' = wish /\ configured' = configured
          /\ pc[c] # "idle"
      BY <1>1 DEF Check, Activate, Probe, Lock, Recheck, CreateFails, RememberCreated, Name, Run, catalog
    <2>2. \/ Return(c)
          \/ \E label \in PC : Goto(c, label) /\ resolved' = resolved /\ (label \in Chosen => pc[c] \in Chosen)
      BY <1>1 DEF Check, Activate, Probe, Lock, Recheck, CreateFails, RememberCreated, Name, Run, call, PC, Chosen
    <2>3. CASE Return(c)
      <3>1. \A d \in Client \ {c} : pc'[d] = pc[d] /\ resolved'[d] = resolved[d]
        BY <2>3 DEF Return, Goto, TypeOK
      <3>2. pc'[c] = "idle"
        BY <2>3 DEF Return, Goto, TypeOK
      <3> QED
        BY <2>1, <3>1, <3>2, HomeKept DEF Chosen
    <2>4. ASSUME NEW label \in PC, Goto(c, label), resolved' = resolved, label \in Chosen => pc[c] \in Chosen
          PROVE  HomeInv'
      <3>1. \A d \in Client : pc'[d] = IF d = c THEN label ELSE pc[d]
        BY <2>4 DEF Goto, TypeOK
      <3> QED
        BY <2>1, <2>4, <3>1, HomeKept
    <2> QED
      BY <2>2, <2>3, <2>4
  <1>2. ASSUME NEW c \in Client, BeginCall(c) PROVE HomeInv'
    <2>1. /\ UNCHANGED <<tables, backend, wish, configured, resolved>> /\ Goto(c, "check")
          /\ wish = "default" \/ configured[ProcessOf[c]] = wish
      BY <1>2 DEF BeginCall, catalog, process, call
    <2>2. \A d \in Client : pc'[d] = IF d = c THEN "check" ELSE pc[d]
      BY <2>1 DEF Goto, TypeOK
    <2>3. StateSchema(c) = wish
      <3>1. ProcessOf[c] \in Process
        OBVIOUS
      <3>2. wish # "none"
        BY WishType
      <3>3. configured[ProcessOf[c]] \in {"none", wish}
        BY <3>1 DEF HomeInv
      <3> QED
        BY <2>1, <3>2, <3>3 DEF StateSchema
    <2>4. \A d \in Client : StateSchema(d)' = StateSchema(d)
      BY <2>1 DEF StateSchema
    <2> QED
      BY <2>1, <2>2, <2>3, <2>4 DEF HomeInv, Chosen, TheHome, CreatedIn
  <1>3. ASSUME NEW c \in Client, Resolve(c) PROVE HomeInv'
    <2>1. /\ UNCHANGED <<tables, backend, wish, configured>> /\ pc[c] = "resolve"
          /\ pc' = [pc EXCEPT ![c] = "activate"]
          /\ resolved' = [resolved EXCEPT ![c] = StateSchema(c)]
      BY <1>3 DEF Resolve, Goto, catalog, process
    <2>2. StateSchema(c) = wish
      BY <2>1 DEF HomeInv
    <2>3. \A d \in Client : /\ pc'[d] = IF d = c THEN "activate" ELSE pc[d]
                            /\ resolved'[d] = IF d = c THEN wish ELSE resolved[d]
      BY <2>1, <2>2 DEF TypeOK
    <2>4. \A d \in Client : StateSchema(d)' = StateSchema(d)
      BY <2>1 DEF StateSchema
    <2> QED
      BY <2>1, <2>3, <2>4 DEF HomeInv, Chosen, TheHome, CreatedIn
  <1>4. ASSUME NEW c \in Client, Create(c) PROVE HomeInv'
    <2>1. /\ UNCHANGED <<backend, wish, configured, resolved>> /\ pc[c] = "create"
          /\ pc' = [pc EXCEPT ![c] = "remember"]
          /\ tables' = [tables EXCEPT ![CreatedIn(resolved[c])] = "tables"]
      BY <1>4 DEF Create, Goto, catalog, process, call
    <2>2. CreatedIn(resolved[c]) = TheHome
      BY <2>1 DEF HomeInv, Chosen, TheHome
    <2>3. \A s \in Schema : tables'[s] = "tables" => s = TheHome
      BY <2>1, <2>2 DEF HomeInv, TypeOK
    <2>4. \A d \in Client : pc'[d] = IF d = c THEN "remember" ELSE pc[d]
      BY <2>1 DEF TypeOK
    <2>5. TheHome' = TheHome /\ \A d \in Client : StateSchema(d)' = StateSchema(d)
      BY <2>1 DEF StateSchema, TheHome, CreatedIn
    <2> QED
      BY <2>1, <2>3, <2>4, <2>5 DEF HomeInv, Chosen
  <1>5. ASSUME NEW p \in Process, NEW s \in {"default", "custom"}, Configure(p, s) PROVE HomeInv'
    <2>1. /\ UNCHANGED <<tables, backend, wish, pc, resolved>> /\ s = wish
          /\ \A c \in Client : ProcessOf[c] = p => pc[c] = "idle"
          /\ configured' = [configured EXCEPT ![p] = wish]
      BY <1>5 DEF Configure, catalog, call
    <2>2. \A q \in Process : configured'[q] = IF q = p THEN wish ELSE configured[q]
      BY <2>1 DEF TypeOK
    <2>3. \A c \in Client : pc[c] # "idle" => StateSchema(c)' = StateSchema(c)
      BY <2>1, <2>2 DEF StateSchema
    <2>4. TheHome' = TheHome
      BY <2>1 DEF TheHome, CreatedIn
    <2> QED
      BY <2>1, <2>2, <2>3, <2>4 DEF HomeInv
  <1>6. ASSUME NEW p \in Process, Restart(p) PROVE HomeInv'
    <2>1. /\ UNCHANGED <<tables, backend, wish>>
          /\ configured' = [configured EXCEPT ![p] = "none"]
          /\ pc' = [c \in Client |-> IF ProcessOf[c] = p THEN "idle" ELSE pc[c]]
          /\ resolved' = [c \in Client |-> IF ProcessOf[c] = p THEN "default" ELSE resolved[c]]
      BY <1>6 DEF Restart, catalog
    <2>2. \A q \in Process : configured'[q] = IF q = p THEN "none" ELSE configured[q]
      BY <2>1 DEF TypeOK
    <2>3. \A c \in Client : pc'[c] # "idle" =>
            ProcessOf[c] # p /\ pc'[c] = pc[c] /\ resolved'[c] = resolved[c]
      BY <2>1
    <2>4. \A c \in Client : pc'[c] # "idle" => StateSchema(c)' = StateSchema(c)
      BY <2>2, <2>3 DEF StateSchema
    <2>5. TheHome' = TheHome
      BY <2>1 DEF TheHome, CreatedIn
    <2> QED
      BY <2>1, <2>2, <2>3, <2>4, <2>5 DEF HomeInv, Chosen
  <1>7. CASE Migrate
    BY <1>7, HomeKept DEF Migrate, process, call
  <1>8. CASE UNCHANGED vars
    BY <1>8, HomeKept DEF vars
  <1> QED
    BY <1>1, <1>2, <1>3, <1>4, <1>5, <1>6, <1>7, <1>8 DEF Next, Step

-----------------------------------------------------------------------------
(* The names *)

\* A step of c after which it keeps the tables it knew of, or knows of them now.
LEMMA NamedKept ==
  ASSUME NamedInv, NEW c \in Client,
         backend' = backend, TheHome' = TheHome, wish' = wish,
         tables[TheHome] = "tables" => tables'[TheHome] = "tables",
         \A p \in Process : remembered[p] \subseteq remembered'[p],
         \A d \in Client \ {c} : pc'[d] = pc[d] /\ named'[d] = named[d],
         pc'[c] \in Ready =>
           /\ tables'[TheHome] = "tables"
           /\ backend # "sqlite" => wish \in remembered'[ProcessOf[c]],
         named'[c] = IF pc'[c] \in {"name_again", "run"} THEN {TheHome} ELSE {}
  PROVE  NamedInv'
  <1>1. \A d \in Client : ProcessOf[d] \in Process
    BY BootstrapAssumption
  <1> QED
    BY <1>1 DEF NamedInv

LEMMA NamedStep ==
  ASSUME TypeOK, SchemaInv, TruthInv, HomeInv, NamedInv, [Next]_vars
  PROVE  NamedInv'
  <1> USE BootstrapAssumption
  <1>1. wish \in {"default", "custom"} /\ TheHome \in Schema
    BY WishType
  <1>2. tables[wish] # "absent" => TheHome = wish /\ tables[TheHome] = "tables"
    <2>1. tables[wish] \in {"absent", "tables"}
      BY <1>1 DEF TypeOK, Schema, TruthInv
    <2> QED
      BY <1>1, <2>1 DEF HomeInv, Schema
  <1>3. ASSUME NEW c \in Client,
               BeginCall(c) \/ Check(c) \/ Resolve(c) \/ Activate(c) \/ Lock(c) \/ CreateFails(c) \/ Run(c)
        PROVE  NamedInv'
    <2>1. /\ UNCHANGED <<backend, wish, tables, remembered>>
          /\ pc[c] = "run" \/ pc[c] \notin Ready
      BY <1>3 DEF BeginCall, Check, Resolve, Activate, Lock, CreateFails, Run, catalog, process, Ready
    <2>2. \/ Return(c)
          \/ \E label \in PC \ Ready : Goto(c, label) /\ named' = named /\ pc[c] \notin Ready
      BY <1>3 DEF BeginCall, Check, Resolve, Activate, Lock, CreateFails, Run, call, PC, Ready
    <2>3. TheHome' = TheHome
      BY <2>1 DEF TheHome, CreatedIn
    <2>4. /\ \A d \in Client \ {c} : pc'[d] = pc[d] /\ named'[d] = named[d]
          /\ pc'[c] \notin Ready /\ named'[c] = {}
      <3>1. CASE Return(c)
        BY <3>1 DEF Return, Goto, TypeOK, Ready
      <3>2. CASE ~Return(c)
        <4>1. PICK label \in PC \ Ready : Goto(c, label) /\ named' = named /\ pc[c] \notin Ready
          BY <2>2, <3>2
        <4>2. named[c] = {}
          BY <4>1 DEF NamedInv, Ready
        <4> QED
          BY <4>1, <4>2 DEF Goto, TypeOK
      <3> QED
        BY <3>1, <3>2
    <2>5. pc'[c] \notin {"name_again", "run"}
      BY <2>4 DEF Ready
    <2> QED
      BY <2>1, <2>3, <2>4, <2>5, NamedKept
  <1>4. ASSUME NEW c \in Client, Probe(c) \/ Recheck(c) PROVE NamedInv'
    <2>1. /\ UNCHANGED <<backend, wish, tables, named>> /\ pc[c] \in {"probe", "recheck"}
          /\ \/ /\ remembered' = remembered
                /\ Goto(c, "lock") \/ Goto(c, "create")
             \/ /\ tables[resolved[c]] # "absent"
                /\ remembered' = [remembered EXCEPT ![ProcessOf[c]] = @ \union {resolved[c]}]
                /\ Goto(c, "name")
      BY <1>4 DEF Probe, Recheck, ProbeSays, Remember, catalog, call
    <2>2. resolved[c] = wish
      BY <2>1 DEF HomeInv, Chosen
    <2>3. TheHome' = TheHome /\ named[c] = {}
      BY <2>1 DEF TheHome, CreatedIn, NamedInv
    <2>4. \A d \in Client \ {c} : pc'[d] = pc[d] /\ named'[d] = named[d]
      BY <2>1 DEF Goto, TypeOK
    <2>5. \A p \in Process : remembered[p] \subseteq remembered'[p]
      BY <2>1 DEF TypeOK
    <2>6. /\ pc'[c] \in {"lock", "create", "name"}
          /\ pc'[c] = "name" => tables[wish] # "absent" /\ wish \in remembered'[ProcessOf[c]]
      BY <2>1, <2>2 DEF Goto, TypeOK
    <2> QED
      BY <1>2, <2>1, <2>3, <2>4, <2>5, <2>6, NamedKept DEF Ready
  <1>5. ASSUME NEW c \in Client, Create(c) PROVE NamedInv'
    <2>1. /\ UNCHANGED <<backend, wish, remembered, named>> /\ pc[c] = "create"
          /\ pc' = [pc EXCEPT ![c] = "remember"]
          /\ tables' = [tables EXCEPT ![CreatedIn(resolved[c])] = "tables"]
      BY <1>5 DEF Create, Goto, catalog, process, call
    <2>2. TheHome' = TheHome /\ named[c] = {}
      BY <2>1 DEF TheHome, CreatedIn, NamedInv
    <2>3. tables[TheHome] = "tables" => tables'[TheHome] = "tables"
      BY <1>1, <2>1 DEF TypeOK
    <2>4. pc'[c] = "remember" /\ \A d \in Client \ {c} : pc'[d] = pc[d]
      BY <2>1 DEF TypeOK
    <2> QED
      BY <2>1, <2>2, <2>3, <2>4, NamedKept DEF Ready
  <1>6. ASSUME NEW c \in Client, RememberCreated(c) PROVE NamedInv'
    <2>1. /\ UNCHANGED <<backend, wish, tables, named>> /\ pc[c] = "remember"
          /\ pc' = [pc EXCEPT ![c] = "name"]
          /\ IF backend # "sqlite"
             THEN remembered' = [remembered EXCEPT ![ProcessOf[c]] = @ \union {resolved[c]}]
             ELSE remembered' = remembered
      BY <1>6 DEF RememberCreated, Goto, Remember, catalog, call
    <2>2. resolved[c] = wish /\ tables[TheHome] = "tables"
      BY <2>1 DEF HomeInv, Chosen, TruthInv, TheHome
    <2>3. TheHome' = TheHome /\ named[c] = {}
      BY <2>1 DEF TheHome, CreatedIn, NamedInv
    <2>4. pc'[c] = "name" /\ \A d \in Client \ {c} : pc'[d] = pc[d]
      BY <2>1 DEF TypeOK
    <2>5. /\ \A p \in Process : remembered[p] \subseteq remembered'[p]
          /\ backend # "sqlite" => wish \in remembered'[ProcessOf[c]]
      BY <2>1, <2>2 DEF TypeOK
    <2> QED
      BY <2>1, <2>2, <2>3, <2>4, <2>5, NamedKept DEF Ready
  <1>7. ASSUME NEW c \in Client, Name(c) PROVE NamedInv'
    <2>1. StateSchema(c) = wish /\ pc[c] \in Ready
      BY <1>7 DEF Name, HomeInv, Ready
    <2>2. /\ tables[TheHome] = "tables"
          /\ backend # "sqlite" => wish \in remembered[ProcessOf[c]]
      BY <2>1 DEF NamedInv
    <2>3. PICK s \in Schema :
            /\ \/ s = wish /\ (wish \in remembered[ProcessOf[c]] \/ tables[wish] # "absent")
               \/ s = "main" /\ wish \notin remembered[ProcessOf[c]]
            /\ named' = [named EXCEPT ![c] = @ \union {s}]
      <3>1. PICK there \in BOOLEAN :
              /\ IF wish \in remembered[ProcessOf[c]]
                 THEN there /\ UNCHANGED faults
                 ELSE ProbeSays(wish, there)
              /\ named' = [named EXCEPT ![c] = @ \union {IF there THEN wish ELSE "main"}]
        BY <1>7, <2>1 DEF Name
      <3>2. CASE there
        BY <1>1, <3>1, <3>2 DEF ProbeSays, Schema
      <3>3. CASE ~there
        BY <3>1, <3>3 DEF Schema
      <3> QED
        BY <3>2, <3>3
    <2>4. s = TheHome
      <3>1. CASE s = wish
        <4>1. tables[wish] # "absent"
          <5>1. CASE wish \in remembered[ProcessOf[c]]
            BY <5>1 DEF TruthInv, CacheTruthful
          <5> QED
            BY <2>3, <3>1, <5>1, <1>1
        <4> QED
          BY <1>2, <3>1, <4>1
      <3>2. CASE s = "main" /\ wish \notin remembered[ProcessOf[c]]
        BY <2>2, <3>2 DEF TheHome, CreatedIn
      <3> QED
        BY <2>3, <3>1, <3>2
    <2>5. /\ UNCHANGED <<backend, wish, tables>>
          /\ pc[c] \in {"name", "name_again"}
          /\ pc' = [pc EXCEPT ![c] = IF pc[c] = "name" THEN "name_again" ELSE "run"]
      BY <1>7 DEF Name, Goto, catalog
    <2>6. \A p \in Process : remembered[p] \subseteq remembered'[p]
      BY <1>7 DEF Name, Remember, TypeOK
    <2>7. TheHome' = TheHome
      BY <2>5 DEF TheHome, CreatedIn
    <2>8. /\ pc'[c] \in {"name_again", "run"}
          /\ \A d \in Client \ {c} : pc'[d] = pc[d] /\ named'[d] = named[d]
      BY <2>3, <2>5 DEF TypeOK
    <2>9. named[c] \subseteq {TheHome}
      BY DEF NamedInv
    <2>10. named'[c] = {TheHome}
      BY <2>3, <2>4, <2>9 DEF TypeOK
    <2> QED
      BY <2>2, <2>5, <2>6, <2>7, <2>8, <2>10, NamedKept
  <1>8. ASSUME NEW p \in Process, Restart(p) PROVE NamedInv'
    <2>1. /\ UNCHANGED <<backend, wish, tables>>
          /\ remembered' = [remembered EXCEPT ![p] = {}]
          /\ pc' = [c \in Client |-> IF ProcessOf[c] = p THEN "idle" ELSE pc[c]]
          /\ named' = [c \in Client |-> IF ProcessOf[c] = p THEN {} ELSE named[c]]
      BY <1>8 DEF Restart, catalog
    <2>2. TheHome' = TheHome
      BY <2>1 DEF TheHome, CreatedIn
    <2> SUFFICES ASSUME NEW c \in Client
                 PROVE  /\ pc'[c] \in Ready =>
                             /\ tables'[TheHome'] = "tables"
                             /\ backend' # "sqlite" => wish' \in remembered'[ProcessOf[c]]
                        /\ named'[c] = IF pc'[c] \in {"name_again", "run"} THEN {TheHome'} ELSE {}
      BY DEF NamedInv
    <2>3. CASE ProcessOf[c] = p
      BY <2>1, <2>3 DEF Ready
    <2>4. CASE ProcessOf[c] # p
      <3>1. pc'[c] = pc[c] /\ named'[c] = named[c] /\ remembered'[ProcessOf[c]] = remembered[ProcessOf[c]]
        BY <2>1, <2>4 DEF TypeOK
      <3> QED
        BY <2>1, <2>2, <3>1 DEF NamedInv
    <2> QED
      BY <2>3, <2>4
  <1>9. CASE \/ \E p \in Process : \E s \in {"default", "custom"} : Configure(p, s)
             \/ Migrate \/ UNCHANGED vars
    <2>1. UNCHANGED <<backend, wish, tables, remembered, pc, named>>
      BY <1>9 DEF Configure, Migrate, catalog, process, call, vars
    <2> QED
      BY <2>1 DEF NamedInv, TheHome, CreatedIn
  <1> QED
    BY <1>3, <1>4, <1>5, <1>6, <1>7, <1>8, <1>9 DEF Next, Step

-----------------------------------------------------------------------------

LEMMA Typed == Spec => [](TypeOK /\ SchemaInv)
  <1>1. Init => TypeOK /\ SchemaInv
    BY InitInv
  <1>2. (TypeOK /\ SchemaInv) /\ [Next]_vars => (TypeOK /\ SchemaInv)'
    BY TypeStep
  <1> QED
    BY <1>1, <1>2, PTL DEF Spec

LEMMA Truthful ==
  ASSUME ~Precreated
  PROVE  Spec => []TruthInv
  <1>1. Init => TruthInv
    BY InitInv
  <1>2. (TypeOK /\ SchemaInv) /\ TruthInv /\ [Next]_vars => TruthInv'
    BY TruthStep
  <1> QED
    BY <1>1, <1>2, Typed, PTL DEF Spec

LEMMA Homely ==
  ASSUME ~Heedless
  PROVE  Spec => []HomeInv
  <1>1. Init => HomeInv
    BY InitInv
  <1>2. (TypeOK /\ SchemaInv) /\ HomeInv /\ [Next]_vars => HomeInv'
    BY HomeStep
  <1> QED
    BY <1>1, <1>2, Typed, PTL DEF Spec

\* The variables stay in their types, and a call holds the mutex of its
\* process exactly in the section it guards (BootstrapConsumerStateOrThrow).
THEOREM TypeCorrect == Spec => []TypeOK
  BY Typed, PTL

\* The cache holds no schema without tables, however heedlessly processes are
\* configured, where no empty schema was there before
\* (BootstrapConsumerStateOrThrow, StateSchemaExists).
THEOREM CacheIsTruthful ==
  ASSUME ~Precreated
  PROVE  Spec => []CacheTruthful
  <1>1. TruthInv => CacheTruthful
    BY DEF TruthInv
  <1> QED
    BY <1>1, Truthful, PTL

\* Processes that are configured alike before their first call have one set of
\* tables, whoever creates it and however often they restart
\* (BootstrapConsumerStateOrThrow, CdcConfigureInit).
THEOREM OneHomeForAll ==
  ASSUME ~Heedless
  PROVE  Spec => []OneHome
  <1>1. HomeInv => OneHome
    BY DEF HomeInv, OneHome
  <1> QED
    BY <1>1, Homely, PTL

\* A call works on one set of tables, which is there (StateTable).
THEOREM CallsNameTheTables ==
  ASSUME ~Heedless, ~Precreated
  PROVE  Spec => []NamesReady
  <1>1. Init => NamedInv
    BY InitInv
  <1>2. (TypeOK /\ SchemaInv) /\ TruthInv /\ HomeInv /\ NamedInv /\ [Next]_vars => NamedInv'
    BY NamedStep
  <1>3. TypeOK /\ SchemaInv /\ NamedInv => NamesReady
    <2> SUFFICES ASSUME TypeOK, NamedInv, NEW c \in Client, pc[c] = "run"
                 PROVE  \E s \in Schema : named[c] = {s} /\ tables[s] = "tables"
      BY DEF NamesReady
    <2>1. named[c] = {TheHome} /\ tables[TheHome] = "tables" /\ TheHome \in Schema
      BY WishType DEF NamedInv, Ready
    <2> QED
      BY <2>1
  <1> QED
    BY <1>1, <1>2, <1>3, Typed, Truthful, Homely, PTL DEF Spec
=============================================================================
