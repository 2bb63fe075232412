------------------------ MODULE DmlSegments_proofs ------------------------
(***************************************************************************)
(* Proofs about DmlSegments, for any calls, keys and entries.              *)
(***************************************************************************)
EXTENDS DmlSegments, TLAPS

\* Who builds an entry is alone in it, and it is still being built.
BuilderInv ==
  /\ \A b \in Client : pc[b] = "build" => state[entry[b]] = "building"
  /\ \A b, d \in Client :
       pc[b] = "build" /\ pc[d] = "build" /\ entry[b] = entry[d] => b = d

\* What a waiter holds is being built for its key, or is done, and then the
\* waiter has been notified and the segment is of its key.
WaiterInv ==
  \A c \in Client :
    pc[c] = "wait" =>
      /\ \A b \in Client : pc[b] = "build" /\ entry[b] = entry[c] => key[b] = key[c]
      /\ state[entry[c]] = "building" =>
           \E b \in Client : pc[b] = "build" /\ entry[b] = entry[c]
      /\ state[entry[c]] # "building" => notified[c]
      /\ state[entry[c]] = "ready" => segment[entry[c]] = key[c]

IInv == TypeOK /\ InFlightHasBuilder /\ BuilderInv /\ WaiterInv

LEMMA InitIInv == Init => IInv
  BY SegmentsAssumption DEF Init, IInv, TypeOK, InFlightHasBuilder, BuilderInv, WaiterInv, PC

\* The loop of ReserveDmlSegment, for a map that may have lost the key of the
\* caller.
LEMMA LookupIInv ==
  ASSUME IInv, NEW c \in Client, pc[c] \in {"reserve", "wait"},
         NEW found, found = cache \/ found = [cache EXCEPT ![key[c]] = Nothing],
         Lookup(c, found), key' = key, notified' = [notified EXCEPT ![c] = FALSE]
  PROVE  IInv'
  <1> USE SegmentsAssumption
  <1>1. key[c] \in Key /\ TypeOK
    BY DEF IInv, TypeOK, PC
  <1>2. found \in [Key -> Entry \union {Nothing}]
        /\ \A k \in Key : found[k] # Nothing => found[k] = cache[k]
    BY <1>1 DEF TypeOK
  <1>3. CASE found[key[c]] = Nothing
    <2>1. PICK e \in Entry :
            /\ Unreferenced(c, e)
            /\ cache' = [found EXCEPT ![key[c]] = e]
            /\ state' = [state EXCEPT ![e] = "building"]
            /\ segment' = [segment EXCEPT ![e] = Nothing]
            /\ entry' = [entry EXCEPT ![c] = e]
      BY <1>3 DEF Lookup
    <2>2. pc' = [pc EXCEPT ![c] = "build"]
      BY <1>3 DEF Lookup
    <2>3. TypeOK'
      BY <1>1, <1>2, <2>1, <2>2 DEF TypeOK, PC
    <2>4. \A b \in Client : b # c => entry[b] # e /\ entry'[b] = entry[b] /\ pc'[b] = pc[b]
      BY <1>1, <2>1, <2>2 DEF Unreferenced, TypeOK
    <2>5. InFlightHasBuilder'
      <3> SUFFICES ASSUME NEW k \in Key, cache'[k] # Nothing
                   PROVE  \E b \in Client : pc'[b] = "build" /\ entry'[b] = cache'[k] /\ key'[b] = k
        BY DEF InFlightHasBuilder
      <3>1. CASE k = key[c]
        BY <1>1, <1>2, <2>1, <2>2, <3>1 DEF TypeOK
      <3>2. CASE k # key[c]
        <4>1. cache'[k] = cache[k]
          BY <1>2, <2>1, <3>2
        <4>2. PICK b \in Client : pc[b] = "build" /\ entry[b] = cache[k] /\ key[b] = k
          BY <4>1 DEF IInv, InFlightHasBuilder
        <4>3. b # c
          BY <4>2
        <4> QED
          BY <2>4, <4>1, <4>2, <4>3
      <3> QED
        BY <3>1, <3>2
    <2>6. BuilderInv'
      BY <1>1, <2>1, <2>2, <2>4 DEF IInv, BuilderInv, TypeOK
    <2>7. WaiterInv'
      <3> SUFFICES ASSUME NEW d \in Client, pc'[d] = "wait"
                   PROVE  /\ \A b \in Client : pc'[b] = "build" /\ entry'[b] = entry'[d] => key'[b] = key'[d]
                          /\ state'[entry'[d]] = "building" =>
                               \E b \in Client : pc'[b] = "build" /\ entry'[b] = entry'[d]
                          /\ state'[entry'[d]] # "building" => notified'[d]
                          /\ state'[entry'[d]] = "ready" => segment'[entry'[d]] = key'[d]
        BY DEF WaiterInv
      <3>1. d # c
        BY <1>1, <2>2 DEF TypeOK
      <3>2. pc[d] = "wait" /\ entry'[d] = entry[d] /\ entry[d] # e /\ entry[d] \in Entry
        BY <1>1, <2>4, <3>1 DEF TypeOK
      <3>3. state'[entry[d]] = state[entry[d]] /\ segment'[entry[d]] = segment[entry[d]]
            /\ notified'[d] = notified[d]
        BY <1>1, <2>1, <3>1, <3>2 DEF TypeOK
      <3>4. \A b \in Client : pc'[b] = "build" /\ entry'[b] = entry[d] => pc[b] = "build" /\ entry[b] = entry[d]
        BY <1>1, <2>1, <2>4, <3>2 DEF TypeOK
      <3>5. \A b \in Client : pc[b] = "build" /\ entry[b] = entry[d] => pc'[b] = "build" /\ entry'[b] = entry[d]
        BY <2>4
      <3>6. /\ \A b \in Client : pc[b] = "build" /\ entry[b] = entry[d] => key[b] = key[d]
            /\ state[entry[d]] = "building" =>
                 \E b \in Client : pc[b] = "build" /\ entry[b] = entry[d]
            /\ state[entry[d]] # "building" => notified[d]
            /\ state[entry[d]] = "ready" => segment[entry[d]] = key[d]
        BY <3>2 DEF IInv, WaiterInv
      <3>7. \A b \in Client : pc'[b] = "build" /\ entry'[b] = entry'[d] => key'[b] = key'[d]
        BY <2>1, <3>2, <3>4, <3>6
      <3>8. state'[entry'[d]] = "building" =>
              \E b \in Client : pc'[b] = "build" /\ entry'[b] = entry'[d]
        BY <3>2, <3>3, <3>5, <3>6
      <3>9. /\ state'[entry'[d]] # "building" => notified'[d]
            /\ state'[entry'[d]] = "ready" => segment'[entry'[d]] = key'[d]
        BY <2>1, <3>2, <3>3, <3>6
      <3> QED
        BY <3>7, <3>8, <3>9
    <2> QED
      BY <2>3, <2>5, <2>6, <2>7 DEF IInv
  <1>4. CASE found[key[c]] # Nothing
    <2>1. /\ cache' = found
          /\ entry' = [entry EXCEPT ![c] = cache[key[c]]]
          /\ pc' = [pc EXCEPT ![c] = "wait"]
          /\ state' = state /\ segment' = segment
          /\ cache[key[c]] \in Entry
      BY <1>1, <1>2, <1>4 DEF Lookup, TypeOK
    <2>2. TypeOK'
      BY <1>1, <1>2, <2>1 DEF TypeOK, PC
    <2>3. \A b \in Client : b # c => entry'[b] = entry[b] /\ pc'[b] = pc[b] /\ notified'[b] = notified[b]
      BY <1>1, <2>1 DEF TypeOK
    <2>4. pc'[c] = "wait" /\ entry'[c] = cache[key[c]]
      BY <1>1, <2>1 DEF TypeOK
    <2>5. InFlightHasBuilder'
      <3> SUFFICES ASSUME NEW k \in Key, cache'[k] # Nothing
                   PROVE  \E b \in Client : pc'[b] = "build" /\ entry'[b] = cache'[k] /\ key'[b] = k
        BY DEF InFlightHasBuilder
      <3>1. cache'[k] = cache[k]
        BY <1>2, <2>1
      <3>2. PICK b \in Client : pc[b] = "build" /\ entry[b] = cache[k] /\ key[b] = k
        BY <3>1 DEF IInv, InFlightHasBuilder
      <3> QED
        BY <2>3, <3>1, <3>2
    <2>6. BuilderInv'
      BY <2>1, <2>3, <2>4 DEF IInv, BuilderInv
    <2>7. WaiterInv'
      <3>1. PICK b \in Client : pc[b] = "build" /\ entry[b] = cache[key[c]] /\ key[b] = key[c]
        BY <1>1, <1>2, <1>4 DEF IInv, InFlightHasBuilder
      <3>2. state[cache[key[c]]] = "building"
        BY <3>1 DEF IInv, BuilderInv
      <3>3. \A d \in Client : pc'[d] = "build" => d # c /\ pc[d] = "build" /\ entry'[d] = entry[d]
        BY <2>3, <2>4
      <3>4. \A d \in Client : pc[d] = "build" => pc'[d] = "build" /\ entry'[d] = entry[d]
        BY <2>3
      <3>5. \A d \in Client : pc'[d] = "build" /\ entry'[d] = entry'[c] => d = b
        BY <2>4, <3>1, <3>3 DEF IInv, BuilderInv
      <3> SUFFICES ASSUME NEW d \in Client, pc'[d] = "wait"
                   PROVE  /\ \A a \in Client : pc'[a] = "build" /\ entry'[a] = entry'[d] => key'[a] = key'[d]
                          /\ state'[entry'[d]] = "building" =>
                               \E a \in Client : pc'[a] = "build" /\ entry'[a] = entry'[d]
                          /\ state'[entry'[d]] # "building" => notified'[d]
                          /\ state'[entry'[d]] = "ready" => segment'[entry'[d]] = key'[d]
        BY DEF WaiterInv
      <3>6. CASE d = c
        BY <2>1, <2>4, <3>1, <3>2, <3>4, <3>5, <3>6
      <3>7. CASE d # c
        <4>1. pc[d] = "wait" /\ entry'[d] = entry[d] /\ notified'[d] = notified[d]
          BY <2>3, <3>7
        <4>2. /\ \A a \in Client : pc[a] = "build" /\ entry[a] = entry[d] => key[a] = key[d]
              /\ state[entry[d]] = "building" =>
                   \E a \in Client : pc[a] = "build" /\ entry[a] = entry[d]
              /\ state[entry[d]] # "building" => notified[d]
              /\ state[entry[d]] = "ready" => segment[entry[d]] = key[d]
          BY <4>1 DEF IInv, WaiterInv
        <4>3. \A a \in Client : pc'[a] = "build" /\ entry'[a] = entry[d] => pc[a] = "build" /\ entry[a] = entry[d]
          BY <3>3
        <4>4. \A a \in Client : pc[a] = "build" /\ entry[a] = entry[d] => pc'[a] = "build" /\ entry'[a] = entry[d]
          BY <3>4
        <4>5. state' = state /\ segment' = segment /\ key' = key
          BY <2>1
        <4>6. \A a \in Client : pc'[a] = "build" /\ entry'[a] = entry'[d] => key'[a] = key'[d]
          BY <4>1, <4>2, <4>3, <4>5
        <4>7. state'[entry'[d]] = "building" => \E a \in Client : pc'[a] = "build" /\ entry'[a] = entry'[d]
          BY <4>1, <4>2, <4>4, <4>5
        <4>8. /\ state'[entry'[d]] # "building" => notified'[d]
              /\ state'[entry'[d]] = "ready" => segment'[entry'[d]] = key'[d]
          BY <4>1, <4>2, <4>5
        <4> QED
          BY <4>6, <4>7, <4>8
      <3> QED
        BY <3>6, <3>7
    <2> QED
      BY <2>2, <2>5, <2>6, <2>7 DEF IInv
  <1> QED
    BY <1>3, <1>4

\* The end of a scan, whatever it was.
LEMMA BuildIInv ==
  ASSUME IInv, NEW c \in Client, Build(c)
  PROVE  IInv'
  <1> USE SegmentsAssumption
  <1>1. /\ pc[c] = "build" /\ Return(c) /\ NotifyAll
        /\ cache' = [cache EXCEPT ![key[c]] = Nothing]
    BY DEF Build, Publish, FailBuild
  <1>2. /\ TypeOK /\ key[c] \in Key /\ entry[c] \in Entry
    BY <1>1 DEF IInv, TypeOK, PC
  <1>3. \/ /\ state' = [state EXCEPT ![entry[c]] = "ready"]
           /\ segment' = [segment EXCEPT ![entry[c]] = key[c]]
        \/ /\ state' = [state EXCEPT ![entry[c]] = "failed"]
           /\ segment' = segment
    BY DEF Build, Publish, FailBuild
  <1>4. TypeOK'
    BY <1>1, <1>2, <1>3 DEF TypeOK, PC, Return, NotifyAll
  <1>5. \A b \in Client : b # c => pc'[b] = pc[b] /\ entry'[b] = entry[b] /\ key'[b] = key[b]
    BY <1>1, <1>2 DEF TypeOK, Return
  <1>6. pc'[c] = "idle"
    BY <1>1, <1>2 DEF TypeOK, Return
  <1>7. \A b \in Client : b # c /\ pc[b] = "build" => entry[b] # entry[c]
    BY <1>1 DEF IInv, BuilderInv
  <1>8. InFlightHasBuilder'
    <2> SUFFICES ASSUME NEW k \in Key, cache'[k] # Nothing
                 PROVE  \E b \in Client : pc'[b] = "build" /\ entry'[b] = cache'[k] /\ key'[b] = k
      BY DEF InFlightHasBuilder
    <2>1. k # key[c] /\ cache'[k] = cache[k]
      BY <1>1, <1>2 DEF TypeOK
    <2>2. PICK b \in Client : pc[b] = "build" /\ entry[b] = cache[k] /\ key[b] = k
      BY <2>1 DEF IInv, InFlightHasBuilder
    <2>3. b # c
      BY <2>1, <2>2
    <2> QED
      BY <1>5, <2>1, <2>2, <2>3
  <1>9. BuilderInv'
    <2>1. \A b \in Client : pc'[b] = "build" => b # c /\ pc[b] = "build" /\ entry'[b] = entry[b]
      BY <1>5, <1>6
    <2>2. \A b \in Client : pc'[b] = "build" => state'[entry'[b]] = "building"
      <3> SUFFICES ASSUME NEW b \in Client, pc'[b] = "build" PROVE state'[entry'[b]] = "building"
        OBVIOUS
      <3>1. entry[b] # entry[c] /\ entry[b] \in Entry /\ state[entry[b]] = "building"
        BY <1>2, <1>7, <2>1 DEF IInv, BuilderInv, TypeOK
      <3> QED
        BY <1>2, <1>3, <2>1, <3>1 DEF TypeOK
    <2> QED
      BY <2>1, <2>2 DEF IInv, BuilderInv
  <1>10. WaiterInv'
    <2> SUFFICES ASSUME NEW d \in Client, pc'[d] = "wait"
                 PROVE  /\ \A b \in Client : pc'[b] = "build" /\ entry'[b] = entry'[d] => key'[b] = key'[d]
                        /\ state'[entry'[d]] = "building" =>
                             \E b \in Client : pc'[b] = "build" /\ entry'[b] = entry'[d]
                        /\ state'[entry'[d]] # "building" => notified'[d]
                        /\ state'[entry'[d]] = "ready" => segment'[entry'[d]] = key'[d]
      BY DEF WaiterInv
    <2>1. /\ d # c /\ pc[d] = "wait" /\ entry'[d] = entry[d] /\ key'[d] = key[d]
          /\ entry[d] \in Entry
      BY <1>2, <1>5, <1>6 DEF TypeOK
    <2>2. notified'[d]
      BY <1>1, <2>1 DEF NotifyAll
    <2>3. \A b \in Client : pc'[b] = "build" => pc[b] = "build" /\ entry'[b] = entry[b] /\ key'[b] = key[b]
      BY <1>5, <1>6
    <2>4. CASE entry[d] = entry[c]
      <3>1. key[c] = key[d]
        BY <1>1, <2>1, <2>4 DEF IInv, WaiterInv
      <3>2. \A b \in Client : pc'[b] = "build" => entry'[b] # entry[d]
        BY <1>5, <1>6, <1>7, <2>4
      <3>3. state'[entry[d]] # "building" /\ (state'[entry[d]] = "ready" => segment'[entry[d]] = key[d])
        BY <1>2, <1>3, <2>1, <2>4, <3>1 DEF TypeOK
      <3> QED
        BY <2>1, <2>2, <3>2, <3>3
    <2>5. CASE entry[d] # entry[c]
      <3>1. state'[entry[d]] = state[entry[d]] /\ segment'[entry[d]] = segment[entry[d]]
        BY <1>2, <1>3, <2>1, <2>5 DEF TypeOK
      <3>2. \A b \in Client : pc[b] = "build" /\ entry[b] = entry[d] => pc'[b] = "build" /\ entry'[b] = entry[d]
        BY <1>5, <2>5
      <3> QED
        BY <2>1, <2>2, <2>3, <3>1, <3>2 DEF IInv, WaiterInv
    <2> QED
      BY <2>4, <2>5
  <1> QED
    BY <1>4, <1>8, <1>9, <1>10 DEF IInv

\* A waiter that is awake returns what it holds, or looks again.
LEMMA AwakeIInv ==
  ASSUME IInv, NEW c \in Client, Awake(c)
  PROVE  IInv'
  <1> USE SegmentsAssumption
  <1>1. pc[c] = "wait" /\ notified' = [notified EXCEPT ![c] = FALSE]
    BY DEF Awake
  <1>2. CASE state[entry[c]] # "ready"
    <2>1. Lookup(c, AfterFailure(c)) /\ key' = key
      BY <1>2 DEF Awake
    <2>2. AfterFailure(c) = cache \/ AfterFailure(c) = [cache EXCEPT ![key[c]] = Nothing]
      BY DEF AfterFailure
    <2> QED
      BY <1>1, <2>1, <2>2, LookupIInv
  <1>3. CASE state[entry[c]] = "ready"
    <2>1. Return(c) /\ UNCHANGED <<cache, state, segment>>
      BY <1>3 DEF Awake
    <2>2. TypeOK /\ TypeOK'
      BY <1>1, <2>1 DEF IInv, TypeOK, PC, Return
    <2>3. \A b \in Client : b # c => /\ pc'[b] = pc[b] /\ entry'[b] = entry[b]
                                    /\ key'[b] = key[b] /\ notified'[b] = notified[b]
      BY <1>1, <2>1, <2>2 DEF TypeOK, Return
    <2>4. pc'[c] = "idle"
      BY <2>1, <2>2 DEF TypeOK, Return
    <2>5. \A b \in Client : pc[b] = "build" <=> pc'[b] = "build"
      BY <1>1, <2>3, <2>4
    <2>6. \A b \in Client : pc[b] = "build" \/ pc'[b] = "wait" => b # c
      BY <1>1, <2>4
    <2>7. InFlightHasBuilder'
      BY <2>1, <2>3, <2>5, <2>6 DEF IInv, InFlightHasBuilder
    <2>8. BuilderInv'
      BY <2>1, <2>3, <2>5, <2>6 DEF IInv, BuilderInv
    <2>9. WaiterInv'
      <3> SUFFICES ASSUME NEW d \in Client, pc'[d] = "wait"
                   PROVE  /\ \A b \in Client : pc'[b] = "build" /\ entry'[b] = entry'[d] => key'[b] = key'[d]
                          /\ state'[entry'[d]] = "building" =>
                               \E b \in Client : pc'[b] = "build" /\ entry'[b] = entry'[d]
                          /\ state'[entry'[d]] # "building" => notified'[d]
                          /\ state'[entry'[d]] = "ready" => segment'[entry'[d]] = key'[d]
        BY DEF WaiterInv
      <3>1. /\ pc[d] = "wait" /\ entry'[d] = entry[d]
            /\ key'[d] = key[d] /\ notified'[d] = notified[d]
        BY <2>3, <2>6
      <3>2. \A b \in Client : pc'[b] = "build" =>
              pc[b] = "build" /\ entry'[b] = entry[b] /\ key'[b] = key[b]
        BY <2>3, <2>5, <2>6
      <3>3. \A b \in Client : pc[b] = "build" => pc'[b] = "build" /\ entry'[b] = entry[b]
        BY <2>3, <2>5, <2>6
      <3> QED
        BY <2>1, <3>1, <3>2, <3>3 DEF IInv, WaiterInv
    <2> QED
      BY <2>2, <2>7, <2>8, <2>9 DEF IInv
  <1> QED
    BY <1>2, <1>3

LEMMA StepIInv ==
  ASSUME IInv, [Next]_vars
  PROVE  IInv'
  <1> USE SegmentsAssumption
  <1>1. ASSUME NEW c \in Client, NEW k \in Key, BeginCall(c, k) PROVE IInv'
    <2>1. TypeOK'
      BY <1>1 DEF IInv, TypeOK, BeginCall, PC
    <2>2. InFlightHasBuilder' /\ BuilderInv' /\ WaiterInv'
      BY <1>1 DEF IInv, TypeOK, BeginCall, InFlightHasBuilder, BuilderInv, WaiterInv
    <2> QED
      BY <2>1, <2>2 DEF IInv
  <1>2. ASSUME NEW c \in Client, Reserve(c) PROVE IInv'
    <2>1. pc[c] = "reserve" /\ Lookup(c, cache) /\ key' = key /\ notified' = notified
      BY <1>2 DEF Reserve
    <2>2. notified' = [notified EXCEPT ![c] = FALSE]
      BY <2>1 DEF IInv, TypeOK
    <2> QED
      BY <2>1, <2>2, LookupIInv
  <1>3. ASSUME NEW c \in Client, Wake(c) \/ WakeSpuriously(c) PROVE IInv'
    BY <1>3, AwakeIInv DEF Wake, WakeSpuriously
  <1>4. ASSUME NEW c \in Client, Build(c) PROVE IInv'
    BY <1>4, BuildIInv
  <1>5. CASE UNCHANGED vars
    BY <1>5 DEF IInv, TypeOK, InFlightHasBuilder, BuilderInv, WaiterInv, vars
  <1> QED
    BY <1>1, <1>2, <1>3, <1>4, <1>5 DEF Next

LEMMA Invariance == Spec => []IInv
  BY InitIInv, StepIInv, PTL DEF Spec

-----------------------------------------------------------------------------

\* The variables stay in their types (DmlSegmentCacheEntry, ReserveDmlSegment).
THEOREM TypeCorrect == Spec => []TypeOK
  BY Invariance, PTL DEF IInv

\* An entry in the map is being built by somebody, for its key
\* (ReserveDmlSegment, PublishDmlSegment, FailDmlSegment).
THEOREM EntriesAreBuilt == Spec => []InFlightHasBuilder
  BY Invariance, PTL DEF IInv

\* Nobody waits for nobody: a wait has a builder or a notification
\* (ReserveDmlSegment).
THEOREM NobodyStranded == Spec => []WaitHasEnd
  <1>1. IInv => WaitHasEnd
    BY DEF IInv, WaiterInv, WaitHasEnd
  <1> QED
    BY <1>1, Invariance, PTL

\* A call that waited gets the complete segment of its own key
\* (CdcChangesInit).
THEOREM WaitersServed == Spec => WaiterGetsSegment
  <1> DEFINE Served(c) == pc[c] = "wait" /\ pc'[c] = "idle" =>
                            state[entry[c]] = "ready" /\ segment[entry[c]] = key[c]
  <1>1. ASSUME IInv, [Next]_vars, NEW c \in Client, pc[c] = "wait", pc'[c] = "idle"
        PROVE  state[entry[c]] = "ready" /\ segment[entry[c]] = key[c]
    <2>1. state[entry[c]] = "ready" => segment[entry[c]] = key[c]
      BY <1>1 DEF IInv, WaiterInv
    <2>2. pc \in [Client -> PC]
      BY <1>1 DEF IInv, TypeOK
    <2>3. ASSUME NEW d \in Client, Awake(d) PROVE state[entry[c]] = "ready"
      <3>1. CASE d = c
        BY <1>1, <2>2, <2>3, <3>1 DEF Awake, Lookup
      <3>2. CASE d # c
        BY <1>1, <2>2, <2>3, <3>2 DEF Awake, Lookup, Return
      <3> QED
        BY <3>1, <3>2
    <2>4. ~\E d \in Client : (\E k \in Key : BeginCall(d, k)) \/ Reserve(d) \/ Build(d)
      BY <1>1, <2>2 DEF BeginCall, Reserve, Lookup, Build, Publish, FailBuild, Return
    <2>5. pc' # pc
      BY <1>1
    <2> QED
      BY <1>1, <2>1, <2>3, <2>4, <2>5 DEF Next, Wake, WakeSpuriously, vars
  <1>2. IInv /\ [Next]_vars => [\A c \in Client : Served(c)]_vars
    BY <1>1
  <1> QED
    BY <1>2, Invariance, PTL DEF Spec, WaiterGetsSegment
=============================================================================
