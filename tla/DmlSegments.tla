---------------------------- MODULE DmlSegments ----------------------------
(***************************************************************************)
(* The segments of cdc_dml_changes_read, _listen and _query: calls of one  *)
(* process that ask for the same table, range, schema version and change   *)
(* types at once share one scan (dml.cpp).  DML_SEGMENT_CACHE maps the key *)
(* of a segment to its entry while somebody builds it; the others wait on  *)
(* one condition variable for all keys, holding on to the entry they       *)
(* found, whatever becomes of the map.                                     *)
(***************************************************************************)
CONSTANTS
  Client,   \* calls of the process, each on a thread of its own
  Key,      \* keys of segments
  Entry,    \* entries that can be allocated
  Nothing   \* no key, no entry, no segment

ASSUME SegmentsAssumption == Nothing \notin Key \union Entry

VARIABLES
  cache,    \* DML_SEGMENT_CACHE: cache[k], an entry or Nothing
  state,    \* state[e]: "building", "ready" or "failed"
  segment,  \* segment[e]: whose rows the entry has
  pc,       \* pc[c]: what the call does next
  key,      \* key[c]: the key of the segment it needs
  entry,    \* entry[c]: the entry it builds or waits for
  notified  \* notified[c]: waiting, and notified

vars == <<cache, state, segment, pc, key, entry, notified>>

PC == {"idle", "reserve", "build", "wait"}

\* The variables stay in their types; a call has a key, and an entry once it
\* builds or waits; a condition variable keeps no notification.
TypeOK ==
  /\ cache \in [Key -> Entry \union {Nothing}]
  /\ state \in [Entry -> {"building", "ready", "failed"}]
  /\ segment \in [Entry -> Key \union {Nothing}]
  /\ pc \in [Client -> PC]
  /\ key \in [Client -> Key \union {Nothing}]
  /\ entry \in [Client -> Entry \union {Nothing}]
  /\ notified \in [Client -> BOOLEAN]
  /\ \A c \in Client :
       /\ pc[c] = "idle" <=> key[c] = Nothing
       /\ pc[c] \in {"build", "wait"} <=> entry[c] # Nothing
       /\ notified[c] => pc[c] = "wait"

Init ==
  /\ cache = [k \in Key |-> Nothing]
  /\ state = [e \in Entry |-> "failed"]
  /\ segment = [e \in Entry |-> Nothing]
  /\ pc = [c \in Client |-> "idle"]
  /\ key = [c \in Client |-> Nothing]
  /\ entry = [c \in Client |-> Nothing]
  /\ notified = [c \in Client |-> FALSE]

-----------------------------------------------------------------------------
(* Helpers *)

\* Nobody but c has a pointer to e: make_shared may return it.
Unreferenced(c, e) ==
  /\ \A k \in Key : cache[k] # e
  /\ \A d \in Client \ {c} : entry[d] # e

\* The call returns the segment of its entry, or throws.
Return(c) ==
  /\ pc' = [pc EXCEPT ![c] = "idle"]
  /\ key' = [key EXCEPT ![c] = Nothing]
  /\ entry' = [entry EXCEPT ![c] = Nothing]

\* Mutant of NotifyAll: notify_one.
NotifyOne ==
  \/ \E d \in Client :
       /\ pc[d] = "wait"
       /\ notified' = [notified EXCEPT ![d] = TRUE]
  \/ /\ \A d \in Client : pc[d] # "wait"
     /\ UNCHANGED notified

\* DML_SEGMENT_CACHE_CV.notify_all: everybody who waits now, for any key.
NotifyAll == notified' = [d \in Client |-> notified[d] \/ pc[d] = "wait"]

\* One turn of the loop of ReserveDmlSegment: found is the map it looks at.
\* Absent, the caller builds the segment; else it waits for the entry, which is
\* never ready, since what is published leaves the map.
Lookup(c, found) ==
  \/ /\ found[key[c]] = Nothing
     /\ \E e \in Entry :
          /\ Unreferenced(c, e)
          /\ cache' = [found EXCEPT ![key[c]] = e]
          /\ state' = [state EXCEPT ![e] = "building"]
          /\ segment' = [segment EXCEPT ![e] = Nothing]
          /\ entry' = [entry EXCEPT ![c] = e]
     /\ pc' = [pc EXCEPT ![c] = "build"]
  \/ /\ found[key[c]] # Nothing
     /\ cache' = found
     /\ entry' = [entry EXCEPT ![c] = found[key[c]]]
     /\ pc' = [pc EXCEPT ![c] = "wait"]
     /\ UNCHANGED <<state, segment>>

-----------------------------------------------------------------------------
(* Actions; each but the scan is a critical section of the mutex *)

BeginCall(c, k) ==
  /\ pc[c] = "idle"
  /\ pc' = [pc EXCEPT ![c] = "reserve"]
  /\ key' = [key EXCEPT ![c] = k]
  /\ UNCHANGED <<cache, state, segment, entry, notified>>

Reserve(c) ==
  /\ pc[c] = "reserve"
  /\ Lookup(c, cache)
  /\ UNCHANGED <<key, notified>>

\* A waiter erases the key of an entry that failed, whichever entry is under
\* that key by now.
AfterFailure(c) ==
  IF state[entry[c]] = "failed" THEN [cache EXCEPT ![key[c]] = Nothing] ELSE cache

\* Mutant of Awake: the waiter takes what it finds.
AwakeWithAnything(c) ==
  /\ pc[c] = "wait"
  /\ notified' = [notified EXCEPT ![c] = FALSE]
  /\ Return(c)
  /\ UNCHANGED <<cache, state, segment>>

\* The wait returns: the entry is ready, or the loop goes on.
Awake(c) ==
  /\ pc[c] = "wait"
  /\ notified' = [notified EXCEPT ![c] = FALSE]
  /\ \/ /\ state[entry[c]] = "ready"
        /\ Return(c)
        /\ UNCHANGED <<cache, state, segment>>
     \/ /\ state[entry[c]] # "ready"
        /\ Lookup(c, AfterFailure(c))
        /\ UNCHANGED key

Wake(c) == notified[c] /\ Awake(c)

\* Condition variables may return without a notification.
WakeSpuriously(c) == ~notified[c] /\ Awake(c)

\* Mutant of Publish: the entry stays in the map until its builder has
\* returned its rows, and forgets it.
PublishKeepingKey(c) ==
  /\ pc[c] = "build"
  /\ segment' = [segment EXCEPT ![entry[c]] = key[c]]
  /\ state' = [state EXCEPT ![entry[c]] = "ready"]
  /\ NotifyAll
  /\ Return(c)
  /\ UNCHANGED cache

\* The scan has succeeded: PublishDmlSegment.
Publish(c) ==
  /\ pc[c] = "build"
  /\ segment' = [segment EXCEPT ![entry[c]] = key[c]]
  /\ state' = [state EXCEPT ![entry[c]] = "ready"]
  /\ cache' = [cache EXCEPT ![key[c]] = Nothing]
  /\ NotifyAll
  /\ Return(c)

\* Mutant of FailBuild: only the builder's caller hears of it.
FailSilently(c) ==
  /\ pc[c] = "build"
  /\ state' = [state EXCEPT ![entry[c]] = "failed"]
  /\ cache' = [cache EXCEPT ![key[c]] = Nothing]
  /\ Return(c)
  /\ UNCHANGED <<segment, notified>>

\* The scan has failed: FailDmlSegment, and the exception is thrown on.
FailBuild(c) ==
  /\ pc[c] = "build"
  /\ state' = [state EXCEPT ![entry[c]] = "failed"]
  /\ cache' = [cache EXCEPT ![key[c]] = Nothing]
  /\ NotifyAll
  /\ Return(c)
  /\ UNCHANGED segment

Build(c) == Publish(c) \/ FailBuild(c)

Next ==
  \E c \in Client :
    \/ \E k \in Key : BeginCall(c, k)
    \/ Reserve(c) \/ Wake(c) \/ WakeSpuriously(c) \/ Build(c)

Spec == Init /\ [][Next]_vars

\* A thread takes the mutex when it wants it and has been notified, and a scan
\* comes to its end, one way or the other.
Fairness == \A c \in Client : WF_vars(Reserve(c)) /\ WF_vars(Wake(c)) /\ WF_vars(Build(c))

FairSpec == Spec /\ Fairness

-----------------------------------------------------------------------------
(* Properties *)

\* Whoever finds an entry in the map waits for it, so it has a builder that is
\* still at work, although waiters and builders erase keys under which there
\* may be another entry by then (dml.cpp:554-581).
InFlightHasBuilder ==
  \A k \in Key :
    cache[k] # Nothing =>
      \E b \in Client : pc[b] = "build" /\ entry[b] = cache[k] /\ key[b] = k

\* A wait has a builder, in the map or not, or its end has been notified: no
\* notification is lost between the look and the wait (dml.cpp:550-577).
WaitHasEnd ==
  \A c \in Client :
    pc[c] = "wait" =>
      \/ notified[c]
      \/ \E b \in Client : pc[b] = "build" /\ entry[b] = entry[c] /\ key[b] = key[c]

\* A call that waited returns the segment of its own key, and a complete one;
\* it never fails because its builder has, and the entry it holds is not
\* another one by then (dml.cpp:550-560, 911-926).
WaiterGetsSegment ==
  [][\A c \in Client :
       pc[c] = "wait" /\ pc'[c] = "idle" =>
         state[entry[c]] = "ready" /\ segment[entry[c]] = key[c]]_vars

\* When no more calls come, those that are there end, however many scans fail.
EveryCallEnds ==
  <>[][\A c \in Client : pc[c] = "idle" => pc'[c] = "idle"]_vars
    => <>[](\A c \in Client : pc[c] = "idle")

\* No call waits for ever while others come and go.  Not so: once a key has
\* been erased under another builder, its waiters are woken by the others and
\* may find a newer entry each time.
NoCallStarves == \A c \in Client : pc[c] # "idle" ~> pc[c] = "idle"

\* No two calls build the same segment at once.  Not so, see AfterFailure.
OneBuilder ==
  \A c, d \in Client : pc[c] = "build" /\ pc[d] = "build" /\ key[c] = key[d] => c = d
=============================================================================
