---------------------------- MODULE SharedStreams ----------------------------
(* Streams of an agent instance: StreamRegistry, the cache of shared handles *)
(* and createStream, as called by the handlers of several tasks.            *)
(*                                                                          *)
(* A createStream call names what it makes: the registry entry it creates   *)
(* (and the StreamClient installed there), the dedicated stream it opens    *)
(* and the StreamObject it builds.                                          *)
EXTENDS Naturals, FiniteSets

CONSTANTS
  Tasks,     \* task ids
  Shared,    \* streams the card declares with shared affinity
  Calls,     \* createStream calls, each a task and a number
  None       \* no entry, no handle

ASSUME CallsAssumption ==
  Calls \subseteq Tasks \X Nat /\ None \notin Shared \cup Calls

TaskOf(c) == c[1]
StreamIds == Shared \cup Calls

VARIABLES
  registry,  \* StreamRegistry.entries: per stream id, its entry
  entries,   \* refs, setup (the setupPromise), external; also of removed entries
  ended,     \* StreamClients that end() was called on
  handles,   \* sharedStreamHandles
  calls      \* progress of each createStream call

streamVars == <<registry, entries, ended, handles, calls>>

NoCall == [stage |-> "unused", stream |-> None, entry |-> None, handle |-> None]

StreamsInit ==
  /\ registry = [s \in StreamIds |-> None]
  /\ entries = [c \in Calls |-> [refs |-> {}, setup |-> "pending", external |-> FALSE]]
  /\ ended = {}
  /\ handles = [s \in Shared |-> [t \in Tasks |-> None]]
  /\ calls = [c \in Calls |-> NoCall]

HasClient(e) == entries[e].setup = "ready" /\ ~entries[e].external
Holds(t, s) == s # None /\ registry[s] # None /\ t \in entries[registry[s]].refs
LastRef(t, s) == Holds(t, s) /\ entries[registry[s]].refs = {t}
EmbeddedStreams == {s \in StreamIds : registry[s] # None /\ ~entries[registry[s]].external}

Cached(s, t) == IF s \in Shared THEN handles[s][t] ELSE None
Cache(s, t, h) ==
  handles' = IF s \in Shared THEN [handles EXCEPT ![s][t] = h] ELSE handles

-----------------------------------------------------------------------------
(* Cleanup.                                                                  *)

\* The task's references to streams S go, and with the last one the entry.
Unref(t, S) ==
  LET held == {s \in S : Holds(t, s)} IN
  /\ registry' = [s \in StreamIds |-> IF s \in held /\ LastRef(t, s) THEN None ELSE registry[s]]
  /\ entries' = [c \in Calls |-> IF \E s \in held : registry[s] = c
                                 THEN [entries[c] EXCEPT !.refs = @ \ {t}] ELSE entries[c]]

WritersOf(S) == {registry[s] : s \in {x \in S : registry[x] # None /\ HasClient(registry[x])}}

ReleaseAllStreamsForTask(t) ==
  /\ handles' = [s \in Shared |-> [handles[s] EXCEPT ![t] = None]]
  /\ Unref(t, StreamIds)
  /\ ended' = ended \cup WritersOf({s \in StreamIds : LastRef(t, s)})

\* Mutant of ReleaseStream: any holder's end() ends the writer.
ReleaseStream_EndsWriter(s, t) ==
  /\ Cache(s, t, None)
  /\ Unref(t, {s})
  /\ ended' = ended \cup WritersOf({s})

\* StreamObject.end(): looked up by stream id, whichever entry holds it now.
ReleaseStream(s, t) ==
  /\ Cache(s, t, None)
  /\ Unref(t, {s})
  /\ ended' = ended \cup WritersOf({x \in {s} : LastRef(t, x)})

\* What a failed setup or activation undoes; it ends no client.
RollBack(s, t) ==
  /\ Cache(s, t, None)
  /\ Unref(t, {s})
  /\ UNCHANGED ended

RemoveStream(s) ==
  /\ registry' = [registry EXCEPT ![s] = None]
  /\ handles' = [x \in Shared |-> IF x = s THEN [t \in Tasks |-> None] ELSE handles[x]]
  /\ ended' = ended \cup WritersOf({s})
  /\ UNCHANGED <<entries, calls>>

ClearStreams ==
  /\ registry' = [s \in StreamIds |-> None]
  /\ handles' = [s \in Shared |-> [t \in Tasks |-> None]]
  /\ ended' = ended \cup WritersOf(StreamIds)
  /\ UNCHANGED <<entries, calls>>

-----------------------------------------------------------------------------
(* createStream up to its first await.                                       *)

Settle(c, stage, h) == calls' = [calls EXCEPT ![c].stage = stage, ![c].handle = h]
Done == [NoCall EXCEPT !.stage = "done"]
Throw(c) == calls' = [calls EXCEPT ![c] = Done]
Wait(c, stage, s, e) ==
  calls' = [calls EXCEPT ![c] = [stage |-> stage, stream |-> s, entry |-> e, handle |-> None]]
Answer(c, s, e, h) ==
  calls' = [calls EXCEPT ![c] = [stage |-> "returned", stream |-> s, entry |-> e, handle |-> h]]

\* The first acquirer makes the entry with its setupPromise.
AcquireNew(c, s, ext) ==
  /\ registry[s] = None
  /\ registry' = [registry EXCEPT ![s] = c]
  /\ entries' = [entries EXCEPT ![c] = [refs |-> {TaskOf(c)}, setup |-> "pending", external |-> ext]]
  /\ Wait(c, "setup", s, c)
  /\ UNCHANGED <<ended, handles>>

\* A task new to the entry takes its reference before it waits.
AcquireAttach(c, s) ==
  LET e == registry[s] IN
  /\ e # None /\ TaskOf(c) \notin entries[e].refs
  /\ entries' = [entries EXCEPT ![e].refs = @ \cup {TaskOf(c)}]
  /\ Wait(c, IF entries[e].setup = "ready" THEN "activating" ELSE "attaching", s, e)
  /\ UNCHANGED <<registry, ended, handles>>

\* The task's own entry, with no handle cached: wait for the setup, and without
\* one to wait for wrap the client again.
AcquireAgain(c, s) ==
  LET e == registry[s] IN
  /\ e # None /\ TaskOf(c) \in entries[e].refs
  /\ IF entries[e].setup = "ready"
     THEN Answer(c, s, e, c) /\ Cache(s, TaskOf(c), c)
     ELSE Wait(c, "rejoining", s, e) /\ UNCHANGED handles
  /\ UNCHANGED <<registry, entries, ended>>

CreateShared(c, s) ==
  /\ calls[c].stage = "unused"
  /\ IF Cached(s, TaskOf(c)) # None
     THEN /\ Answer(c, s, calls[Cached(s, TaskOf(c))].entry, Cached(s, TaskOf(c)))
          /\ UNCHANGED <<registry, entries, ended, handles>>
     ELSE AcquireNew(c, s, FALSE) \/ AcquireAttach(c, s) \/ AcquireAgain(c, s)

\* Dedicated streams have an id of their own; only they may be external.
CreateOwn(c, ext) == calls[c].stage = "unused" /\ AcquireNew(c, c, ext)

-----------------------------------------------------------------------------
(* What happens after the awaits.                                            *)

\* The first acquirer's handshake succeeds: the client goes on the entry this
\* call made, registered or not, and its handle in the cache.
SetupSucceeds(c) ==
  /\ calls[c].stage = "setup"
  /\ entries' = [entries EXCEPT ![c].setup = "ready"]
  /\ IF entries[c].external THEN UNCHANGED handles ELSE Cache(calls[c].stream, TaskOf(c), c)
  /\ Settle(c, "returned", c)
  /\ UNCHANGED <<registry, ended>>

\* Mutant of SetupFails: throws and undoes without rejectSetup.
SetupFails_NoReject(c) ==
  /\ calls[c].stage = "setup"
  /\ Throw(c)
  /\ RollBack(calls[c].stream, TaskOf(c))

\* It fails: setupPromise rejects, the reference under that stream id goes.
SetupFails(c) ==
  LET s == calls[c].stream
      t == TaskOf(c)
      now == registry[s] IN
  /\ calls[c].stage = "setup"
  /\ Cache(s, t, None)
  /\ registry' = [registry EXCEPT ![s] = IF LastRef(t, s) THEN None ELSE @]
  /\ entries' = [e \in Calls |->
       [entries[e] EXCEPT !.setup = IF e = c THEN "failed" ELSE @,
                          !.refs = IF e = now THEN @ \ {t} ELSE @]]
  /\ Throw(c)
  /\ UNCHANGED ended

AttachWakes(c) ==
  LET e == calls[c].entry IN
  /\ calls[c].stage = "attaching"
  /\ \/ /\ entries[e].setup = "ready"
        /\ Settle(c, "activating", None)
        /\ UNCHANGED <<registry, entries, ended, handles>>
     \/ /\ entries[e].setup = "failed"
        /\ Throw(c)
        /\ RollBack(calls[c].stream, TaskOf(c))

\* publishSharedActivate returns.
ActivateSucceeds(c) ==
  /\ calls[c].stage = "activating"
  /\ Settle(c, "returned", c)
  /\ Cache(calls[c].stream, TaskOf(c), c)
  /\ UNCHANGED <<registry, entries, ended>>

ActivateFails(c) ==
  /\ calls[c].stage = "activating"
  /\ Throw(c)
  /\ RollBack(calls[c].stream, TaskOf(c))

\* A second call of the task wakes behind the setup: the handle cached by then,
\* or one of its own.
RejoinWakes(c) ==
  LET e == calls[c].entry
      h == Cached(calls[c].stream, TaskOf(c)) IN
  /\ calls[c].stage = "rejoining"
  /\ \/ /\ entries[e].setup = "failed"
        /\ Throw(c)
        /\ UNCHANGED handles
     \/ /\ entries[e].setup = "ready" /\ h # None
        /\ Settle(c, "returned", h)
        /\ UNCHANGED handles
     \/ /\ entries[e].setup = "ready" /\ h = None
        /\ Settle(c, "returned", c)
        /\ Cache(calls[c].stream, TaskOf(c), c)
  /\ UNCHANGED <<registry, entries, ended>>

CallSteps(c) ==
  \/ SetupSucceeds(c)
  \/ SetupFails(c)
  \/ AttachWakes(c)
  \/ ActivateSucceeds(c)
  \/ ActivateFails(c)
  \/ RejoinWakes(c)

\* The application ends the handle a call returned; an external one touches
\* nothing of the agent's.
EndHandle(c) ==
  LET h == calls[c].handle IN
  /\ calls[c].stage = "returned" /\ ~entries[calls[c].entry].external
  /\ calls' = [d \in Calls |-> IF calls[d].handle = h THEN Done ELSE calls[d]]
  /\ ReleaseStream(calls[c].stream, TaskOf(c))

-----------------------------------------------------------------------------
(* Properties.                                                               *)

\* A call that has returned names a handle, and its entry the stream behind it.
CallType ==
  [stage : {"unused", "setup", "attaching", "activating", "rejoining", "done"},
   stream : StreamIds \cup {None}, entry : Calls \cup {None}, handle : {None}]
  \cup [stage : {"returned"}, stream : StreamIds, entry : Calls, handle : Calls]

StreamsTypeOK ==
  /\ registry \in [StreamIds -> Calls \cup {None}]
  /\ entries \in [Calls -> [refs : SUBSET Tasks, setup : {"pending", "ready", "failed"},
                            external : BOOLEAN]]
  /\ ended \subseteq Calls
  /\ handles \in [Shared -> [Tasks -> Calls \cup {None}]]
  /\ calls \in [Calls -> CallType]

\* Whoever finds a stream in the registry is served: its writer has not been
\* ended by another task's release, and an entry without a writer yet is one
\* whose first acquirer, or whose waiters' rollback, is still to run. (A failed
\* setup that left its entry would brick the stream for every later task.)
RegistryServes ==
  \A s \in StreamIds : registry[s] # None =>
    LET e == registry[s] IN
    IF HasClient(e) THEN e \notin ended
    ELSE \/ entries[e].external
         \/ \A t \in entries[e].refs : \E c \in Calls :
              TaskOf(c) = t /\ calls[c].entry = e /\ calls[c].stage \in {"setup", "attaching"}

\* No createStream call waits for a setup that will never settle: whoever waits
\* has a first acquirer with its handshake under way, also when the entry has
\* been removed in the meantime.
WaitersAreWoken ==
  \A c \in Calls : LET e == calls[c].entry IN
    calls[c].stage \in {"attaching", "rejoining"} /\ entries[e].setup = "pending"
      => calls[e].stage = "setup" /\ calls[e].entry = e
=============================================================================
