-------------------------- MODULE AgentInstanceProofs --------------------------
(***************************************************************************)
(* Of the agent's instance: RegistrySound and LeavesAccountedFor, for every  *)
(* set of tasks, calls and shared streams.  StreamInv is what the registry   *)
(* of streams keeps by itself, whoever calls it; TaskInv ties it to the      *)
(* tasks of the instance.                                                    *)
(*                                                                           *)
(* Of a data stream: ChunksAccountedFor, ReadInOrder and ReaderInStep, for   *)
(* every input and size of messages, from PipeInv.                           *)
(***************************************************************************)
EXTENDS AgentInstance, Streams, SequenceTheorems, WellFoundedInduction, TLAPS

Waiting == {"setup", "attaching", "activating", "rejoining"}

\* An entry is that of the call that made it, which is in its handshake as long as
\* the setup is pending.
Made(e) ==
  /\ calls[e].stage # "unused"
  /\ entries[e].setup = "pending" => calls[e].stage = "setup"

\* What a call holds on to, whether or not its entry is still registered: if it is, then
\* as the stream the call asked for.
CallsSound ==
  \A c \in Calls :
    /\ calls[c].stage \in {"unused", "done"} => calls[c].entry = None
    /\ calls[c].stage \in Waiting \cup {"returned"} =>
         calls[c].stream \in StreamIds /\ calls[c].entry \in Calls
    /\ calls[c].stage = "setup" => calls[c].entry = c /\ entries[c].setup = "pending"
    /\ calls[c].entry # None =>
         Made(calls[c].entry)
         /\ \A s \in StreamIds : registry[s] = calls[c].entry => s = calls[c].stream

\* One stream per entry, and no entry whose writer has ended.
EntriesSound ==
  /\ \A s \in StreamIds : registry[s] # None => Made(registry[s]) /\ registry[s] \notin ended
  /\ \A s1, s2 \in StreamIds : registry[s1] = registry[s2] /\ registry[s1] # None => s1 = s2
  /\ \A e \in ended : calls[e].stage # "unused"

\* A handle is that of the call that built it, for the same task and stream.
HandleOf(h, t, s) ==
  /\ calls[h].stage = "returned" /\ calls[h].handle = h
  /\ calls[h].stream = s /\ TaskOf(h) = t

HandlesSound ==
  /\ \A c \in Calls : calls[c].stage = "returned" =>
       HandleOf(calls[c].handle, TaskOf(c), calls[c].stream)
  /\ \A s \in Shared, t \in Tasks : handles[s][t] # None => HandleOf(handles[s][t], t, s)

StreamInv ==
  /\ StreamsTypeOK
  /\ CallsSound
  /\ EntriesSound
  /\ HandlesSound
  /\ RegistryServes

\* A task whose handler runs has its credentials; one that has released its streams
\* holds none; a terminal is posted only for one whose handler has returned.
TasksSound ==
  /\ \A t \in creds : phase[t] # "new"
  /\ \A t \in posting : phase[t] = "over"
  /\ conn # "stopped" =>
       \A t \in Tasks : phase[t] = "running" => t \in creds \cup written
  /\ \A t \in Tasks, s \in StreamIds :
       phase[t] = "released" /\ registry[s] # None => t \notin entries[registry[s]].refs

IInv ==
  /\ TypeOK
  /\ StreamInv
  /\ TasksSound
  /\ StreamsAreReachable

-----------------------------------------------------------------------------
(* What the operators on calls, handles and references do.                   *)

EntryType ==
  [refs : SUBSET Tasks, setup : {"pending", "ready", "failed"}, external : BOOLEAN]

LEMMA CallFields ==
  ASSUME StreamsTypeOK, NEW c \in Calls
  PROVE  /\ c # None
         /\ calls[c].stage \in Waiting \cup {"unused", "returned", "done"}
         /\ calls[c].stream \in StreamIds \cup {None} /\ calls[c].entry \in Calls \cup {None}
         /\ calls[c].stage = "returned" => calls[c].handle \in Calls
         /\ calls[c].stage # "returned" => calls[c].handle = None
BY CallsAssumption DEF StreamsTypeOK, CallType, Waiting

LEMMA TaskOfCall == ASSUME NEW c \in Calls PROVE TaskOf(c) \in Tasks
BY CallsAssumption DEF TaskOf

\* A call settles with a handle, or goes on to its activation.
LEMMA SettleEffect ==
  ASSUME StreamsTypeOK, CallsSound, NEW c \in Calls, calls[c].stage \in Waiting,
         NEW stage, NEW h, Settle(c, stage, h),
         \/ stage = "returned" /\ h \in Calls
         \/ stage = "activating" /\ h = None
  PROVE  /\ calls' \in [Calls -> CallType]
         /\ calls'[c].stage = stage /\ calls'[c].handle = h
         /\ calls'[c].stream = calls[c].stream /\ calls'[c].entry = calls[c].entry
         /\ \A d \in Calls \ {c} : calls'[d] = calls[d]
<1>1. calls[c].stream \in StreamIds /\ calls[c].entry \in Calls
  BY DEF CallsSound
<1>2. calls[c] \in [stage : {"unused", "setup", "attaching", "activating", "rejoining", "done"},
                    stream : StreamIds \cup {None}, entry : Calls \cup {None}, handle : {None}]
  BY DEF StreamsTypeOK, CallType, Waiting
<1>3. calls' = [calls EXCEPT ![c] =
                 [stage |-> stage, stream |-> calls[c].stream, entry |-> calls[c].entry, handle |-> h]]
  <2> DEFINE w == [stage |-> stage, stream |-> calls[c].stream, entry |-> calls[c].entry,
                   handle |-> h]
  <2> DEFINE f == [calls EXCEPT ![c].stage = stage]
  <2>1. calls' = [f EXCEPT ![c].handle = h]
    BY DEF Settle
  <2>2. /\ f[c] = [stage |-> stage, stream |-> calls[c].stream, entry |-> calls[c].entry,
                   handle |-> calls[c].handle]
        /\ f = [d \in Calls |-> IF d = c THEN f[c] ELSE calls[d]]
    BY <1>2 DEF StreamsTypeOK
  <2> HIDE DEF f
  <2>3. [f[c] EXCEPT !.handle = h] = w
    BY <2>2
  <2>4. calls' = [d \in Calls |-> IF d = c THEN [f[c] EXCEPT !.handle = h] ELSE f[d]]
    BY <2>1, <2>2
  <2>5. calls' = [d \in Calls |-> IF d = c THEN w ELSE calls[d]]
    BY <2>2, <2>3, <2>4
  <2>6. [calls EXCEPT ![c] = w] = [d \in Calls |-> IF d = c THEN w ELSE calls[d]]
    BY DEF StreamsTypeOK
  <2> QED
    BY <2>5, <2>6
<1>4. [stage |-> stage, stream |-> calls[c].stream, entry |-> calls[c].entry, handle |-> h]
        \in CallType
  BY <1>1 DEF CallType
<1> QED
  BY <1>3, <1>4 DEF StreamsTypeOK

LEMMA WaitEffect ==
  ASSUME StreamsTypeOK, NEW c \in Calls, NEW s \in StreamIds, NEW e \in Calls,
         NEW stage \in {"setup", "attaching", "activating", "rejoining"}, Wait(c, stage, s, e)
  PROVE  /\ calls' \in [Calls -> CallType]
         /\ calls'[c].stage = stage /\ calls'[c].handle = None
         /\ calls'[c].stream = s /\ calls'[c].entry = e
         /\ \A d \in Calls \ {c} : calls'[d] = calls[d]
<1>1. [stage |-> stage, stream |-> s, entry |-> e, handle |-> None] \in CallType
  BY DEF CallType
<1> QED
  BY <1>1 DEF StreamsTypeOK, Wait

LEMMA AnswerEffect ==
  ASSUME StreamsTypeOK, NEW c \in Calls, NEW s \in StreamIds, NEW e \in Calls,
         NEW h \in Calls, Answer(c, s, e, h)
  PROVE  /\ calls' \in [Calls -> CallType]
         /\ calls'[c].stage = "returned" /\ calls'[c].handle = h
         /\ calls'[c].stream = s /\ calls'[c].entry = e
         /\ \A d \in Calls \ {c} : calls'[d] = calls[d]
<1>1. [stage |-> "returned", stream |-> s, entry |-> e, handle |-> h] \in CallType
  BY DEF CallType
<1> QED
  BY <1>1 DEF StreamsTypeOK, Answer

LEMMA DoneFields ==
  /\ Done \in CallType
  /\ Done.stage = "done" /\ Done.entry = None /\ Done.handle = None
BY DEF Done, NoCall, CallType

LEMMA CacheEffect ==
  ASSUME StreamsTypeOK, NEW s, NEW t \in Tasks, NEW h \in Calls \cup {None}, Cache(s, t, h)
  PROVE  /\ handles' \in [Shared -> [Tasks -> Calls \cup {None}]]
         /\ \A x \in Shared, t2 \in Tasks :
              handles'[x][t2] = IF x = s /\ t2 = t THEN h ELSE handles[x][t2]
BY DEF StreamsTypeOK, Cache

\* The task's references to the streams S are gone, those of the others are not, and
\* what it was the last to hold is not registered any more.
LEMMA UnrefEffect ==
  ASSUME StreamsTypeOK, NEW t \in Tasks, NEW S \in SUBSET StreamIds, Unref(t, S)
  PROVE  /\ registry' \in [StreamIds -> Calls \cup {None}]
         /\ entries' \in [Calls -> EntryType]
         /\ \A s \in StreamIds : registry'[s] # None => registry'[s] = registry[s]
         /\ \A s \in S : LastRef(t, s) => registry'[s] = None
         /\ \A e \in Calls :
              /\ entries'[e].setup = entries[e].setup
              /\ entries'[e].external = entries[e].external
              /\ entries'[e].refs \subseteq entries[e].refs
              /\ entries[e].refs \subseteq entries'[e].refs \cup {t}
         /\ \A s \in S : registry'[s] # None => t \notin entries'[registry'[s]].refs
<1> DEFINE held == {s \in S : Holds(t, s)}
<1>1. /\ registry' = [s \in StreamIds |->
                       IF s \in held /\ LastRef(t, s) THEN None ELSE registry[s]]
      /\ entries' = [c \in Calls |-> IF \E s \in held : registry[s] = c
                                    THEN [entries[c] EXCEPT !.refs = @ \ {t}] ELSE entries[c]]
  BY DEF Unref
<1>2. \A e \in Calls : /\ entries[e] \in EntryType
                       /\ [entries[e] EXCEPT !.refs = @ \ {t}] \in EntryType
  BY DEF StreamsTypeOK, EntryType
<1>3. registry' \in [StreamIds -> Calls \cup {None}] /\ entries' \in [Calls -> EntryType]
  BY <1>1, <1>2 DEF StreamsTypeOK
<1>4. \A e \in Calls : /\ entries'[e].setup = entries[e].setup
                       /\ entries'[e].external = entries[e].external
                       /\ entries'[e].refs \subseteq entries[e].refs
                       /\ entries[e].refs \subseteq entries'[e].refs \cup {t}
                       /\ (\E s \in held : registry[s] = e) => t \notin entries'[e].refs
  BY <1>1, <1>2 DEF EntryType
<1>5. \A s \in StreamIds : registry'[s] # None => registry'[s] = registry[s]
  BY <1>1
<1>6. \A s \in S : LastRef(t, s) => registry'[s] = None
  BY <1>1 DEF LastRef
<1>7. ASSUME NEW s \in S, registry'[s] # None PROVE t \notin entries'[registry'[s]].refs
  <2>1. registry'[s] = registry[s] /\ registry[s] \in Calls /\ s # None
    BY <1>5, <1>7, CallsAssumption DEF StreamsTypeOK, StreamIds
  <2>2. CASE Holds(t, s)
    BY <1>4, <2>1, <2>2
  <2>3. CASE ~Holds(t, s)
    BY <1>4, <1>7, <2>1, <2>3 DEF Holds
  <2> QED
    BY <2>2, <2>3
<1> HIDE DEF held
<1> QED
  BY <1>3, <1>4, <1>5, <1>6, <1>7

\* RegistryServes, for one reference to an entry that has no writer.
LEMMA Served ==
  ASSUME RegistryServes, NEW s \in StreamIds, registry[s] # None,
         ~HasClient(registry[s]), ~entries[registry[s]].external,
         NEW t \in entries[registry[s]].refs
  PROVE  \E c \in Calls : /\ TaskOf(c) = t /\ calls[c].entry = registry[s]
                          /\ calls[c].stage \in {"setup", "attaching"}
BY DEF RegistryServes

-----------------------------------------------------------------------------
(* What every operation on the streams keeps.                                *)

\* Letting go, in whatever way: streams leave the registry, the writers among them end,
\* references and cached handles go, and the calls D are over, of which F fail the setup
\* that others wait for.  None of them is to serve a reference which stays.
LettingGo(S, D, F) ==
  /\ registry' \in [StreamIds -> Calls \cup {None}]
  /\ \A s \in StreamIds : registry'[s] # None => registry'[s] = registry[s]
  /\ \A s \in S : registry'[s] = None
  /\ entries' \in [Calls -> EntryType]
  /\ \A e \in Calls :
       /\ entries'[e].setup = IF e \in F THEN "failed" ELSE entries[e].setup
       /\ entries'[e].external = entries[e].external
       /\ entries'[e].refs \subseteq entries[e].refs
  /\ \A d \in F : entries[d].setup # "ready"
  /\ ended' = ended \/ ended' = ended \cup WritersOf(S)
  /\ handles' \in [Shared -> [Tasks -> Calls \cup {None}]]
  /\ \A s \in Shared, t \in Tasks : handles'[s][t] # None =>
       handles'[s][t] = handles[s][t] /\ handles'[s][t] \notin D
  /\ calls' = [d \in Calls |-> IF d \in D THEN Done ELSE calls[d]]
  /\ \A d \in D : calls[d].stage # "unused" /\ (calls[d].stage = "setup" => d \in F)
  /\ \A d \in Calls : calls[d].stage = "returned" /\ calls[d].handle \in D => d \in D
  /\ \A d \in D, s \in StreamIds :
       /\ calls[d].stage \in {"setup", "attaching"}
       /\ registry'[s] = calls[d].entry /\ registry'[s] # None
       => TaskOf(d) \notin entries'[registry'[s]].refs

LEMMA LettingGoKeeps ==
  ASSUME StreamInv, NEW S \in SUBSET StreamIds, NEW D \in SUBSET Calls, NEW F \in SUBSET D,
         LettingGo(S, D, F)
  PROVE  StreamInv'
<1> USE DEF LettingGo
<1> USE DEF StreamInv
<1>1. /\ Done \in CallType
      /\ \A d \in D : calls'[d].stage = "done" /\ calls'[d].entry = None
      /\ \A d \in Calls \ D : calls'[d] = calls[d]
  BY DoneFields
<1>2. StreamsTypeOK'
  <2>1. calls' \in [Calls -> CallType]
    BY <1>1 DEF StreamsTypeOK
  <2>2. ended' \subseteq Calls
    BY DEF StreamsTypeOK, WritersOf
  <2> QED
    BY <2>1, <2>2 DEF StreamsTypeOK, EntryType
<1>3. \A e \in Calls : Made(e) => Made(e)'
  BY <1>1 DEF Made
<1>4. CallsSound'
  <2>1. SUFFICES ASSUME NEW c \in Calls
                 PROVE  CallsSound!(c)'
    BY DEF CallsSound
  <2>2. CASE c \in D
    BY <1>1, <2>2 DEF Waiting
  <2>3. CASE c \notin D
    BY <1>1, <1>3, <2>3, CallFields DEF CallsSound
  <2> QED
    BY <2>2, <2>3
<1>5. EntriesSound'
  <2>1. ASSUME NEW s \in StreamIds, registry'[s] # None
        PROVE  Made(registry[s])' /\ registry'[s] \notin ended'
    <3>1. registry'[s] = registry[s] /\ registry[s] \in Calls /\ s \notin S
      BY <2>1 DEF StreamsTypeOK
    <3>2. registry[s] \notin WritersOf(S)
      BY <3>1 DEF WritersOf, EntriesSound
    <3>3. registry'[s] \notin ended'
      BY <2>1, <3>1, <3>2 DEF EntriesSound
    <3>4. Made(registry[s])
      BY <2>1, <3>1 DEF EntriesSound
    <3> QED
      BY <1>3, <3>1, <3>3, <3>4 DEF Made
  <2>2. \A e \in ended' : calls'[e].stage # "unused"
    <3>1. \A e \in WritersOf(S) : e \in Calls /\ calls[e].stage # "unused"
      BY DEF WritersOf, EntriesSound, Made, StreamsTypeOK
    <3>2. \A e \in ended' : e \in Calls /\ calls[e].stage # "unused"
      BY <3>1 DEF EntriesSound, StreamsTypeOK
    <3> QED
      BY <1>1, <3>2
  <2>3. \A s1, s2 \in StreamIds : registry'[s1] = registry'[s2] /\ registry'[s1] # None => s1 = s2
    BY DEF EntriesSound
  <2> QED
    BY <2>1, <2>2, <2>3 DEF EntriesSound
<1>6. HandlesSound'
  <2>1. \A h \in Calls \ D : \A t, s : HandleOf(h, t, s) => HandleOf(h, t, s)'
    BY <1>1 DEF HandleOf
  <2>2. ASSUME NEW c \in Calls, calls'[c].stage = "returned"
        PROVE  HandleOf(calls[c].handle, TaskOf(c), calls[c].stream)'
    <3>1. c \notin D /\ calls'[c] = calls[c] /\ calls[c].stage = "returned"
      BY <1>1, <2>2
    <3>2. calls[c].handle \in Calls \ D
      BY <3>1, CallFields
    <3>3. HandleOf(calls[c].handle, TaskOf(c), calls[c].stream)
      BY <3>1 DEF HandlesSound
    <3> QED
      BY <1>1, <3>1, <3>2, <3>3 DEF HandleOf
  <2>3. ASSUME NEW s \in Shared, NEW t \in Tasks, handles'[s][t] # None
        PROVE  HandleOf(handles[s][t], t, s)'
    <3>1. handles'[s][t] = handles[s][t] /\ handles[s][t] \in Calls \ D
      BY <2>3 DEF StreamsTypeOK
    <3>2. HandleOf(handles[s][t], t, s)
      BY <2>3, <3>1 DEF HandlesSound
    <3> QED
      BY <1>1, <3>1, <3>2 DEF HandleOf
  <2> QED
    BY <2>2, <2>3 DEF HandlesSound
<1>7. RegistryServes'
  <2>1. ASSUME NEW s \in StreamIds, registry'[s] # None
        PROVE  (IF HasClient(registry[s]) THEN registry[s] \notin ended
                ELSE \/ entries[registry[s]].external
                     \/ \A t \in entries[registry[s]].refs : \E c \in Calls :
                          /\ TaskOf(c) = t /\ calls[c].entry = registry[s]
                          /\ calls[c].stage \in {"setup", "attaching"})'
    <3> DEFINE e == registry[s]
    <3>1. registry'[s] = e /\ e \in Calls
      BY <2>1 DEF StreamsTypeOK
    <3>2. registry'[s] \notin ended'
      BY <1>5, <2>1 DEF EntriesSound
    <3>3. ASSUME ~HasClient(e), ~entries[e].external, NEW t \in entries'[e].refs
          PROVE  \E c \in Calls : /\ TaskOf(c) = t /\ calls'[c].entry = e
                                  /\ calls'[c].stage \in {"setup", "attaching"}
      <4>1. PICK c \in Calls : /\ TaskOf(c) = t /\ calls[c].entry = e
                              /\ calls[c].stage \in {"setup", "attaching"}
        <5>1. t \in entries[e].refs /\ registry[s] # None
          BY <2>1, <3>1, <3>3
        <5> QED
          BY <3>3, <5>1, Served
      <4>2. c \notin D
        <5>1. SUFFICES ASSUME c \in D PROVE FALSE
          OBVIOUS
        <5>2. calls[c].stage \in {"setup", "attaching"} /\ registry'[s] = calls[c].entry
          BY <3>1, <4>1, <5>1
        <5>3. TaskOf(c) \notin entries'[registry'[s]].refs
          BY <2>1, <5>1, <5>2
        <5> QED
          BY <3>1, <3>3, <4>1, <5>3
      <4> QED
        BY <1>1, <4>1, <4>2
    <3>4. /\ (entries'[e].setup = "ready" /\ ~entries'[e].external) <=> HasClient(e)
          /\ entries'[e].external = entries[e].external
      BY <3>1 DEF HasClient
    <3> HIDE DEF e
    <3> QED
      BY <3>1, <3>2, <3>3, <3>4 DEF HasClient
  <2> QED
    BY <2>1 DEF RegistryServes
<1> QED
  BY <1>2, <1>4, <1>5, <1>6, <1>7

\* Getting on: a call that has not returned waits for an entry there is, or returns with
\* a handle.  It may bring the setup it is making to an end, attach its task to the entry
\* (and is then what serves that reference until there is a writer) and cache its handle.
GettingOn(c, s, e) ==
  /\ UNCHANGED <<registry, ended>>
  /\ calls' \in [Calls -> CallType] /\ \A d \in Calls \ {c} : calls'[d] = calls[d]
  /\ calls[c].stage \in Waiting \cup {"unused"}
  /\ calls'[c].stage \in {"attaching", "activating", "rejoining", "returned"}
  /\ calls'[c].stream = s /\ calls'[c].entry = e
  /\ Made(e)
  /\ \A x \in StreamIds : registry[x] = e => x = s
  /\ entries' \in [Calls -> EntryType]
  /\ \A g \in Calls :
       /\ entries'[g].external = entries[g].external
       /\ entries'[g].setup =
            IF g = c /\ calls[c].stage = "setup" THEN "ready" ELSE entries[g].setup
       /\ \/ entries'[g].refs = entries[g].refs
          \/ /\ g = e /\ entries'[g].refs = entries[g].refs \cup {TaskOf(c)}
             /\ entries[e].setup = "ready" \/ calls'[c].stage = "attaching"
  /\ calls[c].stage = "attaching" => entries[calls[c].entry].setup = "ready"
  /\ handles' \in [Shared -> [Tasks -> Calls \cup {None}]]
  /\ \A x \in Shared, t \in Tasks :
       \/ handles'[x][t] = handles[x][t]
       \/ /\ x = s /\ t = TaskOf(c) /\ handles'[x][t] = c
          /\ calls'[c].stage = "returned" /\ calls'[c].handle = c
  /\ calls'[c].stage = "returned" =>
       calls'[c].handle = c \/ HandleOf(calls'[c].handle, TaskOf(c), s)

LEMMA GettingOnKeeps ==
  ASSUME StreamInv, NEW c \in Calls, NEW s \in StreamIds, NEW e \in Calls,
         GettingOn(c, s, e)
  PROVE  StreamInv'
<1> USE DEF GettingOn
<1> USE DEF StreamInv
<1>0. RegistryServes
  OBVIOUS
<1>1. StreamsTypeOK'
  BY DEF StreamsTypeOK, EntryType
<1>2. \A g \in Calls : Made(g) => Made(g)'
  BY DEF Made
<1>3. CallsSound'
  <2>1. SUFFICES ASSUME NEW d \in Calls
                 PROVE  CallsSound!(d)'
    BY DEF CallsSound
  <2>2. CASE d = c
    BY <1>2, <2>2, CallFields DEF Waiting
  <2>3. CASE d # c
    BY <1>2, <2>3, CallFields DEF CallsSound
  <2> QED
    BY <2>2, <2>3
<1>4. EntriesSound'
  <2>1. \A x \in StreamIds : registry'[x] # None => Made(registry[x])' /\ registry'[x] \notin ended'
    <3>1. SUFFICES ASSUME NEW x \in StreamIds, registry[x] # None
                   PROVE  Made(registry[x])' /\ registry'[x] \notin ended'
      OBVIOUS
    <3>2. registry[x] \in Calls /\ Made(registry[x]) /\ registry[x] \notin ended
      BY <3>1 DEF EntriesSound, StreamsTypeOK
    <3> QED
      BY <1>2, <3>2 DEF Made
  <2>2. \A g \in ended' : calls'[g].stage # "unused"
    BY DEF EntriesSound, StreamsTypeOK
  <2>3. \A s1, s2 \in StreamIds : registry'[s1] = registry'[s2] /\ registry'[s1] # None => s1 = s2
    BY DEF EntriesSound
  <2> QED
    BY <2>1, <2>2, <2>3 DEF EntriesSound
<1>5. HandlesSound'
  <2>1. ASSUME NEW h \in Calls, NEW t, NEW x, HandleOf(h, t, x)
        PROVE  h # c /\ HandleOf(h, t, x)'
    BY <2>1 DEF HandleOf, Waiting
  <2>2. ASSUME NEW d \in Calls, calls'[d].stage = "returned"
        PROVE  HandleOf(calls[d].handle, TaskOf(d), calls[d].stream)'
    <3>1. CASE d # c
      <4>1. calls'[d] = calls[d] /\ calls[d].handle \in Calls
        BY <2>2, <3>1, CallFields
      <4>2. HandleOf(calls[d].handle, TaskOf(d), calls[d].stream)
        BY <2>2, <4>1 DEF HandlesSound
      <4> QED
        BY <2>1, <4>1, <4>2 DEF HandleOf
    <3>2. CASE d = c /\ calls'[c].handle = c
      BY <2>2, <3>2 DEF HandleOf
    <3>3. CASE d = c /\ HandleOf(calls'[c].handle, TaskOf(c), s)
      <4> DEFINE h == calls'[c].handle
      <4>1. h \in Calls
        BY <1>1, <2>2, <3>3 DEF StreamsTypeOK, CallType
      <4>2. h # c
        BY <3>3, <4>1 DEF HandleOf, Waiting
      <4> QED
        BY <3>3, <4>1, <4>2 DEF HandleOf
    <3> QED
      BY <2>2, <3>1, <3>2, <3>3
  <2>3. ASSUME NEW x \in Shared, NEW t \in Tasks, handles'[x][t] # None
        PROVE  HandleOf(handles[x][t], t, x)'
    <3>1. CASE handles'[x][t] = handles[x][t]
      <4>1. handles[x][t] \in Calls /\ HandleOf(handles[x][t], t, x)
        BY <2>3, <3>1 DEF HandlesSound, StreamsTypeOK
      <4> QED
        BY <2>1, <3>1, <4>1 DEF HandleOf
    <3>2. CASE /\ x = s /\ t = TaskOf(c) /\ handles'[x][t] = c
               /\ calls'[c].stage = "returned" /\ calls'[c].handle = c
      BY <3>2 DEF HandleOf
    <3> QED
      BY <3>1, <3>2
  <2> QED
    BY <2>2, <2>3 DEF HandlesSound
<1>6. RegistryServes'
  <2>1. ASSUME NEW x \in StreamIds, registry[x] # None
        PROVE  (IF HasClient(registry[x]) THEN registry[x] \notin ended
                ELSE \/ entries[registry[x]].external
                     \/ \A t \in entries[registry[x]].refs : \E d \in Calls :
                          /\ TaskOf(d) = t /\ calls[d].entry = registry[x]
                          /\ calls[d].stage \in {"setup", "attaching"})'
    <3> DEFINE g == registry[x]
    <3>1. g \in Calls /\ g \notin ended
      BY <2>1 DEF StreamsTypeOK, EntriesSound
    <3>2. ASSUME entries'[g].setup # "ready", ~entries'[g].external, NEW t \in entries'[g].refs
          PROVE  \E d \in Calls : /\ TaskOf(d) = t /\ calls'[d].entry = g
                                  /\ calls'[d].stage \in {"setup", "attaching"}
      <4>1. entries[g].setup # "ready" /\ ~entries[g].external
            /\ ~(g = c /\ calls[c].stage = "setup")
        BY <3>1, <3>2
      <4>2. CASE t \in entries[g].refs
        <5>1. /\ ~HasClient(registry[x]) /\ ~entries[registry[x]].external
              /\ t \in entries[registry[x]].refs
          BY <4>1, <4>2 DEF HasClient
        <5>2. PICK d \in Calls : /\ TaskOf(d) = t /\ calls[d].entry = registry[x]
                                /\ calls[d].stage \in {"setup", "attaching"}
          BY ONLY <2>1, <5>1, <1>0, Served
        <5>3. d # c
          BY <4>1, <5>2 DEF CallsSound
        <5> QED
          BY <5>2, <5>3
      <4>3. CASE t \notin entries[g].refs
        BY <3>1, <3>2, <4>1, <4>3
      <4> QED
        BY <4>2, <4>3
    <3> HIDE DEF g
    <3> QED
      BY <3>1, <3>2 DEF HasClient, g
  <2> QED
    BY <2>1 DEF RegistryServes
<1> QED
  BY <1>1, <1>3, <1>4, <1>5, <1>6

\* The first acquirer: its entry is new, so nothing else knows it.
LEMMA AcquireNewKeeps ==
  ASSUME StreamInv, NEW c \in Calls, NEW s \in StreamIds, NEW ext \in BOOLEAN,
         calls[c].stage = "unused", AcquireNew(c, s, ext)
  PROVE  StreamInv'
<1> USE DEF StreamInv
<1>1. /\ registry[s] = None /\ registry' = [registry EXCEPT ![s] = c]
      /\ entries' = [entries EXCEPT ![c] =
                      [refs |-> {TaskOf(c)}, setup |-> "pending", external |-> ext]]
      /\ UNCHANGED <<ended, handles>>
  BY DEF AcquireNew
<1>2. /\ calls' \in [Calls -> CallType]
      /\ calls'[c].stage = "setup" /\ calls'[c].handle = None
      /\ calls'[c].stream = s /\ calls'[c].entry = c
      /\ \A d \in Calls \ {c} : calls'[d] = calls[d]
  BY WaitEffect DEF AcquireNew
<1>3. /\ \A x \in StreamIds : registry[x] # c
      /\ \A d \in Calls : calls[d].entry # c
      /\ c \notin ended
  BY CallFields DEF EntriesSound, CallsSound, Made
<1>4. /\ entries'[c] = [refs |-> {TaskOf(c)}, setup |-> "pending", external |-> ext]
      /\ \A g \in Calls \ {c} : entries'[g] = entries[g]
      /\ registry'[s] = c /\ \A x \in StreamIds \ {s} : registry'[x] = registry[x]
  BY <1>1 DEF StreamsTypeOK
<1>5. StreamsTypeOK'
  BY <1>1, <1>2, TaskOfCall DEF StreamsTypeOK
<1>6. \A g \in Calls \ {c} : Made(g) => Made(g)'
  BY <1>2, <1>4 DEF Made
<1>7. Made(c)'
  BY <1>2 DEF Made
<1>8. CallsSound'
  <2>1. SUFFICES ASSUME NEW d \in Calls
                 PROVE  CallsSound!(d)'
    BY DEF CallsSound
  <2>2. CASE d = c
    BY <1>2, <1>3, <1>4, <1>7, <2>2, CallFields DEF Waiting
  <2>3. CASE d # c
    <3>1. calls'[d] = calls[d] /\ calls[d].entry # c /\ calls[d].entry \in Calls \cup {None}
      BY <1>2, <1>3, <2>3, CallFields
    <3>2. calls[d].entry # None =>
            Made(calls[d].entry)' /\ \A x \in StreamIds :
              registry'[x] = calls[d].entry => x = calls[d].stream
      BY <1>4, <1>6, <3>1 DEF CallsSound
    <3> QED
      BY <1>4, <2>3, <3>1, <3>2 DEF CallsSound, Made
  <2> QED
    BY <2>2, <2>3
<1>9. EntriesSound'
  <2>1. ASSUME NEW x \in StreamIds, registry'[x] # None
        PROVE  Made(registry[x])' /\ registry'[x] \notin ended'
    <3>1. CASE x = s
      BY <1>1, <1>3, <1>4, <1>7, <3>1 DEF Made
    <3>2. CASE x # s
      <4>1. registry'[x] = registry[x] /\ registry[x] \in Calls \ {c}
        BY <1>3, <1>4, <2>1, <3>2 DEF StreamsTypeOK
      <4>2. Made(registry[x]) /\ registry[x] \notin ended
        BY <2>1, <4>1 DEF EntriesSound
      <4> QED
        BY <1>1, <1>6, <4>1, <4>2 DEF Made
    <3> QED
      BY <3>1, <3>2
  <2>2. \A g \in ended' : calls'[g].stage # "unused"
    BY <1>1, <1>2, <1>3 DEF EntriesSound, StreamsTypeOK
  <2>3. \A s1, s2 \in StreamIds : registry'[s1] = registry'[s2] /\ registry'[s1] # None => s1 = s2
    BY <1>3, <1>4 DEF EntriesSound
  <2> QED
    BY <2>1, <2>2, <2>3 DEF EntriesSound
<1>10. HandlesSound'
  <2>1. ASSUME NEW h \in Calls, NEW t, NEW x, HandleOf(h, t, x)
        PROVE  h # c
    BY <2>1 DEF HandleOf
  <2>2. ASSUME NEW d \in Calls, calls'[d].stage = "returned"
        PROVE  HandleOf(calls[d].handle, TaskOf(d), calls[d].stream)'
    <3>1. d # c /\ calls'[d] = calls[d] /\ calls[d].handle \in Calls
      BY <1>2, <2>2, CallFields
    <3>2. HandleOf(calls[d].handle, TaskOf(d), calls[d].stream)
      BY <2>2, <3>1 DEF HandlesSound
    <3> QED
      BY <1>2, <2>1, <3>1, <3>2 DEF HandleOf
  <2>3. ASSUME NEW x \in Shared, NEW t \in Tasks, handles'[x][t] # None
        PROVE  HandleOf(handles[x][t], t, x)'
    <3>1. handles[x][t] \in Calls /\ HandleOf(handles[x][t], t, x)
      BY <1>1, <2>3 DEF HandlesSound, StreamsTypeOK
    <3> QED
      BY <1>1, <1>2, <2>1, <3>1 DEF HandleOf
  <2> QED
    BY <2>2, <2>3 DEF HandlesSound
<1>11. RegistryServes'
  <2>0. RegistryServes
    OBVIOUS
  <2>1. ASSUME NEW x \in StreamIds, registry'[x] # None
        PROVE  (IF HasClient(registry[x]) THEN registry[x] \notin ended
                ELSE \/ entries[registry[x]].external
                     \/ \A t \in entries[registry[x]].refs : \E d \in Calls :
                          /\ TaskOf(d) = t /\ calls[d].entry = registry[x]
                          /\ calls[d].stage \in {"setup", "attaching"})'
    <3>1. registry'[x] \notin ended'
      BY <1>9, <2>1 DEF EntriesSound
    <3>2. ASSUME ~HasClient(registry[x])', ~(entries[registry[x]].external)',
                 NEW t \in (entries[registry[x]].refs)'
          PROVE  \E d \in Calls : /\ TaskOf(d) = t /\ calls'[d].entry = registry'[x]
                                  /\ calls'[d].stage \in {"setup", "attaching"}
      <4>1. CASE x = s
        BY <1>2, <1>4, <3>2, <4>1
      <4>2. CASE x # s
        <5>1. registry'[x] = registry[x] /\ registry[x] \in Calls \ {c} /\ registry[x] # None
          BY <1>3, <1>4, <2>1, <4>2 DEF StreamsTypeOK
        <5>2. entries'[registry[x]] = entries[registry[x]]
          BY <1>4, <5>1
        <5>3. /\ ~HasClient(registry[x]) /\ ~entries[registry[x]].external
              /\ t \in entries[registry[x]].refs
          BY <3>2, <5>1, <5>2 DEF HasClient
        <5>4. PICK d \in Calls : /\ TaskOf(d) = t /\ calls[d].entry = registry[x]
                                /\ calls[d].stage \in {"setup", "attaching"}
          BY ONLY <2>0, <2>1, <5>1, <5>3, Served
        <5>5. d # c
          BY <5>4
        <5> QED
          BY <1>2, <5>1, <5>4, <5>5
      <4> QED
        BY <4>1, <4>2
    <3> QED
      BY <3>1, <3>2
  <2> QED
    BY <2>1 DEF RegistryServes
<1> QED
  BY <1>5, <1>8, <1>9, <1>10, <1>11

\* What a call that waits for an entry held before it: nothing to hand out.
LEMMA OnlyReturnedHandles ==
  ASSUME StreamInv, NEW c \in Calls, calls[c].stage # "returned"
  PROVE  /\ \A d \in Calls : calls[d].stage = "returned" => calls[d].handle # c
         /\ \A s \in Shared, t \in Tasks : handles[s][t] # c
BY CallFields DEF StreamInv, HandlesSound, HandleOf

\* The references of one task go, whatever streams S they are to, and with the last one to a
\* stream its writer; the calls D are over, as those of a handle the application has ended.
Unreferencing(t, S, D) ==
  /\ Unref(t, S)
  /\ ended' = ended \/ ended' = ended \cup WritersOf({s \in S : LastRef(t, s)})
  /\ handles' \in [Shared -> [Tasks -> Calls \cup {None}]]
  /\ \A s \in Shared, t2 \in Tasks : handles'[s][t2] # None =>
       handles'[s][t2] = handles[s][t2] /\ handles'[s][t2] \notin D
  /\ calls' = [d \in Calls |-> IF d \in D THEN Done ELSE calls[d]]
  /\ \A d \in D : /\ calls[d].stage \notin {"unused", "setup"}
                  /\ calls[d].stage = "attaching" => TaskOf(d) = t /\ calls[d].stream \in S
  /\ \A d \in Calls : calls[d].stage = "returned" /\ calls[d].handle \in D => d \in D

LEMMA UnrefKeeps ==
  ASSUME StreamInv, NEW t \in Tasks, NEW S \in SUBSET StreamIds, NEW D \in SUBSET Calls,
         Unreferencing(t, S, D)
  PROVE  StreamInv'
<1> USE DEF Unreferencing
<1> DEFINE S2 == {s \in S : LastRef(t, s)}
<1>1. /\ registry' \in [StreamIds -> Calls \cup {None}]
      /\ entries' \in [Calls -> EntryType]
      /\ \A s \in StreamIds : registry'[s] # None => registry'[s] = registry[s]
      /\ \A s \in S2 : registry'[s] = None
      /\ \A e \in Calls :
           /\ entries'[e].setup = entries[e].setup
           /\ entries'[e].external = entries[e].external
           /\ entries'[e].refs \subseteq entries[e].refs
      /\ \A s \in S : registry'[s] # None => t \notin entries'[registry'[s]].refs
  BY UnrefEffect DEF StreamInv
<1>2. ASSUME NEW d \in D, NEW s \in StreamIds,
             calls[d].stage \in {"setup", "attaching"}, registry'[s] = calls[d].entry,
             registry'[s] # None
      PROVE  TaskOf(d) \notin entries'[registry'[s]].refs
  <2>1. TaskOf(d) = t /\ calls[d].stream \in S
    BY <1>2
  <2>2. s = calls[d].stream
    BY <1>1, <1>2 DEF StreamInv, CallsSound
  <2> QED
    BY <1>1, <1>2, <2>1, <2>2
<1>3. S2 \in SUBSET StreamIds /\ {} \in SUBSET D
  OBVIOUS
<1> HIDE DEF S2
<1>4. ended' = ended \/ ended' = ended \cup WritersOf(S2)
  BY DEF S2
<1>5. LettingGo(S2, D, {})
  BY <1>1, <1>2, <1>3, <1>4 DEF LettingGo
<1> QED
  BY ONLY <1>3, <1>5, StreamInv, LettingGoKeeps

\* Streams leave the registry by the hand of the instance.
LEMMA RemovalKeeps ==
  ASSUME StreamInv, (\E s \in StreamIds : RemoveStream(s)) \/ ClearStreams
  PROVE  StreamInv'
<1>1. PICK S \in SUBSET StreamIds :
        /\ registry' = [s \in StreamIds |-> IF s \in S THEN None ELSE registry[s]]
        /\ ended' = ended \cup WritersOf(S)
  <2>1. CASE ClearStreams
    BY <2>1 DEF ClearStreams, StreamInv, StreamsTypeOK
  <2>2. ASSUME NEW s \in StreamIds, RemoveStream(s)
        PROVE  \E S \in SUBSET StreamIds :
                 /\ registry' = [x \in StreamIds |-> IF x \in S THEN None ELSE registry[x]]
                 /\ ended' = ended \cup WritersOf(S)
    <3>1. /\ registry' = [x \in StreamIds |-> IF x \in {s} THEN None ELSE registry[x]]
          /\ ended' = ended \cup WritersOf({s})
      BY <2>2 DEF RemoveStream, StreamInv, StreamsTypeOK
    <3> QED
      BY <3>1
  <2> QED
    BY <2>1, <2>2
<1>2. /\ UNCHANGED <<entries, calls>>
      /\ handles' \in [Shared -> [Tasks -> Calls \cup {None}]]
      /\ \A s \in Shared, t \in Tasks : handles'[s][t] # None => handles'[s][t] = handles[s][t]
  <2>1. CASE ClearStreams
    BY <2>1 DEF ClearStreams, StreamInv, StreamsTypeOK
  <2>2. ASSUME NEW x \in StreamIds, RemoveStream(x)
        PROVE  /\ UNCHANGED <<entries, calls>>
               /\ handles' \in [Shared -> [Tasks -> Calls \cup {None}]]
               /\ \A s \in Shared, t \in Tasks :
                    handles'[s][t] # None => handles'[s][t] = handles[s][t]
    BY <2>2 DEF RemoveStream, StreamInv, StreamsTypeOK
  <2> QED
    BY <2>1, <2>2
<1>3. calls' = [d \in Calls |-> IF d \in {} THEN Done ELSE calls[d]]
  BY <1>2 DEF StreamInv, StreamsTypeOK
<1>4. /\ registry' \in [StreamIds -> Calls \cup {None}] /\ entries' \in [Calls -> EntryType]
      /\ \A s \in StreamIds : registry'[s] # None => registry'[s] = registry[s]
      /\ \A s \in S : registry'[s] = None
      /\ \A e \in Calls : entries'[e] = entries[e]
  BY <1>1, <1>2 DEF StreamInv, StreamsTypeOK, EntryType
<1>5. LettingGo(S, {}, {})
  BY <1>1, <1>2, <1>3, <1>4 DEF LettingGo
<1>6. {} \in SUBSET Calls /\ {} \in SUBSET {}
  OBVIOUS
<1> QED
  BY <1>5, <1>6, LettingGoKeeps

LEMMA SetupFailsKeeps ==
  ASSUME StreamInv, NEW c \in Calls, SetupFails(c)
  PROVE  StreamInv'
<1> DEFINE s == calls[c].stream
           t == TaskOf(c)
           S == IF LastRef(t, s) THEN {s} ELSE {}
<1>1. /\ calls[c].stage = "setup" /\ s \in StreamIds /\ calls[c].entry = c
      /\ entries[c].setup = "pending"
  BY DEF StreamInv, CallsSound, Waiting, SetupFails
<1>2. t \in Tasks /\ s # None
  BY <1>1, TaskOfCall, CallsAssumption DEF StreamIds
<1>3. /\ registry' = [registry EXCEPT ![s] = IF LastRef(t, s) THEN None ELSE @]
      /\ entries' = [e \in Calls |->
           [entries[e] EXCEPT !.setup = IF e = c THEN "failed" ELSE @,
                              !.refs = IF e = registry[s] THEN @ \ {t} ELSE @]]
      /\ Cache(s, t, None) /\ ended' = ended
      /\ calls' = [calls EXCEPT ![c] = Done]
  BY DEF SetupFails, Throw
<1>4. ASSUME NEW e \in Calls
      PROVE  /\ entries'[e] \in EntryType
             /\ entries'[e].setup = IF e \in {c} THEN "failed" ELSE entries[e].setup
             /\ entries'[e].external = entries[e].external
             /\ entries'[e].refs = IF e = registry[s] THEN entries[e].refs \ {t} ELSE entries[e].refs
  <2>1. entries[e] \in EntryType
    BY DEF StreamInv, StreamsTypeOK, EntryType
  <2> DEFINE w == [entries[e] EXCEPT !.setup = IF e = c THEN "failed" ELSE @]
  <2>2. w = [refs |-> entries[e].refs, external |-> entries[e].external,
             setup |-> IF e = c THEN "failed" ELSE entries[e].setup]
    BY <2>1 DEF EntryType
  <2>3. entries'[e] = [w EXCEPT !.refs = IF e = registry[s] THEN @ \ {t} ELSE @]
    BY <1>3
  <2> HIDE DEF w
  <2>4. entries'[e] = [refs |-> IF e = registry[s] THEN entries[e].refs \ {t} ELSE entries[e].refs,
                       external |-> entries[e].external,
                       setup |-> IF e = c THEN "failed" ELSE entries[e].setup]
    BY <2>2, <2>3
  <2> QED
    BY <2>1, <2>4 DEF EntryType
<1>5. /\ registry' \in [StreamIds -> Calls \cup {None}]
      /\ \A x \in StreamIds : registry'[x] # None => registry'[x] = registry[x]
      /\ \A x \in S : registry'[x] = None
      /\ registry'[s] # None => ~LastRef(t, s) /\ registry'[s] = registry[s]
  BY <1>1, <1>3 DEF StreamInv, StreamsTypeOK
<1>6. entries' \in [Calls -> EntryType]
  BY <1>3, <1>4
<1>7. /\ handles' \in [Shared -> [Tasks -> Calls \cup {None}]]
      /\ \A x \in Shared, t2 \in Tasks :
           handles'[x][t2] # None => handles'[x][t2] = handles[x][t2]
  <2>1. StreamsTypeOK /\ None \in Calls \cup {None} /\ t \in Tasks /\ Cache(s, t, None)
    BY <1>2, <1>3 DEF StreamInv
  <2> HIDE DEF s, t
  <2>2. /\ handles' \in [Shared -> [Tasks -> Calls \cup {None}]]
        /\ \A x \in Shared, t2 \in Tasks :
             handles'[x][t2] = IF x = s /\ t2 = t THEN None ELSE handles[x][t2]
    BY ONLY <2>1, CacheEffect
  <2> QED
    BY <2>2
<1>8. ASSUME NEW x \in StreamIds, registry'[x] = calls[c].entry, registry'[x] # None
      PROVE  t \notin entries'[registry'[x]].refs
  <2>1. registry[x] = c /\ x = s
    BY <1>1, <1>5, <1>8 DEF StreamInv, CallsSound
  <2> QED
    BY <1>1, <1>4, <1>8, <2>1
<1>9. calls' = [d \in Calls |-> IF d \in {c} THEN Done ELSE calls[d]]
  BY <1>3 DEF StreamInv, StreamsTypeOK
<1>10. LettingGo(S, {c}, {c})
  <2>1. /\ \A d \in Calls : calls[d].stage = "returned" => calls[d].handle # c
        /\ \A x \in Shared, t2 \in Tasks : handles[x][t2] # c
    BY <1>1, OnlyReturnedHandles
  <2>2. /\ \A e \in Calls :
             /\ entries'[e].setup = IF e \in {c} THEN "failed" ELSE entries[e].setup
             /\ entries'[e].external = entries[e].external
             /\ entries'[e].refs \subseteq entries[e].refs
    BY <1>4
  <2>3. \A d \in {c}, x \in StreamIds :
          registry'[x] = calls[d].entry /\ registry'[x] # None
            => TaskOf(d) \notin entries'[registry'[x]].refs
    BY <1>8
  <2>4. /\ \A d \in {c} : entries[d].setup # "ready"
        /\ \A d \in {c} : calls[d].stage # "unused" /\ (calls[d].stage = "setup" => d \in {c})
        /\ \A d \in Calls : calls[d].stage = "returned" /\ calls[d].handle \in {c} => d \in {c}
        /\ \A x \in Shared, t2 \in Tasks : handles'[x][t2] # None =>
             handles'[x][t2] = handles[x][t2] /\ handles'[x][t2] \notin {c}
    BY <1>1, <1>7, <2>1
  <2>5. ended' = ended
    BY <1>3
  <2> HIDE DEF S, s, t
  <2> QED
    BY ONLY <1>5, <1>6, <1>7, <1>9, <2>2, <2>3, <2>4, <2>5 DEF LettingGo
<1>11. S \in SUBSET StreamIds /\ {c} \in SUBSET Calls /\ {c} \in SUBSET {c}
  BY <1>1
<1> HIDE DEF S
<1> QED
  BY ONLY <1>10, <1>11, StreamInv, LettingGoKeeps

\* A handle goes into the cache of its task and stream.
LEMMA CacheOwn ==
  ASSUME StreamInv, NEW c \in Calls, NEW s \in StreamIds, Cache(s, TaskOf(c), c)
  PROVE  /\ handles' \in [Shared -> [Tasks -> Calls \cup {None}]]
         /\ \A x \in Shared, t \in Tasks :
              handles'[x][t] = handles[x][t] \/ (x = s /\ t = TaskOf(c) /\ handles'[x][t] = c)
<1>1. StreamsTypeOK /\ TaskOf(c) \in Tasks /\ c \in Calls \cup {None}
  BY TaskOfCall DEF StreamInv
<1>2. /\ handles' \in [Shared -> [Tasks -> Calls \cup {None}]]
      /\ \A x \in Shared, t \in Tasks :
           handles'[x][t] = IF x = s /\ t = TaskOf(c) THEN c ELSE handles[x][t]
  BY ONLY <1>1, CacheEffect, Cache(s, TaskOf(c), c)
<1> QED
  BY <1>2

\* A cached handle is one of that task and stream.
LEMMA CachedHandle ==
  ASSUME StreamInv, NEW s \in StreamIds, NEW t \in Tasks, Cached(s, t) # None
  PROVE  Cached(s, t) \in Calls /\ HandleOf(Cached(s, t), t, s)
BY DEF Cached, StreamInv, StreamsTypeOK, HandlesSound

LEMMA SetupSucceedsKeeps ==
  ASSUME StreamInv, NEW c \in Calls, SetupSucceeds(c)
  PROVE  StreamInv'
<1> DEFINE s == calls[c].stream
<1>1. /\ calls[c].stage = "setup" /\ s \in StreamIds /\ calls[c].entry = c /\ Made(c)
      /\ \A x \in StreamIds : registry[x] = c => x = s
  BY CallFields DEF SetupSucceeds, StreamInv, CallsSound, Waiting
<1>2. /\ calls' \in [Calls -> CallType]
      /\ calls'[c].stage = "returned" /\ calls'[c].handle = c
      /\ calls'[c].stream = s /\ calls'[c].entry = c
      /\ \A d \in Calls \ {c} : calls'[d] = calls[d]
  BY <1>1, SettleEffect DEF SetupSucceeds, StreamInv, Waiting
<1>3. /\ entries' \in [Calls -> EntryType]
      /\ \A g \in Calls :
           /\ entries'[g].external = entries[g].external /\ entries'[g].refs = entries[g].refs
           /\ entries'[g].setup = IF g = c THEN "ready" ELSE entries[g].setup
  BY DEF SetupSucceeds, StreamInv, StreamsTypeOK, EntryType
<1>4. /\ handles' \in [Shared -> [Tasks -> Calls \cup {None}]]
      /\ \A x \in Shared, t \in Tasks :
           handles'[x][t] = handles[x][t] \/ (x = s /\ t = TaskOf(c) /\ handles'[x][t] = c)
  <2>1. CASE UNCHANGED handles
    BY <2>1 DEF StreamInv, StreamsTypeOK
  <2>2. CASE Cache(s, TaskOf(c), c)
    BY ONLY <1>1, <2>2, StreamInv, CacheOwn
  <2> QED
    BY <2>1, <2>2 DEF SetupSucceeds
<1>5. UNCHANGED <<registry, ended>>
  BY DEF SetupSucceeds
<1> HIDE DEF s
<1>6. GettingOn(c, s, c)
  BY ONLY <1>1, <1>2, <1>3, <1>4, <1>5 DEF GettingOn, Waiting
<1> QED
  BY ONLY <1>1, <1>6, StreamInv, GettingOnKeeps

\* A call that has waited for the setup of another call goes on with the writer that made.
LEMMA WakingKeeps ==
  ASSUME StreamInv, NEW c \in Calls, calls[c].stage \in {"attaching", "activating", "rejoining"},
         calls[c].stage = "attaching" => entries[calls[c].entry].setup = "ready",
         NEW stage, NEW h, Settle(c, stage, h),
         \/ /\ stage = "activating" /\ h = None /\ UNCHANGED handles
         \/ /\ stage = "returned" /\ h = c /\ Cache(calls[c].stream, TaskOf(c), c)
         \/ /\ stage = "returned" /\ h = Cached(calls[c].stream, TaskOf(c)) /\ h # None
            /\ UNCHANGED handles,
         UNCHANGED <<registry, entries, ended>>
  PROVE  StreamInv'
<1> DEFINE s == calls[c].stream
           e == calls[c].entry
<1>1. /\ calls[c].stage \in Waiting /\ s \in StreamIds /\ e \in Calls /\ Made(e)
      /\ \A x \in StreamIds : registry[x] = e => x = s
  BY CallFields DEF StreamInv, CallsSound, Waiting
<1>2. h = c \/ h = None \/ (h \in Calls /\ HandleOf(h, TaskOf(c), s))
  <2>1. TaskOf(c) \in Tasks
    BY TaskOfCall
  <2> QED
    BY <1>1, <2>1, CachedHandle
<1>3. /\ calls' \in [Calls -> CallType]
      /\ calls'[c].stage = stage /\ calls'[c].handle = h
      /\ calls'[c].stream = s /\ calls'[c].entry = e
      /\ \A d \in Calls \ {c} : calls'[d] = calls[d]
  <2>1. \/ stage = "returned" /\ h \in Calls
        \/ stage = "activating" /\ h = None
    BY <1>2
  <2> QED
    BY <1>1, <2>1, SettleEffect DEF StreamInv
<1>4. /\ handles' \in [Shared -> [Tasks -> Calls \cup {None}]]
      /\ \A x \in Shared, t \in Tasks :
           \/ handles'[x][t] = handles[x][t]
           \/ x = s /\ t = TaskOf(c) /\ handles'[x][t] = c /\ stage = "returned" /\ h = c
  <2>1. CASE UNCHANGED handles
    BY <2>1 DEF StreamInv, StreamsTypeOK
  <2>2. CASE stage = "returned" /\ h = c /\ Cache(s, TaskOf(c), c)
    BY ONLY <1>1, <2>2, StreamInv, CacheOwn
  <2> QED
    BY <2>1, <2>2
<1>5. /\ entries' \in [Calls -> EntryType] /\ entries' = entries
      /\ UNCHANGED <<registry, ended>>
      /\ stage \in {"activating", "returned"} /\ calls[c].stage # "setup"
      /\ calls[c].stage = "attaching" => entries[calls[c].entry].setup = "ready"
      /\ stage = "returned" => h # None
  BY CallFields DEF StreamInv, StreamsTypeOK, EntryType
<1> HIDE DEF s, e
<1>6. GettingOn(c, s, e)
  BY ONLY <1>1, <1>2, <1>3, <1>4, <1>5 DEF GettingOn
<1> QED
  BY ONLY <1>1, <1>6, StreamInv, GettingOnKeeps

\* A failed attach or activation gives its reference back.
LEMMA RollBackKeeps ==
  ASSUME StreamInv, NEW c \in Calls, calls[c].stage \in {"attaching", "activating"},
         Throw(c), RollBack(calls[c].stream, TaskOf(c))
  PROVE  StreamInv'
<1> DEFINE s == calls[c].stream
           t == TaskOf(c)
<1>1. s \in StreamIds /\ t \in Tasks
  BY TaskOfCall DEF StreamInv, CallsSound, Waiting
<1>2. /\ \A d \in Calls : calls[d].stage = "returned" => calls[d].handle # c
      /\ \A x \in Shared, t2 \in Tasks : handles[x][t2] # c
  BY OnlyReturnedHandles
<1>3. /\ handles' \in [Shared -> [Tasks -> Calls \cup {None}]]
      /\ \A x \in Shared, t2 \in Tasks : handles'[x][t2] # None =>
           handles'[x][t2] = handles[x][t2] /\ handles'[x][t2] \notin {c}
  <2>1. StreamsTypeOK /\ None \in Calls \cup {None} /\ Cache(s, t, None)
    BY DEF StreamInv, RollBack
  <2> HIDE DEF s, t
  <2>2. /\ handles' \in [Shared -> [Tasks -> Calls \cup {None}]]
        /\ \A x \in Shared, t2 \in Tasks :
             handles'[x][t2] = IF x = s /\ t2 = t THEN None ELSE handles[x][t2]
    BY ONLY <1>1, <2>1, CacheEffect
  <2> QED
    BY <1>2, <2>2
<1>4. /\ Unref(t, {s}) /\ ended' = ended
      /\ calls' = [d \in Calls |-> IF d \in {c} THEN Done ELSE calls[d]]
  BY DEF RollBack, Throw, StreamInv, StreamsTypeOK
<1>5. /\ \A d \in {c} : calls[d].stage \notin {"unused", "setup"}
      /\ \A d \in Calls : calls[d].stage = "returned" /\ calls[d].handle \in {c} => d \in {c}
      /\ \A d \in {c} : calls[d].stage = "attaching" => TaskOf(d) = t /\ calls[d].stream \in {s}
  BY <1>2
<1>6. {s} \in SUBSET StreamIds /\ {c} \in SUBSET Calls
  BY <1>1
<1> HIDE DEF s, t
<1>7. Unreferencing(t, {s}, {c})
  BY ONLY <1>3, <1>4, <1>5 DEF Unreferencing
<1> QED
  BY ONLY <1>1, <1>6, <1>7, StreamInv, UnrefKeeps

\* What createStream does after any of its waits keeps the invariant.
LEMMA CallStepsKeep ==
  ASSUME StreamInv, NEW c \in Calls, CallSteps(c)
  PROVE  StreamInv'
<1>1. CASE SetupSucceeds(c)
  BY <1>1, SetupSucceedsKeeps
<1>2. CASE SetupFails(c)
  BY <1>2, SetupFailsKeeps
<1>3. CASE AttachWakes(c)
  <2>1. CASE entries[calls[c].entry].setup = "ready" /\ Settle(c, "activating", None)
             /\ UNCHANGED <<registry, entries, ended, handles>>
    BY ONLY <1>3, <2>1, StreamInv, WakingKeeps DEF AttachWakes
  <2>2. CASE Throw(c) /\ RollBack(calls[c].stream, TaskOf(c))
    BY ONLY <1>3, <2>2, StreamInv, RollBackKeeps DEF AttachWakes
  <2> QED
    BY <1>3, <2>1, <2>2 DEF AttachWakes
<1>4. CASE ActivateSucceeds(c)
  BY ONLY <1>4, StreamInv, WakingKeeps DEF ActivateSucceeds
<1>5. CASE ActivateFails(c)
  BY ONLY <1>5, StreamInv, RollBackKeeps DEF ActivateFails
<1>6. CASE RejoinWakes(c)
  <2> DEFINE h == Cached(calls[c].stream, TaskOf(c))
  <2>1. calls[c].stage = "rejoining" /\ UNCHANGED <<registry, entries, ended>>
    BY <1>6 DEF RejoinWakes
  <2>2. CASE Throw(c) /\ UNCHANGED handles
    <3>1. /\ \A d \in Calls : calls[d].stage = "returned" => calls[d].handle # c
          /\ \A s \in Shared, t \in Tasks : handles[s][t] # c
      BY <2>1, OnlyReturnedHandles
    <3>2. /\ registry \in [StreamIds -> Calls \cup {None}] /\ entries \in [Calls -> EntryType]
          /\ handles \in [Shared -> [Tasks -> Calls \cup {None}]]
          /\ calls' = [d \in Calls |-> IF d \in {c} THEN Done ELSE calls[d]]
      BY <2>2 DEF Throw, StreamInv, StreamsTypeOK, EntryType
    <3>3. LettingGo({}, {c}, {})
      BY ONLY <2>1, <2>2, <3>1, <3>2 DEF LettingGo
    <3>4. {} \in SUBSET StreamIds /\ {c} \in SUBSET Calls /\ {} \in SUBSET {c}
      OBVIOUS
    <3> QED
      BY ONLY <3>3, <3>4, StreamInv, LettingGoKeeps
  <2>3. CASE h # None /\ Settle(c, "returned", h) /\ UNCHANGED handles
    BY ONLY <2>1, <2>3, StreamInv, WakingKeeps
  <2>4. CASE Settle(c, "returned", c) /\ Cache(calls[c].stream, TaskOf(c), c)
    BY ONLY <2>1, <2>4, StreamInv, WakingKeeps
  <2> QED
    BY <1>6, <2>2, <2>3, <2>4 DEF RejoinWakes
<1> QED
  BY <1>1, <1>2, <1>3, <1>4, <1>5, <1>6 DEF CallSteps

\* The application ends a handle: every call that it was returned to is over with it.
LEMMA EndHandleKeeps ==
  ASSUME StreamInv, NEW c \in Calls, EndHandle(c)
  PROVE  StreamInv'
<1> DEFINE h == calls[c].handle
           s == calls[c].stream
           t == TaskOf(c)
           D == {d \in Calls : calls[d].handle = h}
<1>1. /\ calls[c].stage = "returned" /\ s \in StreamIds /\ t \in Tasks /\ h \in Calls
      /\ HandleOf(h, t, s)
  BY TaskOfCall, CallFields DEF EndHandle, StreamInv, CallsSound, HandlesSound
<1>2. \A d \in D : calls[d].stage = "returned"
  BY <1>1, CallFields DEF StreamInv
<1>3. ASSUME NEW d \in Calls, calls[d].stage = "returned", calls[d].handle \in D
      PROVE  d \in D
  BY <1>3 DEF StreamInv, HandlesSound, HandleOf
<1>4. /\ handles' \in [Shared -> [Tasks -> Calls \cup {None}]]
      /\ \A x \in Shared, t2 \in Tasks : handles'[x][t2] # None =>
           handles'[x][t2] = handles[x][t2] /\ handles'[x][t2] \notin D
  <2>1. StreamsTypeOK /\ None \in Calls \cup {None} /\ Cache(s, t, None)
    BY DEF StreamInv, EndHandle, ReleaseStream
  <2>2. \A x \in Shared, t2 \in Tasks :
          handles[x][t2] \in D => x = s /\ t2 = t
    BY <1>1, CallsAssumption DEF StreamInv, StreamsTypeOK, HandlesSound, HandleOf
  <2> HIDE DEF s, t, D
  <2>3. /\ handles' \in [Shared -> [Tasks -> Calls \cup {None}]]
        /\ \A x \in Shared, t2 \in Tasks :
             handles'[x][t2] = IF x = s /\ t2 = t THEN None ELSE handles[x][t2]
    BY ONLY <1>1, <2>1, CacheEffect
  <2> QED
    BY <2>2, <2>3
<1>5. /\ Unref(t, {s}) /\ ended' = ended \cup WritersOf({x \in {s} : LastRef(t, x)})
      /\ calls' = [d \in Calls |-> IF d \in D THEN Done ELSE calls[d]]
  BY DEF EndHandle, ReleaseStream
<1>6. {s} \in SUBSET StreamIds /\ D \in SUBSET Calls
  BY <1>1
<1>7. \A d \in D : calls[d].stage \notin {"unused", "setup", "attaching"}
  BY <1>2
<1> HIDE DEF s, t, D
<1>8. Unreferencing(t, {s}, D)
  BY ONLY <1>3, <1>4, <1>5, <1>7 DEF Unreferencing
<1> QED
  BY ONLY <1>1, <1>6, <1>8, StreamInv, UnrefKeeps

\* A task leaves all of its streams at once.
LEMMA ReleaseAllKeeps ==
  ASSUME StreamInv, NEW t \in Tasks, ReleaseAllStreamsForTask(t), UNCHANGED calls
  PROVE  StreamInv'
<1>1. /\ handles' \in [Shared -> [Tasks -> Calls \cup {None}]]
      /\ \A s \in Shared, t2 \in Tasks : handles'[s][t2] # None =>
           handles'[s][t2] = handles[s][t2] /\ handles'[s][t2] \notin {}
  BY DEF ReleaseAllStreamsForTask, StreamInv, StreamsTypeOK
<1>2. /\ Unref(t, StreamIds)
      /\ ended' = ended \cup WritersOf({s \in StreamIds : LastRef(t, s)})
      /\ calls' = [d \in Calls |-> IF d \in {} THEN Done ELSE calls[d]]
  BY DEF ReleaseAllStreamsForTask, StreamInv, StreamsTypeOK
<1>3. StreamIds \in SUBSET StreamIds /\ {} \in SUBSET Calls
  OBVIOUS
<1>4. Unreferencing(t, StreamIds, {})
  BY ONLY <1>1, <1>2 DEF Unreferencing
<1> QED
  BY ONLY <1>3, <1>4, StreamInv, t \in Tasks, UnrefKeeps

\* A call for a shared stream: the cached handle, the entry there is, or a new one.
LEMMA CreateSharedKeeps ==
  ASSUME StreamInv, NEW c \in Calls, NEW s \in Shared, CreateShared(c, s)
  PROVE  StreamInv'
<1> DEFINE t == TaskOf(c)
           h == Cached(s, t)
           e == registry[s]
<1>1. calls[c].stage = "unused" /\ s \in StreamIds /\ t \in Tasks
  BY TaskOfCall DEF CreateShared, StreamIds
<1>2. CASE h # None
  <2>1. h \in Calls /\ HandleOf(h, t, s)
    BY ONLY <1>1, <1>2, StreamInv, CachedHandle
  <2> DEFINE g == calls[h].entry
  <2>2. g \in Calls /\ Made(g) /\ \A x \in StreamIds : registry[x] = g => x = s
    BY <2>1, CallFields DEF HandleOf, StreamInv, CallsSound
  <2>3. Answer(c, s, g, h) /\ UNCHANGED <<registry, entries, ended, handles>>
    BY <1>2 DEF CreateShared
  <2>4. /\ calls' \in [Calls -> CallType]
        /\ calls'[c].stage = "returned" /\ calls'[c].handle = h
        /\ calls'[c].stream = s /\ calls'[c].entry = g
        /\ \A d \in Calls \ {c} : calls'[d] = calls[d]
    <3>1. StreamsTypeOK
      BY DEF StreamInv
    <3> HIDE DEF g, h
    <3> QED
      BY ONLY <1>1, <2>1, <2>2, <2>3, <3>1, AnswerEffect
  <2>5. /\ entries \in [Calls -> EntryType]
        /\ handles \in [Shared -> [Tasks -> Calls \cup {None}]]
    BY DEF StreamInv, StreamsTypeOK, EntryType
  <2>6. GettingOn(c, s, g)
    <3> HIDE DEF g, h, t
    <3>1. HandleOf(h, TaskOf(c), s)
      BY <2>1 DEF t
    <3> QED
      BY ONLY <1>1, <2>2, <2>3, <2>4, <2>5, <3>1 DEF GettingOn
  <2> QED
    BY ONLY <1>1, <2>2, <2>6, StreamInv, GettingOnKeeps
<1>3. CASE AcquireNew(c, s, FALSE)
  BY ONLY <1>1, <1>3, StreamInv, AcquireNewKeeps
<1>4. ASSUME e # None
      PROVE  /\ e \in Calls /\ Made(e) /\ \A x \in StreamIds : registry[x] = e => x = s
             /\ StreamsTypeOK
             /\ entries \in [Calls -> EntryType] /\ handles \in [Shared -> [Tasks -> Calls \cup {None}]]
  BY <1>1, <1>4 DEF StreamInv, StreamsTypeOK, EntriesSound, EntryType
<1>5. CASE AcquireAttach(c, s)
  <2> DEFINE stage == IF entries[e].setup = "ready" THEN "activating" ELSE "attaching"
  <2>1. /\ e # None /\ entries' = [entries EXCEPT ![e].refs = @ \cup {t}]
        /\ Wait(c, stage, s, e) /\ UNCHANGED <<registry, ended, handles>>
    BY <1>5 DEF AcquireAttach
  <2>2. /\ calls' \in [Calls -> CallType]
        /\ calls'[c].stage = stage /\ calls'[c].stream = s /\ calls'[c].entry = e
        /\ \A d \in Calls \ {c} : calls'[d] = calls[d]
    <3>1. stage \in {"setup", "attaching", "activating", "rejoining"}
      OBVIOUS
    <3> HIDE DEF stage, e
    <3> QED
      BY ONLY <1>1, <1>4, <2>1, <3>1, WaitEffect
  <2>3. /\ entries' \in [Calls -> EntryType]
        /\ \A g \in Calls :
             /\ entries'[g].external = entries[g].external
             /\ entries'[g].setup = entries[g].setup
             /\ entries'[g].refs = IF g = e THEN entries[g].refs \cup {t} ELSE entries[g].refs
    <3> HIDE DEF e, t
    <3> QED
      BY <1>1, <1>4, <2>1 DEF EntryType
  <2>4. (stage = "activating" /\ entries[e].setup = "ready") \/ stage = "attaching"
    OBVIOUS
  <2>5. /\ \A g \in Calls : \/ entries'[g].refs = entries[g].refs
                           \/ /\ g = e /\ entries'[g].refs = entries[g].refs \cup {TaskOf(c)}
                              /\ entries[e].setup = "ready" \/ calls'[c].stage = "attaching"
    BY <2>2, <2>3, <2>4
  <2>6. GettingOn(c, s, e)
    <3> HIDE DEF stage, e
    <3> QED
      BY ONLY <1>1, <1>4, <2>1, <2>2, <2>3, <2>4, <2>5 DEF GettingOn
  <2> QED
    BY ONLY <1>1, <1>4, <2>1, <2>6, StreamInv, GettingOnKeeps
<1>6. CASE AcquireAgain(c, s)
  <2>1. e # None /\ UNCHANGED <<registry, entries, ended>>
    BY <1>6 DEF AcquireAgain
  <2>2. CASE Answer(c, s, e, c) /\ Cache(s, t, c)
    <3>1. /\ calls' \in [Calls -> CallType]
          /\ calls'[c].stage = "returned" /\ calls'[c].handle = c
          /\ calls'[c].stream = s /\ calls'[c].entry = e
          /\ \A d \in Calls \ {c} : calls'[d] = calls[d]
      BY ONLY <1>1, <1>4, <2>1, <2>2, c \in Calls, AnswerEffect
    <3>2. /\ handles' \in [Shared -> [Tasks -> Calls \cup {None}]]
          /\ \A x \in Shared, t2 \in Tasks :
               handles'[x][t2] = handles[x][t2] \/ (x = s /\ t2 = t /\ handles'[x][t2] = c)
      BY ONLY <1>1, <2>2, StreamInv, c \in Calls, CacheOwn
    <3>3. GettingOn(c, s, e)
      <4> HIDE DEF e
      <4> QED
        BY ONLY <1>1, <1>4, <2>1, <3>1, <3>2 DEF GettingOn
    <3> QED
      BY ONLY <1>1, <1>4, <2>1, <3>3, StreamInv, GettingOnKeeps
  <2>3. CASE Wait(c, "rejoining", s, e) /\ UNCHANGED handles
    <3>1. /\ calls' \in [Calls -> CallType]
          /\ calls'[c].stage = "rejoining" /\ calls'[c].stream = s /\ calls'[c].entry = e
          /\ \A d \in Calls \ {c} : calls'[d] = calls[d]
      BY ONLY <1>1, <1>4, <2>1, <2>3, c \in Calls, WaitEffect
    <3>2. GettingOn(c, s, e)
      <4> HIDE DEF e
      <4> QED
        BY ONLY <1>1, <1>4, <2>1, <2>3, <3>1 DEF GettingOn
    <3> QED
      BY ONLY <1>1, <1>4, <2>1, <3>2, StreamInv, GettingOnKeeps
  <2> QED
    BY <1>6, <2>2, <2>3 DEF AcquireAgain
<1> QED
  BY <1>2, <1>3, <1>5, <1>6 DEF CreateShared

LEMMA CreateOwnKeeps ==
  ASSUME StreamInv, NEW c \in Calls, NEW ext \in BOOLEAN, CreateOwn(c, ext)
  PROVE  StreamInv'
BY AcquireNewKeeps DEF CreateOwn, StreamIds

-----------------------------------------------------------------------------
(* Who references what is registered.                                        *)

Shrinks ==
  \A s \in StreamIds : registry'[s] # None =>
    registry'[s] = registry[s] /\ entries'[registry'[s]].refs \subseteq entries[registry[s]].refs

LEMMA UnrefShrinks ==
  ASSUME StreamsTypeOK, NEW t \in Tasks, NEW S \in SUBSET StreamIds, Unref(t, S)
  PROVE  Shrinks /\ \A s \in S : registry'[s] # None => t \notin entries'[registry'[s]].refs
<1>1. /\ \A s \in StreamIds : registry'[s] # None => registry'[s] = registry[s]
      /\ \A e \in Calls : entries'[e].refs \subseteq entries[e].refs
      /\ \A s \in S : registry'[s] # None => t \notin entries'[registry'[s]].refs
  BY UnrefEffect
<1> QED
  BY <1>1 DEF Shrinks, StreamsTypeOK

\* Waking up, or ending a handle, references nothing anew.
LEMMA StreamStepShrinks ==
  ASSUME StreamInv, NEW c \in Calls, CallSteps(c) \/ EndHandle(c)
  PROVE  Shrinks
<1>0. StreamsTypeOK /\ TaskOf(c) \in Tasks
  BY TaskOfCall DEF StreamInv
<1>1. CASE SetupSucceeds(c)
  BY <1>0, <1>1 DEF SetupSucceeds, Shrinks, StreamsTypeOK
<1>2. CASE SetupFails(c)
  <2>1. calls[c].stream \in StreamIds
    BY <1>2 DEF SetupFails, StreamInv, CallsSound, Waiting
  <2>2. \A s \in StreamIds : registry'[s] # None => registry'[s] = registry[s]
    BY <1>0, <1>2, <2>1 DEF SetupFails, StreamsTypeOK
  <2>3. ASSUME NEW e \in Calls PROVE entries'[e].refs \subseteq entries[e].refs
    <3>1. entries' = [d \in Calls |->
            [entries[d] EXCEPT !.setup = IF d = c THEN "failed" ELSE @,
                               !.refs = IF d = registry[calls[c].stream] THEN @ \ {TaskOf(c)} ELSE @]]
      BY <1>2 DEF SetupFails
    <3> DEFINE w == [entries[e] EXCEPT !.setup = IF e = c THEN "failed" ELSE @]
    <3>2. w \in [refs : SUBSET Tasks, setup : {"pending", "ready", "failed"}, external : BOOLEAN]
          /\ w.refs = entries[e].refs
      BY <1>0 DEF StreamsTypeOK
    <3>3. entries'[e] = [w EXCEPT !.refs = IF e = registry[calls[c].stream] THEN @ \ {TaskOf(c)} ELSE @]
      BY <3>1
    <3> HIDE DEF w
    <3> QED
      BY <3>2, <3>3
  <2> QED
    BY <1>0, <2>2, <2>3 DEF Shrinks, StreamsTypeOK
<1>3. ASSUME NEW s, RollBack(s, TaskOf(c)), s \in StreamIds PROVE Shrinks
  BY <1>0, <1>3, UnrefShrinks DEF RollBack
<1>4. calls[c].stage \in {"attaching", "activating", "returned"} => calls[c].stream \in StreamIds
  BY DEF StreamInv, CallsSound, Waiting
<1>5. CASE UNCHANGED <<registry, entries>>
  BY <1>5 DEF Shrinks
<1>6. CASE AttachWakes(c)
  BY <1>3, <1>4, <1>5, <1>6 DEF AttachWakes
<1>7. CASE ActivateSucceeds(c) \/ RejoinWakes(c)
  BY <1>5, <1>7 DEF ActivateSucceeds, RejoinWakes
<1>8. CASE ActivateFails(c)
  BY <1>3, <1>4, <1>8 DEF ActivateFails
<1>9. CASE EndHandle(c)
  <2>1. Unref(TaskOf(c), {calls[c].stream}) /\ {calls[c].stream} \in SUBSET StreamIds
    BY <1>4, <1>9 DEF EndHandle, ReleaseStream
  <2> QED
    BY <1>0, <2>1, UnrefShrinks
<1> QED
  BY <1>1, <1>2, <1>6, <1>7, <1>8, <1>9 DEF CallSteps

\* A handler's call references a stream for its own task only.
LEMMA CreateReferences ==
  ASSUME StreamInv, NEW c \in Calls, HandlerCreates(c)
  PROVE  /\ StreamInv' /\ phase[TaskOf(c)] = "running"
         /\ \A s \in StreamIds : registry'[s] # None =>
              \A t \in entries'[registry'[s]].refs :
                t = TaskOf(c) \/ (registry[s] # None /\ t \in entries[registry[s]].refs)
<1>0. StreamsTypeOK /\ TaskOf(c) \in Tasks
  BY TaskOfCall DEF StreamInv
<1>1. phase[TaskOf(c)] = "running"
  BY DEF HandlerCreates
<1>2. (\E s \in Shared : CreateShared(c, s)) \/ (\E ext \in BOOLEAN : CreateOwn(c, ext))
  BY DEF HandlerCreates
<1>3. StreamInv'
  BY <1>2, CreateSharedKeeps, CreateOwnKeeps
<1>4. \/ UNCHANGED <<registry, entries>>
      \/ \E s \in StreamIds, ext \in BOOLEAN : calls[c].stage = "unused" /\ AcquireNew(c, s, ext)
      \/ \E s \in StreamIds : AcquireAttach(c, s)
  BY <1>2 DEF CreateShared, CreateOwn, StreamIds, AcquireAgain
<1>5. CASE UNCHANGED <<registry, entries>>
  BY <1>1, <1>3, <1>5
<1>6. ASSUME NEW s \in StreamIds, NEW ext \in BOOLEAN,
             calls[c].stage = "unused", AcquireNew(c, s, ext), NEW x \in StreamIds,
             registry'[x] # None, NEW t \in entries'[registry'[x]].refs
      PROVE  t = TaskOf(c) \/ (registry[x] # None /\ t \in entries[registry[x]].refs)
  <2>1. registry[x] # c
    BY <1>6, CallsAssumption DEF StreamInv, EntriesSound, Made
  <2>2. CASE x = s
    BY <1>0, <1>6, <2>2 DEF AcquireNew, StreamsTypeOK
  <2>3. CASE x # s
    <3>1. registry'[x] = registry[x] /\ entries'[registry[x]] = entries[registry[x]]
      BY <1>0, <1>6, <2>1, <2>3 DEF AcquireNew, StreamsTypeOK
    <3> QED
      BY <1>6, <3>1
  <2> QED
    BY <2>2, <2>3
<1>7. ASSUME NEW s \in StreamIds, AcquireAttach(c, s), NEW x \in StreamIds,
             registry'[x] # None, NEW t \in entries'[registry'[x]].refs
      PROVE  t = TaskOf(c) \/ (registry[x] # None /\ t \in entries[registry[x]].refs)
  <2>1. registry' = registry /\ registry[x] \in Calls
    BY <1>0, <1>7 DEF AcquireAttach, StreamsTypeOK
  <2>2. entries'[registry[x]].refs \subseteq entries[registry[x]].refs \cup {TaskOf(c)}
    BY <1>0, <1>7, <2>1 DEF AcquireAttach, StreamsTypeOK
  <2> QED
    BY <1>7, <2>1, <2>2
<1> QED
  BY <1>1, <1>3, <1>4, <1>5, <1>6, <1>7

-----------------------------------------------------------------------------
(* The instance.                                                             *)

LEMMA InitIInv == Init => IInv
<1> SUFFICES ASSUME Init PROVE IInv
  OBVIOUS
<1>1. StreamsTypeOK
  <2>1. NoCall \in CallType /\ NoCall.stage = "unused" /\ NoCall.entry = None
    BY DEF NoCall, CallType
  <2> QED
    BY <2>1 DEF Init, StreamsInit, StreamsTypeOK
<1>2. /\ \A c \in Calls : calls[c].stage = "unused" /\ calls[c].entry = None
      /\ \A s \in StreamIds : registry[s] = None
      /\ ended = {}
      /\ \A s \in Shared, t \in Tasks : handles[s][t] = None
  BY DEF Init, StreamsInit, NoCall
<1>3. StreamInv
  BY <1>1, <1>2 DEF StreamInv, CallsSound, EntriesSound, HandlesSound, RegistryServes, Waiting
<1>4. TypeOK
  BY <1>1, BoundsAssumption DEF Init, TypeOK, Phases
<1>5. TasksSound /\ StreamsAreReachable
  BY <1>2 DEF Init, TasksSound, StreamsAreReachable
<1> QED
  BY <1>3, <1>4, <1>5 DEF IInv

\* Steps of the tasks that reference nothing anew: what is referenced stays within reach if
\* no task leaves it with its credentials gone.
LEMMA TasksKeepReach ==
  ASSUME IInv, Shrinks, StreamInv', TypeOK',
         TasksSound',
         conn' # "stopped" =>
           conn # "stopped" /\ \A t \in InFlight \cup creds \cup written :
             \/ t \in (InFlight \cup creds \cup written)'
             \/ \A s \in StreamIds :
                  registry'[s] # None => t \notin entries'[registry'[s]].refs
  PROVE  IInv'
<1>1. StreamsAreReachable'
  <2>1. SUFFICES ASSUME conn' # "stopped", NEW s \in StreamIds, registry'[s] # None,
                        NEW t \in entries'[registry'[s]].refs
                 PROVE  t \in (InFlight \cup creds \cup written)'
    BY DEF StreamsAreReachable
  <2>2. t \in InFlight \cup creds \cup written
    BY <2>1 DEF IInv, StreamsAreReachable, Shrinks
  <2> QED
    BY <2>1, <2>2
<1> QED
  BY <1>1 DEF IInv

\* Nothing of the streams changes.
LEMMA FrameOfStreams ==
  ASSUME StreamInv, UNCHANGED streamVars
  PROVE  StreamInv' /\ Shrinks /\ StreamsTypeOK'
BY DEF streamVars, StreamInv, StreamsTypeOK, CallsSound, EntriesSound, HandlesSound, HandleOf,
   RegistryServes, HasClient, Made, Shrinks

LEMMA NextKeepsIInv == IInv /\ [Next]_vars => IInv'
<1> SUFFICES ASSUME IInv, [Next]_vars PROVE IInv'
  OBVIOUS
<1>0. StreamInv /\ TypeOK /\ TasksSound /\ StreamsTypeOK
  BY DEF IInv, StreamInv
<1>1. CASE Connected \/ ConnectRetries
  <2>1. UNCHANGED streamVars
    BY <1>1 DEF Connected, ConnectRetries
  <2>2. StreamInv' /\ Shrinks /\ StreamsTypeOK'
    BY <1>0, <2>1, FrameOfStreams
  <2>3. TypeOK'
    BY <1>0, <1>1, <2>2 DEF Connected, ConnectRetries, TypeOK
  <2>4. TasksSound'
    BY <1>0, <1>1, <2>1 DEF Connected, ConnectRetries, TasksSound, streamVars
  <2> QED
    BY <1>1, <2>2, <2>3, <2>4, TasksKeepReach DEF Connected, ConnectRetries, InFlight
<1>2. CASE Stop
  <2>1. StreamInv'
    BY <1>0, <1>2, RemovalKeeps DEF Stop
  <2>2. TypeOK'
    BY <1>0, <1>2, <2>1 DEF Stop, TypeOK, StreamInv
  <2>3. \A s \in StreamIds : registry'[s] = None
    BY <1>2 DEF Stop, ClearStreams
  <2>4. TasksSound'
    BY <1>0, <1>2, <2>3 DEF Stop, TasksSound
  <2>5. conn' = "stopped" /\ Shrinks
    BY <1>2, <2>3 DEF Stop, Shrinks
  <2> QED
    BY <2>1, <2>2, <2>4, <2>5, TasksKeepReach
<1>3. ASSUME NEW t \in Tasks, NEW isPipe \in BOOLEAN, StartTask(t, isPipe) PROVE IInv'
  <2>1. StreamInv' /\ Shrinks /\ StreamsTypeOK'
    BY <1>0, <1>3, FrameOfStreams DEF StartTask
  <2>2. TypeOK'
    BY <1>0, <1>3, <2>1 DEF StartTask, TypeOK, Phases
  <2>3. TasksSound'
    BY <1>0, <1>3 DEF StartTask, TasksSound, TypeOK, streamVars
  <2>4. \A u \in InFlight \cup creds \cup written : u \in (InFlight \cup creds \cup written)'
    BY <1>0, <1>3 DEF StartTask, InFlight, TypeOK
  <2> QED
    BY <1>3, <2>1, <2>2, <2>3, <2>4, TasksKeepReach DEF StartTask
<1>4. ASSUME NEW t \in Tasks, RefuseTask(t) \/ ReturnsToStreams(t) PROVE IInv'
  <2>1. StreamInv' /\ Shrinks /\ StreamsTypeOK'
    BY <1>0, <1>4, FrameOfStreams DEF RefuseTask, ReturnsToStreams
  <2>2. TypeOK'
    BY <1>0, <1>4, <2>1 DEF RefuseTask, ReturnsToStreams, TypeOK, Phases
  <2>3. TasksSound'
    BY <1>0, <1>4 DEF RefuseTask, ReturnsToStreams, TasksSound, TypeOK, streamVars
  <2>4. ASSUME conn' # "stopped", NEW u \in InFlight \cup creds \cup written
        PROVE  u \in (InFlight \cup creds \cup written)'
    BY <1>0, <1>4, <2>4 DEF RefuseTask, ReturnsToStreams, InFlight, TypeOK, TasksSound
  <2> QED
    BY <1>4, <2>1, <2>2, <2>3, <2>4, TasksKeepReach DEF RefuseTask, ReturnsToStreams
<1>5. ASSUME NEW t \in Tasks, ReleasesStreams(t) PROVE IInv'
  <2>1. StreamInv'
    BY <1>0, <1>5, ReleaseAllKeeps DEF ReleasesStreams
  <2>2. Shrinks /\ \A s \in StreamIds : registry'[s] # None => t \notin entries'[registry'[s]].refs
    BY <1>0, <1>5, UnrefShrinks DEF ReleasesStreams, ReleaseAllStreamsForTask
  <2>3. TypeOK'
    BY <1>0, <1>5, <2>1 DEF ReleasesStreams, TypeOK, Phases, StreamInv
  <2>4. TasksSound'
    BY <1>0, <1>5, <2>2 DEF ReleasesStreams, TasksSound, TypeOK, Shrinks
  <2>5. \A u \in InFlight \cup creds \cup written : u \in (InFlight \cup creds \cup written)'
    BY <1>0, <1>5 DEF ReleasesStreams, InFlight, TypeOK
  <2> QED
    BY <1>5, <2>1, <2>2, <2>3, <2>4, <2>5, TasksKeepReach DEF ReleasesStreams
<1>6. ASSUME NEW t \in Tasks, LeavesWithTerminal(t) PROVE IInv'
  <2>1. StreamInv' /\ Shrinks /\ StreamsTypeOK'
    BY <1>0, <1>6, FrameOfStreams DEF LeavesWithTerminal
  <2>2. TypeOK'
    BY <1>0, <1>6, <2>1 DEF LeavesWithTerminal, TypeOK, Phases
  <2>3. TasksSound'
    BY <1>0, <1>6 DEF LeavesWithTerminal, TasksSound, TypeOK, streamVars
  <2>4. \A s \in StreamIds : registry'[s] # None => t \notin entries'[registry'[s]].refs
    BY <1>0, <1>6 DEF LeavesWithTerminal, TasksSound, streamVars
  <2>5. \A u \in InFlight \cup creds \cup written :
          u = t \/ u \in (InFlight \cup creds \cup written)'
    BY <1>0, <1>6 DEF LeavesWithTerminal, InFlight, TypeOK
  <2> QED
    BY <1>6, <2>1, <2>2, <2>3, <2>4, <2>5, TasksKeepReach DEF LeavesWithTerminal
<1>7. ASSUME NEW t \in Tasks, AbortInFlight(t) \/ PostTerminal(t) PROVE IInv'
  <2>1. StreamInv' /\ Shrinks /\ StreamsTypeOK'
    BY <1>0, <1>7, FrameOfStreams DEF AbortInFlight, PostTerminal
  <2>2. TypeOK'
    BY <1>0, <1>7, <2>1 DEF AbortInFlight, PostTerminal, TypeOK
  <2>3. TasksSound'
    BY <1>0, <1>7 DEF AbortInFlight, PostTerminal, TasksSound, TypeOK, Phases, InFlight, streamVars
  <2> QED
    BY <1>7, <2>1, <2>2, <2>3, TasksKeepReach DEF AbortInFlight, PostTerminal, InFlight
<1>8. ASSUME NEW t \in Tasks, PostReleases(t) PROVE IInv'
  <2>1. StreamInv'
    BY <1>0, <1>8, ReleaseAllKeeps DEF PostReleases
  <2>2. Shrinks /\ \A s \in StreamIds : registry'[s] # None => t \notin entries'[registry'[s]].refs
    BY <1>0, <1>8, UnrefShrinks DEF PostReleases, ReleaseAllStreamsForTask
  <2>3. TypeOK'
    BY <1>0, <1>8, <2>1 DEF PostReleases, TypeOK, StreamInv
  <2>4. TasksSound'
    BY <1>0, <1>8, <2>2 DEF PostReleases, TasksSound, TypeOK, Shrinks
  <2>5. \A u \in InFlight \cup creds \cup written :
          u = t \/ u \in (InFlight \cup creds \cup written)'
    BY <1>8 DEF PostReleases, InFlight
  <2> QED
    BY <1>8, <2>1, <2>2, <2>3, <2>4, <2>5, TasksKeepReach DEF PostReleases
<1>9. ASSUME NEW t \in Tasks, FailNextTask(t) PROVE IInv'
  <2>1. StreamInv' /\ Shrinks /\ StreamsTypeOK'
    BY <1>0, <1>9, FrameOfStreams DEF FailNextTask
  <2>2. TypeOK'
    BY <1>0, <1>9, <2>1 DEF FailNextTask, TypeOK
  <2>3. TasksSound'
    BY <1>0, <1>9 DEF FailNextTask, TasksSound, TypeOK, streamVars
  <2>4. \A u \in InFlight \cup creds \cup written : u \in (InFlight \cup creds \cup written)'
    BY <1>9 DEF FailNextTask, InFlight
  <2> QED
    BY <1>9, <2>1, <2>2, <2>3, <2>4, TasksKeepReach DEF FailNextTask
<1>10. ASSUME NEW c \in Calls, HandlerCreates(c) PROVE IInv'
  <2>1. /\ StreamInv' /\ phase[TaskOf(c)] = "running"
        /\ \A s \in StreamIds : registry'[s] # None =>
             \A t \in entries'[registry'[s]].refs :
               t = TaskOf(c) \/ (registry[s] # None /\ t \in entries[registry[s]].refs)
    BY <1>0, <1>10, CreateReferences
  <2>2. UNCHANGED taskVars /\ TaskOf(c) \in Tasks
    BY <1>10, TaskOfCall DEF HandlerCreates
  <2>3. TypeOK'
    BY <1>0, <2>1, <2>2 DEF taskVars, TypeOK, StreamInv
  <2>4. TasksSound'
    BY <1>0, <2>1, <2>2 DEF taskVars, TasksSound
  <2>5. StreamsAreReachable'
    BY <1>0, <2>1, <2>2 DEF taskVars, StreamsAreReachable, InFlight, IInv
  <2> QED
    BY <2>1, <2>3, <2>4, <2>5 DEF IInv
<1>11. ASSUME NEW c \in Calls, StreamStep(c) PROVE IInv'
  <2>1. StreamInv' /\ Shrinks /\ UNCHANGED taskVars
    BY <1>0, <1>11, CallStepsKeep, EndHandleKeeps, StreamStepShrinks DEF StreamStep
  <2>2. TypeOK'
    BY <1>0, <2>1 DEF taskVars, TypeOK, StreamInv
  <2>3. TasksSound'
    BY <1>0, <2>1 DEF taskVars, TasksSound, Shrinks
  <2> QED
    BY <2>1, <2>2, <2>3, TasksKeepReach DEF taskVars, InFlight
<1>12. ASSUME NEW s \in StreamIds, FailStream(s) PROVE IInv'
  <2>1. StreamInv'
    BY <1>0, <1>12, RemovalKeeps DEF FailStream
  <2>2. Shrinks
    BY <1>0, <1>12 DEF FailStream, RemoveStream, Shrinks, StreamsTypeOK
  <2>3. TypeOK'
    BY <1>0, <1>12, <2>1, BoundsAssumption DEF FailStream, TypeOK, StreamInv, StreamsTypeOK
  <2>4. TasksSound'
    BY <1>0, <1>12, <2>2 DEF FailStream, TasksSound, Shrinks
  <2> QED
    BY <1>12, <2>1, <2>2, <2>3, <2>4, TasksKeepReach DEF FailStream, InFlight
<1>13. CASE UNCHANGED vars
  <2>1. StreamInv' /\ Shrinks /\ StreamsTypeOK' /\ UNCHANGED taskVars
    BY <1>0, <1>13, FrameOfStreams DEF vars
  <2>2. TypeOK'
    BY <1>0, <2>1 DEF taskVars, TypeOK
  <2>3. TasksSound'
    BY <1>0, <2>1 DEF taskVars, TasksSound, Shrinks
  <2> QED
    BY <2>1, <2>2, <2>3, TasksKeepReach DEF taskVars, InFlight
<1> QED
  BY <1>1, <1>2, <1>3, <1>4, <1>5, <1>6, <1>7, <1>8, <1>9, <1>10, <1>11, <1>12, <1>13
  DEF Next, HandlerStep

LEMMA IInvAlways == Spec => []IInv
BY InitIInv, NextKeepsIInv, PTL DEF Spec

-----------------------------------------------------------------------------
\* Every stream in the registry serves whoever finds it, no createStream call waits for a
\* setup that will never settle, and what counts against the capacity stays in the reach of a
\* control message, however the handlers' calls, failures and releases interleave.
THEOREM RegistryIsSound == Spec => []RegistrySound
<1>1. ASSUME StreamInv PROVE WaitersAreWoken
  BY <1>1, CallFields DEF StreamInv, CallsSound, Made, WaitersAreWoken, Waiting
<1>2. IInv => RegistrySound
  BY <1>1 DEF IInv, StreamInv, RegistrySound
<1> QED
  BY <1>2, IInvAlways, PTL

\* A task whose handler returns leaves with its terminal out or with the credentials for one:
\* none is over that no control message can end.
THEOREM TasksLeaveAccountedFor == Spec => LeavesAccountedFor
<1>1. IInv /\ [Next]_vars =>
        [\A t \in InFlight : phase'[t] = "over" =>
           phase[t] = "released" \/ t \in creds' \cup written' \/ conn = "stopped"]_vars
  <2> SUFFICES ASSUME IInv, Next, NEW t \in InFlight, phase'[t] = "over", phase[t] # "released",
                      conn # "stopped"
               PROVE  t \in creds' \cup written'
    OBVIOUS
  <2>1. t \in Tasks /\ phase[t] = "running" /\ t \in creds \cup written
    BY DEF InFlight, IInv, TasksSound
  <2>2. PICK u \in Tasks : ReturnsToStreams(u)
    <3>1. phase' # phase
      BY <2>1
    <3>2. \E u \in Tasks : \/ \E b \in BOOLEAN : StartTask(u, b)
                          \/ RefuseTask(u) \/ HandlerStep(u)
      BY <3>1 DEF Next, Connected, ConnectRetries, Stop, AbortInFlight, PostTerminal,
         PostReleases, FailNextTask, HandlerCreates, StreamStep, taskVars, FailStream
    <3> QED
      BY <2>1, <3>2 DEF StartTask, RefuseTask, HandlerStep, ReleasesStreams,
         LeavesWithTerminal, IInv, TypeOK
  <2> QED
    BY <2>1, <2>2 DEF ReturnsToStreams
<1> QED
  BY <1>1, IInvAlways, PTL DEF Spec, LeavesAccountedFor

-----------------------------------------------------------------------------
(* The data streams themselves: writer, channel and reader. PipeInv holds  *)
(* of them for every input, size of messages, number of parts and of groups. *)

Sent ==
  [kind : {"data", "end"}, chunks : Seq(Nat), encoding : Encodings, parts : Seq(Nat)]

StreamTypes ==
  /\ format \in {"bytes", "events"} /\ affinity \in {"dedicated", "shared"}
  /\ writes \in 0..Len(Input) /\ buffer \in Seq(Nat)
  /\ hasBinary \in BOOLEAN /\ flushTimer \in BOOLEAN
  /\ messages \in Seq(Sent)
  /\ ending \in {"no", "flights", "flush", "marker", "ended"}
  /\ wire \subseteq {x \in Nat \X Nat : x[1] \in DOMAIN messages /\ x[2] \in DOMAIN messages[x[1]].parts}

\* The chunks of the messages and then of the buffer are all those written, in order. A
\* message has a chunk of its own number or a later one: no more messages than writes.
Chunked(m) == DOMAIN m.chunks
Ordered(ms, batch) ==
  /\ \A i, j \in DOMAIN ms : \A k \in Chunked(ms[i]), l \in Chunked(ms[j]) :
       i < j \/ (i = j /\ k < l) => ms[i].chunks[k] < ms[j].chunks[l]
  /\ \A i \in DOMAIN ms : \A k \in Chunked(ms[i]), l \in DOMAIN batch :
       ms[i].chunks[k] < batch[l]
  /\ \A k, l \in DOMAIN batch : k < l => batch[k] < batch[l]
Within(ms, batch, w) ==
  /\ \A i \in DOMAIN ms : \A k \in Chunked(ms[i]) : i <= ms[i].chunks[k] /\ ms[i].chunks[k] <= w
  /\ \A l \in DOMAIN batch : Len(ms) < batch[l] /\ batch[l] <= w
AllThere(ms, batch, w) ==
  \A n \in 1..w : \/ \E l \in DOMAIN batch : batch[l] = n
                  \/ \E i \in DOMAIN ms : \E k \in Chunked(ms[i]) : ms[i].chunks[k] = n
Batched(ms, batch, w) == Ordered(ms, batch) /\ Within(ms, batch, w) /\ AllThere(ms, batch, w)

\* A batch of a byte stream that has a binary chunk is marked.
Marked(batch, binary) ==
  format = "bytes" => \A l \in DOMAIN batch : Input[batch[l]] = "binary" => binary
AllMarked == \A i \in DOMAIN messages : Marked(messages[i].chunks, messages[i].encoding = "base64")

\* What is buffered has a flush to come, and the end marker is last and behind it.
EndsLast ==
  /\ ending # "no" => ~flushTimer
  /\ buffer # <<>> => flushTimer \/ ending = "flights"
  /\ \A i \in DOMAIN messages : messages[i].kind = "end" => i = Len(messages)
  /\ ending \in {"no", "flights", "flush"} =>
       Len(messages) <= writes /\ \A i \in DOMAIN messages : messages[i].kind = "data"
  /\ Len(messages) <= writes + 1

WriterSound ==
  /\ StreamTypes
  /\ Batched(messages, buffer, writes)
  /\ Marked(buffer, hasBinary) /\ AllMarked
  /\ EndsLast

\* A data message of which every part is on the channel.
Arrived(n) ==
  /\ n + 1 \in DOMAIN messages /\ messages[n + 1].kind = "data"
  /\ \A p \in DOMAIN messages[n + 1].parts : <<n + 1, p>> \in wire

\* The reader but for its groups.
YieldedBy(c) == c.read \o c.queue
BufferSound(c) ==
  /\ \A n \in c.buffer : c.next < n /\ Arrived(n)
  /\ c.buffer # {} => c.timer /\ ~c.done
YieldSound(c) ==
  /\ \A i \in DOMAIN YieldedBy(c) : Arrived(YieldedBy(c)[i]) /\ YieldedBy(c)[i] < c.next
  /\ \A i, j \in DOMAIN YieldedBy(c) : i < j => YieldedBy(c)[i] < YieldedBy(c)[j]
  /\ c.waiting => c.queue = <<>> /\ ~c.done
EndKnown(c) ==
  /\ c.endSeq # NoEnd =>
       c.endSeq + 1 \in DOMAIN messages /\ messages[c.endSeq + 1].kind = "end"
  /\ c.done /\ c.attached => c.endSeq # NoEnd /\ c.next >= c.endSeq
EndSound(c) == EndKnown(c) /\ (~c.done => c.endSeq = NoEnd \/ c.next < c.endSeq)
ReaderSound(c) == c \in Readers /\ BufferSound(c) /\ YieldSound(c) /\ EndSound(c)

\* A group has some of the parts of a message, all of them from the channel.
PartsOf(n) == {p \in DOMAIN messages[n + 1].parts : <<n + 1, p>> \in wire}
GroupSound(g) ==
  /\ g.n + 1 \in DOMAIN messages /\ messages[g.n + 1].kind = "data"
  /\ g.got \subseteq PartsOf(g.n)
GroupsSound(gs) ==
  /\ Len(gs) <= MaxGroups + 1
  /\ \A i, j \in DOMAIN gs : gs[i].n = gs[j].n => i = j
  /\ \A i \in DOMAIN gs : GroupSound(gs[i]) /\ gs[i].got # DOMAIN messages[gs[i].n + 1].parts

PipeInv == WriterSound /\ ReaderSound(r) /\ GroupsSound(r.groups)

-----------------------------------------------------------------------------
(* Batches.                                                                  *)

LEMMA SentMessage ==
  ASSUME NEW ms \in Seq(Sent), NEW i \in DOMAIN ms
  PROVE  ms[i] \in Sent /\ ms[i].chunks \in Seq(Nat) /\ ms[i].parts \in Seq(Nat)
  <1>1. ms[i] \in Sent
    OBVIOUS
  <1> QED BY <1>1 DEF Sent

\* Another write goes behind all that are there.
LEMMA BatchGrows ==
  ASSUME NEW ms \in Seq(Sent), NEW batch \in Seq(Nat), NEW w \in Nat,
         Batched(ms, batch, w), Len(ms) <= w
  PROVE  Append(batch, w + 1) \in Seq(Nat) /\ Batched(ms, Append(batch, w + 1), w + 1)
  <1> DEFINE more == Append(batch, w + 1)
  <1>1. /\ more \in Seq(Nat) /\ DOMAIN batch = 1..Len(batch) /\ Len(batch) \in Nat
        /\ DOMAIN more = 1..(Len(batch) + 1) /\ more[Len(batch) + 1] = w + 1
        /\ \A l \in DOMAIN batch : more[l] = batch[l] /\ batch[l] \in Nat
    OBVIOUS
  <1>2. /\ \A i \in DOMAIN ms : \A k \in Chunked(ms[i]) : ms[i].chunks[k] \in Nat
        /\ DOMAIN ms = 1..Len(ms) /\ Len(ms) \in Nat
    BY SentMessage DEF Chunked
  <1> HIDE DEF more
  <1>0. \A l \in DOMAIN more : l \in DOMAIN batch \/ (l = Len(batch) + 1 /\ more[l] = w + 1)
    BY <1>1
  <1>6. \A l \in DOMAIN batch : batch[l] <= w /\ Len(ms) < batch[l]
    BY DEF Batched, Within
  <1>7. \A i \in DOMAIN ms : \A k \in Chunked(ms[i]) :
          i <= ms[i].chunks[k] /\ ms[i].chunks[k] <= w
    BY DEF Batched, Within
  <1>3. Ordered(ms, more)
    <2>1. \A i \in DOMAIN ms : \A k \in Chunked(ms[i]), l \in DOMAIN more :
            ms[i].chunks[k] < more[l]
      <3>1. TAKE i \in DOMAIN ms
      <3>2. TAKE k \in Chunked(ms[i]), l \in DOMAIN more
      <3>3. CASE l \in DOMAIN batch
        BY <1>1, <3>1, <3>2, <3>3 DEF Batched, Ordered
      <3>4. CASE l = Len(batch) + 1
        <4>1. ms[i].chunks[k] \in Nat /\ ms[i].chunks[k] <= w /\ more[l] = w + 1
          BY <1>1, <1>2, <1>7, <3>4
        <4> QED BY <4>1
      <3> QED BY <1>0, <3>3, <3>4
    <2>2. \A k, l \in DOMAIN more : k < l => more[k] < more[l]
      <3>1. TAKE k, l \in DOMAIN more
      <3>2. HAVE k < l
      <3>3. k \in DOMAIN batch
        BY <1>0, <1>1, <3>2
      <3>4. CASE l \in DOMAIN batch
        BY <1>1, <3>2, <3>3, <3>4 DEF Batched, Ordered
      <3>5. CASE l = Len(batch) + 1
        BY <1>1, <1>6, <3>3, <3>5
      <3> QED BY <1>0, <3>4, <3>5
    <2> QED BY <2>1, <2>2 DEF Batched, Ordered
  <1>4. Within(ms, more, w + 1)
    <2>1. \A i \in DOMAIN ms : \A k \in Chunked(ms[i]) :
            i <= ms[i].chunks[k] /\ ms[i].chunks[k] <= w + 1
      <3>1. TAKE i \in DOMAIN ms
      <3>2. TAKE k \in Chunked(ms[i])
      <3>3. ms[i].chunks[k] \in Nat /\ ms[i].chunks[k] <= w /\ i <= ms[i].chunks[k]
        BY <1>2, <1>7
      <3> QED BY <3>3
    <2>2. \A l \in DOMAIN more : Len(ms) < more[l] /\ more[l] <= w + 1
      BY <1>0, <1>1, <1>2, <1>6
    <2> QED BY <2>1, <2>2 DEF Within
  <1>5. AllThere(ms, more, w + 1)
    <2>1. SUFFICES ASSUME NEW n \in 1..(w + 1)
                   PROVE  \/ \E l \in DOMAIN more : more[l] = n
                          \/ \E i \in DOMAIN ms : \E k \in Chunked(ms[i]) : ms[i].chunks[k] = n
      BY DEF AllThere
    <2>2. CASE n = w + 1
      BY <1>1, <2>2
    <2>3. CASE n \in 1..w
      <3>1. CASE \E l \in DOMAIN batch : batch[l] = n
        BY <1>1, <3>1
      <3> QED BY <2>3, <3>1 DEF Batched, AllThere
    <2>4. n = w + 1 \/ n \in 1..w
      OBVIOUS
    <2> QED BY <2>2, <2>3, <2>4
  <1> QED BY <1>1, <1>3, <1>4, <1>5 DEF Batched, more

\* A batch becomes the last message, an empty one at the end of the stream.
LEMMA BatchCut ==
  ASSUME NEW ms \in Seq(Sent), NEW batch \in Seq(Nat), NEW w \in Nat, NEW m \in Sent,
         m.chunks = batch, Batched(ms, batch, w)
  PROVE  /\ Append(ms, m) \in Seq(Sent) /\ Batched(Append(ms, m), <<>>, w)
         /\ batch # <<>> => Len(ms) + 1 <= w
  <1> DEFINE more == Append(ms, m)
  <1>1. /\ more \in Seq(Sent) /\ DOMAIN ms = 1..Len(ms) /\ Len(ms) \in Nat
        /\ DOMAIN more = 1..(Len(ms) + 1) /\ more[Len(ms) + 1] = m /\ Len(more) = Len(ms) + 1
        /\ \A i \in DOMAIN ms : more[i] = ms[i]
    OBVIOUS
  <1>2. /\ \A i \in DOMAIN ms : \A k \in Chunked(ms[i]) : ms[i].chunks[k] \in Nat
        /\ DOMAIN batch = 1..Len(batch) /\ \A l \in DOMAIN batch : batch[l] \in Nat
        /\ batch # <<>> => 1 \in DOMAIN batch
    BY SentMessage DEF Chunked
  <1>3. Chunked(m) = DOMAIN batch
    BY DEF Chunked
  <1> HIDE DEF more
  <1>4. \A i \in DOMAIN more : i \in DOMAIN ms \/ (i = Len(ms) + 1 /\ more[i] = m)
    BY <1>1
  <1>5. Ordered(more, <<>>)
    <2>1. ASSUME NEW i \in DOMAIN more, NEW j \in DOMAIN more,
                 NEW k \in Chunked(more[i]), NEW l \in Chunked(more[j]),
                 i < j \/ (i = j /\ k < l)
          PROVE  more[i].chunks[k] < more[j].chunks[l]
      <3>1. CASE i \in DOMAIN ms /\ j \in DOMAIN ms
        BY <1>1, <2>1, <3>1 DEF Batched, Ordered
      <3>2. CASE i \in DOMAIN ms /\ j = Len(ms) + 1
        BY <1>1, <1>3, <2>1, <3>2 DEF Batched, Ordered
      <3>3. CASE i = Len(ms) + 1
        <4>1. j = Len(ms) + 1 /\ k < l
          BY <1>1, <2>1, <3>3
        <4>2. more[i] = m /\ more[j] = m /\ k \in DOMAIN batch /\ l \in DOMAIN batch
          BY <1>1, <1>3, <2>1, <3>3, <4>1
        <4> QED BY <4>1, <4>2 DEF Batched, Ordered
      <3> QED BY <1>4, <3>1, <3>2, <3>3
    <2> QED BY <2>1 DEF Ordered
  <1>6. Within(more, <<>>, w)
    <2>1. \A i \in DOMAIN ms : \A k \in Chunked(more[i]) :
             i <= more[i].chunks[k] /\ more[i].chunks[k] <= w
      BY <1>1 DEF Batched, Within
    <2>2. \A k \in Chunked(m) : Len(ms) + 1 <= m.chunks[k] /\ m.chunks[k] <= w
      BY <1>1, <1>2, <1>3 DEF Batched, Within
    <2> QED BY <1>1, <1>4, <2>1, <2>2 DEF Within
  <1>7. AllThere(more, <<>>, w)
    <2>1. SUFFICES ASSUME NEW n \in 1..w
                   PROVE  \E i \in DOMAIN more : \E k \in Chunked(more[i]) : more[i].chunks[k] = n
      BY DEF AllThere
    <2>2. CASE \E l \in DOMAIN batch : batch[l] = n
      <3>1. Len(ms) + 1 \in DOMAIN more
        BY <1>1
      <3> QED BY <1>1, <1>3, <2>2, <3>1
    <2>3. CASE \E i \in DOMAIN ms : \E k \in Chunked(ms[i]) : ms[i].chunks[k] = n
      <3>1. PICK i \in DOMAIN ms : \E k \in Chunked(ms[i]) : ms[i].chunks[k] = n
        BY <2>3
      <3>2. i \in DOMAIN more /\ more[i] = ms[i]
        BY <1>1
      <3> QED BY <3>1, <3>2
    <2> QED BY <2>2, <2>3 DEF Batched, AllThere
  <1>8. batch # <<>> => Len(ms) + 1 <= w
    BY <1>1, <1>2 DEF Batched, Within
  <1> QED BY <1>1, <1>5, <1>6, <1>7, <1>8 DEF Batched, more

\* What the messages have in common when only the state of their parts changes, or more
\* messages follow.
Grown(ms, ns) ==
  /\ Len(ms) <= Len(ns)
  /\ \A i \in DOMAIN ms :
       /\ ns[i].kind = ms[i].kind /\ ns[i].chunks = ms[i].chunks
       /\ ns[i].encoding = ms[i].encoding /\ DOMAIN ns[i].parts = DOMAIN ms[i].parts

LEMMA AppendGrows ==
  ASSUME NEW ms \in Seq(Sent), NEW m \in Sent
  PROVE  Grown(ms, Append(ms, m))
  BY DEF Grown

LEMMA PartChanges ==
  ASSUME NEW ms \in Seq(Sent), NEW i \in DOMAIN ms, NEW p \in DOMAIN ms[i].parts, NEW v \in Nat,
         NEW ns, ns = [ms EXCEPT ![i].parts[p] = v]
  PROVE  ns \in Seq(Sent) /\ Len(ns) = Len(ms) /\ Grown(ms, ns)
  <1> DEFINE q == [ms[i].parts EXCEPT ![p] = v]
  <1>1. ms[i] \in Sent /\ ms[i].parts \in Seq(Nat)
    BY SentMessage
  <1>2. q \in Seq(Nat) /\ DOMAIN q = DOMAIN ms[i].parts
    BY <1>1
  <1> HIDE DEF q
  <1>3. ASSUME NEW m, m = [ms[i] EXCEPT !.parts = q]
        PROVE  /\ m \in Sent /\ m.kind = ms[i].kind /\ m.chunks = ms[i].chunks
               /\ m.encoding = ms[i].encoding /\ m.parts = q
    BY <1>1, <1>2, <1>3 DEF Sent
  <1>4. ns = [ms EXCEPT ![i] = [ms[i] EXCEPT !.parts = q]]
    BY DEF q
  <1>5. ns \in Seq(Sent) /\ Len(ns) = Len(ms) /\ DOMAIN ns = DOMAIN ms
    BY <1>3, <1>4
  <1>6. ASSUME NEW j \in DOMAIN ms
        PROVE  /\ ns[j].kind = ms[j].kind /\ ns[j].chunks = ms[j].chunks
               /\ ns[j].encoding = ms[j].encoding /\ DOMAIN ns[j].parts = DOMAIN ms[j].parts
    BY <1>2, <1>3, <1>4
  <1>7. Len(ms) \in Nat
    OBVIOUS
  <1> QED BY <1>5, <1>6, <1>7 DEF Grown

LEMMA SameBatches ==
  ASSUME NEW ms \in Seq(Sent), NEW ns \in Seq(Sent), NEW batch, NEW w, Grown(ms, ns),
         Len(ns) = Len(ms), Batched(ms, batch, w)
  PROVE  Batched(ns, batch, w)
  <1>1. /\ DOMAIN ns = DOMAIN ms
        /\ \A i \in DOMAIN ms : ns[i].chunks = ms[i].chunks /\ Chunked(ns[i]) = Chunked(ms[i])
    BY DEF Grown, Chunked
  <1>2. Ordered(ns, batch)
    BY <1>1 DEF Batched, Ordered
  <1>3. Within(ns, batch, w)
    BY <1>1 DEF Batched, Within
  <1>4. AllThere(ns, batch, w)
    BY <1>1 DEF Batched, AllThere
  <1> QED BY <1>2, <1>3, <1>4 DEF Batched

-----------------------------------------------------------------------------
(* The writer's steps keep what the writer has, and what the reader knows of *)
(* the messages.                                                             *)

LEMMA DataMessage ==
  ASSUME NEW batch \in Seq(Nat), NEW binary \in BOOLEAN, NEW parts \in 1..MaxParts
  PROVE  /\ Data(batch, binary, parts) \in Sent
         /\ Data(batch, binary, parts).kind = "data" /\ Data(batch, binary, parts).chunks = batch
         /\ Data(batch, binary, parts).encoding = "base64" <=> binary
  <1>1. parts \in Nat
    BY StreamBundleAssumption
  <1>2. [p \in 1..parts |-> 1] \in Seq(Nat)
    BY <1>1
  <1> QED BY <1>2 DEF Data, Sent, Encodings

LEMMA FlushedKeeps ==
  ASSUME StreamTypes, AllMarked, NEW batch \in Seq(Nat), NEW binary \in BOOLEAN, NEW w \in Nat,
         Batched(messages, batch, w), Marked(batch, binary), Len(messages) <= w,
         \A i \in DOMAIN messages : messages[i].kind = "data",
         Flushed(batch, binary), format' = format
  PROVE  /\ messages' \in Seq(Sent) /\ Grown(messages, messages')
         /\ Batched(messages', <<>>, w) /\ AllMarked' /\ Len(messages') <= w
         /\ \A i \in DOMAIN messages' : messages'[i].kind = "data"
         /\ buffer' = <<>> /\ hasBinary' = FALSE /\ flushTimer' = FALSE
  <1>1. CASE batch = <<>>
    <2>1. messages' = messages /\ messages \in Seq(Sent)
      BY <1>1 DEF Flushed, StreamTypes
    <2>2. Grown(messages, messages')
      BY <2>1 DEF Grown
    <2>3. AllMarked'
      BY <2>1 DEF AllMarked, Marked
    <2> QED BY <1>1, <2>1, <2>2, <2>3 DEF Flushed
  <1>2. CASE batch # <<>>
    <2>1. PICK parts \in 1..MaxParts : messages' = Append(messages, Data(batch, binary, parts))
      BY <1>2 DEF Flushed
    <2> DEFINE m == Data(batch, binary, parts)
    <2>2. m \in Sent /\ m.kind = "data" /\ m.chunks = batch /\ (m.encoding = "base64" <=> binary)
      BY DataMessage
    <2> HIDE DEF m
    <2>3. messages' = Append(messages, m) /\ messages \in Seq(Sent)
      BY <2>1 DEF StreamTypes, m
    <2>4. messages' \in Seq(Sent) /\ Batched(messages', <<>>, w) /\ Len(messages) + 1 <= w
      BY <1>2, <2>2, <2>3, BatchCut
    <2>5. Grown(messages, messages')
      BY <2>2, <2>3, AppendGrows
    <2>6. /\ DOMAIN messages' = 1..(Len(messages) + 1) /\ Len(messages') = Len(messages) + 1
          /\ DOMAIN messages = 1..Len(messages) /\ Len(messages) \in Nat
          /\ messages'[Len(messages) + 1] = m /\ \A i \in DOMAIN messages : messages'[i] = messages[i]
      BY <2>2, <2>3
    <2>7. AllMarked'
      <3>1. ASSUME NEW i \in DOMAIN messages'
            PROVE  Marked(messages'[i].chunks, messages'[i].encoding = "base64")
        BY <2>2, <2>6 DEF AllMarked, Marked
      <3> QED BY <3>1 DEF AllMarked, Marked
    <2>8. \A i \in DOMAIN messages' : messages'[i].kind = "data"
      BY <2>2, <2>6
    <2> QED BY <2>4, <2>5, <2>6, <2>7, <2>8 DEF Flushed
  <1> QED BY <1>1, <1>2

\* The parts on the channel are parts of messages, however the messages have grown.
LEMMA WireFollows ==
  ASSUME StreamTypes, messages' \in Seq(Sent), Grown(messages, messages'), wire' = wire
  PROVE  wire' \subseteq {x \in Nat \X Nat :
           x[1] \in DOMAIN messages' /\ x[2] \in DOMAIN messages'[x[1]].parts}
  BY DEF StreamTypes, Grown

WriterStep ==
  WriterSound' /\ Grown(messages, messages') /\ wire \subseteq wire' /\ messages' \in Seq(Sent)

LEMMA WriteKeeps == ASSUME WriterSound, Write PROVE WriterStep
  <1> DEFINE binary == format = "bytes" /\ (hasBinary \/ Input[writes + 1] = "binary")
             batch == Append(buffer, writes + 1)
  <1>1. /\ StreamTypes /\ Batched(messages, buffer, writes) /\ AllMarked /\ EndsLast
        /\ Marked(buffer, hasBinary)
    BY DEF WriterSound
  <1>2. /\ ending = "no" /\ ending' = ending /\ writes < Len(Input) /\ writes' = writes + 1
        /\ writes \in Nat /\ writes' \in 0..Len(Input) /\ writes' \in Nat /\ binary \in BOOLEAN
        /\ format' = format /\ affinity' = affinity /\ wire' = wire
        /\ buffer \in Seq(Nat) /\ messages \in Seq(Sent)
    BY <1>1, StreamBundleAssumption DEF Write, Buffered, StreamTypes
  <1>3. Len(messages) <= writes /\ \A i \in DOMAIN messages : messages[i].kind = "data"
    BY <1>1, <1>2 DEF EndsLast
  <1>4. batch \in Seq(Nat) /\ Batched(messages, batch, writes')
    BY <1>1, <1>2, <1>3, BatchGrows
  <1>5. Marked(batch, binary)
    <2>1. \A l \in DOMAIN batch : (l \in DOMAIN buffer /\ batch[l] = buffer[l]) \/ batch[l] = writes + 1
      BY <1>2
    <2> QED BY <1>1, <2>1 DEF Marked
  <1>6. \/ Flushed(batch, binary)
        \/ buffer' = batch /\ hasBinary' = binary /\ flushTimer' = TRUE /\ messages' = messages
    BY DEF Write, Buffered
  <1> HIDE DEF batch, binary
  <1>7. Len(messages) \in Nat /\ Len(messages) <= writes'
    BY <1>2, <1>3
  <1>8. CASE Flushed(batch, binary)
    <2>1. /\ messages' \in Seq(Sent) /\ Grown(messages, messages')
          /\ Batched(messages', <<>>, writes') /\ AllMarked' /\ Len(messages') <= writes'
          /\ \A i \in DOMAIN messages' : messages'[i].kind = "data"
          /\ buffer' = <<>> /\ hasBinary' = FALSE /\ flushTimer' = FALSE
      BY <1>1, <1>2, <1>3, <1>4, <1>5, <1>7, <1>8, FlushedKeeps
    <2>6. wire' \subseteq {x \in Nat \X Nat :
            x[1] \in DOMAIN messages' /\ x[2] \in DOMAIN messages'[x[1]].parts}
      BY <1>1, <1>2, <2>1, WireFollows
    <2>7. <<>> \in Seq(Nat)
      OBVIOUS
    <2>2. StreamTypes'
      BY <1>1, <1>2, <2>1, <2>6, <2>7 DEF StreamTypes
    <2>3. EndsLast'
      BY <1>2, <2>1 DEF EndsLast
    <2>4. Marked(buffer, hasBinary)'
      BY <2>1 DEF Marked
    <2>5. Batched(messages, buffer, writes)'
      BY <2>1
    <2> QED BY <1>2, <2>1, <2>2, <2>3, <2>4, <2>5 DEF WriterSound, WriterStep
  <1>9. CASE buffer' = batch /\ hasBinary' = binary /\ flushTimer' = TRUE /\ messages' = messages
    <2>1. Grown(messages, messages')
      BY <1>2, <1>9 DEF Grown
    <2>2. StreamTypes'
      BY <1>1, <1>2, <1>4, <1>9 DEF StreamTypes
    <2>3. EndsLast'
      BY <1>1, <1>2, <1>3, <1>7, <1>9 DEF EndsLast
    <2>4. Marked(buffer, hasBinary)' /\ AllMarked'
      BY <1>1, <1>2, <1>5, <1>9 DEF Marked, AllMarked
    <2>5. Batched(messages, buffer, writes)'
      BY <1>4, <1>9
    <2> QED BY <1>2, <1>9, <2>1, <2>2, <2>3, <2>4, <2>5 DEF WriterSound, WriterStep
  <1> QED BY <1>6, <1>8, <1>9

LEMMA FlushKeeps ==
  ASSUME WriterSound, Flushed(buffer, hasBinary), ending \in {"no", "flights"},
         ending' \in {ending, "flush"}, UNCHANGED <<format, affinity, writes, wire>>
  PROVE  WriterStep
  <1>1. /\ StreamTypes /\ Batched(messages, buffer, writes) /\ AllMarked /\ EndsLast
        /\ Marked(buffer, hasBinary) /\ messages \in Seq(Sent)
        /\ buffer \in Seq(Nat) /\ hasBinary \in BOOLEAN /\ writes \in Nat
    BY StreamBundleAssumption DEF WriterSound, StreamTypes
  <1>2. Len(messages) <= writes /\ \A i \in DOMAIN messages : messages[i].kind = "data"
    BY <1>1 DEF EndsLast
  <1>3. /\ messages' \in Seq(Sent) /\ Grown(messages, messages')
        /\ Batched(messages', <<>>, writes) /\ AllMarked' /\ Len(messages') <= writes
        /\ \A i \in DOMAIN messages' : messages'[i].kind = "data"
        /\ buffer' = <<>> /\ hasBinary' = FALSE /\ flushTimer' = FALSE
    BY <1>1, <1>2, FlushedKeeps
  <1>4. wire' \subseteq {x \in Nat \X Nat :
          x[1] \in DOMAIN messages' /\ x[2] \in DOMAIN messages'[x[1]].parts}
    BY <1>1, <1>3, WireFollows
  <1>9. <<>> \in Seq(Nat)
    OBVIOUS
  <1>5. StreamTypes'
    BY <1>1, <1>3, <1>4, <1>9 DEF StreamTypes
  <1>6. EndsLast'
    <2>1. Len(messages') \in Nat
      BY <1>3
    <2> QED BY <1>1, <1>3, <2>1 DEF EndsLast
  <1>7. Marked(buffer, hasBinary)'
    BY <1>3 DEF Marked
  <1>8. Batched(messages, buffer, writes)'
    BY <1>3
  <1> QED BY <1>3, <1>5, <1>6, <1>7, <1>8 DEF WriterSound, WriterStep

LEMMA FlushTimerKeeps == ASSUME WriterSound, FlushTimerFires PROVE WriterStep
  <1>1. ending = "no"
    BY DEF WriterSound, EndsLast, FlushTimerFires
  <1> QED BY <1>1, FlushKeeps DEF FlushTimerFires

LEMMA FlushRestKeeps == ASSUME WriterSound, FlushRest PROVE WriterStep
  BY FlushKeeps DEF FlushRest

\* An attempt to publish a part settles or is repeated, and the part may be on the channel.
LEMMA PublishKeeps ==
  ASSUME WriterSound, NEW i, NEW p, PublishSucceeds(i, p) \/ PublishFails(i, p)
  PROVE  WriterStep
  <1>1. /\ StreamTypes /\ Batched(messages, buffer, writes) /\ AllMarked /\ EndsLast
        /\ Marked(buffer, hasBinary) /\ messages \in Seq(Sent)
    BY DEF WriterSound, StreamTypes
  <1>2. /\ i \in DOMAIN messages /\ i \in Nat /\ p \in DOMAIN messages[i].parts /\ p \in Nat
        /\ messages[i].parts[p] \in Nat
    <2>1. i \in DOMAIN messages /\ i \in Nat /\ p \in DOMAIN messages[i].parts
      BY <1>1 DEF PublishSucceeds, PublishFails, PublishesInFlight, Publishing
    <2>2. messages[i].parts \in Seq(Nat)
      BY <1>1, <2>1, SentMessage
    <2> QED BY <2>1, <2>2
  <1>3. PICK v \in Nat : messages' = [messages EXCEPT ![i].parts[p] = v]
    <2>1. CASE PublishSucceeds(i, p)
      BY <2>1 DEF PublishSucceeds
    <2>2. CASE PublishFails(i, p)
      <3> DEFINE next == IF messages[i].parts[p] < MaxAttempts THEN messages[i].parts[p] + 1 ELSE 0
      <3>1. next \in Nat
        BY <1>2
      <3>2. messages' = [messages EXCEPT ![i].parts[p] = next]
        BY <2>2 DEF PublishFails
      <3> QED BY <3>1, <3>2
    <2> QED BY <2>1, <2>2
  <1>4. messages' \in Seq(Sent) /\ Len(messages') = Len(messages) /\ Grown(messages, messages')
    <2>1. \A ns : ns = [messages EXCEPT ![i].parts[p] = v] =>
            ns \in Seq(Sent) /\ Len(ns) = Len(messages) /\ Grown(messages, ns)
      BY <1>1, <1>2, PartChanges
    <2> QED BY <1>3, <2>1, Zenon
  <1>5. /\ UNCHANGED <<format, affinity, writes, buffer, hasBinary, flushTimer, ending>>
        /\ wire' \in {wire, wire \cup {<<i, p>>}}
    BY DEF PublishSucceeds, PublishFails, bufferVars
  <1>6. DOMAIN messages' = DOMAIN messages /\ Len(messages) \in Nat
    BY <1>1, <1>4
  <1>7. wire' \subseteq {x \in Nat \X Nat :
          x[1] \in DOMAIN messages' /\ x[2] \in DOMAIN messages'[x[1]].parts}
    BY <1>1, <1>2, <1>4, <1>5, <1>6 DEF StreamTypes, Grown
  <1>8. StreamTypes'
    BY <1>1, <1>4, <1>5, <1>7 DEF StreamTypes
  <1>9. Batched(messages, buffer, writes)'
    BY <1>1, <1>4, <1>5, SameBatches
  <1>10. Marked(buffer, hasBinary)' /\ AllMarked'
    BY <1>1, <1>4, <1>5, <1>6 DEF Marked, AllMarked, Grown
  <1>11. EndsLast'
    BY <1>1, <1>4, <1>5, <1>6 DEF EndsLast, Grown
  <1> QED BY <1>4, <1>5, <1>8, <1>9, <1>10, <1>11 DEF WriterSound, WriterStep

LEMMA SameGrown ==
  ASSUME messages \in Seq(Sent), messages' = messages
  PROVE  Grown(messages, messages')
  BY DEF Grown

LEMMA EndStreamKeeps == ASSUME WriterSound, EndStream \/ MarkerSettles PROVE WriterStep
  <1>1. /\ StreamTypes /\ Batched(messages, buffer, writes) /\ AllMarked /\ EndsLast
        /\ Marked(buffer, hasBinary) /\ messages \in Seq(Sent)
    BY DEF WriterSound, StreamTypes
  <1>2. /\ UNCHANGED <<format, affinity, writes, buffer, hasBinary, messages, wire>>
        /\ \/ ending = "no" /\ ending' = "flights" /\ flushTimer' = FALSE
           \/ ending = "marker" /\ ending' = "ended" /\ flushTimer' = flushTimer
    BY DEF EndStream, MarkerSettles, bufferVars
  <1>3. Grown(messages, messages')
    BY <1>1, <1>2, SameGrown
  <1>4. StreamTypes'
    BY <1>1, <1>2 DEF StreamTypes
  <1>5. EndsLast'
    BY <1>1, <1>2 DEF EndsLast
  <1>6. Marked(buffer, hasBinary)' /\ AllMarked'
    BY <1>1, <1>2 DEF Marked, AllMarked
  <1>7. Batched(messages, buffer, writes)'
    BY <1>1, <1>2
  <1> QED BY <1>1, <1>2, <1>3, <1>4, <1>5, <1>6, <1>7 DEF WriterSound, WriterStep

LEMMA EndMarkerKeeps == ASSUME WriterSound, PublishEndMarker PROVE WriterStep
  <1>1. /\ StreamTypes /\ Batched(messages, buffer, writes) /\ AllMarked /\ EndsLast
        /\ Marked(buffer, hasBinary) /\ messages \in Seq(Sent) /\ writes \in Nat
    BY StreamBundleAssumption DEF WriterSound, StreamTypes
  <1>2. /\ ending = "flush" /\ UNCHANGED <<format, affinity, writes, buffer, hasBinary, flushTimer, wire>>
        /\ \/ ending' = "marker" /\ messages' = Append(messages, EndMarker)
           \/ ending' = "ended" /\ messages' = messages
    BY DEF PublishEndMarker, bufferVars
  <1>3. /\ buffer = <<>> /\ ~flushTimer /\ Len(messages) <= writes
        /\ \A i \in DOMAIN messages : messages[i].kind = "data"
    BY <1>1, <1>2 DEF EndsLast
  <1>4. EndMarker \in Sent /\ EndMarker.kind = "end" /\ EndMarker.chunks = <<>>
    <2>1. [p \in {1} |-> 1] \in Seq(Nat)
      <3>1. {1} = 1..1 /\ 1 \in Nat
        OBVIOUS
      <3>2. [p \in 1..1 |-> 1] \in Seq(Nat)
        OBVIOUS
      <3> QED BY <3>1, <3>2
    <2>2. <<>> \in Seq(Nat)
      OBVIOUS
    <2> QED BY <2>1, <2>2 DEF EndMarker, Sent, Encodings
  <1>5. CASE ending' = "marker" /\ messages' = Append(messages, EndMarker)
    <2> HIDE DEF EndMarker
    <2>0. <<>> \in Seq(Nat) /\ Batched(messages, <<>>, writes)
      BY <1>1, <1>3
    <2>1. messages' \in Seq(Sent) /\ Batched(messages', <<>>, writes)
      BY <1>1, <1>4, <1>5, <2>0, BatchCut
    <2>2. Grown(messages, messages')
      BY <1>1, <1>4, <1>5, AppendGrows
    <2>3. /\ DOMAIN messages' = 1..(Len(messages) + 1) /\ Len(messages') = Len(messages) + 1
          /\ DOMAIN messages = 1..Len(messages) /\ Len(messages) \in Nat
          /\ messages'[Len(messages) + 1] = EndMarker
          /\ \A i \in DOMAIN messages : messages'[i] = messages[i]
      BY <1>1, <1>4, <1>5
    <2>4. wire' \subseteq {x \in Nat \X Nat :
            x[1] \in DOMAIN messages' /\ x[2] \in DOMAIN messages'[x[1]].parts}
      BY <1>1, <1>2, <2>1, <2>2, WireFollows
    <2>5. StreamTypes'
      BY <1>1, <1>2, <1>5, <2>1, <2>4 DEF StreamTypes
    <2>6. EndsLast'
      BY <1>2, <1>3, <1>4, <1>5, <2>3, <1>1 DEF EndsLast
    <2>7. Marked(buffer, hasBinary)' /\ AllMarked'
      <3>1. \A i \in DOMAIN messages' : i \in DOMAIN messages \/ messages'[i].chunks = <<>>
        BY <1>4, <2>3
      <3> QED BY <1>1, <1>2, <1>3, <2>3, <3>1 DEF Marked, AllMarked
    <2>8. Batched(messages, buffer, writes)'
      BY <1>2, <1>3, <2>1
    <2> QED BY <1>2, <2>1, <2>2, <2>5, <2>6, <2>7, <2>8 DEF WriterSound, WriterStep
  <1>6. CASE ending' = "ended" /\ messages' = messages
    <2>1. Grown(messages, messages')
      BY <1>1, <1>6, SameGrown
    <2>2. StreamTypes'
      BY <1>1, <1>2, <1>6 DEF StreamTypes
    <2>3. EndsLast'
      BY <1>1, <1>2, <1>6 DEF EndsLast
    <2>4. Marked(buffer, hasBinary)' /\ AllMarked'
      BY <1>1, <1>2, <1>6 DEF Marked, AllMarked
    <2>5. Batched(messages, buffer, writes)'
      BY <1>1, <1>2, <1>6
    <2> QED BY <1>1, <1>2, <1>6, <2>1, <2>2, <2>3, <2>4, <2>5 DEF WriterSound, WriterStep
  <1> QED BY <1>2, <1>5, <1>6

LEMMA WriterKeeps == ASSUME WriterSound, WriterNext PROVE WriterStep
  BY WriteKeeps, FlushTimerKeeps, PublishKeeps, EndStreamKeeps, FlushRestKeeps, EndMarkerKeeps
     DEF WriterNext

-----------------------------------------------------------------------------
(* The reader: what its methods make of what it has.                         *)

Groups == [n : Numbers, got : SUBSET Nat]

LEMMA ReaderFields ==
  ASSUME NEW c \in Readers
  PROVE  /\ c.next \in 0..MaxMessages /\ c.buffer \in SUBSET Numbers /\ c.groups \in Seq(Groups)
         /\ c.timer \in BOOLEAN /\ c.endSeq \in Numbers \cup {NoEnd} /\ c.done \in BOOLEAN
         /\ c.queue \in Seq(Numbers) /\ c.waiting \in BOOLEAN /\ c.read \in Seq(Numbers)
         /\ c.attached \in BOOLEAN
  BY DEF Readers, Groups

LEMMA NumbersAreNat == Numbers \subseteq Nat /\ MaxMessages \in Nat
  BY StreamClientAssumption DEF Numbers

\* The numbers that have a message end below the marker's, which is the last.
LEMMA ArrivedIsBelow ==
  ASSUME WriterSound, NEW n \in Int, Arrived(n)
  PROVE  /\ n \in Numbers
         /\ \A e \in Numbers : e + 1 \in DOMAIN messages /\ messages[e + 1].kind = "end" => n < e
  <1>1. /\ messages \in Seq(Sent) /\ DOMAIN messages = 1..Len(messages) /\ Len(messages) \in Nat
        /\ n + 1 \in 1..Len(messages) /\ messages[n + 1].kind = "data"
        /\ writes \in 0..Len(Input) /\ Len(Input) \in Nat
    BY StreamBundleAssumption DEF WriterSound, StreamTypes, Arrived
  <1>2. Len(messages) <= writes + 1 /\ writes + 1 <= MaxMessages
    BY <1>1, StreamsAssumption DEF WriterSound, EndsLast
  <1>3. n \in Numbers
    BY <1>1, <1>2, NumbersAreNat DEF Numbers
  <1>4. ASSUME NEW e \in Numbers, e + 1 \in DOMAIN messages, messages[e + 1].kind = "end"
        PROVE  n < e
    <2>1. e + 1 = Len(messages) /\ n + 1 # e + 1
      BY <1>1, <1>4 DEF WriterSound, EndsLast
    <2>2. e \in Nat
      BY NumbersAreNat
    <2> QED BY <1>1, <2>1, <2>2
  <1> QED BY <1>3, <1>4

LEMMA OneMarker ==
  ASSUME WriterSound, NEW d \in Numbers, NEW e \in Numbers,
         d + 1 \in DOMAIN messages, messages[d + 1].kind = "end",
         e + 1 \in DOMAIN messages, messages[e + 1].kind = "end"
  PROVE  d = e
  <1>1. d + 1 = Len(messages) /\ e + 1 = Len(messages) /\ d \in Nat /\ e \in Nat
    BY NumbersAreNat DEF WriterSound, EndsLast
  <1> QED BY <1>1

\* What a reader has but for the timer is sound.
Sound(c) ==
  /\ c \in Readers
  /\ \A n \in c.buffer : c.next < n /\ Arrived(n)
  /\ YieldSound(c) /\ EndKnown(c)

\* checkEndReached() is what completes a stream in time.
LEMMA CheckKeeps ==
  ASSUME NEW c, Sound(c), BufferSound(c)
  PROVE  ReaderSound(CheckEndReached(c)) /\ CheckEndReached(c).groups = c.groups
  <1>1. c \in Readers /\ YieldSound(c) /\ EndKnown(c)
    BY DEF Sound
  <1>2. CASE c.endSeq # NoEnd /\ c.next >= c.endSeq
    <2> DEFINE q == Complete(c)
    <2>1. /\ q \in Readers /\ q.done = TRUE /\ q.waiting = FALSE /\ q.buffer = {} /\ q.timer = FALSE
          /\ q.next = c.next /\ q.groups = c.groups /\ q.endSeq = c.endSeq
          /\ q.queue = c.queue /\ q.read = c.read /\ q.attached = c.attached
      BY <1>1 DEF Complete, Readers
    <2> HIDE DEF q
    <2>2. BufferSound(q)
      BY <2>1 DEF BufferSound
    <2>3. YieldSound(q)
      BY <1>1, <2>1 DEF YieldSound, YieldedBy
    <2>4. EndSound(q)
      BY <1>1, <1>2, <2>1 DEF EndSound, EndKnown
    <2>5. CheckEndReached(c) = q
      BY <1>2 DEF CheckEndReached, q
    <2> QED BY <2>1, <2>2, <2>3, <2>4, <2>5 DEF ReaderSound
  <1>3. CASE ~(c.endSeq # NoEnd /\ c.next >= c.endSeq)
    <2>1. CheckEndReached(c) = c
      BY <1>3 DEF CheckEndReached
    <2>2. c.next \in Int /\ (c.endSeq # NoEnd => c.endSeq \in Int)
      <3>1. c.next \in 0..MaxMessages /\ (c.endSeq # NoEnd => c.endSeq \in Numbers)
        BY <1>1, ReaderFields
      <3>2. c.next \in Int
        BY <3>1, NumbersAreNat
      <3>3. \A x \in Numbers : x \in Int
        BY NumbersAreNat
      <3> QED BY <3>1, <3>2, <3>3, Zenon
    <2>3. EndSound(c)
      BY <1>1, <1>3, <2>2 DEF EndSound
    <2> QED BY <1>1, <2>1, <2>3 DEF ReaderSound
  <1> QED BY <1>2, <1>3

LEMMA Least ==
  ASSUME NEW I \in SUBSET Nat, I # {}
  PROVE  \E m \in I : \A k \in I : m <= k
  <1> DEFINE R == {ss \in Nat \X Nat : ss[1] < ss[2]}
  <1>1. IsWellFoundedOn(R, Nat)
    <2>1. OpToRel(<, Nat) = R
      BY Zenon DEF OpToRel
    <2>2. IsWellFoundedOn(OpToRel(<, Nat), Nat)
      BY NatLessThanWellFounded, Zenon
    <2> QED BY <2>1, <2>2, Zenon
  <1>2. \A k, m \in Nat : k < m => <<k, m>> \in R
    OBVIOUS
  <1> HIDE DEF R
  <1>3. PICK m \in I : \A k \in I : ~(<<k, m>> \in R)
    BY <1>1, WFMin
  <1>4. \A k \in I : m <= k
    <2> TAKE k \in I
    <2>1. ~(k < m)
      BY <1>2, <1>3
    <2> QED BY <2>1
  <1> QED BY <1>4

LEMMA MinIsLeast ==
  ASSUME NEW I \in SUBSET Nat, I # {}
  PROVE  Min(I) \in I /\ \A k \in I : Min(I) <= k
  BY Least DEF Min

LEMMA Behind ==
  ASSUME NEW S, NEW y \in Seq(S), NEW m \in Seq(S), NEW z, z = y \o m
  PROVE  /\ z \in Seq(S) /\ Len(z) = Len(y) + Len(m) /\ Len(y) \in Nat /\ Len(m) \in Nat
         /\ DOMAIN y = 1..Len(y)
         /\ \A i \in DOMAIN y : z[i] = y[i]
         /\ \A i \in 1..Len(m) : z[Len(y) + i] = m[i]
  <1>1. Len(y) \in Nat /\ Len(m) \in Nat /\ DOMAIN y = 1..Len(y)
    BY LenProperties
  <1>2. /\ z \in Seq(S) /\ Len(z) = Len(y) + Len(m)
        /\ \A i \in 1..(Len(y) + Len(m)) : z[i] = IF i <= Len(y) THEN y[i] ELSE m[i - Len(y)]
    BY ConcatProperties
  <1>3. \A i \in 1..Len(m) : z[Len(y) + i] = m[i]
    <2>1. TAKE i \in 1..Len(m)
    <2>2. Len(y) + i \in 1..(Len(y) + Len(m)) /\ ~(Len(y) + i <= Len(y)) /\ Len(y) + i - Len(y) = i
      BY <1>1
    <2> QED BY <1>2, <2>2
  <1> QED BY <1>1, <1>2, <1>3

\* One from the front of a sequence, and the rest behind it.
LEMMA FrontAndRest ==
  ASSUME NEW S, NEW y \in Seq(S), NEW m \in Seq(S), m # <<>>
  PROVE  /\ Append(y, Head(m)) \in Seq(S) /\ Tail(m) \in Seq(S)
         /\ Append(y, Head(m)) \o Tail(m) = y \o m
  <1> DEFINE h == Head(m)
             t == Tail(m)
  <1>1. h \in S /\ t \in Seq(S) /\ Len(t) = Len(m) - 1 /\ \A i \in 1..Len(t) : t[i] = m[i + 1]
    BY HeadTailProperties
  <1>2. Len(m) \in Nat \ {0} /\ m[1] = h
    BY EmptySeq DEF Head
  <1> HIDE DEF h, t
  <1>3. <<h>> \in Seq(S) /\ Len(<<h>>) = 1 /\ <<h>>[1] = h
    BY <1>1
  <1> DEFINE w == <<h>> \o t
  <1>4. /\ w \in Seq(S) /\ Len(w) = Len(m) /\ w[1] = h
        /\ \A i \in 1..Len(t) : w[1 + i] = t[i]
    <2>1. DOMAIN <<h>> = 1..1
      OBVIOUS
    <2> HIDE DEF w
    <2>2. /\ w \in Seq(S) /\ Len(w) = Len(<<h>>) + Len(t)
          /\ \A i \in DOMAIN <<h>> : w[i] = <<h>>[i]
          /\ \A i \in 1..Len(t) : w[Len(<<h>>) + i] = t[i]
      BY <1>1, <1>3, Behind DEF w
    <2> QED BY <1>1, <1>2, <1>3, <2>1, <2>2
  <1> HIDE DEF w
  <1>5. \A i \in 1..Len(w) : w[i] = m[i]
    <2>1. TAKE i \in 1..Len(w)
    <2>2. CASE i = 1
      BY <1>2, <1>4, <2>2
    <2>3. CASE i # 1
      <3>1. i - 1 \in 1..Len(t) /\ 1 + (i - 1) = i /\ (i - 1) + 1 = i
        BY <1>1, <1>2, <1>4, <2>3
      <3> QED BY <1>1, <1>4, <3>1
    <2> QED BY <2>2, <2>3
  <1>6. w = m
    BY <1>4, <1>5, SeqEqual
  <1>7. Append(y, h) = y \o <<h>> /\ Append(y, h) \in Seq(S)
    BY <1>1, AppendIsConcat, AppendProperties
  <1>8. (y \o <<h>>) \o t = y \o (<<h>> \o t)
    BY <1>1, <1>3, ConcatAssociative
  <1> QED BY <1>1, <1>6, <1>7, <1>8 DEF w, h, t

\* What is yielded is followed by the numbers n..stop - 1, and nothing else of a reader changes.
Added(c, q, n, stop) ==
  /\ q \in Readers /\ q.waiting = FALSE
  /\ q.next = c.next /\ q.buffer = c.buffer /\ q.groups = c.groups /\ q.timer = c.timer
  /\ q.endSeq = c.endSeq /\ q.done = c.done /\ q.attached = c.attached
  /\ YieldedBy(c) \in Seq(Numbers) /\ YieldedBy(q) \in Seq(Numbers)
  /\ Len(YieldedBy(q)) = Len(YieldedBy(c)) + (stop - n)
  /\ \A i \in DOMAIN YieldedBy(c) : YieldedBy(q)[i] = YieldedBy(c)[i]
  /\ \A i \in 1..(stop - n) : YieldedBy(q)[Len(YieldedBy(c)) + i] = n + i - 1

\* enqueueInbound() adds the numbers, through whichever of the two.
LEMMA InboundAdds ==
  ASSUME NEW c \in Readers, NEW n \in Nat, NEW stop \in Nat, n < stop, stop <= MaxMessages,
         c.waiting => c.queue = <<>>
  PROVE  Added(c, EnqueueInbound(c, n, stop - 1), n, stop)
  <1> DEFINE msgs == [i \in 1..(stop - 1 - n + 1) |-> n + i - 1]
             q == EnqueueInbound(c, n, stop - 1)
  <1>1. stop - 1 - n + 1 = stop - n /\ stop - n \in Nat /\ stop - n >= 1 /\ n \in Numbers
    BY NumbersAreNat DEF Numbers
  <1>2. /\ msgs \in Seq(Numbers) /\ Len(msgs) = stop - n /\ msgs # <<>> /\ Head(msgs) = n
        /\ \A i \in 1..(stop - n) : msgs[i] = n + i - 1
    <2>1. \A i \in 1..(stop - n) : n + i - 1 \in Numbers
      BY <1>1, NumbersAreNat DEF Numbers
    <2>2. msgs = [i \in 1..(stop - n) |-> n + i - 1]
      BY <1>1
    <2> HIDE DEF msgs
    <2>3. msgs \in Seq(Numbers) /\ DOMAIN msgs = 1..(stop - n)
      BY <1>1, <2>1, <2>2
    <2>4. Len(msgs) = stop - n
      BY <1>1, <2>3
    <2>5. msgs[1] = n /\ Head(msgs) = msgs[1]
      BY <1>1, <2>2, <2>3, <2>4
    <2> QED BY <1>1, <2>2, <2>3, <2>4, <2>5
  <1>3. EnqueueInbound(c, n, stop - 1) =
          IF c.waiting /\ msgs # <<>>
          THEN [c EXCEPT !.waiting = FALSE, !.read = Append(@, n), !.queue = @ \o Tail(msgs)]
          ELSE [c EXCEPT !.queue = @ \o msgs]
    BY DEF EnqueueInbound
  <1>0. q = EnqueueInbound(c, n, stop - 1)
    OBVIOUS
  <1> HIDE DEF msgs, q
  <1>4. c.queue \in Seq(Numbers) /\ c.read \in Seq(Numbers) /\ c.waiting \in BOOLEAN
    BY ReaderFields
  <1>5. YieldedBy(c) \in Seq(Numbers)
    BY <1>4, ConcatProperties DEF YieldedBy
  <1>6. /\ q \in Readers /\ q.waiting = FALSE
        /\ q.next = c.next /\ q.buffer = c.buffer /\ q.groups = c.groups /\ q.timer = c.timer
        /\ q.endSeq = c.endSeq /\ q.done = c.done /\ q.attached = c.attached
        /\ YieldedBy(q) = YieldedBy(c) \o msgs
    <2>1. CASE c.waiting
      <3>1. /\ Append(c.read, n) \in Seq(Numbers) /\ Tail(msgs) \in Seq(Numbers)
            /\ Append(c.read, n) \o Tail(msgs) = c.read \o msgs
        <4>1. /\ Append(c.read, Head(msgs)) \in Seq(Numbers) /\ Tail(msgs) \in Seq(Numbers)
              /\ Append(c.read, Head(msgs)) \o Tail(msgs) = c.read \o msgs
          <5>1. \A y, m \in Seq(Numbers) : m # <<>> =>
                  /\ Append(y, Head(m)) \in Seq(Numbers) /\ Tail(m) \in Seq(Numbers)
                  /\ Append(y, Head(m)) \o Tail(m) = y \o m
            BY FrontAndRest
          <5> QED BY <1>2, <1>4, <5>1, Zenon
        <4>2. Head(msgs) = n
          BY <1>2
        <4> QED BY <4>1, <4>2, Zenon
      <3>2. c.queue = <<>> /\ c.queue \o Tail(msgs) = Tail(msgs) /\ YieldedBy(c) = c.read
        <4>1. c.queue = <<>>
          BY <2>1
        <4>2. c.queue \o Tail(msgs) = Tail(msgs)
          BY <3>1, <4>1, ConcatEmptySeq
        <4>3. c.read \o c.queue = c.read
          BY <1>4, <4>1, ConcatEmptySeq
        <4> QED BY <4>1, <4>2, <4>3 DEF YieldedBy
      <3> DEFINE read == Append(c.read, n)
                 queue == Tail(msgs)
      <3>3. q = [c EXCEPT !.waiting = FALSE, !.read = Append(@, n), !.queue = @ \o Tail(msgs)]
        BY <1>0, <1>2, <1>3, <2>1
      <3>4. q = [c EXCEPT !.waiting = FALSE, !.read = read, !.queue = queue]
        BY <3>2, <3>3
      <3>5. read \in Seq(Numbers) /\ queue \in Seq(Numbers) /\ read \o queue = YieldedBy(c) \o msgs
        BY <3>1, <3>2
      <3> HIDE DEF read, queue
      <3>6. /\ q \in Readers /\ q.waiting = FALSE /\ q.read = read /\ q.queue = queue
            /\ q.next = c.next /\ q.buffer = c.buffer /\ q.groups = c.groups /\ q.timer = c.timer
            /\ q.endSeq = c.endSeq /\ q.done = c.done /\ q.attached = c.attached
        BY <3>4, <3>5 DEF Readers
      <3>7. YieldedBy(q) = read \o queue
        BY <3>6 DEF YieldedBy
      <3> QED BY <3>5, <3>6, <3>7
    <2>2. CASE ~c.waiting
      <3>1. q = [c EXCEPT !.queue = @ \o msgs]
        BY <1>0, <1>3, <2>2
      <3> DEFINE queue == c.queue \o msgs
      <3>2. queue \in Seq(Numbers) /\ c.read \o queue = YieldedBy(c) \o msgs
        <4>1. queue \in Seq(Numbers)
          BY <1>2, <1>4, ConcatProperties
        <4>2. (c.read \o c.queue) \o msgs = c.read \o (c.queue \o msgs)
          <5>1. \A s, t, u \in Seq(Numbers) : (s \o t) \o u = s \o (t \o u)
            BY ConcatAssociative
          <5> QED BY <1>2, <1>4, <5>1, Zenon
        <4> QED BY <4>1, <4>2 DEF YieldedBy
      <3>3. q = [c EXCEPT !.queue = queue]
        BY <3>1
      <3> HIDE DEF queue
      <3>4. /\ q \in Readers /\ q.waiting = FALSE /\ q.read = c.read /\ q.queue = queue
            /\ q.next = c.next /\ q.buffer = c.buffer /\ q.groups = c.groups /\ q.timer = c.timer
            /\ q.endSeq = c.endSeq /\ q.done = c.done /\ q.attached = c.attached
        BY <1>4, <2>2, <3>2, <3>3 DEF Readers
      <3>5. YieldedBy(q) = c.read \o queue
        BY <3>4 DEF YieldedBy
      <3> QED BY <3>2, <3>4, <3>5
    <2> QED BY <2>1, <2>2
  <1> DEFINE before == YieldedBy(c)
             after == YieldedBy(q)
  <1> HIDE DEF before, after
  <1>7. before \in Seq(Numbers) /\ after = before \o msgs
    BY <1>5, <1>6 DEF before, after
  <1>8. /\ after \in Seq(Numbers) /\ Len(after) = Len(before) + Len(msgs)
        /\ \A i \in DOMAIN before : after[i] = before[i]
        /\ \A i \in 1..Len(msgs) : after[Len(before) + i] = msgs[i]
    <2>1. \A y, m \in Seq(Numbers) : \A z : z = y \o m =>
            /\ z \in Seq(Numbers) /\ Len(z) = Len(y) + Len(m)
            /\ \A i \in DOMAIN y : z[i] = y[i]
            /\ \A i \in 1..Len(m) : z[Len(y) + i] = m[i]
      BY Behind
    <2>2. msgs \in Seq(Numbers) /\ before \in Seq(Numbers)
      BY <1>2, <1>7
    <2>3. \A z : z = before \o msgs =>
            /\ z \in Seq(Numbers) /\ Len(z) = Len(before) + Len(msgs)
            /\ \A i \in DOMAIN before : z[i] = before[i]
            /\ \A i \in 1..Len(msgs) : z[Len(before) + i] = msgs[i]
      BY <2>1, <2>2
    <2>4. after = before \o msgs
      BY <1>7
    <2> QED BY <2>3, <2>4
  <1>9. /\ after \in Seq(Numbers) /\ Len(after) = Len(before) + (stop - n)
        /\ \A i \in DOMAIN before : after[i] = before[i]
        /\ \A i \in 1..(stop - n) : after[Len(before) + i] = n + i - 1
    BY <1>2, <1>8
  <1> QED BY <1>5, <1>6, <1>9 DEF before, after, q, Added

\* flushConsecutive() from a number that has arrived, nothing buffered below it.
LEMMA EmitStops ==
  ASSUME NEW c \in Readers, NEW n \in Numbers,
         NEW stop, stop = Min({k \in n + 1..MaxMessages : k \notin c.buffer})
  PROVE  /\ stop \in Nat /\ n \in Nat /\ n < stop /\ stop <= MaxMessages /\ stop \notin c.buffer
         /\ \A k \in n + 1..(stop - 1) : k \in c.buffer
  <1> DEFINE gaps == {k \in n + 1..MaxMessages : k \notin c.buffer}
  <1>1. n \in Nat /\ MaxMessages \in Nat /\ n + 1 <= MaxMessages
    BY NumbersAreNat DEF Numbers
  <1>2. MaxMessages \notin c.buffer
    <2>1. c.buffer \subseteq Numbers
      BY ReaderFields
    <2> QED BY <1>1, <2>1 DEF Numbers
  <1>3. gaps \in SUBSET Nat /\ gaps # {}
    <2>1. MaxMessages \in gaps
      BY <1>1, <1>2
    <2>2. \A k \in gaps : k \in Nat
      BY <1>1
    <2> QED BY <2>1, <2>2
  <1>4. stop \in gaps /\ \A k \in gaps : stop <= k
    BY <1>3, MinIsLeast
  <1>5. \A k \in n + 1..(stop - 1) : k \in c.buffer
    <2>1. TAKE k \in n + 1..(stop - 1)
    <2>2. stop \in Nat /\ stop <= MaxMessages
      BY <1>1, <1>4
    <2>3. k \in n + 1..MaxMessages /\ ~(stop <= k)
      BY <1>1, <2>1, <2>2
    <2> QED BY <1>4, <2>3
  <1>6. stop \in n + 1..MaxMessages /\ stop \notin c.buffer
    BY <1>4
  <1>7. stop \in Nat /\ n < stop /\ stop <= MaxMessages
    BY <1>1, <1>6
  <1> QED BY <1>1, <1>5, <1>6, <1>7

LEMMA EmitKeeps ==
  ASSUME WriterSound, NEW c, Sound(c), c.done = FALSE, NEW n \in Numbers, Arrived(n), c.next <= n,
         \A k \in c.buffer : n <= k, NEW q, q = RestartTimer(EmitFrom(c, n))
  PROVE  Sound(q) /\ BufferSound(q) /\ q.groups = c.groups
  <1> DEFINE stop == Min({k \in n + 1..MaxMessages : k \notin c.buffer})
             rest == c.buffer \ (n..(stop - 1))
             s == EnqueueInbound(c, n, stop - 1)
             e == [s EXCEPT !.next = stop, !.buffer = @ \ (n..(stop - 1))]
  <1>1. /\ c \in Readers /\ YieldSound(c) /\ EndKnown(c)
        /\ \A k \in c.buffer : c.next < k /\ Arrived(k)
        /\ c.next \in Nat /\ c.buffer \in SUBSET Numbers /\ c.buffer \in SUBSET Nat /\ c.waiting \in BOOLEAN
    <2>1. c \in Readers
      BY DEF Sound
    <2>2. c.next \in 0..MaxMessages /\ c.buffer \in SUBSET Numbers /\ c.waiting \in BOOLEAN
      BY <2>1, ReaderFields
    <2>3. c.next \in Nat
      BY <2>2, NumbersAreNat
    <2>4. c.buffer \in SUBSET Nat
      BY <2>2, NumbersAreNat, Zenon
    <2> QED BY <2>1, <2>2, <2>3, <2>4 DEF Sound
  <1>2. /\ stop \in Nat /\ n \in Nat /\ n < stop /\ stop <= MaxMessages /\ stop \notin c.buffer
        /\ \A k \in n + 1..(stop - 1) : k \in c.buffer
    BY <1>1, EmitStops, Zenon
  <1>3. EmitFrom(c, n) = e
    BY DEF EmitFrom
  <1> HIDE DEF stop
  <1>4. c.waiting => c.queue = <<>>
    BY <1>1 DEF YieldSound
  <1>a. s = EnqueueInbound(c, n, stop - 1)
    OBVIOUS
  <1> HIDE DEF s
  <1>5. /\ s \in Readers /\ s.waiting = FALSE
        /\ s.next = c.next /\ s.buffer = c.buffer /\ s.groups = c.groups /\ s.timer = c.timer
        /\ s.endSeq = c.endSeq /\ s.done = c.done /\ s.attached = c.attached
        /\ YieldedBy(c) \in Seq(Numbers) /\ YieldedBy(s) \in Seq(Numbers)
        /\ Len(YieldedBy(s)) = Len(YieldedBy(c)) + (stop - n)
        /\ \A i \in DOMAIN YieldedBy(c) : YieldedBy(s)[i] = YieldedBy(c)[i]
        /\ \A i \in 1..(stop - n) : YieldedBy(s)[Len(YieldedBy(c)) + i] = n + i - 1
    <2>1. Added(c, s, n, stop)
      BY <1>1, <1>2, <1>4, <1>a, InboundAdds
    <2> QED BY <2>1 DEF Added
  <1>6. e = [s EXCEPT !.next = stop, !.buffer = rest]
    BY <1>5
  <1>7. rest \in SUBSET Numbers /\ rest \subseteq c.buffer /\ \A k \in rest : stop < k
    <2>1. ASSUME NEW k \in rest PROVE stop < k
      <3>1. k \in Nat /\ n <= k /\ k # stop /\ k \notin n..(stop - 1)
        BY <1>1, <1>2
      <3> QED BY <1>2, <3>1
    <2> QED BY <1>1, <2>1
  <1> HIDE DEF e, rest
  <1>8. /\ e \in Readers /\ e.next = stop /\ e.buffer = rest
        /\ e.waiting = FALSE /\ e.groups = c.groups /\ e.read = s.read /\ e.queue = s.queue
        /\ e.endSeq = c.endSeq /\ e.done = c.done /\ e.attached = c.attached
    <2>1. stop \in 0..MaxMessages
      BY <1>2, NumbersAreNat
    <2> QED BY <1>5, <1>6, <1>7, <2>1 DEF Readers
  <1>9. q = [e EXCEPT !.timer = (e.buffer # {})]
    BY <1>3 DEF RestartTimer
  <1>10. /\ q \in Readers /\ q.next = stop /\ q.buffer = rest /\ q.timer = (rest # {})
         /\ q.waiting = FALSE /\ q.groups = c.groups /\ q.read = s.read /\ q.queue = s.queue
         /\ q.endSeq = c.endSeq /\ q.done = FALSE /\ q.attached = c.attached
    BY <1>8, <1>9 DEF Readers
  <1>11. BufferSound(q)
    BY <1>1, <1>7, <1>10 DEF BufferSound
  <1>12. EndKnown(q)
    BY <1>1, <1>10 DEF EndKnown
  <1> DEFINE before == YieldedBy(c)
             after == YieldedBy(q)
  <1>13. YieldedBy(q) = YieldedBy(s)
    BY <1>10 DEF YieldedBy
  <1>14. /\ \A i \in DOMAIN before : Arrived(before[i]) /\ before[i] < c.next
         /\ \A i, j \in DOMAIN before : i < j => before[i] < before[j]
    BY <1>1 DEF YieldSound
  <1>15. /\ before \in Seq(Numbers) /\ after \in Seq(Numbers)
         /\ Len(after) = Len(before) + (stop - n)
         /\ \A i \in DOMAIN before : after[i] = before[i]
         /\ \A i \in 1..(stop - n) : after[Len(before) + i] = n + i - 1
    BY <1>5, <1>13
  <1> HIDE DEF before, after
  <1>16. /\ DOMAIN before = 1..Len(before) /\ Len(before) \in Nat
         /\ DOMAIN after = 1..(Len(before) + (stop - n))
         /\ \A i \in DOMAIN before : before[i] \in Nat /\ before[i] < n
    <2>1. DOMAIN before = 1..Len(before) /\ Len(before) \in Nat /\ DOMAIN after = 1..Len(after)
      BY <1>15
    <2>2. \A i \in DOMAIN before : before[i] \in Numbers
      BY <1>15, <2>1
    <2>3. \A i \in DOMAIN before : before[i] \in Nat
      BY <2>2, NumbersAreNat
    <2> QED BY <1>1, <1>2, <1>14, <1>15, <2>1, <2>3
  <1>17. \A i \in DOMAIN after :
            \/ i \in DOMAIN before /\ after[i] = before[i]
            \/ i > Len(before) /\ after[i] = n + (i - Len(before)) - 1
                 /\ i - Len(before) \in 1..(stop - n)
    <2>1. TAKE i \in DOMAIN after
    <2>2. CASE i \in DOMAIN before
      BY <1>15, <2>2
    <2>3. CASE i \notin DOMAIN before
      <3>1. i > Len(before) /\ i - Len(before) \in 1..(stop - n) /\ Len(before) + (i - Len(before)) = i
        BY <1>2, <1>16, <2>3
      <3> QED BY <1>15, <3>1
    <2> QED BY <2>2, <2>3
  <1>18. \A i \in DOMAIN after : Arrived(after[i]) /\ after[i] < stop
    <2>1. TAKE i \in DOMAIN after
    <2>2. CASE i \in DOMAIN before /\ after[i] = before[i]
      BY <1>2, <1>14, <1>16, <2>2
    <2>3. CASE i > Len(before) /\ after[i] = n + (i - Len(before)) - 1
                 /\ i - Len(before) \in 1..(stop - n)
      <3>1. after[i] = n \/ after[i] \in n + 1..(stop - 1)
        BY <1>2, <2>3
      <3>2. Arrived(after[i])
        BY <1>1, <1>2, <3>1
      <3>3. after[i] < stop
        BY <1>2, <3>1
      <3> QED BY <3>2, <3>3
    <2> QED BY <1>17, <2>2, <2>3
  <1>19. \A i, j \in DOMAIN after : i < j => after[i] < after[j]
    <2>1. TAKE i, j \in DOMAIN after
    <2>2. HAVE i < j
    <2>3. i \in Nat /\ j \in Nat
      BY <1>2, <1>16
    <2>4. CASE j \in DOMAIN before /\ after[j] = before[j]
      <3>1. i \in DOMAIN before
        BY <1>16, <2>2, <2>3, <2>4
      <3> QED BY <1>14, <1>15, <2>2, <2>4, <3>1
    <2>5. CASE j > Len(before) /\ after[j] = n + (j - Len(before)) - 1
      <3>1. CASE i \in DOMAIN before /\ after[i] = before[i]
        BY <1>2, <1>16, <2>3, <2>5, <3>1
      <3>2. CASE i > Len(before) /\ after[i] = n + (i - Len(before)) - 1
        BY <1>2, <1>16, <2>2, <2>3, <2>5, <3>2
      <3> QED BY <1>17, <3>1, <3>2
    <2> QED BY <1>17, <2>4, <2>5
  <1>20. YieldSound(q)
    BY <1>10, <1>18, <1>19 DEF YieldSound, after
  <1> QED BY <1>1, <1>7, <1>10, <1>11, <1>12, <1>20 DEF Sound

\* A message that has arrived is rejected, yielded with those behind it, or buffered.
LEMMA EnqueueKeeps ==
  ASSUME WriterSound, NEW c, ReaderSound(c), c.attached = TRUE, NEW n \in Int, Arrived(n)
  PROVE  ReaderSound(Enqueue(c, n)) /\ Enqueue(c, n).groups = c.groups
  <1>1. /\ c \in Readers /\ BufferSound(c) /\ YieldSound(c) /\ EndKnown(c) /\ EndSound(c) /\ Sound(c)
    BY DEF ReaderSound, EndSound, BufferSound, Sound
  <1>2. n \in Numbers /\ n \in Nat /\ c.next \in Nat /\ c.buffer \in SUBSET Numbers
        /\ c.buffer \in SUBSET Nat /\ c.done \in BOOLEAN
        /\ (c.endSeq # NoEnd => c.endSeq \in Numbers /\ c.endSeq \in Nat /\ n < c.endSeq)
    <2>1. n \in Numbers
      BY ArrivedIsBelow
    <2>2. /\ c.next \in 0..MaxMessages /\ c.buffer \in SUBSET Numbers /\ c.done \in BOOLEAN
          /\ (c.endSeq # NoEnd => c.endSeq \in Numbers)
      BY <1>1, ReaderFields
    <2>3. c.endSeq # NoEnd => n < c.endSeq
      BY <1>1, <2>2, ArrivedIsBelow DEF EndKnown
    <2>4. \A x \in Numbers : x \in Nat
      BY NumbersAreNat
    <2>5. c.next \in Nat
      BY <2>2, NumbersAreNat
    <2> QED BY <2>1, <2>2, <2>3, <2>4, <2>5
  <1>3. CASE Rejects(c, n)
    BY <1>3 DEF Enqueue
  <1>4. CASE ~Rejects(c, n)
    <2>1. c.next <= n /\ n \notin c.buffer
      BY <1>2, <1>4 DEF Rejects
    <2>2. c.done = FALSE
      BY <1>1, <1>2, <2>1 DEF EndKnown
    <2>3. CASE n = c.next
      <3> DEFINE q == RestartTimer(EmitFrom(c, n))
      <3>1. \A k \in c.buffer : n <= k
        BY <1>1, <1>2, <2>3 DEF BufferSound
      <3>2. Sound(q) /\ BufferSound(q) /\ q.groups = c.groups
        BY <1>1, <1>2, <2>1, <2>2, <3>1, EmitKeeps
      <3> HIDE DEF q
      <3>3. ReaderSound(CheckEndReached(q)) /\ CheckEndReached(q).groups = q.groups
        BY <3>2, CheckKeeps
      <3>4. Enqueue(c, n) = CheckEndReached(q)
        BY <1>4, <2>3 DEF Enqueue, q
      <3> QED BY <3>2, <3>3, <3>4
    <2>4. CASE n # c.next
      <3> DEFINE more == c.buffer \cup {n}
                 q == [c EXCEPT !.buffer = more, !.timer = TRUE]
      <3>1. more \in SUBSET Numbers /\ \A k \in more : c.next < k /\ Arrived(k)
        BY <1>1, <1>2, <2>1, <2>4 DEF BufferSound
      <3>2. Enqueue(c, n) = q
        BY <1>4, <2>4 DEF Enqueue
      <3> HIDE DEF more
      <3>3. /\ q \in Readers /\ q.buffer = more /\ q.timer = TRUE /\ q.next = c.next
            /\ q.waiting = c.waiting /\ q.groups = c.groups /\ q.read = c.read /\ q.queue = c.queue
            /\ q.endSeq = c.endSeq /\ q.done = FALSE /\ q.attached = c.attached
        BY <1>1, <2>2, <3>1 DEF Readers
      <3> HIDE DEF q
      <3>4. BufferSound(q)
        BY <3>1, <3>3 DEF BufferSound
      <3>5. YieldSound(q)
        BY <1>1, <2>2, <3>3 DEF YieldSound, YieldedBy
      <3>6. EndSound(q)
        BY <1>1, <2>2, <3>3 DEF EndSound, EndKnown
      <3> QED BY <3>2, <3>3, <3>4, <3>5, <3>6 DEF ReaderSound
    <2> QED BY <2>3, <2>4
  <1> QED BY <1>3, <1>4

-----------------------------------------------------------------------------
(* What the writer and the channel do leaves a reader sound.                 *)

LEMMA ArrivedStays ==
  ASSUME messages \in Seq(Sent), messages' \in Seq(Sent), Grown(messages, messages'),
         wire \subseteq wire', NEW n, Arrived(n)
  PROVE  Arrived(n)'
  <1>1. DOMAIN messages = 1..Len(messages) /\ DOMAIN messages' = 1..Len(messages')
        /\ Len(messages) \in Nat /\ Len(messages') \in Nat /\ Len(messages) <= Len(messages')
    BY DEF Grown
  <1>2. /\ n + 1 \in DOMAIN messages' /\ messages'[n + 1].kind = "data"
        /\ DOMAIN messages'[n + 1].parts = DOMAIN messages[n + 1].parts
    BY <1>1 DEF Grown, Arrived
  <1> QED BY <1>2 DEF Arrived

LEMMA GroupStays ==
  ASSUME messages \in Seq(Sent), messages' \in Seq(Sent), Grown(messages, messages'),
         wire \subseteq wire', NEW g, GroupSound(g)
  PROVE  GroupSound(g)' /\ DOMAIN messages'[g.n + 1].parts = DOMAIN messages[g.n + 1].parts
  <1>1. DOMAIN messages = 1..Len(messages) /\ DOMAIN messages' = 1..Len(messages')
        /\ Len(messages) \in Nat /\ Len(messages') \in Nat /\ Len(messages) <= Len(messages')
    BY DEF Grown
  <1>2. /\ g.n + 1 \in DOMAIN messages' /\ messages'[g.n + 1].kind = "data"
        /\ DOMAIN messages'[g.n + 1].parts = DOMAIN messages[g.n + 1].parts
    BY <1>1 DEF Grown, GroupSound
  <1>3. g.got \subseteq PartsOf(g.n)'
    BY <1>2 DEF GroupSound, PartsOf
  <1> QED BY <1>2, <1>3 DEF GroupSound

LEMMA SoundStays ==
  ASSUME messages \in Seq(Sent), messages' \in Seq(Sent), Grown(messages, messages'),
         wire \subseteq wire', NEW c, ReaderSound(c), GroupsSound(c.groups), r' = c
  PROVE  (ReaderSound(r) /\ GroupsSound(r.groups))'
  <1>1. BufferSound(c)'
    BY ArrivedStays DEF ReaderSound, BufferSound
  <1>2. YieldSound(c)'
    BY ArrivedStays DEF ReaderSound, YieldSound, YieldedBy
  <1>3. EndSound(c)'
    <2>1. DOMAIN messages = 1..Len(messages) /\ DOMAIN messages' = 1..Len(messages')
          /\ Len(messages) \in Nat /\ Len(messages') \in Nat /\ Len(messages) <= Len(messages')
      BY DEF Grown
    <2>2. \A i \in DOMAIN messages : i \in DOMAIN messages' /\ messages'[i].kind = messages[i].kind
      BY <2>1 DEF Grown
    <2> QED BY <2>2 DEF ReaderSound, EndSound, EndKnown
  <1>4. GroupsSound(c.groups)'
    BY GroupStays DEF GroupsSound
  <1> QED BY <1>1, <1>2, <1>3, <1>4 DEF ReaderSound, BufferSound, YieldSound, YieldedBy, EndSound,
                                        EndKnown, GroupsSound

-----------------------------------------------------------------------------
(* The reader's steps.                                                       *)

Reading(c) == ReaderSound(c) /\ GroupsSound(c.groups)

LEMMA DataKeeps ==
  ASSUME WriterSound, Reading(r), NEW n \in Int, Arrived(n), ReceiveData(n)
  PROVE  Reading(r')
  <1>1. r \in Readers /\ r.attached = TRUE
    BY DEF Reading, ReaderSound, Readers, ReceiveData
  <1>2. ReaderSound(Enqueue(r, n)) /\ Enqueue(r, n).groups = r.groups
    BY <1>1, EnqueueKeeps DEF Reading
  <1>3. r' = Enqueue(r, n)
    BY DEF ReceiveData
  <1> QED BY <1>2, <1>3 DEF Reading

LEMMA EndKeeps ==
  ASSUME WriterSound, Reading(r), NEW n \in Numbers, n + 1 \in DOMAIN messages,
         messages[n + 1].kind = "end", ReceiveEnd(n)
  PROVE  Reading(r')
  <1> DEFINE c == [r EXCEPT !.endSeq = n]
  <1>1. /\ r \in Readers /\ BufferSound(r) /\ YieldSound(r) /\ EndKnown(r) /\ EndSound(r)
        /\ r.attached = TRUE
    BY DEF Reading, ReaderSound, Readers, ReceiveEnd, EndSound
  <1>2. /\ c \in Readers /\ c.endSeq = n /\ c.next = r.next /\ c.buffer = r.buffer
        /\ c.groups = r.groups /\ c.timer = r.timer /\ c.done = r.done /\ c.queue = r.queue
        /\ c.waiting = r.waiting /\ c.read = r.read /\ c.attached = r.attached
    BY <1>1 DEF Readers
  <1>3. r' = IF c.next >= n THEN CheckEndReached(c) ELSE [c EXCEPT !.timer = TRUE]
    BY DEF ReceiveEnd
  <1> HIDE DEF c
  <1>4. n \in Nat /\ n # NoEnd /\ c.next \in Nat /\ c.done \in BOOLEAN
    <2>1. n \in Nat /\ MaxMessages \in Nat
      BY NumbersAreNat, Zenon
    <2>2. c.next \in 0..MaxMessages /\ c.done \in BOOLEAN
      BY <1>2, ReaderFields
    <2> QED BY <2>1, <2>2 DEF NoEnd
  <1>5. BufferSound(c) /\ YieldSound(c)
    BY <1>1, <1>2 DEF BufferSound, YieldSound, YieldedBy
  <1>6. EndKnown(c)
    <2>1. ASSUME c.done PROVE c.next >= n
      <3>1. r.endSeq # NoEnd /\ r.next >= r.endSeq
        BY <1>1, <1>2, <2>1 DEF EndKnown
      <3>2. /\ r.endSeq \in Numbers /\ r.endSeq + 1 \in DOMAIN messages
            /\ messages[r.endSeq + 1].kind = "end"
        BY <1>1, <3>1, ReaderFields DEF EndKnown
      <3>3. r.endSeq = n
        BY <3>2, OneMarker
      <3> QED BY <1>2, <3>1, <3>3
    <2>2. c.endSeq = n /\ n + 1 \in DOMAIN messages /\ messages[n + 1].kind = "end"
      BY <1>2
    <2> QED BY <1>4, <2>1, <2>2, Zenon DEF EndKnown
  <1>7. CASE c.next >= n
    <2>1. Sound(c)
      BY <1>2, <1>5, <1>6 DEF Sound, BufferSound
    <2>2. ReaderSound(CheckEndReached(c)) /\ CheckEndReached(c).groups = c.groups
      BY <1>5, <2>1, CheckKeeps
    <2>3. r' = CheckEndReached(c)
      BY <1>3, <1>7
    <2> QED BY <1>2, <2>2, <2>3 DEF Reading
  <1>8. CASE ~(c.next >= n)
    <2> DEFINE q == [c EXCEPT !.timer = TRUE]
    <2>1. r' = q
      BY <1>3, <1>8
    <2>2. /\ q \in Readers /\ q.timer = TRUE /\ q.buffer = c.buffer /\ q.next = c.next
          /\ q.waiting = c.waiting /\ q.groups = c.groups /\ q.read = c.read /\ q.queue = c.queue
          /\ q.endSeq = n /\ q.done = c.done /\ q.attached = c.attached
      BY <1>2 DEF Readers
    <2> HIDE DEF q
    <2>3. BufferSound(q) /\ YieldSound(q)
      BY <1>5, <2>2 DEF BufferSound, YieldSound, YieldedBy
    <2>4. EndSound(q)
      BY <1>2, <1>4, <1>6, <1>8, <2>2 DEF EndSound, EndKnown
    <2> QED BY <1>2, <2>1, <2>2, <2>3, <2>4 DEF Reading, ReaderSound
  <1> QED BY <1>7, <1>8

LEMMA TimerKeeps ==
  ASSUME WriterSound, Reading(r), ReorderTimerFires
  PROVE  Reading(r')
  <1> DEFINE c == [r EXCEPT !.timer = FALSE]
  <1>1. r \in Readers /\ BufferSound(r) /\ YieldSound(r) /\ EndKnown(r) /\ EndSound(r)
    BY DEF Reading, ReaderSound, EndSound
  <1>2. /\ c \in Readers /\ c.endSeq = r.endSeq /\ c.next = r.next /\ c.buffer = r.buffer
        /\ c.groups = r.groups /\ c.timer = FALSE /\ c.done = r.done /\ c.queue = r.queue
        /\ c.waiting = r.waiting /\ c.read = r.read /\ c.attached = r.attached
    BY <1>1 DEF Readers
  <1>3. r' = IF c.buffer # {}
             THEN CheckEndReached(RestartTimer(EmitFrom(c, Min(c.buffer))))
             ELSE IF c.endSeq # NoEnd /\ c.next < c.endSeq
             THEN CheckEndReached([c EXCEPT !.next = c.endSeq])
             ELSE c
    BY DEF ReorderTimerFires
  <1> HIDE DEF c
  <1>4. /\ c.next \in Nat /\ c.buffer \in SUBSET Numbers /\ c.buffer \in SUBSET Nat
        /\ c.done \in BOOLEAN /\ (c.endSeq # NoEnd => c.endSeq \in Numbers /\ c.endSeq \in Nat)
    <2>1. /\ c.next \in 0..MaxMessages /\ c.buffer \in SUBSET Numbers /\ c.done \in BOOLEAN
          /\ (c.endSeq # NoEnd => c.endSeq \in Numbers)
      BY <1>2, ReaderFields
    <2>2. \A x \in Numbers : x \in Nat
      BY NumbersAreNat
    <2>3. c.next \in Nat
      BY <2>1, NumbersAreNat
    <2> QED BY <2>1, <2>2, <2>3
  <1>5. Sound(c) /\ YieldSound(c)
    BY <1>1, <1>2 DEF Sound, BufferSound, YieldSound, YieldedBy, EndKnown
  <1>6. CASE c.buffer # {}
    <2> DEFINE n == Min(c.buffer)
               q == RestartTimer(EmitFrom(c, n))
    <2>1. n \in c.buffer /\ \A k \in c.buffer : n <= k
      BY <1>4, <1>6, MinIsLeast
    <2> HIDE DEF n
    <2>2. n \in Numbers /\ Arrived(n) /\ c.next <= n /\ c.done = FALSE
      <3>1. n \in Nat /\ c.next < n /\ Arrived(n)
        BY <1>1, <1>2, <1>4, <2>1 DEF BufferSound
      <3>2. c.done = FALSE
        BY <1>1, <1>2, <1>4, <1>6 DEF BufferSound
      <3> QED BY <1>4, <2>1, <3>1, <3>2
    <2>3. Sound(q) /\ BufferSound(q) /\ q.groups = c.groups
      BY <1>5, <2>1, <2>2, EmitKeeps
    <2>4. r' = CheckEndReached(q)
      BY <1>3, <1>6 DEF n
    <2> HIDE DEF q
    <2>5. ReaderSound(CheckEndReached(q)) /\ CheckEndReached(q).groups = q.groups
      BY <2>3, CheckKeeps
    <2> QED BY <1>2, <2>3, <2>4, <2>5 DEF Reading
  <1>7. CASE c.buffer = {} /\ c.endSeq # NoEnd /\ c.next < c.endSeq
    <2> DEFINE q == [c EXCEPT !.next = c.endSeq]
    <2>1. r' = CheckEndReached(q)
      BY <1>3, <1>7
    <2>2. c.endSeq \in 0..MaxMessages
      BY <1>4, <1>7, NumbersAreNat DEF Numbers
    <2>3. /\ q \in Readers /\ q.timer = c.timer /\ q.buffer = {} /\ q.next = c.endSeq
          /\ q.waiting = c.waiting /\ q.groups = c.groups /\ q.read = c.read /\ q.queue = c.queue
          /\ q.endSeq = c.endSeq /\ q.done = c.done /\ q.attached = c.attached
      BY <1>2, <1>7, <2>2 DEF Readers
    <2> HIDE DEF q
    <2>4. BufferSound(q)
      BY <2>3 DEF BufferSound
    <2>5. YieldSound(q)
      <3>1. YieldedBy(q) = YieldedBy(c)
        BY <2>3 DEF YieldedBy
      <3>2. \A i \in DOMAIN YieldedBy(c) : YieldedBy(c)[i] \in Nat
        <4>1. YieldedBy(c) \in Seq(Numbers)
          BY <1>2, ReaderFields, ConcatProperties DEF YieldedBy
        <4> HIDE DEF YieldedBy
        <4>2. \A i \in DOMAIN YieldedBy(c) : YieldedBy(c)[i] \in Numbers
          BY <4>1
        <4> QED BY <4>2, NumbersAreNat
      <3>3. \A i \in DOMAIN YieldedBy(c) : YieldedBy(c)[i] < c.endSeq
        BY <1>4, <1>5, <1>7, <3>2 DEF YieldSound
      <3> QED BY <1>5, <2>3, <3>1, <3>3 DEF YieldSound
    <2>6. EndKnown(q)
      BY <1>4, <1>5, <1>7, <2>3 DEF Sound, EndKnown
    <2>7. Sound(q)
      BY <2>3, <2>5, <2>6 DEF Sound
    <2>8. ReaderSound(CheckEndReached(q)) /\ CheckEndReached(q).groups = q.groups
      BY <2>4, <2>7, CheckKeeps
    <2> QED BY <1>2, <2>1, <2>3, <2>8 DEF Reading
  <1>8. CASE c.buffer = {} /\ ~(c.endSeq # NoEnd /\ c.next < c.endSeq)
    <2>1. r' = c
      BY <1>3, <1>8
    <2>2. BufferSound(c) /\ EndSound(c)
      BY <1>1, <1>2, <1>8 DEF BufferSound, EndSound, EndKnown
    <2> QED BY <1>2, <1>5, <2>1, <2>2 DEF Reading, ReaderSound
  <1> QED BY <1>6, <1>7, <1>8

LEMMA NextKeeps ==
  ASSUME Reading(r), CallNext
  PROVE  Reading(r')
  <1>1. r \in Readers /\ BufferSound(r) /\ YieldSound(r) /\ EndSound(r)
    BY DEF Reading, ReaderSound
  <1>2. r.read \in Seq(Numbers) /\ r.queue \in Seq(Numbers) /\ r.waiting = FALSE /\ r.done \in BOOLEAN
    BY <1>1, ReaderFields DEF CallNext
  <1>3. CASE r.queue # <<>> /\ r' = [r EXCEPT !.read = Append(@, Head(r.queue)), !.queue = Tail(@)]
    <2> DEFINE read == Append(r.read, Head(r.queue))
               queue == Tail(r.queue)
    <2>1. read \in Seq(Numbers) /\ queue \in Seq(Numbers) /\ read \o queue = YieldedBy(r)
      <3>1. \A y, m \in Seq(Numbers) : m # <<>> =>
              /\ Append(y, Head(m)) \in Seq(Numbers) /\ Tail(m) \in Seq(Numbers)
              /\ Append(y, Head(m)) \o Tail(m) = y \o m
        BY FrontAndRest
      <3> QED BY <1>2, <1>3, <3>1, Zenon DEF YieldedBy
    <2>2. r' = [r EXCEPT !.read = read, !.queue = queue]
      BY <1>3
    <2> HIDE DEF read, queue
    <2>3. /\ r' \in Readers /\ r'.timer = r.timer /\ r'.buffer = r.buffer /\ r'.next = r.next
          /\ r'.waiting = FALSE /\ r'.groups = r.groups /\ r'.read = read /\ r'.queue = queue
          /\ r'.endSeq = r.endSeq /\ r'.done = r.done /\ r'.attached = r.attached
      BY <1>1, <1>2, <2>1, <2>2 DEF Readers
    <2>4. YieldedBy(r') = YieldedBy(r)
      BY <2>1, <2>3 DEF YieldedBy
    <2>5. YieldSound(r')
      BY <1>1, <2>3, <2>4 DEF YieldSound
    <2>6. BufferSound(r') /\ EndSound(r')
      BY <1>1, <2>3 DEF BufferSound, EndSound, EndKnown
    <2> QED BY <2>3, <2>5, <2>6 DEF Reading, ReaderSound
  <1>4. CASE r.queue = <<>> /\ ~r.done /\ r' = [r EXCEPT !.waiting = TRUE]
    <2>1. /\ r' \in Readers /\ r'.timer = r.timer /\ r'.buffer = r.buffer /\ r'.next = r.next
          /\ r'.waiting = TRUE /\ r'.groups = r.groups /\ r'.read = r.read /\ r'.queue = r.queue
          /\ r'.endSeq = r.endSeq /\ r'.done = r.done /\ r'.attached = r.attached
      BY <1>1, <1>4 DEF Readers
    <2>2. BufferSound(r') /\ EndSound(r')
      BY <1>1, <2>1 DEF BufferSound, EndSound, EndKnown
    <2>3. YieldSound(r')
      BY <1>1, <1>4, <2>1 DEF YieldSound, YieldedBy
    <2> QED BY <2>1, <2>2, <2>3 DEF Reading, ReaderSound
  <1> QED BY <1>3, <1>4 DEF CallNext

LEMMA LeaveKeeps ==
  ASSUME Reading(r), EndReader
  PROVE  Reading(r')
  <1>1. r \in Readers /\ YieldSound(r) /\ EndSound(r)
    BY DEF Reading, ReaderSound
  <1>0. <<>> \in Seq([n : Numbers, got : SUBSET Nat])
    OBVIOUS
  <1>2. /\ r' \in Readers /\ r'.timer = FALSE /\ r'.buffer = {} /\ r'.next = r.next
        /\ r'.waiting = FALSE /\ r'.groups = <<>> /\ r'.read = r.read /\ r'.queue = r.queue
        /\ r'.endSeq = r.endSeq /\ r'.done = TRUE /\ r'.attached = FALSE
    BY <1>0, <1>1 DEF EndReader, Complete, Readers
  <1>3. BufferSound(r') /\ YieldSound(r') /\ EndSound(r')
    BY <1>1, <1>2 DEF BufferSound, YieldSound, YieldedBy, EndSound, EndKnown
  <1>4. GroupsSound(<<>>)
    BY StreamClientAssumption DEF GroupsSound
  <1> QED BY <1>2, <1>3, <1>4 DEF Reading, ReaderSound

-----------------------------------------------------------------------------
(* The groups of parts.                                                      *)

LEMMA ReadersGroups ==
  ASSUME NEW c \in Readers, NEW gs \in Seq(Groups), NEW q, q = [c EXCEPT !.groups = gs]
  PROVE  /\ q \in Readers /\ q.endSeq = c.endSeq /\ q.next = c.next /\ q.buffer = c.buffer
         /\ q.groups = gs /\ q.timer = c.timer /\ q.done = c.done /\ q.queue = c.queue
         /\ q.waiting = c.waiting /\ q.read = c.read /\ q.attached = c.attached
  BY DEF Readers, Groups

LEMMA OtherGroups ==
  ASSUME NEW c, ReaderSound(c), NEW gs \in Seq(Groups), NEW q, q = [c EXCEPT !.groups = gs]
  PROVE  ReaderSound(q) /\ q.groups = gs /\ q.attached = c.attached
  <1>1. c \in Readers
    BY DEF ReaderSound
  <1>2. /\ q \in Readers /\ q.endSeq = c.endSeq /\ q.next = c.next /\ q.buffer = c.buffer
        /\ q.groups = gs /\ q.timer = c.timer /\ q.done = c.done /\ q.queue = c.queue
        /\ q.waiting = c.waiting /\ q.read = c.read /\ q.attached = c.attached
    BY <1>1, ReadersGroups
  <1> QED BY <1>2 DEF ReaderSound, BufferSound, YieldSound, YieldedBy, EndSound, EndKnown

\* What a list of groups has for any selection of them that keeps them apart.
GroupsApart(gs) ==
  /\ \A i, j \in DOMAIN gs : gs[i].n = gs[j].n => i = j
  /\ \A i \in DOMAIN gs : GroupSound(gs[i])

LEMMA SomeGroups ==
  ASSUME NEW gs \in Seq(Groups), GroupsApart(gs), NEW hs \in Seq(Groups),
         NEW f \in [DOMAIN hs -> DOMAIN gs],
         \A i, j \in DOMAIN hs : f[i] = f[j] => i = j,
         \A i \in DOMAIN hs : hs[i] = gs[f[i]]
  PROVE  GroupsApart(hs)
  <1>1. \A i \in DOMAIN hs : f[i] \in DOMAIN gs
    OBVIOUS
  <1>2. ASSUME NEW i \in DOMAIN hs, NEW j \in DOMAIN hs, hs[i].n = hs[j].n PROVE i = j
    BY <1>1, <1>2 DEF GroupsApart
  <1>3. ASSUME NEW i \in DOMAIN hs PROVE GroupSound(hs[i])
    BY <1>1 DEF GroupsApart
  <1> QED BY <1>2, <1>3 DEF GroupsApart

\* Evicting the oldest leaves groups of those there were, with room for another.
LEMMA EvictedKeeps ==
  ASSUME NEW gs \in Seq(Groups), GroupsSound(gs), NEW kept \in Evicted(gs)
  PROVE  kept \in Seq(Groups) /\ GroupsSound(kept) /\ Len(kept) <= MaxGroups
  <1>1. PICK k \in 1..(Len(gs) + 1) : Len(gs) + 1 - k <= MaxGroups /\ kept = SubSeq(gs, k, Len(gs))
    BY DEF Evicted
  <1>2. Len(gs) \in Nat /\ DOMAIN gs = 1..Len(gs) /\ k \in Nat /\ k >= 1 /\ k <= Len(gs) + 1
        /\ MaxGroups \in Nat
    BY <1>1, StreamClientAssumption
  <1>3. /\ kept \in Seq(Groups) /\ Len(kept) = (IF k <= Len(gs) THEN Len(gs) - k + 1 ELSE 0)
        /\ \A i \in 1..(Len(gs) - k + 1) : kept[i] = gs[k + i - 1]
    <2>1. \A i \in k..Len(gs) : gs[i] \in Groups
      BY <1>2
    <2> QED BY <1>1, <1>2, <2>1, SubSeqProperties
  <1>4. Len(kept) = Len(gs) - k + 1 /\ DOMAIN kept = 1..(Len(gs) - k + 1)
    BY <1>2, <1>3
  <1>5. \A i \in DOMAIN kept : k + i - 1 \in DOMAIN gs /\ kept[i] = gs[k + i - 1] /\ i \in Nat
    <2>1. TAKE i \in DOMAIN kept
    <2>2. i \in 1..(Len(gs) - k + 1)
      BY <1>4
    <2>3. k + i - 1 \in 1..Len(gs) /\ i \in Nat
      BY <1>2, <2>2
    <2> QED BY <1>2, <1>3, <2>2, <2>3
  <1>6. ASSUME NEW i \in DOMAIN kept, NEW j \in DOMAIN kept, kept[i].n = kept[j].n PROVE i = j
    <2>1. k + i - 1 = k + j - 1
      BY <1>5, <1>6 DEF GroupsSound
    <2> QED BY <1>2, <1>5, <2>1
  <1>7. \A i \in DOMAIN kept : GroupSound(kept[i]) /\ kept[i].got # DOMAIN messages[kept[i].n + 1].parts
    BY <1>5 DEF GroupsSound
  <1>8. Len(kept) <= MaxGroups /\ Len(kept) <= MaxGroups + 1
    BY <1>1, <1>2, <1>4
  <1> QED BY <1>3, <1>6, <1>7, <1>8 DEF GroupsSound

\* The part is in the group of its message, the only one that may have become whole.
Joined(gs, n) ==
  /\ gs \in Seq(Groups) /\ Len(gs) <= MaxGroups + 1 /\ GroupsApart(gs)
  /\ \E i \in DOMAIN gs : gs[i].n = n
  /\ \A i \in DOMAIN gs : gs[i].n # n => gs[i].got # DOMAIN messages[gs[i].n + 1].parts

LEMMA PartJoins ==
  ASSUME NEW gs \in Seq(Groups), GroupsSound(gs), Len(gs) <= MaxGroups, NEW n \in Numbers,
         NEW p \in Nat, n + 1 \in DOMAIN messages, messages[n + 1].kind = "data",
         p \in DOMAIN messages[n + 1].parts, <<n + 1, p>> \in wire
  PROVE  Joined(WithPart(gs, n, p), n)
  <1>1. Len(gs) \in Nat /\ DOMAIN gs = 1..Len(gs) /\ MaxGroups \in Nat
    BY StreamClientAssumption
  <1>2. \A i \in DOMAIN gs : gs[i] \in Groups /\ gs[i].n \in Numbers /\ gs[i].got \in SUBSET Nat
    <2>1. \A i \in DOMAIN gs : gs[i] \in Groups
      OBVIOUS
    <2> QED BY <2>1 DEF Groups
  <1>3. p \in PartsOf(n)
    BY DEF PartsOf
  <1>4. CASE \E i \in DOMAIN gs : gs[i].n = n
    <2> DEFINE hs == [i \in DOMAIN gs |->
                        IF gs[i].n = n THEN [gs[i] EXCEPT !.got = @ \cup {p}] ELSE gs[i]]
    <2>1. WithPart(gs, n, p) = hs
      BY <1>4 DEF WithPart
    <2>2. ASSUME NEW i \in DOMAIN gs
          PROVE  /\ hs[i] \in Groups /\ hs[i].n = gs[i].n
                 /\ hs[i].got = IF gs[i].n = n THEN gs[i].got \cup {p} ELSE gs[i].got
      <3>1. ASSUME NEW g, g = [gs[i] EXCEPT !.got = gs[i].got \cup {p}]
            PROVE  g \in Groups /\ g.n = gs[i].n /\ g.got = gs[i].got \cup {p}
        <4>1. gs[i].got \cup {p} \in SUBSET Nat
          BY <1>2
        <4> QED BY <1>2, <3>1, <4>1 DEF Groups
      <3> QED BY <1>2, <3>1
    <2>3. DOMAIN hs = DOMAIN gs
      OBVIOUS
    <2> HIDE DEF hs
    <2>4. hs \in Seq(Groups) /\ Len(hs) = Len(gs)
      <3>1. hs \in [1..Len(gs) -> Groups]
        <4>1. hs = [i \in DOMAIN gs |->
                        IF gs[i].n = n THEN [gs[i] EXCEPT !.got = @ \cup {p}] ELSE gs[i]]
          BY DEF hs
        <4> QED BY <1>1, <2>2, <4>1
      <3> QED BY <1>1, <3>1
    <2>5. GroupsApart(hs)
      <3>1. ASSUME NEW i \in DOMAIN hs PROVE GroupSound(hs[i])
        <4>1. GroupSound(gs[i]) /\ i \in DOMAIN gs
          BY <2>3 DEF GroupsSound
        <4> QED BY <1>3, <2>2, <4>1 DEF GroupSound
      <3>2. \A i, j \in DOMAIN hs : hs[i].n = hs[j].n => i = j
        BY <2>2, <2>3 DEF GroupsSound
      <3> QED BY <3>1, <3>2 DEF GroupsApart
    <2>6. \A i \in DOMAIN hs : hs[i].n # n => hs[i].got # DOMAIN messages[hs[i].n + 1].parts
      BY <2>2, <2>3 DEF GroupsSound
    <2>7. \E i \in DOMAIN hs : hs[i].n = n
      BY <1>4, <2>2, <2>3
    <2>8. Len(hs) <= MaxGroups + 1
      BY <1>1, <2>4
    <2> QED BY <2>1, <2>4, <2>5, <2>6, <2>7, <2>8 DEF Joined
  <1>5. CASE ~\E i \in DOMAIN gs : gs[i].n = n
    <2> DEFINE g == [n |-> n, got |-> {p}]
               hs == Append(gs, g)
    <2>1. WithPart(gs, n, p) = hs
      BY <1>5 DEF WithPart
    <2>2. g \in Groups /\ g.n = n /\ g.got = {p}
      BY DEF Groups
    <2> HIDE DEF g
    <2>3. /\ hs \in Seq(Groups) /\ Len(hs) = Len(gs) + 1 /\ DOMAIN hs = 1..(Len(gs) + 1)
          /\ hs[Len(gs) + 1] = g /\ \A i \in DOMAIN gs : hs[i] = gs[i]
      BY <1>1, <2>2
    <2> HIDE DEF hs
    <2>4. \A i \in DOMAIN hs : (i \in DOMAIN gs /\ hs[i] = gs[i]) \/ (i = Len(gs) + 1 /\ hs[i] = g)
      BY <1>1, <2>3
    <2>5. GroupsApart(hs)
      <3>1. GroupSound(g)
        BY <1>3, <2>2 DEF GroupSound
      <3>2. \A i \in DOMAIN hs : GroupSound(hs[i])
        BY <2>4, <3>1 DEF GroupsSound
      <3>3. ASSUME NEW i \in DOMAIN hs, NEW j \in DOMAIN hs, hs[i].n = hs[j].n PROVE i = j
        BY <1>5, <2>2, <2>4, <3>3 DEF GroupsSound
      <3> QED BY <3>2, <3>3 DEF GroupsApart
    <2>6. \A i \in DOMAIN hs : hs[i].n # n => hs[i].got # DOMAIN messages[hs[i].n + 1].parts
      BY <2>2, <2>4 DEF GroupsSound
    <2>7. \E i \in DOMAIN hs : hs[i].n = n
      BY <1>1, <2>2, <2>3
    <2>8. Len(hs) <= MaxGroups + 1
      BY <1>1, <2>3
    <2> QED BY <2>1, <2>3, <2>5, <2>6, <2>7, <2>8 DEF Joined
  <1> QED BY <1>4, <1>5

\* Taking the group out leaves the others, none of them whole.
LEMMA GroupLeaves ==
  ASSUME NEW n, NEW gs, Joined(gs, n), NEW at \in DOMAIN gs, gs[at].n = n
  PROVE  RemoveAt(gs, at) \in Seq(Groups) /\ GroupsSound(RemoveAt(gs, at))
  <1>1. /\ gs \in Seq(Groups) /\ Len(gs) \in Nat /\ DOMAIN gs = 1..Len(gs)
        /\ at \in Nat /\ at >= 1 /\ at <= Len(gs) /\ Len(gs) <= MaxGroups + 1 /\ MaxGroups \in Nat
    BY StreamClientAssumption DEF Joined
  <1> DEFINE a == SubSeq(gs, 1, at - 1)
             b == SubSeq(gs, at + 1, Len(gs))
             hs == RemoveAt(gs, at)
  <1>2. a \in Seq(Groups) /\ Len(a) = at - 1 /\ \A i \in 1..(at - 1) : a[i] = gs[i]
    <2>1. \A i \in 1..(at - 1) : gs[i] \in Groups
      BY <1>1
    <2>2. /\ a \in Seq(Groups) /\ Len(a) = (IF 1 <= at - 1 THEN at - 1 - 1 + 1 ELSE 0)
          /\ \A i \in 1..(at - 1 - 1 + 1) : a[i] = gs[1 + i - 1]
      BY <1>1, <2>1, SubSeqProperties
    <2> HIDE DEF a
    <2>3. Len(a) = at - 1
      BY <1>1, <2>2
    <2>4. ASSUME NEW i \in 1..(at - 1) PROVE a[i] = gs[i]
      <3>1. 1 + i - 1 = i /\ i \in 1..(at - 1 - 1 + 1)
        BY <1>1
      <3> QED BY <2>2, <3>1
    <2> QED BY <2>2, <2>3, <2>4
  <1>3. /\ b \in Seq(Groups) /\ Len(b) = Len(gs) - at
        /\ \A i \in 1..(Len(gs) - at) : b[i] = gs[at + i]
    <2>1. \A i \in at + 1..Len(gs) : gs[i] \in Groups
      BY <1>1
    <2>2. /\ b \in Seq(Groups)
          /\ Len(b) = (IF at + 1 <= Len(gs) THEN Len(gs) - (at + 1) + 1 ELSE 0)
          /\ \A i \in 1..(Len(gs) - (at + 1) + 1) : b[i] = gs[at + 1 + i - 1]
      BY <1>1, <2>1, SubSeqProperties
    <2> HIDE DEF b
    <2>3. Len(b) = Len(gs) - at
      BY <1>1, <2>2
    <2>4. ASSUME NEW i \in 1..(Len(gs) - at) PROVE b[i] = gs[at + i]
      <3>1. at + 1 + i - 1 = at + i /\ i \in 1..(Len(gs) - (at + 1) + 1)
        BY <1>1
      <3> QED BY <2>2, <3>1
    <2> QED BY <2>2, <2>3, <2>4
  <1>4. hs = a \o b
    BY DEF RemoveAt
  <1> HIDE DEF a, b, hs
  <1>5. /\ hs \in Seq(Groups) /\ Len(hs) = Len(gs) - 1
        /\ \A i \in 1..(Len(gs) - 1) : hs[i] = IF i <= at - 1 THEN a[i] ELSE b[i - (at - 1)]
    <2>1. /\ a \o b \in Seq(Groups) /\ Len(a \o b) = Len(a) + Len(b)
          /\ \A i \in 1..(Len(a) + Len(b)) : (a \o b)[i] = IF i <= Len(a) THEN a[i] ELSE b[i - Len(a)]
      BY <1>2, <1>3, ConcatProperties
    <2>2. Len(a) + Len(b) = Len(gs) - 1
      BY <1>1, <1>2, <1>3
    <2> QED BY <1>2, <1>4, <2>1, <2>2
  <1>6. DOMAIN hs = 1..(Len(gs) - 1)
    BY <1>5
  <1>7. ASSUME NEW i \in DOMAIN hs
        PROVE  \E j \in DOMAIN gs : j # at /\ hs[i] = gs[j] /\ j = (IF i <= at - 1 THEN i ELSE i + 1)
    <2>1. i \in Nat /\ i >= 1 /\ i <= Len(gs) - 1
      BY <1>1, <1>6
    <2>2. CASE i <= at - 1
      BY <1>1, <1>2, <1>5, <1>6, <2>1, <2>2
    <2>3. CASE ~(i <= at - 1)
      <3>1. i - (at - 1) \in 1..(Len(gs) - at) /\ at + (i - (at - 1)) = i + 1 /\ i + 1 \in DOMAIN gs
        BY <1>1, <2>1, <2>3
      <3> QED BY <1>1, <1>3, <1>5, <1>6, <2>1, <2>3, <3>1
    <2> QED BY <2>2, <2>3
  <1>8. \A i, j \in DOMAIN gs : gs[i].n = gs[j].n => i = j
    BY DEF Joined, GroupsApart
  <1>9. ASSUME NEW i \in DOMAIN hs, NEW j \in DOMAIN hs, hs[i].n = hs[j].n PROVE i = j
    <2>1. (IF i <= at - 1 THEN i ELSE i + 1) = (IF j <= at - 1 THEN j ELSE j + 1)
      BY <1>7, <1>8, <1>9
    <2>2. i \in Nat /\ j \in Nat
      BY <1>6
    <2> QED BY <1>1, <2>1, <2>2
  <1>10. ASSUME NEW i \in DOMAIN hs
         PROVE  GroupSound(hs[i]) /\ hs[i].got # DOMAIN messages[hs[i].n + 1].parts
    <2>1. PICK j \in DOMAIN gs : j # at /\ hs[i] = gs[j]
      BY <1>7
    <2>2. gs[j].n # n
      BY <1>8, <2>1
    <2> QED BY <2>1, <2>2 DEF Joined, GroupsApart
  <1>11. Len(hs) <= MaxGroups + 1
    BY <1>1, <1>5
  <1>12. GroupsSound(hs)
    BY <1>9, <1>10, <1>11 DEF GroupsSound
  <1> QED BY <1>5, <1>12 DEF hs

LEMMA PartKeeps ==
  ASSUME WriterSound, Reading(r), NEW n \in Numbers, NEW p \in Nat, n + 1 \in DOMAIN messages,
         messages[n + 1].kind = "data", p \in DOMAIN messages[n + 1].parts, <<n + 1, p>> \in wire,
         ReceivePart(n, p, Len(messages[n + 1].parts))
  PROVE  Reading(r')
  <1> DEFINE total == Len(messages[n + 1].parts)
  <1>1. /\ r \in Readers /\ r.groups \in Seq(Groups) /\ ReaderSound(r) /\ GroupsSound(r.groups)
        /\ r.attached = TRUE /\ DOMAIN messages[n + 1].parts = 1..total
    <2>1. messages[n + 1].parts \in Seq(Nat)
      BY SentMessage DEF WriterSound, StreamTypes
    <2>2. r \in Readers /\ ReaderSound(r) /\ GroupsSound(r.groups)
      BY DEF Reading, ReaderSound
    <2> QED BY <2>1, <2>2, ReaderFields DEF ReceivePart
  <1> HIDE DEF total
  <1>2. PICK kept \in Evicted(r.groups) :
          LET groups == WithPart(kept, n, p)
              at == CHOOSE i \in DOMAIN groups : groups[i].n = n
          IN  r' = IF IsWhole(groups[at], total)
                   THEN Enqueue([r EXCEPT !.groups = RemoveAt(groups, at)], n)
                   ELSE [r EXCEPT !.groups = groups]
    BY DEF ReceivePart, total
  <1> DEFINE groups == WithPart(kept, n, p)
             at == CHOOSE i \in DOMAIN groups : groups[i].n = n
  <1>3. Joined(groups, n)
    BY <1>1, EvictedKeeps, PartJoins
  <1> HIDE DEF groups
  <1>4. at \in DOMAIN groups /\ groups[at].n = n
    BY <1>3 DEF Joined
  <1>5. \A i \in DOMAIN groups : groups[i].n = n => i = at
    BY <1>3, <1>4 DEF Joined, GroupsApart
  <1>6. r' = IF IsWhole(groups[at], total)
             THEN Enqueue([r EXCEPT !.groups = RemoveAt(groups, at)], n)
             ELSE [r EXCEPT !.groups = groups]
    BY <1>2 DEF groups
  <1> HIDE DEF at
  <1>7. groups \in Seq(Groups) /\ GroupSound(groups[at])
    BY <1>3, <1>4 DEF Joined, GroupsApart
  <1>8. CASE IsWhole(groups[at], total)
    <2> DEFINE rest == RemoveAt(groups, at)
               c == [r EXCEPT !.groups = rest]
    <2>1. rest \in Seq(Groups) /\ GroupsSound(rest)
      BY <1>3, <1>4, GroupLeaves
    <2> HIDE DEF rest
    <2>2. ReaderSound(c) /\ c.groups = rest /\ c.attached = TRUE
      BY <1>1, <2>1, OtherGroups
    <2>3. r' = Enqueue(c, n)
      BY <1>6, <1>8 DEF rest
    <2> HIDE DEF c
    <2>4. Arrived(n)
      BY <1>1, <1>4, <1>7, <1>8 DEF IsWhole, GroupSound, PartsOf, Arrived
    <2>5. n \in Int
      BY NumbersAreNat
    <2>6. ReaderSound(Enqueue(c, n)) /\ Enqueue(c, n).groups = c.groups
      BY <2>2, <2>4, <2>5, EnqueueKeeps
    <2> QED BY <2>1, <2>2, <2>3, <2>6 DEF Reading
  <1>9. CASE ~IsWhole(groups[at], total)
    <2>1. r' = [r EXCEPT !.groups = groups]
      BY <1>6, <1>9
    <2>2. ReaderSound(r') /\ r'.groups = groups
      BY <1>1, <1>7, <2>1, OtherGroups
    <2>3. groups[at].got # DOMAIN messages[groups[at].n + 1].parts
      BY <1>1, <1>4, <1>9 DEF IsWhole
    <2>4. GroupsSound(groups)
      BY <1>3, <1>5, <2>3 DEF Joined, GroupsApart, GroupsSound
    <2> QED BY <2>2, <2>4 DEF Reading
  <1> QED BY <1>8, <1>9

-----------------------------------------------------------------------------
(* The stream.                                                               *)

LEMMA InitPipeInv == StreamInit => PipeInv
  <1>1. SUFFICES ASSUME StreamInit PROVE PipeInv
    OBVIOUS
  <1>2. /\ format \in {"bytes", "events"} /\ affinity \in {"dedicated", "shared"}
        /\ writes = 0 /\ buffer = <<>> /\ hasBinary = FALSE /\ flushTimer = FALSE
        /\ messages = <<>> /\ ending = "no" /\ wire = {} /\ Len(Input) \in Nat
    BY <1>1, StreamBundleAssumption DEF StreamInit, WriterInit
  <1>3. <<>> \in Seq(Nat) /\ <<>> \in Seq(Sent)
    OBVIOUS
  <1>4. StreamTypes
    <2>1. messages \in Seq(Sent) /\ buffer \in Seq(Nat)
      BY <1>2, <1>3, Zenon
    <2>2. wire \subseteq {x \in Nat \X Nat :
            x[1] \in DOMAIN messages /\ x[2] \in DOMAIN messages[x[1]].parts}
      BY <1>2
    <2>3. writes \in 0..Len(Input)
      BY <1>2
    <2> QED BY <1>2, <2>1, <2>2, <2>3 DEF StreamTypes
  <1>5. WriterSound
    <2>1. Batched(messages, buffer, writes)
      BY <1>2 DEF Batched, Ordered, Within, AllThere
    <2> QED BY <1>2, <1>4, <2>1 DEF WriterSound, Marked, AllMarked, EndsLast
  <1>6. /\ <<>> \in Seq([n : Numbers, got : SUBSET Nat]) /\ <<>> \in Seq(Numbers)
        /\ 0 \in 0..MaxMessages /\ MaxMessages \in Nat /\ MaxGroups \in Nat
    BY NumbersAreNat, StreamClientAssumption
  <1>7. r \in Readers
    BY <1>1, <1>6 DEF StreamInit, ReaderInit, Readers
  <1>8. /\ r.buffer = {} /\ r.groups = <<>> /\ r.endSeq = NoEnd /\ r.done = FALSE
        /\ r.queue = <<>> /\ r.waiting = FALSE /\ r.read = <<>>
    BY <1>1 DEF StreamInit, ReaderInit
  <1>9. YieldedBy(r) = <<>>
    BY <1>6, <1>8, ConcatEmptySeq DEF YieldedBy
  <1>10. BufferSound(r) /\ YieldSound(r) /\ EndSound(r) /\ GroupsSound(r.groups)
    BY <1>6, <1>8, <1>9 DEF BufferSound, YieldSound, EndSound, EndKnown, GroupsSound
  <1> QED BY <1>5, <1>7, <1>10 DEF PipeInv, ReaderSound

LEMMA DeliverKeeps ==
  ASSUME PipeInv, NEW i, NEW p, Deliver(i, p)
  PROVE  Reading(r')
  <1>1. WriterSound /\ Reading(r)
    BY DEF PipeInv, Reading
  <1>2. /\ i \in DOMAIN messages /\ p \in DOMAIN messages[i].parts /\ <<i, p>> \in wire
        /\ i \in Nat /\ p \in Nat
    BY <1>1 DEF Deliver, WriterSound, StreamTypes
  <1>3. /\ messages[i].parts \in Seq(Nat) /\ DOMAIN messages[i].parts = 1..Len(messages[i].parts)
    BY <1>1, <1>2, SentMessage DEF WriterSound, StreamTypes
  <1>4. i - 1 \in Numbers /\ i - 1 \in Int /\ (i - 1) + 1 = i
    <2>1. /\ DOMAIN messages = 1..Len(messages) /\ Len(messages) \in Nat
          /\ Len(messages) <= writes + 1 /\ writes \in 0..Len(Input) /\ Len(Input) \in Nat
      BY <1>1, StreamBundleAssumption DEF WriterSound, StreamTypes, EndsLast
    <2>2. i <= MaxMessages /\ i >= 1
      BY <1>2, <2>1, StreamsAssumption
    <2> QED BY <1>2, <2>2, NumbersAreNat DEF Numbers
  <1>5. CASE messages[i].kind = "end" /\ ReceiveEnd(i - 1)
    BY <1>1, <1>2, <1>4, <1>5, EndKeeps
  <1>6. CASE messages[i].kind = "data" /\ Len(messages[i].parts) = 1 /\ ReceiveData(i - 1)
    <2>1. Arrived(i - 1)
      BY <1>2, <1>3, <1>4, <1>6 DEF Arrived
    <2> QED BY <1>1, <1>4, <1>6, <2>1, DataKeeps
  <1>7. CASE messages[i].kind = "data" /\ ReceivePart(i - 1, p, Len(messages[i].parts))
    BY <1>1, <1>2, <1>4, <1>7, PartKeeps
  <1> QED BY <1>5, <1>6, <1>7 DEF Deliver

LEMMA NextKeepsPipeInv == PipeInv /\ [StreamNext]_pipeVars => PipeInv'
  <1>1. SUFFICES ASSUME PipeInv, [StreamNext]_pipeVars PROVE PipeInv'
    OBVIOUS
  <1>2. WriterSound /\ Reading(r) /\ messages \in Seq(Sent)
    BY <1>1 DEF PipeInv, Reading, WriterSound, StreamTypes
  <1>3. ASSUME UNCHANGED writerVars, Reading(r') PROVE PipeInv'
    <2>1. WriterSound'
      BY <1>2, <1>3 DEF writerVars, WriterSound, StreamTypes, Batched, Ordered, Within, AllThere,
         Chunked, Marked, AllMarked, EndsLast
    <2>2. messages' = messages /\ wire' = wire /\ Grown(messages, messages')
      BY <1>2, <1>3, SameGrown DEF writerVars
    <2>3. ReaderSound(r') /\ GroupsSound(r'.groups)
      BY <1>3 DEF Reading
    <2>4. \A c : ReaderSound(c) /\ GroupsSound(c.groups) /\ r' = c =>
            (ReaderSound(r) /\ GroupsSound(r.groups))'
      BY <1>2, <2>2, SoundStays
    <2> QED BY <2>1, <2>3, <2>4 DEF PipeInv
  <1>4. CASE WriterNext /\ UNCHANGED readerVars
    <2>1. WriterStep
      BY <1>2, <1>4, WriterKeeps
    <2>2. ReaderSound(r) /\ GroupsSound(r.groups) /\ r' = r
      BY <1>2, <1>4 DEF Reading, readerVars
    <2>3. \A c : ReaderSound(c) /\ GroupsSound(c.groups) /\ r' = c =>
            (ReaderSound(r) /\ GroupsSound(r.groups))'
      BY <1>2, <2>1, SoundStays DEF WriterStep
    <2> QED BY <2>1, <2>2, <2>3 DEF PipeInv, WriterStep
  <1>5. CASE \E i \in 1..MaxMessages, p \in 1..MaxParts : Deliver(i, p)
    <2>1. PICK i \in 1..MaxMessages, p \in 1..MaxParts : Deliver(i, p)
      BY <1>5
    <2>2. Reading(r') /\ UNCHANGED writerVars
      BY <1>1, <2>1, DeliverKeeps DEF Deliver
    <2> QED BY <1>3, <2>2
  <1>6. CASE (ReorderTimerFires \/ CallNext \/ EndReader \/ FatalStatus) /\ UNCHANGED writerVars
    <2>1. Reading(r')
      BY <1>2, <1>6, TimerKeeps, NextKeeps, LeaveKeeps DEF FatalStatus
    <2> QED BY <1>3, <1>6, <2>1
  <1>7. CASE UNCHANGED pipeVars
    <2>1. UNCHANGED writerVars /\ r' = r
      BY <1>7 DEF pipeVars, readerVars
    <2> QED BY <1>2, <1>3, <2>1
  <1> QED BY <1>1, <1>4, <1>5, <1>6, <1>7 DEF StreamNext

\* The invariant, and each property from it.
THEOREM PipeInvAlways == StreamSpec => []PipeInv
  BY InitPipeInv, NextKeepsPipeInv, PTL DEF StreamSpec

LEMMA PipeInvAccounts == PipeInv => ChunksAccountedFor
  <1>1. SUFFICES ASSUME PipeInv PROVE ChunksAccountedFor
    OBVIOUS
  <1> DEFINE firsts == [i \in DOMAIN messages |-> messages[i].chunks]
             batches == Append(firsts, buffer)
  <1>2. /\ messages \in Seq(Sent) /\ Len(messages) \in Nat /\ DOMAIN messages = 1..Len(messages)
        /\ buffer \in Seq(Nat) /\ Batched(messages, buffer, writes) /\ EndsLast /\ writes \in Nat
    BY <1>1, StreamBundleAssumption DEF PipeInv, WriterSound, StreamTypes
  <1>3. \A i \in DOMAIN messages : messages[i].chunks \in Seq(Nat)
    BY <1>2, SentMessage
  <1>4. firsts \in Seq(Seq(Nat)) /\ Len(firsts) = Len(messages)
        /\ \A i \in DOMAIN messages : firsts[i] = messages[i].chunks
    BY <1>2, <1>3
  <1> HIDE DEF firsts
  <1>5. /\ DOMAIN batches = 1..(Len(messages) + 1) /\ batches[Len(messages) + 1] = buffer
        /\ \A i \in DOMAIN messages : batches[i] = messages[i].chunks
    BY <1>2, <1>4
  <1> HIDE DEF batches
  <1>6. \A i \in DOMAIN batches : (i \in DOMAIN messages /\ batches[i] = messages[i].chunks)
                                  \/ (i = Len(messages) + 1 /\ batches[i] = buffer)
    BY <1>2, <1>5
  <1>7. Ascending(batches)
    <2>1. SUFFICES ASSUME NEW i \in DOMAIN batches, NEW j \in DOMAIN batches,
                          NEW k \in DOMAIN batches[i], NEW l \in DOMAIN batches[j],
                          i < j \/ (i = j /\ k < l)
                   PROVE  batches[i][k] < batches[j][l]
      BY DEF Ascending
    <2>2. i \in Nat /\ j \in Nat
      BY <1>2, <1>5
    <2>3. CASE i \in DOMAIN messages /\ batches[i] = messages[i].chunks
      BY <1>2, <1>6, <2>1, <2>3 DEF Batched, Ordered, Chunked
    <2>4. CASE i = Len(messages) + 1 /\ batches[i] = buffer
      <3>1. j = i
        BY <1>2, <1>5, <2>1, <2>2, <2>4
      <3> QED BY <1>2, <2>1, <2>2, <2>4, <3>1 DEF Batched, Ordered
    <2> QED BY <1>6, <2>3, <2>4
  <1>8. UNION {Range(batches[i]) : i \in DOMAIN batches} = 1..writes
    <2>1. ASSUME NEW i \in DOMAIN batches, NEW n \in Range(batches[i]) PROVE n \in 1..writes
      <3>1. PICK k \in DOMAIN batches[i] : n = batches[i][k]
        BY <2>1 DEF Range
      <3>2. CASE i \in DOMAIN messages /\ batches[i] = messages[i].chunks
        <4>1. messages[i].chunks[k] \in Nat /\ i >= 1 /\ i \in Nat
          BY <1>2, <1>3, <3>1, <3>2
        <4> QED BY <1>2, <3>1, <3>2, <4>1 DEF Batched, Within, Chunked
      <3>3. CASE i = Len(messages) + 1 /\ batches[i] = buffer
        <4>1. buffer[k] \in Nat
          BY <1>2, <3>1, <3>3
        <4> QED BY <1>2, <3>1, <3>3, <4>1 DEF Batched, Within
      <3> QED BY <1>6, <3>2, <3>3
    <2>2. ASSUME NEW n \in 1..writes PROVE \E i \in DOMAIN batches : n \in Range(batches[i])
      <3>1. CASE \E l \in DOMAIN buffer : buffer[l] = n
        <4>1. n \in Range(batches[Len(messages) + 1]) /\ Len(messages) + 1 \in DOMAIN batches
          BY <1>2, <1>5, <3>1 DEF Range
        <4> QED BY <4>1
      <3>2. CASE \E i \in DOMAIN messages : \E k \in Chunked(messages[i]) : messages[i].chunks[k] = n
        <4>1. PICK i \in DOMAIN messages : \E k \in Chunked(messages[i]) : messages[i].chunks[k] = n
          BY <3>2
        <4>2. i \in DOMAIN batches /\ n \in Range(batches[i])
          BY <1>2, <1>5, <4>1 DEF Range, Chunked
        <4> QED BY <4>2
      <3> QED BY <1>2, <3>1, <3>2 DEF Batched, AllThere
    <2> QED BY <2>1, <2>2
  <1>9. /\ buffer # <<>> => flushTimer \/ ending = "flights"
        /\ \A i \in DOMAIN messages : messages[i].kind = "end" => i = Len(messages) /\ buffer = <<>>
    <2>1. ASSUME NEW i \in DOMAIN messages, messages[i].kind = "end" PROVE buffer = <<>>
      <3>1. ending \notin {"no", "flights", "flush"}
        BY <1>2, <2>1 DEF EndsLast
      <3> QED BY <1>2, <3>1 DEF EndsLast
    <2> QED BY <1>2, <2>1 DEF EndsLast
  <1> QED BY <1>7, <1>8, <1>9 DEF ChunksAccountedFor, batches, firsts

\* What has been written is in a message or in the buffer, once and in order.
THEOREM EveryChunkAccountedFor == StreamSpec => []ChunksAccountedFor
  BY PipeInvAlways, PipeInvAccounts, PTL

LEMMA YieldedNumbers ==
  ASSUME PipeInv
  PROVE  /\ Yielded \in Seq(Numbers) /\ Yielded = YieldedBy(r)
         /\ \A i \in DOMAIN Yielded : Arrived(Yielded[i]) /\ Yielded[i] \in Nat
         /\ \A i, j \in DOMAIN Yielded : i < j => Yielded[i] < Yielded[j]
  <1>1. r.read \in Seq(Numbers) /\ r.queue \in Seq(Numbers) /\ YieldSound(r)
    BY ReaderFields DEF PipeInv, ReaderSound
  <1>2. Yielded \in Seq(Numbers) /\ Yielded = YieldedBy(r)
    BY <1>1, ConcatProperties DEF Yielded, YieldedBy
  <1>3. \A i \in DOMAIN Yielded : Yielded[i] \in Numbers
    BY <1>2
  <1>4. \A x \in Numbers : x \in Nat
    BY NumbersAreNat
  <1> QED BY <1>1, <1>2, <1>3, <1>4 DEF YieldSound

LEMMA PipeInvOrders == PipeInv => ReadInOrder
  <1>1. SUFFICES ASSUME PipeInv PROVE ReadInOrder
    OBVIOUS
  <1>2. Ordered(messages, buffer) /\ AllMarked
    BY <1>1 DEF PipeInv, WriterSound, Batched
  <1> DEFINE y == Yielded
  <1>3. /\ \A i \in DOMAIN y : y[i] + 1 \in DOMAIN messages /\ y[i] \in Nat
        /\ \A i, j \in DOMAIN y : i < j => y[i] < y[j]
        /\ DOMAIN y \subseteq Nat
    <2>1. DOMAIN y = 1..Len(y)
      BY <1>1, YieldedNumbers
    <2> QED BY <1>1, <2>1, YieldedNumbers DEF Arrived
  <1> HIDE DEF y
  <1>4. Ascending(Chunks(y))
    <2> DEFINE batches == Chunks(y)
    <2>1. DOMAIN batches = DOMAIN y /\ \A i \in DOMAIN y : batches[i] = messages[y[i] + 1].chunks
      BY DEF Chunks
    <2> HIDE DEF batches
    <2>2. SUFFICES ASSUME NEW i \in DOMAIN y, NEW j \in DOMAIN y,
                          NEW k \in DOMAIN batches[i], NEW l \in DOMAIN batches[j],
                          i < j \/ (i = j /\ k < l)
                   PROVE  batches[i][k] < batches[j][l]
      BY <2>1 DEF Ascending, batches
    <2>3. y[i] + 1 < y[j] + 1 \/ (y[i] + 1 = y[j] + 1 /\ k < l)
      BY <1>3, <2>2
    <2> QED BY <1>2, <1>3, <2>1, <2>3 DEF Ordered, Chunked
  <1>5. format = "bytes" =>
          \A i \in DOMAIN messages : \A k \in DOMAIN messages[i].chunks :
             Input[messages[i].chunks[k]] = "binary" => messages[i].encoding = "base64"
    BY <1>2 DEF AllMarked, Marked
  <1> QED BY <1>4, <1>5 DEF ReadInOrder, y

\* The reader yields what was written, in order and none of it twice.
THEOREM AlwaysReadInOrder == StreamSpec => []ReadInOrder
  BY PipeInvAlways, PipeInvOrders, PTL

LEMMA PipeInvInStep == PipeInv => ReaderInStep
  <1>1. SUFFICES ASSUME PipeInv PROVE ReaderInStep
    OBVIOUS
  <1>2. r \in Readers /\ BufferSound(r) /\ YieldSound(r) /\ EndSound(r) /\ GroupsSound(r.groups)
    BY <1>1 DEF PipeInv, ReaderSound
  <1>3. ReaderTypeOK
    BY <1>2 DEF ReaderTypeOK, BufferSound
  <1>4. Reassembled
    <2>1. \A n \in r.buffer \cup Range(Yielded) :
            \A p \in DOMAIN messages[n + 1].parts : <<n + 1, p>> \in wire
      <3>1. \A n \in r.buffer : Arrived(n)
        BY <1>2 DEF BufferSound
      <3>2. \A n \in Range(Yielded) : Arrived(n)
        BY <1>1, YieldedNumbers DEF Range
      <3> QED BY <3>1, <3>2 DEF Arrived
    <2> QED BY <1>2, <2>1 DEF Reassembled, GroupsSound
  <1>5. WaiterIsServed
    BY <1>2 DEF WaiterIsServed, YieldSound, EndSound
  <1> QED BY <1>3, <1>4, <1>5 DEF ReaderInStep

\* The reader's buffer, groups, timer and iterator agree with each other and the channel.
THEOREM ReaderAlwaysInStep == StreamSpec => []ReaderInStep
  BY PipeInvAlways, PipeInvInStep, PTL

================================================================================
