---------------------------- MODULE AgentInstance ----------------------------
(* The task runtime of one agent instance: its connection, the admission of *)
(* tasks, their handlers, the control messages that cancel them and the     *)
(* terminal events, around the streams of SharedStreams.                    *)
(*                                                                          *)
(* Cancel, expire and terminate differ only in the wording of the terminal  *)
(* event, which is left out: all abort the handler's signal, or publish the *)
(* terminal for a task whose handler has returned.                          *)
EXTENDS SharedStreams

CONSTANTS
  Concurrency,  \* admission bound; 0 is unlimited
  Wanted,       \* per createStream call, the kinds of stream the handler may ask for
  Canceled,     \* bound: tasks that are cancelled while in flight
  MaxFails      \* bound on failStream calls

ASSUME BoundsAssumption ==
  Concurrency \in Nat /\ Canceled \subseteq Tasks /\ MaxFails \in Nat

VARIABLES
  conn,      \* the connect call: "connecting", "waiting" (rate limited), "up", "stopped"
  phase,     \* where handleControlMessage stands with the task
  pipe,      \* tasks of kind pipe
  aborted,   \* in-flight tasks whose AbortController fired
  creds,     \* CredentialCache
  written,   \* tasks whose failed terminal failStreamImpl has published
  posting,   \* tasks with a publishTerminalImpl under way
  failing,   \* tasks that failStreamImpl has still to tell
  fails      \* failStream calls so far

taskVars == <<conn, phase, pipe, aborted, creds, written, posting, failing, fails>>
vars == <<streamVars, taskVars>>

\* "running" lasts from admission until the artifacts the handler returned are
\* out; "released" until the terminal is published.
Phases == {"new", "running", "released", "over"}

TypeOK ==
  /\ StreamsTypeOK
  /\ conn \in {"connecting", "waiting", "up", "stopped"}
  /\ phase \in [Tasks -> Phases]
  /\ pipe \subseteq Tasks /\ aborted \subseteq Tasks /\ creds \subseteq Tasks
  /\ written \subseteq Tasks /\ posting \subseteq Tasks /\ failing \subseteq Tasks /\ fails \in 0..MaxFails

Init ==
  /\ StreamsInit
  /\ conn = "connecting"
  /\ phase = [t \in Tasks |-> "new"]
  /\ pipe = {} /\ aborted = {} /\ creds = {}
  /\ written = {} /\ posting = {} /\ failing = {} /\ fails = 0

InFlight == {t \in Tasks : phase[t] \in {"running", "released"}}
TotalActive == Cardinality(InFlight) + Cardinality(EmbeddedStreams)

-----------------------------------------------------------------------------
(* Connecting and stopping.                                                  *)

\* connectAgent succeeds or is rate limited. After any other failure, and on an
\* instance whose control client was denied, no control message arrives. An
\* answer behind stop() subscribes to no effect: the listener is gone.
Connected ==
  /\ conn = "connecting"
  /\ conn' \in {"up", "waiting"}
  /\ UNCHANGED <<streamVars, phase, pipe, aborted, creds, written, posting, failing, fails>>

ConnectRetries ==
  /\ conn = "waiting"
  /\ conn' = "connecting"
  /\ UNCHANGED <<streamVars, phase, pipe, aborted, creds, written, posting, failing, fails>>

Stop ==
  /\ conn # "stopped"
  /\ conn' = "stopped"
  /\ ClearStreams
  /\ creds' = {}
  /\ UNCHANGED <<phase, pipe, aborted, written, posting, failing, fails>>

-----------------------------------------------------------------------------
(* StartTask.                                                                *)

\* Admission, up to the first await: a duplicate of a task in flight is ignored
\* before anything else, and the capacity is read in the same turn.
StartTask(t, isPipe) ==
  /\ conn = "up" /\ phase[t] = "new"
  /\ Concurrency = 0 \/ TotalActive < Concurrency
  /\ phase' = [phase EXCEPT ![t] = "running"]
  /\ pipe' = IF isPipe THEN pipe \cup {t} ELSE pipe
  /\ creds' = creds \cup {t}
  /\ UNCHANGED <<streamVars, conn, aborted, written, posting, failing, fails>>

\* A targeted StartTask is refused over capacity, or for its protocol version
\* or its duration, with a failed terminal; the task is never in flight.
RefuseTask(t) ==
  /\ conn = "up" /\ phase[t] = "new"
  /\ phase' = [phase EXCEPT ![t] = "over"]
  /\ UNCHANGED <<streamVars, conn, pipe, aborted, creds, written, posting, failing, fails>>

\* The handler's code calls createStream, and may end what it returned. It need
\* not await the call before it returns. Only a pipe task may use a shared
\* stream or an external one.
HandlerCreates(c) ==
  /\ phase[TaskOf(c)] = "running"
  /\ \E kind \in Wanted[c] :
       /\ kind \in {"shared", "external"} => TaskOf(c) \in pipe
       /\ IF kind = "shared" THEN \E s \in Shared : CreateShared(c, s)
                             ELSE CreateOwn(c, kind = "external")
  /\ UNCHANGED taskVars

StreamStep(c) == (CallSteps(c) \/ EndHandle(c)) /\ UNCHANGED taskVars

\* Mutant of ReturnsToStreams: every task's credentials go when its handler returns.
ReturnsToStreams_Forgets(t) ==
  /\ phase[t] = "running" /\ t \in pipe \ aborted
  /\ phase' = [phase EXCEPT ![t] = "over"]
  /\ creds' = creds \ {t}
  /\ UNCHANGED <<streamVars, conn, pipe, aborted, written, posting, failing, fails>>

\* A pipe task that was not aborted leaves with its streams running and its
\* credentials cached, for a control message to end it.
ReturnsToStreams(t) ==
  /\ phase[t] = "running" /\ t \in pipe \ aborted
  /\ phase' = [phase EXCEPT ![t] = "over"]
  /\ UNCHANGED <<streamVars, conn, pipe, aborted, creds, written, posting, failing, fails>>

\* Any other task releases its streams before it publishes its terminal, and so
\* does one whose handler, client or artifact failed.
ReleasesStreams(t) ==
  /\ phase[t] = "running"
  /\ phase' = [phase EXCEPT ![t] = "released"]
  /\ ReleaseAllStreamsForTask(t)
  /\ UNCHANGED <<calls, conn, pipe, aborted, creds, written, posting, failing, fails>>

\* The terminal goes out and then the credentials go (onError is taken not to
\* throw in between); the rest is the finally.
LeavesWithTerminal(t) ==
  /\ phase[t] = "released"
  /\ phase' = [phase EXCEPT ![t] = "over"]
  /\ aborted' = aborted \ {t}
  /\ creds' = creds \ {t}
  /\ UNCHANGED <<streamVars, conn, pipe, written, posting, failing, fails>>

-----------------------------------------------------------------------------
(* Control messages, and the functions of the handle.                        *)

\* CancelTask, ExpireTask, TerminateTask, or the local duration timer.
AbortInFlight(t) ==
  /\ t \in InFlight \cap Canceled
  /\ aborted' = aborted \cup {t}
  /\ UNCHANGED <<streamVars, conn, phase, pipe, creds, written, posting, failing, fails>>

\* The same messages once the handler has returned, or publishTerminal called
\* by the application: it reads the credentials and publishes, ... (A second one
\* at the same time publishes again and then undoes what is undone already.)
PostTerminal(t) ==
  /\ conn = "up"
  /\ t \notin InFlight /\ t \in creds
  /\ posting' = posting \cup {t}
  /\ UNCHANGED <<streamVars, conn, phase, pipe, aborted, creds, written, failing, fails>>

\* Mutant of PostReleases: publishes and forgets, with the streams left to run.
PostReleases_KeepsStreams(t) ==
  /\ t \in posting
  /\ posting' = posting \ {t}
  /\ creds' = creds \ {t}
  /\ UNCHANGED <<streamVars, conn, phase, pipe, aborted, written, failing, fails>>

\* ... and only then releases the streams and forgets the credentials.
PostReleases(t) ==
  /\ t \in posting
  /\ posting' = posting \ {t}
  /\ ReleaseAllStreamsForTask(t)
  /\ creds' = creds \ {t}
  /\ UNCHANGED <<calls, conn, phase, pipe, aborted, written, failing, fails>>

\* failStream, by the application or because onActivate threw: the entry goes,
\* and its tasks are told one after the other.
FailStream(s) ==
  /\ registry[s] # None /\ fails < MaxFails
  /\ fails' = fails + 1
  /\ failing' = failing \cup entries[registry[s]].refs
  /\ RemoveStream(s)
  /\ UNCHANGED <<conn, phase, pipe, aborted, creds, written, posting>>

FailNextTask(t) ==
  /\ t \in failing
  /\ failing' = failing \ {t}
  /\ creds' = creds \ {t}
  /\ written' = IF t \in creds THEN written \cup {t} ELSE written
  /\ UNCHANGED <<streamVars, conn, phase, pipe, aborted, posting, fails>>

-----------------------------------------------------------------------------
HandlerStep(t) == ReturnsToStreams(t) \/ ReleasesStreams(t) \/ LeavesWithTerminal(t)

Next ==
  \/ Connected
  \/ ConnectRetries
  \/ Stop
  \/ \E t \in Tasks, b \in BOOLEAN : StartTask(t, b)
  \/ \E t \in Tasks : \/ RefuseTask(t)
                     \/ HandlerStep(t)
                     \/ AbortInFlight(t)
                     \/ PostTerminal(t)
                     \/ PostReleases(t)
                     \/ FailNextTask(t)
  \/ \E c \in Calls : HandlerCreates(c) \/ StreamStep(c)
  \/ \E s \in StreamIds : FailStream(s)

Spec == Init /\ [][Next]_vars

-----------------------------------------------------------------------------
(* Properties.                                                               *)

\* What counts against the capacity can be given back: a stream is referenced by
\* a task in flight, or by one that control messages still reach by its cached
\* credentials. Only failStream, which ends a task for the sake of one stream,
\* leaves its other streams referenced.
StreamsAreReachable ==
  conn # "stopped" => \A s \in StreamIds : registry[s] # None =>
    entries[registry[s]].refs \subseteq InFlight \cup creds \cup written

\* The registry that tasks share serves them and lets go of what they leave.
RegistrySound == TypeOK /\ RegistryServes /\ WaitersAreWoken /\ StreamsAreReachable

\* A task leaves only with a terminal published, by itself or by failStream, or
\* with the credentials by which a control message will publish it.
LeavesAccountedFor ==
  [][\A t \in InFlight : phase'[t] = "over" =>
       phase[t] = "released" \/ t \in creds' \cup written' \/ conn = "stopped"]_vars
=============================================================================
