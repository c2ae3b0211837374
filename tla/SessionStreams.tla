---------------------------- MODULE SessionStreams ----------------------------
(* The streams of a session's exchanges: SessionStreams and ExchangeStream, *)
(* which start a client once the exchange has settled and its credentials   *)
(* are known, the ForeignStreamSubscriber each client is, with the queue its *)
(* reader iterates, and the alive lease. One stream has a token that        *)
(* rotates (ConsumerToken), the others are open.                            *)
EXTENDS ConsumerToken, Naturals

CONSTANTS
  Exchanges,
  Rotating   \* the exchange whose stream is in access_manager mode

ASSUME RotatingAssumption == Rotating \in Exchanges

VARIABLES
  over,      \* the session has ended
  following, \* SessionStreams.streams
  settled, hasAnswer, credentials, started,   \* what an ExchangeStream knows
  starting,  \* what exchangeSettled awaits
  decided, told,     \* decided; the session has told it how it ended
  client, connected, \* its ForeignStreamSubscriber, whose queue is closed as it ends
  reader,    \* who iterates it, from the start: waits for the decision, reads, ended, returned
  leased, leaseTimer        \* AliveLease: the clients it knows, its interval

exchangeVars == <<following, settled, hasAnswer, credentials, started, starting, decided>>
ends == <<client, connected>>
lease == <<leased, leaseTimer>>
sessionVars == <<over, told, exchangeVars, ends, reader, lease, tokenVars>>

SessionInit ==
  /\ over = FALSE /\ following = Exchanges
  /\ settled = [x \in Exchanges |-> "no"] /\ hasAnswer = {} /\ credentials = {}
  /\ started = {} /\ starting = [x \in Exchanges |-> "no"]
  /\ decided = {} /\ told = {}
  /\ client = [x \in Exchanges |-> "none"] /\ connected = {}
  /\ reader = [x \in Exchanges |-> "waits"]
  /\ leased = {} /\ leaseTimer = FALSE
  /\ TokenInit

Running(x) == client[x] = "running"

-----------------------------------------------------------------------------
(* What the session learns of an exchange.                                   *)

Answered(x) ==
  /\ x \in following /\ x \notin hasAnswer /\ hasAnswer' = hasAnswer \cup {x}
  /\ credentials' \in {credentials, credentials \cup {x}}
  /\ UNCHANGED <<over, told, following, settled, started, starting, decided, ends, reader,
                 lease, tokenVars>>

\* stream_started precedes the outcome on the channel.
StreamStarted(x) ==
  /\ x \in following \ started /\ settled[x] = "no" /\ started' = started \cup {x}
  /\ UNCHANGED <<over, told, following, settled, hasAnswer, credentials, starting, decided,
                 ends, reader, lease, tokenVars>>

\* credentialsAfterOutcome, up to its first wait.
FirstStep(x, outcome) ==
  IF outcome # "completed" THEN "nothing"
  ELSE IF x \in credentials THEN "credentials"
  ELSE IF x \notin hasAnswer THEN "answer"
  ELSE IF x \notin started THEN "nothing" ELSE "fetch"

\* Dropped a tick late: the exchanges that settle stay followed.
Dropped(xs) == {}

SettleAs(o) ==
  /\ settled' = [x \in Exchanges |-> IF x \in DOMAIN o THEN o[x] ELSE settled[x]]
  /\ starting' = [x \in Exchanges |->
       IF x \in DOMAIN o /\ x \in following THEN FirstStep(x, o[x]) ELSE starting[x]]

Settles(x) ==
  /\ ~over /\ settled[x] = "no"
  /\ \E o \in {"completed", "failed"} : SettleAs([y \in {x} |-> o])
  /\ following' = following \ Dropped({x})
  /\ UNCHANGED <<over, told, hasAnswer, credentials, started, decided, ends, reader, lease,
                 tokenVars>>

\* Mutant of AnswerAwaited: the wait for the answer has no time limit.
AnswerAwaited_Forever(x) ==
  /\ starting[x] = "answer" /\ x \in hasAnswer
  /\ starting' = [starting EXCEPT ![x] =
       IF x \in credentials THEN "credentials" ELSE IF x \notin started THEN "nothing" ELSE "fetch"]
  /\ UNCHANGED <<over, told, following, settled, hasAnswer, credentials, started, decided,
                 ends, reader, lease, tokenVars>>

\* The answer came, its time passed, or the session ended the wait.
AnswerAwaited(x) ==
  /\ starting[x] = "answer"
  /\ starting' = [starting EXCEPT ![x] =
       IF x \in credentials THEN "credentials" ELSE IF x \notin started THEN "nothing" ELSE "fetch"]
  /\ UNCHANGED <<over, told, following, settled, hasAnswer, credentials, started, decided,
                 ends, reader, lease, tokenVars>>

\* The token endpoint answers, within its retries, or fails; a release aborts it.
Fetched(x) ==
  /\ starting[x] = "fetch"
  /\ \E f \in {"credentials", "nothing"} : starting' = [starting EXCEPT ![x] = f]
  /\ UNCHANGED <<over, told, following, settled, hasAnswer, credentials, started, decided,
                 ends, reader, lease, tokenVars>>

\* Mutant of Starts: no second look at the session or the iterator after the wait.
Starts_Anyway(x) == starting[x] = "credentials"

\* startClient, after its wait: not on a session that has ended, nor for an iterator
\* that has returned.
Starts(x) ==
  starting[x] = "credentials" /\ x \notin told /\ reader[x] # "returned"

\* exchangeSettled ends: a client runs or none ever will, and the stream is dropped.
Decides(x) ==
  /\ starting[x] \in {"nothing", "credentials"}
  /\ starting' = [starting EXCEPT ![x] = "done"] /\ decided' = decided \cup {x}
  /\ IF Starts(x)
     THEN /\ client' = [client EXCEPT ![x] = "running"] /\ UNCHANGED following
          /\ IF x = Rotating THEN StartToken ELSE UNCHANGED tokenVars
     ELSE following' = following \ {x} /\ UNCHANGED <<client, tokenVars>>
  /\ UNCHANGED <<over, told, settled, hasAnswer, credentials, started, connected,
                 reader, lease>>

-----------------------------------------------------------------------------
(* A client. Its messages are left out: StreamQueue yields what it holds, then the end. *)

\* Mutant of LeaseWithout: the first client to end stops the interval.
LeaseWithout_StopsAlways(x) == leased' = leased \ {x} /\ leaseTimer' = FALSE

LeaseWithout(x) ==
  /\ leased' = leased \ {x}
  /\ leaseTimer' = (leaseTimer /\ leased \ {x} # {})

\* tearDown, the queue closed, and notifyEnded to the ExchangeStream and the session.
ClientStops(x) ==
  /\ client' = [client EXCEPT ![x] = "ended"] /\ connected' = connected \ {x}
  /\ LeaseWithout(x) /\ following' = following \ {x}

\* The client's transport connects or loses its connection.
ConnectionChanges(x) ==
  /\ Running(x)
  /\ \/ /\ x \notin connected /\ connected' = connected \cup {x}
        /\ leased' = leased \cup {x} /\ leaseTimer' = TRUE
        /\ IF x = Rotating /\ awaiting THEN Reconnected
           ELSE (x = Rotating => ~parked) /\ UNCHANGED tokenVars
     \/ /\ x \in connected /\ connected' = connected \ {x}
        /\ UNCHANGED <<lease, tokenVars>>
  /\ UNCHANGED <<over, told, exchangeVars, client, reader>>

\* A client whose access is gone ends with the cause, and asks the session to close.
Revoking(x) ==
  /\ ClientStops(x)
  /\ UNCHANGED <<over, told, settled, hasAnswer, credentials, started, starting, decided,
                 reader>>

AccessDenied(x) ==
  /\ Running(x)
  /\ IF x # Rotating THEN Revoking(x) /\ UNCHANGED tokenVars
     ELSE /\ Denied
          /\ IF stopped' THEN Revoking(x)
             ELSE connected' = connected \ {x} /\
                  UNCHANGED <<over, told, exchangeVars, client, reader, lease>>

\* A step of the rotation, of which revoke() reaches the client unless it has ended.
Rotates ==
  /\ TokenStep
  /\ IF stopped' /\ Running(Rotating) THEN Revoking(Rotating)
     ELSE UNCHANGED <<over, told, exchangeVars, ends, reader, lease>>

-----------------------------------------------------------------------------
(* Its reader.                                                               *)

\* endWithoutStream, or the client's queue.
ReaderLearnsOf(x) ==
  /\ reader[x] = "waits" /\ x \in decided
  /\ reader' = [reader EXCEPT ![x] = IF client[x] = "none" THEN "ended" ELSE "reads"]
  /\ UNCHANGED <<over, told, exchangeVars, ends, lease, tokenVars>>

\* The queue of a client that has ended ends the iteration.
Reads(x) ==
  /\ reader[x] = "reads" /\ client[x] = "ended" /\ reader' = [reader EXCEPT ![x] = "ended"]
  /\ UNCHANGED <<over, told, exchangeVars, ends, lease, tokenVars>>

Returns(x) ==
  /\ reader[x] \in {"waits", "reads"} /\ reader' = [reader EXCEPT ![x] = "returned"]
  /\ IF Running(x)
     THEN /\ ClientStops(x)
          /\ IF x = Rotating THEN StopToken ELSE UNCHANGED tokenVars
     ELSE UNCHANGED <<following, client, connected, lease, tokenVars>>
  /\ UNCHANGED <<over, told, settled, hasAnswer, credentials, started, starting, decided>>

-----------------------------------------------------------------------------
(* The end of the session.                                                   *)

\* Exchanges not settled settle with it, some from a record of them; the streams that
\* are followed are told, and their clients end.
SessionEnds ==
  LET unsettled == {x \in Exchanges : settled[x] = "no"} IN
  /\ ~over /\ over' = TRUE
  /\ \E o \in [unsettled -> {"completed", "failed"}] : SettleAs(o)
  /\ LET heard == following \ Dropped(unsettled) IN
     /\ told' = told \cup heard
     /\ client' = [x \in Exchanges |-> IF x \in heard /\ Running(x) THEN "ended" ELSE client[x]]
     /\ connected' = connected \ heard /\ decided' = decided \cup heard
     /\ IF Rotating \in heard /\ Running(Rotating) THEN StopToken ELSE UNCHANGED tokenVars
  /\ following' = {} /\ leased' = {} /\ leaseTimer' = FALSE
  /\ UNCHANGED <<hasAnswer, credentials, started, reader>>

-----------------------------------------------------------------------------
SessionNext ==
  \/ \E x \in Exchanges :
       \/ Answered(x) \/ StreamStarted(x) \/ Settles(x) \/ AnswerAwaited(x) \/ Fetched(x)
       \/ Decides(x) \/ ConnectionChanges(x) \/ AccessDenied(x)
       \/ ReaderLearnsOf(x) \/ Reads(x) \/ Returns(x)
  \/ Rotates \/ SessionEnds

SessionSpec == SessionInit /\ [][SessionNext]_sessionVars

\* Waits end, the endpoint answers (a rate limit at some point lifts), and a reader
\* that may go on does.
SessionFairSpec ==
  /\ SessionSpec
  /\ \A x \in Exchanges :
       WF_sessionVars(AnswerAwaited(x) \/ Fetched(x) \/ Decides(x) \/ ReaderLearnsOf(x))
  /\ SF_sessionVars(Rotates /\ (DenialAnswered \/ DenialFails))
  /\ WF_sessionVars(Rotates /\ DenialAsksAgain)

-----------------------------------------------------------------------------
(* Properties.                                                               *)

\* Nothing outlives the session or the reader: no client runs on a session that has
\* ended nor for a reader that has left, whichever wait its start was in, and no timer of
\* the rotation is set once its client has stopped, whichever answer comes late.
NothingOutlives ==
  /\ \A x \in Exchanges : Running(x) => ~over /\ reader[x] # "returned"
  /\ stopped => ~timer /\ denial # "waiting"

\* While a client of the session is connected, its alive beacon goes on.
LeaseHeld == \A x \in connected : Running(x) => leaseTimer

\* A client runs, and the lease with it, exactly as long as its session needs it.
ClientsInStep == NothingOutlives /\ LeaseHeld

\* Who iterates a stream learns what it is once its exchange has settled or the
\* session has ended.
ReaderLearns ==
  \A x \in Exchanges :
    reader[x] = "waits" /\ (settled[x] # "no" \/ over) ~> reader[x] # "waits"

\* A subscription the transport parked on a denial is resumed, or its client ends.
ParkedIsAnswered == parked ~> ~parked
=============================================================================
