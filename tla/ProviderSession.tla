---------------------------- MODULE ProviderSession ----------------------------
(***************************************************************************)
(* The provider side of one session: sessions/provider-session.ts with its *)
(* receiver, sessions/provider-receiver.ts.  One exchange runs at a time,  *)
(* the others queue; every publish goes through one outbox, in order; the  *)
(* session ends once, by a close, a failure or a backend notice, whichever *)
(* of them gets there first.                                               *)
(*                                                                         *)
(* A handler runs to its next await without interruption, and what waits   *)
(* for a publish runs as soon as the publish settles.  So a step is one    *)
(* outside event with everything that follows from it up to the next wait, *)
(* written as pure functions of the session's state.                       *)
(*                                                                         *)
(* The route hands a session its messages from session_open on.  The seq   *)
(* window drops copies of a message, so each arrival below is a new seq;   *)
(* messages may be lost, or arrive in any order behind session_open.       *)
(* exchange_progress is left out: nobody waits for it, and reportStatus    *)
(* tests `settled` as publishArtifact does.                                *)
(***************************************************************************)
EXTENDS Naturals, Sequences, FiniteSets

CONSTANTS
    Exchanges,      \* the ids of the exchanges the consumer may send
    MaxPending,     \* MAX_PENDING_EXCHANGES
    MaxSettledIds,  \* MAX_SETTLED_EXCHANGE_IDS
    Canceled,       \* bound: the ones it may cancel
    Resent,         \* bound: the ones it may send again
    Window,         \* the exchanges the consumer lets wait for an outcome
    MaxArtifacts,   \* bound: artifacts published in the session
    MaxLog          \* bound: no exchange is received past this many messages

ASSUME ExchangesAssumption == "none" \notin Exchanges
ASSUME BoundsAssumption ==
    /\ Canceled \cup Resent \subseteq Exchanges
    /\ {MaxPending, MaxSettledIds, Window} \subseteq Nat \ {0}
    /\ {MaxArtifacts, MaxLog} \subseteq Nat

Ids == Exchanges \cup {"none"}
TerminalStates == {"closed", "failed"}
OutcomeStates == {"completed", "failed", "canceled", "refused"}

\* A published message; its seq is its place in the log.  A "refused" outcome
\* is the state `failed` with the error session_backpressure.
Message(kind, x, st) == [kind |-> kind, x |-> x, st |-> st]
Messages == [kind : {"ready", "artifact", "outcome", "closed", "failed"},
             x : Ids, st : OutcomeStates \cup {"none"}]

NoRun == [x |-> "none", settled |-> FALSE, aborted |-> FALSE,
          stage |-> "none", left |-> 0, waits |-> 0]
NoCloser == [phase |-> "none", kind |-> "none", lost |-> FALSE]

VARIABLES
    s,          \* the session, see Sessions
    accepted    \* history variable: every exchange queued or refused

vars == <<s, accepted>>

Sessions ==
    [rstate : {"open", "ready", "closing"} \cup TerminalStates, \* receiver.current
     open : {"unopened", "handler", "returned", "threw"},       \* onSessionOpen
     ready : BOOLEAN, deferred : BOOLEAN, ending : BOOLEAN,
     silenced : BOOLEAN, closeHandled : BOOLEAN, finished : BOOLEAN,
     queue : Seq(Exchanges),
     settledIds : Seq(Exchanges),   \* oldest first
     run : [x : Ids, settled : BOOLEAN, aborted : BOOLEAN,      \* current
            stage : {"none", "handler", "artifact", "settling"},
            left : 0..MaxArtifacts,     \* artifacts of the result to publish
            waits : Nat],               \* the publish run() awaits
     closer : [phase : {"none", "settling", "handler", "terminal", "done"},
               kind : {"none", "close", "fail"},
               lost : BOOLEAN],     \* cancelAll saw an outcome undelivered
     closeRun : {"none", "closer", "open", "notice"},   \* who awaits onSessionClose
     log : Seq(Messages),           \* every message sent to the outbox
     done : Nat,                    \* log[1..done] have settled
     attempt : 0..2,                \* the attempt log[done + 1] is at, if any
     okay : SUBSET Nat,             \* the settled ones reported delivered
     recorded : Seq(Nat)]           \* the log entries recorded by checkpoints

-----------------------------------------------------------------------------
(* The outbox.                                                              *)

Settled(p) == p.done = Len(p.log)
InFlight(p) == (p.done + 1)..Len(p.log)
OutcomesInFlight(p) == {i \in InFlight(p) : p.log[i].kind = "outcome"}
RefusalsInFlight(p) == {i \in InFlight(p) : p.log[i].st = "refused"}
Routed(p) == ~p.finished /\ p.open # "unopened"

Record(p, i) == IF p.silenced THEN p ELSE [p EXCEPT !.recorded = Append(@, i)]

\* send, for several messages in a row.  The first starts at once if no
\* publish is under way.
SendAll(p, msgs) ==
    IF p.silenced \/ msgs = <<>> THEN p
    ELSE [p EXCEPT !.log = @ \o msgs, !.attempt = IF @ = 0 THEN 1 ELSE @]

Send(p, m) == SendAll(p, <<m>>)

\* rememberSettled forgets the oldest ids beyond the limit.
LastOf(seq, n) == IF Len(seq) <= n THEN seq ELSE SubSeq(seq, Len(seq) - n + 1, Len(seq))

\* publishOutcome up to its await, for each of xs.
PublishOutcomes(p, xs, st) ==
    SendAll([p EXCEPT !.settledIds = LastOf(@ \o xs, MaxSettledIds)],
            [i \in 1..Len(xs) |-> Message("outcome", xs[i], st)])

PublishOutcome(p, x, st) == PublishOutcomes(p, <<x>>, st)

-----------------------------------------------------------------------------
(* Ending.                                                                  *)

Finish(p) == [p EXCEPT !.finished = TRUE, !.silenced = TRUE]

\* What follows onSessionClose, for each of its callers.
AfterClose(p, who) ==
    CASE who = "open" -> p
      [] who = "notice" -> Finish(p)
      [] who = "closer" ->
           LET kind == IF p.closer.kind = "close" THEN "closed" ELSE "failed"
           IN  IF p.silenced
               THEN Finish([p EXCEPT !.closer.phase = "done"])
               ELSE Send([p EXCEPT !.closer.phase = "terminal"], Message(kind, "none", "none"))

\* runSessionClose: onSessionClose is called once, and only behind a returned
\* onSessionOpen.
RunSessionClose(p, who) ==
    IF p.open # "returned" \/ p.closeHandled
    THEN AfterClose(p, who)
    ELSE [p EXCEPT !.closeHandled = TRUE, !.closeRun = who,
                   !.closer.phase = IF who = "closer" THEN "handler" ELSE @]

\* close and completeFail behind cancelAll, once every outcome has settled.
AfterOutcomes(p) ==
    IF p.closer.phase # "settling" \/ OutcomesInFlight(p) # {} THEN p
    ELSE RunSessionClose([p EXCEPT !.closer.kind = IF p.closer.lost THEN "fail" ELSE @], "closer")

\* cancelAll up to its await.
CancelAll(p) ==
    LET unsettled == p.run.x # "none" /\ ~p.run.settled
        running == IF unsettled THEN <<p.run.x>> ELSE <<>>
        aborted == IF p.run.x = "none" THEN p
                   ELSE [p EXCEPT !.run.aborted = TRUE, !.run.settled = TRUE]
    IN  PublishOutcomes([aborted EXCEPT !.queue = <<>>], running \o p.queue, "canceled")

BeginEnd(p, kind) ==
    AfterOutcomes(CancelAll([p EXCEPT !.ending = TRUE,
                                      !.closer = [phase |-> "settling", kind |-> kind, lost |-> FALSE]]))

\* Mutant of Fail: a deferred close is left to end the session.
Fail_Deferred(p) ==
    IF p.ending \/ p.deferred THEN p
    ELSE BeginEnd([p EXCEPT !.queue = IF p.ready THEN @ ELSE <<>>], "fail")

\* fail: exchanges queued before session_ready are the consumer's to settle.
Fail(p) ==
    IF p.ending THEN p
    ELSE BeginEnd([p EXCEPT !.queue = IF p.ready THEN @ ELSE <<>>], "fail")

\* close: deferred while onSessionOpen runs.
Close(p) ==
    IF p.ending THEN p
    ELSE IF p.open = "handler" THEN [p EXCEPT !.deferred = TRUE]
    ELSE BeginEnd(p, "close")

\* endLocally: nothing is published any more.
EndLocally(p, st) ==
    IF p.silenced THEN p
    ELSE LET q == [p EXCEPT !.ending = TRUE, !.silenced = TRUE, !.queue = <<>>,
                            !.rstate = IF @ \in TerminalStates THEN @ ELSE st,
                            !.run = IF @ = NoRun THEN @
                                    ELSE [@ EXCEPT !.settled = TRUE, !.aborted = TRUE]]
         IN  RunSessionClose(q, "notice")

-----------------------------------------------------------------------------
(* Exchanges.                                                               *)

\* pump: the next exchange starts, once ready and while not ending.
Pump(p) ==
    IF ~p.ready \/ p.ending \/ p.run.x # "none" \/ p.queue = <<>> THEN p
    ELSE [p EXCEPT !.run = [NoRun EXCEPT !.x = Head(p.queue), !.stage = "handler"],
                   !.queue = Tail(@)]

\* run's `finally`.
RunOver(p) == Pump([p EXCEPT !.run = NoRun])

\* settle, as run awaits it.
SettleRun(p, st) ==
    IF p.run.settled THEN RunOver(p)
    ELSE PublishOutcome([p EXCEPT !.run.settled = TRUE, !.run.stage = "settling",
                                  !.run.waits = Len(p.log) + 1], p.run.x, st)

\* The handler, or an artifact publish of its result, threw.
RunThrows(p) == SettleRun(p, IF p.run.aborted THEN "canceled" ELSE "failed")

\* The loop over the result's artifacts.
NextArtifact(p) ==
    IF p.run.aborted THEN SettleRun(p, "canceled")
    ELSE IF p.run.left = 0 THEN SettleRun(p, "completed")
    ELSE Send([p EXCEPT !.run.left = @ - 1, !.run.stage = "artifact", !.run.waits = Len(p.log) + 1],
              Message("artifact", p.run.x, "none"))

\* refuse: one more outcome in the outbox, up to a limit.
Refuse(p, x) ==
    IF Cardinality(RefusalsInFlight(p)) >= MaxPending THEN Fail(p)
    ELSE PublishOutcome(p, x, "refused")

Queued(p, x) == \E i \in 1..Len(p.queue) : p.queue[i] = x

Known(p, x) ==
    \/ p.run.x = x \/ Queued(p, x)
    \/ \E i \in 1..Len(p.settledIds) : p.settledIds[i] = x

Pending(p) == Len(p.queue) + (IF p.run.x = "none" THEN 0 ELSE 1)

Enqueue(p, x) ==
    IF p.ending \/ Known(p, x) THEN p
    ELSE IF Pending(p) >= MaxPending THEN Refuse(p, x)
    ELSE Pump([p EXCEPT !.queue = Append(@, x)])

\* The queue without x, which is in it once.
WithoutQueued(p, x) ==
    LET at == CHOOSE i \in 1..Len(p.queue) : p.queue[i] = x
    IN  [i \in 1..(Len(p.queue) - 1) |-> p.queue[IF i < at THEN i ELSE i + 1]]

\* Mutant of CancelExchange: a queued exchange leaves without an outcome.
CancelExchange_Silent(p, x) ==
    IF p.run.x = x THEN [p EXCEPT !.run.aborted = TRUE]
    ELSE IF Queued(p, x) THEN [p EXCEPT !.queue = WithoutQueued(p, x)] ELSE p

\* cancelExchange: the running one is only aborted; a queued one settles.
CancelExchange(p, x) ==
    IF p.run.x = x THEN [p EXCEPT !.run.aborted = TRUE]
    ELSE IF Queued(p, x)
    THEN PublishOutcome([p EXCEPT !.queue = WithoutQueued(p, x)], x, "canceled")
    ELSE p

-----------------------------------------------------------------------------
(* A publish settles, and what waits for it goes on.                        *)

OnReady(p, i, ok) ==
    IF ok THEN Pump([Record(p, i) EXCEPT !.ready = TRUE]) ELSE Fail(p)

OnArtifact(p, i, ok) ==
    IF p.run.stage # "artifact" \/ p.run.waits # i THEN p
    ELSE IF ok THEN NextArtifact(p) ELSE RunThrows(p)

\* Mutant of OnOutcome: an undelivered outcome is recorded all the same.
OnOutcome_RecordsLost(p, i, ok) ==
    LET noted == Record(p, i)
        over == IF noted.run.stage = "settling" /\ noted.run.waits = i THEN RunOver(noted) ELSE noted
    IN  AfterOutcomes(over)

\* Mutant of OnOutcome: an undelivered outcome stays in outcomesInFlight.
OnOutcome_Stuck(p, i, ok) ==
    LET noted == IF ok THEN Record(p, i) ELSE Fail(p)
        over == IF noted.run.stage = "settling" /\ noted.run.waits = i THEN RunOver(noted) ELSE noted
    IN  IF ok THEN AfterOutcomes(over) ELSE over

\* publishOutcome behind its await, then run, then cancelAll.
OnOutcome(p, i, ok) ==
    LET noted == IF ok THEN Record(p, i)
                 ELSE Fail([p EXCEPT !.closer.lost = (@ \/ p.closer.phase = "settling")])
        over == IF noted.run.stage = "settling" /\ noted.run.waits = i THEN RunOver(noted) ELSE noted
    IN  AfterOutcomes(over)

\* The terminal message is recorded whether or not it was delivered.
OnTerminal(p, i) ==
    Finish([Record(p, i) EXCEPT !.closer.phase = "done",
                                !.rstate = IF @ \in TerminalStates THEN @ ELSE p.log[i].kind])

\* The head of the outbox settles.  The next publish starts with its own test
\* of `silenced`.
SettlePublish(p, ok) ==
    LET i == p.done + 1
        q == [p EXCEPT !.done = i,
                       !.okay = IF ok THEN @ \cup {i} ELSE @,
                       !.attempt = IF i < Len(p.log) /\ ~p.silenced THEN 1 ELSE 0]
    IN  CASE p.log[i].kind = "ready" -> OnReady(q, i, ok)
          [] p.log[i].kind = "artifact" -> OnArtifact(q, i, ok)
          [] p.log[i].kind = "outcome" -> OnOutcome(q, i, ok)
          [] p.log[i].kind \in TerminalStates -> OnTerminal(q, i)

PublishSucceeds ==
    /\ s.attempt > 0
    /\ s' = SettlePublish(s, TRUE)
    /\ UNCHANGED accepted

\* Mutant of PublishFails: the second attempt does not look at `silenced`.
PublishFails_Retries ==
    /\ s.attempt > 0
    /\ s' = IF s.attempt = 1 THEN [s EXCEPT !.attempt = 2] ELSE SettlePublish(s, FALSE)
    /\ UNCHANGED accepted

\* An attempt fails, though the consumer may have got the message.
PublishFails ==
    /\ s.attempt > 0
    /\ s' = IF s.attempt = 1 /\ ~s.silenced THEN [s EXCEPT !.attempt = 2]
            ELSE SettlePublish(s, FALSE)
    /\ UNCHANGED accepted

\* What still waits in the outbox of a silenced session is not published.
PublishDropped ==
    /\ s.attempt = 0 /\ ~Settled(s)
    /\ s' = SettlePublish(s, FALSE)
    /\ UNCHANGED accepted

-----------------------------------------------------------------------------
(* What the consumer and the backend send.                                  *)

\* The exchanges the consumer may still be waiting for: a message on the wire
\* can reach it before the publish call returns.
Unanswered ==
    accepted \ {s.log[i].x : i \in {j \in 1..Len(s.log) :
                    /\ s.log[j].kind = "outcome"
                    /\ j <= s.done \/ (j = s.done + 1 /\ s.attempt > 0)}}

\* An exchange, or one sent again.
ReceiveExchange(x) ==
    /\ Routed(s) /\ s.rstate = "ready"
    /\ Len(s.log) < MaxLog
    /\ IF x \in accepted THEN x \in Resent ELSE Cardinality(Unanswered) < Window
    /\ s' = Enqueue(s, x)
    /\ accepted' = IF s.ending THEN accepted ELSE accepted \cup {x}

ReceiveCancel(x) ==
    /\ x \in Canceled
    /\ Routed(s) /\ s.rstate \notin TerminalStates
    /\ s' = CancelExchange(s, x)
    /\ UNCHANGED accepted

ReceiveClose ==
    /\ Routed(s) /\ s.rstate = "ready"
    /\ s' = Close([s EXCEPT !.rstate = "closing"])
    /\ UNCHANGED accepted

\* The backend's session_closed or session_failed.
ReceiveNotice(st) ==
    /\ Routed(s) /\ s.rstate \notin TerminalStates
    /\ s' = EndLocally([s EXCEPT !.rstate = st], st)
    /\ UNCHANGED accepted

\* The route is lost or the instance stops.
RouteCloses ==
    /\ Routed(s)
    /\ s' = EndLocally(s, "failed")
    /\ UNCHANGED accepted

-----------------------------------------------------------------------------
(* What the application's handlers do.                                      *)

\* ctx.close().
ProviderCloses ==
    /\ Routed(s)
    /\ s' = Close(s)
    /\ UNCHANGED accepted

\* onSessionOpen returns, or there is none.
OpenReturns ==
    /\ s.open = "handler"
    /\ LET p == [s EXCEPT !.open = "returned"]
       IN  s' = IF p.ending THEN RunSessionClose(p, "open")
                ELSE IF p.deferred THEN Close(p)
                ELSE Send(p, Message("ready", "none", "none"))
    /\ UNCHANGED accepted

OpenThrows ==
    /\ s.open = "handler"
    /\ s' = Fail([s EXCEPT !.open = "threw"])
    /\ UNCHANGED accepted

\* SESSION_OPEN_TIMEOUT_MS has passed and onSessionOpen still runs.
OpenTimesOut ==
    /\ s.open = "handler" /\ ~s.finished
    /\ s' = Fail(s)
    /\ UNCHANGED accepted

ArtifactsSent == {i \in 1..Len(s.log) : s.log[i].kind = "artifact"}

\* Mutant of HandlerPublishes: `settled` is not tested.
HandlerPublishes_Settled ==
    /\ s.run.stage \in {"handler", "artifact", "settling"}
    /\ Cardinality(ArtifactsSent) + s.run.left < MaxArtifacts
    /\ s' = Send(s, Message("artifact", s.run.x, "none"))
    /\ UNCHANGED accepted

\* publishArtifact from the exchange's context, which the handler may keep
\* beyond its return.
HandlerPublishes ==
    /\ s.run.stage \in {"handler", "artifact"} /\ ~s.run.settled
    /\ Cardinality(ArtifactsSent) + s.run.left < MaxArtifacts
    /\ s' = Send(s, Message("artifact", s.run.x, "none"))
    /\ UNCHANGED accepted

\* onExchange returns a result with n artifacts.
HandlerReturns(n) ==
    /\ s.run.stage = "handler"
    /\ Cardinality(ArtifactsSent) + n <= MaxArtifacts
    /\ s' = NextArtifact([s EXCEPT !.run.left = n])
    /\ UNCHANGED accepted

HandlerThrows ==
    /\ s.run.stage = "handler"
    /\ s' = RunThrows(s)
    /\ UNCHANGED accepted

\* onSessionClose returns or throws.
CloseHandlerReturns ==
    /\ s.closeRun # "none"
    /\ s' = AfterClose([s EXCEPT !.closeRun = "none"], s.closeRun)
    /\ UNCHANGED accepted

-----------------------------------------------------------------------------
NewSession ==
    [rstate |-> "open", open |-> "unopened", ready |-> FALSE, deferred |-> FALSE,
     ending |-> FALSE, silenced |-> FALSE, closeHandled |-> FALSE, finished |-> FALSE,
     queue |-> <<>>, settledIds |-> <<>>, run |-> NoRun, closer |-> NoCloser,
     closeRun |-> "none", log |-> <<>>, done |-> 0, attempt |-> 0, okay |-> {},
     recorded |-> <<>>]

\* A session turned away at capacity, or one that has just received its
\* session_open, with or without an exchange.
Init ==
    \/ s = Fail(NewSession) /\ accepted = {}
    \/ LET opened == [NewSession EXCEPT !.rstate = "ready", !.open = "handler"]
       IN  \/ s = opened /\ accepted = {}
           \/ \E x \in Exchanges : s = Enqueue(opened, x) /\ accepted = {x}

Publishing == PublishSucceeds \/ PublishFails \/ PublishDropped

Next ==
    \/ PublishSucceeds \/ PublishFails \/ PublishDropped
    \/ \E x \in Exchanges : ReceiveExchange(x) \/ ReceiveCancel(x)
    \/ ReceiveClose
    \/ \E st \in TerminalStates : ReceiveNotice(st)
    \/ RouteCloses
    \/ ProviderCloses
    \/ OpenReturns \/ OpenThrows \/ OpenTimesOut
    \/ HandlerPublishes
    \/ \E n \in 0..MaxArtifacts : HandlerReturns(n)
    \/ HandlerThrows
    \/ CloseHandlerReturns

Spec == Init /\ [][Next]_vars

\* A publish settles (the client has a request timeout), the open timer fires,
\* and onSessionClose returns: the application's part, which no timer backs.
\* Nothing is assumed of onSessionOpen, of onExchange or of the consumer.
Fairness ==
    /\ WF_vars(Publishing)
    /\ WF_vars(OpenTimesOut)
    /\ WF_vars(CloseHandlerReturns)

FairSpec == Spec /\ Fairness

-----------------------------------------------------------------------------
Indices == 1..Len(s.log)
IsOutcome(i) == s.log[i].kind = "outcome"
IsTerminal(i) == s.log[i].kind \in TerminalStates

\* The type invariant.
TypeOK ==
    /\ s \in Sessions
    /\ accepted \subseteq Exchanges
    /\ s.done <= Len(s.log)
    /\ s.attempt > 0 => ~Settled(s)

\* What ConsumerReceiver assumes of a provider: nothing follows the terminal
\* message, and nothing of an exchange follows its outcome, but for an
\* exchange re-sent after MaxSettledIds others have settled.
ConformingLog ==
    \A i, j \in Indices : i < j =>
        /\ ~IsTerminal(i)
        /\ IsOutcome(i) /\ s.log[j].x = s.log[i].x
           => Cardinality({k \in (i + 1)..j : IsOutcome(k) /\ s.log[k].x # s.log[i].x}) >= MaxSettledIds

\* The record follows the channel: in its order, no outcome the consumer was
\* not sent, and a recorded close has every outcome before it.
RecordFollowsChannel ==
    LET r == s.recorded IN
    /\ \A a, b \in 1..Len(r) : a < b => r[a] < r[b]
    /\ \A a \in 1..Len(r) : r[a] \in s.okay \/ IsTerminal(r[a])
    /\ \A a \in 1..Len(r) : s.log[r[a]].kind = "closed" =>
         \A i \in Indices : IsOutcome(i) => \E b \in 1..a : r[b] = i

\* Unless the session is failing before it was ready, every exchange taken in
\* and not yet settled is queued or running: none is dropped on the way.
NoExchangeDropped ==
    ~s.ending => \A x \in accepted :
        \/ s.run.x = x \/ Queued(s, x)
        \/ \E i \in Indices : IsOutcome(i) /\ s.log[i].x = x

\* What the channel and the record tell of a session is true and complete.
ToldTrue == TypeOK /\ ConformingLog /\ RecordFollowsChannel /\ NoExchangeDropped

\* Once silenced by a notice or a lost route, the session starts no publish,
\* not even a retry, and records nothing more.
SilencedIsSilent ==
    [][s.silenced => /\ s'.log = s.log
                     /\ s'.attempt \in {0, s.attempt}
                     /\ s'.attempt # 0 => s'.done = s.done
                     /\ s'.recorded = s.recorded]_vars

\* A session that is ending finishes, whatever its exchange handler does, and a
\* close the consumer asked for ends it, even if that has to wait for an
\* onSessionOpen that never returns.
EndIsReached == s.ending \/ s.rstate = "closing" ~> s.finished

=============================================================================
