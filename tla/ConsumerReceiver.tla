--------------------------- MODULE ConsumerReceiver ---------------------------
(***************************************************************************)
(* The consumer side of one session channel: sessions/consumer-receiver.ts *)
(* with the recovery of sessions/session.ts that drives it.  The receive   *)
(* queue is InOrderDelivery; its callback is Dispatch.                     *)
(*                                                                         *)
(* The environment is the session channel, its history and the backend's   *)
(* record.  The provider publishes the messages of `log` in seq order.  A  *)
(* message sent may be delivered live at any time, in any order, any       *)
(* number of times, or never.  History answers with any part of what was   *)
(* sent since the replay point, so a publish that failed for good is a     *)
(* seq nobody ever delivers.  The snapshot read fails, or answers with any *)
(* outcomes of exchanges already sent and any session state: the record    *)
(* may lag behind the channel, or run ahead of it when an exchange is      *)
(* answered over HTTPS or the backend ends the session itself.             *)
(*                                                                         *)
(* A handler runs to its next await without interruption.  Handlers that   *)
(* call back between state changes are sequences of steps here, and no     *)
(* other handler runs until such a sequence ends (Quiet).                  *)
(***************************************************************************)
EXTENDS Naturals, Sequences

CONSTANTS
    MaxSeq,     \* the highest seq the provider uses
    Exchanges,  \* the ids of the exchanges the consumer may send
    Logs,       \* the logs a provider may publish, one message per seq
    MaxAsked    \* bound: recoveries asked for by a reconnect or the application

TerminalStates == {"closed", "failed", "canceled"}
TerminalKinds == {"closed", "failed"}  \* session_closed and session_failed
States == {"open", "ready", "closing"} \cup TerminalStates
OutcomeStates == {"completed", "failed", "canceled"}
Seqs == 1..MaxSeq

\* A counterpart message.  "file" and "inline" are exchange_artifact messages:
\* the backend's record names the first kind only.  `x` is "none" for session_ready
\* and the terminal messages, `st` is the state of an exchange_outcome.
Messages ==
    [kind : {"ready", "closed", "failed"}, x : {"none"}, st : {"none"}]
    \cup [kind : {"progress", "file", "inline"}, x : Exchanges, st : {"none"}]
    \cup [kind : {"outcome"}, x : Exchanges, st : OutcomeStates]

\* The provider publishes an exchange's outcome once, after its artifacts, and
\* nothing after the terminal message (provider-session.ts).
Conforms(l) ==
    \A i, j \in Seqs :
        i < j => /\ l[i].kind \notin TerminalKinds
                 /\ l[i].kind = "outcome" => l[j].x # l[i].x

ASSUME MaxSeqAssumption == MaxSeq \in Nat
ASSUME MaxAskedAssumption == MaxAsked \in Nat
ASSUME ExchangesAssumption == "none" \notin Exchanges
ASSUME LogsAssumption == \A l \in Logs : l \in [Seqs -> Messages] /\ Conforms(l)

VARIABLES
    \* the receive queue, InOrderDelivery
    next, held, replayed, timer, gapRuns, disposed, loop, delivered, out,
    \* the environment
    log,        \* what the provider publishes, fixed
    sent,       \* the provider has published log[1..sent]
    \* the receiver
    rx,         \* state, unsettled, artifacts, recordedLater, outcomes
    tracked,    \* every exchange ever tracked
    stage,      \* how far the open recovery has come
    cutoff,     \* recovery.cutoffs: the highest held seq recovery must close
    deferred,   \* recovery.deferred: the first terminal message deferred
    snap,       \* recovery.record: the snapshot the recovery finishes with
    localEnd,   \* recovery.localEnd: the first local end asked for
    \* the session's recovery
    replayPoint, \* lastTimetoken, as the highest seq published by then
    noting,     \* the accepted seq whose timetoken is noted when its loop ends
    fetchFrom,  \* replayFrom: the replay point when the recovery began
    sentThen,   \* history variable: `sent` when the recovery began
    todo,       \* the history still to be replayed
    chain,      \* the recover() calls queued, the first one running
    gapDone,    \* the running recoverGap's recover() has settled
    asked,      \* how many recoveries were asked for from outside
    missed      \* history variable: seqs a history answer should have held

queueVars == <<next, held, replayed, timer, gapRuns, disposed, loop, delivered, out>>
envVars == <<log, sent>>
recoveryVars == <<stage, cutoff, deferred, snap, localEnd>>
sessionVars == <<replayPoint, noting, fetchFrom, sentThen, todo, chain, gapDone, asked, missed>>
vars == <<queueVars, envVars, rx, tracked, recoveryVars, sessionVars>>

Queue == INSTANCE InOrderDelivery

NoOutcome == [st |-> "none", arts |-> {}, by |-> "none"]
NoSnapshot == [exchanges |-> {}, st |-> "none"]

Terminal(r) == r.state \in TerminalStates
Idle == Queue!Idle

\* this.recovery is set: terminal messages are deferred.
RecoveryOpen == stage \in {"history", "replay", "snapshot", "skip"}
\* this.finishing is set.
Finishing == stage \in {"skip", "deferred", "state", "localEnd"}

\* The event loop is free to run the handler of an outside event.
Quiet == Idle /\ ~gapDone /\ stage \in {"none", "history", "snapshot"}

-----------------------------------------------------------------------------
(* The receiver's data: pure functions of `rx`.                             *)

IsArtifact(s) == log[s].kind \in {"file", "inline"}
ArtifactsOf(x, S) == {s \in S : IsArtifact(s) /\ log[s].x = x}

\* What the backend's record holds of an exchange: its state, and the file
\* refs among its artifacts.  An exchange whose outcome is not in the log was
\* answered over HTTPS, or its provider stopped once the outcome was recorded.
RecordedRefs(x) == {s \in Seqs : log[s].kind = "file" /\ log[s].x = x}
RecordedOutcome(x) ==
    LET outcomes == {s \in Seqs : log[s].kind = "outcome" /\ log[s].x = x}
    IN  IF outcomes = {} THEN "completed" ELSE log[CHOOSE s \in outcomes : TRUE].st

\* settle: the exchange leaves both maps and its outcome is reported.
Settle(r, x, st, arts, by) ==
    [r EXCEPT !.unsettled = @ \ {x},
              !.later = @ \ {x},
              !.outcome[x] = [st |-> st, arts |-> arts, by |-> by]]

\* settleFromRecord, with mergeArtifacts.
SettleFromRecord(r, x) ==
    Settle(r, x, RecordedOutcome(x), r.arts[x] \cup RecordedRefs(x), "record")

\* onArtifact: an artifact of an exchange still unsettled is kept with it.
TakeArtifact(r, s) ==
    IF log[s].x \in r.unsettled THEN [r EXCEPT !.arts[log[s].x] = @ \cup {s}] ELSE r

\* onOutcome: the recorded file refs are merged in when the record is known.
TakeOutcome(r, s) ==
    LET x == log[s].x
        recorded == x \in r.later \/ (stage = "skip" /\ x \in snap.exchanges)
        refs == IF recorded THEN RecordedRefs(x) ELSE {}
    IN  IF x \in r.unsettled
        THEN Settle(r, x, log[s].st, r.arts[x] \cup refs, "message")
        ELSE r

\* Mutant of End: an exchange waiting for its recorded outcome is left waiting.
End_LeavesLater(r, st, behind) ==
    IF Terminal(r) THEN r
    ELSE
    LET mine(x) == [st |-> IF st = "failed" THEN "failed" ELSE "canceled",
                    arts |-> r.arts[x] \cup ArtifactsOf(x, behind), by |-> "end"]
    IN  [r EXCEPT !.state = st,
                  !.unsettled = r.later,
                  !.outcome = [x \in Exchanges |->
                                 IF x \in r.unsettled \ r.later THEN mine(x) ELSE @[x]]]

\* end: artifacts held behind a gap stay with their exchange, held outcomes
\* are dropped, and every unsettled exchange settles: from the record if its
\* recorded outcome was waiting, and otherwise as the end implies.
End(r, st, behind) ==
    IF Terminal(r) THEN r
    ELSE
    LET kept == [x \in Exchanges |-> r.arts[x] \cup
                   (IF x \in r.unsettled THEN ArtifactsOf(x, behind) ELSE {})]
        mine(x) ==
            IF x \in r.later
            THEN [st |-> RecordedOutcome(x), arts |-> kept[x] \cup RecordedRefs(x), by |-> "record"]
            ELSE [st |-> IF st = "failed" THEN "failed" ELSE "canceled", arts |-> kept[x], by |-> "end"]
    IN  [r EXCEPT !.state = st,
                  !.arts = kept,
                  !.unsettled = {},
                  !.later = {},
                  !.outcome = [x \in Exchanges |-> IF x \in r.unsettled THEN mine(x) ELSE @[x]]]

\* Mutant of SettleIfReleased: the release of held messages settles nothing.
SettleIfReleased_Never(r, x, behind) == r

\* settleRecordedIfReleased: a recorded outcome waits while any message of
\* its exchange is held.
SettleIfReleased(r, x, behind) ==
    IF /\ x \in r.later
       /\ \A h \in behind : log[h].x # x
       /\ x \in r.unsettled
    THEN SettleFromRecord(r, x)
    ELSE r

\* apply: what one message does; `behind` is what the queue still holds.
Apply(r, s, behind) ==
    CASE log[s].kind = "ready" ->
           IF r.state = "open" THEN [r EXCEPT !.state = "ready"] ELSE r
      [] log[s].kind = "progress" -> r
      [] log[s].kind \in {"file", "inline"} -> TakeArtifact(r, s)
      [] log[s].kind = "outcome" -> TakeOutcome(r, s)
      [] log[s].kind \in TerminalKinds -> End(r, log[s].kind, behind)

Defers(s) == RecoveryOpen /\ log[s].kind \in TerminalKinds

\* dispatch, the queue's callback.
Dispatch(r, s, behind) ==
    IF Terminal(r) \/ Defers(s) THEN r
    ELSE SettleIfReleased(Apply(r, s, behind), log[s].x, behind)

\* Mutant of ApplyRecordedOutcomes: a held artifact does not delay settlement.
ApplyRecordedOutcomes_Now(r, recorded, behind) ==
    LET mine == recorded \cap r.unsettled
    IN  [r EXCEPT !.unsettled = @ \ mine,
                  !.later = @ \ mine,
                  !.outcome = [x \in Exchanges |-> IF x \in mine
                                 THEN [st |-> RecordedOutcome(x),
                                       arts |-> r.arts[x] \cup RecordedRefs(x), by |-> "record"]
                                 ELSE @[x]]]

\* applyRecordedOutcomes: at once, or once the exchange's held messages are released.
ApplyRecordedOutcomes(r, recorded, behind) ==
    LET mine == recorded \cap r.unsettled
        waiting == {x \in mine : \E h \in behind : log[h].x = x}
        now == mine \ waiting
    IN  [r EXCEPT !.unsettled = @ \ now,
                  !.later = (@ \cup waiting) \ now,
                  !.outcome = [x \in Exchanges |-> IF x \in now
                                 THEN [st |-> RecordedOutcome(x),
                                       arts |-> r.arts[x] \cup RecordedRefs(x), by |-> "record"]
                                 ELSE @[x]]]

\* applyRecordedState.
ApplyRecordedState(r, st, behind) ==
    IF st \in TerminalStates THEN End(r, st, behind)
    ELSE IF st = "ready" /\ r.state = "open" THEN [r EXCEPT !.state = "ready"]
    ELSE r

-----------------------------------------------------------------------------
(* Joining the queue to the receiver.                                       *)

\* The message a queue step hands over, if any, is dispatched; the receiver
\* disposes the queue exactly when it reaches a terminal state.
DispatchOut ==
    /\ IF out' = 0
       THEN UNCHANGED <<rx, deferred>>
       ELSE /\ rx' = Dispatch(rx, out', held \ {out'})
            /\ deferred' = IF ~Terminal(rx) /\ Defers(out') /\ deferred = "none"
                           THEN log[out'].kind ELSE deferred
    /\ disposed' = Terminal(rx')

\* Mutant of DisposeOnEnd: the queue is emptied but its timer left running.
DisposeOnEnd_KeepsTimer ==
    IF Terminal(rx') /\ ~disposed
    THEN /\ held' = {} /\ replayed' = {} /\ disposed' = TRUE /\ out' = 0
         /\ UNCHANGED <<next, timer, gapRuns, loop, delivered>>
    ELSE UNCHANGED queueVars

\* An end outside the queue's callbacks: dispose() if the receiver ended.
DisposeOnEnd ==
    IF Terminal(rx') /\ ~disposed THEN Queue!Dispose ELSE UNCHANGED queueVars

-----------------------------------------------------------------------------
(* The environment.                                                         *)

\* The provider publishes its next message; an exchange's messages follow
\* the exchange.  What it publishes once the session has ended is not seen.
Publish ==
    /\ ~Terminal(rx)
    /\ sent < MaxSeq
    /\ log[sent + 1].x \in tracked \cup {"none"}
    /\ sent' = sent + 1
    /\ UNCHANGED <<queueVars, log, rx, tracked, recoveryVars, sessionVars>>

\* The snapshot: the backend's record, or a read that failed.  `closing` in the
\* record changes nothing, as `open` does, and is left out.
Snapshots == [exchanges : SUBSET tracked, st : States \ {"closing"}] \cup {NoSnapshot}

-----------------------------------------------------------------------------
(* Exchanges.                                                               *)

\* ClientSession.send and the exchange of an open: admitted while the session
\* is not ending.
TrackExchange(x) ==
    /\ Quiet
    /\ x \notin tracked
    /\ rx.state \in {"open", "ready"} /\ localEnd = "none"
    /\ tracked' = tracked \cup {x}
    /\ rx' = [rx EXCEPT !.unsettled = @ \cup {x}]
    /\ UNCHANGED <<queueVars, envVars, recoveryVars, sessionVars>>

\* The exchange's own publish failed: forgetExchange, and the session settles
\* it `failed` with no artifacts, whatever the provider may still have got.
ForgetExchange(x) ==
    /\ Quiet
    /\ x \in rx.unsettled
    /\ rx' = Settle(rx, x, "failed", {}, "unsent")
    /\ UNCHANGED <<queueVars, envVars, tracked, recoveryVars, sessionVars>>

-----------------------------------------------------------------------------
(* Receiving.                                                               *)

\* Mutant of Noted: the replay point moves although a gap is open.
Noted_DespiteGap(s, behind) == IF s > replayPoint THEN s ELSE replayPoint

\* ClientSession.receive after the receiver returned, noteTimetoken: an
\* accepted message moves the replay point, if no gap is open by then.
Noted(s, behind) == IF behind = {} /\ s > replayPoint THEN s ELSE replayPoint

\* ClientSession.receive of a message the queue does not refuse; its release
\* loop, if any, runs before the timetoken is noted.
Receive(s, isReplay) ==
    /\ Queue!Accept(s, isReplay)
    /\ DispatchOut
    /\ noting' = IF Idle' THEN 0 ELSE s
    /\ replayPoint' = IF Idle' /\ s \notin held THEN Noted(s, held') ELSE replayPoint

ReceiveLive(s) ==
    /\ Quiet /\ ~Terminal(rx)
    /\ s <= sent
    /\ Receive(s, FALSE)
    /\ UNCHANGED <<envVars, tracked, stage, cutoff, snap, localEnd,
                   fetchFrom, sentThen, todo, chain, gapDone, asked, missed>>

\* One iteration of a release loop, or its end.
QueueLoop ==
    /\ Queue!Loop
    /\ DispatchOut
    /\ noting' = IF Idle' THEN 0 ELSE noting
    /\ replayPoint' = IF Idle' /\ loop.by = "accept" THEN Noted(noting, held') ELSE replayPoint
    /\ UNCHANGED <<envVars, tracked, stage, cutoff, snap, localEnd,
                   fetchFrom, sentThen, todo, chain, gapDone, asked, missed>>

\* A terminal notice from the backend, which carries no seq.
ReceiveNotice(st) ==
    /\ ~Terminal(rx)
    /\ \/ Quiet
       \/ Idle /\ stage = "replay"
    /\ IF RecoveryOpen
       THEN /\ deferred' = IF deferred = "none" THEN st ELSE deferred
            /\ UNCHANGED <<rx, queueVars>>
       ELSE /\ rx' = End(rx, st, held)
            /\ DisposeOnEnd
            /\ UNCHANGED deferred
    /\ UNCHANGED <<envVars, tracked, stage, cutoff, snap, localEnd, sessionVars>>

-----------------------------------------------------------------------------
(* Recovery: ClientSession.recover, recoverOnce and the receiver's side.    *)

\* A reconnect, a managed exchange's answer or the application.
AskRecovery ==
    /\ Quiet /\ ~Terminal(rx)
    /\ asked < MaxAsked
    /\ asked' = asked + 1
    /\ chain' = Append(chain, "asked")
    /\ UNCHANGED <<queueVars, envVars, rx, tracked, recoveryVars, replayPoint, noting,
                   fetchFrom, sentThen, todo, gapDone, missed>>

\* The gap timer: the queue runs its recoveries one at a time, and each one
\* joins the session's own chain.
GapTimerFires ==
    /\ Quiet
    /\ Queue!GapTimerFires
    /\ chain' = IF gapRuns = <<>> THEN Append(chain, "gap") ELSE chain
    /\ UNCHANGED <<envVars, rx, tracked, recoveryVars, replayPoint, noting,
                   fetchFrom, sentThen, todo, gapDone, asked, missed>>

\* recoverGap resumes, and the queue's next recovery, if any, is asked for.
\* Its release loop runs at once, whatever stage the session's chain is at.
GapRecovered ==
    /\ gapDone
    /\ Queue!GapRecovered
    /\ gapDone' = FALSE
    /\ chain' = IF Len(gapRuns) > 1 THEN Append(chain, "gap") ELSE chain
    /\ UNCHANGED <<envVars, rx, tracked, recoveryVars, replayPoint, noting,
                   fetchFrom, sentThen, todo, asked, missed>>

ChainPops ==
    /\ chain' = Tail(chain)
    /\ gapDone' = (gapDone \/ Head(chain) = "gap")

\* recoverOnce up to its first await.  The next call in the chain may start
\* before a recoverGap that the last one served resumes.
BeginRecovery ==
    /\ Idle
    /\ stage = "none"
    /\ chain # <<>>
    /\ ~(gapDone /\ Head(chain) = "gap")
    /\ \/ /\ Terminal(rx)
          /\ ChainPops
          /\ UNCHANGED <<recoveryVars, fetchFrom, sentThen>>
       \/ /\ ~Terminal(rx)
          /\ stage' = "history"
          /\ cutoff' \in 0..MaxSeq
          /\ IF held = {} THEN cutoff' = 0 ELSE Queue!IsMax(cutoff', held)
          /\ deferred' = "none"
          /\ fetchFrom' = replayPoint
          /\ sentThen' = sent
          /\ UNCHANGED <<snap, localEnd, chain, gapDone>>
    /\ UNCHANGED <<queueVars, envVars, rx, tracked, replayPoint, noting, todo, asked, missed>>

\* The history answer: any part of what was published from the replay point
\* on; a fetch that fails or times out is an empty answer.  What a full answer
\* would have held, up to the recovery's start or the last message it did
\* hold, is missed.
HistoryAnswers(answer) ==
    /\ Quiet /\ stage = "history"
    /\ answer \subseteq {s \in Seqs : s >= fetchFrom /\ s <= sent}
    /\ todo' = answer
    /\ missed' = (missed \cup
         {s \in (fetchFrom + 1)..MaxSeq :
            s \notin answer /\ (s <= sentThen \/ \E a \in answer : s < a)}) \ delivered
    /\ stage' = "replay"
    /\ fetchFrom' = 0 /\ sentThen' = 0      \* not read again
    /\ UNCHANGED <<queueVars, envVars, rx, tracked, cutoff, deferred, snap, localEnd,
                   replayPoint, noting, chain, gapDone, asked>>

\* replayHistory: the messages are received oldest first, with no await between.
ReplayNext ==
    /\ Idle /\ stage = "replay"
    /\ \E s \in todo :
         /\ Queue!IsMin(s, todo)
         /\ todo' = todo \ {s}
         /\ IF Queue!Accepts(s) \/ s \in held \ replayed
            THEN Receive(s, TRUE)
            ELSE UNCHANGED <<queueVars, rx, deferred, noting, replayPoint>>
    /\ UNCHANGED <<envVars, tracked, stage, cutoff, snap, localEnd, fetchFrom, sentThen, chain, gapDone, asked, missed>>

\* historyReplayed, once the replay is through: the gaps it revealed are
\* closed too.  The snapshot read starts.
HistoryReplayed ==
    /\ Idle /\ stage = "replay" /\ todo = {}
    /\ cutoff' \in 0..MaxSeq
    /\ IF replayed = {} THEN cutoff' = cutoff
       ELSE \E top \in replayed :
              /\ Queue!IsMax(top, replayed)
              /\ cutoff' = IF top > cutoff THEN top ELSE cutoff
    /\ stage' = "snapshot"
    /\ UNCHANGED <<queueVars, envVars, rx, tracked, deferred, snap, localEnd, sessionVars>>

SnapshotEnds(answer) == answer.st \in TerminalStates

\* Mutant of FinishRecovery: every gap is closed, whatever the recovery asked for.
FinishRecovery_AllHeld(answer) ==
    /\ snap' = answer
    /\ stage' = "skip"
    /\ IF held # {} THEN Queue!SkipThrough(MaxSeq) ELSE UNCHANGED queueVars

\* finishRecovery up to its release loop: a session about to end releases
\* everything it holds, and otherwise the recovery's own gaps are closed.
FinishRecovery(answer) ==
    LET ending == deferred # "none" \/ SnapshotEnds(answer)
        through == IF ending THEN MaxSeq ELSE cutoff
    IN  /\ snap' = answer
        /\ stage' = "skip"
        /\ IF \E h \in held : h <= through
           THEN Queue!SkipThrough(through)
           ELSE UNCHANGED queueVars

\* The snapshot answers with the backend's record, or fails.
SnapshotAnswers ==
    /\ Quiet /\ stage = "snapshot"
    /\ \E answer \in Snapshots : FinishRecovery(answer)
    /\ UNCHANGED <<envVars, rx, tracked, cutoff, deferred, localEnd, sessionVars>>

\* The gaps are skipped: the recovery closes, and the recorded outcomes apply.
ApplyOutcomes ==
    /\ Idle /\ stage = "skip"
    /\ stage' = "deferred"
    /\ rx' = ApplyRecordedOutcomes(rx, snap.exchanges, held)
    /\ UNCHANGED <<queueVars, envVars, tracked, cutoff, deferred, snap, localEnd, sessionVars>>

\* Mutant of ApplyDeferred: the deferred terminal message is dropped.
ApplyDeferred_Dropped ==
    /\ stage = "deferred"
    /\ stage' = "state"
    /\ UNCHANGED <<rx, queueVars>>
    /\ UNCHANGED <<envVars, tracked, cutoff, deferred, snap, localEnd, sessionVars>>

\* The deferred terminal message is dispatched; any later one finds the
\* session ended.
ApplyDeferred ==
    /\ stage = "deferred"
    /\ stage' = "state"
    /\ rx' = IF deferred = "none" THEN rx ELSE End(rx, deferred, held)
    /\ DisposeOnEnd
    /\ UNCHANGED <<envVars, tracked, cutoff, deferred, snap, localEnd, sessionVars>>

ApplyState ==
    /\ stage = "state"
    /\ stage' = "localEnd"
    /\ rx' = ApplyRecordedState(rx, snap.st, held)
    /\ DisposeOnEnd
    /\ UNCHANGED <<envVars, tracked, cutoff, deferred, snap, localEnd, sessionVars>>

\* Mutant of ApplyLocalEnd: the local end asked for meanwhile is forgotten.
ApplyLocalEnd_Forgotten ==
    /\ stage = "localEnd"
    /\ stage' = "none"
    /\ ChainPops
    /\ snap' = NoSnapshot /\ cutoff' = 0 /\ deferred' = "none"
    /\ UNCHANGED <<rx, queueVars>>
    /\ UNCHANGED <<envVars, tracked, localEnd, replayPoint, noting, fetchFrom, sentThen,
                   todo, asked, missed>>

\* The local end applies last, and the recovery's place in the chain is free.
ApplyLocalEnd ==
    /\ stage = "localEnd"
    /\ stage' = "none"
    /\ rx' = IF localEnd = "none" THEN rx ELSE End(rx, localEnd, held)
    /\ DisposeOnEnd
    /\ ChainPops
    /\ snap' = NoSnapshot /\ cutoff' = 0 /\ deferred' = "none"
    /\ UNCHANGED <<envVars, tracked, localEnd, replayPoint, noting, fetchFrom, sentThen,
                   todo, asked, missed>>

-----------------------------------------------------------------------------
(* Local ends.                                                              *)

\* runClose enters closing and publishes session_close.
BeginClosing ==
    /\ Quiet
    /\ rx.state = "ready"
    /\ rx' = [rx EXCEPT !.state = "closing"]
    /\ UNCHANGED <<queueVars, envVars, tracked, recoveryVars, sessionVars>>

\* The states the session asks to end in: `canceled` while still open,
\* `closed` once closing, `failed` when access is revoked.
LocalEnds ==
    (IF rx.state = "open" THEN {"canceled"} ELSE {})
    \cup (IF rx.state = "closing" THEN {"closed"} ELSE {})
    \cup {"failed"}

\* terminate.  An open recovery is finished first, without a snapshot; one
\* already winding down keeps the first local end asked for.
Terminate(st) ==
    /\ ~Terminal(rx)
    /\ st \in LocalEnds
    /\ \/ /\ Quiet /\ stage = "none"
          /\ rx' = End(rx, st, held)
          /\ DisposeOnEnd
          /\ UNCHANGED recoveryVars
       \/ /\ Quiet /\ stage \in {"history", "snapshot"}
          /\ localEnd' = st
          /\ FinishRecovery(NoSnapshot)
          /\ UNCHANGED <<rx, cutoff, deferred>>
       \/ /\ Finishing /\ localEnd = "none"
          /\ localEnd' = st
          /\ UNCHANGED <<queueVars, rx, stage, cutoff, deferred, snap>>
    /\ UNCHANGED <<envVars, tracked, sessionVars>>

-----------------------------------------------------------------------------
Init ==
    /\ Queue!Init
    /\ log \in Logs
    /\ sent = 0
    /\ rx = [state |-> "open", unsettled |-> {}, later |-> {},
             arts |-> [x \in Exchanges |-> {}],
             outcome |-> [x \in Exchanges |-> NoOutcome]]
    /\ tracked = {}
    /\ stage = "none"
    /\ cutoff = 0
    /\ deferred = "none"
    /\ snap = NoSnapshot
    /\ localEnd = "none"
    /\ replayPoint = 0
    /\ noting = 0
    /\ fetchFrom = 0
    /\ sentThen = 0
    /\ todo = {}
    /\ chain = <<>>
    /\ gapDone = FALSE
    /\ asked = 0
    /\ missed = {}

Recovery ==
    \/ BeginRecovery
    \/ \E answer \in SUBSET Seqs : HistoryAnswers(answer)
    \/ ReplayNext
    \/ HistoryReplayed
    \/ SnapshotAnswers
    \/ ApplyOutcomes
    \/ ApplyDeferred
    \/ ApplyState
    \/ ApplyLocalEnd

Next ==
    \/ Publish
    \/ \E x \in Exchanges : TrackExchange(x) \/ ForgetExchange(x)
    \/ \E s \in Seqs : ReceiveLive(s)
    \/ QueueLoop
    \/ \E st \in TerminalKinds : ReceiveNotice(st)
    \/ AskRecovery
    \/ GapTimerFires
    \/ GapRecovered
    \/ Recovery
    \/ BeginClosing
    \/ \E st \in TerminalStates : Terminate(st)

Spec == Init /\ [][Next]_vars

\* A handler runs to its end, a gap timer fires, and the history fetch and the
\* snapshot read, which have deadlines, answer.  Nothing is assumed of the
\* provider, the channel, the backend or the application.
Fairness ==
    /\ WF_vars(QueueLoop)
    /\ WF_vars(GapTimerFires)
    /\ WF_vars(GapRecovered)
    /\ WF_vars(Recovery)

FairSpec == Spec /\ Fairness

-----------------------------------------------------------------------------
ReceiverStates ==
    [state : States, unsettled : SUBSET Exchanges, later : SUBSET Exchanges,
     arts : [Exchanges -> SUBSET Seqs],
     outcome : [Exchanges -> [st : OutcomeStates, arts : SUBSET Seqs,
                              by : {"message", "record", "end", "unsent"}] \cup {NoOutcome}]]

\* The type invariant.
TypeOK ==
    /\ Queue!TypeOK
    /\ log \in Logs
    /\ sent \in 0..MaxSeq
    /\ rx \in ReceiverStates
    /\ tracked \subseteq Exchanges
    /\ stage \in {"none", "history", "replay", "snapshot", "skip", "deferred", "state", "localEnd"}
    /\ cutoff \in 0..MaxSeq
    /\ deferred \in {"none"} \cup TerminalKinds
    /\ snap \in [exchanges : SUBSET Exchanges, st : States \cup {"none"}]
    /\ localEnd \in {"none"} \cup TerminalStates
    /\ {replayPoint, noting, fetchFrom, sentThen} \subseteq 0..MaxSeq
    /\ todo \subseteq Seqs
    /\ chain \in Seq({"gap", "asked"})
    /\ gapDone \in BOOLEAN
    /\ asked \in 0..MaxAsked
    /\ missed \subseteq Seqs

\* Until the session ends, no seq is skipped unless the history answer of a
\* recovery should have held it and did not.
SkippedWasMissed ==
    \/ Terminal(rx)
    \/ Finishing /\ (deferred # "none" \/ SnapshotEnds(snap) \/ localEnd # "none")
    \/ (1..(next - 1)) \ delivered \subseteq missed

\* Everything up to the replay point has been delivered or given up, so a
\* later recovery that replays from there misses nothing.
ReplayPointProcessed == replayPoint < next

\* Recovery fetches what is missing, and gives up only that.
RecoverySound == TypeOK /\ SkippedWasMissed /\ ReplayPointProcessed

\* A local end asked for during a recovery is never lost: with the recovery
\* over the session has ended.
LocalEndHonoured == stage = "none" /\ localEnd # "none" => Terminal(rx)

\* An exchange that settles through the session keeps every artifact received
\* for it by then, delivered or held behind a gap.
ArtifactsKept ==
    [][\A x \in Exchanges :
         rx.outcome[x] = NoOutcome /\ rx'.outcome[x] \notin {NoOutcome}
         /\ rx'.outcome[x].by # "unsent"
         => ArtifactsOf(x, held \cup delivered \cup delivered') \subseteq rx'.outcome[x].arts]_vars

\* When a recovery ends the session, a terminal message it deferred decides
\* the state, then the recorded state, and only then a local end.
EndPrecedence ==
    [][Finishing /\ ~Terminal(rx) /\ Terminal(rx') =>
         rx'.state = IF deferred # "none" THEN deferred
                     ELSE IF SnapshotEnds(snap) THEN snap.st
                     ELSE localEnd]_vars

\* What the session promises about its exchanges: each settles once, and the
\* end of the session leaves none waiting.
Contract == INSTANCE SessionContract WITH
    ended <- Terminal(rx),
    status <- [x \in Exchanges |-> IF x \notin tracked THEN "unsent"
                                   ELSE IF x \in rx.unsettled THEN "pending"
                                   ELSE "settled"]

KeepsContract == Contract!Spec

\* The receiver drives its queue as InOrderDelivery specifies.
QueueSpec == Queue!Spec

\* A recorded outcome that waits for held messages eventually applies.
LaterSettles == \A x \in Exchanges : x \in rx.later ~> x \notin rx.unsettled

=============================================================================
