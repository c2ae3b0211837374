---------------------------- MODULE ManagedSession ----------------------------
(* A managed consumer session: ClientSession.open and close, its opened and *)
(* closed beacons, and ManagedExchanges, which posts the exchanges over     *)
(* HTTPS one at a time while their outcomes come over the channel. The      *)
(* backend that serves the requests, and the network that loses them or     *)
(* their answers or delivers an abandoned one late, are external.           *)
EXTENDS Naturals, Sequences, SequencesExt

CONSTANTS
  Exchanges,
  First,     \* the exchange the opened beacon may carry
  Canceled,  \* the exchanges the application may cancel
  NoEx       \* no exchange

ASSUME ExchangesAssumption ==
  First \in Exchanges /\ NoEx \notin Exchanges /\ Canceled \subseteq Exchanges

VARIABLES
  sess,       \* the state of the receiver
  ready,      \* the promise of untilReady
  opening,    \* where ClientSession.open is
  beacon,     \* the opened beacon: under way, or what sendOpenedBeacon returned
  carried,    \* the exchange it carries, or NoEx
  skip,       \* skipClosedBeacon
  asked,      \* closeRequested
  closing,    \* no close, one due, its closed beacon under way, a release due, released
  queue, phase, pump, head,   \* ManagedExchanges: its queue, and what pump() awaits for which
  pending, timers,  \* ClientSession.pending, recoverTimers
  cancels,    \* the call of cancel() for each exchange
  claim, held, posts, published  \* the backend: who opened the session, its exchanges, the
                                 \* requests under way to it, outcomes on the channel

sessionVars == <<sess, ready, opening, beacon, carried, skip, asked, closing>>
pumpVars == <<queue, phase, pump, head>>
backendVars == <<claim, held, posts, published>>
vars == <<sessionVars, pumpVars, pending, timers, cancels, backendVars>>

NoCancel == [at |-> "no", unanswered |-> FALSE]
Over == [at |-> "over", unanswered |-> FALSE]

Init ==
  /\ sess = "open" /\ ready = "waiting" /\ opening = "subscribing" /\ beacon = "no"
  /\ carried \in {First, NoEx} /\ skip = FALSE /\ asked = FALSE /\ closing = "no"
  /\ queue = <<>> /\ phase = [x \in Exchanges |-> "new"] /\ pump = "idle" /\ head = NoEx
  /\ pending = {} /\ timers = {}
  /\ cancels = [x \in Exchanges |-> NoCancel]
  /\ claim = "nobody" /\ held = [x \in Exchanges |-> "unseen"] /\ posts = {} /\ published = {}

Terminal == sess \in {"closed", "failed", "canceled"}
\* ManagedExchanges.stopped; closeStarted and lifetime are aborted with it.
Stopped == closing \in {"telling", "released"}
Queued == ToSet(queue)
BeaconOut == beacon \in {"sent", "pausing"}

-----------------------------------------------------------------------------
(* Settling and ending.                                                      *)

\* settled(): the waiter of a settled head lets pump() go on.
Woken(xs) == IF pump = "holding" /\ head \in xs THEN "next" ELSE pump

Settle(xs) == pending' = pending \ xs /\ timers' = timers \ xs

\* receiver.terminate and stateChanged: every pending exchange settles, untilReady
\* rejects, and a release follows unless a close is under way.
EndAs(st) ==
  IF Terminal THEN UNCHANGED <<sess, ready, pending, timers>>
  ELSE /\ sess' = st /\ Settle(pending)
       /\ ready' = IF ready = "waiting" THEN "rejected" ELSE ready

Releasing == IF ~Terminal /\ closing = "no" THEN "releasing" ELSE closing

\* Mutant of StopManaged: the queue is emptied, the retry of its head goes on.
StopManaged_QueueOnly == queue' = <<>> /\ UNCHANGED <<phase, pump, head, posts>>

\* stop(): what is queued is aborted, and the head with it. Where its request has got
\* to is not followed further.
StopManaged ==
  /\ queue' = <<>> /\ posts' = {} /\ pump' = IF pump = "idle" THEN "idle" ELSE "next"
  /\ UNCHANGED <<phase, head>>

\* lifetime.abort(): the calls of cancel() under way fail.
AbortCancels ==
  cancels' = [x \in Exchanges |-> IF cancels[x].at = "no" THEN NoCancel ELSE Over]

-----------------------------------------------------------------------------
(* The queue.                                                                *)

\* One attempt of post() for the head.
Post(x) ==
  /\ pump' = "posting" /\ head' = x
  /\ phase' = [phase EXCEPT ![x] = "requesting"] /\ posts' = posts \cup {x}

\* send(): tracked and enqueued; pump() starts unless it runs.
Send(x) ==
  /\ sess = "ready" /\ ~asked /\ phase[x] = "new" /\ x # carried
  /\ pending' = pending \cup {x} /\ queue' = Append(queue, x)
  /\ IF pump = "idle" THEN Post(x)
     ELSE phase' = [phase EXCEPT ![x] = "waiting"] /\ UNCHANGED <<pump, head, posts>>
  /\ UNCHANGED <<sessionVars, timers, cancels, claim, held, published>>

PumpGoesOn ==
  LET rest == RemoveFirst(queue, head) IN
  /\ pump = "next" /\ queue' = rest
  /\ IF rest # <<>> /\ ~Stopped THEN Post(Head(rest))
     ELSE pump' = "idle" /\ head' = NoEx /\ UNCHANGED <<phase, posts>>
  /\ UNCHANGED <<sessionVars, pending, timers, cancels, claim, held,
                 published>>

\* Mutant of Noted: any answer is taken to be followed by its outcome.
Noted_Never(x) == UNCHANGED timers

\* noteAnswer: a final answer whose outcome does not come is recovered.
Noted(x) ==
  timers' = IF held[x] # "running" /\ ~Stopped /\ x \in pending THEN timers \cup {x} ELSE timers

Answered(x) ==
  phase' = [phase EXCEPT ![x] = IF held[x] = "running" THEN "accepted" ELSE "final"]

\* Mutant of AfterAnswer: an answer frees the slot, a 202 too.
AfterAnswer_Free(x) == "next"

\* A final answer, or an exchange that has settled, frees the slot.
AfterAnswer(x) == IF held[x] = "running" /\ x \in pending THEN "holding" ELSE "next"

PostAnswered ==
  /\ pump = "posting" /\ head \in posts /\ held[head] # "unseen"
  /\ posts' = posts \ {head} /\ Answered(head) /\ Noted(head)
  /\ pump' = AfterAnswer(head)
  /\ UNCHANGED <<sessionVars, queue, head, pending, cancels, claim, held,
                 published>>

\* SESSION_BUSY: settled if its cancel has been asked for, or else retried.
PostBusy ==
  /\ pump = "posting" /\ head \in posts /\ held[head] = "unseen"
  /\ \E y \in Exchanges : held[y] = "running"
  /\ posts' = posts \ {head} /\ phase' = [phase EXCEPT ![head] = "busy"]
  /\ IF cancels[head].at # "no" THEN queue' = RemoveFirst(queue, head) /\ Settle({head}) /\ pump' = "next"
     ELSE pump' = "pausing" /\ UNCHANGED <<queue, pending, timers>>
  /\ UNCHANGED <<sessionVars, head, cancels, claim, held, published>>

\* A failure in transit, of the request or of its answer: an abandoned request that the
\* backend has not seen may still arrive.
Lost(ps) == {ps \ {head}} \cup (IF held[head] = "unseen" THEN {ps} ELSE {})

PostFails ==
  /\ pump = "posting" /\ pump' = "pausing" /\ posts' \in Lost(posts)
  /\ UNCHANGED <<sessionVars, queue, head, phase, pending, timers,
                 cancels, claim, held, published>>

PostAgain ==
  /\ pump = "pausing" /\ Post(head)
  /\ UNCHANGED <<sessionVars, queue, pending, timers, cancels, claim,
                 held, published>>

\* EXCHANGE_SEND_BUDGET_MS: rejectExchange. A last attempt may have gone out.
PostGivesUp ==
  /\ pump \in {"posting", "pausing"} /\ pump' = "next" /\ Settle({head})
  /\ posts' \in Lost(posts) \cup Lost(posts \cup {head})
  /\ UNCHANGED <<sessionVars, queue, head, phase, cancels, claim,
                 held, published>>

\* Turned down for good: the exchange fails, or with access refused the session.
PostRefused ==
  /\ pump = "posting" /\ head \in posts /\ held[head] = "unseen"
  /\ posts' = posts \ {head} /\ pump' = "next"
  /\ \/ Settle({head}) /\ claim # "ended" /\ UNCHANGED <<sess, ready, closing>>
     \/ EndAs("failed") /\ closing' = Releasing
  /\ UNCHANGED <<opening, beacon, carried, skip, asked, queue, head, phase, cancels, claim, held, published>>

-----------------------------------------------------------------------------
(* cancel().                                                                 *)

Unsent(x) == x \in Queued /\ phase[x] \in {"waiting", "busy"}
Unanswered(x) == (x = carried /\ BeaconOut) \/ (x \in Queued /\ phase[x] = "requesting")

\* One turn of its loop: cancelUnsent, or a request.
CancelTurn(x) ==
  IF Unsent(x)
  THEN /\ queue' = RemoveFirst(queue, x) /\ Settle({x})
       /\ pump' = IF head = x /\ pump = "pausing" THEN "next" ELSE pump
       /\ cancels' = [cancels EXCEPT ![x] = Over]
  ELSE /\ cancels' = [cancels EXCEPT ![x] = [at |-> "sent", unanswered |-> Unanswered(x)]]
       /\ UNCHANGED <<queue, pending, timers, pump>>

Cancel(x) ==
  /\ x \in pending \cap Canceled /\ cancels[x].at = "no"
  /\ CancelTurn(x)
  /\ UNCHANGED <<sessionVars, phase, head, backendVars>>

\* The backend cancels what runs; it answers 404 to what it does not know.
CancelServed(x) ==
  /\ cancels[x].at = "sent"
  /\ cancels' = [cancels EXCEPT ![x].at = IF held[x] = "unseen" THEN "missing" ELSE "found"]
  /\ held' = [held EXCEPT ![x] = IF @ = "running" THEN "canceled" ELSE @]
  /\ published' = IF held[x] = "running" THEN published \cup {x} ELSE published
  /\ UNCHANGED <<sessionVars, pumpVars, pending, timers, claim, posts>>

\* Mutant of CancelHeard: whether the request was answered is read when the 404 is.
CancelHeard_ReadsLate(x) ==
  /\ cancels[x].at \in {"found", "missing"}
  /\ cancels' = [cancels EXCEPT ![x] =
       [at |-> IF @.at = "missing" /\ Unanswered(x) THEN "pausing" ELSE "done",
        unanswered |-> FALSE]]
  /\ UNCHANGED <<sessionVars, pumpVars, pending, timers, backendVars>>

\* A 404 to a cancel sent while its request was unanswered says nothing.
CancelHeard(x) ==
  /\ cancels[x].at \in {"found", "missing"}
  /\ cancels' = [cancels EXCEPT ![x] =
       [at |-> IF @.at = "missing" /\ @.unanswered THEN "pausing" ELSE "done",
        unanswered |-> FALSE]]
  /\ UNCHANGED <<sessionVars, pumpVars, pending, timers, backendVars>>

CancelAgain(x) ==
  /\ cancels[x].at = "pausing"
  /\ IF x \in pending THEN CancelTurn(x)
     ELSE cancels' = [cancels EXCEPT ![x] = Over]
          /\ UNCHANGED <<queue, pending, timers, pump>>
  /\ UNCHANGED <<sessionVars, phase, head, backendVars>>

\* In transit, or by its deadline.
CancelFails(x) ==
  /\ cancels[x].at \in {"sent", "found", "missing"}
  /\ cancels' = [cancels EXCEPT ![x] = Over]
  /\ UNCHANGED <<sessionVars, pumpVars, pending, timers, backendVars>>

-----------------------------------------------------------------------------
(* Opening.                                                                  *)

\* Subscribed: the first exchange is tracked and the opened beacon sent, unless a
\* close has already aborted it.
OpenBeacon ==
  /\ opening = "subscribing" /\ ready # "rejected" /\ opening' = "beacon"
  /\ pending' = pending \cup ({carried} \ {NoEx})
  /\ beacon' = IF Stopped THEN "answered" ELSE "sent"
  /\ UNCHANGED <<sess, ready, carried, skip, asked, closing, pumpVars, timers, cancels,
                 backendVars>>

BeaconAnswered ==
  /\ beacon = "sent" /\ ~Stopped /\ claim = "ours" /\ beacon' = "answered"
  /\ IF carried = NoEx THEN UNCHANGED <<phase, timers, skip>>
     ELSE /\ Answered(carried) /\ Noted(carried)
          /\ skip' = (skip \/ held[carried] # "running")
  /\ UNCHANGED <<sess, ready, opening, carried, asked, closing, queue, pump, head, pending, cancels, backendVars>>

\* Mutant of BeaconAlready: the session is closed like any other.
BeaconAlready_Closes ==
  /\ beacon = "sent" /\ ~Stopped /\ claim = "others" /\ beacon' = "already"
  /\ UNCHANGED <<sess, ready, opening, carried, skip, asked, closing, pumpVars, pending, timers, cancels, backendVars>>

\* SESSION_ALREADY_OPEN: another holder claimed the session.
BeaconAlready ==
  /\ beacon = "sent" /\ ~Stopped /\ claim = "others" /\ beacon' = "already" /\ skip' = TRUE
  /\ UNCHANGED <<sess, ready, opening, carried, asked, closing, pumpVars, pending, timers, cancels, backendVars>>

\* Access refused, or the first exchange, or, without one, the open.
BeaconRefused ==
  /\ beacon = "sent" /\ ~Stopped /\ claim \in {"nobody", "ended"}
  /\ \/ /\ EndAs("failed") /\ closing' = Releasing /\ beacon' = "answered"
        /\ pump' = Woken(pending)
     \/ /\ beacon' = IF carried # NoEx THEN "rejected" ELSE "refused"
        /\ Settle({carried}) /\ UNCHANGED <<sess, ready, closing, pump>>
  /\ UNCHANGED <<opening, carried, skip, asked, queue, phase, head,
                 cancels, backendVars>>

BeaconFails ==
  /\ \/ beacon = "sent" /\ beacon' = "pausing"
     \/ beacon = "pausing" /\ ~Stopped /\ beacon' = "sent"
  /\ UNCHANGED <<sess, ready, opening, carried, skip, asked, closing, pumpVars, pending, timers, cancels, backendVars>>

\* The deadline of the open passes, or a close aborts the beacon.
BeaconGivesUp ==
  /\ BeaconOut /\ beacon' = "answered"
  /\ UNCHANGED <<sess, ready, opening, carried, skip, asked, closing, pumpVars, pending, timers, cancels, backendVars>>

AskClose == asked' = TRUE /\ closing' = IF closing = "no" THEN "due" ELSE closing
OpenFails == opening' = "failed" /\ AskClose

\* What sendOpenedBeacon returned.
OpenHears ==
  /\ opening = "beacon"
  /\ \/ beacon = "answered" /\ opening' = "awaiting" /\ UNCHANGED <<asked, closing>>
     \/ beacon = "rejected" /\ opening' = "returned" /\ UNCHANGED <<asked, closing>>
     \/ beacon \in {"already", "refused"} /\ OpenFails
  /\ UNCHANGED <<sess, ready, beacon, carried, skip, pumpVars, pending, timers,
                 cancels, backendVars>>

\* The session was ready: unless a close was asked for, or it ended without the
\* first exchange, open() returns it.
OpenReturns ==
  /\ opening \in {"beacon", "awaiting"} /\ ready = "resolved"
  /\ IF asked \/ (Terminal /\ carried = NoEx) THEN OpenFails
     ELSE opening' = "returned" /\ UNCHANGED <<asked, closing>>
  /\ UNCHANGED <<sess, ready, beacon, carried, skip, pumpVars, pending, timers,
                 cancels, backendVars>>

\* It ended before it was ready, or its deadline passed.
OpenRejected ==
  /\ opening \in {"subscribing", "beacon", "awaiting"} /\ ready # "resolved" /\ OpenFails
  /\ UNCHANGED <<sess, ready, beacon, carried, skip, pumpVars, pending, timers,
                 cancels, backendVars>>

-----------------------------------------------------------------------------
(* Closing.                                                                  *)

Close ==
  /\ ~asked /\ AskClose
  /\ UNCHANGED <<sess, ready, opening, beacon, carried, skip, pumpVars, pending, timers, cancels, backendVars>>

\* runManagedClose up to its closed beacon, and past it when there is none to send.
RunClose ==
  /\ closing = "due"
  /\ IF Terminal \/ skip
     THEN /\ EndAs(IF sess = "open" THEN "canceled" ELSE "closed")
          /\ closing' = "released" /\ AbortCancels
     ELSE /\ UNCHANGED cancels /\ sess' = IF sess = "open" THEN "open" ELSE "closing"
          /\ timers' = {} /\ closing' = "telling" /\ UNCHANGED <<ready, pending>>
  /\ StopManaged
  /\ UNCHANGED <<opening, beacon, carried, skip, asked, claim, held, published>>

ClosedServed ==
  /\ closing = "telling" /\ claim # "ended" /\ claim' = "ended"
  /\ UNCHANGED <<sessionVars, pumpVars, pending, timers, cancels, held, posts,
                 published>>

\* The closed beacon was answered, its tries failed, or its time passed.
CloseEnds ==
  /\ closing = "telling" /\ closing' = "released"
  /\ EndAs(IF sess = "open" THEN "canceled" ELSE "closed") /\ AbortCancels
  /\ UNCHANGED <<opening, beacon, carried, skip, asked, pumpVars, backendVars>>

\* A session that ended by itself is released.
Release ==
  /\ closing = "releasing" /\ closing' = "released" /\ timers' = {}
  /\ StopManaged /\ AbortCancels
  /\ UNCHANGED <<sess, ready, opening, beacon, carried, skip, asked, pending, claim,
                 held, published>>

-----------------------------------------------------------------------------
(* The channel.                                                              *)

SessionReady ==
  /\ claim = "ours" /\ sess = "open" /\ sess' = "ready"
  /\ ready' = IF ready = "waiting" THEN "resolved" ELSE ready
  /\ UNCHANGED <<opening, beacon, carried, skip, asked, closing, pumpVars, pending, timers, cancels, backendVars>>

SessionEnds ==
  /\ claim = "ours" /\ ~Terminal /\ claim' = "ended"
  /\ EndAs("failed") /\ closing' = Releasing /\ pump' = Woken(pending)
  /\ UNCHANGED <<opening, beacon, carried, skip, asked, queue, phase, head, cancels, held, posts, published>>

\* Outcomes reach the receiver until it has ended; the one of a first exchange may be a one-shot's.
Received(xs) ==
  /\ ~Terminal /\ Settle(xs) /\ pump' = Woken(xs)
  /\ skip' \in {skip, skip \/ carried \in xs \cap pending}

OutcomeArrives(x) ==
  /\ x \in published /\ published' = published \ {x} /\ Received({x})
  /\ UNCHANGED <<sess, ready, opening, beacon, carried, asked, closing, queue, phase, head, cancels, claim, held, posts>>

\* The channel loses an outcome; one whose 202 holds the slot leaves a gap, which
\* the receiver recovers.
OutcomeLost(x) ==
  /\ x \in published /\ phase[x] = "final" /\ published' = published \ {x}
  /\ UNCHANGED <<sessionVars, pumpVars, pending, timers, cancels, claim, held, posts>>

\* The timer of a final answer fires and its recovery brings what has been recorded.
RecoverTimerFires(x) ==
  /\ x \in timers
  /\ Received({x} \cup {y \in Exchanges : held[y] \in {"done", "canceled"}})
  /\ UNCHANGED <<sess, ready, opening, beacon, carried, asked, closing, queue, phase, head, cancels,
                 backendVars>>

-----------------------------------------------------------------------------
(* The backend, while the session has not ended for the client.             *)

\* The opened beacon of this session, or of another holder, claims it.
Claimed ==
  /\ claim = "nobody" /\ ~Terminal
  /\ \/ BeaconOut /\ claim' = "ours"
        /\ held' = [x \in Exchanges |-> IF x = carried THEN "running" ELSE held[x]]
     \/ claim' = "others" /\ UNCHANGED held
  /\ UNCHANGED <<sessionVars, pumpVars, pending, timers, cancels, posts, published>>

\* A posted exchange runs, also one whose request the client has abandoned.
Started(x) ==
  /\ x \in posts /\ claim = "ours" /\ ~Terminal /\ held[x] = "unseen"
  /\ \A y \in Exchanges : held[y] # "running"
  /\ held' = [held EXCEPT ![x] = "running"]
  /\ posts' = IF pump = "posting" /\ head = x THEN posts ELSE posts \ {x}
  /\ UNCHANGED <<sessionVars, pumpVars, pending, timers, cancels, claim, published>>

Finished(x) ==
  /\ held[x] = "running" /\ claim = "ours" /\ ~Terminal
  /\ held' = [held EXCEPT ![x] = "done"] /\ published' = published \cup {x}
  /\ UNCHANGED <<sessionVars, pumpVars, pending, timers, cancels, claim, posts>>

-----------------------------------------------------------------------------
Next ==
  \/ \E x \in Exchanges :
        \/ Send(x) \/ RecoverTimerFires(x) \/ Cancel(x) \/ CancelServed(x) \/ CancelHeard(x)
        \/ CancelAgain(x) \/ CancelFails(x) \/ OutcomeArrives(x) \/ OutcomeLost(x) \/ Started(x)
        \/ Finished(x)
  \/ PumpGoesOn \/ PostAnswered \/ PostBusy \/ PostFails \/ PostAgain \/ PostGivesUp
  \/ PostRefused \/ OpenBeacon \/ BeaconAnswered \/ BeaconAlready \/ BeaconRefused \/ BeaconFails
  \/ BeaconGivesUp \/ OpenHears \/ OpenReturns \/ OpenRejected \/ Close \/ RunClose
  \/ ClosedServed \/ CloseEnds \/ Release \/ SessionReady \/ SessionEnds \/ Claimed

Spec == Init /\ [][Next]_vars

\* Timers fire and what is due runs; the backend finishes what it runs, the channel
\* delivers what it does not lose, and a recovery is answered.
FairSpec ==
  /\ Spec
  /\ WF_vars(PumpGoesOn \/ PostGivesUp)
  /\ WF_vars(OpenBeacon \/ OpenHears \/ OpenReturns \/ OpenRejected \/ BeaconGivesUp)
  /\ WF_vars(RunClose \/ CloseEnds \/ Release)
  /\ \A x \in Exchanges :
       WF_vars(RecoverTimerFires(x)) /\ WF_vars(OutcomeArrives(x) \/ Finished(x))

-----------------------------------------------------------------------------
(* Properties.                                                               *)

\* A 202 holds the slot: while an exchange the backend has accepted over HTTPS has no
\* outcome, pump() waits for it and posts no other, until the session stops.
SlotHeld ==
  \A x \in pending \ {carried} : phase[x] = "accepted" /\ ~Stopped =>
    pump = "holding" /\ head = x

\* A cancel() that has ended without failing leaves nothing of a pending exchange
\* running, though its request may reach the backend behind the cancel; a session that
\* is closing leaves that to its closed beacon.
CancelReaches ==
  \A x \in pending : cancels[x].at = "done" /\ ~Stopped => held[x] # "running"

\* A session another holder has claimed is not closed by the one that heard so.
SparesOtherHolder == beacon = "already" => closing # "telling"

\* The session acts on what the backend holds, not on what it held.
BackendHeeded == SlotHeld /\ CancelReaches /\ SparesOtherHolder

\* Once the queue is stopped no attempt of an exchange goes out.
StoppedPostsNothing == [][Stopped => posts' \subseteq posts]_vars

\* Every exchange settles, whichever of its outcome, its answers and the end of the
\* session come or are lost: each is sent once, and none stays pending for ever.
ExchangesSettle == []<>(pending = {})
=============================================================================
