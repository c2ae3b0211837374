------------------------------ MODULE Checkpoints ------------------------------
(***************************************************************************)
(* A route's checkpoint loop: sessions/provider-checkpoints.ts, with the   *)
(* sessions of the route as far as they feed it (provider-session.ts) and  *)
(* are listed by it (SessionRoute.liveSessionIds).                         *)
(*                                                                         *)
(* Events are recorded in order, cut into batches, and each batch is       *)
(* posted until the backend answers for it.  A post may be processed and   *)
(* its answer lost, or be processed late, after its retry: the backend,    *)
(* which is external, processes an idempotency key once.  A batch is never *)
(* cut twice, so its place among the batches stands for its key.           *)
(*                                                                         *)
(* A step is one outside event with everything that follows from it up to  *)
(* the next await of a post.  A heartbeat is a batch without events or     *)
(* echoes: it is not retained, and the backend learns nothing from it here.*)
(***************************************************************************)
EXTENDS Naturals, Sequences, FiniteSets

CONSTANTS
    SessionIds, \* the sessions the route may serve
    Nonces,     \* the probes the backend may send
    MaxBatch,   \* CHECKPOINT_MAX_EVENTS
    MaxEvents   \* bound: events recorded

ASSUME MaxBatchAssumption == MaxBatch \in Nat \ {0}
ASSUME MaxEventsAssumption == MaxEvents \in Nat

Statuses == {"new", "open", "ending", "ended"}
Events == [x : SessionIds, kind : {"fact", "end"}]
Batches == [events : Seq(1..MaxEvents), echoes : SUBSET Nonces, open : SUBSET SessionIds]
Heartbeat == 0

VARIABLES
    loop,       \* the checkpoint loop, see Loops
    status,     \* of each session
    events,     \* history variable: every event recorded, in order
    heard,      \* history variable: the probes echoed while the loop ran
    applied,    \* backend: the events processed, in order
    echoed,     \* backend: the echoes processed
    seen,       \* backend: the batches processed
    wandering,  \* posts given up that may still reach the backend
    dropped     \* history variable: the batches the backend refused

backendVars == <<applied, echoed, seen, wandering, dropped>>
vars == <<loop, status, events, heard, backendVars>>

Loops ==
    [pending : Seq(1..MaxEvents),   \* recorded, not yet cut: places in `events`
     echoes : SUBSET Nonces,
     batches : Seq(Batches),        \* every batch ever cut
     acked : Nat,                   \* unacked is batches[acked + 1 ..]
     flushing : BOOLEAN,            \* a drain is under way: a post is awaited
     posting : Nat,                 \* the batch under post, or Heartbeat
     flushAgain : BOOLEAN,
     stopped : BOOLEAN,
     held : BOOLEAN]                \* heldUntil lies ahead

-----------------------------------------------------------------------------
(* The loop: pure functions of its state.                                   *)

\* openSessions(): the sessions not yet ending.
LiveSessions == {x \in SessionIds : status[x] = "open"}

Take(seq, n) == IF Len(seq) <= n THEN seq ELSE SubSeq(seq, 1, n)
DropFirst(seq, n) == IF Len(seq) <= n THEN <<>> ELSE SubSeq(seq, n + 1, Len(seq))
CeilDiv(a, b) == (a + b - 1) \div b

\* cutBatches: batches of at most MaxBatch events, the echoes in the first.
CutBatches(p) ==
    LET cuts == CeilDiv(Len(p.pending), MaxBatch)
        n == IF cuts = 0 /\ p.echoes # {} THEN 1 ELSE cuts
        batch(k) == [events |-> Take(DropFirst(p.pending, (k - 1) * MaxBatch), MaxBatch),
                     echoes |-> IF k = 1 THEN p.echoes ELSE {},
                     open |-> LiveSessions]
    IN  [p EXCEPT !.batches = @ \o [k \in 1..n |-> batch(k)],
                  !.pending = <<>>, !.echoes = {}]

\* sendInOrder and deliver up to the next post.  With the loop stopped or held
\* there is none, and the drain ends.
SendNext(p) ==
    IF p.stopped \/ p.held
    THEN [p EXCEPT !.flushing = FALSE, !.posting = Heartbeat]
    ELSE [p EXCEPT !.flushing = TRUE,
                   !.posting = IF p.acked < Len(p.batches) THEN p.acked + 1 ELSE Heartbeat]

\* An iteration of drain.
Drain(p) == SendNext(CutBatches([p EXCEPT !.flushAgain = FALSE]))

\* Mutant of Flush: a flush asked for during a drain is forgotten.
Flush_Once(p) == IF p.flushing THEN p ELSE Drain(p)

\* flush: one drain at a time; another asked for meanwhile makes it go round again.
Flush(p) == IF p.flushing THEN [p EXCEPT !.flushAgain = TRUE] ELSE Drain(p)

\* drain's test after an iteration.
DrainOn(p) ==
    IF p.flushAgain /\ ~p.stopped THEN Drain(p)
    ELSE [p EXCEPT !.flushing = FALSE, !.posting = Heartbeat]

\* record.
Record(p, n, kind) ==
    LET q == [p EXCEPT !.pending = Append(@, n)]
    IN  IF kind = "end" \/ Len(q.pending) >= MaxBatch THEN Flush(q) ELSE q

\* A batch acknowledged or dropped makes way for the next.
Answered(p) ==
    LET q == IF p.posting = Heartbeat THEN p ELSE [p EXCEPT !.acked = @ + 1]
    IN  IF q.posting # Heartbeat /\ q.acked < Len(q.batches) THEN SendNext(q) ELSE DrainOn(q)

\* Mutant of ToRetry: a batch whose post failed is passed over.
ToRetry_Skips(p) == DrainOn([p EXCEPT !.acked = IF p.posting = Heartbeat THEN @ ELSE @ + 1])

\* A failed post: the batch stays at the head for the next tick.
ToRetry(p) == DrainOn(p)

-----------------------------------------------------------------------------
(* The sessions of the route.  When the loop stops the route closes and ends *)
(* them at once, and they record nothing more.                              *)

Recorded(x, kind) ==
    /\ ~loop.stopped /\ Len(events) < MaxEvents
    /\ events' = Append(events, [x |-> x, kind |-> kind])
    /\ loop' = Record(loop, Len(events) + 1, kind)
    /\ UNCHANGED <<heard, backendVars>>

\* session_ready, or an outcome, also while the session is ending.
RecordFact(x) ==
    /\ status[x] \in {"open", "ending"}
    /\ Recorded(x, "fact")
    /\ UNCHANGED status

SessionEnding(x) ==
    /\ status[x] = "open" /\ ~loop.stopped
    /\ status' = [status EXCEPT ![x] = "ending"]
    /\ UNCHANGED <<loop, events, heard, backendVars>>

\* session_closed or session_failed is recorded, and the session finishes.
RecordEnd(x) ==
    /\ status[x] = "ending"
    /\ Recorded(x, "end")
    /\ status' = [status EXCEPT ![x] = "ended"]

\* A session ended by a notice records nothing.
EndSilently(x) ==
    /\ status[x] = "ending" /\ ~loop.stopped
    /\ status' = [status EXCEPT ![x] = "ended"]
    /\ UNCHANGED <<loop, events, heard, backendVars>>

\* echoProbe.
EchoProbe(n) ==
    /\ ~loop.stopped /\ n \notin heard
    /\ loop' = [loop EXCEPT !.echoes = @ \cup {n}]
    /\ heard' = heard \cup {n}
    /\ UNCHANGED <<status, events, backendVars>>

-----------------------------------------------------------------------------
(* Ticks, posts and the backend.                                            *)

\* The interval timer; the first flush of a route is one too.
Tick ==
    /\ ~loop.stopped /\ ~loop.flushing
    /\ loop' = Flush(loop)
    /\ UNCHANGED <<status, events, heard, backendVars>>

\* The timer fires while a drain is under way.
TickAgain ==
    /\ ~loop.stopped /\ loop.flushing
    /\ loop' = Flush(loop)
    /\ UNCHANGED <<status, events, heard, backendVars>>

HoldExpires ==
    /\ loop.held
    /\ loop' = [loop EXCEPT !.held = FALSE]
    /\ UNCHANGED <<status, events, heard, backendVars>>

\* What the backend does with batch b: a key it has seen changes nothing.
Process(b) ==
    IF b = Heartbeat \/ b \in seen \/ b \in dropped
    THEN UNCHANGED <<applied, echoed, seen>>
    ELSE /\ applied' = applied \o loop.batches[b].events
         /\ echoed' = echoed \cup loop.batches[b].echoes
         /\ seen' = seen \cup {b}

PostAcknowledged ==
    /\ loop.flushing /\ loop.posting \notin dropped
    /\ Process(loop.posting)
    /\ loop' = Answered(loop)
    /\ UNCHANGED <<status, events, heard, wandering, dropped>>

\* A malformed or oversized batch: refused on every replay, so not one that
\* was ever processed.
PostRefused ==
    /\ loop.flushing /\ loop.posting \notin seen
    /\ dropped' = IF loop.posting = Heartbeat THEN dropped ELSE dropped \cup {loop.posting}
    /\ loop' = Answered(loop)
    /\ UNCHANGED <<status, events, heard, applied, echoed, seen, wandering>>

\* No usable answer, perhaps a Retry-After; the post may be processed, now or later.
PostFails ==
    /\ loop.flushing
    /\ \E held \in BOOLEAN : loop' = ToRetry([loop EXCEPT !.held = held])
    /\ wandering' = IF loop.posting = Heartbeat THEN wandering ELSE wandering \cup {loop.posting}
    /\ UNCHANGED <<status, events, heard, applied, echoed, seen, dropped>>

WanderingArrives(b) ==
    /\ b \in wandering
    /\ wandering' = wandering \ {b}
    /\ Process(b)
    /\ UNCHANGED <<loop, status, events, heard, dropped>>

-----------------------------------------------------------------------------
NewLoop == [pending |-> <<>>, echoes |-> {}, batches |-> <<>>, acked |-> 0,
            flushing |-> FALSE, posting |-> Heartbeat, flushAgain |-> FALSE,
            stopped |-> FALSE, held |-> FALSE]

CheckpointsInit ==
    /\ loop = NewLoop
    /\ status = [x \in SessionIds |-> "new"]
    /\ events = <<>>
    /\ heard = {}
    /\ applied = <<>>
    /\ echoed = {}
    /\ seen = {}
    /\ wandering = {}
    /\ dropped = {}

\* A route closed for another: its loop stops, its sessions record nothing
\* more, and what follows starts afresh under another routeId.
CheckpointsOver ==
    /\ loop' = [NewLoop EXCEPT !.stopped = TRUE]
    /\ status' = [x \in SessionIds |-> "new"]
    /\ events' = <<>>
    /\ heard' = {}
    /\ applied' = <<>>
    /\ echoed' = {}
    /\ seen' = {}
    /\ wandering' = {}
    /\ dropped' = {}

CheckpointsBegin ==
    /\ loop' = NewLoop
    /\ UNCHANGED <<status, events, heard, backendVars>>

\* The steps a loop takes alone.
LoopStep ==
    \/ TickAgain \/ HoldExpires \/ PostAcknowledged \/ PostRefused \/ PostFails
    \/ \E b \in 1..MaxEvents + Cardinality(Nonces) : WanderingArrives(b)

-----------------------------------------------------------------------------
InBatch(b, n) == \E i \in 1..Len(loop.batches[b].events) : loop.batches[b].events[i] = n
WasDropped(n) == \E b \in dropped : InBatch(b, n)
IsPending(n) == \E i \in 1..Len(loop.pending) : loop.pending[i] = n
IsApplied(n) == \E i \in 1..Len(applied) : applied[i] = n

\* The backend processes each event once, in the order recorded, and never one
\* before an earlier event, unless the backend itself refused that one's batch.
AppliedInOrder ==
    /\ \A i, j \in 1..Len(applied) : i < j => applied[i] < applied[j]
    /\ \A i \in 1..Len(applied) : \A n \in 1..(applied[i] - 1) : IsApplied(n) \/ WasDropped(n)

\* A batch never lists as open a session whose end it, or a batch before it, reports.
OpenAreNotEnded ==
    \A b \in 1..Len(loop.batches) : \A n \in 1..Len(events) :
        events[n].kind = "end" /\ (\E a \in 1..b : InBatch(a, n))
        => events[n].x \notin loop.batches[b].open

\* The end of a session is never left to the next tick: it is in a batch, or
\* the drain under way will cut it.
EndIsSentAtOnce ==
    ~loop.stopped =>
        \A n \in 1..Len(events) :
            events[n].kind = "end" /\ IsPending(n) => loop.flushing /\ loop.flushAgain

\* What the backend is told of a route, batch by batch, is in step with what
\* happened on it: AppliedInOrder, OpenAreNotEnded and EndIsSentAtOnce.
BackendInStep == AppliedInOrder /\ OpenAreNotEnded /\ EndIsSentAtOnce

\* Every event recorded is answered for, unless its route is given up.
EventsAnswered ==
    \A n \in 1..MaxEvents :
        n \in 1..Len(events) ~> IsApplied(n) \/ WasDropped(n) \/ loop.stopped

=============================================================================
