--------------------------- MODULE InOrderDelivery ---------------------------
(***************************************************************************)
(* The receive queue of one sender: sessions/in-order-delivery.ts and the  *)
(* part of seq-window.ts it uses.  The queue hands the sender's messages   *)
(* to a callback in seq order.  A message ahead of a gap is held; a gap    *)
(* that outlasts a timer asks for a recovery, and what recovery did not    *)
(* fill is skipped.                                                        *)
(*                                                                         *)
(* JavaScript runs each handler to its next await without interruption.    *)
(* The loops that release held messages call back into the owner between   *)
(* iterations, and a callback may dispose the queue, so a loop is a        *)
(* sequence of steps here: while loop # NoLoop no other handler runs.      *)
(*                                                                         *)
(* The window of this queue never has a hole: it is only ever added to at  *)
(* its lowest missing seq (seq === window.next, or right after skipTo), so *)
(* the number `next` is the whole window.                                  *)
(***************************************************************************)
EXTENDS Naturals, Sequences

CONSTANT
    MaxSeq     \* the highest seq the sender uses; the code has no bound

ASSUME MaxSeqAssumption == MaxSeq \in Nat

Seqs == 1..MaxSeq

\* Who started the loop that is releasing messages, and so what happens
\* when it ends.
Callers == {"none", "accept", "skipThrough", "recoverGap"}

NoLoop == [by |-> "none", cutoff |-> 0, released |-> FALSE]

VARIABLES
    next,       \* window.next: the lowest seq neither delivered nor skipped
    held,       \* queue.held: the seqs waiting behind a gap
    replayed,   \* queue.replayed: held seqs that history also returned
    timer,      \* queue.timer is armed
    gapRuns,    \* the cutoffs of the recoverGap calls awaiting recover(), in order
    disposed,   \* dispose() has run
    loop,       \* the release loop under way, or NoLoop
    delivered,  \* history variable: every seq handed to the callback
    out         \* history variable: the seq this step handed over, or 0

vars == <<next, held, replayed, timer, gapRuns, disposed, loop, delivered, out>>

Init ==
    /\ next = 1
    /\ held = {}
    /\ replayed = {}
    /\ timer = FALSE
    /\ gapRuns = <<>>
    /\ disposed = FALSE
    /\ loop = NoLoop
    /\ delivered = {}
    /\ out = 0

-----------------------------------------------------------------------------
Idle == loop = NoLoop

IsMax(s, S) == s \in S /\ \A h \in S : h <= s
IsMin(s, S) == s \in S /\ \A h \in S : s <= h

\* dispose(): the timer is cleared and the queues are dropped.  A loop under
\* way notices at its next test and returns; a recoverGap call still
\* awaiting recovery returns when it resumes.
DisposeQueue ==
    /\ disposed' = TRUE
    /\ held' = {}
    /\ replayed' = {}
    /\ timer' = FALSE
    /\ loop' = NoLoop

\* deliverSeq: the seq leaves the queue before the callback sees it, and the
\* callback may dispose the queue.  `rest` is the loop if it goes on.
DeliverSeq(s, rest) ==
    /\ next' = s + 1
    /\ delivered' = delivered \cup {s}
    /\ out' = s
    /\ UNCHANGED gapRuns
    /\ \/ /\ held' = held \ {s}
          /\ replayed' = replayed \ {s}
          /\ loop' = rest
          /\ UNCHANGED <<timer, disposed>>
       \/ DisposeQueue

-----------------------------------------------------------------------------
(* accept(seq, message, replayed).  A seq already delivered or skipped, and *)
(* any seq once disposed, is refused and changes nothing.                   *)

\* Mutant of Accepts: window.has is not asked.
Accepts_NoWindow(s) == ~disposed /\ s \notin held

\* Mutant of Accepts: disposal is not tested.
Accepts_Disposed(s) == s >= next /\ s \notin held

\* What accept() returns.
Accepts(s) == ~disposed /\ s >= next /\ s \notin held

AcceptHeldAgain(s) ==
    /\ Idle /\ ~disposed
    /\ s \in held
    /\ s \notin replayed          \* otherwise nothing changes
    /\ replayed' = replayed \cup {s}
    /\ out' = 0
    /\ UNCHANGED <<next, held, timer, gapRuns, disposed, loop, delivered>>

AcceptAhead(s, isReplay) ==
    /\ Idle
    /\ Accepts(s)
    /\ s # next
    /\ held' = held \cup {s}
    /\ replayed' = IF isReplay THEN replayed \cup {s} ELSE replayed
    /\ timer' = TRUE
    /\ out' = 0
    /\ UNCHANGED <<next, gapRuns, disposed, loop, delivered>>

AcceptNext(s) ==
    /\ Idle
    /\ Accepts(s)
    /\ s = next
    /\ DeliverSeq(s, [by |-> "accept", cutoff |-> 0, released |-> TRUE])

Accept(s, isReplay) ==
    \/ AcceptNext(s)
    \/ AcceptAhead(s, isReplay)
    \/ isReplay /\ AcceptHeldAgain(s)

-----------------------------------------------------------------------------
(* The release loops: skipQueueThrough, then drain.                         *)

\* Held messages up to the cutoff go whatever is missing below them, then
\* those that follow on without a gap.
Releasable(h) == h <= loop.cutoff \/ h = next

ReleaseNext ==
    /\ ~Idle
    /\ \E h \in held :
         /\ IsMin(h, held)
         /\ Releasable(h)
         /\ DeliverSeq(h, [loop EXCEPT !.released = TRUE])

\* Mutant of LoopEnds: drain clears the timer though a gap remains.
LoopEnds_ClearsTimer ==
    /\ ~Idle
    /\ \A h \in held : ~Releasable(h)
    /\ timer' = (held # {} /\ loop.by = "recoverGap")
    /\ loop' = NoLoop
    /\ out' = 0
    /\ UNCHANGED <<next, held, replayed, gapRuns, disposed, delivered>>

\* The loop's end: drain clears the timer once nothing is held, and each
\* caller decides whether what is still held gets a fresh gap timer.
LoopEnds ==
    /\ ~Idle
    /\ \A h \in held : ~Releasable(h)
    /\ timer' = /\ held # {}
                /\ \/ timer
                   \/ loop.by = "skipThrough" /\ loop.released
                   \/ loop.by = "recoverGap"
    /\ loop' = NoLoop
    /\ out' = 0
    /\ UNCHANGED <<next, held, replayed, gapRuns, disposed, delivered>>

-----------------------------------------------------------------------------
(* The gap timer and its recovery.                                          *)

\* recoverGap up to its await: the cutoff is taken when the timer fires.
\* recoverAfterInFlight serializes the recoveries, so they end in order.
GapTimerFires ==
    /\ Idle /\ timer
    /\ timer' = FALSE
    /\ \E cutoff \in held :
         /\ IsMax(cutoff, held)
         /\ gapRuns' = Append(gapRuns, cutoff)
    /\ out' = 0
    /\ UNCHANGED <<next, held, replayed, disposed, loop, delivered>>

\* Mutant of GapRecovered: a recovery that fails does not skip the gap.
GapRecovered_NoSkip ==
    /\ Idle
    /\ gapRuns # <<>>
    /\ gapRuns' = Tail(gapRuns)
    /\ out' = 0
    /\ UNCHANGED <<next, held, replayed, timer, disposed, loop, delivered>>

\* recoverGap after its await, whether recover() resolved or threw.
GapRecovered ==
    /\ Idle
    /\ gapRuns # <<>>
    /\ gapRuns' = Tail(gapRuns)
    /\ loop' = IF disposed THEN NoLoop
               ELSE [by |-> "recoverGap", cutoff |-> Head(gapRuns), released |-> FALSE]
    /\ out' = 0
    /\ UNCHANGED <<next, held, replayed, timer, disposed, delivered>>

\* skipThrough(cutoffs), called by the owner.  With nothing held at or below
\* the cutoff it changes nothing, and is left out.
SkipThrough(cutoff) ==
    /\ Idle /\ ~disposed
    /\ \E h \in held : h <= cutoff
    /\ loop' = [by |-> "skipThrough", cutoff |-> cutoff, released |-> FALSE]
    /\ out' = 0
    /\ UNCHANGED <<next, held, replayed, timer, gapRuns, disposed, delivered>>

Dispose ==
    /\ Idle /\ ~disposed
    /\ DisposeQueue
    /\ out' = 0
    /\ UNCHANGED <<next, gapRuns, delivered>>

Loop == ReleaseNext \/ LoopEnds

Next ==
    \/ \E s \in Seqs, isReplay \in BOOLEAN : Accept(s, isReplay)
    \/ Loop
    \/ GapTimerFires
    \/ GapRecovered
    \/ \E cutoff \in Seqs : SkipThrough(cutoff)
    \/ Dispose

Spec == Init /\ [][Next]_vars

\* A loop runs to its end, an armed timer fires, and recover() settles: its
\* history fetch and its snapshot read both have deadlines.
Fairness == WF_vars(Loop) /\ WF_vars(GapTimerFires) /\ WF_vars(GapRecovered)

FairSpec == Spec /\ Fairness

-----------------------------------------------------------------------------
\* The type invariant.
TypeOK ==
    /\ next \in 1..(MaxSeq + 1)
    /\ held \subseteq Seqs
    /\ replayed \subseteq held
    /\ timer \in BOOLEAN
    /\ gapRuns \in Seq(Seqs)
    /\ disposed \in BOOLEAN
    /\ loop \in [by : Callers, cutoff : 0..MaxSeq, released : BOOLEAN]
    /\ (loop.by = "none" => loop = NoLoop)
    /\ delivered \subseteq Seqs
    /\ out \in 0..MaxSeq

\* What is held lies ahead of the window, and between handlers it lies behind
\* a real gap: nothing that could be delivered is left waiting.
HeldBehindGap ==
    /\ \A h \in held : h >= next
    /\ Idle => next \notin held

\* Between handlers, a message is only ever held while a gap timer runs or a
\* gap recovery is in flight: no message waits for a wake-up nobody scheduled.
NoStrandedHeld ==
    Idle /\ held # {} => timer \/ gapRuns # <<>>

\* An armed timer has a gap to report: when it fires, the highest held seq
\* exists (Math.max of no keys is -Infinity).
TimerHasGap == Idle /\ timer => held # {}

\* Each message reaches the callback at most once, and later than every
\* message with a lower seq: a skipped seq never comes back. Once disposed the
\* queue calls back no more, not even from a loop or a recovery under way.
ExactlyOnceInOrder ==
    [][out' # 0 => /\ ~disposed
                   /\ out' \notin delivered
                   /\ \A d \in delivered : d < out']_vars

\* A held message does not wait for ever: the gap closes, or recovery skips it.
HeldIsReleased == \A s \in Seqs : s \in held ~> s \notin held

=============================================================================
