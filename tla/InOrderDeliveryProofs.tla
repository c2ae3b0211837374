------------------------ MODULE InOrderDeliveryProofs ------------------------
(***************************************************************************)
(* The safety properties of InOrderDelivery, for every MaxSeq.  One         *)
(* inductive invariant, IInv, implies them all.                             *)
(***************************************************************************)
EXTENDS InOrderDelivery, SequenceTheorems, TLAPS

\* What is delivered lies below the window and what is held above it.
Separated ==
    /\ \A d \in delivered : d < next
    /\ \A h \in held : h >= next

\* NoStrandedHeld, extended to the steps inside a release loop.  A loop run
\* by recoverGap is the exception: it has given up its own run, and arms the
\* timer again as it ends.
Wakeable ==
    held # {} /\ loop.by # "recoverGap" => timer \/ gapRuns # <<>>

DisposedIsEmpty ==
    disposed => held = {} /\ loop = NoLoop /\ timer = FALSE

IInv ==
    /\ TypeOK
    /\ Separated
    /\ Idle => next \notin held
    /\ TimerHasGap
    /\ Wakeable
    /\ DisposedIsEmpty

-----------------------------------------------------------------------------
\* NoLoop is a loop.
LEMMA NoLoopType ==
  NoLoop \in [by : Callers, cutoff : 0..MaxSeq, released : BOOLEAN]
  BY MaxSeqAssumption DEF NoLoop, Callers

\* What dispose() leaves is well-typed.
LEMMA DisposedType ==
  ASSUME DisposeQueue
  PROVE  /\ held' = {} /\ replayed' = {}
         /\ timer' \in BOOLEAN /\ disposed' \in BOOLEAN
         /\ loop' = NoLoop
         /\ loop' \in [by : Callers, cutoff : 0..MaxSeq, released : BOOLEAN]
<1>1. loop' = NoLoop
  BY DEF DisposeQueue
<1>2. loop' \in [by : Callers, cutoff : 0..MaxSeq, released : BOOLEAN]
  BY <1>1, NoLoopType
<1> QED
  BY <1>1, <1>2 DEF DisposeQueue

\* The initial state satisfies the invariant.
LEMMA InitIInv == Init => IInv
<1> SUFFICES ASSUME Init PROVE IInv
  OBVIOUS
<1>1. next \in 1..(MaxSeq + 1) /\ out \in 0..MaxSeq
  BY MaxSeqAssumption DEF Init
<1>2. gapRuns \in Seq(Seqs)
  BY DEF Init
<1>3. TypeOK
  BY <1>1, <1>2, NoLoopType DEF Init, TypeOK
<1> QED
  BY <1>3 DEF Init, IInv, Separated, Idle, TimerHasGap, Wakeable, DisposedIsEmpty

\* deliverSeq, from the queue or from the caller's hand: handing over a seq
\* that lies below all that is held keeps the invariant, whether or not the
\* callback disposes the queue.
LEMMA DeliverKeepsIInv ==
  ASSUME IInv, NEW s \in Seqs, NEW rest, DeliverSeq(s, rest), ~disposed,
         s >= next, \A h \in held : s <= h,
         rest \in [by : Callers \ {"none"}, cutoff : 0..MaxSeq, released : BOOLEAN],
         held # {} /\ rest.by # "recoverGap" => timer \/ gapRuns # <<>>
  PROVE  IInv'
<1> USE MaxSeqAssumption
<1>1. s \in Nat /\ next \in Nat /\ s <= MaxSeq
  BY DEF IInv, TypeOK, Seqs
<1>2. /\ next' = s + 1
      /\ delivered' = delivered \cup {s}
      /\ out' = s
      /\ gapRuns' = gapRuns
  BY DEF DeliverSeq
<1>3. Separated'
  <2>1. held' \subseteq held \ {s}
    BY DEF DeliverSeq, DisposeQueue
  <2>2. \A d \in delivered' : d < next'
    BY <1>1, <1>2 DEF IInv, Separated, TypeOK, Seqs
  <2>3. \A h \in held' : h >= next'
    BY <1>1, <1>2, <2>1 DEF IInv, TypeOK, Seqs
  <2> QED
    BY <2>2, <2>3 DEF Separated
<1>4. CASE /\ held' = held \ {s}
           /\ replayed' = replayed \ {s}
           /\ loop' = rest
           /\ UNCHANGED <<timer, disposed>>
  <2>1. rest # NoLoop
    BY DEF NoLoop
  <2>2. TypeOK'
    BY <1>1, <1>2, <1>4, <2>1 DEF IInv, TypeOK, Seqs
  <2> QED
    BY <1>2, <1>3, <1>4, <2>1, <2>2
    DEF IInv, Idle, TimerHasGap, Wakeable, DisposedIsEmpty
<1>5. CASE DisposeQueue
  <2>1. TypeOK'
    <3>1. next' \in 1..(MaxSeq + 1) /\ out' \in 0..MaxSeq /\ delivered' \subseteq Seqs
      BY <1>1, <1>2 DEF IInv, TypeOK, Seqs
    <3> QED
      BY <1>2, <1>5, <3>1, DisposedType DEF IInv, TypeOK
  <2> QED
    BY <1>3, <1>5, <2>1
    DEF IInv, Idle, TimerHasGap, Wakeable, DisposedIsEmpty, DisposeQueue
<1> QED
  BY <1>4, <1>5 DEF DeliverSeq

LEMMA NextKeepsIInv == IInv /\ [Next]_vars => IInv'
<1> SUFFICES ASSUME IInv, [Next]_vars PROVE IInv'
  OBVIOUS
<1> USE MaxSeqAssumption
<1>1. ASSUME NEW s \in Seqs, AcceptNext(s) PROVE IInv'
  <2> DEFINE rest == [by |-> "accept", cutoff |-> 0, released |-> TRUE]
  <2>1. rest \in [by : Callers \ {"none"}, cutoff : 0..MaxSeq, released : BOOLEAN]
    BY DEF Callers
  <2>2. DeliverSeq(s, rest) /\ ~disposed /\ s >= next
    BY <1>1 DEF AcceptNext, Accepts
  <2>3. \A h \in held : s <= h
    BY <1>1 DEF AcceptNext, IInv, Separated
  <2>4. held # {} => timer \/ gapRuns # <<>>
    BY <1>1 DEF AcceptNext, Idle, NoLoop, IInv, Wakeable
  <2> QED
    BY <2>1, <2>2, <2>3, <2>4, DeliverKeepsIInv
<1>2. ASSUME NEW s \in Seqs, NEW isReplay \in BOOLEAN, AcceptAhead(s, isReplay)
      PROVE  IInv'
  <2>1. s \in Nat /\ next \in Nat /\ s > next
    BY <1>2 DEF AcceptAhead, Accepts, IInv, TypeOK, Seqs
  <2>2. TypeOK'
    BY <1>2 DEF AcceptAhead, IInv, TypeOK, Seqs
  <2> QED
    BY <1>2, <2>1, <2>2
    DEF AcceptAhead, Accepts, IInv, Separated, Idle, TimerHasGap, Wakeable, DisposedIsEmpty
<1>3. ASSUME NEW s \in Seqs, AcceptHeldAgain(s) PROVE IInv'
  BY <1>3 DEF AcceptHeldAgain, IInv, TypeOK, Separated, Idle, TimerHasGap, Wakeable,
     DisposedIsEmpty
<1>4. CASE ReleaseNext
  <2>1. PICK h \in held : /\ IsMin(h, held)
                          /\ DeliverSeq(h, [loop EXCEPT !.released = TRUE])
    BY <1>4 DEF ReleaseNext
  <2> DEFINE rest == [loop EXCEPT !.released = TRUE]
  <2>2. ~disposed /\ h \in Seqs /\ h >= next
    BY <1>4 DEF ReleaseNext, IInv, DisposedIsEmpty, Idle, TypeOK, Separated
  <2>3. rest \in [by : Callers \ {"none"}, cutoff : 0..MaxSeq, released : BOOLEAN]
    BY <1>4 DEF ReleaseNext, Idle, IInv, TypeOK
  <2>4. rest.by = loop.by
    BY DEF IInv, TypeOK
  <2>5. held # {} /\ rest.by # "recoverGap" => timer \/ gapRuns # <<>>
    BY <2>4 DEF IInv, Wakeable
  <2>6. \A k \in held : h <= k
    BY <2>1 DEF IsMin
  <2> QED
    BY <2>1, <2>2, <2>3, <2>5, <2>6, DeliverKeepsIInv
<1>5. CASE LoopEnds
  <2>1. next \notin held
    BY <1>5 DEF LoopEnds, Releasable
  <2>2. TypeOK'
    <3>1. timer' \in BOOLEAN
      BY <1>5 DEF LoopEnds
    <3>2. loop' \in [by : Callers, cutoff : 0..MaxSeq, released : BOOLEAN]
      BY <1>5, NoLoopType DEF LoopEnds
    <3>3. out' \in 0..MaxSeq
      BY <1>5 DEF LoopEnds
    <3> QED
      BY <1>5, <3>1, <3>2, <3>3 DEF LoopEnds, IInv, TypeOK
  <2>3. Separated'
    BY <1>5 DEF LoopEnds, IInv, Separated
  <2> QED
    BY <1>5, <2>1, <2>2, <2>3
    DEF LoopEnds, IInv, Idle, TimerHasGap, Wakeable, DisposedIsEmpty
<1>6. CASE GapTimerFires
  <2>1. PICK cutoff \in held : gapRuns' = Append(gapRuns, cutoff)
    BY <1>6 DEF GapTimerFires
  <2>2. gapRuns' \in Seq(Seqs) /\ gapRuns' # <<>>
    BY <2>1, AppendProperties DEF IInv, TypeOK
  <2>3. /\ timer' = FALSE /\ out' = 0
        /\ UNCHANGED <<next, held, replayed, disposed, loop, delivered>>
    BY <1>6 DEF GapTimerFires
  <2>4. TypeOK'
    <3>1. out' \in 0..MaxSeq
      BY <2>3
    <3>3. timer' \in BOOLEAN
      BY <2>3
    <3>2. gapRuns' \in Seq(Seqs)
      BY <2>2
    <3> QED
      BY <2>3, <3>1, <3>2, <3>3 DEF IInv, TypeOK
  <2> QED
    BY <1>6, <2>2, <2>3, <2>4
    DEF GapTimerFires, IInv, Separated, Idle, TimerHasGap, Wakeable, DisposedIsEmpty
<1>7. CASE GapRecovered
  <2>1. gapRuns' \in Seq(Seqs) /\ Head(gapRuns) \in Seqs
    BY <1>7, HeadTailProperties DEF GapRecovered, IInv, TypeOK
  <2>2. TypeOK'
    BY <1>7, <2>1 DEF GapRecovered, IInv, TypeOK, NoLoop, Callers, Seqs
  <2> QED
    BY <1>7, <2>2
    DEF GapRecovered, IInv, Separated, Idle, NoLoop, TimerHasGap, Wakeable, DisposedIsEmpty
<1>8. ASSUME NEW cutoff \in Seqs, SkipThrough(cutoff) PROVE IInv'
  <2>1. TypeOK'
    BY <1>8 DEF SkipThrough, IInv, TypeOK, NoLoop, Callers, Seqs
  <2> QED
    BY <1>8, <2>1
    DEF SkipThrough, IInv, Separated, Idle, NoLoop, TimerHasGap, Wakeable, DisposedIsEmpty
<1>9. CASE Dispose
  <2>1. TypeOK'
    BY <1>9, DisposedType DEF Dispose, IInv, TypeOK
  <2> QED
    BY <1>9, <2>1
    DEF Dispose, DisposeQueue, IInv, Separated, Idle, TimerHasGap, Wakeable, DisposedIsEmpty
<1>10. CASE UNCHANGED vars
  BY <1>10 DEF vars, IInv, TypeOK, Separated, Idle, TimerHasGap, Wakeable, DisposedIsEmpty
<1> QED
  BY <1>1, <1>2, <1>3, <1>4, <1>5, <1>6, <1>7, <1>8, <1>9, <1>10 DEF Next, Accept, Loop

\* The invariant holds throughout every behaviour.
LEMMA IInvAlways == Spec => []IInv
<1>1. Init => IInv
  BY InitIInv
<1>2. IInv /\ [Next]_vars => IInv'
  BY NextKeepsIInv
<1> QED
  BY <1>1, <1>2, PTL DEF Spec

-----------------------------------------------------------------------------
\* Type correctness.
THEOREM TypeCorrect == Spec => []TypeOK
<1>1. IInv => TypeOK
  BY DEF IInv
<1> QED
  BY <1>1, IInvAlways, PTL

\* Between handlers nothing deliverable is left held, and all that is held
\* lies ahead of the window.
THEOREM HeldIsBehindGap == Spec => []HeldBehindGap
<1>1. IInv => HeldBehindGap
  BY DEF IInv, HeldBehindGap, Separated
<1> QED
  BY <1>1, IInvAlways, PTL

\* No message is held with neither a timer armed nor a recovery in flight.
THEOREM NothingStranded == Spec => []NoStrandedHeld
<1>1. IInv => NoStrandedHeld
  BY DEF IInv, NoStrandedHeld, Wakeable, Idle, NoLoop
<1> QED
  BY <1>1, IInvAlways, PTL

\* A gap timer never fires with nothing held.
THEOREM TimerAlwaysHasGap == Spec => []TimerHasGap
<1>1. IInv => TimerHasGap
  BY DEF IInv
<1> QED
  BY <1>1, IInvAlways, PTL

\* A disposed queue never calls back again.
LEMMA DisposedIsSilent == IInv /\ [Next]_vars => [out' # 0 => ~disposed]_vars
<1> SUFFICES ASSUME IInv, Next, disposed PROVE out' = 0
  OBVIOUS
<1> QED
  BY DEF Next, Accept, AcceptNext, Accepts, AcceptAhead, AcceptHeldAgain, Loop,
     ReleaseNext, LoopEnds, GapTimerFires, GapRecovered, SkipThrough, Dispose, IInv,
     DisposedIsEmpty

\* Each seq is handed over at most once, above every seq before it, and none
\* once the queue is disposed.
THEOREM DeliveryOrder == Spec => ExactlyOnceInOrder
<1>1. ASSUME IInv, NEW s \in Seqs, NEW rest, DeliverSeq(s, rest), s >= next
      PROVE  out' \notin delivered /\ \A d \in delivered : d < out'
  BY <1>1, MaxSeqAssumption DEF DeliverSeq, IInv, TypeOK, Separated, Seqs
<1>2. IInv /\ [Next]_vars =>
        [out' # 0 => out' \notin delivered /\ \A d \in delivered : d < out']_vars
  <2> SUFFICES ASSUME IInv, Next, out' # 0
               PROVE  out' \notin delivered /\ \A d \in delivered : d < out'
    OBVIOUS
  <2>1. (\E s \in Seqs : AcceptNext(s)) \/ ReleaseNext
    BY DEF Next, Accept, AcceptAhead, AcceptHeldAgain, Loop, LoopEnds, GapTimerFires,
       GapRecovered, SkipThrough, Dispose
  <2>2. CASE \E s \in Seqs : AcceptNext(s)
    BY <1>1, <2>2 DEF AcceptNext, Accepts
  <2>3. CASE ReleaseNext
    BY <1>1, <2>3 DEF ReleaseNext, IInv, TypeOK, Separated
  <2> QED
    BY <2>1, <2>2, <2>3
<1>3. IInv /\ [Next]_vars =>
        [out' # 0 => ~disposed /\ out' \notin delivered /\ \A d \in delivered : d < out']_vars
  BY <1>2, DisposedIsSilent
<1> QED
  BY <1>3, IInvAlways, PTL DEF Spec, ExactlyOnceInOrder

=============================================================================
