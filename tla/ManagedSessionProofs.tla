------------------------- MODULE ManagedSessionProofs -------------------------
(***************************************************************************)
(* BackendHeeded and StoppedPostsNothing, for every set of exchanges: what a *)
(* session posts, cancels and closes fits what the backend holds, though it  *)
(* only knows what its last answer said.                                     *)
(***************************************************************************)
EXTENDS ManagedSession, SequenceTheorems, WellFoundedInduction, TLAPS

-----------------------------------------------------------------------------
(* The inductive invariant.                                                  *)

CancelCalls ==
  [at : {"no", "sent", "found", "missing", "pausing", "done", "over"}, unanswered : BOOLEAN]

TypeOK ==
  /\ phase \in [Exchanges -> {"new", "waiting", "requesting", "busy", "accepted", "final"}]
  /\ queue \in Seq(Exchanges) /\ pending \subseteq Exchanges
  /\ carried \in {First, NoEx} /\ ready \in {"waiting", "resolved", "rejected"}
  /\ held \in [Exchanges -> {"unseen", "running", "done", "canceled"}]
  /\ cancels \in [Exchanges -> CancelCalls]
  /\ pump \in {"idle", "next", "posting", "pausing", "holding"}
  /\ closing \in {"no", "due", "telling", "releasing", "released"}
  /\ skip \in BOOLEAN /\ asked \in BOOLEAN
  /\ head \in Exchanges \cup {NoEx} /\ (pump # "idle" => head \in Exchanges)

\* Before the session has subscribed nothing of it is known to the backend.
OpeningFirst ==
  opening = "subscribing" =>
    beacon = "no" /\ claim # "ours" /\ ready # "resolved" /\ carried \notin pending

\* A session that has ended has settled its exchanges, and takes no more.
TerminalSettles ==
  /\ Terminal => pending = {} /\ ready # "waiting"
  /\ closing = "releasing" => Terminal

\* An exchange is sent once: the carried one with the beacon, any other through the queue.
SentOnce ==
  \A x \in Exchanges :
    /\ x = carried => /\ x \notin Queued \cup posts /\ (pump # "idle" => x # head)
                      /\ phase[x] \in {"new", "accepted", "final"}
    /\ x # carried /\ phase[x] = "new" =>
         x \notin pending \cup Queued /\ (pump # "idle" => x # head)
    /\ cancels[x].at # "no" => IF x = carried THEN opening # "subscribing" ELSE phase[x] # "new"

AnsweredIsHeld == \A x \in Exchanges : phase[x] \in {"accepted", "final"} => held[x] # "unseen"

\* What is pending waits in the queue or has reached the backend; pump() goes on from
\* its head only then.
PendingIsKnown ==
  ~Stopped =>
    /\ \A x \in pending \ {carried} : x \in Queued \/ held[x] # "unseen"
    /\ pump = "next" /\ head \in pending => held[head] # "unseen"

\* Nothing runs in a session nobody has claimed; claiming it starts the carried exchange.
ClaimedFirst ==
  /\ claim = "nobody" => \A x \in Exchanges : held[x] = "unseen"
  /\ claim = "ours" /\ carried # NoEx => held[carried] # "unseen"

NeverRuns(x) == held[x] = "unseen" /\ x = carried /\ ~BeaconOut
Ended(x) == held[x] \in {"done", "canceled"}

\* What a cancel() knows of the exchange at each of its stages. A request sent when the
\* exchange was neither unsent nor unanswered finds it, unless it never reaches the backend.
CancelsKnow ==
  \A x \in Exchanges :
    /\ cancels[x].at = "found" => Ended(x)
    /\ x \in pending /\ ~Stopped =>
         /\ cancels[x].at = "sent" /\ ~cancels[x].unanswered => held[x] # "unseen" \/ NeverRuns(x)
         /\ cancels[x].at = "missing" /\ ~cancels[x].unanswered => NeverRuns(x)
         /\ cancels[x].at = "done" => Ended(x) \/ NeverRuns(x)

\* Why a session has stopped, and that pump() only has to find out.
StoppedIsQuiet ==
  /\ Stopped => pump \in {"idle", "next"} /\ (asked \/ Terminal)
  /\ closing \in {"due", "telling"} => asked

AlreadySkips == beacon = "already" => skip

IInv ==
  /\ TypeOK /\ OpeningFirst /\ TerminalSettles /\ SentOnce /\ AnsweredIsHeld /\ PendingIsKnown
  /\ ClaimedFirst /\ CancelsKnow /\ StoppedIsQuiet /\ AlreadySkips
  /\ SlotHeld /\ SparesOtherHolder

-----------------------------------------------------------------------------
(* The queue.                                                                *)

\* A non-empty set of natural numbers has a least element.
LEMMA Least ==
  ASSUME NEW I \in SUBSET Nat, I # {}
  PROVE  \E m \in I : \A k \in I : m <= k
  <1> DEFINE R == {ss \in Nat \X Nat : ss[1] < ss[2]}
  <1>1. IsWellFoundedOn(R, Nat)
    <2>1. OpToRel(<, Nat) = R
      BY Zenon DEF OpToRel
    <2>2. IsWellFoundedOn(OpToRel(<, Nat), Nat)
      BY NatLessThanWellFounded, Zenon
    <2> QED BY <2>1, <2>2, Zenon
  <1>2. \A k, m \in Nat : k < m => <<k, m>> \in R
    OBVIOUS
  <1> HIDE DEF R
  <1>3. PICK m \in I : \A k \in I : ~(<<k, m>> \in R)
    BY <1>1, WFMin
  <1>4. \A k \in I : m <= k
    <2> TAKE k \in I
    <2>1. ~(k < m)
      BY <1>2, <1>3
    <2> QED BY <2>1
  <1> QED BY <1>4

LEMMA RemoveFirstIs ==
  ASSUME NEW S, NEW q \in Seq(S), NEW e
  PROVE  /\ RemoveFirst(q, e) \in Seq(S)
         /\ ToSet(RemoveFirst(q, e)) \subseteq ToSet(q)
         /\ ToSet(q) \ {e} \subseteq ToSet(RemoveFirst(q, e))
  <1>1. CASE ~\E i \in 1..Len(q) : q[i] = e
    BY <1>1 DEF RemoveFirst
  <1>2. CASE \E i \in 1..Len(q) : q[i] = e
    <2> DEFINE I == {i \in 1..Len(q) : q[i] = e}
               n == Min(I)
               front == SubSeq(q, 1, n - 1)
               back == SubSeq(q, n + 1, Len(q))
               r == front \o back
    <2>1. I # {} /\ I \in SUBSET Nat /\ \A i \in I : i \in 1..Len(q) /\ q[i] = e
      BY <1>2
    <2>2. RemoveFirst(q, e) = RemoveAt(q, n)
      BY <1>2 DEF RemoveFirst, SelectInSeq
    <2>3. RemoveFirst(q, e) = r
      BY <2>2 DEF RemoveAt
    <2> HIDE DEF I
    <2>4. \E m \in I : \A k \in I : m <= k
      BY <2>1, Least
    <2>5. n \in 1..Len(q) /\ q[n] = e
      BY <2>1, <2>4 DEF Min
    <2> HIDE DEF n
    <2>6. front \in Seq(S) /\ Len(front) = n - 1 /\ \A i \in 1..n - 1 : front[i] = q[i]
      BY <2>5
    <2>7. back \in Seq(S) /\ Len(back) = Len(q) - n /\ \A i \in 1..Len(q) - n : back[i] = q[i + n]
      BY <2>5
    <2> HIDE DEF front, back
    <2>8. r \in Seq(S) /\ Len(r) = Len(q) - 1
      <3>1. Len(q) \in Nat /\ n \in Nat
        BY <2>5
      <3>2. r \in Seq(S) /\ Len(r) = Len(front) + Len(back)
        BY <2>6, <2>7, ConcatProperties
      <3> QED BY <2>6, <2>7, <3>1, <3>2
    <2>9. \A i \in 1..n - 1 : r[i] = q[i]
      BY <2>5, <2>6, <2>7
    <2>10. \A i \in n..Len(q) - 1 : r[i] = q[i + 1]
      <3> TAKE i \in n..Len(q) - 1
      <3>1. r[i] = back[i - (n - 1)]
        BY <2>5, <2>6, <2>7
      <3>2. i - (n - 1) \in 1..Len(q) - n /\ i - (n - 1) + n = i + 1
        BY <2>5
      <3> QED BY <2>7, <3>1, <3>2
    <2> HIDE DEF r
    <2>11. ToSet(r) \subseteq ToSet(q)
      <3> SUFFICES ASSUME NEW i \in 1..Len(q) - 1
                   PROVE  \E j \in 1..Len(q) : r[i] = q[j]
        BY <2>8 DEF ToSet
      <3>1. CASE i < n
        BY <2>5, <2>9, <3>1
      <3>2. CASE ~(i < n)
        <4>1. r[i] = q[i + 1] /\ i + 1 \in 1..Len(q)
          BY <2>5, <2>10, <3>2
        <4> QED BY <4>1
      <3> QED BY <3>1, <3>2
    <2>12. ToSet(q) \ {e} \subseteq ToSet(r)
      <3> SUFFICES ASSUME NEW j \in 1..Len(q), q[j] # e
                   PROVE  \E i \in 1..Len(q) - 1 : r[i] = q[j]
        BY <2>8 DEF ToSet
      <3>1. CASE j < n
        <4>1. j \in 1..Len(q) - 1 /\ r[j] = q[j]
          BY <2>5, <2>9, <3>1
        <4> QED BY <4>1
      <3>2. CASE j > n
        <4>1. j - 1 \in 1..Len(q) - 1 /\ r[j - 1] = q[j]
          BY <2>5, <2>10, <3>2
        <4> QED BY <4>1
      <3> QED BY <2>5, <3>1, <3>2
    <2> QED BY <2>3, <2>8, <2>11, <2>12
  <1> QED BY <1>1, <1>2

LEMMA AppendIs ==
  ASSUME NEW S, NEW q \in Seq(S), NEW e \in S
  PROVE  Append(q, e) \in Seq(S) /\ ToSet(Append(q, e)) = ToSet(q) \cup {e}
  <1>1. ToSet(Append(q, e)) \subseteq ToSet(q) \cup {e}
    BY DEF ToSet
  <1>2. \A i \in DOMAIN q : i \in DOMAIN Append(q, e) /\ Append(q, e)[i] = q[i]
    OBVIOUS
  <1>3. Len(q) + 1 \in DOMAIN Append(q, e) /\ Append(q, e)[Len(q) + 1] = e
    OBVIOUS
  <1> QED BY <1>1, <1>2, <1>3 DEF ToSet

LEMMA HeadIs ==
  ASSUME NEW S, NEW q \in Seq(S), q # <<>>
  PROVE  Head(q) \in S /\ Head(q) \in ToSet(q)
  BY DEF ToSet


-----------------------------------------------------------------------------
(* Each action keeps the inductive invariant.                                *)

LEMMA KeepSend ==
  ASSUME IInv, NEW x \in Exchanges, Send(x)
  PROVE  IInv'
  <1>0. queue' \in Seq(Exchanges) /\ Queued' = Queued \cup {x}
    BY AppendIs DEF IInv, TypeOK, Send, Queued
  <1>1. TypeOK'
    BY <1>0 DEF IInv, TypeOK, CancelCalls, Send, Post, sessionVars
  <1>2. OpeningFirst'
    BY DEF IInv, OpeningFirst, TypeOK, SentOnce, CancelCalls, Send, Post, sessionVars
  <1>3. TerminalSettles'
    BY DEF IInv, TerminalSettles, OpeningFirst, TypeOK, Terminal, CancelCalls, Send, Post,
       sessionVars
  <1>4. SentOnce'
    BY <1>0 DEF IInv, SentOnce, OpeningFirst, TypeOK, CancelCalls, Send, Post, sessionVars
  <1>5. AnsweredIsHeld'
    BY DEF IInv, AnsweredIsHeld, TypeOK, CancelCalls, Send, Post, sessionVars
  <1>6. PendingIsKnown'
    BY <1>0 DEF IInv, PendingIsKnown, TypeOK, TerminalSettles, AnsweredIsHeld, SentOnce,
       Stopped, CancelCalls, Terminal, Send, Post, sessionVars
  <1>7. CancelsKnow'
    BY DEF IInv, CancelsKnow, TypeOK, PendingIsKnown, AnsweredIsHeld, ClaimedFirst,
       SentOnce, OpeningFirst, Stopped, BeaconOut, NeverRuns, Ended, CancelCalls, Send,
       Post, sessionVars
  <1>8. StoppedIsQuiet'
    BY DEF IInv, StoppedIsQuiet, TypeOK, TerminalSettles, Stopped, Terminal, CancelCalls,
       Send, Post, sessionVars
  <1>9. SlotHeld'
    BY DEF IInv, SlotHeld, TypeOK, SentOnce, PendingIsKnown, TerminalSettles,
       AnsweredIsHeld, Stopped, CancelCalls, Terminal, Send, Post, sessionVars
  <1>10. ClaimedFirst' /\ AlreadySkips' /\ SparesOtherHolder'
    BY DEF IInv, ClaimedFirst, AlreadySkips, SparesOtherHolder, Send, sessionVars
  <1> QED BY <1>1, <1>2, <1>3, <1>4, <1>5, <1>6, <1>7, <1>8, <1>9, <1>10 DEF IInv

LEMMA KeepRecoverTimerFires ==
  ASSUME IInv, NEW x \in Exchanges, RecoverTimerFires(x)
  PROVE  IInv'
  <1>1. TypeOK'
    BY DEF IInv, TypeOK, CancelCalls, RecoverTimerFires, Received, Settle, Woken,
       Terminal, backendVars
  <1>2. OpeningFirst'
    BY DEF IInv, OpeningFirst, TypeOK, SentOnce, CancelCalls, Queued, RecoverTimerFires,
       Received, Settle, Woken, Terminal, backendVars
  <1>3. TerminalSettles'
    BY DEF IInv, TerminalSettles, OpeningFirst, TypeOK, Terminal, CancelCalls,
       RecoverTimerFires, Received, Settle, Woken, backendVars
  <1>4. SentOnce'
    BY DEF IInv, SentOnce, OpeningFirst, TypeOK, Queued, CancelCalls, RecoverTimerFires,
       Received, Settle, Woken, Terminal, backendVars
  <1>5. PendingIsKnown'
    BY DEF IInv, PendingIsKnown, TypeOK, TerminalSettles, AnsweredIsHeld, SentOnce,
       Stopped, Queued, CancelCalls, Terminal, RecoverTimerFires, Received, Settle, Woken,
       backendVars
  <1>6. CancelsKnow'
    BY DEF IInv, CancelsKnow, TypeOK, PendingIsKnown, AnsweredIsHeld, ClaimedFirst,
       SentOnce, OpeningFirst, Stopped, BeaconOut, NeverRuns, Ended, CancelCalls, Queued,
       RecoverTimerFires, Received, Settle, Woken, Terminal, backendVars
  <1>7. StoppedIsQuiet'
    BY DEF IInv, StoppedIsQuiet, TypeOK, TerminalSettles, Stopped, Terminal, CancelCalls,
       RecoverTimerFires, Received, Settle, Woken, backendVars
  <1>8. AlreadySkips'
    BY DEF IInv, AlreadySkips, TypeOK, CancelCalls, RecoverTimerFires, Received, Settle,
       Woken, Terminal, backendVars
  <1>9. SlotHeld'
    BY DEF IInv, SlotHeld, TypeOK, SentOnce, PendingIsKnown, TerminalSettles,
       AnsweredIsHeld, Stopped, CancelCalls, Queued, Terminal, RecoverTimerFires,
       Received, Settle, Woken, backendVars
  <1>10. AnsweredIsHeld' /\ ClaimedFirst' /\ SparesOtherHolder'
    BY DEF IInv, AnsweredIsHeld, ClaimedFirst, SparesOtherHolder, RecoverTimerFires,
       backendVars
  <1> QED BY <1>1, <1>2, <1>3, <1>4, <1>5, <1>6, <1>7, <1>8, <1>9, <1>10 DEF IInv

LEMMA KeepCancel ==
  ASSUME IInv, NEW x \in Exchanges, Cancel(x)
  PROVE  IInv'
  <1>0. /\ queue' \in Seq(Exchanges) /\ Queued' \subseteq Queued
        /\ Queued \ {x} \subseteq Queued'
        /\ Queued' = Queued \/ x \notin pending'
    BY RemoveFirstIs DEF IInv, TypeOK, Queued, Cancel, CancelTurn, Settle
  <1>1. TypeOK'
    <2>1. Unanswered(x) \in BOOLEAN
      BY DEF Unanswered, BeaconOut
    <2>2. Over \in CancelCalls /\ [at |-> "sent", unanswered |-> Unanswered(x)] \in CancelCalls
      BY <2>1 DEF CancelCalls, Over
    <2>3. cancels' \in [Exchanges -> CancelCalls]
      BY <2>2 DEF IInv, TypeOK, Cancel, CancelTurn
    <2> QED BY <1>0, <2>3 DEF IInv, TypeOK, Cancel, CancelTurn, Settle, sessionVars,
              backendVars
  <1>2. OpeningFirst'
    BY DEF IInv, OpeningFirst, TypeOK, SentOnce, CancelCalls, Cancel, CancelTurn, Settle,
       Unsent, Unanswered, BeaconOut, Over, sessionVars, backendVars
  <1>3. TerminalSettles'
    BY DEF IInv, TerminalSettles, OpeningFirst, TypeOK, Terminal, CancelCalls, Cancel,
       CancelTurn, Settle, Unsent, Unanswered, BeaconOut, Over, sessionVars, backendVars
  <1>4. SentOnce'
    BY <1>0 DEF IInv, SentOnce, OpeningFirst, TypeOK, CancelCalls, Cancel, CancelTurn,
       Settle, Unsent, Unanswered, BeaconOut, Over, sessionVars, backendVars
  <1>5. PendingIsKnown'
    BY <1>0 DEF IInv, PendingIsKnown, TypeOK, TerminalSettles, AnsweredIsHeld, SentOnce,
       Stopped, CancelCalls, Terminal, Cancel, CancelTurn, Settle, Unsent, Unanswered,
       BeaconOut, Over, sessionVars, backendVars
  <1>6. CancelsKnow'
    <2>1. x \in pending /\ ~Stopped /\ ~Unsent(x) /\ ~Unanswered(x) =>
             held[x] # "unseen" \/ NeverRuns(x)
      BY DEF IInv, TypeOK, PendingIsKnown, AnsweredIsHeld, SentOnce, Unsent, Unanswered,
         NeverRuns
    <2>2. UNCHANGED <<held, carried, beacon, closing>> /\ pending' \subseteq pending
      BY DEF Cancel, CancelTurn, Settle, sessionVars, backendVars
    <2>3. \A y \in Exchanges : y # x => cancels'[y] = cancels[y]
      BY DEF IInv, TypeOK, Cancel, CancelTurn
    <2>4. \/ cancels'[x] = Over
          \/ /\ x \in pending /\ ~Unsent(x)
             /\ cancels'[x] = [at |-> "sent", unanswered |-> Unanswered(x)]
      BY DEF IInv, TypeOK, Cancel, CancelTurn
    <2> QED BY <2>1, <2>2, <2>3, <2>4 DEF IInv, CancelsKnow, Stopped, NeverRuns, Ended,
              BeaconOut, Over
  <1>7. StoppedIsQuiet'
    BY DEF IInv, StoppedIsQuiet, TypeOK, TerminalSettles, Stopped, Terminal, CancelCalls,
       Cancel, CancelTurn, Settle, Unsent, Unanswered, BeaconOut, Over, sessionVars,
       backendVars
  <1>8. SlotHeld'
    BY DEF IInv, SlotHeld, TypeOK, SentOnce, PendingIsKnown, TerminalSettles,
       AnsweredIsHeld, Stopped, CancelCalls, Terminal, Cancel, CancelTurn, Settle, Unsent,
       Unanswered, BeaconOut, Over, sessionVars, backendVars
  <1>9. AnsweredIsHeld' /\ ClaimedFirst' /\ AlreadySkips' /\ SparesOtherHolder'
    BY DEF IInv, AnsweredIsHeld, ClaimedFirst, AlreadySkips, SparesOtherHolder, Cancel,
       sessionVars, backendVars
  <1> QED BY <1>1, <1>2, <1>3, <1>4, <1>5, <1>6, <1>7, <1>8, <1>9 DEF IInv

LEMMA KeepCancelServed ==
  ASSUME IInv, NEW x \in Exchanges, CancelServed(x)
  PROVE  IInv'
  <1>1. TypeOK'
    BY DEF IInv, TypeOK, CancelCalls, CancelServed, sessionVars, pumpVars
  <1>2. SentOnce'
    BY DEF IInv, SentOnce, OpeningFirst, TypeOK, Queued, CancelCalls, CancelServed,
       sessionVars, pumpVars
  <1>3. AnsweredIsHeld'
    BY DEF IInv, AnsweredIsHeld, TypeOK, CancelCalls, CancelServed, sessionVars, pumpVars
  <1>4. PendingIsKnown'
    BY DEF IInv, PendingIsKnown, TypeOK, TerminalSettles, AnsweredIsHeld, SentOnce,
       Stopped, Queued, CancelCalls, Terminal, CancelServed, sessionVars, pumpVars
  <1>5. ClaimedFirst'
    BY DEF IInv, ClaimedFirst, TypeOK, OpeningFirst, CancelCalls, CancelServed,
       sessionVars, pumpVars
  <1>6. CancelsKnow'
    BY DEF IInv, CancelsKnow, TypeOK, PendingIsKnown, AnsweredIsHeld, ClaimedFirst,
       SentOnce, OpeningFirst, Stopped, BeaconOut, NeverRuns, Ended, CancelCalls, Queued,
       CancelServed, sessionVars, pumpVars
  <1>7. OpeningFirst' /\ TerminalSettles' /\ StoppedIsQuiet' /\ AlreadySkips' /\ SlotHeld'
        /\ SparesOtherHolder'
    BY DEF IInv, OpeningFirst, TerminalSettles, StoppedIsQuiet, AlreadySkips, SlotHeld,
       SparesOtherHolder, Terminal, Stopped, CancelServed, sessionVars, pumpVars
  <1> QED BY <1>1, <1>2, <1>3, <1>4, <1>5, <1>6, <1>7 DEF IInv

LEMMA KeepCancelHeard ==
  ASSUME IInv, NEW x \in Exchanges, CancelHeard(x)
  PROVE  IInv'
  <1>1. TypeOK'
    BY DEF IInv, TypeOK, CancelCalls, CancelHeard, sessionVars, pumpVars, backendVars
  <1>2. SentOnce'
    BY DEF IInv, SentOnce, OpeningFirst, TypeOK, Queued, CancelCalls, CancelHeard,
       sessionVars, pumpVars, backendVars
  <1>3. CancelsKnow'
    BY DEF IInv, CancelsKnow, TypeOK, PendingIsKnown, AnsweredIsHeld, ClaimedFirst,
       SentOnce, OpeningFirst, Stopped, BeaconOut, NeverRuns, Ended, CancelCalls, Queued,
       CancelHeard, sessionVars, pumpVars, backendVars
  <1>4. OpeningFirst' /\ TerminalSettles' /\ AnsweredIsHeld' /\ PendingIsKnown'
        /\ ClaimedFirst' /\ StoppedIsQuiet' /\ AlreadySkips' /\ SlotHeld'
        /\ SparesOtherHolder'
    BY DEF IInv, OpeningFirst, TerminalSettles, AnsweredIsHeld, PendingIsKnown,
       ClaimedFirst, StoppedIsQuiet, AlreadySkips, SlotHeld, SparesOtherHolder, Terminal,
       Stopped, Queued, CancelHeard, sessionVars, pumpVars, backendVars
  <1> QED BY <1>1, <1>2, <1>3, <1>4 DEF IInv

LEMMA KeepCancelAgain ==
  ASSUME IInv, NEW x \in Exchanges, CancelAgain(x)
  PROVE  IInv'
  <1>0. /\ queue' \in Seq(Exchanges) /\ Queued' \subseteq Queued
        /\ Queued \ {x} \subseteq Queued'
        /\ Queued' = Queued \/ x \notin pending'
    BY RemoveFirstIs DEF IInv, TypeOK, Queued, CancelAgain, CancelTurn, Settle
  <1>1. TypeOK'
    <2>1. Unanswered(x) \in BOOLEAN
      BY DEF Unanswered, BeaconOut
    <2>2. Over \in CancelCalls /\ [at |-> "sent", unanswered |-> Unanswered(x)] \in CancelCalls
      BY <2>1 DEF CancelCalls, Over
    <2>3. cancels' \in [Exchanges -> CancelCalls]
      BY <2>2 DEF IInv, TypeOK, CancelAgain, CancelTurn
    <2> QED BY <1>0, <2>3 DEF IInv, TypeOK, CancelAgain, CancelTurn, Settle, sessionVars,
              backendVars
  <1>2. OpeningFirst'
    BY DEF IInv, OpeningFirst, TypeOK, SentOnce, CancelCalls, CancelAgain, CancelTurn,
       Settle, Unsent, Unanswered, BeaconOut, Over, sessionVars, backendVars
  <1>3. TerminalSettles'
    BY DEF IInv, TerminalSettles, OpeningFirst, TypeOK, Terminal, CancelCalls,
       CancelAgain, CancelTurn, Settle, Unsent, Unanswered, BeaconOut, Over, sessionVars,
       backendVars
  <1>4. SentOnce'
    BY <1>0 DEF IInv, SentOnce, OpeningFirst, TypeOK, CancelCalls, CancelAgain,
       CancelTurn, Settle, Unsent, Unanswered, BeaconOut, Over, sessionVars, backendVars
  <1>5. PendingIsKnown'
    BY <1>0 DEF IInv, PendingIsKnown, TypeOK, TerminalSettles, AnsweredIsHeld, SentOnce,
       Stopped, CancelCalls, Terminal, CancelAgain, CancelTurn, Settle, Unsent,
       Unanswered, BeaconOut, Over, sessionVars, backendVars
  <1>6. CancelsKnow'
    <2>1. x \in pending /\ ~Stopped /\ ~Unsent(x) /\ ~Unanswered(x) =>
             held[x] # "unseen" \/ NeverRuns(x)
      BY DEF IInv, TypeOK, PendingIsKnown, AnsweredIsHeld, SentOnce, Unsent, Unanswered,
         NeverRuns
    <2>2. UNCHANGED <<held, carried, beacon, closing>> /\ pending' \subseteq pending
      BY DEF CancelAgain, CancelTurn, Settle, sessionVars, backendVars
    <2>3. \A y \in Exchanges : y # x => cancels'[y] = cancels[y]
      BY DEF IInv, TypeOK, CancelAgain, CancelTurn
    <2>4. \/ cancels'[x] = Over
          \/ /\ x \in pending /\ ~Unsent(x)
             /\ cancels'[x] = [at |-> "sent", unanswered |-> Unanswered(x)]
      BY DEF IInv, TypeOK, CancelAgain, CancelTurn
    <2> QED BY <2>1, <2>2, <2>3, <2>4 DEF IInv, CancelsKnow, Stopped, NeverRuns, Ended,
              BeaconOut, Over
  <1>7. StoppedIsQuiet'
    BY DEF IInv, StoppedIsQuiet, TypeOK, TerminalSettles, Stopped, Terminal, CancelCalls,
       CancelAgain, CancelTurn, Settle, Unsent, Unanswered, BeaconOut, Over, sessionVars,
       backendVars
  <1>8. SlotHeld'
    BY DEF IInv, SlotHeld, TypeOK, SentOnce, PendingIsKnown, TerminalSettles,
       AnsweredIsHeld, Stopped, CancelCalls, Terminal, CancelAgain, CancelTurn, Settle,
       Unsent, Unanswered, BeaconOut, Over, sessionVars, backendVars
  <1>9. AnsweredIsHeld' /\ ClaimedFirst' /\ AlreadySkips' /\ SparesOtherHolder'
    BY DEF IInv, AnsweredIsHeld, ClaimedFirst, AlreadySkips, SparesOtherHolder,
       CancelAgain, sessionVars, backendVars
  <1> QED BY <1>1, <1>2, <1>3, <1>4, <1>5, <1>6, <1>7, <1>8, <1>9 DEF IInv

LEMMA KeepCancelFails ==
  ASSUME IInv, NEW x \in Exchanges, CancelFails(x)
  PROVE  IInv'
  <1>1. TypeOK'
    BY DEF IInv, TypeOK, CancelCalls, CancelFails, Over, sessionVars, pumpVars,
       backendVars
  <1>2. SentOnce'
    BY DEF IInv, SentOnce, OpeningFirst, TypeOK, Queued, CancelCalls, CancelFails, Over,
       sessionVars, pumpVars, backendVars
  <1>3. CancelsKnow'
    BY DEF IInv, CancelsKnow, TypeOK, PendingIsKnown, AnsweredIsHeld, ClaimedFirst,
       SentOnce, OpeningFirst, Stopped, BeaconOut, NeverRuns, Ended, CancelCalls, Queued,
       CancelFails, Over, sessionVars, pumpVars, backendVars
  <1>4. OpeningFirst' /\ TerminalSettles' /\ AnsweredIsHeld' /\ PendingIsKnown'
        /\ ClaimedFirst' /\ StoppedIsQuiet' /\ AlreadySkips' /\ SlotHeld'
        /\ SparesOtherHolder'
    BY DEF IInv, OpeningFirst, TerminalSettles, AnsweredIsHeld, PendingIsKnown,
       ClaimedFirst, StoppedIsQuiet, AlreadySkips, SlotHeld, SparesOtherHolder, Terminal,
       Stopped, Queued, CancelFails, sessionVars, pumpVars, backendVars
  <1> QED BY <1>1, <1>2, <1>3, <1>4 DEF IInv

LEMMA KeepOutcomeArrives ==
  ASSUME IInv, NEW x \in Exchanges, OutcomeArrives(x)
  PROVE  IInv'
  <1>1. TypeOK'
    BY DEF IInv, TypeOK, CancelCalls, OutcomeArrives, Received, Settle, Woken, Terminal
  <1>2. OpeningFirst'
    BY DEF IInv, OpeningFirst, TypeOK, SentOnce, CancelCalls, Queued, OutcomeArrives,
       Received, Settle, Woken, Terminal
  <1>3. TerminalSettles'
    BY DEF IInv, TerminalSettles, OpeningFirst, TypeOK, Terminal, CancelCalls,
       OutcomeArrives, Received, Settle, Woken
  <1>4. SentOnce'
    BY DEF IInv, SentOnce, OpeningFirst, TypeOK, Queued, CancelCalls, OutcomeArrives,
       Received, Settle, Woken, Terminal
  <1>5. PendingIsKnown'
    BY DEF IInv, PendingIsKnown, TypeOK, TerminalSettles, AnsweredIsHeld, SentOnce,
       Stopped, Queued, CancelCalls, Terminal, OutcomeArrives, Received, Settle, Woken
  <1>6. CancelsKnow'
    BY DEF IInv, CancelsKnow, TypeOK, PendingIsKnown, AnsweredIsHeld, ClaimedFirst,
       SentOnce, OpeningFirst, Stopped, BeaconOut, NeverRuns, Ended, CancelCalls, Queued,
       OutcomeArrives, Received, Settle, Woken, Terminal
  <1>7. StoppedIsQuiet'
    BY DEF IInv, StoppedIsQuiet, TypeOK, TerminalSettles, Stopped, Terminal, CancelCalls,
       OutcomeArrives, Received, Settle, Woken
  <1>8. AlreadySkips'
    BY DEF IInv, AlreadySkips, TypeOK, CancelCalls, OutcomeArrives, Received, Settle,
       Woken, Terminal
  <1>9. SlotHeld'
    BY DEF IInv, SlotHeld, TypeOK, SentOnce, PendingIsKnown, TerminalSettles,
       AnsweredIsHeld, Stopped, CancelCalls, Queued, Terminal, OutcomeArrives, Received,
       Settle, Woken
  <1>10. AnsweredIsHeld' /\ ClaimedFirst' /\ SparesOtherHolder'
    BY DEF IInv, AnsweredIsHeld, ClaimedFirst, SparesOtherHolder, OutcomeArrives
  <1> QED BY <1>1, <1>2, <1>3, <1>4, <1>5, <1>6, <1>7, <1>8, <1>9, <1>10 DEF IInv

LEMMA KeepOutcomeLost ==
  ASSUME IInv, NEW x \in Exchanges, OutcomeLost(x)
  PROVE  IInv'
  <1>1. TypeOK' /\ OpeningFirst' /\ TerminalSettles' /\ SentOnce' /\ AnsweredIsHeld'
        /\ PendingIsKnown' /\ ClaimedFirst' /\ CancelsKnow' /\ StoppedIsQuiet'
        /\ AlreadySkips' /\ SlotHeld' /\ SparesOtherHolder'
    BY DEF IInv, TypeOK, OpeningFirst, TerminalSettles, SentOnce, AnsweredIsHeld,
       PendingIsKnown, ClaimedFirst, CancelsKnow, StoppedIsQuiet, AlreadySkips, SlotHeld,
       SparesOtherHolder, CancelCalls, Terminal, Queued, Stopped, BeaconOut, NeverRuns,
       Ended, OutcomeLost, sessionVars, pumpVars
  <1> QED BY <1>1 DEF IInv

LEMMA KeepStarted ==
  ASSUME IInv, NEW x \in Exchanges, Started(x)
  PROVE  IInv'
  <1>1. TypeOK'
    BY DEF IInv, TypeOK, CancelCalls, Started, sessionVars, pumpVars
  <1>2. SentOnce'
    BY DEF IInv, SentOnce, OpeningFirst, TypeOK, Queued, CancelCalls, Started,
       sessionVars, pumpVars
  <1>3. AnsweredIsHeld'
    BY DEF IInv, AnsweredIsHeld, TypeOK, CancelCalls, Started, sessionVars, pumpVars
  <1>4. PendingIsKnown'
    BY DEF IInv, PendingIsKnown, TypeOK, TerminalSettles, AnsweredIsHeld, SentOnce,
       Stopped, Queued, CancelCalls, Terminal, Started, sessionVars, pumpVars
  <1>5. ClaimedFirst'
    BY DEF IInv, ClaimedFirst, TypeOK, OpeningFirst, CancelCalls, Started, sessionVars,
       pumpVars
  <1>6. CancelsKnow'
    BY DEF IInv, CancelsKnow, TypeOK, PendingIsKnown, AnsweredIsHeld, ClaimedFirst,
       SentOnce, OpeningFirst, Stopped, BeaconOut, NeverRuns, Ended, CancelCalls, Queued,
       Started, sessionVars, pumpVars
  <1>7. OpeningFirst' /\ TerminalSettles' /\ StoppedIsQuiet' /\ AlreadySkips' /\ SlotHeld'
        /\ SparesOtherHolder'
    BY DEF IInv, OpeningFirst, TerminalSettles, StoppedIsQuiet, AlreadySkips, SlotHeld,
       SparesOtherHolder, Terminal, Stopped, Started, sessionVars, pumpVars
  <1> QED BY <1>1, <1>2, <1>3, <1>4, <1>5, <1>6, <1>7 DEF IInv

LEMMA KeepFinished ==
  ASSUME IInv, NEW x \in Exchanges, Finished(x)
  PROVE  IInv'
  <1>1. TypeOK'
    BY DEF IInv, TypeOK, CancelCalls, Finished, sessionVars, pumpVars
  <1>2. AnsweredIsHeld'
    BY DEF IInv, AnsweredIsHeld, TypeOK, CancelCalls, Finished, sessionVars, pumpVars
  <1>3. PendingIsKnown'
    BY DEF IInv, PendingIsKnown, TypeOK, TerminalSettles, AnsweredIsHeld, SentOnce,
       Stopped, Queued, CancelCalls, Terminal, Finished, sessionVars, pumpVars
  <1>4. ClaimedFirst'
    BY DEF IInv, ClaimedFirst, TypeOK, OpeningFirst, CancelCalls, Finished, sessionVars,
       pumpVars
  <1>5. CancelsKnow'
    BY DEF IInv, CancelsKnow, TypeOK, PendingIsKnown, AnsweredIsHeld, ClaimedFirst,
       SentOnce, OpeningFirst, Stopped, BeaconOut, NeverRuns, Ended, CancelCalls, Queued,
       Finished, sessionVars, pumpVars
  <1>6. OpeningFirst' /\ TerminalSettles' /\ SentOnce' /\ StoppedIsQuiet' /\ AlreadySkips'
        /\ SlotHeld' /\ SparesOtherHolder'
    BY DEF IInv, OpeningFirst, TerminalSettles, SentOnce, StoppedIsQuiet, AlreadySkips,
       SlotHeld, SparesOtherHolder, Terminal, Queued, Stopped, Finished, sessionVars,
       pumpVars
  <1> QED BY <1>1, <1>2, <1>3, <1>4, <1>5, <1>6 DEF IInv

LEMMA KeepPumpGoesOn ==
  ASSUME IInv, PumpGoesOn
  PROVE  IInv'
  <1>0. /\ queue' \in Seq(Exchanges) /\ Queued' \subseteq Queued
        /\ Queued \ {head} \subseteq Queued'
    BY RemoveFirstIs DEF IInv, TypeOK, Queued, PumpGoesOn
  <1>q. queue' # <<>> => Head(queue') \in Exchanges /\ Head(queue') \in Queued
    BY <1>0, HeadIs DEF Queued
  <1>1. TypeOK'
    BY <1>0, <1>q DEF IInv, TypeOK, CancelCalls, PumpGoesOn, Post, Stopped, sessionVars
  <1>2. SentOnce'
    BY <1>0, <1>q DEF IInv, SentOnce, OpeningFirst, TypeOK, CancelCalls, PumpGoesOn, Post,
       Stopped, sessionVars
  <1>3. AnsweredIsHeld'
    BY DEF IInv, AnsweredIsHeld, TypeOK, CancelCalls, PumpGoesOn, Post, Stopped,
       sessionVars
  <1>4. PendingIsKnown'
    BY <1>0, <1>q DEF IInv, PendingIsKnown, TypeOK, TerminalSettles, AnsweredIsHeld,
       SentOnce, Stopped, CancelCalls, Terminal, PumpGoesOn, Post, sessionVars
  <1>5. StoppedIsQuiet'
    BY DEF IInv, StoppedIsQuiet, TypeOK, TerminalSettles, Stopped, Terminal, CancelCalls,
       PumpGoesOn, Post, sessionVars
  <1>6. SlotHeld'
    BY DEF IInv, SlotHeld, TypeOK, SentOnce, PendingIsKnown, TerminalSettles,
       AnsweredIsHeld, Stopped, CancelCalls, Terminal, PumpGoesOn, Post, sessionVars
  <1>7. OpeningFirst' /\ TerminalSettles' /\ ClaimedFirst' /\ CancelsKnow'
        /\ AlreadySkips' /\ SparesOtherHolder'
    BY DEF IInv, OpeningFirst, TerminalSettles, ClaimedFirst, CancelsKnow, AlreadySkips,
       SparesOtherHolder, Terminal, Stopped, BeaconOut, NeverRuns, Ended, PumpGoesOn,
       sessionVars
  <1> QED BY <1>1, <1>2, <1>3, <1>4, <1>5, <1>6, <1>7 DEF IInv

LEMMA KeepPostAnswered ==
  ASSUME IInv, PostAnswered
  PROVE  IInv'
  <1>1. TypeOK'
    BY DEF IInv, TypeOK, CancelCalls, PostAnswered, Answered, Noted, AfterAnswer,
       sessionVars
  <1>2. SentOnce'
    BY DEF IInv, SentOnce, OpeningFirst, TypeOK, Queued, CancelCalls, PostAnswered,
       Answered, Noted, AfterAnswer, sessionVars
  <1>3. AnsweredIsHeld'
    BY DEF IInv, AnsweredIsHeld, TypeOK, CancelCalls, PostAnswered, Answered, Noted,
       AfterAnswer, sessionVars
  <1>4. PendingIsKnown'
    BY DEF IInv, PendingIsKnown, TypeOK, TerminalSettles, AnsweredIsHeld, SentOnce,
       Stopped, Queued, CancelCalls, Terminal, PostAnswered, Answered, Noted, AfterAnswer,
       sessionVars
  <1>5. StoppedIsQuiet'
    BY DEF IInv, StoppedIsQuiet, TypeOK, TerminalSettles, Stopped, Terminal, CancelCalls,
       PostAnswered, Answered, Noted, AfterAnswer, sessionVars
  <1>6. SlotHeld'
    BY DEF IInv, SlotHeld, TypeOK, SentOnce, PendingIsKnown, TerminalSettles,
       AnsweredIsHeld, Stopped, CancelCalls, Queued, Terminal, PostAnswered, Answered,
       Noted, AfterAnswer, sessionVars
  <1>7. OpeningFirst' /\ TerminalSettles' /\ ClaimedFirst' /\ CancelsKnow'
        /\ AlreadySkips' /\ SparesOtherHolder'
    BY DEF IInv, OpeningFirst, TerminalSettles, ClaimedFirst, CancelsKnow, AlreadySkips,
       SparesOtherHolder, Terminal, Stopped, BeaconOut, NeverRuns, Ended, PostAnswered,
       sessionVars
  <1> QED BY <1>1, <1>2, <1>3, <1>4, <1>5, <1>6, <1>7 DEF IInv

LEMMA KeepPostBusy ==
  ASSUME IInv, PostBusy
  PROVE  IInv'
  <1>0. /\ queue' \in Seq(Exchanges) /\ Queued' \subseteq Queued
        /\ \/ queue' = queue /\ Queued' = Queued
           \/ Queued \ {head} \subseteq Queued' /\ pump' = "next" /\ pending' = pending \ {head}
    <2>1. queue \in Seq(Exchanges)
      BY DEF IInv, TypeOK
    <2>2. CASE queue' = queue
      BY <2>1, <2>2 DEF Queued
    <2>3. CASE queue' = RemoveFirst(queue, head) /\ Settle({head}) /\ pump' = "next"
      BY <2>1, <2>3, RemoveFirstIs DEF Queued, Settle
    <2> QED BY <2>2, <2>3 DEF PostBusy
  <1>1. TypeOK'
    BY <1>0 DEF IInv, TypeOK, CancelCalls, PostBusy, Settle, sessionVars
  <1>2. OpeningFirst'
    BY DEF IInv, OpeningFirst, TypeOK, SentOnce, CancelCalls, PostBusy, Settle,
       sessionVars
  <1>3. TerminalSettles'
    BY DEF IInv, TerminalSettles, OpeningFirst, TypeOK, Terminal, CancelCalls, PostBusy,
       Settle, sessionVars
  <1>4. SentOnce'
    BY <1>0 DEF IInv, SentOnce, OpeningFirst, TypeOK, CancelCalls, PostBusy, Settle,
       sessionVars
  <1>5. AnsweredIsHeld'
    BY DEF IInv, AnsweredIsHeld, TypeOK, CancelCalls, PostBusy, Settle, sessionVars
  <1>6. PendingIsKnown'
    BY <1>0 DEF IInv, PendingIsKnown, TypeOK, TerminalSettles, AnsweredIsHeld, SentOnce,
       Stopped, CancelCalls, Terminal, PostBusy, Settle, sessionVars
  <1>7. CancelsKnow'
    BY DEF IInv, CancelsKnow, TypeOK, PendingIsKnown, AnsweredIsHeld, ClaimedFirst,
       SentOnce, OpeningFirst, Stopped, BeaconOut, NeverRuns, Ended, CancelCalls,
       PostBusy, Settle, sessionVars
  <1>8. StoppedIsQuiet'
    BY DEF IInv, StoppedIsQuiet, TypeOK, TerminalSettles, Stopped, Terminal, CancelCalls,
       PostBusy, Settle, sessionVars
  <1>9. SlotHeld'
    BY DEF IInv, SlotHeld, TypeOK, SentOnce, PendingIsKnown, TerminalSettles,
       AnsweredIsHeld, Stopped, CancelCalls, Terminal, PostBusy, Settle, sessionVars
  <1>10. ClaimedFirst' /\ AlreadySkips' /\ SparesOtherHolder'
    BY DEF IInv, ClaimedFirst, AlreadySkips, SparesOtherHolder, PostBusy, sessionVars
  <1> QED BY <1>1, <1>2, <1>3, <1>4, <1>5, <1>6, <1>7, <1>8, <1>9, <1>10 DEF IInv

LEMMA KeepPostFails ==
  ASSUME IInv, PostFails
  PROVE  IInv'
  <1>1. TypeOK'
    BY DEF IInv, TypeOK, CancelCalls, PostFails, sessionVars
  <1>2. SentOnce'
    BY DEF IInv, SentOnce, OpeningFirst, TypeOK, Queued, CancelCalls, PostFails,
       sessionVars, Lost
  <1>3. PendingIsKnown'
    BY DEF IInv, PendingIsKnown, TypeOK, TerminalSettles, AnsweredIsHeld, SentOnce,
       Stopped, Queued, CancelCalls, Terminal, PostFails, sessionVars
  <1>4. StoppedIsQuiet'
    BY DEF IInv, StoppedIsQuiet, TypeOK, TerminalSettles, Stopped, Terminal, CancelCalls,
       PostFails, sessionVars
  <1>5. SlotHeld'
    BY DEF IInv, SlotHeld, TypeOK, SentOnce, PendingIsKnown, TerminalSettles,
       AnsweredIsHeld, Stopped, CancelCalls, Queued, Terminal, PostFails, sessionVars
  <1>6. OpeningFirst' /\ TerminalSettles' /\ AnsweredIsHeld' /\ ClaimedFirst'
        /\ CancelsKnow' /\ AlreadySkips' /\ SparesOtherHolder'
    BY DEF IInv, OpeningFirst, TerminalSettles, AnsweredIsHeld, ClaimedFirst, CancelsKnow,
       AlreadySkips, SparesOtherHolder, Terminal, Stopped, BeaconOut, NeverRuns, Ended,
       PostFails, sessionVars
  <1> QED BY <1>1, <1>2, <1>3, <1>4, <1>5, <1>6 DEF IInv

LEMMA KeepPostAgain ==
  ASSUME IInv, PostAgain
  PROVE  IInv'
  <1>1. TypeOK'
    BY DEF IInv, TypeOK, CancelCalls, PostAgain, Post, sessionVars
  <1>2. SentOnce'
    BY DEF IInv, SentOnce, OpeningFirst, TypeOK, Queued, CancelCalls, PostAgain, Post,
       sessionVars
  <1>3. AnsweredIsHeld'
    BY DEF IInv, AnsweredIsHeld, TypeOK, CancelCalls, PostAgain, Post, sessionVars
  <1>4. PendingIsKnown'
    BY DEF IInv, PendingIsKnown, TypeOK, TerminalSettles, AnsweredIsHeld, SentOnce,
       Stopped, Queued, CancelCalls, Terminal, PostAgain, Post, sessionVars
  <1>5. StoppedIsQuiet'
    BY DEF IInv, StoppedIsQuiet, TypeOK, TerminalSettles, Stopped, Terminal, CancelCalls,
       PostAgain, Post, sessionVars
  <1>6. SlotHeld'
    BY DEF IInv, SlotHeld, TypeOK, SentOnce, PendingIsKnown, TerminalSettles,
       AnsweredIsHeld, Stopped, CancelCalls, Queued, Terminal, PostAgain, Post,
       sessionVars
  <1>7. OpeningFirst' /\ TerminalSettles' /\ ClaimedFirst' /\ CancelsKnow'
        /\ AlreadySkips' /\ SparesOtherHolder'
    BY DEF IInv, OpeningFirst, TerminalSettles, ClaimedFirst, CancelsKnow, AlreadySkips,
       SparesOtherHolder, Terminal, Stopped, BeaconOut, NeverRuns, Ended, PostAgain,
       sessionVars
  <1> QED BY <1>1, <1>2, <1>3, <1>4, <1>5, <1>6, <1>7 DEF IInv

LEMMA KeepPostGivesUp ==
  ASSUME IInv, PostGivesUp
  PROVE  IInv'
  <1>1. TypeOK'
    BY DEF IInv, TypeOK, CancelCalls, PostGivesUp, Settle, sessionVars
  <1>2. OpeningFirst'
    BY DEF IInv, OpeningFirst, TypeOK, SentOnce, CancelCalls, Queued, PostGivesUp, Settle,
       sessionVars
  <1>3. TerminalSettles'
    BY DEF IInv, TerminalSettles, OpeningFirst, TypeOK, Terminal, CancelCalls,
       PostGivesUp, Settle, sessionVars
  <1>4. SentOnce'
    BY DEF IInv, SentOnce, OpeningFirst, TypeOK, Queued, CancelCalls, PostGivesUp, Settle,
       sessionVars, Lost
  <1>5. PendingIsKnown'
    BY DEF IInv, PendingIsKnown, TypeOK, TerminalSettles, AnsweredIsHeld, SentOnce,
       Stopped, Queued, CancelCalls, Terminal, PostGivesUp, Settle, sessionVars
  <1>6. CancelsKnow'
    BY DEF IInv, CancelsKnow, TypeOK, PendingIsKnown, AnsweredIsHeld, ClaimedFirst,
       SentOnce, OpeningFirst, Stopped, BeaconOut, NeverRuns, Ended, CancelCalls, Queued,
       PostGivesUp, Settle, sessionVars
  <1>7. StoppedIsQuiet'
    BY DEF IInv, StoppedIsQuiet, TypeOK, TerminalSettles, Stopped, Terminal, CancelCalls,
       PostGivesUp, Settle, sessionVars
  <1>8. SlotHeld'
    BY DEF IInv, SlotHeld, TypeOK, SentOnce, PendingIsKnown, TerminalSettles,
       AnsweredIsHeld, Stopped, CancelCalls, Queued, Terminal, PostGivesUp, Settle,
       sessionVars
  <1>9. AnsweredIsHeld' /\ ClaimedFirst' /\ AlreadySkips' /\ SparesOtherHolder'
    BY DEF IInv, AnsweredIsHeld, ClaimedFirst, AlreadySkips, SparesOtherHolder,
       PostGivesUp, sessionVars
  <1> QED BY <1>1, <1>2, <1>3, <1>4, <1>5, <1>6, <1>7, <1>8, <1>9 DEF IInv

LEMMA KeepPostRefused ==
  ASSUME IInv, PostRefused
  PROVE  IInv'
  <1>1. TypeOK'
    BY DEF IInv, TypeOK, CancelCalls, PostRefused, Settle, EndAs, Releasing, Terminal
  <1>2. OpeningFirst'
    BY DEF IInv, OpeningFirst, TypeOK, SentOnce, CancelCalls, Queued, PostRefused, Settle,
       EndAs, Releasing, Terminal
  <1>3. TerminalSettles'
    BY DEF IInv, TerminalSettles, OpeningFirst, TypeOK, Terminal, CancelCalls,
       PostRefused, Settle, EndAs, Releasing
  <1>4. SentOnce'
    BY DEF IInv, SentOnce, OpeningFirst, TypeOK, Queued, CancelCalls, PostRefused, Settle,
       EndAs, Releasing, Terminal
  <1>5. PendingIsKnown'
    BY DEF IInv, PendingIsKnown, TypeOK, TerminalSettles, AnsweredIsHeld, SentOnce,
       Stopped, Queued, CancelCalls, Terminal, PostRefused, Settle, EndAs, Releasing
  <1>6. CancelsKnow'
    BY DEF IInv, CancelsKnow, TypeOK, PendingIsKnown, AnsweredIsHeld, ClaimedFirst,
       SentOnce, OpeningFirst, Stopped, BeaconOut, NeverRuns, Ended, CancelCalls, Queued,
       PostRefused, Settle, EndAs, Releasing, Terminal
  <1>7. StoppedIsQuiet'
    BY DEF IInv, StoppedIsQuiet, TypeOK, TerminalSettles, Stopped, Terminal, CancelCalls,
       PostRefused, Settle, EndAs, Releasing
  <1>8. SlotHeld'
    BY DEF IInv, SlotHeld, TypeOK, SentOnce, PendingIsKnown, TerminalSettles,
       AnsweredIsHeld, Stopped, CancelCalls, Queued, Terminal, PostRefused, Settle, EndAs,
       Releasing
  <1>9. SparesOtherHolder'
    BY DEF IInv, SparesOtherHolder, AlreadySkips, TypeOK, CancelCalls, PostRefused,
       Settle, EndAs, Releasing, Terminal
  <1>10. AnsweredIsHeld' /\ ClaimedFirst' /\ AlreadySkips'
    BY DEF IInv, AnsweredIsHeld, ClaimedFirst, AlreadySkips, PostRefused
  <1> QED BY <1>1, <1>2, <1>3, <1>4, <1>5, <1>6, <1>7, <1>8, <1>9, <1>10 DEF IInv

LEMMA KeepOpenBeacon ==
  ASSUME IInv, OpenBeacon
  PROVE  IInv'
  <1>1. TypeOK'
    BY ExchangesAssumption DEF IInv, TypeOK, CancelCalls, OpenBeacon, Stopped, pumpVars,
       backendVars
  <1>2. OpeningFirst'
    BY DEF IInv, OpeningFirst, TypeOK, SentOnce, CancelCalls, Queued, OpenBeacon, Stopped,
       pumpVars, backendVars
  <1>3. TerminalSettles'
    BY DEF IInv, TerminalSettles, OpeningFirst, TypeOK, Terminal, CancelCalls, OpenBeacon,
       Stopped, pumpVars, backendVars
  <1>4. SentOnce'
    BY DEF IInv, SentOnce, OpeningFirst, TypeOK, Queued, CancelCalls, OpenBeacon, Stopped,
       pumpVars, backendVars
  <1>5. PendingIsKnown'
    BY ExchangesAssumption DEF IInv, PendingIsKnown, TypeOK, TerminalSettles,
       AnsweredIsHeld, SentOnce, Stopped, Queued, CancelCalls, Terminal, OpenBeacon,
       pumpVars, backendVars
  <1>6. CancelsKnow'
    BY DEF IInv, CancelsKnow, TypeOK, PendingIsKnown, AnsweredIsHeld, ClaimedFirst,
       SentOnce, OpeningFirst, Stopped, BeaconOut, NeverRuns, Ended, CancelCalls, Queued,
       OpenBeacon, pumpVars, backendVars
  <1>7. AlreadySkips'
    BY DEF IInv, AlreadySkips, TypeOK, CancelCalls, OpenBeacon, Stopped, pumpVars,
       backendVars
  <1>8. SlotHeld'
    BY DEF IInv, SlotHeld, TypeOK, SentOnce, PendingIsKnown, TerminalSettles,
       AnsweredIsHeld, Stopped, CancelCalls, Queued, Terminal, OpenBeacon, pumpVars,
       backendVars
  <1>9. SparesOtherHolder'
    BY DEF IInv, SparesOtherHolder, AlreadySkips, TypeOK, CancelCalls, OpenBeacon,
       Stopped, pumpVars, backendVars
  <1>10. AnsweredIsHeld' /\ ClaimedFirst' /\ StoppedIsQuiet'
    BY DEF IInv, AnsweredIsHeld, ClaimedFirst, StoppedIsQuiet, Stopped, Terminal,
       OpenBeacon, pumpVars, backendVars
  <1> QED BY <1>1, <1>2, <1>3, <1>4, <1>5, <1>6, <1>7, <1>8, <1>9, <1>10 DEF IInv

LEMMA KeepBeaconAnswered ==
  ASSUME IInv, BeaconAnswered
  PROVE  IInv'
  <1>1. TypeOK'
    BY DEF IInv, TypeOK, CancelCalls, BeaconAnswered, Answered, Noted, Stopped,
       backendVars
  <1>2. OpeningFirst'
    BY DEF IInv, OpeningFirst, TypeOK, SentOnce, CancelCalls, Queued, BeaconAnswered,
       Answered, Noted, Stopped, backendVars
  <1>3. SentOnce'
    BY DEF IInv, SentOnce, OpeningFirst, TypeOK, Queued, CancelCalls, BeaconAnswered,
       Answered, Noted, Stopped, backendVars
  <1>4. AnsweredIsHeld'
    BY DEF IInv, AnsweredIsHeld, TypeOK, ClaimedFirst, CancelCalls, BeaconAnswered,
       Answered, Noted, Stopped, backendVars
  <1>5. CancelsKnow'
    BY DEF IInv, CancelsKnow, TypeOK, PendingIsKnown, AnsweredIsHeld, ClaimedFirst,
       SentOnce, OpeningFirst, Stopped, BeaconOut, NeverRuns, Ended, CancelCalls, Queued,
       BeaconAnswered, Answered, Noted, backendVars
  <1>6. AlreadySkips'
    BY DEF IInv, AlreadySkips, TypeOK, CancelCalls, BeaconAnswered, Answered, Noted,
       Stopped, backendVars
  <1>7. SlotHeld'
    BY DEF IInv, SlotHeld, TypeOK, SentOnce, PendingIsKnown, TerminalSettles,
       AnsweredIsHeld, Stopped, CancelCalls, Queued, Terminal, BeaconAnswered, Answered,
       Noted, backendVars
  <1>8. SparesOtherHolder'
    BY DEF IInv, SparesOtherHolder, AlreadySkips, TypeOK, CancelCalls, BeaconAnswered,
       Answered, Noted, Stopped, backendVars
  <1>9. TerminalSettles' /\ PendingIsKnown' /\ ClaimedFirst' /\ StoppedIsQuiet'
    BY DEF IInv, TerminalSettles, PendingIsKnown, ClaimedFirst, StoppedIsQuiet, Terminal,
       Stopped, Queued, BeaconAnswered, backendVars
  <1> QED BY <1>1, <1>2, <1>3, <1>4, <1>5, <1>6, <1>7, <1>8, <1>9 DEF IInv

LEMMA KeepBeaconAlready ==
  ASSUME IInv, BeaconAlready
  PROVE  IInv'
  <1>1. TypeOK'
    BY DEF IInv, TypeOK, CancelCalls, BeaconAlready, Stopped, pumpVars, backendVars
  <1>2. OpeningFirst'
    BY DEF IInv, OpeningFirst, TypeOK, SentOnce, CancelCalls, Queued, BeaconAlready,
       Stopped, pumpVars, backendVars
  <1>3. CancelsKnow'
    BY DEF IInv, CancelsKnow, TypeOK, PendingIsKnown, AnsweredIsHeld, ClaimedFirst,
       SentOnce, OpeningFirst, Stopped, BeaconOut, NeverRuns, Ended, CancelCalls, Queued,
       BeaconAlready, pumpVars, backendVars
  <1>4. AlreadySkips'
    BY DEF IInv, AlreadySkips, TypeOK, CancelCalls, BeaconAlready, Stopped, pumpVars,
       backendVars
  <1>5. SparesOtherHolder'
    BY DEF IInv, SparesOtherHolder, AlreadySkips, TypeOK, CancelCalls, BeaconAlready,
       Stopped, pumpVars, backendVars
  <1>6. TerminalSettles' /\ SentOnce' /\ AnsweredIsHeld' /\ PendingIsKnown'
        /\ ClaimedFirst' /\ StoppedIsQuiet' /\ SlotHeld'
    BY DEF IInv, TerminalSettles, SentOnce, AnsweredIsHeld, PendingIsKnown, ClaimedFirst,
       StoppedIsQuiet, SlotHeld, Terminal, Queued, Stopped, BeaconAlready, pumpVars,
       backendVars
  <1> QED BY <1>1, <1>2, <1>3, <1>4, <1>5, <1>6 DEF IInv

LEMMA KeepBeaconRefused ==
  ASSUME IInv, BeaconRefused
  PROVE  IInv'
  <1>1. TypeOK'
    BY DEF IInv, TypeOK, CancelCalls, BeaconRefused, EndAs, Releasing, Woken, Settle,
       Terminal, Stopped, backendVars
  <1>2. OpeningFirst'
    BY DEF IInv, OpeningFirst, TypeOK, SentOnce, CancelCalls, Queued, BeaconRefused,
       EndAs, Releasing, Woken, Settle, Terminal, Stopped, backendVars
  <1>3. TerminalSettles'
    BY DEF IInv, TerminalSettles, OpeningFirst, TypeOK, Terminal, CancelCalls,
       BeaconRefused, EndAs, Releasing, Woken, Settle, Stopped, backendVars
  <1>4. SentOnce'
    BY DEF IInv, SentOnce, OpeningFirst, TypeOK, Queued, CancelCalls, BeaconRefused,
       EndAs, Releasing, Woken, Settle, Terminal, Stopped, backendVars
  <1>5. PendingIsKnown'
    BY DEF IInv, PendingIsKnown, TypeOK, TerminalSettles, AnsweredIsHeld, SentOnce,
       Stopped, Queued, CancelCalls, Terminal, BeaconRefused, EndAs, Releasing, Woken,
       Settle, backendVars
  <1>6. CancelsKnow'
    BY DEF IInv, CancelsKnow, TypeOK, PendingIsKnown, AnsweredIsHeld, ClaimedFirst,
       SentOnce, OpeningFirst, Stopped, BeaconOut, NeverRuns, Ended, CancelCalls, Queued,
       BeaconRefused, EndAs, Releasing, Woken, Settle, Terminal, backendVars
  <1>7. StoppedIsQuiet'
    BY DEF IInv, StoppedIsQuiet, TypeOK, TerminalSettles, Stopped, Terminal, CancelCalls,
       BeaconRefused, EndAs, Releasing, Woken, Settle, backendVars
  <1>8. AlreadySkips'
    BY DEF IInv, AlreadySkips, TypeOK, CancelCalls, BeaconRefused, EndAs, Releasing,
       Woken, Settle, Terminal, Stopped, backendVars
  <1>9. SlotHeld'
    BY DEF IInv, SlotHeld, TypeOK, SentOnce, PendingIsKnown, TerminalSettles,
       AnsweredIsHeld, Stopped, CancelCalls, Queued, Terminal, BeaconRefused, EndAs,
       Releasing, Woken, Settle, backendVars
  <1>10. SparesOtherHolder'
    BY DEF IInv, SparesOtherHolder, AlreadySkips, TypeOK, CancelCalls, BeaconRefused,
       EndAs, Releasing, Woken, Settle, Terminal, Stopped, backendVars
  <1>11. AnsweredIsHeld' /\ ClaimedFirst'
    BY DEF IInv, AnsweredIsHeld, ClaimedFirst, BeaconRefused, backendVars
  <1> QED BY <1>1, <1>2, <1>3, <1>4, <1>5, <1>6, <1>7, <1>8, <1>9, <1>10, <1>11 DEF IInv

LEMMA KeepBeaconFails ==
  ASSUME IInv, BeaconFails
  PROVE  IInv'
  <1>1. OpeningFirst'
    BY DEF IInv, OpeningFirst, TypeOK, SentOnce, CancelCalls, Queued, BeaconFails,
       pumpVars, backendVars
  <1>2. CancelsKnow'
    BY DEF IInv, CancelsKnow, TypeOK, PendingIsKnown, AnsweredIsHeld, ClaimedFirst,
       SentOnce, OpeningFirst, Stopped, BeaconOut, NeverRuns, Ended, CancelCalls, Queued,
       BeaconFails, pumpVars, backendVars
  <1>3. AlreadySkips'
    BY DEF IInv, AlreadySkips, TypeOK, CancelCalls, BeaconFails, pumpVars, backendVars
  <1>4. SparesOtherHolder'
    BY DEF IInv, SparesOtherHolder, AlreadySkips, TypeOK, CancelCalls, BeaconFails,
       pumpVars, backendVars
  <1>5. TypeOK' /\ TerminalSettles' /\ SentOnce' /\ AnsweredIsHeld' /\ PendingIsKnown'
        /\ ClaimedFirst' /\ StoppedIsQuiet' /\ SlotHeld'
    BY DEF IInv, TypeOK, TerminalSettles, SentOnce, AnsweredIsHeld, PendingIsKnown,
       ClaimedFirst, StoppedIsQuiet, SlotHeld, CancelCalls, Terminal, Queued, Stopped,
       BeaconFails, pumpVars, backendVars
  <1> QED BY <1>1, <1>2, <1>3, <1>4, <1>5 DEF IInv

LEMMA KeepBeaconGivesUp ==
  ASSUME IInv, BeaconGivesUp
  PROVE  IInv'
  <1>1. OpeningFirst'
    BY DEF IInv, OpeningFirst, TypeOK, SentOnce, CancelCalls, Queued, BeaconGivesUp,
       BeaconOut, pumpVars, backendVars
  <1>2. CancelsKnow'
    BY DEF IInv, CancelsKnow, TypeOK, PendingIsKnown, AnsweredIsHeld, ClaimedFirst,
       SentOnce, OpeningFirst, Stopped, BeaconOut, NeverRuns, Ended, CancelCalls, Queued,
       BeaconGivesUp, pumpVars, backendVars
  <1>3. AlreadySkips'
    BY DEF IInv, AlreadySkips, TypeOK, CancelCalls, BeaconGivesUp, BeaconOut, pumpVars,
       backendVars
  <1>4. SparesOtherHolder'
    BY DEF IInv, SparesOtherHolder, AlreadySkips, TypeOK, CancelCalls, BeaconGivesUp,
       BeaconOut, pumpVars, backendVars
  <1>5. TypeOK' /\ TerminalSettles' /\ SentOnce' /\ AnsweredIsHeld' /\ PendingIsKnown'
        /\ ClaimedFirst' /\ StoppedIsQuiet' /\ SlotHeld'
    BY DEF IInv, TypeOK, TerminalSettles, SentOnce, AnsweredIsHeld, PendingIsKnown,
       ClaimedFirst, StoppedIsQuiet, SlotHeld, CancelCalls, Terminal, Queued, Stopped,
       BeaconGivesUp, pumpVars, backendVars
  <1> QED BY <1>1, <1>2, <1>3, <1>4, <1>5 DEF IInv

LEMMA KeepOpenHears ==
  ASSUME IInv, OpenHears
  PROVE  IInv'
  <1>1. TypeOK'
    BY DEF IInv, TypeOK, CancelCalls, OpenHears, OpenFails, AskClose, pumpVars,
       backendVars
  <1>2. OpeningFirst'
    BY DEF IInv, OpeningFirst, TypeOK, SentOnce, CancelCalls, Queued, OpenHears,
       OpenFails, AskClose, pumpVars, backendVars
  <1>3. TerminalSettles'
    BY DEF IInv, TerminalSettles, OpeningFirst, TypeOK, Terminal, CancelCalls, OpenHears,
       OpenFails, AskClose, pumpVars, backendVars
  <1>4. SentOnce'
    BY DEF IInv, SentOnce, OpeningFirst, TypeOK, Queued, CancelCalls, OpenHears,
       OpenFails, AskClose, pumpVars, backendVars
  <1>5. PendingIsKnown'
    BY DEF IInv, PendingIsKnown, TypeOK, TerminalSettles, AnsweredIsHeld, SentOnce,
       Stopped, Queued, CancelCalls, Terminal, OpenHears, OpenFails, AskClose, pumpVars,
       backendVars
  <1>6. CancelsKnow'
    BY DEF IInv, CancelsKnow, TypeOK, PendingIsKnown, AnsweredIsHeld, ClaimedFirst,
       SentOnce, OpeningFirst, Stopped, BeaconOut, NeverRuns, Ended, CancelCalls, Queued,
       OpenHears, OpenFails, AskClose, pumpVars, backendVars
  <1>7. StoppedIsQuiet'
    BY DEF IInv, StoppedIsQuiet, TypeOK, TerminalSettles, Stopped, Terminal, CancelCalls,
       OpenHears, OpenFails, AskClose, pumpVars, backendVars
  <1>8. SlotHeld'
    BY DEF IInv, SlotHeld, TypeOK, SentOnce, PendingIsKnown, TerminalSettles,
       AnsweredIsHeld, Stopped, CancelCalls, Queued, Terminal, OpenHears, OpenFails,
       AskClose, pumpVars, backendVars
  <1>9. SparesOtherHolder'
    BY DEF IInv, SparesOtherHolder, AlreadySkips, TypeOK, CancelCalls, OpenHears,
       OpenFails, AskClose, pumpVars, backendVars
  <1>10. AnsweredIsHeld' /\ ClaimedFirst' /\ AlreadySkips'
    BY DEF IInv, AnsweredIsHeld, ClaimedFirst, AlreadySkips, OpenHears, pumpVars,
       backendVars
  <1> QED BY <1>1, <1>2, <1>3, <1>4, <1>5, <1>6, <1>7, <1>8, <1>9, <1>10 DEF IInv

LEMMA KeepOpenReturns ==
  ASSUME IInv, OpenReturns
  PROVE  IInv'
  <1>1. TypeOK'
    BY DEF IInv, TypeOK, CancelCalls, OpenReturns, OpenFails, AskClose, Terminal,
       pumpVars, backendVars
  <1>2. OpeningFirst'
    BY DEF IInv, OpeningFirst, TypeOK, SentOnce, CancelCalls, Queued, OpenReturns,
       OpenFails, AskClose, Terminal, pumpVars, backendVars
  <1>3. TerminalSettles'
    BY DEF IInv, TerminalSettles, OpeningFirst, TypeOK, Terminal, CancelCalls,
       OpenReturns, OpenFails, AskClose, pumpVars, backendVars
  <1>4. SentOnce'
    BY DEF IInv, SentOnce, OpeningFirst, TypeOK, Queued, CancelCalls, OpenReturns,
       OpenFails, AskClose, Terminal, pumpVars, backendVars
  <1>5. PendingIsKnown'
    BY DEF IInv, PendingIsKnown, TypeOK, TerminalSettles, AnsweredIsHeld, SentOnce,
       Stopped, Queued, CancelCalls, Terminal, OpenReturns, OpenFails, AskClose, pumpVars,
       backendVars
  <1>6. CancelsKnow'
    BY DEF IInv, CancelsKnow, TypeOK, PendingIsKnown, AnsweredIsHeld, ClaimedFirst,
       SentOnce, OpeningFirst, Stopped, BeaconOut, NeverRuns, Ended, CancelCalls, Queued,
       OpenReturns, OpenFails, AskClose, Terminal, pumpVars, backendVars
  <1>7. StoppedIsQuiet'
    BY DEF IInv, StoppedIsQuiet, TypeOK, TerminalSettles, Stopped, Terminal, CancelCalls,
       OpenReturns, OpenFails, AskClose, pumpVars, backendVars
  <1>8. SlotHeld'
    BY DEF IInv, SlotHeld, TypeOK, SentOnce, PendingIsKnown, TerminalSettles,
       AnsweredIsHeld, Stopped, CancelCalls, Queued, Terminal, OpenReturns, OpenFails,
       AskClose, pumpVars, backendVars
  <1>9. SparesOtherHolder'
    BY DEF IInv, SparesOtherHolder, AlreadySkips, TypeOK, CancelCalls, OpenReturns,
       OpenFails, AskClose, Terminal, pumpVars, backendVars
  <1>10. AnsweredIsHeld' /\ ClaimedFirst' /\ AlreadySkips'
    BY DEF IInv, AnsweredIsHeld, ClaimedFirst, AlreadySkips, OpenReturns, pumpVars,
       backendVars
  <1> QED BY <1>1, <1>2, <1>3, <1>4, <1>5, <1>6, <1>7, <1>8, <1>9, <1>10 DEF IInv

LEMMA KeepOpenRejected ==
  ASSUME IInv, OpenRejected
  PROVE  IInv'
  <1>1. TypeOK'
    BY DEF IInv, TypeOK, CancelCalls, OpenRejected, OpenFails, AskClose, pumpVars,
       backendVars
  <1>2. OpeningFirst'
    BY DEF IInv, OpeningFirst, TypeOK, SentOnce, CancelCalls, Queued, OpenRejected,
       OpenFails, AskClose, pumpVars, backendVars
  <1>3. TerminalSettles'
    BY DEF IInv, TerminalSettles, OpeningFirst, TypeOK, Terminal, CancelCalls,
       OpenRejected, OpenFails, AskClose, pumpVars, backendVars
  <1>4. SentOnce'
    BY DEF IInv, SentOnce, OpeningFirst, TypeOK, Queued, CancelCalls, OpenRejected,
       OpenFails, AskClose, pumpVars, backendVars
  <1>5. PendingIsKnown'
    BY DEF IInv, PendingIsKnown, TypeOK, TerminalSettles, AnsweredIsHeld, SentOnce,
       Stopped, Queued, CancelCalls, Terminal, OpenRejected, OpenFails, AskClose,
       pumpVars, backendVars
  <1>6. CancelsKnow'
    BY DEF IInv, CancelsKnow, TypeOK, PendingIsKnown, AnsweredIsHeld, ClaimedFirst,
       SentOnce, OpeningFirst, Stopped, BeaconOut, NeverRuns, Ended, CancelCalls, Queued,
       OpenRejected, OpenFails, AskClose, pumpVars, backendVars
  <1>7. StoppedIsQuiet'
    BY DEF IInv, StoppedIsQuiet, TypeOK, TerminalSettles, Stopped, Terminal, CancelCalls,
       OpenRejected, OpenFails, AskClose, pumpVars, backendVars
  <1>8. SlotHeld'
    BY DEF IInv, SlotHeld, TypeOK, SentOnce, PendingIsKnown, TerminalSettles,
       AnsweredIsHeld, Stopped, CancelCalls, Queued, Terminal, OpenRejected, OpenFails,
       AskClose, pumpVars, backendVars
  <1>9. SparesOtherHolder'
    BY DEF IInv, SparesOtherHolder, AlreadySkips, TypeOK, CancelCalls, OpenRejected,
       OpenFails, AskClose, pumpVars, backendVars
  <1>10. AnsweredIsHeld' /\ ClaimedFirst' /\ AlreadySkips'
    BY DEF IInv, AnsweredIsHeld, ClaimedFirst, AlreadySkips, OpenRejected, pumpVars,
       backendVars
  <1> QED BY <1>1, <1>2, <1>3, <1>4, <1>5, <1>6, <1>7, <1>8, <1>9, <1>10 DEF IInv

LEMMA KeepClose ==
  ASSUME IInv, Close
  PROVE  IInv'
  <1>1. TypeOK'
    BY DEF IInv, TypeOK, CancelCalls, Close, AskClose, pumpVars, backendVars
  <1>2. TerminalSettles'
    BY DEF IInv, TerminalSettles, OpeningFirst, TypeOK, Terminal, CancelCalls, Close,
       AskClose, pumpVars, backendVars
  <1>3. PendingIsKnown'
    BY DEF IInv, PendingIsKnown, TypeOK, TerminalSettles, AnsweredIsHeld, SentOnce,
       Stopped, Queued, CancelCalls, Terminal, Close, AskClose, pumpVars, backendVars
  <1>4. CancelsKnow'
    BY DEF IInv, CancelsKnow, TypeOK, PendingIsKnown, AnsweredIsHeld, ClaimedFirst,
       SentOnce, OpeningFirst, Stopped, BeaconOut, NeverRuns, Ended, CancelCalls, Queued,
       Close, AskClose, pumpVars, backendVars
  <1>5. StoppedIsQuiet'
    BY DEF IInv, StoppedIsQuiet, TypeOK, TerminalSettles, Stopped, Terminal, CancelCalls,
       Close, AskClose, pumpVars, backendVars
  <1>6. SlotHeld'
    BY DEF IInv, SlotHeld, TypeOK, SentOnce, PendingIsKnown, TerminalSettles,
       AnsweredIsHeld, Stopped, CancelCalls, Queued, Terminal, Close, AskClose, pumpVars,
       backendVars
  <1>7. SparesOtherHolder'
    BY DEF IInv, SparesOtherHolder, AlreadySkips, TypeOK, CancelCalls, Close, AskClose,
       pumpVars, backendVars
  <1>8. OpeningFirst' /\ SentOnce' /\ AnsweredIsHeld' /\ ClaimedFirst' /\ AlreadySkips'
    BY DEF IInv, OpeningFirst, SentOnce, AnsweredIsHeld, ClaimedFirst, AlreadySkips,
       Queued, Close, pumpVars, backendVars
  <1> QED BY <1>1, <1>2, <1>3, <1>4, <1>5, <1>6, <1>7, <1>8 DEF IInv

LEMMA KeepRunClose ==
  ASSUME IInv, RunClose
  PROVE  IInv'
  <1>0. queue' \in Seq(Exchanges) /\ Queued' = {}
    BY DEF StopManaged, Queued, ToSet, RunClose
  <1>1. TypeOK'
    <2>1. NoCancel \in CancelCalls /\ Over \in CancelCalls
      BY DEF CancelCalls, NoCancel, Over
    <2>2. cancels' \in [Exchanges -> CancelCalls]
      BY <2>1 DEF IInv, TypeOK, RunClose, AbortCancels
    <2> QED BY <1>0, <2>2 DEF IInv, TypeOK, RunClose, EndAs, StopManaged, Settle
  <1>2. OpeningFirst'
    BY DEF IInv, OpeningFirst, TypeOK, SentOnce, CancelCalls, RunClose, EndAs,
       AbortCancels, StopManaged, Settle, Terminal, NoCancel, Over
  <1>3. TerminalSettles'
    BY DEF IInv, TerminalSettles, OpeningFirst, TypeOK, Terminal, CancelCalls, RunClose,
       EndAs, AbortCancels, StopManaged, Settle, NoCancel, Over
  <1>4. SentOnce'
    BY <1>0 DEF IInv, SentOnce, OpeningFirst, TypeOK, CancelCalls, RunClose, EndAs,
       AbortCancels, StopManaged, Settle, Terminal, NoCancel, Over
  <1>5. PendingIsKnown'
    BY <1>0 DEF IInv, PendingIsKnown, TypeOK, TerminalSettles, AnsweredIsHeld, SentOnce,
       Stopped, CancelCalls, Terminal, RunClose, EndAs, AbortCancels, StopManaged, Settle,
       NoCancel, Over
  <1>6. CancelsKnow'
    BY DEF IInv, CancelsKnow, TypeOK, PendingIsKnown, AnsweredIsHeld, ClaimedFirst,
       SentOnce, OpeningFirst, Stopped, BeaconOut, NeverRuns, Ended, CancelCalls,
       RunClose, EndAs, AbortCancels, StopManaged, Settle, Terminal, NoCancel, Over
  <1>7. StoppedIsQuiet'
    BY DEF IInv, StoppedIsQuiet, TypeOK, TerminalSettles, Stopped, Terminal, CancelCalls,
       RunClose, EndAs, AbortCancels, StopManaged, Settle, NoCancel, Over
  <1>8. SlotHeld'
    BY DEF IInv, SlotHeld, TypeOK, SentOnce, PendingIsKnown, TerminalSettles,
       AnsweredIsHeld, Stopped, CancelCalls, Terminal, RunClose, EndAs, AbortCancels,
       StopManaged, Settle, NoCancel, Over
  <1>9. SparesOtherHolder'
    BY DEF IInv, SparesOtherHolder, AlreadySkips, TypeOK, CancelCalls, RunClose, EndAs,
       AbortCancels, StopManaged, Settle, Terminal, NoCancel, Over
  <1>10. AnsweredIsHeld' /\ ClaimedFirst' /\ AlreadySkips'
    BY DEF IInv, AnsweredIsHeld, ClaimedFirst, AlreadySkips, RunClose, StopManaged
  <1> QED BY <1>1, <1>2, <1>3, <1>4, <1>5, <1>6, <1>7, <1>8, <1>9, <1>10 DEF IInv

LEMMA KeepClosedServed ==
  ASSUME IInv, ClosedServed
  PROVE  IInv'
  <1>1. OpeningFirst'
    BY DEF IInv, OpeningFirst, TypeOK, SentOnce, CancelCalls, Queued, ClosedServed,
       sessionVars, pumpVars
  <1>2. ClaimedFirst'
    BY DEF IInv, ClaimedFirst, TypeOK, OpeningFirst, CancelCalls, ClosedServed,
       sessionVars, pumpVars
  <1>3. TypeOK' /\ TerminalSettles' /\ SentOnce' /\ AnsweredIsHeld' /\ PendingIsKnown'
        /\ CancelsKnow' /\ StoppedIsQuiet' /\ AlreadySkips' /\ SlotHeld'
        /\ SparesOtherHolder'
    BY DEF IInv, TypeOK, TerminalSettles, SentOnce, AnsweredIsHeld, PendingIsKnown,
       CancelsKnow, StoppedIsQuiet, AlreadySkips, SlotHeld, SparesOtherHolder,
       CancelCalls, Terminal, Queued, Stopped, BeaconOut, NeverRuns, Ended, ClosedServed,
       sessionVars, pumpVars
  <1> QED BY <1>1, <1>2, <1>3 DEF IInv

LEMMA KeepCloseEnds ==
  ASSUME IInv, CloseEnds
  PROVE  IInv'
  <1>1. TypeOK'
    BY DEF IInv, TypeOK, CancelCalls, CloseEnds, EndAs, AbortCancels, Settle, Terminal,
       NoCancel, Over, pumpVars, backendVars
  <1>2. OpeningFirst'
    BY DEF IInv, OpeningFirst, TypeOK, SentOnce, CancelCalls, Queued, CloseEnds, EndAs,
       AbortCancels, Settle, Terminal, NoCancel, Over, pumpVars, backendVars
  <1>3. TerminalSettles'
    BY DEF IInv, TerminalSettles, OpeningFirst, TypeOK, Terminal, CancelCalls, CloseEnds,
       EndAs, AbortCancels, Settle, NoCancel, Over, pumpVars, backendVars
  <1>4. SentOnce'
    BY DEF IInv, SentOnce, OpeningFirst, TypeOK, Queued, CancelCalls, CloseEnds, EndAs,
       AbortCancels, Settle, Terminal, NoCancel, Over, pumpVars, backendVars
  <1>5. PendingIsKnown'
    BY DEF IInv, PendingIsKnown, TypeOK, TerminalSettles, AnsweredIsHeld, SentOnce,
       Stopped, Queued, CancelCalls, Terminal, CloseEnds, EndAs, AbortCancels, Settle,
       NoCancel, Over, pumpVars, backendVars
  <1>6. CancelsKnow'
    BY DEF IInv, CancelsKnow, TypeOK, PendingIsKnown, AnsweredIsHeld, ClaimedFirst,
       SentOnce, OpeningFirst, Stopped, BeaconOut, NeverRuns, Ended, CancelCalls, Queued,
       CloseEnds, EndAs, AbortCancels, Settle, Terminal, NoCancel, Over, pumpVars,
       backendVars
  <1>7. StoppedIsQuiet'
    BY DEF IInv, StoppedIsQuiet, TypeOK, TerminalSettles, Stopped, Terminal, CancelCalls,
       CloseEnds, EndAs, AbortCancels, Settle, NoCancel, Over, pumpVars, backendVars
  <1>8. SlotHeld'
    BY DEF IInv, SlotHeld, TypeOK, SentOnce, PendingIsKnown, TerminalSettles,
       AnsweredIsHeld, Stopped, CancelCalls, Queued, Terminal, CloseEnds, EndAs,
       AbortCancels, Settle, NoCancel, Over, pumpVars, backendVars
  <1>9. SparesOtherHolder'
    BY DEF IInv, SparesOtherHolder, AlreadySkips, TypeOK, CancelCalls, CloseEnds, EndAs,
       AbortCancels, Settle, Terminal, NoCancel, Over, pumpVars, backendVars
  <1>10. AnsweredIsHeld' /\ ClaimedFirst' /\ AlreadySkips'
    BY DEF IInv, AnsweredIsHeld, ClaimedFirst, AlreadySkips, CloseEnds, pumpVars,
       backendVars
  <1> QED BY <1>1, <1>2, <1>3, <1>4, <1>5, <1>6, <1>7, <1>8, <1>9, <1>10 DEF IInv

LEMMA KeepRelease ==
  ASSUME IInv, Release
  PROVE  IInv'
  <1>0. queue' \in Seq(Exchanges) /\ Queued' = {}
    BY DEF StopManaged, Queued, ToSet, Release
  <1>1. TypeOK'
    BY <1>0 DEF IInv, TypeOK, CancelCalls, Release, StopManaged, AbortCancels, NoCancel,
       Over
  <1>2. TerminalSettles'
    BY DEF IInv, TerminalSettles, OpeningFirst, TypeOK, Terminal, CancelCalls, Release,
       StopManaged, AbortCancels, NoCancel, Over
  <1>3. SentOnce'
    BY <1>0 DEF IInv, SentOnce, OpeningFirst, TypeOK, CancelCalls, Release, StopManaged,
       AbortCancels, NoCancel, Over
  <1>4. PendingIsKnown'
    BY <1>0 DEF IInv, PendingIsKnown, TypeOK, TerminalSettles, AnsweredIsHeld, SentOnce,
       Stopped, CancelCalls, Terminal, Release, StopManaged, AbortCancels, NoCancel, Over
  <1>5. CancelsKnow'
    BY DEF IInv, CancelsKnow, TypeOK, PendingIsKnown, AnsweredIsHeld, ClaimedFirst,
       SentOnce, OpeningFirst, Stopped, BeaconOut, NeverRuns, Ended, CancelCalls, Release,
       StopManaged, AbortCancels, NoCancel, Over
  <1>6. StoppedIsQuiet'
    BY DEF IInv, StoppedIsQuiet, TypeOK, TerminalSettles, Stopped, Terminal, CancelCalls,
       Release, StopManaged, AbortCancels, NoCancel, Over
  <1>7. SlotHeld'
    BY DEF IInv, SlotHeld, TypeOK, SentOnce, PendingIsKnown, TerminalSettles,
       AnsweredIsHeld, Stopped, CancelCalls, Terminal, Release, StopManaged, AbortCancels,
       NoCancel, Over
  <1>8. SparesOtherHolder'
    BY DEF IInv, SparesOtherHolder, AlreadySkips, TypeOK, CancelCalls, Release,
       StopManaged, AbortCancels, NoCancel, Over
  <1>9. OpeningFirst' /\ AnsweredIsHeld' /\ ClaimedFirst' /\ AlreadySkips'
    BY DEF IInv, OpeningFirst, AnsweredIsHeld, ClaimedFirst, AlreadySkips, Release,
       StopManaged
  <1> QED BY <1>1, <1>2, <1>3, <1>4, <1>5, <1>6, <1>7, <1>8, <1>9 DEF IInv

LEMMA KeepSessionReady ==
  ASSUME IInv, SessionReady
  PROVE  IInv'
  <1>1. TypeOK'
    BY DEF IInv, TypeOK, CancelCalls, SessionReady, pumpVars, backendVars
  <1>2. OpeningFirst'
    BY DEF IInv, OpeningFirst, TypeOK, SentOnce, CancelCalls, Queued, SessionReady,
       pumpVars, backendVars
  <1>3. TerminalSettles'
    BY DEF IInv, TerminalSettles, OpeningFirst, TypeOK, Terminal, CancelCalls,
       SessionReady, pumpVars, backendVars
  <1>4. StoppedIsQuiet'
    BY DEF IInv, StoppedIsQuiet, TypeOK, TerminalSettles, Stopped, Terminal, CancelCalls,
       SessionReady, pumpVars, backendVars
  <1>5. SentOnce' /\ AnsweredIsHeld' /\ PendingIsKnown' /\ ClaimedFirst' /\ CancelsKnow'
        /\ AlreadySkips' /\ SlotHeld' /\ SparesOtherHolder'
    BY DEF IInv, SentOnce, AnsweredIsHeld, PendingIsKnown, ClaimedFirst, CancelsKnow,
       AlreadySkips, SlotHeld, SparesOtherHolder, Queued, Stopped, BeaconOut, NeverRuns,
       Ended, SessionReady, pumpVars, backendVars
  <1> QED BY <1>1, <1>2, <1>3, <1>4, <1>5 DEF IInv

LEMMA KeepSessionEnds ==
  ASSUME IInv, SessionEnds
  PROVE  IInv'
  <1>1. TypeOK'
    BY DEF IInv, TypeOK, CancelCalls, SessionEnds, EndAs, Releasing, Woken, Settle,
       Terminal
  <1>2. OpeningFirst'
    BY DEF IInv, OpeningFirst, TypeOK, SentOnce, CancelCalls, Queued, SessionEnds, EndAs,
       Releasing, Woken, Settle, Terminal
  <1>3. TerminalSettles'
    BY DEF IInv, TerminalSettles, OpeningFirst, TypeOK, Terminal, CancelCalls,
       SessionEnds, EndAs, Releasing, Woken, Settle
  <1>4. SentOnce'
    BY DEF IInv, SentOnce, OpeningFirst, TypeOK, Queued, CancelCalls, SessionEnds, EndAs,
       Releasing, Woken, Settle, Terminal
  <1>5. PendingIsKnown'
    BY DEF IInv, PendingIsKnown, TypeOK, TerminalSettles, AnsweredIsHeld, SentOnce,
       Stopped, Queued, CancelCalls, Terminal, SessionEnds, EndAs, Releasing, Woken,
       Settle
  <1>6. ClaimedFirst'
    BY DEF IInv, ClaimedFirst, TypeOK, OpeningFirst, CancelCalls, SessionEnds, EndAs,
       Releasing, Woken, Settle, Terminal
  <1>7. CancelsKnow'
    BY DEF IInv, CancelsKnow, TypeOK, PendingIsKnown, AnsweredIsHeld, ClaimedFirst,
       SentOnce, OpeningFirst, Stopped, BeaconOut, NeverRuns, Ended, CancelCalls, Queued,
       SessionEnds, EndAs, Releasing, Woken, Settle, Terminal
  <1>8. StoppedIsQuiet'
    BY DEF IInv, StoppedIsQuiet, TypeOK, TerminalSettles, Stopped, Terminal, CancelCalls,
       SessionEnds, EndAs, Releasing, Woken, Settle
  <1>9. SlotHeld'
    BY DEF IInv, SlotHeld, TypeOK, SentOnce, PendingIsKnown, TerminalSettles,
       AnsweredIsHeld, Stopped, CancelCalls, Queued, Terminal, SessionEnds, EndAs,
       Releasing, Woken, Settle
  <1>10. SparesOtherHolder'
    BY DEF IInv, SparesOtherHolder, AlreadySkips, TypeOK, CancelCalls, SessionEnds, EndAs,
       Releasing, Woken, Settle, Terminal
  <1>11. AnsweredIsHeld' /\ AlreadySkips'
    BY DEF IInv, AnsweredIsHeld, AlreadySkips, SessionEnds
  <1> QED BY <1>1, <1>2, <1>3, <1>4, <1>5, <1>6, <1>7, <1>8, <1>9, <1>10, <1>11 DEF IInv

LEMMA KeepClaimed ==
  ASSUME IInv, Claimed
  PROVE  IInv'
  <1>1. TypeOK'
    BY DEF IInv, TypeOK, CancelCalls, Claimed, BeaconOut, Terminal, sessionVars, pumpVars
  <1>2. OpeningFirst'
    BY DEF IInv, OpeningFirst, TypeOK, SentOnce, CancelCalls, Queued, Claimed, BeaconOut,
       Terminal, sessionVars, pumpVars
  <1>3. AnsweredIsHeld'
    BY DEF IInv, AnsweredIsHeld, TypeOK, CancelCalls, Claimed, BeaconOut, Terminal,
       sessionVars, pumpVars
  <1>4. PendingIsKnown'
    BY DEF IInv, PendingIsKnown, TypeOK, TerminalSettles, AnsweredIsHeld, SentOnce,
       Stopped, Queued, CancelCalls, Terminal, Claimed, BeaconOut, sessionVars, pumpVars
  <1>5. ClaimedFirst'
    BY ExchangesAssumption DEF IInv, ClaimedFirst, TypeOK, OpeningFirst, CancelCalls,
       Claimed, BeaconOut, Terminal, sessionVars, pumpVars
  <1>6. CancelsKnow'
    BY DEF IInv, CancelsKnow, TypeOK, PendingIsKnown, AnsweredIsHeld, ClaimedFirst,
       SentOnce, OpeningFirst, Stopped, BeaconOut, NeverRuns, Ended, CancelCalls, Queued,
       Claimed, Terminal, sessionVars, pumpVars
  <1>7. TerminalSettles' /\ SentOnce' /\ StoppedIsQuiet' /\ AlreadySkips' /\ SlotHeld'
        /\ SparesOtherHolder'
    BY DEF IInv, TerminalSettles, SentOnce, StoppedIsQuiet, AlreadySkips, SlotHeld,
       SparesOtherHolder, Terminal, Queued, Stopped, Claimed, sessionVars, pumpVars
  <1> QED BY <1>1, <1>2, <1>3, <1>4, <1>5, <1>6, <1>7 DEF IInv

-----------------------------------------------------------------------------
(* The invariant, and what follows from it.                                  *)

LEMMA InitIInv == Init => IInv
  <1> SUFFICES ASSUME Init PROVE IInv
    OBVIOUS
  <1>1. Queued = {}
    BY DEF Init, Queued, ToSet
  <1>2. NoCancel \in CancelCalls
    BY DEF NoCancel, CancelCalls
  <1>3. TypeOK
    <2>1. cancels \in [Exchanges -> CancelCalls]
      BY <1>2 DEF Init
    <2>2. queue \in Seq(Exchanges) /\ phase \in [Exchanges -> {"new"}]
          /\ held \in [Exchanges -> {"unseen"}]
      BY DEF Init
    <2> QED BY <2>1, <2>2 DEF Init, TypeOK
  <1>4. OpeningFirst /\ TerminalSettles /\ AnsweredIsHeld /\ ClaimedFirst /\ StoppedIsQuiet
        /\ AlreadySkips /\ SlotHeld /\ SparesOtherHolder
    BY DEF Init, OpeningFirst, TerminalSettles, Terminal, AnsweredIsHeld, ClaimedFirst,
       StoppedIsQuiet, Stopped, AlreadySkips, SlotHeld, SparesOtherHolder
  <1>5. SentOnce /\ PendingIsKnown /\ CancelsKnow
    BY <1>1 DEF Init, SentOnce, PendingIsKnown, CancelsKnow, NoCancel
  <1> QED BY <1>3, <1>4, <1>5 DEF IInv

LEMMA NextKeepsIInv == IInv /\ [Next]_vars => IInv'
  <1> SUFFICES ASSUME IInv, [Next]_vars PROVE IInv'
    OBVIOUS
  <1>1. ASSUME NEW x \in Exchanges,
               \/ Send(x) \/ RecoverTimerFires(x) \/ Cancel(x) \/ CancelServed(x)
               \/ CancelHeard(x) \/ CancelAgain(x) \/ CancelFails(x) \/ OutcomeArrives(x)
               \/ OutcomeLost(x) \/ Started(x) \/ Finished(x)
        PROVE  IInv'
    BY <1>1, KeepSend, KeepRecoverTimerFires, KeepCancel, KeepCancelServed,
       KeepCancelHeard, KeepCancelAgain, KeepCancelFails, KeepOutcomeArrives,
       KeepOutcomeLost, KeepStarted, KeepFinished
  <1>2. CASE \/ PumpGoesOn \/ PostAnswered \/ PostBusy \/ PostFails \/ PostAgain
             \/ PostGivesUp \/ PostRefused \/ OpenBeacon \/ BeaconAnswered \/ BeaconAlready
             \/ BeaconRefused \/ BeaconFails \/ BeaconGivesUp \/ OpenHears \/ OpenReturns
             \/ OpenRejected \/ Close \/ RunClose \/ ClosedServed \/ CloseEnds \/ Release
             \/ SessionReady \/ SessionEnds \/ Claimed
    BY <1>2, KeepPumpGoesOn, KeepPostAnswered, KeepPostBusy, KeepPostFails, KeepPostAgain,
       KeepPostGivesUp, KeepPostRefused, KeepOpenBeacon, KeepBeaconAnswered,
       KeepBeaconAlready, KeepBeaconRefused, KeepBeaconFails, KeepBeaconGivesUp,
       KeepOpenHears, KeepOpenReturns, KeepOpenRejected, KeepClose, KeepRunClose,
       KeepClosedServed, KeepCloseEnds, KeepRelease, KeepSessionReady, KeepSessionEnds,
       KeepClaimed
  <1>3. CASE UNCHANGED vars
    <2>1. TypeOK' /\ OpeningFirst' /\ TerminalSettles' /\ SentOnce' /\ AnsweredIsHeld'
      BY <1>3 DEF IInv, TypeOK, OpeningFirst, TerminalSettles, Terminal, SentOnce, Queued,
         AnsweredIsHeld, vars, sessionVars, pumpVars, backendVars
    <2>2. PendingIsKnown' /\ ClaimedFirst' /\ CancelsKnow'
      BY <1>3 DEF IInv, PendingIsKnown, Stopped, Queued, ClaimedFirst, CancelsKnow, Ended,
         NeverRuns, BeaconOut, vars, sessionVars, pumpVars, backendVars
    <2>3. StoppedIsQuiet' /\ AlreadySkips' /\ SlotHeld' /\ SparesOtherHolder'
      BY <1>3 DEF IInv, StoppedIsQuiet, Stopped, Terminal, AlreadySkips, SlotHeld,
         SparesOtherHolder, vars, sessionVars, pumpVars, backendVars
    <2> QED BY <2>1, <2>2, <2>3 DEF IInv
  <1> QED BY <1>1, <1>2, <1>3 DEF Next

\* A cancel() that is done has found its exchange ended, or the exchange never reaches the
\* backend.
LEMMA CancelsReach == IInv => CancelReaches
  BY DEF IInv, TypeOK, CancelsKnow, CancelReaches, Ended, NeverRuns

\* The session acts on what the backend holds: one exchange over HTTPS at a time, no
\* cancel() that leaves its exchange running, no closed beacon for another holder's session.
THEOREM BackendIsHeeded == Spec => []BackendHeeded
  <1>1. IInv => BackendHeeded
    BY CancelsReach DEF IInv, BackendHeeded
  <1> QED BY <1>1, InitIInv, NextKeepsIInv, PTL DEF Spec

\* Once stopped, pump() is idle or about to find out: only what has been posted is on its way.
LEMMA NothingGoesOut ==
  ASSUME IInv, Stopped, [Next]_vars
  PROVE  posts' \subseteq posts
  <1>1. /\ pump \in {"idle", "next"} /\ (asked \/ Terminal)
        /\ closing \in {"telling", "released"}
    BY DEF IInv, StoppedIsQuiet, Stopped
  <1>2. ASSUME NEW x \in Exchanges, Send(x)
        PROVE  FALSE
    BY <1>1, <1>2 DEF Send, Terminal
  <1>3. ASSUME NEW x \in Exchanges, Started(x)
        PROVE  posts' \subseteq posts
    BY <1>3 DEF Started
  <1>4. CASE PumpGoesOn
    BY <1>4 DEF PumpGoesOn
  <1>5. CASE PostAnswered \/ PostBusy \/ PostFails \/ PostAgain \/ PostGivesUp \/ PostRefused
    BY <1>1, <1>5 DEF PostAnswered, PostBusy, PostFails, PostAgain, PostGivesUp, PostRefused
  <1>6. CASE RunClose \/ Release
    BY <1>6 DEF RunClose, Release, StopManaged
  <1>7. ASSUME NEW x \in Exchanges,
               \/ RecoverTimerFires(x) \/ Cancel(x) \/ CancelServed(x) \/ CancelHeard(x)
               \/ CancelAgain(x) \/ CancelFails(x) \/ OutcomeArrives(x) \/ OutcomeLost(x)
               \/ Finished(x)
        PROVE  UNCHANGED posts
    BY <1>7 DEF RecoverTimerFires, Cancel, CancelServed, CancelHeard, CancelAgain,
       CancelFails, OutcomeArrives, OutcomeLost, Finished, backendVars
  <1>8. CASE \/ OpenBeacon \/ BeaconAnswered \/ BeaconAlready \/ BeaconRefused
             \/ BeaconFails \/ BeaconGivesUp \/ OpenHears \/ OpenReturns \/ OpenRejected
             \/ Close \/ ClosedServed \/ CloseEnds \/ SessionReady \/ SessionEnds
             \/ Claimed
    BY <1>8 DEF OpenBeacon, BeaconAnswered, BeaconAlready, BeaconRefused, BeaconFails,
       BeaconGivesUp, OpenHears, OpenReturns, OpenRejected, Close, ClosedServed,
       CloseEnds, SessionReady, SessionEnds, Claimed, backendVars
  <1>9. CASE UNCHANGED vars
    BY <1>9 DEF vars, backendVars
  <1> QED BY <1>2, <1>3, <1>4, <1>5, <1>6, <1>7, <1>8, <1>9 DEF Next

\* No attempt of an exchange goes out once the queue is stopped, whatever was under way.
THEOREM NothingPostedOnceStopped == Spec => StoppedPostsNothing
  <1>1. IInv /\ [Next]_vars => [Stopped => posts' \subseteq posts]_vars
    BY NothingGoesOut
  <1> QED BY <1>1, InitIInv, NextKeepsIInv, PTL DEF Spec, StoppedPostsNothing

=============================================================================
