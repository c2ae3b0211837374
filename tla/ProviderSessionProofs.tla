------------------------ MODULE ProviderSessionProofs ------------------------
(***************************************************************************)
(* ToldTrue and SilencedIsSilent, for every set of exchanges and every     *)
(* bound: what a provider's session publishes is what ConsumerReceiver     *)
(* assumes of it, its record follows the channel, no exchange is dropped,  *)
(* and a session that was silenced publishes and records nothing more.     *)
(***************************************************************************)
EXTENDS ProviderSession, SequenceTheorems, FiniteSetTheorems, TLAPS

-----------------------------------------------------------------------------
(* The inductive invariant, of a session p and its log l.                    *)

Places(l) == 1..Len(l)
Outcome(l, i) == l[i].kind = "outcome"
Terminal(l, i) == l[i].kind \in TerminalStates
Others(l, i, j) == {k \in (i + 1)..j : Outcome(l, k) /\ l[k].x # l[i].x}

Conforming(l) ==
    \A i, j \in Places(l) : i < j =>
        /\ ~Terminal(l, i)
        /\ Outcome(l, i) /\ l[j].x = l[i].x => Cardinality(Others(l, i, j)) >= MaxSettledIds

Answered(l, x) == \E i \in Places(l) : Outcome(l, i) /\ l[i].x = x

\* What lets a message of x be sent: enough others have settled since its last outcome.
Fresh(l, x) ==
    \A i \in Places(l) : Outcome(l, i) /\ l[i].x = x =>
        Cardinality(Others(l, i, Len(l))) >= MaxSettledIds

\* An id is forgotten only behind MaxSettledIds others: the m-th of the remembered ids S
\* has at least Len(S) - m outcomes of others behind its own.
Remembered(l, S) ==
    /\ \A i \in Places(l) : Outcome(l, i) =>
          \/ Cardinality(Others(l, i, Len(l))) >= MaxSettledIds
          \/ \E m \in Places(S) : S[m] = l[i].x /\ Cardinality(Others(l, i, Len(l))) + m >= Len(S)
    /\ \A m \in Places(S) : Answered(l, S[m])

NoneTerminal(l) == \A i \in Places(l) : ~Terminal(l, i)

Named(l) == \A i \in Places(l) : Outcome(l, i) => l[i].x # "none"

LogSound(p) ==
    /\ Conforming(p.log) /\ Named(p.log)
    /\ \A i \in Places(p.log) : Terminal(p.log, i) =>
         p.closer.phase \in {"terminal", "done"} /\ (p.log[i].kind = "closed" => p.closer.kind = "close")

\* Who ends the session, and what an ending session still waits for.
EndsOnce(p) ==
    /\ p.silenced => p.ending
    /\ ~p.ending => p.closer = NoCloser
    /\ p.ending => p.silenced \/ p.closer.phase \in {"settling", "handler", "terminal"}
    /\ p.closeRun # "none" => p.closeHandled
    /\ p.closeRun = "closer" => p.closer.phase = "handler"
    /\ p.closeRun = "notice" => p.silenced
    /\ p.closer.phase \in {"handler", "terminal"} => OutcomesInFlight(p) = {}

\* An ending session has nothing queued or unsettled; whoever settled the running
\* exchange in its stead has aborted it.
RunSound(p) ==
    /\ p.run.stage # "none" => p.run.x # "none"
    /\ p.run.stage = "settling" => p.run.settled
    /\ p.ending => p.queue = <<>> /\ (p.run.x # "none" => p.run.settled /\ p.run.aborted)
    /\ p.run.settled /\ p.run.stage \in {"handler", "artifact"} => p.run.aborted

RunAnswered(p) == p.run.settled /\ ~p.ending => Answered(p.log, p.run.x)

\* No id is in two places.
IdsSound(p) ==
    /\ Len(p.settledIds) <= MaxSettledIds
    /\ \A i, j \in Places(p.queue) : i # j => p.queue[i] # p.queue[j]
    /\ \A i \in Places(p.queue) : p.queue[i] # p.run.x
    /\ \A m \in Places(p.settledIds) :
         /\ ~Queued(p, p.settledIds[m])
         /\ p.settledIds[m] = p.run.x => p.run.settled
    /\ ~p.ending => Remembered(p.log, p.settledIds)

Recorded(r, n, i) == \E b \in 1..n : r[b] = i

RecordSound(l, done, okay, r) ==
    /\ \A a, b \in Places(r) : a < b => r[a] < r[b]
    /\ \A a \in Places(r) : r[a] \in 1..done /\ (r[a] \in okay \/ Terminal(l, r[a]))
    /\ \A a \in Places(r) : l[r[a]].kind = "closed" =>
         \A i \in Places(l) : Outcome(l, i) => Recorded(r, a, i)

\* The outcomes up to the n-th message are recorded, unless the session fails, is to fail
\* or is silenced.
Excused(p) == p.closer.kind = "fail" \/ (p.closer.lost /\ p.closer.phase = "settling")

Complete(p, n) ==
    \/ p.silenced \/ Excused(p)
    \/ \A i \in 1..n : Outcome(p.log, i) => Recorded(p.recorded, Len(p.recorded), i)

Typed(p) ==
    /\ p \in Sessions /\ p.done <= Len(p.log)
    /\ p.attempt > 0 => p.done < Len(p.log)

\* Core is what holds within a step, too.
Core(p) ==
    /\ Typed(p) /\ LogSound(p) /\ EndsOnce(p) /\ RunSound(p) /\ IdsSound(p)
    /\ RecordSound(p.log, p.done, p.okay, p.recorded)

Good(p) == Core(p) /\ RunAnswered(p) /\ Complete(p, p.done)

Accounted(p, x) == p.ending \/ p.run.x = x \/ Queued(p, x) \/ Answered(p.log, x)

IInv ==
    /\ Good(s)
    /\ accepted \subseteq Exchanges
    /\ \A x \in accepted : Accounted(s, x)

LEMMA Limits ==
    /\ MaxSettledIds \in Nat \ {0} /\ MaxPending \in Nat \ {0}
    /\ MaxArtifacts \in Nat /\ "none" \notin Exchanges
    BY BoundsAssumption, ExchangesAssumption

With(l, m) == l \o <<m>>

-----------------------------------------------------------------------------
(* The log and the ids remembered of it.                                     *)

LEMMA OthersCount ==
    ASSUME NEW l \in Seq(Messages), NEW i \in Nat, NEW j \in Nat
    PROVE  IsFiniteSet(Others(l, i, j)) /\ Cardinality(Others(l, i, j)) \in Nat
    <1>1. IsFiniteSet((i + 1)..j)
        <2>1. i + 1 \in Int /\ j \in Int
            OBVIOUS
        <2> QED BY <2>1, FS_Interval
    <1>2. Others(l, i, j) \in SUBSET ((i + 1)..j)
        BY DEF Others
    <1> QED BY <1>1, <1>2, FS_Subset, FS_CardinalityType

\* A log that goes on: the outcomes behind the i-th message only grow in number.
LEMMA OthersGrow ==
    ASSUME NEW l \in Seq(Messages), NEW k \in Seq(Messages), NEW i \in Places(l),
           NEW j \in Places(k), Len(l) <= j, \A n \in Places(l) : k[n] = l[n]
    PROVE  /\ Others(l, i, Len(l)) \subseteq Others(k, i, j)
           /\ Cardinality(Others(l, i, Len(l))) <= Cardinality(Others(k, i, j))
    <1>1. Others(l, i, Len(l)) \subseteq Others(k, i, j)
        BY DEF Others, Places, Outcome
    <1>2. i \in Nat /\ j \in Nat
        BY DEF Places
    <1>3. IsFiniteSet(Others(k, i, j))
        BY <1>2, OthersCount
    <1> QED BY <1>1, <1>3, FS_Subset

LEMMA Onward ==
    ASSUME NEW l \in Seq(Messages), NEW msgs \in Seq(Messages)
    PROVE  /\ l \o msgs \in Seq(Messages)
           /\ Len(l \o msgs) = Len(l) + Len(msgs)
           /\ \A i \in Places(l) : (l \o msgs)[i] = l[i]
           /\ \A i \in Places(l \o msgs) :
                i \in Places(l) \/ (i - Len(l) \in Places(msgs) /\ (l \o msgs)[i] = msgs[i - Len(l)])
    <1>1. /\ l \o msgs \in Seq(Messages)
          /\ Len(l \o msgs) = Len(l) + Len(msgs)
          /\ \A i \in 1 .. Len(l) + Len(msgs) : (l \o msgs)[i] =
                 IF i <= Len(l) THEN l[i] ELSE msgs[i - Len(l)]
        BY ConcatProperties
    <1>2. Len(l) \in Nat /\ Len(msgs) \in Nat
        OBVIOUS
    <1> QED BY <1>1, <1>2 DEF Places

\* What is sent keeps the log conforming, if the exchanges it is about are fresh and no
\* two of its messages disturb each other.
LEMMA SendConforms ==
    ASSUME NEW l \in Seq(Messages), NEW msgs \in Seq(Messages),
           Conforming(l), NoneTerminal(l),
           \A n \in Places(msgs) : Fresh(l, msgs[n].x),
           \A m, n \in Places(msgs) : m < n =>
               ~Terminal(msgs, m) /\ (Outcome(msgs, m) => msgs[m].x # msgs[n].x)
    PROVE  Conforming(l \o msgs)
    <1> DEFINE k == l \o msgs
    <1> HIDE DEF k
    <1>k. /\ k \in Seq(Messages)
          /\ \A i \in Places(l) : k[i] = l[i]
          /\ \A i \in Places(k) :
                i \in Places(l) \/ (i - Len(l) \in Places(msgs) /\ k[i] = msgs[i - Len(l)])
        BY Onward DEF k
    <1> SUFFICES ASSUME NEW i \in Places(k), NEW j \in Places(k), i < j
                 PROVE  /\ ~Terminal(k, i)
                        /\ Outcome(k, i) /\ k[j].x = k[i].x =>
                             Cardinality(Others(k, i, j)) >= MaxSettledIds
        BY DEF Conforming, k
    <1>n. i \in Nat /\ j \in Nat /\ Len(l) \in Nat
        BY <1>k DEF Places
    <1>1. CASE j \in Places(l)
        <2>1. i \in Places(l)
            BY <1>1, <1>n, i < j DEF Places
        <2>2. ~Terminal(l, i) /\ (Outcome(l, i) /\ l[j].x = l[i].x =>
                 Cardinality(Others(l, i, j)) >= MaxSettledIds)
            BY <1>1, <2>1, i < j DEF Conforming
        <2>3. k[i] = l[i] /\ k[j] = l[j]
            BY <1>1, <2>1, <1>k
        <2>4. Others(k, i, j) = Others(l, i, j)
            <3>1. \A n \in (i + 1)..j : k[n] = l[n]
                BY <1>1, <2>1, <1>k, <1>n DEF Places
            <3> QED BY <3>1, <2>3 DEF Others, Outcome
        <2> QED BY <2>2, <2>3, <2>4 DEF Terminal, Outcome
    <1>2. CASE i \in Places(l) /\ j \notin Places(l)
        <2>1. k[i] = l[i] /\ ~Terminal(l, i)
            BY <1>2, <1>k DEF NoneTerminal
        <2>2. j - Len(l) \in Places(msgs) /\ k[j] = msgs[j - Len(l)]
            BY <1>2, <1>k
        <2>3. Fresh(l, k[j].x)
            BY <2>2
        <2>4. ASSUME Outcome(k, i), k[j].x = k[i].x
              PROVE  Cardinality(Others(k, i, j)) >= MaxSettledIds
            <3>1. Cardinality(Others(l, i, Len(l))) >= MaxSettledIds
                BY <2>1, <2>3, <2>4, <1>2 DEF Fresh, Outcome
            <3>2. Len(l) <= j
                BY <1>2, <1>n DEF Places
            <3>3. Cardinality(Others(l, i, Len(l))) <= Cardinality(Others(k, i, j))
                BY <3>2, <1>2, <1>k, OthersGrow
            <3>4. /\ Cardinality(Others(l, i, Len(l))) \in Nat
                  /\ Cardinality(Others(k, i, j)) \in Nat /\ MaxSettledIds \in Nat
                BY <1>n, <1>k, OthersCount, Limits
            <3> QED BY <3>1, <3>3, <3>4
        <2> QED BY <2>1, <2>4 DEF Terminal
    <1>3. CASE i \notin Places(l) /\ j \notin Places(l)
        <2>1. /\ i - Len(l) \in Places(msgs) /\ k[i] = msgs[i - Len(l)]
              /\ j - Len(l) \in Places(msgs) /\ k[j] = msgs[j - Len(l)]
            BY <1>3, <1>k
        <2>2. i - Len(l) < j - Len(l)
            BY <1>n, i < j
        <2> QED BY <2>1, <2>2 DEF Terminal, Outcome
    <1>4. j \notin Places(l) \/ i \in Places(l)
        BY <1>n, i < j DEF Places
    <1> QED BY <1>1, <1>2, <1>3, <1>4

LEMMA LastOfTypes ==
    ASSUME NEW U \in Seq(Exchanges), NEW n \in Nat
    PROVE  LastOf(U, n) \in Seq(Exchanges) /\ Len(LastOf(U, n)) <= n
    <1>1. Len(U) \in Nat /\ \A i \in (Len(U) - n + 1)..Len(U) : ~(Len(U) <= n) => U[i] \in Exchanges
        OBVIOUS
    <1>2. Len(U) - n + 1 \in Int /\ Len(U) \in Int
        BY <1>1
    <1>3. CASE ~(Len(U) <= n)
        <2>1. LastOf(U, n) = SubSeq(U, Len(U) - n + 1, Len(U))
            BY <1>3 DEF LastOf
        <2>2. /\ LastOf(U, n) \in Seq(Exchanges)
              /\ Len(LastOf(U, n)) = IF Len(U) - n + 1 <= Len(U) THEN Len(U) - (Len(U) - n + 1) + 1 ELSE 0
            BY <1>1, <1>2, <1>3, <2>1, SubSeqProperties
        <2>3. (IF Len(U) - n + 1 <= Len(U) THEN Len(U) - (Len(U) - n + 1) + 1 ELSE 0) <= n
            BY <1>1
        <2> QED BY <2>2, <2>3
    <1> QED BY <1>3 DEF LastOf

\* The newest id, and the ones before it but perhaps the oldest.
LEMMA LastOfOneMore ==
    ASSUME NEW S \in Seq(Exchanges), NEW x \in Exchanges, NEW n \in Nat \ {0}, Len(S) <= n,
           NEW T \in Seq(Exchanges), T = LastOf(With(S, x), n)
    PROVE  /\ Len(T) <= n
           /\ Len(T) > 0 /\ T[Len(T)] = x
           /\ \A m \in Places(T) : T[m] = x \/ \E k \in Places(S) : S[k] = T[m]
           /\ IF Len(S) = n THEN Len(T) = n /\ \A m \in Places(S) : m > 1 => T[m - 1] = S[m]
              ELSE Len(T) = Len(S) + 1 /\ \A m \in Places(S) : T[m] = S[m]
    <1> DEFINE U == With(S, x)
    <1>1. /\ U \in Seq(Exchanges) /\ Len(U) = Len(S) + 1
          /\ \A i \in 1..(Len(S) + 1) : U[i] = IF i <= Len(S) THEN S[i] ELSE x
        <2>1. <<x>> \in Seq(Exchanges) /\ Len(<<x>>) = 1 /\ <<x>>[1] = x
            OBVIOUS
        <2>2. /\ U \in Seq(Exchanges) /\ Len(U) = Len(S) + Len(<<x>>)
              /\ \A i \in 1..(Len(S) + Len(<<x>>)) : U[i] = IF i <= Len(S) THEN S[i] ELSE <<x>>[i - Len(S)]
            BY <2>1, ConcatProperties DEF With
        <2>3. Len(S) \in Nat
            OBVIOUS
        <2>4. \A i \in 1..(Len(S) + 1) : ~(i <= Len(S)) => i - Len(S) = 1
            BY <2>3
        <2> QED BY <2>1, <2>2, <2>4
    <1> HIDE DEF U
    <1>n. Len(S) \in Nat
        OBVIOUS
    <1>2. CASE Len(S) = n
        <2>1. T = SubSeq(U, 2, n + 1)
            <3>1. ~(Len(U) <= n) /\ Len(U) - n + 1 = 2 /\ Len(U) = n + 1
                BY <1>1, <1>2
            <3> QED BY <3>1 DEF LastOf, U
        <2>2. 2 \in Int /\ n + 1 \in Int /\ \A i \in 2..(n + 1) : U[i] \in Exchanges
            BY <1>1, <1>2, <1>n
        <2>3. /\ T \in Seq(Exchanges)
              /\ Len(T) = IF 2 <= n + 1 THEN n + 1 - 2 + 1 ELSE 0
              /\ \A i \in 1..(n + 1 - 2 + 1) : T[i] = U[2 + i - 1]
            BY <2>1, <2>2, SubSeqProperties
        <2>4. Len(T) = n
            BY <2>3
        <2>5. \A i \in 1..n : T[i] = U[i + 1]
            BY <2>3
        <2>6. T[n] = x
            BY <2>5, <1>1, <1>2
        <2>7. \A m \in 1..n : m < n => T[m] = S[m + 1] /\ m + 1 \in 1..n
            BY <2>5, <1>1, <1>2
        <2>8. \A m \in 1..n : m > 1 => T[m - 1] = S[m]
            BY <2>7
        <2>9. \A m \in 1..n : T[m] = x \/ \E k \in 1..n : S[k] = T[m]
            BY <2>6, <2>7
        <2> QED BY <2>3, <2>4, <2>6, <2>8, <2>9, <1>2 DEF U, Places
    <1>3. CASE Len(S) # n
        <2>1. T = U
            <3>1. Len(U) <= n
                BY <1>1, <1>3, <1>n
            <3> QED BY <3>1 DEF LastOf, U
        <2>2. Len(U) <= n /\ Len(U) > 0 /\ U[Len(U)] = x
            BY <1>1, <1>3, <1>n
        <2>3. \A m \in 1..Len(S) : U[m] = S[m]
            BY <1>1, <1>n
        <2>4. \A m \in 1..Len(U) : U[m] = x \/ \E k \in 1..Len(S) : S[k] = U[m]
            BY <1>1, <1>n
        <2> QED BY <2>1, <2>2, <2>3, <2>4, <1>1, <1>3 DEF U, Places
    <1> QED BY <1>2, <1>3

LEMMA WithTypes ==
    /\ \A l \in Seq(Messages), m \in Messages : With(l, m) \in Seq(Messages)
    /\ \A S \in Seq(Exchanges), x \in Exchanges, n \in Nat \ {0} :
         LastOf(With(S, x), n) \in Seq(Exchanges)
    <1>1. ASSUME NEW l \in Seq(Messages), NEW m \in Messages
          PROVE  With(l, m) \in Seq(Messages)
        BY ConcatProperties, <<m>> \in Seq(Messages) DEF With
    <1>2. ASSUME NEW S \in Seq(Exchanges), NEW x \in Exchanges, NEW n \in Nat \ {0}
          PROVE  LastOf(With(S, x), n) \in Seq(Exchanges)
        <2>1. With(S, x) \in Seq(Exchanges)
            BY ConcatProperties, <<x>> \in Seq(Exchanges) DEF With
        <2> QED BY <2>1, LastOfTypes
    <1> QED BY <1>1, <1>2

LEMMA OneMore ==
    ASSUME NEW l \in Seq(Messages), NEW m \in Messages, NEW k \in Seq(Messages), k = With(l, m)
    PROVE  /\ Len(k) = Len(l) + 1 /\ k[Len(k)] = m
           /\ \A i \in Places(l) : k[i] = l[i] /\ i \in Places(k)
           /\ Places(k) = Places(l) \cup {Len(k)} /\ Len(k) \in Nat
    <1>1. <<m>> \in Seq(Messages) /\ Len(<<m>>) = 1 /\ <<m>>[1] = m
        OBVIOUS
    <1>2. /\ Len(k) = Len(l) + Len(<<m>>)
          /\ \A i \in 1..(Len(l) + Len(<<m>>)) : k[i] = IF i <= Len(l) THEN l[i] ELSE <<m>>[i - Len(l)]
        <2>1. k = l \o <<m>>
            BY DEF With
        <2> QED BY <1>1, <2>1, ConcatProperties
    <1>3. Len(l) \in Nat
        OBVIOUS
    <1>4. Len(k) = Len(l) + 1
        BY <1>1, <1>2
    <1>5. k[Len(k)] = m
        <2>1. Len(k) \in 1..(Len(l) + Len(<<m>>)) /\ ~(Len(k) <= Len(l)) /\ Len(k) - Len(l) = 1
            BY <1>1, <1>3, <1>4
        <2> QED BY <2>1, <1>1, <1>2
    <1>6. \A i \in Places(l) : k[i] = l[i] /\ i \in Places(k)
        BY <1>1, <1>2, <1>3, <1>4 DEF Places
    <1>7. Places(k) = Places(l) \cup {Len(k)} /\ Len(k) \in Nat
        BY <1>3, <1>4 DEF Places
    <1> QED BY <1>4, <1>5, <1>6, <1>7

\* Behind each outcome another exchange's outcome is one more, anything else none.
LEMMA OthersOfOneMore ==
    ASSUME NEW l \in Seq(Messages), NEW m \in Messages, NEW i \in Places(l)
    PROVE  LET k == With(l, m) IN
           Cardinality(Others(k, i, Len(k))) =
             Cardinality(Others(l, i, Len(l))) +
               (IF m.kind = "outcome" /\ m.x # l[i].x THEN 1 ELSE 0)
    <1> DEFINE k == With(l, m)
               C == Others(l, i, Len(l))
    <1>0. k = With(l, m) /\ k \in Seq(Messages)
        BY WithTypes
    <1> HIDE DEF k
    <1>1. /\ Len(k) = Len(l) + 1 /\ k[Len(k)] = m
          /\ \A n \in Places(l) : k[n] = l[n]
          /\ Len(k) \in Nat
        BY <1>0, OneMore
    <1>2. i \in Nat /\ Len(l) \in Nat /\ i <= Len(l)
        BY DEF Places
    <1>3. k[i] = l[i]
        BY <1>1
    <1>4. Others(k, i, Len(k)) = IF m.kind = "outcome" /\ m.x # l[i].x THEN C \cup {Len(k)} ELSE C
        <2>1. (i + 1)..Len(k) = ((i + 1)..Len(l)) \cup {Len(k)}
            BY <1>1, <1>2
        <2>2. \A n \in (i + 1)..Len(l) : k[n] = l[n]
            BY <1>1, <1>2 DEF Places
        <2> QED BY <2>1, <2>2, <1>1, <1>3 DEF Others, Outcome
    <1>5. IsFiniteSet(C) /\ Cardinality(C) \in Nat
        BY <1>2, OthersCount
    <1>6. Len(k) \notin C
        BY <1>1, <1>2 DEF Others
    <1>7. Cardinality(C \cup {Len(k)}) = Cardinality(C) + 1
        BY <1>5, <1>6, FS_AddElement
    <1> HIDE DEF C
    <1> QED BY <1>4, <1>5, <1>7 DEF k, C

LEMMA AnsweredStays ==
    ASSUME NEW l \in Seq(Messages), NEW m \in Messages, NEW x
    PROVE  Answered(l, x) => Answered(With(l, m), x)
    <1> DEFINE k == With(l, m)
    <1>0. k = With(l, m) /\ k \in Seq(Messages)
        BY WithTypes
    <1> HIDE DEF k
    <1>1. \A i \in Places(l) : k[i] = l[i] /\ i \in Places(k)
        BY <1>0, OneMore
    <1> QED BY <1>0, <1>1 DEF Answered, Outcome

\* rememberSettled, as the outcome is sent.
LEMMA OutcomeRemembered ==
    ASSUME NEW l \in Seq(Messages), NEW S \in Seq(Exchanges), NEW m \in Messages,
           NEW x \in Exchanges, m.kind = "outcome", m.x = x,
           Remembered(l, S), Len(S) <= MaxSettledIds, \A n \in Places(S) : S[n] # x
    PROVE  Remembered(With(l, m), LastOf(With(S, x), MaxSettledIds))
    <1> DEFINE k == With(l, m)
               T == LastOf(With(S, x), MaxSettledIds)
               C(i) == Cardinality(Others(l, i, Len(l)))
               D(i) == Cardinality(Others(k, i, Len(k)))
    <1>k. /\ k = With(l, m) /\ k \in Seq(Messages)
          /\ T = LastOf(With(S, x), MaxSettledIds) /\ T \in Seq(Exchanges)
        BY WithTypes, Limits
    <1>0. MaxSettledIds \in Nat \ {0} /\ Len(S) \in Nat
        BY Limits
    <1>1. /\ k[Len(k)] = m
          /\ \A i \in Places(l) : k[i] = l[i]
          /\ Places(k) = Places(l) \cup {Len(k)} /\ Len(k) \in Nat
        <2> HIDE DEF k
        <2> QED BY <1>k, OneMore
    <1>2. /\ Len(T) <= MaxSettledIds
          /\ Len(T) > 0 /\ T[Len(T)] = x
          /\ \A n \in Places(T) : T[n] = x \/ \E j \in Places(S) : S[j] = T[n]
          /\ IF Len(S) = MaxSettledIds
             THEN Len(T) = MaxSettledIds /\ \A n \in Places(S) : n > 1 => T[n - 1] = S[n]
             ELSE Len(T) = Len(S) + 1 /\ \A n \in Places(S) : T[n] = S[n]
        <2> HIDE DEF T
        <2> QED BY <1>k, <1>0, LastOfOneMore
    <1>3. Len(T) \in Nat
        BY <1>k
    <1>4. \A i \in Places(l) : C(i) \in Nat
        BY OthersCount DEF Places
    <1>5. \A i \in Places(l) : D(i) = C(i) + (IF x # l[i].x THEN 1 ELSE 0)
        BY OthersOfOneMore
    <1>6. \A i \in Places(l) : D(i) \in Nat /\ C(i) <= D(i)
        BY <1>4, <1>5
    <1>7. D(Len(k)) \in Nat
        BY <1>k, <1>1, OthersCount
    <1> HIDE DEF k, T
    <1>8. ASSUME NEW i \in Places(k), Outcome(k, i)
          PROVE  D(i) >= MaxSettledIds \/ \E n \in Places(T) : T[n] = k[i].x /\ D(i) + n >= Len(T)
        <2>1. CASE i = Len(k)
            <3>1. Len(T) \in Places(T) /\ T[Len(T)] = k[i].x
                BY <1>1, <1>2, <1>3, <2>1 DEF Places
            <3>2. D(i) + Len(T) >= Len(T)
                <4> HIDE DEF D
                <4> QED BY <1>3, <1>7, <2>1
            <3> QED BY <3>1, <3>2
        <2>2. CASE i \in Places(l)
            <3>1. k[i] = l[i] /\ Outcome(l, i)
                BY <1>1, <1>8, <2>2 DEF Outcome
            <3>2. C(i) >= MaxSettledIds \/ \E n \in Places(S) : S[n] = l[i].x /\ C(i) + n >= Len(S)
                BY <2>2, <3>1 DEF Remembered
            <3>3. CASE C(i) >= MaxSettledIds
                <4> HIDE DEF C, D
                <4> QED BY <3>3, <1>4, <1>6, <1>0, <2>2
            <3>4. ASSUME NEW n \in Places(S), S[n] = l[i].x, C(i) + n >= Len(S)
                  PROVE  \/ D(i) >= MaxSettledIds
                         \/ \E j \in Places(T) : T[j] = k[i].x /\ D(i) + j >= Len(T)
                <4>1. D(i) = C(i) + 1 /\ C(i) \in Nat /\ n \in 1..Len(S)
                    BY <3>4, <1>5, <1>4, <2>2 DEF Places
                <4>2. CASE Len(S) = MaxSettledIds /\ n > 1
                    <5>1. T[n - 1] = k[i].x
                        BY <3>1, <3>4, <4>2, <1>2
                    <5>2. n - 1 \in 1..Len(T) /\ D(i) + (n - 1) >= Len(T)
                        <6> HIDE DEF C, D
                        <6> QED BY <3>4, <4>1, <4>2, <1>0, <1>2
                    <5> QED BY <5>1, <5>2 DEF Places
                <4>3. CASE Len(S) = MaxSettledIds /\ n = 1
                    <5> HIDE DEF C, D
                    <5> QED BY <3>4, <4>1, <4>3, <1>0
                <4>4. CASE Len(S) # MaxSettledIds
                    <5>1. T[n] = k[i].x
                        BY <3>1, <3>4, <4>4, <1>2
                    <5>2. n \in 1..Len(T) /\ D(i) + n >= Len(T)
                        <6> HIDE DEF C, D
                        <6> QED BY <3>4, <4>1, <4>4, <1>0, <1>2
                    <5> QED BY <5>1, <5>2 DEF Places
                <4>5. n > 1 \/ n = 1
                    BY <4>1
                <4> QED BY <4>2, <4>3, <4>4, <4>5
            <3> QED BY <3>2, <3>3, <3>4
        <2> QED BY <2>1, <2>2, <1>1
    <1>9. ASSUME NEW n \in Places(T)
          PROVE  Answered(k, T[n])
        <2>1. CASE T[n] = x
            <3>1. Outcome(k, Len(k)) /\ k[Len(k)].x = x /\ Len(k) \in Places(k)
                BY <1>1 DEF Outcome
            <3> QED BY <2>1, <3>1 DEF Answered
        <2>2. ASSUME NEW j \in Places(S), S[j] = T[n]
              PROVE  Answered(k, T[n])
            <3>1. Answered(l, T[n])
                BY <2>2 DEF Remembered
            <3> QED BY <3>1, AnsweredStays DEF k
        <2> QED BY <1>2, <2>1, <2>2
    <1> QED BY <1>8, <1>9 DEF Remembered, k, T

\* Any other message leaves the count.
LEMMA OtherRemembered ==
    ASSUME NEW l \in Seq(Messages), NEW S \in Seq(Exchanges), NEW m \in Messages,
           m.kind # "outcome", Remembered(l, S)
    PROVE  Remembered(With(l, m), S)
    <1> DEFINE k == With(l, m)
    <1>0. k = With(l, m) /\ k \in Seq(Messages)
        BY WithTypes
    <1>1. /\ k[Len(k)] = m /\ \A i \in Places(l) : k[i] = l[i]
          /\ Places(k) = Places(l) \cup {Len(k)}
        <2> HIDE DEF k
        <2> QED BY <1>0, OneMore
    <1>2. \A i \in Places(l) : Cardinality(Others(l, i, Len(l))) \in Nat
        BY OthersCount DEF Places
    <1>3. \A i \in Places(l) : Cardinality(Others(k, i, Len(k))) = Cardinality(Others(l, i, Len(l)))
        BY <1>2, OthersOfOneMore
    <1>4. \A n \in Places(S) : Answered(k, S[n])
        BY AnsweredStays DEF Remembered
    <1> HIDE DEF k
    <1>5. \A i \in Places(k) : Outcome(k, i) => i \in Places(l) /\ Outcome(l, i) /\ k[i].x = l[i].x
        BY <1>1 DEF Outcome
    <1> QED BY <1>3, <1>4, <1>5 DEF Remembered, k

LEMMA UnknownIsFresh ==
    ASSUME NEW l \in Seq(Messages), NEW S \in Seq(Exchanges), NEW x,
           Remembered(l, S), \A n \in Places(S) : S[n] # x
    PROVE  Fresh(l, x)
    BY DEF Remembered, Fresh

LEMMA NamelessIsFresh ==
    ASSUME NEW l \in Seq(Messages), Named(l)
    PROVE  Fresh(l, "none")
    BY DEF Named, Fresh

\* The record does not change with what is sent, which is why nothing may be sent
\* once the end is.
LEMMA SendKeepsRecord ==
    ASSUME NEW l \in Seq(Messages), NEW k \in Seq(Messages), Len(l) <= Len(k),
           \A i \in Places(l) : k[i] = l[i],
           NEW done \in Nat, done <= Len(l), NEW okay, NEW r \in Seq(Nat),
           NoneTerminal(l), RecordSound(l, done, okay, r)
    PROVE  RecordSound(k, done, okay, r)
    <1>1. \A a \in Places(r) : r[a] \in Places(l) /\ k[r[a]] = l[r[a]] /\ l[r[a]].kind # "closed"
        BY DEF RecordSound, NoneTerminal, Terminal, TerminalStates, Places
    <1> QED BY <1>1 DEF RecordSound, Terminal

-----------------------------------------------------------------------------
(* What each method changes.                                                 *)

SameEnds(p, q) ==
    /\ q.ending = p.ending /\ q.silenced = p.silenced /\ q.closer = p.closer
    /\ q.closeRun = p.closeRun /\ q.closeHandled = p.closeHandled

SameWork(p, q) == q.queue = p.queue /\ q.run = p.run /\ q.settledIds = p.settledIds

SameSent(p, q) == q.log = p.log /\ q.done = p.done /\ q.attempt = p.attempt

SameTold(p, q) == q.okay = p.okay /\ q.recorded = p.recorded

Runs == [x : Ids, settled : BOOLEAN, aborted : BOOLEAN,
         stage : {"none", "handler", "artifact", "settling"}, left : 0..MaxArtifacts, waits : Nat]

Closers == [phase : {"none", "settling", "handler", "terminal", "done"},
            kind : {"none", "close", "fail"}, lost : BOOLEAN]

LEMMA FieldTypes ==
    ASSUME NEW p \in Sessions
    PROVE  /\ p.rstate \in {"open", "ready", "closing"} \cup TerminalStates
           /\ p.open \in {"unopened", "handler", "returned", "threw"}
           /\ p.ready \in BOOLEAN /\ p.deferred \in BOOLEAN /\ p.ending \in BOOLEAN
           /\ p.silenced \in BOOLEAN /\ p.closeHandled \in BOOLEAN /\ p.finished \in BOOLEAN
           /\ p.queue \in Seq(Exchanges) /\ p.settledIds \in Seq(Exchanges)
           /\ p.run \in Runs /\ p.closer \in Closers
           /\ p.closeRun \in {"none", "closer", "open", "notice"}
           /\ p.log \in Seq(Messages) /\ p.done \in Nat /\ p.attempt \in 0..2
           /\ p.okay \subseteq Nat /\ p.recorded \in Seq(Nat)
    BY DEF Sessions, Runs, Closers

LEMMA RecordFields ==
    ASSUME NEW p \in Sessions, NEW i \in Nat, NEW q, q = Record(p, i)
    PROVE  /\ q \in Sessions
           /\ SameEnds(p, q) /\ SameWork(p, q) /\ SameSent(p, q) /\ q.okay = p.okay
           /\ q.recorded = IF p.silenced THEN p.recorded ELSE Append(p.recorded, i)
    <1>1. CASE p.silenced
        BY <1>1 DEF Record, SameEnds, SameWork, SameSent
    <1>2. CASE ~p.silenced
        <2>1. q = [p EXCEPT !.recorded = Append(@, i)]
            BY <1>2 DEF Record
        <2>2. Append(p.recorded, i) \in Seq(Nat)
            BY FieldTypes
        <2> DEFINE recorded == Append(p.recorded, i)
        <2>3. q = [p EXCEPT !.recorded = recorded] /\ recorded \in Seq(Nat)
            BY <2>1, <2>2
        <2> HIDE DEF recorded
        <2>4. q \in Sessions
            BY ONLY p \in Sessions, <2>3 DEF Sessions
        <2>5. /\ SameEnds(p, q) /\ SameWork(p, q) /\ SameSent(p, q) /\ q.okay = p.okay
              /\ q.recorded = recorded
            BY <2>3 DEF Sessions, SameEnds, SameWork, SameSent
        <2> QED BY <1>2, <2>4, <2>5 DEF recorded
    <1> QED BY <1>1, <1>2

LEMMA SendAllFields ==
    ASSUME NEW p \in Sessions, NEW msgs \in Seq(Messages), NEW q, q = SendAll(p, msgs)
    PROVE  /\ q \in Sessions
           /\ SameEnds(p, q) /\ SameWork(p, q) /\ SameTold(p, q) /\ q.done = p.done
           /\ q.log = IF p.silenced \/ msgs = <<>> THEN p.log ELSE p.log \o msgs
           /\ q.attempt = IF p.silenced \/ msgs = <<>> \/ p.attempt # 0 THEN p.attempt ELSE 1
    <1>1. CASE p.silenced \/ msgs = <<>>
        BY <1>1 DEF SendAll, SameEnds, SameWork, SameTold
    <1>2. CASE ~(p.silenced \/ msgs = <<>>)
        <2>1. q = [p EXCEPT !.log = @ \o msgs, !.attempt = IF @ = 0 THEN 1 ELSE @]
            BY <1>2 DEF SendAll
        <2>2. p.log \o msgs \in Seq(Messages) /\ (IF p.attempt = 0 THEN 1 ELSE p.attempt) \in 0..2
            BY FieldTypes, ConcatProperties
        <2> DEFINE log == p.log \o msgs
                   attempt == IF p.attempt = 0 THEN 1 ELSE p.attempt
                   r == [p EXCEPT !.log = log]
        <2>3. q = [p EXCEPT !.log = log, !.attempt = attempt]
            BY <2>1
        <2>r. q = [r EXCEPT !.attempt = attempt]
            BY <2>3 DEF Sessions
        <2>4. log \in Seq(Messages) /\ attempt \in 0..2
            BY <2>2
        <2> HIDE DEF log, attempt
        <2>5. r \in Sessions
            BY <2>4 DEF Sessions
        <2>6. /\ SameEnds(p, q) /\ SameWork(p, q) /\ SameTold(p, q) /\ q.done = p.done
              /\ q.log = log /\ q.attempt = attempt
            BY <2>3 DEF Sessions, SameEnds, SameWork, SameTold
        <2> HIDE DEF r
        <2>7. q \in Sessions
            BY ONLY <2>r, <2>4, <2>5 DEF Sessions
        <2> QED BY <1>2, <2>6, <2>7 DEF log, attempt
    <1> QED BY <1>1, <1>2

Silent(p, q) ==
    p.silenced => /\ q.silenced /\ q.log = p.log /\ q.done = p.done
                  /\ q.attempt = p.attempt /\ q.recorded = p.recorded

OutcomesOf(xs, st) == [i \in 1..Len(xs) |-> Message("outcome", xs[i], st)]

LEMMA OutcomesOfTypes ==
    ASSUME NEW xs \in Seq(Exchanges), NEW st \in OutcomeStates
    PROVE  /\ OutcomesOf(xs, st) \in Seq(Messages) /\ Len(OutcomesOf(xs, st)) = Len(xs)
           /\ \A i \in Places(xs) : OutcomesOf(xs, st)[i] = Message("outcome", xs[i], st)
           /\ xs = <<>> <=> OutcomesOf(xs, st) = <<>>
    <1>1. Len(xs) \in Nat
        OBVIOUS
    <1>2. \A i \in 1..Len(xs) : Message("outcome", xs[i], st) \in Messages
        BY DEF Message, Messages, Ids
    <1>3. OutcomesOf(xs, st) \in [1..Len(xs) -> Messages]
        BY <1>2 DEF OutcomesOf
    <1>4. OutcomesOf(xs, st) \in Seq(Messages) /\ Len(OutcomesOf(xs, st)) = Len(xs)
        BY <1>1, <1>3
    <1>5. \A i \in Places(xs) : OutcomesOf(xs, st)[i] = Message("outcome", xs[i], st)
        BY DEF OutcomesOf, Places
    <1>6. xs = <<>> <=> Len(xs) = 0
        BY EmptySeq
    <1>7. OutcomesOf(xs, st) = <<>> <=> Len(OutcomesOf(xs, st)) = 0
        BY <1>4, EmptySeq
    <1> QED BY <1>4, <1>5, <1>6, <1>7

LEMMA PublishOutcomesFields ==
    ASSUME NEW p \in Sessions, NEW xs \in Seq(Exchanges), NEW st \in OutcomeStates,
           NEW q, q = PublishOutcomes(p, xs, st)
    PROVE  /\ q \in Sessions
           /\ SameEnds(p, q) /\ SameTold(p, q) /\ q.done = p.done
           /\ q.queue = p.queue /\ q.run = p.run
           /\ q.settledIds = LastOf(p.settledIds \o xs, MaxSettledIds)
           /\ Len(q.settledIds) <= MaxSettledIds
           /\ q.log = IF p.silenced \/ xs = <<>> THEN p.log ELSE p.log \o OutcomesOf(xs, st)
           /\ q.attempt = IF p.silenced \/ xs = <<>> \/ p.attempt # 0 THEN p.attempt ELSE 1
    <1> DEFINE r == [p EXCEPT !.settledIds = LastOf(@ \o xs, MaxSettledIds)]
    <1>1. q = SendAll(r, OutcomesOf(xs, st))
        BY DEF PublishOutcomes, OutcomesOf
    <1>2. p.settledIds \o xs \in Seq(Exchanges)
        BY FieldTypes, ConcatProperties
    <1>3. /\ LastOf(p.settledIds \o xs, MaxSettledIds) \in Seq(Exchanges)
          /\ Len(LastOf(p.settledIds \o xs, MaxSettledIds)) <= MaxSettledIds
        BY <1>2, LastOfTypes, Limits
    <1>4. /\ r \in Sessions /\ SameEnds(p, r) /\ SameTold(p, r) /\ SameSent(p, r)
          /\ r.queue = p.queue /\ r.run = p.run
          /\ r.settledIds = LastOf(p.settledIds \o xs, MaxSettledIds)
        BY <1>3 DEF Sessions, SameEnds, SameTold, SameSent
    <1> HIDE DEF r
    <1>5. OutcomesOf(xs, st) \in Seq(Messages) /\ (xs = <<>> <=> OutcomesOf(xs, st) = <<>>)
        BY OutcomesOfTypes
    <1>6. /\ q \in Sessions
          /\ SameEnds(r, q) /\ SameWork(r, q) /\ SameTold(r, q) /\ q.done = r.done
          /\ q.log = IF r.silenced \/ OutcomesOf(xs, st) = <<>> THEN r.log ELSE r.log \o OutcomesOf(xs, st)
          /\ q.attempt = IF r.silenced \/ OutcomesOf(xs, st) = <<>> \/ r.attempt # 0 THEN r.attempt ELSE 1
        BY <1>1, <1>4, <1>5, SendAllFields
    <1> QED BY <1>3, <1>4, <1>5, <1>6 DEF SameEnds, SameWork, SameTold, SameSent

\* One outcome, of a session that publishes.
LEMMA PublishOutcomeFields ==
    ASSUME NEW p \in Sessions, ~p.silenced, NEW x \in Exchanges, NEW st \in OutcomeStates,
           NEW q, q = PublishOutcome(p, x, st)
    PROVE  /\ q \in Sessions
           /\ SameEnds(p, q) /\ SameTold(p, q) /\ q.done = p.done
           /\ q.queue = p.queue /\ q.run = p.run
           /\ q.settledIds = LastOf(With(p.settledIds, x), MaxSettledIds)
           /\ Len(q.settledIds) <= MaxSettledIds
           /\ q.log = With(p.log, Message("outcome", x, st))
    <1> DEFINE xs == <<x>>
    <1>1. xs \in Seq(Exchanges) /\ xs # <<>> /\ Len(xs) = 1 /\ xs[1] = x
        OBVIOUS
    <1>2. q = PublishOutcomes(p, xs, st)
        BY DEF PublishOutcome
    <1>3. OutcomesOf(xs, st) = <<Message("outcome", x, st)>>
        BY <1>1 DEF OutcomesOf
    <1>4. With(p.settledIds, x) = p.settledIds \o xs
        BY DEF With
    <1> HIDE DEF xs
    <1>5. /\ q \in Sessions
          /\ SameEnds(p, q) /\ SameTold(p, q) /\ q.done = p.done
          /\ q.queue = p.queue /\ q.run = p.run
          /\ q.settledIds = LastOf(p.settledIds \o xs, MaxSettledIds)
          /\ Len(q.settledIds) <= MaxSettledIds
          /\ q.log = IF p.silenced \/ xs = <<>> THEN p.log ELSE p.log \o OutcomesOf(xs, st)
        BY <1>1, <1>2, PublishOutcomesFields
    <1> QED BY <1>1, <1>3, <1>4, <1>5 DEF With

LEMMA SendFields ==
    ASSUME NEW p \in Sessions, NEW m \in Messages, NEW q, q = Send(p, m)
    PROVE  /\ q \in Sessions
           /\ SameEnds(p, q) /\ SameWork(p, q) /\ SameTold(p, q) /\ q.done = p.done
           /\ q.log = IF p.silenced THEN p.log ELSE With(p.log, m)
           /\ p.silenced => q.attempt = p.attempt
    <1>1. <<m>> \in Seq(Messages) /\ <<m>> # <<>>
        OBVIOUS
    <1> QED BY <1>1, SendAllFields DEF Send, With

LEMMA FinishFields ==
    ASSUME NEW p \in Sessions, NEW q, q = Finish(p)
    PROVE  /\ q \in Sessions /\ q.silenced
           /\ q.ending = p.ending /\ q.closer = p.closer
           /\ q.closeRun = p.closeRun /\ q.closeHandled = p.closeHandled
           /\ SameWork(p, q) /\ SameSent(p, q) /\ SameTold(p, q)
    BY DEF Finish, Sessions, SameWork, SameSent, SameTold

-----------------------------------------------------------------------------
(* Sending, with what it takes of the rest of the session.                   *)

\* Nothing that was to be recorded or answered is given up from p to q.
Continues(p, q) ==
    /\ Complete(p, p.done) => Complete(q, q.done)
    /\ \A x \in Exchanges : Accounted(p, x) => Accounted(q, x)

LEMMA SendOneConforms ==
    ASSUME NEW l \in Seq(Messages), NEW m \in Messages, Conforming(l), NoneTerminal(l), Fresh(l, m.x)
    PROVE  Conforming(With(l, m))
    <1> DEFINE msgs == <<m>>
    <1>1. msgs \in Seq(Messages) /\ Len(msgs) = 1 /\ msgs[1] = m
        OBVIOUS
    <1>2. With(l, m) = l \o msgs
        BY DEF With
    <1> HIDE DEF msgs
    <1>3. \A i \in Places(msgs) : i = 1
        BY <1>1 DEF Places
    <1>4. \A i \in Places(msgs) : Fresh(l, msgs[i].x)
        BY <1>1, <1>3
    <1>5. \A i, j \in Places(msgs) : ~(i < j)
        BY <1>3
    <1> QED BY <1>1, <1>2, <1>4, <1>5, SendConforms

LEMMA NotOver ==
    ASSUME NEW p \in Sessions, LogSound(p), p.closer.phase \notin {"terminal", "done"}
    PROVE  NoneTerminal(p.log)
    BY DEF LogSound, NoneTerminal

LEMMA NotEnding ==
    ASSUME NEW p \in Sessions, LogSound(p), EndsOnce(p), ~p.ending
    PROVE  ~p.silenced /\ p.closer = NoCloser /\ p.closer.phase = "none" /\ NoneTerminal(p.log)
    <1>1. ~p.silenced /\ p.closer = NoCloser /\ p.closer.phase = "none"
        BY DEF EndsOnce, NoCloser
    <1> QED BY <1>1, NotOver

\* One more message changes nothing of what came before.
LEMMA OneMoreKeeps ==
    ASSUME NEW p \in Sessions, NEW q \in Sessions, NEW m \in Messages, Typed(p),
           q.log = With(p.log, m), q.done = p.done, SameEnds(p, q), SameTold(p, q)
    PROVE  /\ Typed(q)
           /\ Complete(p, p.done) => Complete(q, q.done)
           /\ \A x : Answered(p.log, x) => Answered(q.log, x)
           /\ NoneTerminal(p.log) /\ RecordSound(p.log, p.done, p.okay, p.recorded) =>
                RecordSound(q.log, q.done, q.okay, q.recorded)
           /\ NoneTerminal(p.log) /\ m.kind \notin TerminalStates => NoneTerminal(q.log)
           /\ Named(p.log) /\ (m.kind = "outcome" => m.x # "none") => Named(q.log)
    <1> DEFINE l == p.log
               k == q.log
    <1>1. /\ l \in Seq(Messages) /\ k \in Seq(Messages) /\ k = With(l, m)
          /\ p.done \in Nat /\ p.done <= Len(l) /\ Len(l) \in Nat /\ p.recorded \in Seq(Nat)
        BY FieldTypes DEF Typed
    <1> HIDE DEF l, k
    <1>2. /\ Len(k) = Len(l) + 1 /\ k[Len(k)] = m
          /\ \A i \in Places(l) : k[i] = l[i] /\ i \in Places(k)
          /\ Places(k) = Places(l) \cup {Len(k)}
        BY <1>1, OneMore
    <1>3. Typed(q)
        BY <1>1, <1>2 DEF Typed, k
    <1>4. Complete(p, p.done) => Complete(q, q.done)
        <2>1. \A i \in 1..p.done : i \in Places(l) /\ k[i] = l[i]
            BY <1>1, <1>2 DEF Places
        <2> QED BY <2>1 DEF Complete, Excused, Outcome, SameEnds, SameTold, k, l
    <1>5. \A x : Answered(p.log, x) => Answered(q.log, x)
        BY <1>2 DEF Answered, Outcome, k, l
    <1>6. NoneTerminal(l) /\ RecordSound(l, p.done, p.okay, p.recorded) =>
            RecordSound(k, p.done, p.okay, p.recorded)
        <2> SUFFICES ASSUME NoneTerminal(l), RecordSound(l, p.done, p.okay, p.recorded)
                     PROVE  RecordSound(k, p.done, p.okay, p.recorded)
            OBVIOUS
        <2>1. Len(l) <= Len(k)
            BY <1>1, <1>2
        <2>2. \A i \in Places(l) : k[i] = l[i]
            BY <1>2
        <2> QED BY <1>1, <2>1, <2>2, SendKeepsRecord
    <1>7. NoneTerminal(l) /\ m.kind \notin TerminalStates => NoneTerminal(k)
        BY <1>2 DEF NoneTerminal, Terminal
    <1>8. Named(l) /\ (m.kind = "outcome" => m.x # "none") => Named(k)
        BY <1>2 DEF Named, Outcome
    <1> QED BY <1>3, <1>4, <1>5, <1>6, <1>7, <1>8 DEF k, l, SameTold

\* publishOutcome of an exchange that waits for nothing else.
LEMMA OutcomeKeeps ==
    ASSUME NEW p \in Sessions, Core(p), ~p.ending, NEW x \in Exchanges, NEW st \in OutcomeStates,
           ~Queued(p, x), p.run.x = x => p.run.settled,
           \A n \in Places(p.settledIds) : p.settledIds[n] # x,
           NEW q \in Sessions, q = PublishOutcome(p, x, st)
    PROVE  /\ Core(q) /\ Continues(p, q)
           /\ SameEnds(p, q) /\ q.run = p.run /\ q.done = p.done
           /\ Answered(q.log, x) /\ (RunAnswered(p) => RunAnswered(q))
    <1> DEFINE m == Message("outcome", x, st)
    <1>1. ~p.silenced /\ p.closer = NoCloser /\ p.closer.phase = "none" /\ NoneTerminal(p.log)
        BY NotEnding DEF Core
    <1>2. /\ SameEnds(p, q) /\ SameTold(p, q) /\ q.done = p.done
          /\ q.queue = p.queue /\ q.run = p.run
          /\ q.settledIds = LastOf(With(p.settledIds, x), MaxSettledIds)
          /\ Len(q.settledIds) <= MaxSettledIds
          /\ q.log = With(p.log, m)
        BY <1>1, PublishOutcomeFields
    <1>3. m \in Messages /\ m.kind = "outcome" /\ m.x = x /\ m.x # "none"
        BY Limits DEF Message, Messages, Ids
    <1> HIDE DEF m
    <1>4. /\ p.log \in Seq(Messages) /\ p.settledIds \in Seq(Exchanges)
          /\ q.log \in Seq(Messages) /\ q.settledIds \in Seq(Exchanges)
        BY FieldTypes
    <1>5. /\ Typed(q)
          /\ Complete(p, p.done) => Complete(q, q.done)
          /\ \A y : Answered(p.log, y) => Answered(q.log, y)
          /\ RecordSound(q.log, q.done, q.okay, q.recorded)
          /\ NoneTerminal(q.log) /\ Named(q.log)
        <2>1. m.kind \notin TerminalStates
            BY <1>3 DEF TerminalStates
        <2> QED BY <1>1, <1>2, <1>3, <2>1, OneMoreKeeps DEF Core, LogSound
    <1>6. LogSound(q)
        <2>1. Fresh(p.log, x)
            BY <1>4, UnknownIsFresh DEF Core, IdsSound
        <2>2. Conforming(q.log)
            BY <1>1, <1>2, <1>3, <1>4, <2>1, SendOneConforms DEF Core, LogSound
        <2> QED BY <1>5, <2>2 DEF LogSound, NoneTerminal
    <1>7. EndsOnce(q)
        BY <1>1, <1>2 DEF Core, EndsOnce, SameEnds
    <1>8. RunSound(q)
        BY <1>2 DEF Core, RunSound, SameEnds
    <1>9. IdsSound(q)
        <2>1. Remembered(q.log, q.settledIds)
            BY <1>2, <1>3, <1>4, OutcomeRemembered DEF Core, IdsSound
        <2>2. \A n \in Places(q.settledIds) :
                q.settledIds[n] = x \/ \E k \in Places(p.settledIds) : p.settledIds[k] = q.settledIds[n]
            <3>1. MaxSettledIds \in Nat \ {0} /\ Len(p.settledIds) <= MaxSettledIds
                BY Limits DEF Core, IdsSound
            <3> QED BY <1>2, <1>4, <3>1, LastOfOneMore
        <2>3. \A y : Queued(q, y) <=> Queued(p, y)
            BY <1>2 DEF Queued
        <2>4. \A n \in Places(q.settledIds) :
                ~Queued(q, q.settledIds[n]) /\ (q.settledIds[n] = q.run.x => q.run.settled)
            BY <1>2, <2>2, <2>3 DEF Core, IdsSound
        <2> QED BY <1>2, <2>1, <2>4 DEF Core, IdsSound
    <1>10. Answered(q.log, x)
        <2>1. Len(q.log) \in Places(q.log) /\ q.log[Len(q.log)] = m
            BY <1>2, <1>3, <1>4, OneMore
        <2> QED BY <1>3, <2>1 DEF Answered, Outcome
    <1>11. Continues(p, q)
        <2>1. \A y : Accounted(p, y) => Accounted(q, y)
            BY <1>2, <1>5 DEF Accounted, Queued, SameEnds
        <2> QED BY <1>5, <2>1 DEF Continues
    <1>12. RunAnswered(p) => RunAnswered(q)
        BY <1>2, <1>5 DEF RunAnswered, SameEnds
    <1> QED BY <1>2, <1>5, <1>6, <1>7, <1>8, <1>9, <1>10, <1>11, <1>12 DEF Core

\* session_ready and the artifacts.
LEMMA SendKeeps ==
    ASSUME NEW p \in Sessions, Core(p), ~p.ending, NEW m \in Messages,
           m.kind \in {"ready", "artifact"},
           m.x = "none" \/ (m.x = p.run.x /\ ~p.run.settled),
           NEW q \in Sessions, q = Send(p, m)
    PROVE  Core(q) /\ Continues(p, q) /\ (RunAnswered(p) => RunAnswered(q))
    <1>1. ~p.silenced /\ p.closer = NoCloser /\ p.closer.phase = "none" /\ NoneTerminal(p.log)
        BY NotEnding DEF Core
    <1>2. /\ SameEnds(p, q) /\ SameWork(p, q) /\ SameTold(p, q) /\ q.done = p.done
          /\ q.log = With(p.log, m)
        BY <1>1, SendFields
    <1>4. p.log \in Seq(Messages) /\ p.settledIds \in Seq(Exchanges) /\ q.log \in Seq(Messages)
        BY FieldTypes
    <1>3. m.kind \notin TerminalStates /\ m.kind # "outcome"
        BY DEF TerminalStates
    <1>5. /\ Typed(q)
          /\ Complete(p, p.done) => Complete(q, q.done)
          /\ \A y : Answered(p.log, y) => Answered(q.log, y)
          /\ RecordSound(q.log, q.done, q.okay, q.recorded)
          /\ NoneTerminal(q.log) /\ Named(q.log)
        BY <1>1, <1>2, <1>3, OneMoreKeeps DEF Core, LogSound
    <1>6. LogSound(q)
        <2>1. Fresh(p.log, m.x)
            <3>1. CASE m.x = "none"
                BY <3>1, <1>4, NamelessIsFresh DEF Core, LogSound
            <3>2. CASE m.x = p.run.x /\ ~p.run.settled
                <4>1. \A n \in Places(p.settledIds) : p.settledIds[n] # m.x
                    BY <3>2 DEF Core, IdsSound
                <4> QED BY <4>1, <1>4, UnknownIsFresh DEF Core, IdsSound
            <3> QED BY <3>1, <3>2
        <2>2. Conforming(q.log)
            BY <1>1, <1>2, <1>4, <2>1, SendOneConforms DEF Core, LogSound
        <2> QED BY <1>5, <2>2 DEF LogSound, NoneTerminal
    <1>7. EndsOnce(q)
        BY <1>1, <1>2 DEF Core, EndsOnce, SameEnds
    <1>8. RunSound(q)
        BY <1>2 DEF Core, RunSound, SameEnds, SameWork
    <1>9. IdsSound(q)
        <2>1. Remembered(q.log, q.settledIds)
            BY <1>2, <1>3, <1>4, OtherRemembered DEF Core, IdsSound, SameWork
        <2> QED BY <1>2, <2>1 DEF Core, IdsSound, SameWork, Queued
    <1>10. Continues(p, q)
        <2>1. \A y : Accounted(p, y) => Accounted(q, y)
            BY <1>2, <1>5 DEF Accounted, Queued, SameEnds, SameWork
        <2> QED BY <1>5, <2>1 DEF Continues
    <1>11. RunAnswered(p) => RunAnswered(q)
        BY <1>2, <1>5 DEF RunAnswered, SameEnds, SameWork
    <1> QED BY <1>5, <1>6, <1>7, <1>8, <1>9, <1>10, <1>11 DEF Core

-----------------------------------------------------------------------------
(* Ending.                                                                   *)

LEMMA SameKeeps ==
    ASSUME NEW p \in Sessions, NEW q \in Sessions,
           SameEnds(p, q), SameWork(p, q), SameSent(p, q), SameTold(p, q)
    PROVE  /\ Core(p) => Core(q)
           /\ Continues(p, q) /\ Silent(p, q)
           /\ RunAnswered(p) => RunAnswered(q)
           /\ Complete(p, p.done) => Complete(q, q.done)
    <1>1. ASSUME Core(p) PROVE Core(q)
        <2>1. Typed(q)
            BY <1>1 DEF Core, Typed, SameSent
        <2>2. LogSound(q)
            BY <1>1 DEF Core, LogSound, SameSent, SameEnds
        <2>3. EndsOnce(q)
            BY <1>1 DEF Core, EndsOnce, SameSent, SameEnds, OutcomesInFlight, InFlight
        <2>4. RunSound(q)
            BY <1>1 DEF Core, RunSound, SameWork, SameEnds
        <2>5. IdsSound(q)
            BY <1>1 DEF Core, IdsSound, SameWork, SameEnds, SameSent, Queued
        <2>6. RecordSound(q.log, q.done, q.okay, q.recorded)
            BY <1>1 DEF Core, SameSent, SameTold
        <2> QED BY <2>1, <2>2, <2>3, <2>4, <2>5, <2>6 DEF Core
    <1>2. Complete(p, p.done) => Complete(q, q.done)
        BY DEF Complete, Excused, SameEnds, SameSent, SameTold
    <1>3. \A x \in Exchanges : Accounted(p, x) => Accounted(q, x)
        BY DEF Accounted, Queued, SameEnds, SameSent, SameWork
    <1>4. Silent(p, q)
        BY DEF Silent, SameEnds, SameSent, SameTold
    <1>5. RunAnswered(p) => RunAnswered(q)
        BY DEF RunAnswered, SameEnds, SameSent, SameWork
    <1> QED BY <1>1, <1>2, <1>3, <1>4, <1>5 DEF Continues

LEMMA EndedIdsKeep ==
    ASSUME NEW p \in Sessions, NEW q \in Sessions, IdsSound(p), SameWork(p, q), q.ending
    PROVE  IdsSound(q)
    <1>1. \A y : Queued(q, y) <=> Queued(p, y)
        BY DEF Queued, SameWork
    <1> QED BY <1>1 DEF IdsSound, SameWork

\* An ending session has nothing left to answer for.
LEMMA EndingIsGood ==
    ASSUME NEW p, NEW q, Core(q), Complete(q, q.done), q.ending
    PROVE  Good(q) /\ Continues(p, q)
    BY DEF Good, Continues, RunAnswered, Accounted

Told(p) == \A i \in 1..p.done : Outcome(p.log, i) => Recorded(p.recorded, Len(p.recorded), i)

\* The terminal message, behind onSessionClose.
LEMMA AfterCloserKeeps ==
    ASSUME NEW p \in Sessions, Core(p), p.ending, p.closer.phase \in {"settling", "handler"},
           OutcomesInFlight(p) = {}, p.closeRun # "closer",
           p.silenced \/ p.closer.kind = "fail" \/ Told(p),
           NEW q, q = AfterClose(p, "closer")
    PROVE  q \in Sessions /\ Core(q) /\ Complete(q, q.done) /\ q.ending /\ Silent(p, q)
    <1>0. /\ p.closer \in Closers /\ p.log \in Seq(Messages) /\ p.done \in Nat
          /\ NoneTerminal(p.log)
        <2>1. p.closer.phase \notin {"terminal", "done"}
            OBVIOUS
        <2> QED BY <2>1, FieldTypes, NotOver DEF Core
    <1>1. CASE p.silenced
        <2> DEFINE r == [p EXCEPT !.closer.phase = "done"]
        <2>1. /\ r \in Sessions
              /\ r.closer.phase = "done" /\ r.closer.kind = p.closer.kind /\ r.closer.lost = p.closer.lost
              /\ r.ending = p.ending /\ r.silenced = p.silenced
              /\ r.closeRun = p.closeRun /\ r.closeHandled = p.closeHandled
              /\ SameWork(p, r) /\ SameSent(p, r) /\ SameTold(p, r)
            BY <1>0 DEF Sessions, Closers, SameWork, SameSent, SameTold
        <2>2. q = Finish(r)
            BY <1>1 DEF AfterClose
        <2> HIDE DEF r
        <2>3. /\ q \in Sessions /\ q.silenced
              /\ q.ending = p.ending /\ q.closer.phase = "done"
              /\ q.closeRun = p.closeRun /\ q.closeHandled = p.closeHandled
              /\ SameWork(p, q) /\ SameSent(p, q) /\ SameTold(p, q)
            <3>1. /\ q \in Sessions /\ q.silenced
                  /\ q.ending = r.ending /\ q.closer = r.closer
                  /\ q.closeRun = r.closeRun /\ q.closeHandled = r.closeHandled
                  /\ SameWork(r, q) /\ SameSent(r, q) /\ SameTold(r, q)
                BY <2>1, <2>2, FinishFields
            <3> QED BY <2>1, <3>1 DEF SameWork, SameSent, SameTold
        <2>4. Typed(q)
            BY <2>3 DEF Core, Typed, SameSent
        <2>5. LogSound(q)
            BY <2>3, <1>0 DEF Core, LogSound, SameSent, NoneTerminal
        <2>6. EndsOnce(q)
            BY <2>3 DEF Core, EndsOnce
        <2>7. RunSound(q)
            BY <2>3 DEF Core, RunSound, SameWork
        <2>8. IdsSound(q)
            BY <2>3, EndedIdsKeep DEF Core
        <2>9. RecordSound(q.log, q.done, q.okay, q.recorded)
            BY <2>3 DEF Core, SameSent, SameTold
        <2> QED BY <2>3, <2>4, <2>5, <2>6, <2>7, <2>8, <2>9, <1>1
                DEF Core, Complete, Silent, SameSent, SameTold
    <1>2. CASE ~p.silenced
        <2> DEFINE r == [p EXCEPT !.closer.phase = "terminal"]
                   m == Message(IF p.closer.kind = "close" THEN "closed" ELSE "failed", "none", "none")
        <2>1. /\ r \in Sessions
              /\ r.closer.phase = "terminal" /\ r.closer.kind = p.closer.kind /\ r.closer.lost = p.closer.lost
              /\ r.ending = p.ending /\ r.silenced = p.silenced
              /\ r.closeRun = p.closeRun /\ r.closeHandled = p.closeHandled
              /\ SameWork(p, r) /\ SameSent(p, r) /\ SameTold(p, r)
            BY <1>0 DEF Sessions, Closers, SameWork, SameSent, SameTold
        <2>2. q = Send(r, m)
            BY <1>2 DEF AfterClose
        <2>3. /\ m \in Messages /\ m.x = "none" /\ m.kind # "outcome"
              /\ m.kind = "closed" => p.closer.kind = "close"
            BY DEF Message, Messages, Ids
        <2> HIDE DEF r, m
        <2>4. /\ q \in Sessions
              /\ SameEnds(r, q) /\ SameWork(r, q) /\ SameTold(r, q) /\ q.done = r.done
              /\ q.log = With(r.log, m)
            BY <2>1, <2>2, <2>3, <1>2, SendFields
        <2>5. r.log = p.log /\ q.log \in Seq(Messages) /\ q.done = p.done
            BY <2>1, <2>4, FieldTypes DEF SameSent
        <2>6. /\ Len(q.log) = Len(p.log) + 1 /\ q.log[Len(q.log)] = m
              /\ \A i \in Places(p.log) : q.log[i] = p.log[i]
              /\ Places(q.log) = Places(p.log) \cup {Len(q.log)}
            BY <2>3, <2>4, <2>5, <1>0, OneMore
        <2>7. Typed(r) /\ Complete(r, r.done) /\ RecordSound(r.log, r.done, r.okay, r.recorded)
            BY <2>1, <1>2 DEF Core, Typed, Complete, Excused, Told, SameSent, SameTold
        <2>8. /\ Typed(q) /\ Complete(q, q.done) /\ Named(q.log)
              /\ RecordSound(q.log, q.done, q.okay, q.recorded)
            <3>1. NoneTerminal(r.log) /\ Named(r.log)
                BY <2>5, <1>0 DEF Core, LogSound
            <3>2. r.done = q.done
                BY <2>4
            <3> QED BY <2>1, <2>3, <2>4, <2>7, <3>1, <3>2, OneMoreKeeps
        <2>9. LogSound(q)
            <3>1. Fresh(p.log, m.x)
                BY <2>3, <1>0, NamelessIsFresh DEF Core, LogSound
            <3>2. Conforming(q.log)
                BY <2>3, <2>4, <2>5, <3>1, <1>0, SendOneConforms DEF Core, LogSound
            <3>3. q.closer.phase = "terminal" /\ q.closer.kind = p.closer.kind
                BY <2>1, <2>4 DEF SameEnds
            <3>4. \A i \in Places(q.log) : Terminal(q.log, i) => i = Len(q.log)
                BY <2>6, <1>0 DEF NoneTerminal, Terminal
            <3> QED BY <2>3, <2>6, <2>8, <3>2, <3>3, <3>4 DEF LogSound
        <2>10. EndsOnce(q)
            <3>1. OutcomesInFlight(q) = {}
                <4>1. \A i \in (q.done + 1)..Len(q.log) : i = Len(q.log) \/ i \in (p.done + 1)..Len(p.log)
                    BY <2>5, <2>6, <1>0
                <4>2. \A i \in (p.done + 1)..Len(p.log) : i \in Places(p.log)
                    BY <1>0 DEF Places
                <4> QED BY <4>1, <4>2, <2>3, <2>6 DEF OutcomesInFlight, InFlight
            <3> QED BY <3>1, <2>1, <2>4 DEF Core, EndsOnce, SameEnds
        <2>11. RunSound(q)
            BY <2>1, <2>4 DEF Core, RunSound, SameWork, SameEnds
        <2>12. IdsSound(q)
            <3>1. SameWork(p, q) /\ q.ending
                BY <2>1, <2>4 DEF SameWork, SameEnds
            <3> QED BY <2>4, <3>1, EndedIdsKeep DEF Core
        <2>13. q.ending /\ Silent(p, q)
            BY <2>1, <2>4, <1>2 DEF SameEnds, Silent
        <2> QED BY <2>4, <2>8, <2>9, <2>10, <2>11, <2>12, <2>13 DEF Core
    <1> QED BY <1>1, <1>2

\* onSessionClose, if it is to be called, then the terminal message.
LEMMA RunCloserKeeps ==
    ASSUME NEW p \in Sessions, Core(p), p.ending, p.closer.phase = "settling",
           OutcomesInFlight(p) = {}, p.silenced \/ p.closer.kind = "fail" \/ Told(p),
           NEW q, q = RunSessionClose(p, "closer")
    PROVE  q \in Sessions /\ Core(q) /\ Complete(q, q.done) /\ q.ending /\ Silent(p, q)
    <1>1. CASE p.open # "returned" \/ p.closeHandled
        <2>1. p.closeRun # "closer"
            BY DEF Core, EndsOnce
        <2>2. q = AfterClose(p, "closer")
            BY <1>1 DEF RunSessionClose
        <2> QED BY <2>1, <2>2, AfterCloserKeeps
    <1>2. CASE ~(p.open # "returned" \/ p.closeHandled)
        <2>1. q = [p EXCEPT !.closeHandled = TRUE, !.closeRun = "closer", !.closer.phase = "handler"]
            BY <1>2 DEF RunSessionClose
        <2>2. /\ q \in Sessions
              /\ q.closer.phase = "handler" /\ q.closer.kind = p.closer.kind /\ q.closer.lost = p.closer.lost
              /\ q.ending = p.ending /\ q.silenced = p.silenced
              /\ q.closeRun = "closer" /\ q.closeHandled
              /\ SameWork(p, q) /\ SameSent(p, q) /\ SameTold(p, q)
            <3>1. p.closer \in Closers
                BY FieldTypes
            <3>2. [p.closer EXCEPT !.phase = "handler"] \in Closers
                BY <3>1 DEF Closers
            <3> DEFINE c == [p.closer EXCEPT !.phase = "handler"]
            <3>c. q = [p EXCEPT !.closeHandled = TRUE, !.closeRun = "closer", !.closer = c]
                BY <2>1
            <3>d. c \in Closers
                BY <3>2
            <3> HIDE DEF c
            <3>e. q \in Sessions
                <4> DEFINE r == [p EXCEPT !.closer = c]
                <4>1. r \in Sessions
                    BY <3>d DEF Sessions, Closers
                <4> DEFINE t == [r EXCEPT !.closeHandled = TRUE]
                <4>2. q = [t EXCEPT !.closeRun = "closer"]
                    BY <3>c DEF Sessions
                <4> HIDE DEF r
                <4>3. t \in Sessions
                    BY ONLY <4>1 DEF Sessions
                <4> HIDE DEF t
                <4> QED BY ONLY <4>2, <4>3 DEF Sessions
            <3>f. /\ q.closer = c
                  /\ q.ending = p.ending /\ q.silenced = p.silenced
                  /\ q.closeRun = "closer" /\ q.closeHandled
                BY <3>c DEF Sessions
            <3>3. /\ q \in Sessions
                  /\ q.closer = [p.closer EXCEPT !.phase = "handler"]
                  /\ q.ending = p.ending /\ q.silenced = p.silenced
                  /\ q.closeRun = "closer" /\ q.closeHandled
                BY <3>e, <3>f DEF c
            <3>4. SameWork(p, q) /\ SameSent(p, q) /\ SameTold(p, q)
                BY <2>1 DEF Sessions, SameWork, SameSent, SameTold
            <3> QED BY <3>1, <3>3, <3>4 DEF Closers
        <2>3. Typed(q)
            BY <2>2 DEF Core, Typed, SameSent
        <2>4. LogSound(q)
            BY <2>2 DEF Core, LogSound, SameSent
        <2>5. EndsOnce(q)
            BY <2>2 DEF Core, EndsOnce, SameSent, OutcomesInFlight, InFlight
        <2>6. RunSound(q)
            BY <2>2 DEF Core, RunSound, SameWork
        <2>7. IdsSound(q)
            BY <2>2, EndedIdsKeep DEF Core
        <2>8. RecordSound(q.log, q.done, q.okay, q.recorded)
            BY <2>2 DEF Core, SameSent, SameTold
        <2>9. Complete(q, q.done) /\ Silent(p, q)
            BY <2>2 DEF Complete, Excused, Told, SameSent, SameTold, Silent
        <2> QED BY <2>2, <2>3, <2>4, <2>5, <2>6, <2>7, <2>8, <2>9 DEF Core
    <1> QED BY <1>1, <1>2

\* close and completeFail go on once every outcome has settled.
LEMMA AfterOutcomesKeeps ==
    ASSUME NEW p \in Sessions, Core(p), Complete(p, p.done), NEW q, q = AfterOutcomes(p)
    PROVE  /\ q \in Sessions /\ Core(q) /\ Complete(q, q.done) /\ Silent(p, q)
           /\ p.ending => q.ending
           /\ Continues(p, q) /\ (RunAnswered(p) => RunAnswered(q))
    <1>1. CASE p.closer.phase # "settling" \/ OutcomesInFlight(p) # {}
        BY <1>1 DEF AfterOutcomes, Continues, Silent
    <1>2. CASE ~(p.closer.phase # "settling" \/ OutcomesInFlight(p) # {})
        <2> DEFINE r == [p EXCEPT !.closer.kind = IF p.closer.lost THEN "fail" ELSE @]
        <2>1. q = RunSessionClose(r, "closer")
            BY <1>2 DEF AfterOutcomes
        <2>2. /\ r \in Sessions
              /\ r.closer.phase = p.closer.phase /\ r.closer.lost = p.closer.lost
              /\ r.closer.kind = IF p.closer.lost THEN "fail" ELSE p.closer.kind
              /\ r.ending = p.ending /\ r.silenced = p.silenced
              /\ r.closeRun = p.closeRun /\ r.closeHandled = p.closeHandled
              /\ SameWork(p, r) /\ SameSent(p, r) /\ SameTold(p, r)
            <3>1. p.closer \in Closers
                BY FieldTypes
            <3> DEFINE kind == IF p.closer.lost THEN "fail" ELSE p.closer.kind
                       c == [p.closer EXCEPT !.kind = kind]
            <3>2. kind \in {"none", "close", "fail"}
                BY <3>1 DEF Closers
            <3>3. r = [p EXCEPT !.closer = c]
                BY <3>1 DEF Sessions, Closers
            <3> HIDE DEF kind, r
            <3>4. c \in Closers /\ c.phase = p.closer.phase /\ c.lost = p.closer.lost /\ c.kind = kind
                BY <3>1, <3>2 DEF Closers
            <3> HIDE DEF c
            <3>5. r \in Sessions
                BY <3>3, <3>4 DEF Sessions, Closers
            <3>6. /\ r.closer = c /\ r.ending = p.ending /\ r.silenced = p.silenced
                  /\ r.closeRun = p.closeRun /\ r.closeHandled = p.closeHandled
                  /\ SameWork(p, r) /\ SameSent(p, r) /\ SameTold(p, r)
                BY <3>3 DEF Sessions, SameWork, SameSent, SameTold
            <3> QED BY <3>4, <3>5, <3>6 DEF kind
        <2> HIDE DEF r
        <2>3. p.ending
            BY <1>2 DEF Core, EndsOnce, NoCloser
        <2>4. NoneTerminal(p.log)
            BY <1>2, NotOver DEF Core
        <2>5. Core(r)
            <3>1. Typed(r)
                BY <2>2 DEF Core, Typed, SameSent
            <3>2. LogSound(r)
                BY <2>2, <2>4 DEF Core, LogSound, SameSent, NoneTerminal
            <3>3. EndsOnce(r)
                BY <2>2, <2>3, <1>2 DEF Core, EndsOnce
            <3>4. RunSound(r)
                BY <2>2 DEF Core, RunSound, SameWork
            <3>5. IdsSound(r)
                BY <2>2, <2>3 DEF Core, IdsSound, SameWork, Queued
            <3>6. RecordSound(r.log, r.done, r.okay, r.recorded)
                BY <2>2 DEF Core, SameSent, SameTold
            <3> QED BY <3>1, <3>2, <3>3, <3>4, <3>5, <3>6 DEF Core
        <2>6. r.silenced \/ r.closer.kind = "fail" \/ Told(r)
            BY <2>2 DEF Complete, Excused, Told, SameSent, SameTold
        <2>7. OutcomesInFlight(r) = {}
            BY <2>2, <1>2 DEF SameSent, OutcomesInFlight, InFlight
        <2>8. q \in Sessions /\ Core(q) /\ Complete(q, q.done) /\ q.ending /\ Silent(r, q)
            BY <1>2, <2>1, <2>2, <2>3, <2>5, <2>6, <2>7, RunCloserKeeps
        <2>9. Silent(p, q)
            BY <2>2, <2>8 DEF Silent, SameSent, SameTold
        <2> QED BY <2>8, <2>9, EndingIsGood DEF Good
    <1> QED BY <1>1, <1>2

\* The exchanges cancelAll settles.
ToCancel(p) ==
    (IF p.run.x # "none" /\ ~p.run.settled THEN <<p.run.x>> ELSE <<>>) \o p.queue

LEMMA ToCancelTypes ==
    ASSUME NEW p \in Sessions
    PROVE  ToCancel(p) \in Seq(Exchanges)
    <1>1. p.queue \in Seq(Exchanges) /\ (p.run.x # "none" => p.run.x \in Exchanges)
        BY FieldTypes DEF Runs, Ids
    <1>2. CASE p.run.x # "none" /\ ~p.run.settled
        <2>1. <<p.run.x>> \in Seq(Exchanges) /\ ToCancel(p) = <<p.run.x>> \o p.queue
            BY <1>1, <1>2 DEF ToCancel
        <2> QED BY <1>1, <2>1, ConcatProperties
    <1>3. CASE ~(p.run.x # "none" /\ ~p.run.settled)
        BY <1>1, <1>3, ConcatEmptySeq DEF ToCancel
    <1> QED BY <1>2, <1>3

LEMMA ToCancelIds ==
    ASSUME NEW p \in Sessions, IdsSound(p), NEW xs \in Seq(Exchanges), xs = ToCancel(p)
    PROVE  /\ \A m, n \in Places(xs) : m < n => xs[m] # xs[n]
           /\ \A n \in Places(xs), m \in Places(p.settledIds) : p.settledIds[m] # xs[n]
    <1>1. p.queue \in Seq(Exchanges) /\ (p.run.x # "none" => p.run.x \in Exchanges)
        BY FieldTypes DEF Runs, Ids
    <1>2. /\ \A i, j \in Places(p.queue) : i # j => p.queue[i] # p.queue[j]
          /\ \A i \in Places(p.queue) : p.queue[i] # p.run.x
          /\ \A m \in Places(p.settledIds), i \in Places(p.queue) : p.settledIds[m] # p.queue[i]
          /\ \A m \in Places(p.settledIds) : p.settledIds[m] = p.run.x => p.run.settled
        BY DEF IdsSound, Queued, Places
    <1>3. CASE p.run.x # "none" /\ ~p.run.settled
        <2> DEFINE x == p.run.x
                   ys == <<x>>
        <2>1. /\ ys \in Seq(Exchanges) /\ Len(ys) = 1 /\ ys[1] = x
              /\ xs = ys \o p.queue
            BY <1>1, <1>3 DEF ToCancel
        <2> HIDE DEF ys
        <2>2. /\ Len(xs) = 1 + Len(p.queue)
              /\ \A i \in 1..(1 + Len(p.queue)) : xs[i] = IF i <= 1 THEN ys[i] ELSE p.queue[i - 1]
            <3>1. /\ Len(xs) = Len(ys) + Len(p.queue)
                  /\ \A i \in 1..(Len(ys) + Len(p.queue)) :
                       xs[i] = IF i <= Len(ys) THEN ys[i] ELSE p.queue[i - Len(ys)]
                <4> DEFINE k == ys \o p.queue
                <4>1. /\ Len(k) = Len(ys) + Len(p.queue)
                      /\ \A i \in 1..(Len(ys) + Len(p.queue)) :
                           k[i] = IF i <= Len(ys) THEN ys[i] ELSE p.queue[i - Len(ys)]
                    BY <1>1, <2>1, ConcatProperties
                <4>2. xs = k
                    BY <2>1
                <4> HIDE DEF k
                <4> QED BY <4>1, <4>2
            <3> QED BY ONLY <3>1, <2>1
        <2>3. Len(p.queue) \in Nat
            BY <1>1
        <2>4. \A n \in Places(xs) :
                \/ n = 1 /\ xs[n] = x
                \/ n - 1 \in Places(p.queue) /\ xs[n] = p.queue[n - 1]
            BY <2>1, <2>2, <2>3 DEF Places
        <2>5. \A m, n \in Places(xs) : m < n =>
                /\ n - 1 \in Places(p.queue) /\ xs[n] = p.queue[n - 1]
                /\ m = 1 \/ m - 1 # n - 1
            BY <2>2, <2>3, <2>4 DEF Places
        <2>6. \A m, n \in Places(xs) : m < n => xs[m] # xs[n]
            <3> SUFFICES ASSUME NEW m \in Places(xs), NEW n \in Places(xs), m < n
                         PROVE  xs[m] # xs[n]
                OBVIOUS
            <3>1. n - 1 \in Places(p.queue) /\ xs[n] = p.queue[n - 1]
                BY <2>5
            <3>2. CASE m = 1
                <4>1. xs[1] = x
                    BY <2>1, <2>2, <2>3
                <4>2. p.queue[n - 1] # x
                    BY <3>1, <1>2
                <4> QED BY <3>1, <3>2, <4>1, <4>2
            <3>3. CASE m # 1
                <4>1. m - 1 \in Places(p.queue) /\ xs[m] = p.queue[m - 1] /\ m - 1 # n - 1
                    BY <3>3, <2>4, <2>5
                <4> QED BY <3>1, <4>1, <1>2
            <3> QED BY <3>2, <3>3
        <2>7. \A n \in Places(xs), m \in Places(p.settledIds) : p.settledIds[m] # xs[n]
            BY <1>2, <1>3, <2>4
        <2> QED BY <2>6, <2>7
    <1>4. CASE ~(p.run.x # "none" /\ ~p.run.settled)
        <2>1. xs = p.queue
            BY <1>1, <1>4, ConcatEmptySeq DEF ToCancel
        <2>2. \A m, n \in Places(xs) : m < n => m # n
            BY <2>1, <1>1 DEF Places
        <2> QED BY <1>2, <2>1, <2>2
    <1> QED BY <1>3, <1>4

LEMMA CancelAllFields ==
    ASSUME NEW p \in Sessions, NEW q, q = CancelAll(p)
    PROVE  /\ q \in Sessions
           /\ SameEnds(p, q) /\ SameTold(p, q) /\ q.done = p.done
           /\ q.queue = <<>> /\ q.run.x = p.run.x /\ q.run.stage = p.run.stage
           /\ p.run.x # "none" => q.run.settled /\ q.run.aborted
           /\ p.run.x = "none" => q.run = p.run
           /\ Len(q.settledIds) <= MaxSettledIds
           /\ q.log = IF p.silenced \/ ToCancel(p) = <<>> THEN p.log
                      ELSE p.log \o OutcomesOf(ToCancel(p), "canceled")
           /\ q.attempt = IF p.silenced \/ ToCancel(p) = <<>> \/ p.attempt # 0 THEN p.attempt ELSE 1
    <1> DEFINE a == IF p.run.x = "none" THEN p ELSE [p EXCEPT !.run.aborted = TRUE, !.run.settled = TRUE]
               b == [a EXCEPT !.queue = <<>>]
    <1>1. q = PublishOutcomes(b, ToCancel(p), "canceled")
        BY DEF CancelAll, ToCancel
    <1>2. /\ a \in Sessions
          /\ SameEnds(p, a) /\ SameTold(p, a) /\ SameSent(p, a)
          /\ a.queue = p.queue /\ a.settledIds = p.settledIds
          /\ a.run.x = p.run.x /\ a.run.stage = p.run.stage
          /\ p.run.x # "none" => a.run.settled /\ a.run.aborted
          /\ p.run.x = "none" => a.run = p.run
        <2>1. CASE p.run.x = "none"
            BY <2>1 DEF SameEnds, SameTold, SameSent
        <2>2. CASE p.run.x # "none"
            <3> DEFINE r == [p.run EXCEPT !.aborted = TRUE, !.settled = TRUE]
            <3>1. /\ r \in Runs /\ r.x = p.run.x /\ r.stage = p.run.stage /\ r.settled /\ r.aborted
                <4>1. p.run \in Runs
                    BY FieldTypes
                <4> QED BY <4>1 DEF Runs
            <3>2. a = [p EXCEPT !.run = r]
                <4>1. p.run \in Runs
                    BY FieldTypes
                <4> QED BY <2>2, <4>1 DEF Sessions, Runs
            <3> HIDE DEF r, a
            <3>3. a \in Sessions
                BY <3>1, <3>2 DEF Sessions, Runs
            <3>4. /\ SameEnds(p, a) /\ SameTold(p, a) /\ SameSent(p, a)
                  /\ a.queue = p.queue /\ a.settledIds = p.settledIds /\ a.run = r
                BY <3>2 DEF Sessions, SameEnds, SameTold, SameSent
            <3> QED BY <3>1, <3>3, <3>4, <2>2
        <2> QED BY <2>1, <2>2
    <1> HIDE DEF a
    <1>3. /\ b \in Sessions
          /\ SameEnds(p, b) /\ SameTold(p, b) /\ SameSent(p, b)
          /\ b.queue = <<>> /\ b.run = a.run
        <2>1. <<>> \in Seq(Exchanges)
            OBVIOUS
        <2> QED BY <1>2, <2>1 DEF Sessions, SameEnds, SameTold, SameSent
    <1> HIDE DEF b
    <1>4. ToCancel(p) \in Seq(Exchanges) /\ "canceled" \in OutcomeStates
        BY ToCancelTypes DEF OutcomeStates
    <1>5. /\ q \in Sessions
          /\ SameEnds(b, q) /\ SameTold(b, q) /\ q.done = b.done
          /\ q.queue = b.queue /\ q.run = b.run
          /\ Len(q.settledIds) <= MaxSettledIds
          /\ q.log = IF b.silenced \/ ToCancel(p) = <<>> THEN b.log
                     ELSE b.log \o OutcomesOf(ToCancel(p), "canceled")
          /\ q.attempt = IF b.silenced \/ ToCancel(p) = <<>> \/ b.attempt # 0 THEN b.attempt ELSE 1
        BY <1>1, <1>3, <1>4, PublishOutcomesFields
    <1> QED BY <1>2, <1>3, <1>5 DEF SameEnds, SameTold, SameSent

\* The first to end the session: what is unsettled settles, before anything else.
LEMMA BeginEndKeeps ==
    ASSUME NEW p \in Sessions, Core(p), ~p.ending, NEW kind \in {"close", "fail"},
           kind = "fail" \/ Complete(p, p.done), NEW q, q = BeginEnd(p, kind)
    PROVE  q \in Sessions /\ Core(q) /\ Complete(q, q.done) /\ q.ending
    <1> DEFINE e == [p EXCEPT !.ending = TRUE,
                              !.closer = [phase |-> "settling", kind |-> kind, lost |-> FALSE]]
               c == CancelAll(e)
    <1>1. q = AfterOutcomes(c)
        BY DEF BeginEnd
    <1>2. ~p.silenced /\ p.closer = NoCloser /\ p.closer.phase = "none" /\ NoneTerminal(p.log)
        BY NotEnding DEF Core
    <1>3. /\ e \in Sessions /\ e.ending /\ e.silenced = p.silenced
          /\ e.closer = [phase |-> "settling", kind |-> kind, lost |-> FALSE]
          /\ e.closeRun = p.closeRun /\ e.closeHandled = p.closeHandled
          /\ SameWork(p, e) /\ SameTold(p, e) /\ SameSent(p, e)
        BY DEF Sessions, SameWork, SameTold, SameSent
    <1> HIDE DEF e
    <1>4. ToCancel(e) = ToCancel(p)
        BY <1>3 DEF ToCancel, SameWork
    <1>5. /\ c \in Sessions
          /\ SameEnds(e, c) /\ SameTold(e, c) /\ c.done = e.done
          /\ c.queue = <<>> /\ c.run.x = e.run.x /\ c.run.stage = e.run.stage
          /\ e.run.x # "none" => c.run.settled /\ c.run.aborted
          /\ e.run.x = "none" => c.run = e.run
          /\ Len(c.settledIds) <= MaxSettledIds
          /\ c.log = IF e.silenced \/ ToCancel(e) = <<>> THEN e.log
                     ELSE e.log \o OutcomesOf(ToCancel(e), "canceled")
          /\ c.attempt = IF e.silenced \/ ToCancel(e) = <<>> \/ e.attempt # 0 THEN e.attempt ELSE 1
        BY <1>3, CancelAllFields
    <1> HIDE DEF c
    <1> DEFINE xs == ToCancel(p)
               msgs == OutcomesOf(xs, "canceled")
               l == p.log
    <1>6. /\ c.closer = [phase |-> "settling", kind |-> kind, lost |-> FALSE]
          /\ c.ending /\ ~c.silenced /\ c.closeRun = p.closeRun /\ c.closeHandled = p.closeHandled
          /\ c.done = p.done /\ SameTold(p, c)
          /\ c.run.x = p.run.x /\ c.run.stage = p.run.stage
          /\ p.run.x # "none" => c.run.settled /\ c.run.aborted
          /\ c.log = IF xs = <<>> THEN l ELSE l \o msgs
          /\ c.attempt = IF xs = <<>> \/ p.attempt # 0 THEN p.attempt ELSE 1
        BY <1>2, <1>3, <1>4, <1>5 DEF SameEnds, SameWork, SameTold, SameSent
    <1>7. /\ l \in Seq(Messages) /\ xs \in Seq(Exchanges) /\ p.settledIds \in Seq(Exchanges)
          /\ c.log \in Seq(Messages) /\ p.done \in Nat /\ p.recorded \in Seq(Nat)
          /\ p.done <= Len(l) /\ Len(l) \in Nat /\ "canceled" \in OutcomeStates
        <2>1. /\ l \in Seq(Messages) /\ p.settledIds \in Seq(Exchanges)
              /\ p.done \in Nat /\ p.recorded \in Seq(Nat)
            BY FieldTypes
        <2>2. c.log \in Seq(Messages)
            BY <1>5, FieldTypes
        <2>3. p.done <= Len(l) /\ Len(l) \in Nat
            BY <2>1 DEF Core, Typed
        <2>4. xs \in Seq(Exchanges)
            BY ToCancelTypes
        <2>5. "canceled" \in OutcomeStates
            BY DEF OutcomeStates
        <2> QED BY <2>1, <2>2, <2>3, <2>4, <2>5
    <1>8. /\ msgs \in Seq(Messages) /\ Len(msgs) = Len(xs) /\ Places(msgs) = Places(xs)
          /\ \A i \in Places(xs) : msgs[i] = Message("outcome", xs[i], "canceled")
          /\ xs = <<>> <=> msgs = <<>>
        BY <1>7, OutcomesOfTypes DEF Places
    <1>9. /\ \A m, n \in Places(xs) : m < n => xs[m] # xs[n]
          /\ \A n \in Places(xs), m \in Places(p.settledIds) : p.settledIds[m] # xs[n]
        BY <1>7, ToCancelIds DEF Core
    <1>10. \A i \in Places(msgs) :
             /\ msgs[i].kind = "outcome" /\ msgs[i].x = xs[i] /\ msgs[i].x # "none"
             /\ ~Terminal(msgs, i)
        <2>1. \A i \in Places(xs) : xs[i] \in Exchanges
            BY <1>7 DEF Places
        <2>2. \A i \in Places(msgs) : msgs[i].kind = "outcome" /\ msgs[i].x = xs[i]
            <3> SUFFICES ASSUME NEW i \in Places(msgs)
                         PROVE  msgs[i].kind = "outcome" /\ msgs[i].x = xs[i]
                OBVIOUS
            <3>1. msgs[i] = [kind |-> "outcome", x |-> xs[i], st |-> "canceled"]
                BY <1>8 DEF Message
            <3> QED BY <3>1
        <2> QED BY <1>8, <2>1, <2>2, Limits DEF Terminal, TerminalStates
    <1> HIDE DEF xs, msgs, l
    <1>11. /\ Len(l) <= Len(c.log) /\ \A i \in Places(l) : c.log[i] = l[i]
           /\ xs # <<>> => Len(l) < Len(c.log)
           /\ \A i \in Places(c.log) : i \in Places(l) \/
                (i - Len(l) \in Places(msgs) /\ c.log[i] = msgs[i - Len(l)])
        <2>1. CASE xs = <<>>
            BY <1>6, <1>7, <2>1
        <2>2. CASE xs # <<>>
            <3>1. c.log = l \o msgs
                BY <1>6, <2>2
            <3>2. Len(xs) \in Nat /\ Len(xs) # 0
                BY <1>7, <2>2, EmptySeq
            <3>3. /\ Len(c.log) = Len(l) + Len(msgs)
                  /\ \A i \in Places(l) : c.log[i] = l[i]
                  /\ \A i \in Places(c.log) : i \in Places(l) \/
                       (i - Len(l) \in Places(msgs) /\ c.log[i] = msgs[i - Len(l)])
                <4> DEFINE k == l \o msgs
                <4>1. /\ Len(k) = Len(l) + Len(msgs)
                      /\ \A i \in Places(l) : k[i] = l[i]
                      /\ \A i \in Places(k) : i \in Places(l) \/
                           (i - Len(l) \in Places(msgs) /\ k[i] = msgs[i - Len(l)])
                    BY <1>7, <1>8, Onward
                <4>2. c.log = k
                    BY <3>1
                <4> HIDE DEF k
                <4> QED BY <4>1, <4>2
            <3>4. Len(l) < Len(c.log)
                BY <3>2, <3>3, <1>7, <1>8
            <3> QED BY <3>3, <3>4, <1>7
        <2> QED BY <2>1, <2>2
    <1>12. NoneTerminal(c.log) /\ Named(c.log)
        <2>1. NoneTerminal(l) /\ Named(l)
            BY <1>2 DEF Core, LogSound, l
        <2>2. \A i \in Places(c.log) : ~Terminal(c.log, i)
            BY <2>1, <1>10, <1>11 DEF NoneTerminal, Terminal
        <2>3. \A i \in Places(c.log) : Outcome(c.log, i) => c.log[i].x # "none"
            BY <2>1, <1>10, <1>11 DEF Named, Outcome
        <2> QED BY <2>2, <2>3 DEF NoneTerminal, Named
    <1>13. Conforming(c.log)
        <2>1. CASE xs = <<>>
            BY <1>6, <2>1 DEF Core, LogSound, l
        <2>2. CASE xs # <<>>
            <3>1. \A n \in Places(msgs) : Fresh(l, msgs[n].x)
                <4>1. Remembered(l, p.settledIds)
                    BY DEF Core, IdsSound, l
                <4> SUFFICES ASSUME NEW n \in Places(msgs)
                             PROVE  Fresh(l, msgs[n].x)
                    OBVIOUS
                <4>2. \A m \in Places(p.settledIds) : p.settledIds[m] # msgs[n].x
                    BY <1>8, <1>9, <1>10
                <4> QED BY <4>1, <4>2, <1>7, UnknownIsFresh
            <3>2. \A m, n \in Places(msgs) : m < n =>
                    ~Terminal(msgs, m) /\ (Outcome(msgs, m) => msgs[m].x # msgs[n].x)
                BY <1>8, <1>9, <1>10
            <3>3. Conforming(l) /\ NoneTerminal(l)
                BY <1>2 DEF Core, LogSound, l
            <3>4. c.log = l \o msgs
                BY <1>6, <2>2
            <3> QED BY <3>1, <3>2, <3>3, <3>4, <1>7, <1>8, SendConforms
        <2> QED BY <2>1, <2>2
    <1>14. Core(c)
        <2>1. Typed(c)
            <3>1. p.attempt \in 0..2 /\ (p.attempt > 0 => p.done < Len(l))
                BY FieldTypes DEF Core, Typed, l
            <3>2. c.done <= Len(c.log)
                BY <1>6, <1>7, <1>11, Len(c.log) \in Nat
            <3>3. c.attempt > 0 => c.done < Len(c.log)
                BY <3>1, <1>6, <1>7, <1>11, Len(c.log) \in Nat
            <3> QED BY <3>2, <3>3, <1>5 DEF Typed
        <2>2. LogSound(c)
            BY <1>12, <1>13 DEF LogSound, NoneTerminal
        <2>3. EndsOnce(c)
            BY <1>2, <1>6 DEF Core, EndsOnce
        <2>4. RunSound(c)
            BY <1>5, <1>6 DEF Core, RunSound
        <2>5. IdsSound(c)
            <3>1. Places(c.queue) = {}
                BY <1>5 DEF Places
            <3>2. c.settledIds \in Seq(Exchanges) /\ \A m \in Places(c.settledIds) : c.settledIds[m] # "none"
                <4>1. c.settledIds \in Seq(Exchanges)
                    BY <1>5, FieldTypes
                <4>2. \A m \in Places(c.settledIds) : c.settledIds[m] \in Exchanges
                    BY <4>1 DEF Places
                <4> QED BY <4>1, <4>2, Limits
            <3>3. \A m \in Places(c.settledIds) : c.settledIds[m] = c.run.x => c.run.settled
                BY <3>2, <1>6
            <3>4. \A y : ~Queued(c, y)
                BY <3>1 DEF Queued, Places
            <3> QED BY <3>1, <3>3, <3>4, <1>5, <1>6 DEF IdsSound
        <2>6. RecordSound(c.log, c.done, c.okay, c.recorded)
            <3>1. RecordSound(l, p.done, p.okay, p.recorded) /\ NoneTerminal(l)
                BY <1>2 DEF Core, l
            <3>2. RecordSound(c.log, p.done, p.okay, p.recorded)
                BY <3>1, <1>7, <1>11, SendKeepsRecord
            <3> QED BY <3>2, <1>6 DEF SameTold
        <2> QED BY <2>1, <2>2, <2>3, <2>4, <2>5, <2>6 DEF Core
    <1>15. Complete(c, c.done)
        <2>1. CASE kind = "fail"
            BY <2>1, <1>6 DEF Complete, Excused
        <2>2. CASE Complete(p, p.done)
            <3>1. \A i \in 1..p.done : Outcome(l, i) => Recorded(p.recorded, Len(p.recorded), i)
                BY <2>2, <1>2 DEF Complete, Excused, NoCloser, l
            <3>0. \A i \in 1..p.done : i \in Places(l)
                BY <1>7 DEF Places
            <3>2. \A i \in 1..p.done : c.log[i] = l[i]
                BY <3>0, <1>11
            <3> QED BY <3>1, <3>2, <1>6 DEF Complete, Outcome, SameTold
        <2> QED BY <2>1, <2>2
    <1> QED BY <1>1, <1>5, <1>6, <1>14, <1>15, AfterOutcomesKeeps

\* What every method does to a session.
Step(p, q) ==
    /\ q \in Sessions /\ Core(q) /\ Silent(p, q) /\ Continues(p, q)
    /\ RunAnswered(p) => RunAnswered(q)

LEMMA StepsAdd ==
    ASSUME NEW p, NEW q, NEW r, Step(p, q), Step(q, r)
    PROVE  Step(p, r)
    <1>1. Silent(p, r)
        BY DEF Step, Silent
    <1>2. Continues(p, r)
        BY DEF Step, Continues
    <1> QED BY <1>1, <1>2 DEF Step

LEMMA FailKeeps ==
    ASSUME NEW p \in Sessions, Core(p), NEW q, q = Fail(p)
    PROVE  /\ Step(p, q) /\ q.ending
           /\ p.ending => q = p
           /\ ~p.ending => Complete(q, q.done)
    <1>1. CASE p.ending
        <2>1. q = p
            BY <1>1 DEF Fail
        <2> QED BY <1>1, <2>1 DEF Step, Silent, Continues
    <1>2. CASE ~p.ending
        <2> DEFINE r == [p EXCEPT !.queue = IF p.ready THEN @ ELSE <<>>]
        <2>1. q = BeginEnd(r, "fail")
            BY <1>2 DEF Fail
        <2>2. /\ r \in Sessions /\ (r.queue = p.queue \/ r.queue = <<>>)
              /\ r.run = p.run /\ r.settledIds = p.settledIds
              /\ SameEnds(p, r) /\ SameSent(p, r) /\ SameTold(p, r)
            <3>1. p.queue \in Seq(Exchanges) /\ <<>> \in Seq(Exchanges)
                BY FieldTypes
            <3> QED BY <3>1 DEF Sessions, SameEnds, SameSent, SameTold
        <2> HIDE DEF r
        <2>3. ~r.ending
            BY <2>2, <1>2 DEF SameEnds
        <2>4. Core(r)
            <3>1. Typed(r)
                BY <2>2 DEF Core, Typed, SameSent
            <3>2. LogSound(r)
                BY <2>2 DEF Core, LogSound, SameSent, SameEnds
            <3>3. EndsOnce(r)
                BY <2>2 DEF Core, EndsOnce, SameSent, SameEnds, OutcomesInFlight, InFlight
            <3>4. RunSound(r)
                BY <2>2, <2>3 DEF Core, RunSound
            <3>5. IdsSound(r)
                <4>1. CASE r.queue = p.queue
                    BY <2>2, <4>1 DEF Core, IdsSound, SameEnds, SameSent, Queued
                <4>2. CASE r.queue = <<>>
                    <5>1. Places(r.queue) = {} /\ \A y : ~Queued(r, y)
                        BY <4>2 DEF Places, Queued
                    <5> QED BY <2>2, <5>1 DEF Core, IdsSound, SameEnds, SameSent
                <4> QED BY <2>2, <4>1, <4>2
            <3>6. RecordSound(r.log, r.done, r.okay, r.recorded)
                BY <2>2 DEF Core, SameSent, SameTold
            <3> QED BY <3>1, <3>2, <3>3, <3>4, <3>5, <3>6 DEF Core
        <2>5. q \in Sessions /\ Core(q) /\ Complete(q, q.done) /\ q.ending
            BY <2>1, <2>2, <2>3, <2>4, BeginEndKeeps
        <2>6. ~p.silenced
            BY <1>2 DEF Core, EndsOnce
        <2> QED BY <1>2, <2>5, <2>6, EndingIsGood DEF Step, Silent, Good
    <1> QED BY <1>1, <1>2

LEMMA CloseKeeps ==
    ASSUME NEW p \in Sessions, Good(p), NEW q, q = Close(p)
    PROVE  Step(p, q)
    <1>1. CASE p.ending
        BY <1>1 DEF Close, Step, Silent, Continues, Good
    <1>2. CASE ~p.ending /\ p.open = "handler"
        <2>1. q = [p EXCEPT !.deferred = TRUE]
            BY <1>2 DEF Close
        <2>2. q \in Sessions /\ SameEnds(p, q) /\ SameWork(p, q) /\ SameSent(p, q) /\ SameTold(p, q)
            BY <2>1 DEF Sessions, SameEnds, SameWork, SameSent, SameTold
        <2> QED BY <2>2, SameKeeps DEF Step, Good
    <1>3. CASE ~p.ending /\ p.open # "handler"
        <2>1. q = BeginEnd(p, "close")
            BY <1>3 DEF Close
        <2>2. q \in Sessions /\ Core(q) /\ Complete(q, q.done) /\ q.ending
            BY <1>3, <2>1, BeginEndKeeps DEF Good
        <2>3. ~p.silenced
            BY <1>3 DEF Good, Core, EndsOnce
        <2> QED BY <2>2, <2>3, EndingIsGood DEF Step, Silent, Good
    <1> QED BY <1>1, <1>2, <1>3

\* onSessionClose behind a notice or a late return of onSessionOpen.
LEMMA RunOtherKeeps ==
    ASSUME NEW p \in Sessions, Core(p), p.ending, NEW who \in {"open", "notice"},
           who = "notice" => p.silenced, NEW q, q = RunSessionClose(p, who)
    PROVE  Step(p, q) /\ q.ending
    <1>1. CASE p.open # "returned" \/ p.closeHandled
        <2>1. q = AfterClose(p, who)
            BY <1>1 DEF RunSessionClose
        <2>2. CASE who = "open"
            <3>1. q = p
                BY <2>1, <2>2 DEF AfterClose
            <3> QED BY <3>1 DEF Step, Silent, Continues
        <2>3. CASE who = "notice"
            <3>1. q = Finish(p)
                BY <2>1, <2>3 DEF AfterClose
            <3>2. /\ q \in Sessions /\ q.silenced
                  /\ q.ending = p.ending /\ q.closer = p.closer
                  /\ q.closeRun = p.closeRun /\ q.closeHandled = p.closeHandled
                  /\ SameWork(p, q) /\ SameSent(p, q) /\ SameTold(p, q)
                BY <3>1, FinishFields
            <3>3. SameEnds(p, q)
                BY <3>2, <2>3, FieldTypes DEF SameEnds
            <3> QED BY <3>2, <3>3, SameKeeps DEF Step
        <2> QED BY <2>2, <2>3
    <1>2. CASE ~(p.open # "returned" \/ p.closeHandled)
        <2>1. q = [p EXCEPT !.closeHandled = TRUE, !.closeRun = who, !.closer.phase = @]
            BY <1>2 DEF RunSessionClose
        <2>2. q = [p EXCEPT !.closeHandled = TRUE, !.closeRun = who]
            <3> DEFINE c == [p.closer EXCEPT !.phase = @]
            <3>1. c = p.closer
                <4>1. p.closer \in Closers
                    BY FieldTypes
                <4> QED BY <4>1 DEF Closers
            <3>2. q = [p EXCEPT !.closeHandled = TRUE, !.closeRun = who, !.closer = c]
                BY <2>1
            <3> HIDE DEF c
            <3> QED BY ONLY p \in Sessions, <3>1, <3>2 DEF Sessions
        <2>3. /\ q \in Sessions /\ q.closer = p.closer
              /\ q.ending = p.ending /\ q.silenced = p.silenced
              /\ q.closeRun = who /\ q.closeHandled
              /\ SameWork(p, q) /\ SameSent(p, q) /\ SameTold(p, q)
            <3> DEFINE r == [p EXCEPT !.closeHandled = TRUE]
            <3>1. r \in Sessions
                BY DEF Sessions
            <3>2. q = [r EXCEPT !.closeRun = who]
                BY <2>2 DEF Sessions
            <3>3. /\ q.closer = p.closer /\ q.ending = p.ending /\ q.silenced = p.silenced
                  /\ q.closeRun = who /\ q.closeHandled
                BY <2>2 DEF Sessions
            <3>4. SameWork(p, q) /\ SameSent(p, q) /\ SameTold(p, q)
                BY <2>2 DEF Sessions, SameWork, SameSent, SameTold
            <3> HIDE DEF r
            <3>o. who \in {"none", "closer", "open", "notice"}
                OBVIOUS
            <3>5. q \in Sessions
                BY ONLY <3>1, <3>2, <3>o DEF Sessions
            <3> QED BY <3>3, <3>4, <3>5
        <2>4. Core(q)
            <3>1. Typed(q)
                BY <2>3 DEF Core, Typed, SameSent
            <3>2. LogSound(q)
                BY <2>3 DEF Core, LogSound, SameSent
            <3>3. EndsOnce(q)
                BY <2>3 DEF Core, EndsOnce, SameSent, OutcomesInFlight, InFlight
            <3>4. RunSound(q)
                BY <2>3 DEF Core, RunSound, SameWork
            <3>5. IdsSound(q)
                BY <2>3, EndedIdsKeep DEF Core
            <3>6. RecordSound(q.log, q.done, q.okay, q.recorded)
                BY <2>3 DEF Core, SameSent, SameTold
            <3> QED BY <3>1, <3>2, <3>3, <3>4, <3>5, <3>6 DEF Core
        <2>5. Complete(p, p.done) => Complete(q, q.done)
            BY <2>3 DEF Complete, Excused, SameSent, SameTold
        <2>6. Silent(p, q)
            BY <2>3 DEF Silent, SameSent, SameTold
        <2> QED BY <2>3, <2>4, <2>5, <2>6 DEF Step, Continues, Accounted, RunAnswered
    <1> QED BY <1>1, <1>2

\* A notice, or the end of the route.
LEMMA EndLocallyKeeps ==
    ASSUME NEW p \in Sessions, Core(p), NEW st \in TerminalStates, NEW q, q = EndLocally(p, st)
    PROVE  Step(p, q)
    <1>1. CASE p.silenced
        BY <1>1 DEF EndLocally, Step, Silent, Continues
    <1>2. CASE ~p.silenced
        <2> DEFINE run == IF p.run = NoRun THEN p.run ELSE [p.run EXCEPT !.settled = TRUE, !.aborted = TRUE]
                   rstate == IF p.rstate \in TerminalStates THEN p.rstate ELSE st
                   r == [p EXCEPT !.ending = TRUE, !.silenced = TRUE, !.queue = <<>>,
                                  !.rstate = rstate, !.run = run]
        <2>1. q = RunSessionClose(r, "notice")
            BY <1>2 DEF EndLocally
        <2>2. /\ run \in Runs /\ run.x = p.run.x /\ run.stage = p.run.stage
              /\ p.run.x # "none" => run.settled /\ run.aborted
              /\ p.run.stage = "settling" => run.settled
              /\ run.settled /\ run.stage \in {"handler", "artifact"} => run.aborted
            <3>1. p.run \in Runs
                BY FieldTypes
            <3>2. CASE p.run = NoRun
                BY <3>1, <3>2 DEF NoRun
            <3>3. CASE p.run # NoRun
                BY <3>1, <3>3 DEF Runs
            <3> QED BY <3>2, <3>3
        <2>3. rstate \in {"open", "ready", "closing"} \cup TerminalStates
            BY DEF TerminalStates
        <2> HIDE DEF run, rstate
        <2>4. r \in Sessions
            <3>1. <<>> \in Seq(Exchanges)
                OBVIOUS
            <3> DEFINE r1 == [p EXCEPT !.ending = TRUE, !.silenced = TRUE]
                       r2 == [r1 EXCEPT !.queue = <<>>, !.rstate = rstate]
            <3>2. r1 \in Sessions
                BY DEF Sessions
            <3> HIDE DEF r1
            <3>3. r2 \in Sessions
                BY <3>1, <3>2, <2>3 DEF Sessions
            <3> HIDE DEF r2
            <3>4. [r2 EXCEPT !.run = run] \in Sessions
                BY <3>3, <2>2 DEF Sessions, Runs
            <3>5. r = [r2 EXCEPT !.run = run]
                BY DEF r1, r2, Sessions
            <3> QED BY <3>4, <3>5
        <2>5. /\ r.ending /\ r.silenced /\ r.queue = <<>> /\ r.run = run
              /\ r.closer = p.closer /\ r.closeRun = p.closeRun /\ r.closeHandled = p.closeHandled
              /\ r.settledIds = p.settledIds /\ SameSent(p, r) /\ SameTold(p, r)
            BY DEF Sessions, SameSent, SameTold
        <2> HIDE DEF r
        <2>6. Core(r)
            <3>1. Typed(r)
                BY <2>4, <2>5 DEF Core, Typed, SameSent
            <3>2. LogSound(r)
                BY <2>5 DEF Core, LogSound, SameSent
            <3>3. EndsOnce(r)
                BY <2>5 DEF Core, EndsOnce, SameSent, OutcomesInFlight, InFlight
            <3>4. RunSound(r)
                BY <2>2, <2>5 DEF Core, RunSound
            <3>5. IdsSound(r)
                <4>1. \A m \in Places(p.settledIds) : p.settledIds[m] # "none"
                    <5>1. p.settledIds \in Seq(Exchanges)
                        BY FieldTypes
                    <5>2. \A m \in Places(p.settledIds) : p.settledIds[m] \in Exchanges
                        BY <5>1 DEF Places
                    <5> QED BY <5>2, Limits
                <4>2. Places(r.queue) = {} /\ \A y : ~Queued(r, y)
                    BY <2>5 DEF Places, Queued
                <4> QED BY <4>1, <4>2, <2>2, <2>5 DEF Core, IdsSound
            <3>6. RecordSound(r.log, r.done, r.okay, r.recorded)
                BY <2>5 DEF Core, SameSent, SameTold
            <3> QED BY <3>1, <3>2, <3>3, <3>4, <3>5, <3>6 DEF Core
        <2>7. Complete(r, r.done)
            BY <2>5 DEF Complete
        <2>8. Step(r, q) /\ q.ending
            BY <2>1, <2>4, <2>5, <2>6, RunOtherKeeps
        <2>9. Complete(q, q.done)
            BY <2>7, <2>8 DEF Step, Continues
        <2> QED BY <1>2, <2>8, <2>9, EndingIsGood DEF Step, Silent, Good
    <1> QED BY <1>1, <1>2

-----------------------------------------------------------------------------
(* Exchanges.                                                                *)

WithRun(p, run) == [p EXCEPT !.run = run]

\* The running exchange changes, or what is known of it; nothing else does.
LEMMA RunKeeps ==
    ASSUME NEW p \in Sessions, Core(p), NEW run \in Runs, NEW q, q = WithRun(p, run),
           run.stage # "none" => run.x # "none",
           run.stage = "settling" => run.settled,
           p.ending /\ run.x # "none" => run.settled /\ run.aborted,
           run.settled /\ run.stage \in {"handler", "artifact"} => run.aborted,
           run.x = p.run.x \/ run.x = "none",
           run.x = p.run.x /\ run.x # "none" /\ p.run.settled => run.settled
    PROVE  /\ q \in Sessions /\ Core(q) /\ Silent(p, q)
           /\ SameEnds(p, q) /\ SameSent(p, q) /\ SameTold(p, q)
           /\ q.run = run /\ q.queue = p.queue /\ q.settledIds = p.settledIds
           /\ Complete(p, p.done) => Complete(q, q.done)
           /\ \A y \in Exchanges : Accounted(p, y) => Accounted(q, y) \/ (y = p.run.x /\ run.x # y)
    <1>1. q \in Sessions
        BY DEF WithRun, Sessions, Runs
    <1>2. /\ SameEnds(p, q) /\ SameSent(p, q) /\ SameTold(p, q)
          /\ q.run = run /\ q.queue = p.queue /\ q.settledIds = p.settledIds
        BY DEF WithRun, Sessions, SameEnds, SameSent, SameTold
    <1>3. \A y : Queued(q, y) <=> Queued(p, y)
        BY <1>2 DEF Queued
    <1>4. Core(q)
        <2>1. Typed(q)
            BY <1>1, <1>2 DEF Core, Typed, SameSent
        <2>2. LogSound(q)
            BY <1>2 DEF Core, LogSound, SameSent, SameEnds
        <2>3. EndsOnce(q)
            BY <1>2 DEF Core, EndsOnce, SameSent, SameEnds, OutcomesInFlight, InFlight
        <2>4. RunSound(q)
            BY <1>2 DEF Core, RunSound, SameEnds
        <2>5. IdsSound(q)
            <3>1. p.settledIds \in Seq(Exchanges) /\ p.queue \in Seq(Exchanges)
                BY FieldTypes
            <3>2. \A m \in Places(p.settledIds) : p.settledIds[m] # "none"
                <4>1. \A m \in Places(p.settledIds) : p.settledIds[m] \in Exchanges
                    BY <3>1 DEF Places
                <4> QED BY <4>1, Limits
            <3>3. \A i \in Places(p.queue) : p.queue[i] # "none"
                <4>1. \A i \in Places(p.queue) : p.queue[i] \in Exchanges
                    BY <3>1 DEF Places
                <4> QED BY <4>1, Limits
            <3>4. \A i \in Places(q.queue) : q.queue[i] # q.run.x
                BY <1>2, <3>3 DEF Core, IdsSound
            <3>5. \A m \in Places(q.settledIds) :
                    ~Queued(q, q.settledIds[m]) /\ (q.settledIds[m] = q.run.x => q.run.settled)
                BY <1>2, <1>3, <3>2 DEF Core, IdsSound
            <3> QED BY <1>2, <3>4, <3>5 DEF Core, IdsSound, SameEnds, SameSent
        <2>6. RecordSound(q.log, q.done, q.okay, q.recorded)
            BY <1>2 DEF Core, SameSent, SameTold
        <2> QED BY <2>1, <2>2, <2>3, <2>4, <2>5, <2>6 DEF Core
    <1>5. Complete(p, p.done) => Complete(q, q.done)
        BY <1>2 DEF Complete, Excused, SameEnds, SameSent, SameTold
    <1>6. \A y \in Exchanges : Accounted(p, y) => Accounted(q, y) \/ (y = p.run.x /\ run.x # y)
        BY <1>2, <1>3 DEF Accounted, SameEnds, SameSent
    <1>7. Silent(p, q)
        BY <1>2 DEF Silent, SameEnds, SameSent, SameTold
    <1> QED BY <1>1, <1>2, <1>4, <1>5, <1>6, <1>7

LEMMA NoRunFields ==
    /\ NoRun \in Runs /\ NoRun.x = "none" /\ NoRun.stage = "none"
    /\ ~NoRun.settled /\ NoRun.settled = FALSE
    <1>1. NoRun \in Runs
        BY Limits DEF NoRun, Runs, Ids
    <1> QED BY <1>1 DEF NoRun

LEMMA PumpKeeps ==
    ASSUME NEW p \in Sessions, Core(p), NEW q, q = Pump(p)
    PROVE  Step(p, q)
    <1>1. CASE ~p.ready \/ p.ending \/ p.run.x # "none" \/ p.queue = <<>>
        BY <1>1 DEF Pump, Step, Silent, Continues
    <1>2. CASE ~(~p.ready \/ p.ending \/ p.run.x # "none" \/ p.queue = <<>>)
        <2> DEFINE x == Head(p.queue)
                   run == [NoRun EXCEPT !.x = x, !.stage = "handler"]
                   rest == Tail(p.queue)
        <2>1. q = [p EXCEPT !.run = run, !.queue = rest]
            BY <1>2 DEF Pump
        <2>2. /\ p.queue \in Seq(Exchanges) /\ p.settledIds \in Seq(Exchanges)
              /\ x \in Exchanges /\ rest \in Seq(Exchanges) /\ Len(rest) = Len(p.queue) - 1
              /\ \A i \in 1..Len(rest) : rest[i] = p.queue[i + 1]
            BY <1>2, FieldTypes, HeadTailProperties
        <2>3. x = p.queue[1] /\ Len(p.queue) \in Nat /\ Len(p.queue) > 0
            BY <1>2, <2>2, EmptySeq
        <2>4. /\ run \in Runs /\ run.x = x /\ run.stage = "handler" /\ ~run.settled
            <3>1. x \in Ids
                BY <2>2 DEF Ids
            <3> HIDE DEF x
            <3>3. run \in Runs /\ run.x = x /\ run.stage = "handler" /\ run.settled = NoRun.settled
                BY ONLY <3>1, NoRunFields DEF Runs
            <3> QED BY <3>3, NoRunFields
        <2> HIDE DEF x, run, rest
        <2>5. /\ q \in Sessions /\ SameEnds(p, q) /\ SameSent(p, q) /\ SameTold(p, q)
              /\ q.run = run /\ q.queue = rest /\ q.settledIds = p.settledIds
            <3> DEFINE r == [p EXCEPT !.queue = rest]
            <3>1. r \in Sessions
                BY <2>2 DEF Sessions
            <3>2. q = [r EXCEPT !.run = run]
                BY <2>1 DEF Sessions
            <3>3. /\ SameEnds(p, q) /\ SameSent(p, q) /\ SameTold(p, q)
                  /\ q.run = run /\ q.queue = rest /\ q.settledIds = p.settledIds
                BY <2>1 DEF Sessions, SameEnds, SameSent, SameTold
            <3> HIDE DEF r
            <3>4. q \in Sessions
                BY ONLY <3>1, <3>2, <2>4 DEF Sessions, Runs
            <3> QED BY <3>3, <3>4
        <2>6. 1 \in Places(p.queue) /\ \A i \in Places(rest) : i + 1 \in Places(p.queue) /\ i + 1 # 1
            BY <2>2, <2>3 DEF Places
        <2>7. \A y : Queued(p, y) => y = x \/ Queued(q, y)
            <3> SUFFICES ASSUME NEW y, NEW i \in 1..Len(p.queue), p.queue[i] = y
                         PROVE  y = x \/ Queued(q, y)
                BY DEF Queued
            <3>1. CASE i = 1
                BY <3>1, <2>3
            <3>2. CASE i # 1
                <4>1. i - 1 \in 1..Len(rest) /\ rest[i - 1] = p.queue[i]
                    BY <3>2, <2>2, <2>3
                <4> QED BY <4>1, <2>5 DEF Queued
            <3> QED BY <3>1, <3>2
        <2>8. \A y : Queued(q, y) => Queued(p, y)
            BY <2>2, <2>5, <2>6 DEF Queued, Places
        <2>9. Core(q)
            <3>1. Typed(q)
                BY <2>5 DEF Core, Typed, SameSent
            <3>2. LogSound(q)
                BY <2>5 DEF Core, LogSound, SameSent, SameEnds
            <3>3. EndsOnce(q)
                BY <2>5 DEF Core, EndsOnce, SameSent, SameEnds, OutcomesInFlight, InFlight
            <3>4. RunSound(q)
                BY <1>2, <2>2, <2>4, <2>5, Limits DEF RunSound, SameEnds
            <3>5. IdsSound(q)
                <4>1. \A i, j \in Places(q.queue) : i # j => q.queue[i] # q.queue[j]
                    <5> SUFFICES ASSUME NEW i \in Places(rest), NEW j \in Places(rest), i # j
                                 PROVE  rest[i] # rest[j]
                        BY <2>5
                    <5>1. i + 1 # j + 1 /\ i + 1 \in Places(p.queue) /\ j + 1 \in Places(p.queue)
                        BY <2>6 DEF Places
                    <5> QED BY <5>1, <2>2 DEF Core, IdsSound, Places
                <4>2. \A i \in Places(q.queue) : q.queue[i] # q.run.x
                    BY <2>2, <2>3, <2>4, <2>5, <2>6 DEF Core, IdsSound, Places
                <4>3. \A m \in Places(q.settledIds) : ~Queued(q, q.settledIds[m])
                    BY <2>5, <2>8 DEF Core, IdsSound
                <4>4. Queued(p, x)
                    BY <2>3, <2>6 DEF Queued, Places
                <4>5. \A m \in Places(q.settledIds) : q.settledIds[m] # q.run.x
                    BY <4>4, <2>4, <2>5 DEF Core, IdsSound
                <4> QED BY <4>1, <4>2, <4>3, <4>5, <2>5 DEF Core, IdsSound, SameEnds, SameSent
            <3>6. RecordSound(q.log, q.done, q.okay, q.recorded)
                BY <2>5 DEF Core, SameSent, SameTold
            <3> QED BY <3>1, <3>2, <3>3, <3>4, <3>5, <3>6 DEF Core
        <2>10. Complete(p, p.done) => Complete(q, q.done)
            BY <2>5 DEF Complete, Excused, SameEnds, SameSent, SameTold
        <2>11. \A y \in Exchanges : Accounted(p, y) => Accounted(q, y)
            BY <1>2, <2>4, <2>5, <2>7, Limits DEF Accounted, SameEnds, SameSent
        <2>12. Silent(p, q) /\ RunAnswered(q)
            BY <2>4, <2>5 DEF Silent, SameEnds, SameSent, SameTold, RunAnswered
        <2> QED BY <2>5, <2>9, <2>10, <2>11, <2>12 DEF Step, Continues
    <1> QED BY <1>1, <1>2

\* run's `finally`: what ran has its outcome in the log.
LEMMA RunOverKeeps ==
    ASSUME NEW p \in Sessions, Core(p), RunAnswered(p), p.run.settled, NEW q, q = RunOver(p)
    PROVE  Step(p, q)
    <1> DEFINE r == [p EXCEPT !.run = NoRun]
    <1> DEFINE run == NoRun
    <1>1. run \in Runs /\ run.x = "none" /\ run.stage = "none" /\ ~run.settled /\ run = NoRun
        BY NoRunFields
    <1> HIDE DEF run
    <1>0. r = WithRun(p, run)
        BY <1>1 DEF WithRun
    <1>2. /\ r \in Sessions /\ Core(r) /\ Silent(p, r)
          /\ SameEnds(p, r) /\ SameSent(p, r) /\ r.run = run
          /\ Complete(p, p.done) => Complete(r, r.done)
          /\ \A y \in Exchanges : Accounted(p, y) => Accounted(r, y) \/ (y = p.run.x /\ run.x # y)
        <2> HIDE DEF r
        <2>1. /\ run.stage # "none" => run.x # "none"
              /\ run.stage = "settling" => run.settled
              /\ p.ending /\ run.x # "none" => run.settled /\ run.aborted
              /\ run.settled /\ run.stage \in {"handler", "artifact"} => run.aborted
              /\ run.x = p.run.x \/ run.x = "none"
              /\ run.x = p.run.x /\ run.x # "none" /\ p.run.settled => run.settled
            BY <1>1
        <2>2. run \in Runs
            BY <1>1
        <2> QED BY <1>0, <1>1, <2>1, <2>2, RunKeeps
    <1> HIDE DEF r
    <1>3. Accounted(r, p.run.x)
        BY <1>2 DEF Accounted, RunAnswered, SameEnds, SameSent
    <1>4. Step(p, r)
        BY <1>1, <1>2, <1>3 DEF Step, Continues, RunAnswered
    <1>5. Step(r, q)
        BY <1>2, PumpKeeps DEF RunOver, r
    <1> QED BY <1>4, <1>5, StepsAdd

\* settle: one outcome, or none if whoever aborted the exchange has settled it.
LEMMA SettleRunKeeps ==
    ASSUME NEW p \in Sessions, Core(p), RunAnswered(p), p.run.x # "none",
           NEW st \in OutcomeStates, NEW q, q = SettleRun(p, st)
    PROVE  Step(p, q)
    <1>1. CASE p.run.settled
        <2>1. q = RunOver(p)
            BY <1>1 DEF SettleRun
        <2> QED BY <1>1, <2>1, RunOverKeeps
    <1>2. CASE ~p.run.settled
        <2> DEFINE x == p.run.x
                   run == [p.run EXCEPT !.settled = TRUE, !.stage = "settling", !.waits = Len(p.log) + 1]
                   r == WithRun(p, run)
        <2>0. /\ p.run \in Runs /\ p.log \in Seq(Messages) /\ p.settledIds \in Seq(Exchanges)
              /\ x \in Exchanges
            <3>1. p.run \in Runs /\ p.log \in Seq(Messages) /\ p.settledIds \in Seq(Exchanges)
                BY FieldTypes
            <3> QED BY <3>1 DEF Runs, Ids
        <2>1. q = PublishOutcome(r, x, st)
            <3>1. r = [p EXCEPT !.run.settled = TRUE, !.run.stage = "settling",
                                !.run.waits = Len(p.log) + 1]
                BY <2>0 DEF WithRun, Sessions, Runs
            <3> HIDE DEF r
            <3> QED BY <1>2, <3>1 DEF SettleRun
        <2>2. run \in Runs /\ run.x = x /\ run.stage = "settling" /\ run.settled /\ run.aborted = p.run.aborted
            <3>1. Len(p.log) + 1 \in Nat
                BY <2>0
            <3> QED BY <2>0, <3>1 DEF Runs
        <2>3. ~p.ending /\ ~p.silenced
            BY <1>2 DEF Core, RunSound, EndsOnce
        <2> HIDE DEF run
        <2>r. r = WithRun(p, run)
            OBVIOUS
        <2> HIDE DEF r
        <2>4. /\ r \in Sessions /\ Core(r) /\ SameEnds(p, r)
              /\ r.run = run /\ r.queue = p.queue /\ r.settledIds = p.settledIds
              /\ Complete(p, p.done) => Complete(r, r.done)
              /\ \A y \in Exchanges : Accounted(p, y) => Accounted(r, y) \/ (y = p.run.x /\ run.x # y)
            <3>1. /\ run.stage # "none" => run.x # "none"
                  /\ run.stage = "settling" => run.settled
                  /\ p.ending /\ run.x # "none" => run.settled /\ run.aborted
                  /\ run.settled /\ run.stage \in {"handler", "artifact"} => run.aborted
                  /\ run.x = p.run.x \/ run.x = "none"
                  /\ run.x = p.run.x /\ run.x # "none" /\ p.run.settled => run.settled
                BY <2>2, <2>3
            <3>2. run \in Runs
                BY <2>2
            <3> QED BY <2>r, <3>1, <3>2, RunKeeps
        <2>5. ~r.ending /\ ~r.silenced
            BY <2>3, <2>4 DEF SameEnds
        <2>6. q \in Sessions
            BY <2>0, <2>1, <2>4, <2>5, PublishOutcomeFields
        <2>7. ~Queued(r, x) /\ (r.run.x = x => r.run.settled)
            <3>1. \A i \in 1..Len(p.queue) : p.queue[i] # x
                BY DEF Core, IdsSound, Places
            <3> QED BY <3>1, <2>2, <2>4 DEF Queued
        <2>8. \A n \in Places(r.settledIds) : r.settledIds[n] # x
            BY <1>2, <2>4 DEF Core, IdsSound
        <2>9. /\ Core(q) /\ Continues(r, q) /\ SameEnds(r, q) /\ q.run = r.run
              /\ Answered(q.log, x)
            BY <2>0, <2>1, <2>4, <2>5, <2>6, <2>7, <2>8, OutcomeKeeps
        <2>10. RunAnswered(q)
            BY <2>2, <2>4, <2>9 DEF RunAnswered
        <2>11. Continues(p, q)
            BY <2>2, <2>4, <2>9 DEF Continues
        <2> QED BY <2>3, <2>6, <2>9, <2>10, <2>11 DEF Step, Silent
    <1> QED BY <1>1, <1>2

LEMMA RunThrowsKeeps ==
    ASSUME NEW p \in Sessions, Core(p), RunAnswered(p), p.run.x # "none", NEW q, q = RunThrows(p)
    PROVE  Step(p, q)
    <1>1. {"canceled", "failed"} \subseteq OutcomeStates
        BY DEF OutcomeStates
    <1>2. CASE p.run.aborted
        BY <1>1, <1>2, SettleRunKeeps DEF RunThrows
    <1>3. CASE ~p.run.aborted
        BY <1>1, <1>3, SettleRunKeeps DEF RunThrows
    <1> QED BY <1>2, <1>3

LEMMA NextArtifactKeeps ==
    ASSUME NEW p \in Sessions, Core(p), RunAnswered(p), p.run.stage \in {"handler", "artifact"},
           NEW q, q = NextArtifact(p)
    PROVE  Step(p, q)
    <1>0. p.run.x # "none" /\ {"canceled", "completed"} \subseteq OutcomeStates
        BY DEF Core, RunSound, OutcomeStates
    <1>1. CASE p.run.aborted
        BY <1>0, <1>1, SettleRunKeeps DEF NextArtifact
    <1>2. CASE ~p.run.aborted /\ p.run.left = 0
        BY <1>0, <1>2, SettleRunKeeps DEF NextArtifact
    <1>3. CASE ~p.run.aborted /\ p.run.left # 0
        <2> DEFINE run == [p.run EXCEPT !.left = p.run.left - 1, !.stage = "artifact",
                                        !.waits = Len(p.log) + 1]
                   r == WithRun(p, run)
                   m == Message("artifact", p.run.x, "none")
        <2>0. p.run \in Runs /\ p.log \in Seq(Messages)
            BY FieldTypes
        <2>1. q = Send(r, m)
            <3>1. r = [p EXCEPT !.run.left = @ - 1, !.run.stage = "artifact",
                                !.run.waits = Len(p.log) + 1]
                BY <2>0 DEF WithRun, Sessions, Runs
            <3> HIDE DEF r
            <3> QED BY <1>3, <3>1 DEF NextArtifact
        <2>2. /\ run \in Runs /\ run.x = p.run.x /\ run.stage = "artifact"
              /\ run.settled = p.run.settled /\ run.aborted = p.run.aborted
            <3>1. Len(p.log) + 1 \in Nat
                BY <2>0
            <3>2. p.run.left - 1 \in 0..MaxArtifacts
                <4>1. p.run.left \in 0..MaxArtifacts /\ MaxArtifacts \in Nat
                    BY <2>0, Limits DEF Runs
                <4> QED BY <4>1, <1>3
            <3> QED BY <2>0, <3>1, <3>2 DEF Runs
        <2>3. ~p.run.settled
            BY <1>3 DEF Core, RunSound
        <2>4. ~p.ending /\ ~p.silenced
            BY <1>0, <2>3 DEF Core, RunSound, EndsOnce
        <2>5. m \in Messages /\ m.kind = "artifact" /\ m.x = p.run.x
            BY <2>0 DEF Message, Messages, Runs
        <2> HIDE DEF run, m
        <2>r. r = WithRun(p, run)
            OBVIOUS
        <2> HIDE DEF r
        <2>6. /\ r \in Sessions /\ Core(r) /\ SameEnds(p, r) /\ SameSent(p, r) /\ r.run = run
              /\ Complete(p, p.done) => Complete(r, r.done)
              /\ \A y \in Exchanges : Accounted(p, y) => Accounted(r, y) \/ (y = p.run.x /\ run.x # y)
            <3>1. /\ run.stage # "none" => run.x # "none"
                  /\ run.stage = "settling" => run.settled
                  /\ p.ending /\ run.x # "none" => run.settled /\ run.aborted
                  /\ run.settled /\ run.stage \in {"handler", "artifact"} => run.aborted
                  /\ run.x = p.run.x \/ run.x = "none"
                  /\ run.x = p.run.x /\ run.x # "none" /\ p.run.settled => run.settled
                BY <1>0, <2>2, <2>3, <2>4
            <3>2. run \in Runs
                BY <2>2
            <3> QED BY <2>r, <3>1, <3>2, RunKeeps
        <2>7. ~r.ending /\ ~r.silenced
            BY <2>4, <2>6 DEF SameEnds
        <2>8. q \in Sessions
            BY <2>1, <2>5, <2>6, SendFields
        <2>9. Core(q) /\ Continues(r, q) /\ (RunAnswered(r) => RunAnswered(q))
            <3>1. m.kind \in {"ready", "artifact"} /\ m.x = r.run.x /\ ~r.run.settled
                BY <2>2, <2>3, <2>5, <2>6
            <3> QED BY <2>1, <2>5, <2>6, <2>7, <2>8, <3>1, SendKeeps
        <2>10. RunAnswered(r)
            BY <2>2, <2>3, <2>6 DEF RunAnswered
        <2>11. Continues(p, q)
            BY <2>2, <2>6, <2>9 DEF Continues
        <2> QED BY <2>4, <2>8, <2>9, <2>10, <2>11 DEF Step, Silent
    <1> QED BY <1>1, <1>2, <1>3

-----------------------------------------------------------------------------
(* The queue.                                                                *)

WithQueue(p, ys) == [p EXCEPT !.queue = ys]

LEMMA QueueKeeps ==
    ASSUME NEW p \in Sessions, Core(p), ~p.ending, NEW ys \in Seq(Exchanges),
           \A i, j \in Places(ys) : i # j => ys[i] # ys[j],
           \A i \in Places(ys) : ys[i] # p.run.x,
           \A m \in Places(p.settledIds), i \in Places(ys) : p.settledIds[m] # ys[i],
           NEW q, q = WithQueue(p, ys)
    PROVE  /\ q \in Sessions /\ Core(q)
           /\ SameEnds(p, q) /\ SameSent(p, q) /\ SameTold(p, q)
           /\ q.run = p.run /\ q.settledIds = p.settledIds /\ q.queue = ys
           /\ Complete(p, p.done) => Complete(q, q.done)
           /\ RunAnswered(p) => RunAnswered(q)
    <1>1. /\ q \in Sessions
          /\ SameEnds(p, q) /\ SameSent(p, q) /\ SameTold(p, q)
          /\ q.run = p.run /\ q.settledIds = p.settledIds /\ q.queue = ys
        BY DEF WithQueue, Sessions, SameEnds, SameSent, SameTold
    <1>2. Core(q)
        <2>1. Typed(q)
            BY <1>1 DEF Core, Typed, SameSent
        <2>2. LogSound(q)
            BY <1>1 DEF Core, LogSound, SameSent, SameEnds
        <2>3. EndsOnce(q)
            BY <1>1 DEF Core, EndsOnce, SameSent, SameEnds, OutcomesInFlight, InFlight
        <2>4. RunSound(q)
            BY <1>1 DEF Core, RunSound, SameEnds
        <2>5. IdsSound(q)
            <3>1. \A m \in Places(q.settledIds) : ~Queued(q, q.settledIds[m])
                BY <1>1 DEF Queued, Places
            <3> QED BY <1>1, <3>1 DEF Core, IdsSound, SameEnds, SameSent
        <2>6. RecordSound(q.log, q.done, q.okay, q.recorded)
            BY <1>1 DEF Core, SameSent, SameTold
        <2> QED BY <2>1, <2>2, <2>3, <2>4, <2>5, <2>6 DEF Core
    <1>3. Complete(p, p.done) => Complete(q, q.done)
        BY <1>1 DEF Complete, Excused, SameEnds, SameSent, SameTold
    <1>4. RunAnswered(p) => RunAnswered(q)
        BY <1>1 DEF RunAnswered, SameEnds, SameSent
    <1> QED BY <1>1, <1>2, <1>3, <1>4

\* An exchange the session does not know is refused with an outcome, or ends it.
LEMMA RefuseKeeps ==
    ASSUME NEW p \in Sessions, Core(p), ~p.ending, NEW x \in Exchanges, ~Known(p, x),
           NEW q, q = Refuse(p, x)
    PROVE  Step(p, q) /\ Accounted(q, x)
    <1>1. CASE Cardinality(RefusalsInFlight(p)) >= MaxPending
        <2>1. q = Fail(p)
            BY <1>1 DEF Refuse
        <2> QED BY <2>1, FailKeeps DEF Accounted
    <1>2. CASE ~(Cardinality(RefusalsInFlight(p)) >= MaxPending)
        <2>1. q = PublishOutcome(p, x, "refused") /\ "refused" \in OutcomeStates
            BY <1>2 DEF Refuse, OutcomeStates
        <2>2. ~p.silenced
            BY DEF Core, EndsOnce
        <2>3. q \in Sessions
            BY <2>1, <2>2, PublishOutcomeFields
        <2>4. /\ ~Queued(p, x) /\ (p.run.x = x => p.run.settled)
              /\ \A n \in Places(p.settledIds) : p.settledIds[n] # x
            BY DEF Known, Places
        <2>5. /\ Core(q) /\ Continues(p, q) /\ Answered(q.log, x)
              /\ RunAnswered(p) => RunAnswered(q)
            BY <2>1, <2>3, <2>4, OutcomeKeeps
        <2> QED BY <2>2, <2>3, <2>5 DEF Step, Silent, Accounted
    <1> QED BY <1>1, <1>2

LEMMA EnqueueKeeps ==
    ASSUME NEW p \in Sessions, Core(p), NEW x \in Exchanges, NEW q, q = Enqueue(p, x)
    PROVE  Step(p, q) /\ Accounted(q, x)
    <1>1. CASE p.ending \/ Known(p, x)
        <2>1. q = p
            BY <1>1 DEF Enqueue
        <2>2. Accounted(p, x)
            <3>1. CASE p.ending \/ p.run.x = x \/ Queued(p, x)
                BY <3>1 DEF Accounted
            <3>2. CASE ~p.ending /\ \E i \in 1..Len(p.settledIds) : p.settledIds[i] = x
                BY <3>2 DEF Core, IdsSound, Remembered, Accounted, Places
            <3> QED BY <1>1, <3>1, <3>2 DEF Known
        <2> QED BY <2>1, <2>2 DEF Step, Silent, Continues
    <1>2. CASE ~(p.ending \/ Known(p, x)) /\ Pending(p) >= MaxPending
        <2>1. q = Refuse(p, x)
            BY <1>2 DEF Enqueue
        <2> QED BY <1>2, <2>1, RefuseKeeps
    <1>3. CASE ~(p.ending \/ Known(p, x)) /\ ~(Pending(p) >= MaxPending)
        <2> DEFINE ys == Append(p.queue, x)
                   r == WithQueue(p, ys)
        <2>1. q = Pump(r)
            BY <1>3 DEF Enqueue, WithQueue
        <2>2. /\ p.queue \in Seq(Exchanges) /\ ys \in Seq(Exchanges)
              /\ Len(ys) = Len(p.queue) + 1 /\ Len(p.queue) \in Nat
              /\ \A i \in 1..Len(p.queue) : ys[i] = p.queue[i]
              /\ ys[Len(p.queue) + 1] = x
            <3>1. p.queue \in Seq(Exchanges)
                BY FieldTypes
            <3> QED BY <3>1, AppendProperties
        <2>3. /\ \A i \in Places(p.queue) : p.queue[i] # x
              /\ p.run.x # x
              /\ \A m \in Places(p.settledIds) : p.settledIds[m] # x
            BY <1>3 DEF Known, Queued, Places
        <2> HIDE DEF ys
        <2>4. \A i \in Places(ys) :
                \/ i \in Places(p.queue) /\ ys[i] = p.queue[i]
                \/ i = Len(p.queue) + 1 /\ ys[i] = x
            BY <2>2 DEF Places
        <2>5. \A i, j \in Places(ys) : i # j => ys[i] # ys[j]
            BY <2>3, <2>4 DEF Core, IdsSound
        <2>6. \A i \in Places(ys) : ys[i] # p.run.x
            BY <2>3, <2>4 DEF Core, IdsSound
        <2>7. \A m \in Places(p.settledIds), i \in Places(ys) : p.settledIds[m] # ys[i]
            <3>1. \A m \in Places(p.settledIds), i \in Places(p.queue) : p.settledIds[m] # p.queue[i]
                BY DEF Core, IdsSound, Queued, Places
            <3> QED BY <2>3, <2>4, <3>1
        <2>r. r = WithQueue(p, ys) /\ ys \in Seq(Exchanges)
            BY <2>2
        <2> HIDE DEF r
        <2>8. /\ r \in Sessions /\ Core(r)
              /\ SameEnds(p, r) /\ SameSent(p, r) /\ SameTold(p, r)
              /\ r.run = p.run /\ r.settledIds = p.settledIds /\ r.queue = ys
              /\ Complete(p, p.done) => Complete(r, r.done)
              /\ RunAnswered(p) => RunAnswered(r)
            BY <1>3, <2>r, <2>5, <2>6, <2>7, QueueKeeps
        <2>9. Step(r, q)
            BY <2>1, <2>8, PumpKeeps
        <2>10. Queued(r, x)
            <3>1. Len(p.queue) + 1 \in 1..Len(ys)
                BY <2>2
            <3> QED BY <2>2, <2>8, <3>1 DEF Queued
        <2>11. Step(p, r)
            <3>1. \A y : Queued(p, y) => Queued(r, y)
                <4>1. \A i \in 1..Len(p.queue) : i \in 1..Len(ys)
                    BY <2>2
                <4> QED BY <2>2, <2>8, <4>1 DEF Queued
            <3>2. \A y \in Exchanges : Accounted(p, y) => Accounted(r, y)
                BY <2>8, <3>1 DEF Accounted, SameEnds, SameSent
            <3>3. Silent(p, r)
                BY <2>8 DEF Silent, SameEnds, SameSent, SameTold
            <3> QED BY <2>8, <3>2, <3>3 DEF Step, Continues
        <2>12. Accounted(q, x)
            BY <2>9, <2>10 DEF Step, Continues, Accounted
        <2> QED BY <2>9, <2>11, <2>12, StepsAdd
    <1> QED BY <1>1, <1>2, <1>3

\* A queued id is taken out, and only that one.
LEMMA WithoutQueuedIs ==
    ASSUME NEW p \in Sessions, IdsSound(p), NEW x, Queued(p, x), NEW ys, ys = WithoutQueued(p, x)
    PROVE  /\ ys \in Seq(Exchanges)
           /\ \A i, j \in Places(ys) : i # j => ys[i] # ys[j]
           /\ \A i \in Places(ys) : ys[i] # x /\ \E j \in Places(p.queue) : ys[i] = p.queue[j]
           /\ \A j \in Places(p.queue) : p.queue[j] # x => \E i \in Places(ys) : ys[i] = p.queue[j]
    <1> DEFINE at == CHOOSE i \in 1..Len(p.queue) : p.queue[i] = x
               n == Len(p.queue)
               from(i) == IF i < at THEN i ELSE i + 1
    <1>1. p.queue \in Seq(Exchanges) /\ n \in Nat
        BY FieldTypes
    <1>2. at \in 1..n /\ p.queue[at] = x
        BY DEF Queued
    <1>3. ys = [i \in 1..(n - 1) |-> p.queue[from(i)]]
        BY DEF WithoutQueued
    <1>4. \A i \in 1..n : p.queue[i] \in Exchanges
        BY <1>1
    <1> HIDE DEF at, n
    <1>5. \A i \in 1..(n - 1) : from(i) \in 1..n /\ from(i) # at
        BY <1>1, <1>2
    <1>6. \A i, j \in 1..(n - 1) : i # j => from(i) # from(j)
        BY <1>1, <1>2
    <1>7. \A j \in 1..n : j # at => \E i \in 1..(n - 1) : from(i) = j
        <2> SUFFICES ASSUME NEW j \in 1..n, j # at
                     PROVE  \E i \in 1..(n - 1) : from(i) = j
            OBVIOUS
        <2>1. CASE j < at
            <3>1. j \in 1..(n - 1) /\ from(j) = j
                BY <1>1, <1>2, <2>1
            <3> QED BY <3>1
        <2>2. CASE ~(j < at)
            <3>1. j - 1 \in 1..(n - 1) /\ from(j - 1) = j
                BY <1>1, <1>2, <2>2
            <3> QED BY <3>1
        <2> QED BY <2>1, <2>2
    <1> HIDE DEF from
    <1>8. ys \in [1..(n - 1) -> Exchanges] /\ \A i \in 1..(n - 1) : ys[i] = p.queue[from(i)]
        BY <1>3, <1>4, <1>5
    <1>9. n - 1 \in Nat
        BY <1>1, <1>2
    <1>10. ys \in Seq(Exchanges) /\ Places(ys) = 1..(n - 1)
        BY <1>8, <1>9, LenProperties DEF Places
    <1>11. \A i, j \in 1..n : i # j => p.queue[i] # p.queue[j]
        BY DEF IdsSound, Places, n
    <1>12. \A i, j \in Places(ys) : i # j => ys[i] # ys[j]
        BY <1>5, <1>6, <1>8, <1>10, <1>11
    <1>13. \A i \in Places(ys) : ys[i] # x /\ \E j \in 1..n : ys[i] = p.queue[j]
        BY <1>2, <1>5, <1>8, <1>10, <1>11
    <1>14. \A j \in 1..n : p.queue[j] # x => \E i \in Places(ys) : ys[i] = p.queue[j]
        BY <1>2, <1>7, <1>8, <1>10
    <1> QED BY <1>10, <1>12, <1>13, <1>14 DEF Places, n

LEMMA CancelExchangeKeeps ==
    ASSUME NEW p \in Sessions, Core(p), RunAnswered(p), NEW x \in Exchanges,
           NEW q, q = CancelExchange(p, x)
    PROVE  Step(p, q)
    <1>0. p.run \in Runs /\ p.queue \in Seq(Exchanges) /\ p.settledIds \in Seq(Exchanges)
        BY FieldTypes
    <1>1. CASE p.run.x = x
        <2> DEFINE run == [p.run EXCEPT !.aborted = TRUE]
        <2>1. q = WithRun(p, run)
            BY <1>0, <1>1 DEF CancelExchange, WithRun, Sessions, Runs
        <2>2. /\ run \in Runs /\ run.x = p.run.x /\ run.stage = p.run.stage
              /\ run.settled = p.run.settled /\ run.aborted
            BY <1>0 DEF Runs
        <2> HIDE DEF run
        <2>3. /\ run.stage # "none" => run.x # "none"
              /\ run.stage = "settling" => run.settled
              /\ p.ending /\ run.x # "none" => run.settled /\ run.aborted
              /\ run.settled /\ run.stage \in {"handler", "artifact"} => run.aborted
              /\ run.x = p.run.x \/ run.x = "none"
              /\ run.x = p.run.x /\ run.x # "none" /\ p.run.settled => run.settled
            BY <2>2 DEF Core, RunSound
        <2>4. run \in Runs
            BY <2>2
        <2>5. /\ q \in Sessions /\ Core(q) /\ Silent(p, q)
              /\ SameEnds(p, q) /\ SameSent(p, q) /\ q.run = run
              /\ Complete(p, p.done) => Complete(q, q.done)
              /\ \A y \in Exchanges : Accounted(p, y) => Accounted(q, y) \/ (y = p.run.x /\ run.x # y)
            BY <2>1, <2>3, <2>4, RunKeeps
        <2>6. RunAnswered(q)
            BY <2>2, <2>5 DEF RunAnswered, SameEnds, SameSent
        <2>7. Continues(p, q)
            BY <2>2, <2>5 DEF Continues
        <2> QED BY <2>5, <2>6, <2>7 DEF Step
    <1>2. CASE p.run.x # x /\ Queued(p, x)
        <2> DEFINE ys == WithoutQueued(p, x)
                   r == WithQueue(p, ys)
        <2>1. q = PublishOutcome(r, x, "canceled")
            BY <1>2 DEF CancelExchange, WithQueue
        <2>2. /\ ys \in Seq(Exchanges)
              /\ \A i, j \in Places(ys) : i # j => ys[i] # ys[j]
              /\ \A i \in Places(ys) : ys[i] # x /\ \E j \in Places(p.queue) : ys[i] = p.queue[j]
              /\ \A j \in Places(p.queue) : p.queue[j] # x => \E i \in Places(ys) : ys[i] = p.queue[j]
            BY <1>2, WithoutQueuedIs DEF Core
        <2>3. ~p.ending /\ ~p.silenced
            <3>1. p.queue # <<>>
                BY <1>2, <1>0 DEF Queued
            <3> QED BY <3>1 DEF Core, RunSound, EndsOnce
        <2>r. r = WithQueue(p, ys)
            OBVIOUS
        <2> HIDE DEF ys, r
        <2>4. \A i \in Places(ys) : ys[i] # p.run.x
            BY <2>2 DEF Core, IdsSound
        <2>5. \A m \in Places(p.settledIds), i \in Places(ys) : p.settledIds[m] # ys[i]
            <3>1. \A m \in Places(p.settledIds), i \in Places(p.queue) : p.settledIds[m] # p.queue[i]
                BY DEF Core, IdsSound, Queued, Places
            <3> QED BY <2>2, <3>1
        <2>6. /\ r \in Sessions /\ Core(r)
              /\ SameEnds(p, r) /\ SameSent(p, r) /\ SameTold(p, r)
              /\ r.run = p.run /\ r.settledIds = p.settledIds /\ r.queue = ys
              /\ Complete(p, p.done) => Complete(r, r.done)
              /\ RunAnswered(p) => RunAnswered(r)
            BY <2>2, <2>3, <2>r, <2>4, <2>5, QueueKeeps
        <2>7. ~r.ending /\ ~r.silenced
            BY <2>3, <2>6 DEF SameEnds
        <2>8. "canceled" \in OutcomeStates
            BY DEF OutcomeStates
        <2>9. q \in Sessions
            BY <2>1, <2>6, <2>7, <2>8, PublishOutcomeFields
        <2>10. /\ ~Queued(r, x) /\ (r.run.x = x => r.run.settled)
               /\ \A n \in Places(r.settledIds) : r.settledIds[n] # x
            <3>1. ~Queued(r, x)
                BY <2>2, <2>6 DEF Queued, Places
            <3>2. \A n \in Places(p.settledIds) : p.settledIds[n] # x
                BY <1>2 DEF Core, IdsSound
            <3> QED BY <1>2, <2>6, <3>1, <3>2
        <2>11. /\ Core(q) /\ Continues(r, q) /\ Answered(q.log, x)
               /\ RunAnswered(r) => RunAnswered(q)
            BY <2>1, <2>6, <2>7, <2>8, <2>9, <2>10, OutcomeKeeps
        <2>12. \A y \in Exchanges : Accounted(p, y) => Accounted(q, y)
            <3> SUFFICES ASSUME NEW y \in Exchanges, Accounted(p, y)
                         PROVE  Accounted(q, y)
                OBVIOUS
            <3>1. CASE y = x
                BY <3>1, <2>11 DEF Accounted
            <3>2. CASE y # x
                <4>1. Queued(p, y) => Queued(r, y)
                    <5> SUFFICES ASSUME NEW j \in Places(p.queue), p.queue[j] = y
                                 PROVE  Queued(r, y)
                        BY DEF Queued, Places
                    <5>1. \E i \in Places(ys) : ys[i] = p.queue[j]
                        BY <3>2, <2>2
                    <5> QED BY <5>1, <2>6 DEF Queued, Places
                <4>2. Accounted(r, y)
                    BY <4>1, <2>6 DEF Accounted, SameEnds, SameSent
                <4> QED BY <4>2, <2>11 DEF Continues
            <3> QED BY <3>1, <3>2
        <2> QED BY <2>3, <2>6, <2>9, <2>11, <2>12 DEF Step, Continues, Silent
    <1>3. CASE p.run.x # x /\ ~Queued(p, x)
        BY <1>3 DEF CancelExchange, Step, Silent, Continues
    <1> QED BY <1>1, <1>2, <1>3

-----------------------------------------------------------------------------
(* A publish settles.                                                        *)

\* Entry p.done of the log has just settled; what it brings about is still to come.
Settling(p, ok) ==
    /\ p.done \in Places(p.log)
    /\ ok => p.done \in p.okay
    /\ \A a \in Places(p.recorded) : p.recorded[a] < p.done
    /\ Complete(p, p.done - 1)
    /\ p.log[p.done].kind = "outcome" => p.closer.phase \notin {"handler", "terminal"}

\* The outbox has moved on.
Advanced(p, ok) ==
    [p EXCEPT !.done = p.done + 1,
              !.okay = IF ok THEN @ \cup {p.done + 1} ELSE @,
              !.attempt = IF p.done + 1 < Len(p.log) /\ ~p.silenced THEN 1 ELSE 0]

LEMMA SettlingKeeps ==
    ASSUME NEW p \in Sessions, Good(p), p.done < Len(p.log), NEW ok \in BOOLEAN,
           NEW q, q = Advanced(p, ok)
    PROVE  /\ q \in Sessions /\ Core(q) /\ RunAnswered(q) /\ Settling(q, ok)
           /\ SameEnds(p, q) /\ SameWork(p, q)
           /\ q.log = p.log /\ q.done = p.done + 1 /\ q.recorded = p.recorded
           /\ p.silenced => q.attempt = 0
           /\ \A x \in Exchanges : Accounted(p, x) => Accounted(q, x)
    <1> DEFINE okay == IF ok THEN p.okay \cup {p.done + 1} ELSE p.okay
               attempt == IF p.done + 1 < Len(p.log) /\ ~p.silenced THEN 1 ELSE 0
    <1>0. /\ p.log \in Seq(Messages) /\ Len(p.log) \in Nat /\ p.done \in Nat /\ p.okay \subseteq Nat
          /\ p.recorded \in Seq(Nat)
        BY FieldTypes
    <1>1. q = [p EXCEPT !.done = p.done + 1, !.okay = okay, !.attempt = attempt]
        BY DEF Advanced
    <1>2. okay \in SUBSET Nat /\ attempt \in 0..2 /\ p.done + 1 \in Nat
        BY <1>0
    <1>3. /\ ok => p.done + 1 \in okay
          /\ p.okay \subseteq okay
          /\ attempt > 0 => p.done + 1 < Len(p.log)
          /\ p.silenced => attempt = 0
        BY <1>0
    <1> HIDE DEF okay, attempt
    <1>4. /\ q.log = p.log /\ q.done = p.done + 1 /\ q.okay = okay /\ q.attempt = attempt
          /\ q.recorded = p.recorded /\ SameEnds(p, q) /\ SameWork(p, q)
        BY <1>1 DEF Sessions, SameEnds, SameWork
    <1>5. q \in Sessions
        <2> DEFINE r == [p EXCEPT !.done = p.done + 1]
        <2>1. r \in Sessions
            BY <1>2 DEF Sessions
        <2> DEFINE t == [r EXCEPT !.okay = okay]
        <2>2. q = [t EXCEPT !.attempt = attempt]
            BY <1>1 DEF Sessions
        <2> HIDE DEF r
        <2>3. t \in Sessions
            BY ONLY <1>2, <2>1 DEF Sessions
        <2> HIDE DEF t
        <2> QED BY ONLY <1>2, <2>2, <2>3 DEF Sessions
    <1>6. p.done + 1 \in Places(p.log) /\ p.done + 1 \in InFlight(p)
        BY <1>0 DEF Places, InFlight
    <1>7. OutcomesInFlight(q) \subseteq OutcomesInFlight(p)
        <2>1. InFlight(q) \subseteq InFlight(p)
            BY <1>0, <1>4 DEF InFlight
        <2> QED BY <2>1, <1>4 DEF OutcomesInFlight
    <1>8. Core(q)
        <2>1. Typed(q)
            BY <1>0, <1>3, <1>4, <1>5 DEF Typed
        <2>2. LogSound(q)
            BY <1>4 DEF Good, Core, LogSound, SameEnds
        <2>3. EndsOnce(q)
            BY <1>4, <1>7 DEF Good, Core, EndsOnce, SameEnds
        <2>4. RunSound(q)
            BY <1>4 DEF Good, Core, RunSound, SameEnds, SameWork
        <2>5. IdsSound(q)
            BY <1>4 DEF Good, Core, IdsSound, SameEnds, SameWork, Queued
        <2>6. RecordSound(q.log, q.done, q.okay, q.recorded)
            <3>1. RecordSound(p.log, p.done, p.okay, p.recorded)
                BY DEF Good, Core
            <3>2. 1..p.done \subseteq 1..(p.done + 1)
                BY <1>0
            <3>3. RecordSound(p.log, p.done + 1, okay, p.recorded)
                BY <1>3, <3>1, <3>2 DEF RecordSound
            <3> QED BY <3>3, <1>4
        <2> QED BY <2>1, <2>2, <2>3, <2>4, <2>5, <2>6 DEF Core
    <1>9. RunAnswered(q)
        BY <1>4 DEF Good, RunAnswered, SameEnds, SameWork
    <1>10. Settling(q, ok)
        <2>1. q.done \in Places(q.log) /\ (ok => q.done \in q.okay)
            BY <1>3, <1>4, <1>6
        <2>2. \A a \in Places(q.recorded) : q.recorded[a] < q.done
            <3>1. \A a \in Places(p.recorded) : p.recorded[a] \in 1..p.done
                BY DEF Good, Core, RecordSound
            <3>2. \A i \in 1..p.done : i < p.done + 1
                BY <1>0
            <3> QED BY <3>1, <3>2, <1>4
        <2>3. Complete(q, q.done - 1)
            <3>1. q.done - 1 = p.done
                BY <1>0, <1>4
            <3>2. Complete(q, p.done)
                BY <1>4 DEF Good, Complete, Excused, SameEnds
            <3> QED BY <3>1, <3>2
        <2>4. q.log[q.done].kind = "outcome" => q.closer.phase \notin {"handler", "terminal"}
            <3>1. p.log[p.done + 1].kind = "outcome" => OutcomesInFlight(p) # {}
                BY <1>6 DEF OutcomesInFlight
            <3> QED BY <3>1, <1>4 DEF Good, Core, EndsOnce, SameEnds
        <2> QED BY <2>1, <2>2, <2>3, <2>4 DEF Settling
    <1>11. \A x \in Exchanges : Accounted(p, x) => Accounted(q, x)
        BY <1>4 DEF Accounted, Queued, SameEnds, SameWork
    <1> QED BY <1>3, <1>4, <1>5, <1>8, <1>9, <1>10, <1>11

\* A message that is no outcome leaves nothing to record.
LEMMA SettledComplete ==
    ASSUME NEW p \in Sessions, NEW ok, Settling(p, ok), p.log[p.done].kind # "outcome"
    PROVE  Complete(p, p.done)
    <1>1. p.done \in Nat /\ \A i \in 1..p.done : i = p.done \/ i \in 1..(p.done - 1)
        BY FieldTypes
    <1> QED BY <1>1 DEF Settling, Complete, Outcome

\* The checkpoint of what was delivered, and of the terminal message.
LEMMA RecordKeeps ==
    ASSUME NEW p \in Sessions, Core(p), NEW ok \in BOOLEAN, Settling(p, ok),
           ok \/ Terminal(p.log, p.done),
           ~p.silenced /\ p.log[p.done].kind = "closed" =>
               \A i \in Places(p.log) : Outcome(p.log, i) => Recorded(p.recorded, Len(p.recorded), i),
           NEW q, q = Record(p, p.done)
    PROVE  /\ Step(p, q) /\ Complete(q, q.done)
           /\ SameEnds(p, q) /\ SameWork(p, q) /\ SameSent(p, q)
    <1>0. /\ p.done \in Nat /\ p.recorded \in Seq(Nat) /\ Len(p.recorded) \in Nat
        BY FieldTypes
    <1>1. /\ q \in Sessions
          /\ SameEnds(p, q) /\ SameWork(p, q) /\ SameSent(p, q) /\ q.okay = p.okay
          /\ q.recorded = IF p.silenced THEN p.recorded ELSE Append(p.recorded, p.done)
        BY <1>0, RecordFields
    <1>2. CASE p.silenced
        <2>1. SameTold(p, q)
            BY <1>1, <1>2 DEF SameTold
        <2>2. Complete(q, q.done)
            BY <1>1, <1>2 DEF Complete, SameEnds
        <2> QED BY <1>1, <2>1, <2>2, SameKeeps DEF Step
    <1>3. CASE ~p.silenced
        <2> DEFINE r == q.recorded
        <2>1. r = Append(p.recorded, p.done)
            BY <1>1, <1>3
        <2> HIDE DEF r
        <2>2. /\ r \in Seq(Nat) /\ Len(r) = Len(p.recorded) + 1 /\ r[Len(r)] = p.done
              /\ \A a \in 1..Len(p.recorded) : r[a] = p.recorded[a]
            BY <1>0, <2>1, AppendProperties
        <2>p. /\ \A a \in Places(r) : a = Len(r) \/ a \in Places(p.recorded)
              /\ \A a, b \in Places(r) : a < b => a \in Places(p.recorded)
            <3> DEFINE n == Len(p.recorded)
                       k == Len(r)
            <3>1. n \in Nat /\ k = n + 1
                BY <1>0, <2>2
            <3> HIDE DEF n, k
            <3>2. \A a \in 1..k : a = k \/ a \in 1..n
                BY ONLY <3>1
            <3>3. \A a, b \in 1..k : a < b => a \in 1..n
                BY ONLY <3>1
            <3> QED BY <3>2, <3>3 DEF Places, n, k
        <2>3. \A a \in Places(r) : a = Len(r) \/ (a \in Places(p.recorded) /\ r[a] = p.recorded[a])
            BY <2>2, <2>p DEF Places
        <2>4. \A a, b \in Places(r) : a < b => a \in Places(p.recorded)
            BY <2>p
        <2>5. \A n \in 0..Len(p.recorded) : \A i : Recorded(p.recorded, n, i) <=> Recorded(r, n, i)
            <3>1. \A n \in 0..Len(p.recorded) : \A b \in 1..n : b \in 1..Len(p.recorded)
                BY <1>0
            <3>2. \A n \in 0..Len(p.recorded) : \A b \in 1..n : r[b] = p.recorded[b]
                BY <2>2, <3>1
            <3> QED BY <3>2 DEF Recorded
        <2>6. \A i : Recorded(p.recorded, Len(p.recorded), i) => Recorded(r, Len(r), i)
            <3>1. \A b \in 1..Len(p.recorded) : b \in 1..Len(r)
                BY <1>0, <2>2
            <3> QED BY <2>2, <3>1 DEF Recorded
        <2>7. Recorded(r, Len(r), p.done)
            <3>1. Len(r) \in 1..Len(r)
                BY <1>0, <2>2
            <3> QED BY <2>2, <3>1 DEF Recorded
        <2>8. RecordSound(p.log, p.done, p.okay, p.recorded)
            BY DEF Core
        <2>9. RecordSound(p.log, p.done, p.okay, r)
            <3>1. \A a, b \in Places(r) : a < b => r[a] < r[b]
                <4> SUFFICES ASSUME NEW a \in Places(r), NEW b \in Places(r), a < b
                             PROVE  r[a] < r[b]
                    OBVIOUS
                <4>1. a \in Places(p.recorded) /\ r[a] = p.recorded[a]
                    BY <2>2, <2>4 DEF Places
                <4>2. CASE b = Len(r)
                    BY <2>2, <4>1, <4>2 DEF Settling
                <4>3. CASE b \in Places(p.recorded) /\ r[b] = p.recorded[b]
                    BY <2>8, <4>1, <4>3 DEF RecordSound
                <4> QED BY <2>3, <4>2, <4>3
            <3>2. \A a \in Places(r) : r[a] \in 1..p.done /\ (r[a] \in p.okay \/ Terminal(p.log, r[a]))
                <4>1. p.done \in 1..p.done /\ (p.done \in p.okay \/ Terminal(p.log, p.done))
                    BY <1>0 DEF Settling, Places
                <4> QED BY <2>2, <2>3, <2>8, <4>1 DEF RecordSound
            <3>3. \A a \in Places(r) : p.log[r[a]].kind = "closed" =>
                     \A i \in Places(p.log) : Outcome(p.log, i) => Recorded(r, a, i)
                <4> SUFFICES ASSUME NEW a \in Places(r), p.log[r[a]].kind = "closed",
                                    NEW i \in Places(p.log), Outcome(p.log, i)
                             PROVE  Recorded(r, a, i)
                    OBVIOUS
                <4>1. CASE a = Len(r)
                    BY <1>3, <2>2, <2>6, <4>1
                <4>2. CASE a \in Places(p.recorded) /\ r[a] = p.recorded[a]
                    <5>1. Recorded(p.recorded, a, i)
                        BY <2>8, <4>2 DEF RecordSound
                    <5>2. a \in 0..Len(p.recorded)
                        BY <4>2, <1>0 DEF Places
                    <5> QED BY <2>5, <5>1, <5>2
                <4> QED BY <2>3, <4>1, <4>2
            <3> QED BY <3>1, <3>2, <3>3 DEF RecordSound
        <2>10. Complete(q, q.done)
            <3>1. \A i \in 1..p.done : i = p.done \/ i \in 1..(p.done - 1)
                BY <1>0
            <3>2. q.recorded = r /\ q.log = p.log /\ q.done = p.done
                BY <1>1 DEF r, SameSent
            <3> QED BY <2>6, <2>7, <3>1, <3>2, <1>1 DEF Settling, Complete, Excused, SameEnds
        <2>11. Core(q)
            <3>1. Typed(q)
                BY <1>1 DEF Core, Typed, SameSent
            <3>2. LogSound(q)
                BY <1>1 DEF Core, LogSound, SameSent, SameEnds
            <3>3. EndsOnce(q)
                BY <1>1 DEF Core, EndsOnce, SameSent, SameEnds, OutcomesInFlight, InFlight
            <3>4. RunSound(q)
                BY <1>1 DEF Core, RunSound, SameWork, SameEnds
            <3>5. IdsSound(q)
                BY <1>1 DEF Core, IdsSound, SameWork, SameEnds, SameSent, Queued
            <3>6. RecordSound(q.log, q.done, q.okay, q.recorded)
                BY <1>1, <2>9 DEF SameSent, r
            <3> QED BY <3>1, <3>2, <3>3, <3>4, <3>5, <3>6 DEF Core
        <2>12. \A x \in Exchanges : Accounted(p, x) => Accounted(q, x)
            BY <1>1 DEF Accounted, Queued, SameEnds, SameSent, SameWork
        <2>13. RunAnswered(p) => RunAnswered(q)
            BY <1>1 DEF RunAnswered, SameEnds, SameSent, SameWork
        <2> QED BY <1>1, <1>3, <2>10, <2>11, <2>12, <2>13 DEF Step, Silent, Continues
    <1> QED BY <1>2, <1>3

LEMMA OnReadyKeeps ==
    ASSUME NEW p \in Sessions, Core(p), NEW ok \in BOOLEAN, Settling(p, ok),
           p.log[p.done].kind = "ready", NEW q, q = OnReady(p, p.done, ok)
    PROVE  Step(p, q) /\ Complete(q, q.done)
    <1>1. Complete(p, p.done)
        BY SettledComplete
    <1>2. CASE ok
        <2> DEFINE r == Record(p, p.done)
                   t == [r EXCEPT !.ready = TRUE]
        <2>1. q = Pump(t)
            BY <1>2 DEF OnReady
        <2>2. Step(p, r)
            BY <1>2, RecordKeeps
        <2> HIDE DEF r
        <2>3. t \in Sessions /\ SameEnds(r, t) /\ SameWork(r, t) /\ SameSent(r, t) /\ SameTold(r, t)
            BY <2>2 DEF Step, Sessions, SameEnds, SameWork, SameSent, SameTold
        <2> HIDE DEF t
        <2>4. Step(r, t)
            BY <2>2, <2>3, SameKeeps DEF Step
        <2>5. Step(t, q)
            BY <2>1, <2>4, PumpKeeps DEF Step
        <2>6. Step(p, q)
            BY <2>2, <2>4, <2>5, StepsAdd
        <2> QED BY <1>1, <2>6 DEF Step, Continues
    <1>3. CASE ~ok
        <2>1. q = Fail(p)
            BY <1>3 DEF OnReady
        <2>2. Step(p, q)
            BY <2>1, FailKeeps
        <2> QED BY <1>1, <2>2 DEF Step, Continues
    <1> QED BY <1>2, <1>3

LEMMA OnArtifactKeeps ==
    ASSUME NEW p \in Sessions, Core(p), RunAnswered(p), NEW ok \in BOOLEAN, Settling(p, ok),
           p.log[p.done].kind = "artifact", NEW q, q = OnArtifact(p, p.done, ok)
    PROVE  Step(p, q) /\ Complete(q, q.done)
    <1>1. Complete(p, p.done)
        BY SettledComplete
    <1>2. Step(p, q)
        <2>1. CASE p.run.stage # "artifact" \/ p.run.waits # p.done
            BY <2>1 DEF OnArtifact, Step, Silent, Continues
        <2>2. CASE ~(p.run.stage # "artifact" \/ p.run.waits # p.done) /\ ok
            <3>1. q = NextArtifact(p)
                BY <2>2 DEF OnArtifact
            <3> QED BY <2>2, <3>1, NextArtifactKeeps
        <2>3. CASE ~(p.run.stage # "artifact" \/ p.run.waits # p.done) /\ ~ok
            <3>1. q = RunThrows(p)
                BY <2>3 DEF OnArtifact
            <3>2. p.run.x # "none"
                BY <2>3 DEF Core, RunSound
            <3> QED BY <3>1, <3>2, RunThrowsKeeps
        <2> QED BY <2>1, <2>2, <2>3
    <1> QED BY <1>1, <1>2 DEF Step, Continues

\* An outcome that was not delivered ends the session, with a failure.
LEMMA OutcomeLostKeeps ==
    ASSUME NEW p \in Sessions, Core(p), Settling(p, FALSE), p.log[p.done].kind = "outcome",
           NEW q, q = Fail([p EXCEPT !.closer.lost = (@ \/ p.closer.phase = "settling")])
    PROVE  Step(p, q) /\ Complete(q, q.done)
    <1> DEFINE lost == p.closer.lost \/ p.closer.phase = "settling"
               r == [p EXCEPT !.closer.lost = lost]
    <1>0. p.closer \in Closers /\ lost \in BOOLEAN
        BY FieldTypes DEF Closers
    <1>1. q = Fail(r)
        BY <1>0 DEF Sessions, Closers
    <1>2. /\ p.closer.phase = "settling" => lost
          /\ p.closer = NoCloser => lost = p.closer.lost
        <2>1. p.closer = NoCloser => p.closer.lost = FALSE /\ p.closer.phase # "settling"
            BY DEF NoCloser
        <2>2. p.closer = NoCloser => lost = FALSE
            BY <2>1
        <2> QED BY <2>1, <2>2
    <1> HIDE DEF lost
    <1>3. /\ r \in Sessions
          /\ r.closer.phase = p.closer.phase /\ r.closer.kind = p.closer.kind /\ r.closer.lost = lost
          /\ r.ending = p.ending /\ r.silenced = p.silenced
          /\ r.closeRun = p.closeRun /\ r.closeHandled = p.closeHandled
          /\ SameWork(p, r) /\ SameSent(p, r) /\ SameTold(p, r)
        <2> DEFINE c == [p.closer EXCEPT !.lost = lost]
        <2>1. c \in Closers /\ c.phase = p.closer.phase /\ c.kind = p.closer.kind /\ c.lost = lost
            BY <1>0 DEF Closers
        <2>2. r = [p EXCEPT !.closer = c]
            BY <1>0 DEF Sessions, Closers
        <2> HIDE DEF c, r
        <2>3. r \in Sessions
            BY <2>1, <2>2 DEF Sessions, Closers
        <2>4. /\ r.closer = c /\ r.ending = p.ending /\ r.silenced = p.silenced
              /\ r.closeRun = p.closeRun /\ r.closeHandled = p.closeHandled
              /\ SameWork(p, r) /\ SameSent(p, r) /\ SameTold(p, r)
            BY <2>2 DEF Sessions, SameWork, SameSent, SameTold
        <2> QED BY <2>1, <2>3, <2>4
    <1>4. p.closer = NoCloser => r.closer = NoCloser
        <2>1. r.closer \in Closers
            BY <1>3, FieldTypes
        <2> QED BY <1>0, <1>2, <1>3, <2>1 DEF Closers
    <1> HIDE DEF r
    <1>5. Core(r)
        <2>1. Typed(r)
            BY <1>3 DEF Core, Typed, SameSent
        <2>2. LogSound(r)
            BY <1>3 DEF Core, LogSound, SameSent
        <2>3. EndsOnce(r)
            <3>1. OutcomesInFlight(r) = OutcomesInFlight(p)
                BY <1>3 DEF SameSent, OutcomesInFlight, InFlight
            <3> QED BY <1>3, <1>4, <3>1 DEF Core, EndsOnce
        <2>4. RunSound(r)
            BY <1>3 DEF Core, RunSound, SameWork
        <2>5. IdsSound(r)
            BY <1>3 DEF Core, IdsSound, SameWork, SameSent, Queued
        <2>6. RecordSound(r.log, r.done, r.okay, r.recorded)
            BY <1>3 DEF Core, SameSent, SameTold
        <2> QED BY <2>1, <2>2, <2>3, <2>4, <2>5, <2>6 DEF Core
    <1>6. Step(r, q) /\ (~r.ending => Complete(q, q.done)) /\ (r.ending => q = r)
        BY <1>1, <1>3, <1>5, FailKeeps
    <1>7. r.ending => Complete(r, r.done)
        BY <1>2, <1>3 DEF Core, EndsOnce, Settling, Complete, Excused
    <1>8. Complete(q, q.done)
        BY <1>6, <1>7
    <1>9. Silent(p, r)
        BY <1>3 DEF Silent, SameSent, SameTold
    <1>10. \A x \in Exchanges : Accounted(p, x) => Accounted(r, x)
        BY <1>3 DEF Accounted, Queued, SameSent, SameWork
    <1>11. RunAnswered(p) => RunAnswered(r)
        BY <1>3 DEF RunAnswered, SameSent, SameWork
    <1> QED BY <1>6, <1>8, <1>9, <1>10, <1>11 DEF Step, Silent, Continues

LEMMA OnOutcomeKeeps ==
    ASSUME NEW p \in Sessions, Core(p), RunAnswered(p), NEW ok \in BOOLEAN, Settling(p, ok),
           p.log[p.done].kind = "outcome", NEW q, q = OnOutcome(p, p.done, ok)
    PROVE  Step(p, q) /\ Complete(q, q.done)
    <1> DEFINE noted == IF ok THEN Record(p, p.done)
                        ELSE Fail([p EXCEPT !.closer.lost = (@ \/ p.closer.phase = "settling")])
               over == IF noted.run.stage = "settling" /\ noted.run.waits = p.done
                       THEN RunOver(noted) ELSE noted
    <1>1. q = AfterOutcomes(over)
        BY DEF OnOutcome
    <1>2. Step(p, noted) /\ Complete(noted, noted.done)
        <2>1. CASE ok
            <3> DEFINE r == Record(p, p.done)
            <3>1. p.log[p.done].kind # "closed"
                OBVIOUS
            <3>2. Step(p, r) /\ Complete(r, r.done)
                BY <2>1, <3>1, RecordKeeps
            <3>3. noted = r
                BY <2>1
            <3> QED BY <3>2, <3>3
        <2>2. CASE ~ok
            <3> DEFINE r == Fail([p EXCEPT !.closer.lost = (@ \/ p.closer.phase = "settling")])
            <3>0. Settling(p, FALSE)
                BY <2>2 DEF Settling
            <3>1. Step(p, r) /\ Complete(r, r.done)
                BY <3>0, OutcomeLostKeeps
            <3>2. noted = r
                BY <2>2
            <3> QED BY <3>1, <3>2
        <2> QED BY <2>1, <2>2
    <1> HIDE DEF noted
    <1>3. Step(noted, over)
        <2>1. CASE noted.run.stage = "settling" /\ noted.run.waits = p.done
            <3>1. noted.run.settled
                BY <1>2, <2>1 DEF Step, Core, RunSound
            <3>2. over = RunOver(noted)
                BY <2>1
            <3> HIDE DEF over
            <3> QED BY <1>2, <3>1, <3>2, RunOverKeeps DEF Step
        <2>2. CASE ~(noted.run.stage = "settling" /\ noted.run.waits = p.done)
            BY <1>2, <2>2 DEF Step, Silent, Continues
        <2> QED BY <2>1, <2>2
    <1> HIDE DEF over
    <1>4. Step(p, over) /\ Complete(over, over.done)
        <2>1. Step(p, over)
            BY <1>2, <1>3, StepsAdd
        <2> QED BY <1>2, <1>3, <2>1 DEF Step, Continues
    <1>5. Step(over, q) /\ Complete(q, q.done)
        BY <1>1, <1>4, AfterOutcomesKeeps DEF Step
    <1> QED BY <1>4, <1>5, StepsAdd

LEMMA OnTerminalKeeps ==
    ASSUME NEW p \in Sessions, Core(p), NEW ok \in BOOLEAN, Settling(p, ok),
           Terminal(p.log, p.done), NEW q, q = OnTerminal(p, p.done)
    PROVE  Step(p, q) /\ Complete(q, q.done)
    <1>0. /\ p.done \in Places(p.log) /\ p.done \in Nat /\ p.log \in Seq(Messages)
          /\ p.log[p.done].kind \in TerminalStates /\ p.log[p.done].kind # "outcome"
        BY FieldTypes DEF Settling, Terminal, TerminalStates
    <1>1. p.closer.phase \in {"terminal", "done"} /\ (p.log[p.done].kind = "closed" => p.closer.kind = "close")
        BY <1>0 DEF Core, LogSound
    <1>2. \A i \in Places(p.log) : Outcome(p.log, i) => i \in 1..(p.done - 1)
        <2> SUFFICES ASSUME NEW i \in Places(p.log), Outcome(p.log, i)
                     PROVE  i \in 1..(p.done - 1)
            OBVIOUS
        <2>1. ~(p.done < i)
            BY <1>0 DEF Core, LogSound, Conforming
        <2>2. i # p.done
            BY <1>0 DEF Outcome
        <2> QED BY <1>0, <2>1, <2>2 DEF Places
    <1>3. ~p.silenced /\ p.log[p.done].kind = "closed" =>
             \A i \in Places(p.log) : Outcome(p.log, i) => Recorded(p.recorded, Len(p.recorded), i)
        BY <1>1, <1>2 DEF Settling, Complete, Excused
    <1> DEFINE n == Record(p, p.done)
               rstate == IF n.rstate \in TerminalStates THEN n.rstate ELSE p.log[p.done].kind
               r == [n EXCEPT !.closer.phase = "done", !.rstate = rstate]
    <1>4. Step(p, n) /\ SameEnds(p, n)
        BY <1>3, RecordKeeps
    <1>5. q = Finish(r)
        BY DEF OnTerminal
    <1> HIDE DEF n
    <1>6. n.closer \in Closers /\ rstate \in {"open", "ready", "closing"} \cup TerminalStates
        BY <1>0, <1>4, FieldTypes DEF Step
    <1> HIDE DEF rstate
    <1>7. /\ r \in Sessions /\ r.closer.phase = "done"
          /\ r.ending = n.ending /\ r.silenced = n.silenced
          /\ r.closer.kind = n.closer.kind
          /\ r.closeRun = n.closeRun /\ r.closeHandled = n.closeHandled
          /\ SameWork(n, r) /\ SameSent(n, r) /\ SameTold(n, r)
        <2> DEFINE c == [n.closer EXCEPT !.phase = "done"]
                   t == [n EXCEPT !.closer = c]
        <2>1. c \in Closers /\ c.phase = "done" /\ c.kind = n.closer.kind
            BY <1>6 DEF Closers
        <2>2. r = [t EXCEPT !.rstate = rstate]
            BY <1>4, <1>6 DEF Step, Sessions, Closers
        <2> HIDE DEF c, r
        <2>3. t \in Sessions
            BY <1>4, <2>1 DEF Step, Sessions, Closers
        <2>4. /\ t.closer = c /\ t.ending = n.ending /\ t.silenced = n.silenced
              /\ t.closeRun = n.closeRun /\ t.closeHandled = n.closeHandled
              /\ SameWork(n, t) /\ SameSent(n, t) /\ SameTold(n, t)
            BY <1>4 DEF Step, Sessions, SameWork, SameSent, SameTold
        <2> HIDE DEF t
        <2>5. r \in Sessions
            BY ONLY <1>6, <2>2, <2>3 DEF Sessions
        <2>6. /\ r.closer = t.closer /\ r.ending = t.ending /\ r.silenced = t.silenced
              /\ r.closeRun = t.closeRun /\ r.closeHandled = t.closeHandled
              /\ SameWork(t, r) /\ SameSent(t, r) /\ SameTold(t, r)
            BY ONLY <2>2, <2>3 DEF Sessions, SameWork, SameSent, SameTold
        <2> QED BY <2>1, <2>4, <2>5, <2>6 DEF SameWork, SameSent, SameTold
    <1> HIDE DEF r
    <1>8. /\ q \in Sessions /\ q.silenced
          /\ q.ending = n.ending /\ q.closer.phase = "done" /\ q.closer.kind = n.closer.kind
          /\ q.closeRun = n.closeRun /\ q.closeHandled = n.closeHandled
          /\ SameWork(n, q) /\ SameSent(n, q) /\ SameTold(n, q)
        <2>1. /\ q \in Sessions /\ q.silenced
              /\ q.ending = r.ending /\ q.closer = r.closer
              /\ q.closeRun = r.closeRun /\ q.closeHandled = r.closeHandled
              /\ SameWork(r, q) /\ SameSent(r, q) /\ SameTold(r, q)
            BY <1>5, <1>7, FinishFields
        <2> QED BY <1>7, <2>1 DEF SameWork, SameSent, SameTold
    <1>9. n.ending /\ n.closer.phase \in {"terminal", "done"} /\ n.closeRun # "closer"
        <2>1. n.closer.phase \in {"terminal", "done"}
            BY <1>1, <1>4 DEF SameEnds
        <2> QED BY <1>4, <2>1 DEF Step, Core, EndsOnce, NoCloser
    <1>10. Core(q)
        <2>1. Typed(q)
            BY <1>4, <1>8 DEF Step, Core, Typed, SameSent
        <2>2. LogSound(q)
            BY <1>4, <1>8 DEF Step, Core, LogSound, SameSent
        <2>3. EndsOnce(q)
            BY <1>4, <1>8, <1>9 DEF Step, Core, EndsOnce
        <2>4. RunSound(q)
            BY <1>4, <1>8 DEF Step, Core, RunSound, SameWork
        <2>5. IdsSound(q)
            BY <1>4, <1>8, <1>9, EndedIdsKeep DEF Step, Core
        <2>6. RecordSound(q.log, q.done, q.okay, q.recorded)
            BY <1>4, <1>8 DEF Step, Core, SameSent, SameTold
        <2> QED BY <2>1, <2>2, <2>3, <2>4, <2>5, <2>6 DEF Core
    <1>11. Complete(q, q.done)
        BY <1>8 DEF Complete
    <1>12. Silent(p, q)
        BY <1>4, <1>8 DEF Step, Silent, SameSent, SameTold
    <1> QED BY <1>8, <1>9, <1>10, <1>11, <1>12, EndingIsGood DEF Step, Good

\* What an action does: the session stays good and a silenced one silent.
Quiet(p, q) ==
    p.silenced => /\ q.log = p.log /\ q.attempt \in {0, p.attempt}
                  /\ q.attempt # 0 => q.done = p.done
                  /\ q.recorded = p.recorded

Moves(p, q) ==
    /\ Good(q) /\ Quiet(p, q)
    /\ \A x \in Exchanges : Accounted(p, x) => Accounted(q, x)

LEMMA StepMoves ==
    ASSUME NEW p, Good(p), NEW q, Step(p, q)
    PROVE  Moves(p, q)
    <1>1. Quiet(p, q)
        BY DEF Step, Silent, Quiet
    <1> QED BY <1>1 DEF Step, Continues, Good, Moves

LEMMA SettlePublishMoves ==
    ASSUME NEW p \in Sessions, Good(p), p.done < Len(p.log), NEW ok \in BOOLEAN,
           NEW q, q = SettlePublish(p, ok)
    PROVE  Moves(p, q)
    <1> DEFINE r == Advanced(p, ok)
               i == p.done + 1
    <1>1. /\ r \in Sessions /\ Core(r) /\ RunAnswered(r) /\ Settling(r, ok)
          /\ SameEnds(p, r) /\ SameWork(p, r)
          /\ r.log = p.log /\ r.done = i /\ r.recorded = p.recorded
          /\ p.silenced => r.attempt = 0
          /\ \A x \in Exchanges : Accounted(p, x) => Accounted(r, x)
        BY SettlingKeeps
    <1>2. q = CASE p.log[i].kind = "ready" -> OnReady(r, i, ok)
                [] p.log[i].kind = "artifact" -> OnArtifact(r, i, ok)
                [] p.log[i].kind = "outcome" -> OnOutcome(r, i, ok)
                [] p.log[i].kind \in TerminalStates -> OnTerminal(r, i)
        BY DEF SettlePublish, Advanced
    <1> HIDE DEF r, i
    <1>3. r.log[r.done].kind \in {"ready", "artifact", "outcome", "closed", "failed"}
        <2>1. r.done \in 1..Len(r.log) /\ r.log \in Seq(Messages)
            BY <1>1, FieldTypes DEF Settling, Places
        <2>2. r.log[r.done] \in Messages
            BY <2>1
        <2> QED BY <2>2 DEF Messages
    <1>4. Step(r, q) /\ Complete(q, q.done)
        <2>1. CASE r.log[r.done].kind = "ready"
            <3>1. q = OnReady(r, r.done, ok)
                BY <1>1, <1>2, <2>1 DEF TerminalStates
            <3> QED BY <1>1, <2>1, <3>1, OnReadyKeeps
        <2>2. CASE r.log[r.done].kind = "artifact"
            <3>1. q = OnArtifact(r, r.done, ok)
                BY <1>1, <1>2, <2>2 DEF TerminalStates
            <3> QED BY <1>1, <2>2, <3>1, OnArtifactKeeps
        <2>3. CASE r.log[r.done].kind = "outcome"
            <3>1. q = OnOutcome(r, r.done, ok)
                BY <1>1, <1>2, <2>3 DEF TerminalStates
            <3> QED BY <1>1, <2>3, <3>1, OnOutcomeKeeps
        <2>4. CASE r.log[r.done].kind \in {"closed", "failed"}
            <3>0. Terminal(r.log, r.done)
                BY <2>4 DEF Terminal, TerminalStates
            <3>1. q = OnTerminal(r, r.done)
                BY <1>1, <1>2, <2>4 DEF TerminalStates
            <3> QED BY <1>1, <3>0, <3>1, OnTerminalKeeps
        <2> QED BY <1>3, <2>1, <2>2, <2>3, <2>4
    <1>5. Good(q)
        BY <1>1, <1>4 DEF Step, Good
    <1>6. Quiet(p, q)
        BY <1>1, <1>4 DEF Step, Silent, Quiet, SameEnds
    <1>7. \A x \in Exchanges : Accounted(p, x) => Accounted(q, x)
        BY <1>1, <1>4 DEF Step, Continues
    <1> QED BY <1>5, <1>6, <1>7 DEF Moves

-----------------------------------------------------------------------------
(* The actions.                                                              *)

LEMMA IInvSession ==
    ASSUME IInv
    PROVE  s \in Sessions /\ Good(s) /\ Core(s) /\ RunAnswered(s) /\ Complete(s, s.done)
    BY DEF IInv, Good, Core, Typed

LEMMA PublishingMoves ==
    ASSUME IInv, PublishSucceeds \/ PublishFails \/ PublishDropped
    PROVE  Moves(s, s')
    <1>0. s \in Sessions /\ Good(s)
        BY IInvSession
    <1>1. s.done \in Nat /\ Len(s.log) \in Nat /\ s.done <= Len(s.log) /\ s.attempt \in 0..2
        <2>1. s.done \in Nat /\ s.log \in Seq(Messages) /\ s.attempt \in 0..2
            BY <1>0, FieldTypes
        <2> QED BY <1>0, <2>1 DEF Good, Core, Typed
    <1>2. s.attempt > 0 => s.done < Len(s.log)
        BY <1>0 DEF Good, Core, Typed
    <1>3. ASSUME NEW ok \in BOOLEAN, s' = SettlePublish(s, ok), s.done < Len(s.log)
          PROVE  Moves(s, s')
        BY <1>0, <1>3, SettlePublishMoves
    <1>4. CASE PublishSucceeds
        BY <1>2, <1>3, <1>4 DEF PublishSucceeds
    <1>5. CASE PublishFails /\ ~(s.attempt = 1 /\ ~s.silenced)
        BY <1>2, <1>3, <1>5 DEF PublishFails
    <1>6. CASE PublishFails /\ s.attempt = 1 /\ ~s.silenced
        <2>1. s' = [s EXCEPT !.attempt = 2]
            BY <1>6 DEF PublishFails
        <2>2. /\ s' \in Sessions /\ s'.log = s.log /\ s'.done = s.done
              /\ SameEnds(s, s') /\ SameWork(s, s') /\ SameTold(s, s')
            <3>1. 2 \in 0..2
                OBVIOUS
            <3> QED BY <1>0, <2>1, <3>1 DEF Sessions, SameEnds, SameWork, SameTold
        <2>3. Core(s')
            <3>1. Typed(s')
                BY <1>1, <1>2, <1>6, <2>2 DEF Typed
            <3>2. LogSound(s')
                BY <1>0, <2>2 DEF Good, Core, LogSound, SameEnds
            <3>3. EndsOnce(s')
                BY <1>0, <2>2 DEF Good, Core, EndsOnce, SameEnds, OutcomesInFlight, InFlight
            <3>4. RunSound(s')
                BY <1>0, <2>2 DEF Good, Core, RunSound, SameWork, SameEnds
            <3>5. IdsSound(s')
                BY <1>0, <2>2 DEF Good, Core, IdsSound, SameWork, SameEnds, Queued
            <3>6. RecordSound(s'.log, s'.done, s'.okay, s'.recorded)
                BY <1>0, <2>2 DEF Good, Core, SameTold
            <3> QED BY <3>1, <3>2, <3>3, <3>4, <3>5, <3>6 DEF Core
        <2>4. RunAnswered(s') /\ Complete(s', s'.done)
            BY <1>0, <2>2 DEF Good, RunAnswered, Complete, Excused, SameEnds, SameWork, SameTold
        <2>5. \A x \in Exchanges : Accounted(s, x) => Accounted(s', x)
            BY <2>2 DEF Accounted, Queued, SameEnds, SameWork
        <2> QED BY <1>6, <2>3, <2>4, <2>5 DEF Good, Moves, Quiet
    <1>7. CASE PublishDropped
        <2>1. s.done < Len(s.log)
            BY <1>1, <1>7 DEF PublishDropped, Settled
        <2> QED BY <1>3, <1>7, <2>1 DEF PublishDropped
    <1> QED BY <1>4, <1>5, <1>6, <1>7

\* The receiver's state and onSessionOpen's are nobody else's business.
LEMMA RstateKeeps ==
    ASSUME NEW p \in Sessions, Good(p),
           NEW to \in {"open", "ready", "closing"} \cup TerminalStates,
           NEW q, q = [p EXCEPT !.rstate = to]
    PROVE  q \in Sessions /\ Step(p, q) /\ Good(q) /\ SameEnds(p, q) /\ SameWork(p, q)
    <1>1. q \in Sessions
        BY DEF Sessions
    <1>2. SameEnds(p, q) /\ SameWork(p, q) /\ SameSent(p, q) /\ SameTold(p, q)
        BY DEF Sessions, SameEnds, SameWork, SameSent, SameTold
    <1>3. Step(p, q)
        BY <1>1, <1>2, SameKeeps DEF Step, Good
    <1> QED BY <1>1, <1>2, <1>3 DEF Step, Continues, Good

LEMMA OpenKeeps ==
    ASSUME NEW p \in Sessions, Good(p),
           NEW to \in {"unopened", "handler", "returned", "threw"},
           NEW q, q = [p EXCEPT !.open = to]
    PROVE  q \in Sessions /\ Step(p, q) /\ Good(q) /\ SameEnds(p, q) /\ SameWork(p, q)
    <1>1. q \in Sessions
        BY DEF Sessions
    <1>2. SameEnds(p, q) /\ SameWork(p, q) /\ SameSent(p, q) /\ SameTold(p, q)
        BY DEF Sessions, SameEnds, SameWork, SameSent, SameTold
    <1>3. Step(p, q)
        BY <1>1, <1>2, SameKeeps DEF Step, Good
    <1> QED BY <1>1, <1>2, <1>3 DEF Step, Continues, Good

LEMMA ReceiveMoves ==
    ASSUME IInv,
           \/ \E x \in Exchanges : ReceiveCancel(x)
           \/ ReceiveClose
           \/ \E st \in TerminalStates : ReceiveNotice(st)
           \/ RouteCloses
    PROVE  Moves(s, s')
    <1>0. s \in Sessions /\ Good(s) /\ Core(s) /\ RunAnswered(s)
        BY IInvSession
    <1>1. ASSUME NEW x \in Exchanges, ReceiveCancel(x)
          PROVE  Moves(s, s')
        BY <1>0, <1>1, CancelExchangeKeeps, StepMoves DEF ReceiveCancel
    <1>2. CASE ReceiveClose
        <2> DEFINE p == [s EXCEPT !.rstate = "closing"]
        <2>1. Step(s, p) /\ Good(p) /\ p \in Sessions
            BY <1>0, RstateKeeps
        <2>2. s' = Close(p)
            BY <1>2 DEF ReceiveClose
        <2> HIDE DEF p
        <2>3. Step(p, s')
            BY <2>1, <2>2, CloseKeeps
        <2> QED BY <1>0, <2>1, <2>3, StepsAdd, StepMoves
    <1>3. ASSUME NEW st \in TerminalStates, ReceiveNotice(st)
          PROVE  Moves(s, s')
        <2> DEFINE p == [s EXCEPT !.rstate = st]
        <2>1. Step(s, p) /\ Good(p) /\ p \in Sessions
            BY <1>0, RstateKeeps
        <2>2. s' = EndLocally(p, st)
            BY <1>3 DEF ReceiveNotice
        <2> HIDE DEF p
        <2>3. Step(p, s')
            BY <2>1, <2>2, EndLocallyKeeps DEF Good
        <2> QED BY <1>0, <2>1, <2>3, StepsAdd, StepMoves
    <1>4. CASE RouteCloses
        <2>1. s' = EndLocally(s, "failed") /\ "failed" \in TerminalStates
            BY <1>4 DEF RouteCloses, TerminalStates
        <2> QED BY <1>0, <2>1, EndLocallyKeeps, StepMoves
    <1> QED BY <1>1, <1>2, <1>3, <1>4

LEMMA OpenMoves ==
    ASSUME IInv, ProviderCloses \/ OpenReturns \/ OpenThrows \/ OpenTimesOut
    PROVE  Moves(s, s')
    <1>0. s \in Sessions /\ Good(s) /\ Core(s) /\ RunAnswered(s)
        BY IInvSession
    <1>1. CASE ProviderCloses
        BY <1>0, <1>1, CloseKeeps, StepMoves DEF ProviderCloses
    <1>2. CASE OpenReturns
        <2> DEFINE p == [s EXCEPT !.open = "returned"]
        <2>1. /\ p \in Sessions /\ Step(s, p) /\ Good(p)
            BY <1>0, OpenKeeps
        <2>2. s' = IF p.ending THEN RunSessionClose(p, "open")
                   ELSE IF p.deferred THEN Close(p)
                   ELSE Send(p, Message("ready", "none", "none"))
            BY <1>2 DEF OpenReturns
        <2> HIDE DEF p
        <2>3. Core(p) /\ RunAnswered(p)
            BY <2>1 DEF Good
        <2>4. CASE p.ending
            <3>1. s' = RunSessionClose(p, "open")
                BY <2>2, <2>4
            <3>2. Step(p, s')
                <4>1. "open" \in {"open", "notice"} /\ ("open" = "notice" => p.silenced)
                    OBVIOUS
                <4> QED BY <2>1, <2>3, <2>4, <3>1, <4>1, RunOtherKeeps
            <3> QED BY <1>0, <2>1, <3>2, StepsAdd, StepMoves
        <2>5. CASE ~p.ending /\ p.deferred
            <3>1. s' = Close(p)
                BY <2>2, <2>5
            <3>2. Step(p, s')
                BY <2>1, <3>1, CloseKeeps
            <3> QED BY <1>0, <2>1, <3>2, StepsAdd, StepMoves
        <2>6. CASE ~p.ending /\ ~p.deferred
            <3> DEFINE m == Message("ready", "none", "none")
            <3>1. s' = Send(p, m)
                BY <2>2, <2>6
            <3>2. m \in Messages /\ m.kind = "ready" /\ m.x = "none"
                BY DEF Message, Messages, Ids
            <3> HIDE DEF m
            <3>3. s' \in Sessions
                BY <2>1, <3>1, <3>2, SendFields
            <3>4. Core(s') /\ Continues(p, s') /\ (RunAnswered(p) => RunAnswered(s'))
                BY <2>1, <2>3, <2>6, <3>1, <3>2, <3>3, SendKeeps
            <3>5. ~p.silenced
                BY <2>3, <2>6 DEF Core, EndsOnce
            <3>6. Step(p, s')
                BY <3>3, <3>4, <3>5 DEF Step, Silent
            <3> QED BY <1>0, <2>1, <3>6, StepsAdd, StepMoves
        <2> QED BY <2>4, <2>5, <2>6
    <1>3. CASE OpenThrows
        <2> DEFINE p == [s EXCEPT !.open = "threw"]
        <2>1. p \in Sessions /\ Step(s, p) /\ Good(p)
            BY <1>0, OpenKeeps
        <2>2. s' = Fail(p)
            BY <1>3 DEF OpenThrows
        <2> HIDE DEF p
        <2>3. Step(p, s')
            BY <2>1, <2>2, FailKeeps DEF Good
        <2> QED BY <1>0, <2>1, <2>3, StepsAdd, StepMoves
    <1>4. CASE OpenTimesOut
        BY <1>0, <1>4, FailKeeps, StepMoves DEF OpenTimesOut
    <1> QED BY <1>1, <1>2, <1>3, <1>4

LEMMA HandlerMoves ==
    ASSUME IInv,
           HandlerPublishes \/ (\E n \in 0..MaxArtifacts : HandlerReturns(n)) \/ HandlerThrows
    PROVE  Moves(s, s')
    <1>0. s \in Sessions /\ Good(s) /\ Core(s) /\ RunAnswered(s) /\ s.run \in Runs
        BY IInvSession, FieldTypes
    <1>1. CASE HandlerPublishes
        <2> DEFINE m == Message("artifact", s.run.x, "none")
        <2>1. s' = Send(s, m) /\ s.run.stage # "none" /\ ~s.run.settled
            BY <1>1 DEF HandlerPublishes
        <2>2. m \in Messages /\ m.kind = "artifact" /\ m.x = s.run.x
            BY <1>0 DEF Message, Messages, Runs
        <2> HIDE DEF m
        <2>3. ~s.ending /\ ~s.silenced
            BY <1>0, <2>1 DEF Core, RunSound, EndsOnce
        <2>4. s' \in Sessions
            BY <1>0, <2>1, <2>2, SendFields
        <2>5. Core(s') /\ Continues(s, s') /\ (RunAnswered(s) => RunAnswered(s'))
            BY <1>0, <2>1, <2>2, <2>3, <2>4, SendKeeps
        <2>6. Step(s, s')
            BY <2>3, <2>4, <2>5 DEF Step, Silent
        <2> QED BY <1>0, <2>6, StepMoves
    <1>2. ASSUME NEW n \in 0..MaxArtifacts, HandlerReturns(n)
          PROVE  Moves(s, s')
        <2> DEFINE run == [s.run EXCEPT !.left = n]
                   p == WithRun(s, run)
        <2>1. s' = NextArtifact(p)
            BY <1>0, <1>2 DEF HandlerReturns, WithRun, Sessions, Runs
        <2>2. /\ run \in Runs /\ run.x = s.run.x /\ run.stage = s.run.stage
              /\ run.settled = s.run.settled /\ run.aborted = s.run.aborted
            BY <1>0 DEF Runs
        <2> HIDE DEF run
        <2>p. p = WithRun(s, run)
            OBVIOUS
        <2> HIDE DEF p
        <2>3. /\ run.stage # "none" => run.x # "none"
              /\ run.stage = "settling" => run.settled
              /\ s.ending /\ run.x # "none" => run.settled /\ run.aborted
              /\ run.settled /\ run.stage \in {"handler", "artifact"} => run.aborted
              /\ run.x = s.run.x \/ run.x = "none"
              /\ run.x = s.run.x /\ run.x # "none" /\ s.run.settled => run.settled
            BY <1>0, <2>2 DEF Core, RunSound
        <2>4. run \in Runs
            BY <2>2
        <2>5. /\ p \in Sessions /\ Core(p) /\ Silent(s, p)
              /\ SameEnds(s, p) /\ SameSent(s, p) /\ p.run = run
              /\ Complete(s, s.done) => Complete(p, p.done)
              /\ \A y \in Exchanges : Accounted(s, y) => Accounted(p, y) \/ (y = s.run.x /\ run.x # y)
            BY <1>0, <2>p, <2>3, <2>4, RunKeeps
        <2>6. RunAnswered(p)
            BY <1>0, <2>2, <2>5 DEF RunAnswered, SameEnds, SameSent
        <2>7. Step(s, p)
            BY <2>2, <2>5, <2>6 DEF Step, Continues
        <2>8. p.run.stage \in {"handler", "artifact"}
            BY <1>2, <2>2, <2>5 DEF HandlerReturns
        <2>9. Step(p, s')
            BY <2>1, <2>5, <2>6, <2>8, NextArtifactKeeps
        <2> QED BY <1>0, <2>7, <2>9, StepsAdd, StepMoves
    <1>3. CASE HandlerThrows
        <2>1. s' = RunThrows(s) /\ s.run.x # "none"
            BY <1>0, <1>3 DEF HandlerThrows, Core, RunSound
        <2> QED BY <1>0, <2>1, RunThrowsKeeps, StepMoves
    <1> QED BY <1>1, <1>2, <1>3

\* Whoever called onSessionClose goes on.
LEMMA CloseHandlerMoves ==
    ASSUME IInv, CloseHandlerReturns
    PROVE  Moves(s, s')
    <1>0. s \in Sessions /\ Good(s) /\ Core(s) /\ RunAnswered(s) /\ Complete(s, s.done)
        BY IInvSession
    <1> DEFINE p == [s EXCEPT !.closeRun = "none"]
    <1>1. /\ s' = AfterClose(p, s.closeRun)
          /\ s.closeRun \in {"closer", "open", "notice"}
        BY <1>0, FieldTypes DEF CloseHandlerReturns
    <1>2. /\ p \in Sessions /\ p.closeRun = "none"
          /\ p.ending = s.ending /\ p.silenced = s.silenced /\ p.closer = s.closer
          /\ p.closeHandled = s.closeHandled
          /\ SameWork(s, p) /\ SameSent(s, p) /\ SameTold(s, p)
        BY <1>0 DEF Sessions, SameWork, SameSent, SameTold
    <1> HIDE DEF p
    <1>3. Core(p)
        <2>1. Typed(p)
            BY <1>0, <1>2 DEF Core, Typed, SameSent
        <2>2. LogSound(p)
            BY <1>0, <1>2 DEF Core, LogSound, SameSent
        <2>3. EndsOnce(p)
            BY <1>0, <1>2 DEF Core, EndsOnce, SameSent, OutcomesInFlight, InFlight
        <2>4. RunSound(p)
            BY <1>0, <1>2 DEF Core, RunSound, SameWork
        <2>5. IdsSound(p)
            BY <1>0, <1>2 DEF Core, IdsSound, SameWork, SameSent, Queued
        <2>6. RecordSound(p.log, p.done, p.okay, p.recorded)
            BY <1>0, <1>2 DEF Core, SameSent, SameTold
        <2> QED BY <2>1, <2>2, <2>3, <2>4, <2>5, <2>6 DEF Core
    <1>4. Step(s, p) /\ Complete(p, p.done)
        <2>1. Silent(s, p)
            BY <1>2 DEF Silent, SameSent, SameTold
        <2>2. RunAnswered(p) /\ Complete(p, p.done)
            BY <1>0, <1>2 DEF RunAnswered, Complete, Excused, SameWork, SameSent, SameTold
        <2>3. \A x \in Exchanges : Accounted(s, x) => Accounted(p, x)
            BY <1>2 DEF Accounted, Queued, SameWork, SameSent
        <2> QED BY <1>2, <1>3, <2>1, <2>2, <2>3 DEF Step, Continues
    <1>5. CASE s.closeRun = "open"
        <2>1. s' = p
            BY <1>1, <1>5 DEF AfterClose
        <2> QED BY <1>0, <1>4, <2>1, StepMoves
    <1>6. CASE s.closeRun = "notice"
        <2>1. s' = Finish(p)
            BY <1>1, <1>6 DEF AfterClose
        <2>2. p.silenced
            BY <1>0, <1>2, <1>6 DEF Core, EndsOnce
        <2>3. /\ s' \in Sessions /\ s'.silenced
              /\ s'.ending = p.ending /\ s'.closer = p.closer
              /\ s'.closeRun = p.closeRun /\ s'.closeHandled = p.closeHandled
              /\ SameWork(p, s') /\ SameSent(p, s') /\ SameTold(p, s')
            BY <1>2, <2>1, FinishFields
        <2>4. SameEnds(p, s')
            BY <1>2, <2>2, <2>3, FieldTypes DEF SameEnds
        <2>5. Step(p, s')
            BY <1>2, <1>3, <2>3, <2>4, SameKeeps DEF Step
        <2> QED BY <1>0, <1>4, <2>5, StepsAdd, StepMoves
    <1>7. CASE s.closeRun = "closer"
        <2>1. s' = AfterClose(p, "closer")
            BY <1>1, <1>7
        <2>2. p.closer.phase = "handler" /\ OutcomesInFlight(p) = {}
            <3>1. s.closer.phase = "handler" /\ OutcomesInFlight(s) = {}
                BY <1>0, <1>7 DEF Core, EndsOnce
            <3> QED BY <1>2, <3>1 DEF OutcomesInFlight, InFlight, SameSent
        <2>3. p.ending
            BY <1>3, <2>2 DEF Core, EndsOnce, NoCloser
        <2>4. p.silenced \/ p.closer.kind = "fail" \/ Told(p)
            BY <1>4, <2>2 DEF Complete, Excused, Told
        <2>5. s' \in Sessions /\ Core(s') /\ Complete(s', s'.done) /\ s'.ending /\ Silent(p, s')
            BY <1>2, <1>3, <2>1, <2>2, <2>3, <2>4, AfterCloserKeeps
        <2>6. Step(p, s')
            BY <2>5, EndingIsGood DEF Step, Good
        <2> QED BY <1>0, <1>4, <2>6, StepsAdd, StepMoves
    <1> QED BY <1>1, <1>5, <1>6, <1>7

LEMMA ReceiveExchangeMoves ==
    ASSUME IInv, NEW x \in Exchanges, ReceiveExchange(x)
    PROVE  Moves(s, s') /\ Accounted(s', x)
    <1>1. s \in Sessions /\ Good(s) /\ Core(s)
        BY IInvSession
    <1>2. Step(s, s') /\ Accounted(s', x)
        BY <1>1, EnqueueKeeps DEF ReceiveExchange
    <1> QED BY <1>1, <1>2, StepMoves

LEMMA NextMoves ==
    ASSUME IInv, [Next]_vars
    PROVE  /\ Moves(s, s')
           /\ \/ accepted' = accepted
              \/ \E x \in Exchanges : Accounted(s', x) /\ accepted' \in {accepted, accepted \cup {x}}
    <1>1. CASE UNCHANGED vars
        <2>1. Moves(s, s)
            BY IInvSession DEF Moves, Quiet
        <2> QED BY <1>1, <2>1 DEF vars
    <1>2. CASE PublishSucceeds \/ PublishFails \/ PublishDropped
        <2>1. accepted' = accepted
            BY <1>2 DEF PublishSucceeds, PublishFails, PublishDropped
        <2> QED BY <1>2, <2>1, PublishingMoves
    <1>3. ASSUME NEW x \in Exchanges, ReceiveExchange(x)
          PROVE  /\ Moves(s, s')
                 /\ Accounted(s', x) /\ accepted' \in {accepted, accepted \cup {x}}
        <2>1. accepted' \in {accepted, accepted \cup {x}}
            BY <1>3 DEF ReceiveExchange
        <2> QED BY <1>3, <2>1, ReceiveExchangeMoves
    <1>4. CASE \/ \E x \in Exchanges : ReceiveCancel(x)
               \/ ReceiveClose
               \/ \E st \in TerminalStates : ReceiveNotice(st)
               \/ RouteCloses
        <2>1. accepted' = accepted
            BY <1>4 DEF ReceiveCancel, ReceiveClose, ReceiveNotice, RouteCloses
        <2> QED BY <1>4, <2>1, ReceiveMoves
    <1>5. CASE ProviderCloses \/ OpenReturns \/ OpenThrows \/ OpenTimesOut
        <2>1. accepted' = accepted
            BY <1>5 DEF ProviderCloses, OpenReturns, OpenThrows, OpenTimesOut
        <2> QED BY <1>5, <2>1, OpenMoves
    <1>6. CASE HandlerPublishes \/ (\E n \in 0..MaxArtifacts : HandlerReturns(n)) \/ HandlerThrows
        <2>1. accepted' = accepted
            BY <1>6 DEF HandlerPublishes, HandlerReturns, HandlerThrows
        <2> QED BY <1>6, <2>1, HandlerMoves
    <1>7. CASE CloseHandlerReturns
        <2>1. accepted' = accepted
            BY <1>7 DEF CloseHandlerReturns
        <2> QED BY <1>7, <2>1, CloseHandlerMoves
    <1> QED BY <1>1, <1>2, <1>3, <1>4, <1>5, <1>6, <1>7 DEF Next

-----------------------------------------------------------------------------
(* The beginning, and the theorems.                                          *)

LEMMA NewSessionFields ==
    /\ NewSession \in Sessions
    /\ ~NewSession.ending /\ ~NewSession.silenced /\ NewSession.closer = NoCloser
    /\ NewSession.closeRun = "none" /\ NewSession.run = NoRun
    /\ NewSession.queue = <<>> /\ NewSession.settledIds = <<>> /\ NewSession.log = <<>>
    /\ NewSession.done = 0 /\ NewSession.attempt = 0 /\ NewSession.recorded = <<>>
    <1> DEFINE run == NoRun
               closer == NoCloser
               new == [rstate |-> "open", open |-> "unopened", ready |-> FALSE, deferred |-> FALSE,
                       ending |-> FALSE, silenced |-> FALSE, closeHandled |-> FALSE, finished |-> FALSE,
                       queue |-> <<>>, settledIds |-> <<>>, run |-> run, closer |-> closer,
                       closeRun |-> "none", log |-> <<>>, done |-> 0, attempt |-> 0, okay |-> {},
                       recorded |-> <<>>]
    <1>1. NewSession = new
        BY DEF NewSession
    <1>2. run \in Runs /\ run = NoRun
        BY NoRunFields
    <1>3. closer \in Closers /\ closer = NoCloser
        BY DEF NoCloser, Closers
    <1> HIDE DEF run, closer
    <1>4. /\ <<>> \in Seq(Exchanges) /\ <<>> \in Seq(Messages) /\ <<>> \in Seq(Nat)
          /\ 0 \in Nat /\ 0 \in 0..2 /\ {} \in SUBSET Nat
        OBVIOUS
    <1>5. new \in Sessions
        BY <1>2, <1>3, <1>4 DEF Sessions, Runs, Closers
    <1>6. /\ ~new.ending /\ ~new.silenced /\ new.closer = closer
          /\ new.closeRun = "none" /\ new.run = run
          /\ new.queue = <<>> /\ new.settledIds = <<>> /\ new.log = <<>>
          /\ new.done = 0 /\ new.attempt = 0 /\ new.recorded = <<>>
        OBVIOUS
    <1> HIDE DEF new
    <1> QED BY <1>1, <1>2, <1>3, <1>5, <1>6

LEMMA NewSessionIsGood ==
    NewSession \in Sessions /\ Good(NewSession)
    <1> DEFINE p == NewSession
    <1>1. /\ p \in Sessions
          /\ ~p.ending /\ ~p.silenced /\ p.closer = NoCloser
          /\ p.closeRun = "none" /\ p.run = NoRun
          /\ p.queue = <<>> /\ p.settledIds = <<>> /\ p.log = <<>>
          /\ p.done = 0 /\ p.attempt = 0 /\ p.recorded = <<>>
        BY NewSessionFields
    <1> HIDE DEF p
    <1>2. Places(<<>>) = {} /\ Len(<<>>) = 0
        BY DEF Places
    <1>3. /\ NoCloser.phase = "none" /\ NoCloser.kind = "none"
          /\ ~NoRun.settled /\ NoRun.x = "none" /\ NoRun.stage = "none"
        BY NoRunFields DEF NoCloser
    <1>4. Typed(p)
        BY <1>1, <1>2 DEF Typed
    <1>5. LogSound(p)
        BY <1>1, <1>2 DEF LogSound, Conforming, Named
    <1>6. EndsOnce(p)
        BY <1>1, <1>3 DEF EndsOnce
    <1>7. RunSound(p)
        BY <1>1, <1>3 DEF RunSound
    <1>8. IdsSound(p)
        <2>1. 0 <= MaxSettledIds
            BY Limits
        <2> QED BY <1>1, <1>2, <2>1 DEF IdsSound, Remembered
    <1>9. RecordSound(p.log, p.done, p.okay, p.recorded)
        BY <1>1, <1>2 DEF RecordSound
    <1>10. RunAnswered(p)
        BY <1>1, <1>3 DEF RunAnswered
    <1>11. Complete(p, p.done)
        BY <1>1 DEF Complete
    <1> QED BY <1>1, <1>4, <1>5, <1>6, <1>7, <1>8, <1>9, <1>10, <1>11 DEF Good, Core, p

LEMMA InitIInv ==
    ASSUME Init
    PROVE  IInv
    <1>0. NewSession \in Sessions /\ Good(NewSession)
        BY NewSessionIsGood
    <1>1. CASE s = Fail(NewSession) /\ accepted = {}
        <2>1. Step(NewSession, s)
            BY <1>0, <1>1, FailKeeps DEF Good
        <2>2. Good(s)
            BY <1>0, <2>1, StepMoves DEF Moves
        <2> QED BY <1>1, <2>2 DEF IInv
    <1> DEFINE ready == [NewSession EXCEPT !.rstate = "ready"]
               opened == [ready EXCEPT !.open = "handler"]
    <1>2. opened = [NewSession EXCEPT !.rstate = "ready", !.open = "handler"]
        BY <1>0 DEF Sessions
    <1>3. ready \in Sessions /\ Good(ready)
        BY <1>0, RstateKeeps
    <1> HIDE DEF ready
    <1>4. opened \in Sessions /\ Good(opened)
        BY <1>3, OpenKeeps
    <1> HIDE DEF opened
    <1>5. CASE s = opened /\ accepted = {}
        BY <1>4, <1>5 DEF IInv
    <1>6. ASSUME NEW x \in Exchanges, s = Enqueue(opened, x), accepted = {x}
          PROVE  IInv
        <2>1. Step(opened, s) /\ Accounted(s, x)
            BY <1>4, <1>6, EnqueueKeeps DEF Good
        <2>2. Good(s)
            BY <1>4, <2>1, StepMoves DEF Moves
        <2> QED BY <1>6, <2>1, <2>2 DEF IInv
    <1> QED BY <1>1, <1>2, <1>5, <1>6 DEF Init

LEMMA NextKeepsIInv ==
    ASSUME IInv, [Next]_vars
    PROVE  IInv'
    <1>1. /\ Moves(s, s')
          /\ \/ accepted' = accepted
             \/ \E x \in Exchanges : Accounted(s', x) /\ accepted' \in {accepted, accepted \cup {x}}
        BY NextMoves
    <1>2. \A x \in accepted : x \in Exchanges /\ Accounted(s', x)
        BY <1>1 DEF IInv, Moves
    <1>3. accepted' \subseteq Exchanges /\ \A x \in accepted' : Accounted(s', x)
        BY <1>1, <1>2
    <1>4. Good(s')
        BY <1>1 DEF Moves
    <1> QED BY <1>3, <1>4 DEF IInv

LEMMA IInvAlways == Spec => []IInv
    <1>1. Init => IInv
        BY InitIInv
    <1>2. IInv /\ [Next]_vars => IInv'
        BY NextKeepsIInv
    <1> QED BY <1>1, <1>2, PTL DEF Spec

LEMMA IInvTellsTrue ==
    ASSUME IInv
    PROVE  ToldTrue
    <1>0. s \in Sessions /\ Core(s)
        BY IInvSession
    <1>1. TypeOK
        <2>1. s.done \in Nat /\ s.attempt \in 0..2
            BY <1>0, FieldTypes
        <2>2. s.attempt > 0 => ~Settled(s)
            BY <1>0, <2>1 DEF Core, Typed, Settled
        <2> QED BY <1>0, <2>2 DEF TypeOK, IInv, Core, Typed
    <1>2. ConformingLog
        <2> SUFFICES ASSUME NEW i \in Indices, NEW j \in Indices, i < j
                     PROVE  /\ ~IsTerminal(i)
                            /\ IsOutcome(i) /\ s.log[j].x = s.log[i].x
                               => Cardinality({k \in (i + 1)..j : IsOutcome(k) /\ s.log[k].x # s.log[i].x})
                                    >= MaxSettledIds
            BY DEF ConformingLog
        <2>1. {k \in (i + 1)..j : IsOutcome(k) /\ s.log[k].x # s.log[i].x} = Others(s.log, i, j)
            BY DEF Others, Outcome, IsOutcome
        <2>2. i \in Places(s.log) /\ j \in Places(s.log)
            BY DEF Places, Indices
        <2> QED BY <1>0, <2>1, <2>2
                DEF Core, LogSound, Conforming, Terminal, Outcome, IsTerminal, IsOutcome
    <1>3. RecordFollowsChannel
        <2>1. RecordSound(s.log, s.done, s.okay, s.recorded)
            BY <1>0 DEF Core
        <2>2. \A a, b \in 1..Len(s.recorded) : a < b => s.recorded[a] < s.recorded[b]
            BY <2>1 DEF RecordSound, Places
        <2>3. \A a \in 1..Len(s.recorded) : s.recorded[a] \in s.okay \/ IsTerminal(s.recorded[a])
            BY <2>1 DEF RecordSound, Places, Terminal, IsTerminal
        <2>4. \A a \in 1..Len(s.recorded) : s.log[s.recorded[a]].kind = "closed" =>
                \A i \in Indices : IsOutcome(i) => \E b \in 1..a : s.recorded[b] = i
            BY <2>1 DEF RecordSound, Places, Indices, IsOutcome, Outcome, Recorded
        <2> QED BY <2>2, <2>3, <2>4 DEF RecordFollowsChannel
    <1>4. NoExchangeDropped
        BY DEF NoExchangeDropped, IInv, Accounted, Answered, Places, Indices, IsOutcome, Outcome
    <1> QED BY <1>1, <1>2, <1>3, <1>4 DEF ToldTrue

\* What a provider's session publishes and records is true and complete: nothing
\* follows the terminal message, nothing of an exchange follows its outcome unless as
\* many others have settled as the session remembers, the record has what was
\* delivered, in order, with every outcome before a close, and an exchange taken in is
\* queued, running or answered until the session ends.
THEOREM ToldIsTrue == Spec => []ToldTrue
    <1>1. IInv => ToldTrue
        BY IInvTellsTrue
    <1> QED BY <1>1, IInvAlways, PTL

\* Once a notice or the end of the route has silenced a session, no step of it starts a
\* publish or another attempt at one, or records anything.
THEOREM SilentOnceSilenced == Spec => SilencedIsSilent
    <1>1. IInv /\ [Next]_vars =>
            [s.silenced => /\ s'.log = s.log
                           /\ s'.attempt \in {0, s.attempt}
                           /\ s'.attempt # 0 => s'.done = s.done
                           /\ s'.recorded = s.recorded]_vars
        <2> SUFFICES ASSUME IInv, [Next]_vars, s.silenced
                     PROVE  /\ s'.log = s.log
                            /\ s'.attempt \in {0, s.attempt}
                            /\ s'.attempt # 0 => s'.done = s.done
                            /\ s'.recorded = s.recorded
            OBVIOUS
        <2>1. Quiet(s, s')
            BY NextMoves DEF Moves
        <2> QED BY <2>1 DEF Quiet
    <1> QED BY <1>1, IInvAlways, PTL DEF Spec, SilencedIsSilent

=============================================================================
