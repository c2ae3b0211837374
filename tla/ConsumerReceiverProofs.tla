---------------------- MODULE ConsumerReceiverProofs ----------------------
(***************************************************************************)
(* The properties of ConsumerReceiver, for every set of exchanges, every   *)
(* conforming log and every number of recoveries: the refinements of the   *)
(* session's contract and of the receive queue, what a recovery gives up,  *)
(* which end wins and what a settled exchange keeps.  They follow from one *)
(* inductive invariant, IInv.                                              *)
(***************************************************************************)
EXTENDS ConsumerReceiver, SequenceTheorems, TLAPS

\* The recovery ends the session whatever else it finds, or the session has ended:
\* from here on gaps are skipped that nobody tried to fill.
Ending ==
    \/ Terminal(rx)
    \/ Finishing /\ (deferred # "none" \/ SnapshotEnds(snap) \/ localEnd # "none")

\* Every unsettled exchange keeps what has been delivered for it, and what waits for
\* its held messages is unsettled; S is what has been delivered.
Good(r, S) ==
    /\ r \in ReceiverStates
    /\ r.later \subseteq r.unsettled
    /\ Terminal(r) => r.unsettled = {}
    /\ \A x \in r.unsettled : ArtifactsOf(x, S) \subseteq r.arts[x]

\* Exchanges are tracked before any of their messages are published, and what has
\* arrived, or is behind a gap when its timer fires, has been published.
OnlyPublished ==
    /\ rx.unsettled \subseteq tracked
    /\ \A s \in Seqs : s <= sent => log[s].x \in tracked \cup {"none"}
    /\ \A s \in held \cup delivered \cup todo : s <= sent
    /\ \A i \in 1..Len(gapRuns) : gapRuns[i] <= sent

\* The replay point, and what is still to become one, lie below the queue's window,
\* and what is held lies above it.
BehindWindow ==
    /\ replayPoint < next
    /\ stage = "history" => fetchFrom < next
    /\ loop.by = "accept" => noting < next
    /\ \A h \in held : h >= next

\* Which handlers and which parts of a recovery exclude each other.
OneAtATime ==
    /\ disposed <=> Terminal(rx)
    /\ disposed => held = {}
    /\ stage # "none" => chain # <<>>
    /\ gapDone => stage \in {"none", "history"}
    /\ stage \in {"deferred", "state", "localEnd"} => Idle
    /\ todo # {} => stage = "replay"
    /\ loop.cutoff # 0 => stage \in {"none", "history", "skip"}

\* Of the queue's recoveries only the first is in the session's chain, or has just
\* been served by it.
GapRunsAreChained ==
    /\ gapRuns = <<>> => ~gapDone
    /\ \A i \in 1..Len(chain) : chain[i] = "gap" =>
         /\ gapRuns # <<>> /\ ~gapDone
         /\ \A j \in 1..Len(chain) : chain[j] = "gap" => i = j

\* As the recovery winds down the session has ended if an earlier step was to end it.
EndsInTurn ==
    /\ stage \in {"state", "localEnd"} /\ deferred # "none" => Terminal(rx)
    /\ stage = "localEnd" /\ SnapshotEnds(snap) => Terminal(rx)
    /\ localEnd # "none" => Finishing \/ Terminal(rx)

\* Every seq is delivered, held, still to be replayed, or known to be missing.
Known == delivered \cup missed \cup held \cup todo

Covered(n) == \A s \in Seqs : s <= n => s \in Known

\* Until the session is to end, what a release loop may skip is known: everything below
\* the window, and everything up to a cutoff once the history has answered.
SkipsTheMissed ==
    /\ \A s \in Seqs : s < next => s \in delivered \cup missed
    /\ Covered(loop.cutoff)
    /\ stage = "history" => cutoff <= sentThen
    /\ stage \in {"replay", "snapshot", "skip"} => Covered(cutoff)
    /\ \A h \in replayed \cup todo : Covered(h)
    /\ gapDone => Covered(Head(gapRuns))
    /\ stage # "none" /\ Head(chain) = "gap" =>
         IF stage = "history" THEN Head(gapRuns) <= sentThen ELSE Covered(Head(gapRuns))

IInv ==
    /\ TypeOK
    /\ Good(rx, delivered)
    /\ OnlyPublished
    /\ BehindWindow
    /\ OneAtATime
    /\ GapRunsAreChained
    /\ EndsInTurn
    /\ ~Ending => SkipsTheMissed
-----------------------------------------------------------------------------
(* The receiver's data: what the functions of `rx` do.                       *)

Outcomes ==
    [st : OutcomeStates, arts : SUBSET Seqs, by : {"message", "record", "end", "unsent"}]
    \cup {NoOutcome}

\* The receiver only settles what is unsettled, and with every artifact in S.
Moves(r, q, S) ==
    /\ q.unsettled \subseteq r.unsettled
    /\ Terminal(r) => q = r
    /\ \A x \in Exchanges :
         \/ q.outcome[x] = r.outcome[x]
         \/ ArtifactsOf(x, S) \subseteq q.outcome[x].arts

\* The fields of a receiver's state, and a state built from its fields.
LEMMA ReceiverFields ==
  ASSUME NEW r \in ReceiverStates
  PROVE  /\ r.state \in States /\ r.unsettled \subseteq Exchanges /\ r.later \subseteq Exchanges
         /\ r.arts \in [Exchanges -> SUBSET Seqs]
         /\ r.outcome \in [Exchanges -> Outcomes]
         /\ r = [state |-> r.state, unsettled |-> r.unsettled, later |-> r.later,
                 arts |-> r.arts, outcome |-> r.outcome]
  BY DEF ReceiverStates, Outcomes

LEMMA ReceiverOf ==
  ASSUME NEW st \in States, NEW u \in SUBSET Exchanges, NEW l \in SUBSET Exchanges,
         NEW a \in [Exchanges -> SUBSET Seqs], NEW o \in [Exchanges -> Outcomes]
  PROVE  [state |-> st, unsettled |-> u, later |-> l, arts |-> a, outcome |-> o] \in ReceiverStates
  BY DEF ReceiverStates, Outcomes

\* The messages of a log.
LEMMA MessageTypes ==
  ASSUME TypeOK, NEW s \in Seqs
  PROVE  /\ log[s].kind \in {"ready", "closed", "failed", "progress", "file", "inline", "outcome"}
         /\ log[s].kind \in {"ready", "closed", "failed"} => log[s].x = "none"
         /\ log[s].kind \in {"progress", "file", "inline", "outcome"} => log[s].x \in Exchanges
         /\ log[s].kind = "outcome" => log[s].st \in OutcomeStates
<1>1. log[s] \in Messages
  BY LogsAssumption DEF TypeOK
<1> QED
  BY <1>1 DEF Messages

\* What the record holds has the types of an outcome.
LEMMA RecordTypes ==
  ASSUME TypeOK, NEW x \in Exchanges
  PROVE  RecordedOutcome(x) \in OutcomeStates /\ RecordedRefs(x) \in SUBSET Seqs
<1> DEFINE found == {s \in Seqs : log[s].kind = "outcome" /\ log[s].x = x}
<1>1. CASE found = {}
  BY <1>1 DEF RecordedOutcome, RecordedRefs, OutcomeStates
<1>2. CASE found # {}
  <2>1. (CHOOSE s \in found : TRUE) \in found
    BY <1>2
  <2>2. PICK s \in Seqs : s = (CHOOSE i \in found : TRUE) /\ log[s].kind = "outcome"
    BY <2>1
  <2>3. log[s].st \in OutcomeStates
    BY <2>2, MessageTypes
  <2> QED
    BY <1>2, <2>2, <2>3 DEF RecordedOutcome, RecordedRefs
<1> QED
  BY <1>1, <1>2

LEMMA ArtifactsTypes ==
  ASSUME NEW x, NEW S \in SUBSET Seqs
  PROVE  ArtifactsOf(x, S) \in SUBSET Seqs
  BY DEF ArtifactsOf

\* settle changes the one exchange.
LEMMA SettleFields ==
  ASSUME NEW r \in ReceiverStates, NEW x \in Exchanges, NEW st \in OutcomeStates,
         NEW arts \in SUBSET Seqs, NEW by \in {"message", "record", "end", "unsent"},
         NEW q, q = Settle(r, x, st, arts, by)
  PROVE  /\ q \in ReceiverStates
         /\ q.state = r.state /\ q.arts = r.arts
         /\ q.unsettled = r.unsettled \ {x} /\ q.later = r.later \ {x}
         /\ q.outcome[x].arts = arts
         /\ \A y \in Exchanges \ {x} : q.outcome[y] = r.outcome[y]
<1> DEFINE new == [st |-> st, arts |-> arts, by |-> by]
<1>1. new \in Outcomes
  BY DEF Outcomes
<1>2. PICK o : o = [r.outcome EXCEPT ![x] = new]
  OBVIOUS
<1> HIDE DEF new
<1>3. /\ o \in [Exchanges -> Outcomes] /\ o[x] = new
      /\ \A y \in Exchanges \ {x} : o[y] = r.outcome[y]
  BY <1>1, <1>2, ReceiverFields
<1>4. Settle(r, x, st, arts, by) =
        [state |-> r.state, unsettled |-> r.unsettled \ {x}, later |-> r.later \ {x},
         arts |-> r.arts, outcome |-> o]
  <2>1. r = [state |-> r.state, unsettled |-> r.unsettled, later |-> r.later,
             arts |-> r.arts, outcome |-> r.outcome]
    BY ReceiverFields
  <2>2. Settle(r, x, st, arts, by) =
          [[[r EXCEPT !.unsettled = r.unsettled \ {x}] EXCEPT !.later = r.later \ {x}]
             EXCEPT !.outcome = o]
    BY <1>2, <2>1 DEF Settle, new
  <2> QED
    BY ONLY <2>1, <2>2
<1>5. Settle(r, x, st, arts, by) \in ReceiverStates
  <2>1. /\ r.state \in States /\ r.unsettled \ {x} \in SUBSET Exchanges
        /\ r.later \ {x} \in SUBSET Exchanges /\ r.arts \in [Exchanges -> SUBSET Seqs]
    BY ReceiverFields
  <2> QED
    BY ONLY <1>3, <1>4, <2>1, ReceiverOf
<1> HIDE DEF Settle
<1> QED
  BY <1>3, <1>4, <1>5 DEF new

\* Settling an unsettled exchange with all of its artifacts.
LEMMA SettleKeeps ==
  ASSUME NEW r, NEW S, NEW T, Good(r, S), ~Terminal(r),
         NEW x \in r.unsettled, NEW st \in OutcomeStates, NEW arts \in SUBSET Seqs,
         NEW by \in {"message", "record", "end", "unsent"}, ArtifactsOf(x, T) \subseteq arts,
         NEW q, q = Settle(r, x, st, arts, by)
  PROVE  Good(q, S) /\ Moves(r, q, T) /\ q.state = r.state /\ x \notin q.later
<1>1. r \in ReceiverStates /\ x \in Exchanges
  BY ReceiverFields DEF Good
<1>3. /\ q \in ReceiverStates
      /\ q.state = r.state /\ q.arts = r.arts
      /\ q.unsettled = r.unsettled \ {x} /\ q.later = r.later \ {x}
      /\ q.outcome[x].arts = arts
      /\ \A y \in Exchanges \ {x} : q.outcome[y] = r.outcome[y]
  BY <1>1, SettleFields
<1>4. Good(q, S)
  BY <1>3 DEF Good, Terminal
<1>5. Moves(r, q, T)
  BY <1>3 DEF Moves
<1> QED
  BY <1>3, <1>4, <1>5

LEMMA StayingMoves ==
  ASSUME NEW r, NEW T
  PROVE  Moves(r, r, T)
  BY DEF Moves

\* An ended receiver is good whatever comes.
LEMMA EndedIsGood ==
  ASSUME NEW r, NEW S, NEW T, Good(r, S), Terminal(r)
  PROVE  Good(r, T)
  BY DEF Good

LEMMA ArtifactsJoin ==
  ASSUME NEW x, NEW S, NEW T
  PROVE  ArtifactsOf(x, S \cup T) = ArtifactsOf(x, S) \cup ArtifactsOf(x, T)
  BY DEF ArtifactsOf

\* Two moves in a row are a move.
LEMMA MovesOn ==
  ASSUME NEW r, NEW a, NEW q, NEW T, Moves(r, a, T), Moves(a, q, T)
  PROVE  Moves(r, q, T)
  BY DEF Moves

\* end settles everything, also with what is held.
LEMMA EndKeeps ==
  ASSUME TypeOK, NEW r, NEW S \in SUBSET Seqs, Good(r, S), NEW st \in TerminalStates,
         NEW behind \in SUBSET Seqs, NEW q, q = End(r, st, behind)
  PROVE  /\ \A T : Good(q, T)
         /\ Moves(r, q, S \cup behind)
         /\ Terminal(q) /\ (~Terminal(r) => q.state = st)
<1>1. CASE Terminal(r)
  BY <1>1, EndedIsGood, StayingMoves DEF End
<1>2. CASE ~Terminal(r)
  <2> DEFINE kept == [x \in Exchanges |-> r.arts[x] \cup
                        (IF x \in r.unsettled THEN ArtifactsOf(x, behind) ELSE {})]
             mine(x) ==
               IF x \in r.later
               THEN [st |-> RecordedOutcome(x), arts |-> kept[x] \cup RecordedRefs(x), by |-> "record"]
               ELSE [st |-> IF st = "failed" THEN "failed" ELSE "canceled", arts |-> kept[x], by |-> "end"]
             settled == [x \in Exchanges |-> IF x \in r.unsettled THEN mine(x) ELSE r.outcome[x]]
  <2>1. r \in ReceiverStates
    BY DEF Good
  <2>2. \A x \in Exchanges : r.arts[x] \in SUBSET Seqs /\ r.outcome[x] \in Outcomes
    BY <2>1, ReceiverFields
  <2>3. \A x \in Exchanges :
          /\ kept[x] \in SUBSET Seqs
          /\ x \in r.unsettled => ArtifactsOf(x, S \cup behind) \subseteq kept[x]
    BY <2>2, ArtifactsTypes, ArtifactsJoin DEF Good
  <2>4. kept \in [Exchanges -> SUBSET Seqs]
    BY <2>3
  <2> HIDE DEF kept
  <2>5. \A x \in Exchanges : mine(x) \in Outcomes /\ kept[x] \subseteq mine(x).arts
    BY <2>3, RecordTypes DEF Outcomes, OutcomeStates
  <2> HIDE DEF mine
  <2>6. settled \in [Exchanges -> Outcomes]
    BY <2>2, <2>5
  <2>7. \A x \in Exchanges : settled[x] = IF x \in r.unsettled THEN mine(x) ELSE r.outcome[x]
    OBVIOUS
  <2>8. q = [state |-> st, unsettled |-> {}, later |-> {}, arts |-> kept, outcome |-> settled]
    <3>1. q = [r EXCEPT !.state = st, !.arts = kept, !.unsettled = {}, !.later = {},
                        !.outcome = settled]
      BY <1>2 DEF End, kept, mine
    <3> HIDE DEF settled
    <3>2. r = [state |-> r.state, unsettled |-> r.unsettled, later |-> r.later,
               arts |-> r.arts, outcome |-> r.outcome]
      BY <2>1, ReceiverFields
    <3> QED
      BY ONLY <3>1, <3>2
  <2> HIDE DEF settled
  <2>9. q \in ReceiverStates
    BY <2>4, <2>6, <2>8, ReceiverOf DEF States
  <2>10. Terminal(q) /\ q.state = st /\ q.unsettled = {} /\ q.later = {}
    BY <2>8 DEF Terminal
  <2>11. \A T : Good(q, T)
    BY <2>9, <2>10 DEF Good
  <2>12. Moves(r, q, S \cup behind)
    <3>1. ASSUME NEW x \in Exchanges
          PROVE  q.outcome[x] = r.outcome[x] \/ ArtifactsOf(x, S \cup behind) \subseteq q.outcome[x].arts
      <4>1. q.outcome = settled
        BY <2>8
      <4>2. CASE x \in r.unsettled
        <5>1. q.outcome[x] = mine(x)
          BY <2>7, <4>1, <4>2
        <5> QED
          BY <2>3, <2>5, <4>2, <5>1
      <4>3. CASE x \notin r.unsettled
        BY <2>7, <4>1, <4>3
      <4> QED
        BY <4>2, <4>3
    <3> QED
      BY <1>2, <2>10, <3>1 DEF Moves
  <2> QED
    BY <2>10, <2>11, <2>12
<1> QED
  BY <1>1, <1>2

\* The recorded outcomes apply to exchanges of which nothing is held.
LEMMA ApplyRecordedOutcomesKeeps ==
  ASSUME TypeOK, NEW r, NEW S \in SUBSET Seqs, Good(r, S), NEW recorded \in SUBSET Exchanges,
         NEW behind \in SUBSET Seqs, NEW q, q = ApplyRecordedOutcomes(r, recorded, behind)
  PROVE  Good(q, S) /\ Moves(r, q, S \cup behind) /\ q.state = r.state
<1> DEFINE mine == recorded \cap r.unsettled
           waiting == {x \in mine : \E h \in behind : log[h].x = x}
           now == mine \ waiting
           of(x) == [st |-> RecordedOutcome(x), arts |-> r.arts[x] \cup RecordedRefs(x),
                     by |-> "record"]
           settled == [x \in Exchanges |-> IF x \in now THEN of(x) ELSE r.outcome[x]]
<1>1. r \in ReceiverStates
  BY DEF Good
<1>2. /\ \A x \in Exchanges : r.arts[x] \in SUBSET Seqs /\ r.outcome[x] \in Outcomes
      /\ r.unsettled \subseteq Exchanges /\ r.state \in States
      /\ r.arts \in [Exchanges -> SUBSET Seqs] /\ r.outcome \in [Exchanges -> Outcomes]
  BY <1>1, ReceiverFields
<1>3. /\ now \subseteq r.unsettled /\ waiting \subseteq r.unsettled \ now
      /\ \A x \in now : ArtifactsOf(x, behind) = {}
  BY DEF ArtifactsOf
<1>4. q = [r EXCEPT !.unsettled = @ \ now, !.later = (@ \cup waiting) \ now, !.outcome = settled]
  BY DEF ApplyRecordedOutcomes
<1> HIDE DEF waiting, now
<1>5. \A x \in Exchanges : of(x) \in Outcomes /\ of(x).arts = r.arts[x] \cup RecordedRefs(x)
  BY <1>2, RecordTypes DEF Outcomes
<1> HIDE DEF of
<1>6. /\ settled \in [Exchanges -> Outcomes]
      /\ \A x \in Exchanges : settled[x] = IF x \in now THEN of(x) ELSE r.outcome[x]
  BY <1>2, <1>5
<1>7. now = {} => settled = r.outcome
  BY <1>2
<1> HIDE DEF settled
<1>8. q = [state |-> r.state, unsettled |-> r.unsettled \ now, later |-> (r.later \cup waiting) \ now,
           arts |-> r.arts, outcome |-> settled]
  <2>1. r = [state |-> r.state, unsettled |-> r.unsettled, later |-> r.later,
             arts |-> r.arts, outcome |-> r.outcome]
    BY <1>1, ReceiverFields
  <2> QED
    BY ONLY <2>1, <1>4
<1>9. r.later \subseteq r.unsettled /\ (r.unsettled \ now) \in SUBSET Exchanges
      /\ ((r.later \cup waiting) \ now) \in SUBSET Exchanges
  BY <1>2, <1>3 DEF Good
<1>10. q \in ReceiverStates
  <2>1. [state |-> r.state, unsettled |-> r.unsettled \ now, later |-> (r.later \cup waiting) \ now,
         arts |-> r.arts, outcome |-> settled] \in ReceiverStates
    BY ONLY <1>2, <1>6, <1>9, ReceiverOf
  <2> QED
    BY <1>8, <2>1
<1>11. /\ q.state = r.state /\ q.arts = r.arts /\ q.unsettled = r.unsettled \ now
       /\ q.later \subseteq q.unsettled
  BY <1>3, <1>8, <1>9
<1>12. Good(q, S)
  BY <1>10, <1>11 DEF Good, Terminal
<1>13. Moves(r, q, S \cup behind)
  <2>1. Terminal(r) => q = r
    <3> SUFFICES ASSUME Terminal(r) PROVE q = r
      OBVIOUS
    <3>1. r.unsettled = {} /\ r.later = {} /\ now = {} /\ waiting = {}
      BY <1>3 DEF Good
    <3>2. q = [state |-> r.state, unsettled |-> r.unsettled, later |-> r.later,
               arts |-> r.arts, outcome |-> r.outcome]
      BY <1>7, <1>8, <3>1
    <3> QED
      BY <1>1, <3>2, ReceiverFields
  <2>2. ASSUME NEW x \in Exchanges
        PROVE  q.outcome[x] = r.outcome[x] \/ ArtifactsOf(x, S \cup behind) \subseteq q.outcome[x].arts
    <3>1. CASE x \notin now
      BY <1>6, <1>8, <3>1
    <3>2. CASE x \in now
      <4>1. ArtifactsOf(x, S \cup behind) \subseteq r.arts[x]
        BY <1>3, <3>2, ArtifactsJoin DEF Good
      <4> QED
        <5>1. q.outcome = settled
          BY <1>8
        <5>2. q.outcome[x] = of(x)
          BY <1>6, <3>2, <5>1
        <5> QED
          BY <1>5, <4>1, <5>2
    <3> QED
      BY <3>1, <3>2
  <2> QED
    BY <1>11, <2>1, <2>2 DEF Moves
<1> QED
  BY <1>11, <1>12, <1>13

\* A message of the log kinds: what precedes an exchange's outcome.
LEMMA OutcomeIsLast ==
  ASSUME TypeOK, NEW s \in Seqs, NEW h \in Seqs, s < h, log[s].kind = "outcome"
  PROVE  log[h].x # log[s].x
  BY LogsAssumption DEF TypeOK, Conforms

\* apply does to the receiver what its kind of message may do.
LEMMA ApplyKeeps ==
  ASSUME TypeOK, NEW r, NEW S \in SUBSET Seqs, Good(r, S), ~Terminal(r), NEW s \in Seqs,
         NEW behind \in SUBSET Seqs, \A h \in behind : s < h,
         NEW q, q = Apply(r, s, behind)
  PROVE  /\ Good(q, S \cup {s})
         /\ Moves(r, q, S \cup {s} \cup behind)
         /\ Terminal(q) => log[s].kind \in TerminalKinds
<1>0. PICK e, U : e = log[s].x /\ U = S \cup {s} \cup behind
  OBVIOUS
<1> USE <1>0
<1>1. /\ r \in ReceiverStates /\ r.later \subseteq r.unsettled /\ r.unsettled \subseteq Exchanges
      /\ r.arts \in [Exchanges -> SUBSET Seqs]
  BY ReceiverFields DEF Good
<1>2. /\ log[s].kind \in {"ready", "closed", "failed", "progress", "file", "inline", "outcome"}
      /\ log[s].kind = "outcome" => log[s].st \in OutcomeStates
  BY MessageTypes
<1>3. ASSUME ~IsArtifact(s)
      PROVE  Good(r, S \cup {s})
  <2>1. \A y : ArtifactsOf(y, S \cup {s}) = ArtifactsOf(y, S)
    BY <1>3 DEF ArtifactsOf
  <2> QED
    BY <2>1 DEF Good
<1>4. CASE log[s].kind = "ready"
  <2>1. CASE r.state = "open"
    <3>1. q = [r EXCEPT !.state = "ready"]
      BY <1>4, <2>1 DEF Apply, TerminalKinds
    <3>2. /\ q \in ReceiverStates /\ q.unsettled = r.unsettled /\ q.later = r.later
          /\ q.arts = r.arts /\ q.outcome = r.outcome /\ q.state = "ready"
      BY <1>1, <3>1 DEF ReceiverStates, States
    <3>3. Good(r, S \cup {s})
      BY <1>3, <1>4 DEF IsArtifact
    <3>4. ~Terminal(q)
      BY <3>2 DEF Terminal, TerminalStates
    <3> QED
      BY <3>2, <3>3, <3>4 DEF Good, Moves
  <2>2. CASE r.state # "open"
    <3>1. q = r
      BY <1>4, <2>2 DEF Apply, TerminalKinds
    <3> QED
      BY <1>3, <1>4, <3>1, StayingMoves DEF IsArtifact
  <2> QED
    BY <2>1, <2>2
<1>5. CASE log[s].kind = "progress"
  <2>1. q = r
    BY <1>5 DEF Apply, TerminalKinds
  <2> QED
    BY <1>3, <1>5, <2>1, StayingMoves DEF IsArtifact
<1>6. CASE log[s].kind \in {"file", "inline"}
  <2>1. q = TakeArtifact(r, s)
    BY <1>6 DEF Apply, TerminalKinds
  <2>2. CASE e \notin r.unsettled
    <3>1. \A y \in r.unsettled : ArtifactsOf(y, S \cup {s}) = ArtifactsOf(y, S)
      BY <2>2 DEF ArtifactsOf
    <3>2. Good(r, S \cup {s})
      BY <3>1 DEF Good
    <3>3. q = r
      BY <2>1, <2>2 DEF TakeArtifact
    <3> QED
      BY <3>2, <3>3, StayingMoves
  <2>3. CASE e \in r.unsettled
    <3>1. PICK a : a = [r.arts EXCEPT ![e] = r.arts[e] \cup {s}]
      OBVIOUS
    <3>2. /\ a \in [Exchanges -> SUBSET Seqs] /\ a[e] = r.arts[e] \cup {s}
          /\ \A y \in Exchanges \ {e} : a[y] = r.arts[y]
      BY <1>1, <2>3, <3>1
    <3>3. q = [r EXCEPT !.arts = a]
      BY <1>1, <2>1, <2>3, <3>1 DEF TakeArtifact
    <3>4. /\ q \in ReceiverStates /\ q.unsettled = r.unsettled /\ q.later = r.later
          /\ q.arts = a /\ q.outcome = r.outcome /\ q.state = r.state
      BY <1>1, <3>2, <3>3 DEF ReceiverStates
    <3>5. \A y \in r.unsettled : ArtifactsOf(y, S \cup {s}) \subseteq a[y]
      BY <1>1, <2>3, <3>2 DEF ArtifactsOf, Good
    <3> QED
      BY <3>4, <3>5 DEF Good, Moves, Terminal
  <2> QED
    BY <2>2, <2>3
<1>7. CASE log[s].kind = "outcome"
  <2>1. q = TakeOutcome(r, s)
    BY <1>7 DEF Apply, TerminalKinds
  <2>2. Good(r, S \cup {s})
    BY <1>3, <1>7 DEF IsArtifact
  <2>3. CASE e \notin r.unsettled
    <3>1. q = r
      BY <2>1, <2>3 DEF TakeOutcome
    <3> QED
      BY <2>2, <3>1, StayingMoves
  <2>4. CASE e \in r.unsettled
    <3>1. PICK arts : arts = r.arts[e] \cup
            (IF e \in r.later \/ (stage = "skip" /\ e \in snap.exchanges) THEN RecordedRefs(e) ELSE {})
      OBVIOUS
    <3>2. q = Settle(r, e, log[s].st, arts, "message")
      BY <2>1, <2>4, <3>1 DEF TakeOutcome
    <3>3. arts \in SUBSET Seqs /\ r.arts[e] \subseteq arts
      BY <1>1, <2>4, <3>1, RecordTypes
    <3>4. ArtifactsOf(e, U) \subseteq r.arts[e]
      <4>1. ArtifactsOf(e, behind) = {}
        BY <1>7, OutcomeIsLast DEF ArtifactsOf
      <4>2. ArtifactsOf(e, S \cup {s}) \subseteq r.arts[e]
        BY <2>2, <2>4 DEF Good
      <4> QED
        BY <4>1, <4>2, ArtifactsJoin
    <3>5. Good(q, S \cup {s}) /\ Moves(r, q, U) /\ q.state = r.state
      <4>1. log[s].st \in OutcomeStates /\ ArtifactsOf(e, U) \subseteq arts
        BY <1>2, <1>7, <3>3, <3>4
      <4>2. PICK st \in OutcomeStates : st = log[s].st
        BY <4>1
      <4>3. PICK by \in {"message", "record", "end", "unsent"} : by = "message"
        OBVIOUS
      <4>4. q = Settle(r, e, st, arts, by)
        BY <3>2, <4>2, <4>3
      <4>5. ~Terminal(r)
        OBVIOUS
      <4> QED
        <5>1. Good(q, S \cup {s})
          BY ONLY <2>2, <2>4, <3>3, <4>1, <4>4, <4>5, SettleKeeps
        <5>2. Moves(r, q, U)
          BY ONLY <2>2, <2>4, <3>3, <4>1, <4>4, <4>5, SettleKeeps
        <5>3. q.state = r.state
          BY <1>1, <2>4, <3>3, <4>4, SettleFields
        <5> QED
          BY <5>1, <5>2, <5>3
    <3> QED
      BY <3>5 DEF Terminal
  <2> QED
    BY <2>3, <2>4
<1>8. CASE log[s].kind \in TerminalKinds
  <2>1. q = End(r, log[s].kind, behind) /\ log[s].kind \in TerminalStates
    BY <1>8 DEF Apply, TerminalKinds, TerminalStates
  <2>2. \A y : ArtifactsOf(y, U) = ArtifactsOf(y, S \cup behind)
    BY <1>8 DEF ArtifactsOf, IsArtifact, TerminalKinds
  <2>3. Good(q, S \cup {s}) /\ Moves(r, q, S \cup behind)
    BY <2>1, EndKeeps
  <2> QED
    BY <1>8, <2>2, <2>3 DEF Moves
<1> QED
  BY <1>2, <1>4, <1>5, <1>6, <1>7, <1>8 DEF TerminalKinds

\* dispatch: an ended receiver and a deferred end change nothing; otherwise the message
\* applies, and an outcome that waited for it may too.
LEMMA DispatchKeeps ==
  ASSUME TypeOK, NEW r, NEW S \in SUBSET Seqs, Good(r, S), NEW s \in Seqs,
         NEW behind \in SUBSET Seqs, \A h \in behind : s < h,
         NEW q, q = Dispatch(r, s, behind)
  PROVE  /\ Good(q, S \cup {s})
         /\ Moves(r, q, S \cup {s} \cup behind)
         /\ Terminal(q) => Terminal(r) \/ (log[s].kind \in TerminalKinds /\ ~RecoveryOpen)
<1>0. PICK e, U : e = log[s].x /\ U = S \cup {s} \cup behind
  OBVIOUS
<1> USE <1>0
<1>1. CASE Terminal(r)
  BY <1>1, EndedIsGood, StayingMoves DEF Dispatch
<1>2. CASE ~Terminal(r) /\ Defers(s)
  <2>1. q = r /\ \A y : ArtifactsOf(y, S \cup {s}) = ArtifactsOf(y, S)
    BY <1>2 DEF Dispatch, Defers, ArtifactsOf, IsArtifact, TerminalKinds
  <2>2. Good(q, S \cup {s})
    BY <2>1 DEF Good
  <2> QED
    BY <1>2, <2>1, <2>2, StayingMoves
<1>3. CASE ~Terminal(r) /\ ~Defers(s)
  <2>1. PICK a : a = Apply(r, s, behind)
    OBVIOUS
  <2>2. q = SettleIfReleased(a, e, behind)
    BY <1>3, <2>1 DEF Dispatch
  <2>3. Good(a, S \cup {s}) /\ Moves(r, a, U) /\ (Terminal(a) => log[s].kind \in TerminalKinds)
    BY <1>3, <2>1, ApplyKeeps
  <2>4. Good(q, S \cup {s}) /\ Moves(a, q, U) /\ q.state = a.state
    <3>1. CASE ~(e \in a.later /\ (\A h \in behind : log[h].x # e) /\ e \in a.unsettled)
      <4>1. q = a
        BY <2>2, <3>1 DEF SettleIfReleased
      <4> QED
        BY <2>3, <4>1, StayingMoves
    <3>2. CASE e \in a.later /\ (\A h \in behind : log[h].x # e) /\ e \in a.unsettled
      <4>1. PICK arts : arts = a.arts[e] \cup RecordedRefs(e)
        OBVIOUS
      <4>2. q = Settle(a, e, RecordedOutcome(e), arts, "record")
        BY <2>2, <3>2, <4>1 DEF SettleIfReleased, SettleFromRecord
      <4>3. a \in ReceiverStates /\ e \in Exchanges /\ ~Terminal(a)
        BY <2>3, <3>2, ReceiverFields DEF Good
      <4>4. RecordedOutcome(e) \in OutcomeStates /\ arts \in SUBSET Seqs
        BY <4>1, <4>3, RecordTypes, ReceiverFields
      <4>5. ArtifactsOf(e, U) \subseteq arts
        <5>1. ArtifactsOf(e, behind) = {}
          BY <3>2 DEF ArtifactsOf
        <5>2. ArtifactsOf(e, S \cup {s}) \subseteq arts
          BY <2>3, <3>2, <4>1 DEF Good
        <5> QED
          BY <5>1, <5>2, ArtifactsJoin
      <4>6. PICK st \in OutcomeStates : st = RecordedOutcome(e)
        BY <4>4
      <4>7. PICK by \in {"message", "record", "end", "unsent"} : by = "record"
        OBVIOUS
      <4>8. q = Settle(a, e, st, arts, by)
        BY <4>2, <4>6, <4>7
      <4> QED
        <5>1. Good(q, S \cup {s})
          BY ONLY <2>3, <3>2, <4>3, <4>4, <4>5, <4>8, SettleKeeps
        <5>2. Moves(a, q, U)
          BY ONLY <2>3, <3>2, <4>3, <4>4, <4>5, <4>8, SettleKeeps
        <5>3. q.state = a.state
          BY <4>3, <4>4, <4>8, SettleFields
        <5> QED
          BY <5>1, <5>2, <5>3
    <3> QED
      BY <3>1, <3>2
  <2>5. Moves(r, q, U)
    BY <2>3, <2>4, MovesOn
  <2> QED
    BY <1>3, <2>3, <2>4, <2>5 DEF Terminal, Defers
<1> QED
  BY <1>1, <1>2, <1>3

-----------------------------------------------------------------------------
(* Steps of the queue.                                                       *)

Loops == [by : Queue!Callers, cutoff : 0..MaxSeq, released : BOOLEAN]

\* What the queue's steps leave alone.
Steady ==
    UNCHANGED <<envVars, tracked, stage, cutoff, snap, localEnd, fetchFrom, sentThen,
                chain, gapDone, asked, missed>>

LEMMA NoLoopType ==
  /\ Queue!NoLoop \in Loops
  /\ Queue!NoLoop.by = "none" /\ Queue!NoLoop.cutoff = 0
  BY MaxSeqAssumption DEF Queue!NoLoop, Loops, Queue!Callers

LEMMA SeqsAreNat == \A s \in Seqs : s \in Nat /\ s >= 1 /\ s <= MaxSeq /\ s \in 0..MaxSeq
  BY MaxSeqAssumption DEF Seqs

\* The types of the queue, field by field.
LEMMA QueueTypes ==
  ASSUME TypeOK
  PROVE  /\ next \in Nat /\ next >= 1 /\ next <= MaxSeq + 1
         /\ held \subseteq Seqs /\ replayed \subseteq held /\ timer \in BOOLEAN
         /\ gapRuns \in Seq(Seqs) /\ disposed \in BOOLEAN /\ loop \in Loops
         /\ (loop.by = "none" => loop = Queue!NoLoop)
         /\ delivered \subseteq Seqs /\ out \in 0..MaxSeq
  BY MaxSeqAssumption DEF TypeOK, Queue!TypeOK, Queue!Seqs, Seqs, Loops

LEMMA QueueTypesNext ==
  ASSUME next' \in 1..(MaxSeq + 1), held' \subseteq Seqs, replayed' \subseteq held',
         timer' \in BOOLEAN, gapRuns' \in Seq(Seqs), disposed' \in BOOLEAN, loop' \in Loops,
         loop'.by = "none" => loop' = Queue!NoLoop, delivered' \subseteq Seqs, out' \in 0..MaxSeq
  PROVE  Queue!TypeOK'
  BY DEF Queue!TypeOK, Queue!Seqs, Seqs, Loops

\* What deliverSeq and the callback do together: the seq is delivered, and the queue is
\* disposed exactly if the receiver has ended.
LEMMA HandOver ==
  ASSUME IInv, NEW s \in Seqs, NEW rest, Queue!DeliverSeq(s, rest), DispatchOut, ~disposed,
         \A h \in held : s <= h
  PROVE  /\ next' = s + 1 /\ delivered' = delivered \cup {s} /\ out' = s /\ gapRuns' = gapRuns
         /\ Good(rx', delivered')
         /\ Moves(rx, rx', held \cup delivered \cup delivered')
         /\ Terminal(rx') => Terminal(rx) \/ ~RecoveryOpen
         /\ deferred' \in {"none"} \cup TerminalKinds
         /\ deferred # "none" => deferred' = deferred
         /\ disposed' = Terminal(rx')
         /\ timer' \in BOOLEAN
         /\ IF Terminal(rx') THEN held' = {} /\ replayed' = {} /\ loop' = Queue!NoLoop
            ELSE held' = held \ {s} /\ replayed' = replayed \ {s} /\ loop' = rest
<1>1. TypeOK /\ Good(rx, delivered)
  BY DEF IInv
<1>2. /\ held \subseteq Seqs /\ delivered \subseteq Seqs /\ timer \in BOOLEAN /\ s \in Nat /\ s # 0
      /\ deferred \in {"none"} \cup TerminalKinds
  BY <1>1, QueueTypes, SeqsAreNat DEF TypeOK
<1>3. /\ next' = s + 1 /\ delivered' = delivered \cup {s} /\ out' = s /\ gapRuns' = gapRuns
      /\ \/ /\ held' = held \ {s} /\ replayed' = replayed \ {s} /\ loop' = rest
            /\ timer' = timer /\ disposed' = disposed
         \/ /\ disposed' = TRUE /\ held' = {} /\ replayed' = {} /\ timer' = FALSE
            /\ loop' = Queue!NoLoop
  BY DEF Queue!DeliverSeq, Queue!DisposeQueue
<1>4. /\ rx' = Dispatch(rx, s, held \ {s})
      /\ deferred' = IF ~Terminal(rx) /\ Defers(s) /\ deferred = "none" THEN log[s].kind ELSE deferred
      /\ disposed' = Terminal(rx')
  BY <1>2, <1>3 DEF DispatchOut
<1>5. /\ deferred' \in {"none"} \cup TerminalKinds
      /\ deferred # "none" => deferred' = deferred
  BY <1>2, <1>4 DEF Defers
<1>6. /\ Good(rx', delivered \cup {s})
      /\ Moves(rx, rx', delivered \cup {s} \cup (held \ {s}))
      /\ Terminal(rx') => Terminal(rx) \/ ~RecoveryOpen
  <2>1. PICK behind \in SUBSET Seqs : behind = held \ {s}
    BY <1>2
  <2>2. \A h \in behind : s < h
    <3> SUFFICES ASSUME NEW h \in behind PROVE s < h
      OBVIOUS
    <3>1. s <= h /\ s # h /\ h \in Nat
      BY <1>2, <2>1, SeqsAreNat
    <3> QED
      BY <1>2, <3>1
  <2>3. PICK q : q = Dispatch(rx, s, behind)
    OBVIOUS
  <2>4. Good(q, delivered \cup {s})
    BY <1>1, <1>2, <2>2, <2>3, DispatchKeeps
  <2>5. Moves(rx, q, delivered \cup {s} \cup behind)
    BY <1>1, <1>2, <2>2, <2>3, DispatchKeeps
  <2>6. Terminal(q) => Terminal(rx) \/ ~RecoveryOpen
    BY <1>1, <1>2, <2>2, <2>3, DispatchKeeps
  <2>7. rx' = q
    BY <1>4, <2>1, <2>3
  <2> QED
    BY <2>1, <2>4, <2>5, <2>6, <2>7 DEF Good, Moves, Terminal
<1>7. Moves(rx, rx', held \cup delivered \cup delivered')
  <2>1. held \cup delivered \cup delivered' = delivered \cup {s} \cup (held \ {s})
    BY <1>3
  <2> QED
    BY <1>6, <2>1
<1>8. Good(rx', delivered')
  BY <1>3, <1>6
<1>9. IF Terminal(rx') THEN held' = {} /\ replayed' = {} /\ loop' = Queue!NoLoop
      ELSE held' = held \ {s} /\ replayed' = replayed \ {s} /\ loop' = rest
  BY <1>3, <1>4
<1> QED
  BY <1>2, <1>3, <1>4, <1>5, <1>6, <1>7, <1>8, <1>9

\* The parts of the type invariant beside the queue's.
SessionTypes ==
    /\ log \in Logs
    /\ sent \in 0..MaxSeq
    /\ rx \in ReceiverStates
    /\ tracked \subseteq Exchanges
    /\ stage \in {"none", "history", "replay", "snapshot", "skip", "deferred", "state", "localEnd"}
    /\ cutoff \in 0..MaxSeq
    /\ deferred \in {"none"} \cup TerminalKinds
    /\ snap \in [exchanges : SUBSET Exchanges, st : States \cup {"none"}]
    /\ localEnd \in {"none"} \cup TerminalStates
    /\ {replayPoint, noting, fetchFrom, sentThen} \subseteq 0..MaxSeq
    /\ todo \subseteq Seqs
    /\ chain \in Seq({"gap", "asked"})
    /\ gapDone \in BOOLEAN
    /\ asked \in 0..MaxAsked
    /\ missed \subseteq Seqs

LEMMA TypesAre == TypeOK <=> Queue!TypeOK /\ SessionTypes
  BY DEF TypeOK, SessionTypes

\* The log does not change, and what is good of the new state is so in it.
LEMMA GoodStays ==
  ASSUME Good(rx', delivered'), log' = log
  PROVE  Good(rx, delivered)'
  BY DEF Good, ArtifactsOf, IsArtifact, Terminal

\* Numbers.
LEMMA Numbers ==
  ASSUME TypeOK
  PROVE  /\ MaxSeq \in Nat /\ sent \in Nat /\ cutoff \in Nat /\ replayPoint \in Nat
         /\ noting \in Nat /\ fetchFrom \in Nat /\ sentThen \in Nat /\ next \in Nat
         /\ loop.cutoff \in Nat
<1>1. loop.cutoff \in 0..MaxSeq
  BY QueueTypes DEF Loops
<1> QED
  BY <1>1, QueueTypes, MaxSeqAssumption DEF TypeOK

\* Handing a message over keeps the invariant, whether or not it ends the session, if it
\* lies above the window and below all that is held, and what it skips is known to be missing.
LEMMA HandOverKeeps ==
  ASSUME IInv, NEW s \in Seqs, NEW rest \in Loops, Queue!DeliverSeq(s, rest), DispatchOut,
         Steady, ~disposed, s <= sent, \A h \in held : s <= h,
         stage \notin {"deferred", "state", "localEnd"},
         rest.by # "none", rest.by = "accept" => noting' <= s,
         rest.cutoff # 0 => rest.cutoff = loop.cutoff,
         todo' \subseteq todo, todo \subseteq todo' \cup {s},
         noting' \in 0..MaxSeq, replayPoint' \in 0..MaxSeq, replayPoint' <= s,
         s >= next,
         ~Ending => \A k \in Seqs : k < s => k \in delivered \cup missed
  PROVE  IInv'
<1>1. /\ next' = s + 1 /\ delivered' = delivered \cup {s} /\ out' = s /\ gapRuns' = gapRuns
      /\ Good(rx', delivered')
      /\ Moves(rx, rx', held \cup delivered \cup delivered')
      /\ deferred' \in {"none"} \cup TerminalKinds
      /\ deferred # "none" => deferred' = deferred
      /\ disposed' = Terminal(rx')
      /\ timer' \in BOOLEAN
      /\ IF Terminal(rx') THEN held' = {} /\ replayed' = {} /\ loop' = Queue!NoLoop
         ELSE held' = held \ {s} /\ replayed' = replayed \ {s} /\ loop' = rest
  BY HandOver
<1>2. TypeOK /\ OnlyPublished /\ BehindWindow /\ OneAtATime /\ GapRunsAreChained /\ EndsInTurn
  BY DEF IInv
<1>3. /\ s \in Nat /\ s >= 1 /\ s <= MaxSeq /\ s \in 0..MaxSeq /\ MaxSeq \in Nat
      /\ held \subseteq Seqs /\ replayed \subseteq held /\ delivered \subseteq Seqs
      /\ gapRuns \in Seq(Seqs) /\ todo \subseteq Seqs /\ next \in Nat
  BY <1>2, SeqsAreNat, QueueTypes, MaxSeqAssumption DEF TypeOK
<1>4. /\ log' = log /\ sent' = sent /\ tracked' = tracked /\ stage' = stage /\ cutoff' = cutoff
      /\ snap' = snap /\ localEnd' = localEnd /\ fetchFrom' = fetchFrom /\ sentThen' = sentThen
      /\ chain' = chain /\ gapDone' = gapDone /\ asked' = asked /\ missed' = missed
  BY DEF Steady, envVars
<1>5. /\ held' \subseteq held \ {s} /\ replayed' \subseteq replayed \ {s} /\ replayed' \subseteq held'
      /\ loop' \in Loops /\ loop' \in {rest, Queue!NoLoop}
  BY <1>1, <1>3, NoLoopType
<1>6. TypeOK'
  <2>1. Queue!TypeOK'
    <3>1. next' \in 1..(MaxSeq + 1) /\ held' \subseteq Seqs /\ delivered' \subseteq Seqs
          /\ gapRuns' \in Seq(Seqs) /\ disposed' \in BOOLEAN
      BY <1>1, <1>3, <1>5 DEF Terminal
    <3>2. loop'.by = "none" => loop' = Queue!NoLoop
      BY <1>5
    <3> QED
      BY <1>1, <1>3, <1>5, <3>1, <3>2, QueueTypesNext
  <2>2. rx' \in ReceiverStates
    BY <1>1 DEF Good
  <2>3. SessionTypes'
    BY <1>1, <1>2, <1>3, <1>4, <2>2 DEF TypeOK, SessionTypes
  <2> QED
    BY <2>1, <2>3, TypesAre DEF TypeOK, SessionTypes
<1>7. OnlyPublished'
  <2>1. rx'.unsettled \subseteq tracked'
    BY <1>1, <1>2, <1>4 DEF OnlyPublished, Moves
  <2>2. \A h \in held' \cup delivered' \cup todo' : h <= sent'
    BY <1>1, <1>2, <1>4, <1>5 DEF OnlyPublished
  <2> QED
    BY <1>1, <1>2, <1>4, <2>1, <2>2 DEF OnlyPublished
<1>8. BehindWindow'
  <2>1. \A h \in held' : h >= next'
    <3> SUFFICES ASSUME NEW h \in held' PROVE h >= s + 1
      BY <1>1
    <3>1. h \in held /\ h # s /\ h \in Nat /\ s <= h
      BY <1>3, <1>5, SeqsAreNat
    <3> QED
      BY <1>3, <3>1
  <2>2. loop'.by = "accept" => noting' < next'
    BY <1>1, <1>3, <1>5, NoLoopType
  <2>3. replayPoint' < next'
    BY <1>1, <1>3
  <2>4. stage = "history" => fetchFrom < s + 1
    <3>1. fetchFrom \in Nat
      BY <1>2, Numbers
    <3> QED
      BY <1>2, <1>3, <3>1 DEF BehindWindow
  <2> QED
    BY <1>1, <1>4, <2>1, <2>2, <2>3, <2>4 DEF BehindWindow
<1>9. OneAtATime'
  <2>1. loop'.cutoff # 0 => loop.cutoff # 0
    BY <1>5, NoLoopType
  <2> QED
    BY <1>1, <1>2, <1>4, <2>1 DEF OneAtATime
<1>10. GapRunsAreChained'
  BY <1>1, <1>2, <1>4 DEF GapRunsAreChained
<1>11. EndsInTurn'
  <2>1. Terminal(rx) => Terminal(rx)'
    BY <1>1 DEF Moves, Terminal
  <2> QED
    BY <1>2, <1>4, <2>1 DEF EndsInTurn, Finishing
<1>12. ASSUME ~Ending'
       PROVE  SkipsTheMissed'
  <2>1. ~Terminal(rx')
    BY <1>12 DEF Ending, Terminal
  <2>2. ~Ending
    BY <1>1, <1>4, <1>12 DEF Ending, Moves, Finishing, SnapshotEnds, Terminal
  <2>3. SkipsTheMissed
    BY <2>2 DEF IInv
  <2>4. held' = held \ {s} /\ replayed' = replayed \ {s} /\ loop' = rest
    BY <1>1, <2>1
  <2>5. Known \subseteq Known'
    BY <1>1, <1>4, <2>4 DEF Known
  <2>6. \A n : Covered(n) => Covered(n)'
    BY <2>5 DEF Covered
  <2>7. \A k \in Seqs : k < next' => k \in delivered' \cup missed'
    <3> SUFFICES ASSUME NEW k \in Seqs, k < s + 1 PROVE k = s \/ k \in delivered \cup missed
      BY <1>1, <1>4
    <3>1. k = s \/ k < s
      BY <1>3, SeqsAreNat
    <3> QED
      BY <2>2, <3>1
  <2>8. Covered(loop.cutoff)'
    <3>1. CASE rest.cutoff = 0
      BY <2>4, <3>1, SeqsAreNat DEF Covered
    <3>2. CASE rest.cutoff = loop.cutoff
      BY <2>3, <2>4, <2>6, <3>2 DEF SkipsTheMissed
    <3> QED
      BY <3>1, <3>2
  <2>9. \A h \in replayed' \cup todo' : Covered(h)'
    BY <2>3, <2>4, <2>6 DEF SkipsTheMissed
  <2> QED
    BY <1>1, <1>4, <2>3, <2>6, <2>7, <2>8, <2>9 DEF SkipsTheMissed
<1>13. Good(rx, delivered)'
  BY <1>1, <1>4, GoodStays
<1> QED
  BY <1>6, <1>7, <1>8, <1>9, <1>10, <1>11, <1>12, <1>13 DEF IInv

\* A step of the queue that hands nothing over: a message is held or found to be replayed,
\* or a loop ends. The receiver does not hear of it.
LEMMA NothingOut ==
  ASSUME IInv, DispatchOut, out' = 0
  PROVE  rx' = rx /\ deferred' = deferred /\ disposed' = disposed
<1>1. rx' = rx /\ deferred' = deferred /\ disposed' = Terminal(rx')
  BY DEF DispatchOut
<1>2. disposed \in BOOLEAN /\ (disposed <=> Terminal(rx))
  BY QueueTypes DEF IInv, OneAtATime
<1>3. Terminal(rx') = Terminal(rx) /\ Terminal(rx) \in BOOLEAN
  BY <1>1 DEF Terminal
<1>4. disposed = Terminal(rx)
  BY ONLY <1>2, <1>3
<1> QED
  BY <1>1, <1>3, <1>4

\* A message arrives, live or replayed.
LEMMA ReceiveKeeps ==
  ASSUME IInv, NEW s \in Seqs, NEW isReplay \in BOOLEAN, Receive(s, isReplay), s <= sent,
         Steady, stage \notin {"deferred", "state", "localEnd"},
         IF isReplay THEN s \in todo /\ todo' = todo \ {s} ELSE todo' = todo
  PROVE  IInv'
<1>1. TypeOK /\ OnlyPublished /\ BehindWindow /\ OneAtATime /\ GapRunsAreChained /\ EndsInTurn
  BY DEF IInv
<1>2. /\ s \in Nat /\ s >= 1 /\ s <= MaxSeq /\ s \in 0..MaxSeq
      /\ next \in Nat /\ replayPoint \in Nat /\ replayPoint \in 0..MaxSeq /\ noting \in 0..MaxSeq
      /\ held \subseteq Seqs /\ replayed \subseteq held /\ todo \subseteq Seqs
      /\ MaxSeq \in Nat
  BY <1>1, SeqsAreNat, QueueTypes, Numbers DEF TypeOK
<1>3. /\ DispatchOut
      /\ noting' = IF Idle' THEN 0 ELSE s
      /\ replayPoint' = IF Idle' /\ s \notin held THEN Noted(s, held') ELSE replayPoint
  BY DEF Receive
<1>4. /\ log' = log /\ sent' = sent /\ tracked' = tracked /\ stage' = stage /\ cutoff' = cutoff
      /\ snap' = snap /\ localEnd' = localEnd /\ fetchFrom' = fetchFrom /\ sentThen' = sentThen
      /\ chain' = chain /\ gapDone' = gapDone /\ asked' = asked /\ missed' = missed
  BY DEF Steady, envVars
<1>5. CASE Queue!AcceptNext(s)
  <2> DEFINE rest == [by |-> "accept", cutoff |-> 0, released |-> TRUE]
  <2>1. rest \in Loops /\ rest.by # "none" /\ rest.cutoff = 0
    BY <1>2 DEF Loops, Queue!Callers
  <2>2. Queue!DeliverSeq(s, rest) /\ ~disposed /\ s = next
    BY <1>5 DEF Queue!AcceptNext, Queue!Accepts
  <2> HIDE DEF rest
  <2>3. \A h \in held : s <= h
    BY <1>1, <2>2 DEF BehindWindow
  <2>4. noting' \in 0..MaxSeq /\ noting' <= s
    BY <1>2, <1>3
  <2>5. replayPoint' \in 0..MaxSeq /\ replayPoint' <= s
    BY <1>1, <1>2, <1>3, <2>2 DEF Noted, BehindWindow
  <2>6. s >= next
    BY <1>2, <2>2
  <2>7. ~Ending => \A k \in Seqs : k < s => k \in delivered \cup missed
    BY <2>2 DEF IInv, SkipsTheMissed
  <2>8. todo' \subseteq todo /\ todo \subseteq todo' \cup {s}
    OBVIOUS
  <2> QED
    BY ONLY IInv, s \in Seqs, Steady, s <= sent, stage \notin {"deferred", "state", "localEnd"},
       <1>3, <2>1, <2>2, <2>3, <2>4, <2>5, <2>6, <2>7, <2>8, HandOverKeeps
<1>6. CASE Queue!AcceptAhead(s, isReplay) \/ (isReplay /\ Queue!AcceptHeldAgain(s))
  <2>1. /\ Queue!Idle /\ out' = 0 /\ ~disposed
        /\ held' = held \cup {s}
        /\ replayed' \in {replayed, replayed \cup {s}}
        /\ ~isReplay => replayed' = replayed
        /\ s >= next
        /\ timer' \in BOOLEAN /\ next' = next /\ gapRuns' = gapRuns /\ loop' = loop
        /\ delivered' = delivered
    <3>1. timer \in BOOLEAN
      BY <1>1, QueueTypes
    <3>2. CASE Queue!AcceptAhead(s, isReplay)
      BY <3>2 DEF Queue!AcceptAhead, Queue!Accepts
    <3>3. CASE isReplay /\ Queue!AcceptHeldAgain(s)
      BY <1>1, <3>1, <3>3 DEF Queue!AcceptHeldAgain, BehindWindow
    <3> QED
      BY <1>6, <3>2, <3>3
  <2>2. rx' = rx /\ deferred' = deferred /\ disposed' = disposed
    BY <1>3, <2>1, NothingOut
  <2>3. Idle /\ Idle' /\ noting' = 0 /\ loop.by = "none"
    BY <1>3, <2>1, NoLoopType DEF Idle, Queue!Idle
  <2>4. replayPoint' = replayPoint
    BY <1>3, <2>1 DEF Noted
  <2>5. TypeOK'
    <3>1. Queue!TypeOK'
      <4>1. /\ next \in 1..(MaxSeq + 1) /\ gapRuns \in Seq(Seqs) /\ loop \in Loops /\ disposed \in BOOLEAN
            /\ (loop.by = "none" => loop = Queue!NoLoop) /\ delivered \subseteq Seqs
        BY <1>1, <1>2, QueueTypes
      <4>2. held' \subseteq Seqs /\ replayed' \subseteq held' /\ out' \in 0..MaxSeq
        BY <1>2, <2>1
      <4> QED
        BY <2>1, <2>2, <4>1, <4>2, QueueTypesNext
    <3>2. SessionTypes'
      <4>1. todo' \subseteq Seqs
        BY <1>2
      <4>2. {replayPoint', noting', fetchFrom', sentThen'} \subseteq 0..MaxSeq
        BY <1>1, <1>2, <1>4, <2>3, <2>4 DEF TypeOK
      <4> QED
        BY <1>1, <1>4, <2>2, <4>1, <4>2 DEF TypeOK, SessionTypes
    <3> QED
      BY <3>1, <3>2, TypesAre DEF TypeOK, SessionTypes
  <2>6. OnlyPublished'
    BY <1>1, <1>4, <2>1, <2>2 DEF OnlyPublished
  <2>7. BehindWindow'
    BY <1>1, <1>4, <2>1, <2>3, <2>4 DEF BehindWindow
  <2>8. OneAtATime'
    <3>1. todo' # {} => todo # {}
      OBVIOUS
    <3> QED
      BY <1>1, <1>4, <2>1, <2>2, <2>3, <3>1 DEF OneAtATime, Terminal
  <2>9. GapRunsAreChained' /\ EndsInTurn'
    BY <1>1, <1>4, <2>1, <2>2 DEF GapRunsAreChained, EndsInTurn, Terminal, Finishing, SnapshotEnds
  <2>10. ASSUME ~Ending' PROVE SkipsTheMissed'
    <3>1. SkipsTheMissed
      BY <1>4, <2>2, <2>10 DEF IInv, Ending, Terminal, Finishing, SnapshotEnds
    <3>2. \A n : Covered(n) => Covered(n)'
      BY <1>4, <2>1 DEF Covered, Known
    <3>3. \A h \in replayed' \cup todo' : Covered(h)
      BY <2>1, <3>1 DEF SkipsTheMissed
    <3> QED
      BY <1>4, <2>1, <3>1, <3>2, <3>3 DEF SkipsTheMissed
  <2>11. Good(rx, delivered)'
    BY <1>4, <2>1, <2>2 DEF IInv, Good, ArtifactsOf, IsArtifact, Terminal
  <2> QED
    BY <2>5, <2>6, <2>7, <2>8, <2>9, <2>10, <2>11 DEF IInv
<1> QED
  BY <1>5, <1>6 DEF Receive, Queue!Accept

\* One iteration of a release loop, or its end.
LEMMA QueueLoopKeeps ==
  ASSUME IInv, QueueLoop
  PROVE  IInv'
<1>1. TypeOK /\ OnlyPublished /\ BehindWindow /\ OneAtATime /\ GapRunsAreChained /\ EndsInTurn
  BY DEF IInv
<1>2. /\ next \in Nat /\ replayPoint \in Nat /\ replayPoint \in 0..MaxSeq /\ noting \in 0..MaxSeq
      /\ noting \in Nat /\ replayPoint < next
      /\ held \subseteq Seqs /\ replayed \subseteq held /\ todo \subseteq Seqs /\ loop \in Loops
      /\ MaxSeq \in Nat
  BY <1>1, QueueTypes, Numbers DEF TypeOK, BehindWindow
<1>3. /\ DispatchOut
      /\ noting' = IF Idle' THEN 0 ELSE noting
      /\ replayPoint' = IF Idle' /\ loop.by = "accept" THEN Noted(noting, held') ELSE replayPoint
      /\ Steady /\ todo' = todo
  BY DEF QueueLoop, Steady
<1>4. /\ log' = log /\ sent' = sent /\ tracked' = tracked /\ stage' = stage /\ cutoff' = cutoff
      /\ snap' = snap /\ localEnd' = localEnd /\ fetchFrom' = fetchFrom /\ sentThen' = sentThen
      /\ chain' = chain /\ gapDone' = gapDone /\ asked' = asked /\ missed' = missed
  BY <1>3 DEF Steady, envVars
<1>5. /\ noting' \in 0..MaxSeq /\ replayPoint' \in 0..MaxSeq /\ replayPoint' < next
      /\ loop.by = "accept" => noting' < next
  <2>1. loop.by = "accept" => noting < next
    BY <1>1 DEF BehindWindow
  <2>2. noting' \in {0, noting} /\ 0 < next
    BY <1>2, <1>3
  <2> QED
    BY <1>2, <1>3, <2>1, <2>2 DEF Noted
<1>6. CASE Queue!ReleaseNext
  <2>1. PICK s \in held : /\ Queue!IsMin(s, held) /\ Queue!Releasable(s) /\ ~Queue!Idle
                          /\ Queue!DeliverSeq(s, [loop EXCEPT !.released = TRUE])
    BY <1>6 DEF Queue!ReleaseNext
  <2>2. PICK rest : rest = [loop EXCEPT !.released = TRUE]
    OBVIOUS
  <2>3. /\ rest \in Loops /\ rest.by = loop.by /\ rest.cutoff = loop.cutoff
    BY <1>2, <2>2 DEF Loops
  <2>4. Queue!DeliverSeq(s, rest) /\ rest.by # "none"
    BY <1>1, <2>1, <2>2, <2>3, QueueTypes DEF Queue!Idle
  <2>5. /\ s \in Seqs /\ s \in Nat /\ s <= sent /\ s >= next
        /\ \A h \in held : s <= h
    BY <1>1, <1>2, <2>1, SeqsAreNat DEF OnlyPublished, BehindWindow, Queue!IsMin
  <2>6. ~disposed /\ stage \notin {"deferred", "state", "localEnd"}
    <3>1. ~Idle
      BY <2>1 DEF Idle
    <3>2. ~disposed
      BY <2>1, <1>1 DEF OneAtATime
    <3> QED
      BY <1>1, <3>1, <3>2 DEF OneAtATime
  <2>7. rest.by = "accept" => noting' <= s
    BY <1>2, <1>5, <2>3, <2>5
  <2>8. replayPoint' <= s
    BY <1>2, <1>5, <2>5
  <2>9. ASSUME ~Ending, NEW k \in Seqs, k < s PROVE k \in delivered \cup missed
    <3>1. SkipsTheMissed /\ k \in Nat /\ loop.cutoff \in Nat
      BY <1>1, <2>9, SeqsAreNat, Numbers DEF IInv
    <3>2. CASE k < next
      BY <3>1, <3>2 DEF SkipsTheMissed
    <3>3. CASE ~(k < next)
      <4>1. s <= loop.cutoff /\ loop.cutoff # 0
        BY <1>2, <2>1, <2>5, <2>9, <3>1, <3>3, SeqsAreNat DEF Queue!Releasable
      <4>2. k <= loop.cutoff
        BY <2>5, <2>9, <3>1, <4>1
      <4>3. k \in Known
        BY <3>1, <4>2 DEF SkipsTheMissed, Covered
      <4>4. todo = {}
        BY <1>1, <4>1 DEF OneAtATime
      <4>5. k \notin held
        BY <2>5, <2>9, <3>1
      <4> QED
        BY <4>3, <4>4, <4>5 DEF Known
    <3> QED
      BY <3>2, <3>3
  <2>10. ~Ending => \A k \in Seqs : k < s => k \in delivered \cup missed
    BY <2>9
  <2>11. todo' \subseteq todo /\ todo \subseteq todo' \cup {s}
    BY <1>3
  <2> QED
    BY ONLY IInv, <1>3, <1>5, <2>3, <2>4, <2>5, <2>6, <2>7, <2>8, <2>10, <2>11, HandOverKeeps
<1>7. CASE Queue!LoopEnds
  <2>1. /\ loop' = Queue!NoLoop /\ out' = 0 /\ timer' \in BOOLEAN
        /\ next' = next /\ held' = held /\ replayed' = replayed /\ gapRuns' = gapRuns
        /\ delivered' = delivered
    BY <1>7 DEF Queue!LoopEnds
  <2>2. rx' = rx /\ deferred' = deferred /\ disposed' = disposed
    BY <1>3, <2>1, NothingOut
  <2>3. Idle' /\ loop'.by = "none" /\ loop'.cutoff = 0 /\ loop' \in Loops
    BY <2>1, NoLoopType DEF Idle, Queue!Idle
  <2>4. TypeOK'
    <3>1. Queue!TypeOK'
      <4>1. /\ next \in 1..(MaxSeq + 1) /\ gapRuns \in Seq(Seqs) /\ disposed \in BOOLEAN
            /\ delivered \subseteq Seqs /\ 0 \in 0..MaxSeq
        BY <1>1, <1>2, QueueTypes
      <4> QED
        BY <1>2, <2>1, <2>2, <2>3, <4>1, QueueTypesNext
    <3>2. SessionTypes'
      BY <1>1, <1>3, <1>4, <1>5, <2>2 DEF TypeOK, SessionTypes
    <3> QED
      BY <3>1, <3>2, TypesAre DEF TypeOK, SessionTypes
  <2>5. OnlyPublished'
    BY <1>1, <1>3, <1>4, <2>1, <2>2 DEF OnlyPublished
  <2>6. BehindWindow'
    BY <1>1, <1>4, <1>5, <2>1, <2>3 DEF BehindWindow
  <2>7. OneAtATime'
    BY <1>1, <1>3, <1>4, <2>1, <2>2, <2>3 DEF OneAtATime, Terminal
  <2>8. GapRunsAreChained' /\ EndsInTurn'
    BY <1>1, <1>4, <2>1, <2>2 DEF GapRunsAreChained, EndsInTurn, Terminal, Finishing, SnapshotEnds
  <2>9. ASSUME ~Ending' PROVE SkipsTheMissed'
    <3>1. SkipsTheMissed
      BY <1>4, <2>2, <2>9 DEF IInv, Ending, Terminal, Finishing, SnapshotEnds
    <3>2. \A n : Covered(n) => Covered(n)'
      BY <1>3, <1>4, <2>1 DEF Covered, Known
    <3>3. Covered(loop.cutoff)'
      BY <2>3, SeqsAreNat DEF Covered
    <3> QED
      BY <1>3, <1>4, <2>1, <3>1, <3>2, <3>3 DEF SkipsTheMissed
  <2>10. Good(rx, delivered)'
    BY <1>4, <2>1, <2>2 DEF IInv, Good, ArtifactsOf, IsArtifact, Terminal
  <2> QED
    BY <2>4, <2>5, <2>6, <2>7, <2>8, <2>9, <2>10 DEF IInv
<1> QED
  BY <1>6, <1>7 DEF QueueLoop, Queue!Loop

-----------------------------------------------------------------------------
(* The session's chain of recoveries.                                        *)

Calls == {"gap", "asked"}

LEMMA ChainTypes ==
  ASSUME TypeOK
  PROVE  chain \in Seq(Calls) /\ gapRuns \in Seq(Seqs) /\ gapDone \in BOOLEAN
  BY QueueTypes DEF TypeOK, Calls

\* A call is queued: what is first stays first, and it is a gap recovery only if there
\* was none.
LEMMA ChainGrows ==
  ASSUME TypeOK, NEW c \in Calls, chain' = Append(chain, c)
  PROVE  /\ chain' \in Seq(Calls) /\ chain' # <<>> /\ Len(chain') = Len(chain) + 1
         /\ \A i \in 1..Len(chain) : i \in 1..Len(chain') /\ chain'[i] = chain[i]
         /\ \A i \in 1..Len(chain') : i \in 1..Len(chain) \/ (i = Len(chain) + 1 /\ chain'[i] = c)
         /\ chain # <<>> => Head(chain') = Head(chain)
<1>1. chain \in Seq(Calls) /\ Len(chain) \in Nat
  BY ChainTypes
<1>2. /\ chain' \in Seq(Calls) /\ chain' # <<>> /\ Len(chain') = Len(chain) + 1
      /\ \A i \in 1..Len(chain) : chain'[i] = chain[i]
      /\ chain'[Len(chain) + 1] = c
  BY <1>1, AppendProperties
<1>3. chain # <<>> => Head(chain') = Head(chain)
  <2> SUFFICES ASSUME chain # <<>> PROVE Head(chain') = Head(chain)
    OBVIOUS
  <2>1. 1 \in 1..Len(chain)
    BY <1>1, EmptySeq
  <2>2. Head(chain') = chain'[1] /\ Head(chain) = chain[1]
    BY <1>1, <1>2
  <2> QED
    BY <1>2, <2>1, <2>2
<1>4. \A i \in 1..Len(chain') : i \in 1..Len(chain) \/ i = Len(chain) + 1
  BY <1>1, <1>2
<1> QED
  BY <1>1, <1>2, <1>3, <1>4

\* A call not of a gap changes nothing about the gap recoveries.
LEMMA AskedIsChained ==
  ASSUME TypeOK, GapRunsAreChained, chain' = Append(chain, "asked"),
         gapRuns' = gapRuns, gapDone' = gapDone
  PROVE  GapRunsAreChained'
<1>1. /\ \A i \in 1..Len(chain') : chain'[i] = "gap" => i \in 1..Len(chain) /\ chain[i] = "gap"
  BY ChainGrows DEF Calls
<1> QED
  BY <1>1 DEF GapRunsAreChained

\* The first gap recovery is queued.
LEMMA GapIsChained ==
  ASSUME TypeOK, chain' = Append(chain, "gap"), gapRuns' # <<>>, ~gapDone',
         \A i \in 1..Len(chain) : chain[i] # "gap"
  PROVE  GapRunsAreChained'
<1>1. \A i \in 1..Len(chain') : chain'[i] = "gap" => i = Len(chain) + 1
  BY ChainGrows DEF Calls
<1> QED
  BY <1>1 DEF GapRunsAreChained

\* A call has been served.
LEMMA PopKeepsChain ==
  ASSUME TypeOK, GapRunsAreChained, chain # <<>>, ChainPops, gapRuns' = gapRuns
  PROVE  /\ chain' \in Seq(Calls) /\ gapDone' \in BOOLEAN
         /\ GapRunsAreChained'
<1>1. chain \in Seq(Calls) /\ gapDone \in BOOLEAN /\ Len(chain) \in Nat /\ 1 \in 1..Len(chain)
  BY ChainTypes, EmptySeq
<1>2. /\ chain' \in Seq(Calls) /\ Len(chain') = Len(chain) - 1
      /\ \A i \in 1..Len(chain') : chain'[i] = chain[i + 1]
      /\ gapDone' = (gapDone \/ chain[1] = "gap")
  BY <1>1, HeadTailProperties DEF ChainPops
<1>3. \A i \in 1..Len(chain') : chain'[i] = "gap" =>
        i + 1 \in 1..Len(chain) /\ i + 1 # 1 /\ chain[i + 1] = "gap"
  BY <1>1, <1>2
<1>4. gapRuns' = <<>> => ~gapDone'
  BY <1>1, <1>2 DEF GapRunsAreChained
<1>5. ASSUME NEW i \in 1..Len(chain'), chain'[i] = "gap"
      PROVE  /\ gapRuns' # <<>> /\ ~gapDone'
             /\ \A j \in 1..Len(chain') : chain'[j] = "gap" => i = j
  <2>1. i + 1 \in 1..Len(chain) /\ i + 1 # 1 /\ chain[i + 1] = "gap"
    BY <1>3, <1>5
  <2>2. gapRuns # <<>> /\ ~gapDone /\ chain[1] # "gap"
    BY <1>1, <2>1 DEF GapRunsAreChained
  <2>3. ASSUME NEW j \in 1..Len(chain'), chain'[j] = "gap" PROVE i = j
    <3>1. j + 1 \in 1..Len(chain) /\ chain[j + 1] = "gap"
      BY <1>3, <2>3
    <3>2. i + 1 = j + 1
      BY <2>1, <3>1 DEF GapRunsAreChained
    <3> QED
      BY <1>1, <1>2, <3>2
  <2> QED
    BY <1>2, <2>2, <2>3
<1> QED
  BY <1>2, <1>4, <1>5 DEF GapRunsAreChained

\* The first of the chain is one of its calls.
LEMMA FirstInChain ==
  ASSUME TypeOK, chain # <<>>
  PROVE  1 \in 1..Len(chain) /\ Head(chain) = chain[1]
  BY ChainTypes, EmptySeq

\* While a gap recovery waits to be resumed, none is in the chain.
LEMMA DoneIsNotFirst ==
  ASSUME TypeOK, GapRunsAreChained, chain # <<>>, Head(chain) = "gap"
  PROVE  ~gapDone /\ gapRuns # <<>>
  BY FirstInChain DEF GapRunsAreChained

\* The first of the queue's recoveries.
LEMMA FirstGapRun ==
  ASSUME TypeOK, gapRuns # <<>>
  PROVE  Head(gapRuns) \in Seqs /\ 1 \in 1..Len(gapRuns) /\ Head(gapRuns) = gapRuns[1]
  BY ChainTypes, EmptySeq

-----------------------------------------------------------------------------
(* Steps that leave the receiver alone.                                      *)

\* Neither the queue nor the receiver changes.
LEMMA QueueRests ==
  ASSUME TypeOK, UNCHANGED queueVars
  PROVE  /\ Queue!TypeOK'
         /\ next' = next /\ held' = held /\ replayed' = replayed /\ timer' = timer
         /\ gapRuns' = gapRuns /\ disposed' = disposed /\ loop' = loop /\ delivered' = delivered
         /\ Idle' = Idle
  BY DEF TypeOK, Queue!TypeOK, queueVars, Idle, Queue!Idle

\* What is good stays good if the receiver and what is delivered stay.
LEMMA GoodRests ==
  ASSUME IInv, rx' = rx, delivered' = delivered, log' = log
  PROVE  Good(rx, delivered)'
  BY DEF IInv, Good, ArtifactsOf, IsArtifact, Terminal

\* The provider publishes.
LEMMA PublishKeeps ==
  ASSUME IInv, Publish
  PROVE  IInv'
<1>1. TypeOK /\ OnlyPublished /\ BehindWindow /\ OneAtATime /\ GapRunsAreChained /\ EndsInTurn
  BY DEF IInv
<1>2. /\ UNCHANGED queueVars /\ sent' = sent + 1 /\ sent < MaxSeq /\ log' = log /\ rx' = rx
      /\ tracked' = tracked /\ UNCHANGED recoveryVars /\ UNCHANGED sessionVars
      /\ log[sent + 1].x \in tracked \cup {"none"}
  BY DEF Publish
<1>3. sent \in Nat /\ MaxSeq \in Nat
  BY <1>1, Numbers
<1>4. sent' \in 0..MaxSeq
  BY <1>2, <1>3
<1>5. TypeOK'
  BY <1>1, <1>2, <1>4, QueueRests DEF TypeOK, recoveryVars, sessionVars
<1>6. OnlyPublished'
  <2>1. ASSUME NEW s \in Seqs, s <= sent + 1 PROVE log[s].x \in tracked \cup {"none"}
    <3>1. s <= sent \/ s = sent + 1
      BY <1>3, <2>1, SeqsAreNat
    <3> QED
      BY <1>1, <1>2, <3>1 DEF OnlyPublished
  <2>2. \A s \in held \cup delivered \cup todo : s <= sent + 1
    <3> SUFFICES ASSUME NEW s \in held \cup delivered \cup todo PROVE s <= sent + 1
      OBVIOUS
    <3>1. s \in Nat /\ s <= sent
      BY <1>1, SeqsAreNat, QueueTypes DEF OnlyPublished, TypeOK
    <3> QED
      BY <1>3, <3>1
  <2>3. \A i \in 1..Len(gapRuns) : gapRuns[i] <= sent + 1
    <3> SUFFICES ASSUME NEW i \in 1..Len(gapRuns) PROVE gapRuns[i] <= sent + 1
      OBVIOUS
    <3>1. gapRuns[i] \in Nat /\ gapRuns[i] <= sent
      BY <1>1, SeqsAreNat, ChainTypes DEF OnlyPublished
    <3> QED
      BY <1>3, <3>1
  <2> QED
    BY <1>1, <1>2, <2>1, <2>2, <2>3, QueueRests DEF OnlyPublished, sessionVars
<1>7. BehindWindow' /\ OneAtATime' /\ GapRunsAreChained' /\ EndsInTurn'
  BY <1>1, <1>2, QueueRests DEF BehindWindow, OneAtATime, GapRunsAreChained, EndsInTurn,
     Terminal, Finishing, SnapshotEnds, recoveryVars, sessionVars
<1>8. ~Ending' => SkipsTheMissed'
  BY <1>1, <1>2, QueueRests DEF IInv, Ending, SkipsTheMissed, Covered, Known,
     Terminal, Finishing, SnapshotEnds, recoveryVars, sessionVars
<1>9. Good(rx, delivered)'
  BY <1>1, <1>2, QueueRests, GoodRests
<1> QED
  BY <1>5, <1>6, <1>7, <1>8, <1>9 DEF IInv

\* A recovery is asked for from outside.
LEMMA AskRecoveryKeeps ==
  ASSUME IInv, AskRecovery
  PROVE  IInv'
<1>1. TypeOK /\ OnlyPublished /\ BehindWindow /\ OneAtATime /\ GapRunsAreChained /\ EndsInTurn
  BY DEF IInv
<1>2. /\ UNCHANGED queueVars /\ UNCHANGED envVars /\ rx' = rx /\ tracked' = tracked
      /\ UNCHANGED recoveryVars /\ chain' = Append(chain, "asked") /\ asked' = asked + 1 /\ asked < MaxAsked
      /\ UNCHANGED <<replayPoint, noting, fetchFrom, sentThen, todo, gapDone, missed>>
  BY DEF AskRecovery
<1>3. asked' \in 0..MaxAsked
  BY <1>1, <1>2, MaxAskedAssumption DEF TypeOK
<1>4. /\ chain' \in Seq(Calls) /\ chain' # <<>>
      /\ chain # <<>> => Head(chain') = Head(chain)
  BY <1>1, <1>2, ChainGrows DEF Calls
<1>5. TypeOK'
  BY <1>1, <1>2, <1>3, <1>4, QueueRests DEF TypeOK, recoveryVars, envVars, Calls
<1>6. OnlyPublished' /\ BehindWindow' /\ OneAtATime' /\ EndsInTurn'
  BY <1>1, <1>2, <1>4, QueueRests DEF OnlyPublished, BehindWindow, OneAtATime, EndsInTurn,
     Terminal, Finishing, SnapshotEnds, recoveryVars, envVars
<1>7. GapRunsAreChained'
  BY <1>1, <1>2, QueueRests, AskedIsChained
<1>8. ~Ending' => SkipsTheMissed'
  BY <1>1, <1>2, <1>4, QueueRests DEF IInv, Ending, SkipsTheMissed, Covered, Known, OneAtATime,
     Terminal, Finishing, SnapshotEnds, recoveryVars
<1>9. Good(rx, delivered)'
  BY <1>1, <1>2, QueueRests, GoodRests DEF envVars
<1> QED
  BY <1>5, <1>6, <1>7, <1>8, <1>9 DEF IInv

\* The gap timer fires.
LEMMA GapTimerFiresKeeps ==
  ASSUME IInv, GapTimerFires
  PROVE  IInv'
<1>1. TypeOK /\ OnlyPublished /\ BehindWindow /\ OneAtATime /\ GapRunsAreChained /\ EndsInTurn
  BY DEF IInv
<1>2. /\ Quiet /\ envVars' = envVars /\ rx' = rx /\ tracked' = tracked /\ recoveryVars' = recoveryVars
      /\ UNCHANGED <<replayPoint, noting, fetchFrom, sentThen, todo, gapDone, asked, missed>>
      /\ chain' = IF gapRuns = <<>> THEN Append(chain, "gap") ELSE chain
      /\ timer' = FALSE /\ out' = 0
      /\ UNCHANGED <<next, held, replayed, disposed, loop, delivered>>
  BY DEF GapTimerFires, Queue!GapTimerFires
<1>3. PICK c \in held : gapRuns' = Append(gapRuns, c)
  BY DEF GapTimerFires, Queue!GapTimerFires
<1>4. /\ c \in Seqs /\ c <= sent /\ gapRuns \in Seq(Seqs) /\ Len(gapRuns) \in Nat
      /\ chain \in Seq(Calls)
  BY <1>1, QueueTypes, ChainTypes DEF OnlyPublished
<1>5. /\ gapRuns' \in Seq(Seqs) /\ gapRuns' # <<>> /\ Len(gapRuns') = Len(gapRuns) + 1
      /\ \A i \in 1..Len(gapRuns) : gapRuns'[i] = gapRuns[i]
      /\ gapRuns'[Len(gapRuns) + 1] = c
  BY <1>3, <1>4, AppendProperties
<1>6. \A i \in 1..Len(gapRuns') : gapRuns'[i] <= sent
  <2> SUFFICES ASSUME NEW i \in 1..Len(gapRuns') PROVE gapRuns'[i] <= sent
    OBVIOUS
  <2>1. i \in 1..Len(gapRuns) \/ i = Len(gapRuns) + 1
    BY <1>4, <1>5
  <2> QED
    BY <1>1, <1>4, <1>5, <2>1 DEF OnlyPublished
<1>7. gapRuns # <<>> => Head(gapRuns') = Head(gapRuns)
  <2> SUFFICES ASSUME gapRuns # <<>> PROVE Head(gapRuns') = Head(gapRuns)
    OBVIOUS
  <2>1. 1 \in 1..Len(gapRuns)
    BY <1>4, EmptySeq
  <2>2. Head(gapRuns') = gapRuns'[1] /\ Head(gapRuns) = gapRuns[1]
    BY <1>4, <1>5
  <2> QED
    BY <1>5, <2>1, <2>2
<1>8. /\ chain' \in Seq(Calls) /\ (chain # <<>> => chain' # <<>> /\ Head(chain') = Head(chain))
  BY <1>1, <1>2, <1>4, ChainGrows DEF Calls
<1>9. TypeOK'
  <2>1. Queue!TypeOK'
    <3>1. /\ next' \in 1..(MaxSeq + 1) /\ held' \subseteq Seqs /\ replayed' \subseteq held'
          /\ disposed' \in BOOLEAN /\ loop' \in Loops /\ (loop'.by = "none" => loop' = Queue!NoLoop)
          /\ delivered' \subseteq Seqs
      BY <1>1, <1>2, QueueTypes, MaxSeqAssumption
    <3>2. timer' \in BOOLEAN
      BY <1>2
    <3>3. out' \in 0..MaxSeq
      BY <1>2, MaxSeqAssumption
    <3> QED
      BY <1>5, <3>1, <3>2, <3>3, QueueTypesNext
  <2> QED
    BY <1>1, <1>2, <1>8, <2>1 DEF TypeOK, Calls, recoveryVars, envVars
<1>10. OnlyPublished' /\ BehindWindow' /\ OneAtATime' /\ EndsInTurn'
  BY <1>1, <1>2, <1>6, <1>8 DEF OnlyPublished, BehindWindow, OneAtATime, EndsInTurn, Idle, Queue!Idle,
     Terminal, Finishing, SnapshotEnds, recoveryVars, envVars
<1>11. GapRunsAreChained'
  <2>1. CASE gapRuns = <<>>
    <3>1. ~gapDone' /\ \A i \in 1..Len(chain) : chain[i] # "gap"
      BY <1>1, <1>2, <2>1 DEF GapRunsAreChained
    <3> QED
      BY <1>1, <1>2, <1>5, <2>1, <3>1, GapIsChained
  <2>2. CASE gapRuns # <<>>
    BY <1>1, <1>2, <1>5, <2>2 DEF GapRunsAreChained
  <2> QED
    BY <2>1, <2>2
<1>12. ASSUME ~Ending' PROVE SkipsTheMissed'
  <2>1. SkipsTheMissed
    BY <1>2, <1>12 DEF IInv, Ending, Terminal, Finishing, SnapshotEnds, recoveryVars
  <2>2. \A n : Covered(n)' <=> Covered(n)
    BY <1>2 DEF Covered, Known
  <2>3. ~gapDone'
    BY <1>2 DEF Quiet
  <2>4. ASSUME stage # "none", Head(chain') = "gap"
        PROVE  gapRuns # <<>> /\ Head(chain) = "gap"
    BY <1>1, <1>8, <2>4, DoneIsNotFirst DEF OneAtATime
  <2> QED
    BY <1>2, <1>7, <2>1, <2>2, <2>3, <2>4 DEF SkipsTheMissed, recoveryVars
<1>13. Good(rx, delivered)'
  BY <1>1, <1>2, GoodRests DEF envVars
<1> QED
  BY <1>9, <1>10, <1>11, <1>12, <1>13 DEF IInv

\* recoverGap resumes, and its release loop starts.
LEMMA GapRecoveredKeeps ==
  ASSUME IInv, GapRecovered
  PROVE  IInv'
<1>1. TypeOK /\ OnlyPublished /\ BehindWindow /\ OneAtATime /\ GapRunsAreChained /\ EndsInTurn
  BY DEF IInv
<1>2. /\ gapDone /\ gapDone' = FALSE
      /\ envVars' = envVars /\ rx' = rx /\ tracked' = tracked /\ recoveryVars' = recoveryVars
      /\ UNCHANGED <<replayPoint, noting, fetchFrom, sentThen, todo, asked, missed>>
      /\ chain' = IF Len(gapRuns) > 1 THEN Append(chain, "gap") ELSE chain
      /\ Queue!Idle /\ gapRuns # <<>> /\ gapRuns' = Tail(gapRuns)
      /\ loop' = IF disposed THEN Queue!NoLoop
                 ELSE [by |-> "recoverGap", cutoff |-> Head(gapRuns), released |-> FALSE]
      /\ out' = 0
      /\ UNCHANGED <<next, held, replayed, timer, disposed, delivered>>
  BY DEF GapRecovered, Queue!GapRecovered
<1>3. /\ gapRuns \in Seq(Seqs) /\ Len(gapRuns) \in Nat /\ chain \in Seq(Calls)
      /\ Head(gapRuns) \in 0..MaxSeq
  BY <1>1, <1>2, ChainTypes, FirstGapRun, SeqsAreNat
<1>4. /\ gapRuns' \in Seq(Seqs) /\ Len(gapRuns') = Len(gapRuns) - 1
      /\ \A i \in 1..Len(gapRuns') : gapRuns'[i] = gapRuns[i + 1]
  BY <1>2, <1>3, HeadTailProperties
<1>5. \A i \in 1..Len(gapRuns') : gapRuns'[i] <= sent
  BY <1>1, <1>3, <1>4 DEF OnlyPublished
<1>6. chain' \in Seq(Calls) /\ (chain # <<>> => chain' # <<>> /\ Head(chain') = Head(chain))
  BY <1>1, <1>2, <1>3, ChainGrows DEF Calls
<1>7. loop' \in Loops /\ (loop'.by = "none" => loop' = Queue!NoLoop) /\ loop'.by # "accept"
  <2>1. CASE disposed
    BY <1>2, <2>1, NoLoopType
  <2>2. CASE ~disposed
    BY <1>2, <1>3, <2>2 DEF Loops, Queue!Callers
  <2> QED
    BY <2>1, <2>2
<1>8. TypeOK'
  <2>1. Queue!TypeOK'
    <3>1. /\ next' \in 1..(MaxSeq + 1) /\ held' \subseteq Seqs /\ replayed' \subseteq held'
          /\ disposed' \in BOOLEAN /\ timer' \in BOOLEAN /\ delivered' \subseteq Seqs
          /\ out' \in 0..MaxSeq
      BY <1>1, <1>2, QueueTypes, MaxSeqAssumption
    <3> QED
      BY <1>4, <1>7, <3>1, QueueTypesNext
  <2> QED
    BY <1>1, <1>2, <1>6, <2>1 DEF TypeOK, Calls, recoveryVars, envVars
<1>9. stage \in {"none", "history"}
  BY <1>1, <1>2 DEF OneAtATime
<1>10. OnlyPublished' /\ BehindWindow' /\ OneAtATime' /\ EndsInTurn'
  BY <1>1, <1>2, <1>5, <1>6, <1>7, <1>9 DEF OnlyPublished, BehindWindow, OneAtATime, EndsInTurn,
     Terminal, Finishing, SnapshotEnds, recoveryVars, envVars
<1>11. \A i \in 1..Len(chain) : chain[i] # "gap"
  BY <1>1, <1>2 DEF GapRunsAreChained
<1>12. GapRunsAreChained'
  <2>1. CASE Len(gapRuns) > 1
    <3>1. gapRuns' # <<>>
      BY <1>3, <1>4, <2>1, EmptySeq
    <3> QED
      BY <1>1, <1>2, <1>11, <2>1, <3>1, GapIsChained
  <2>2. CASE ~(Len(gapRuns) > 1)
    BY <1>2, <1>11, <2>2 DEF GapRunsAreChained
  <2> QED
    BY <2>1, <2>2
<1>13. ASSUME ~Ending' PROVE SkipsTheMissed'
  <2>1. SkipsTheMissed
    BY <1>2, <1>13 DEF IInv, Ending, Terminal, Finishing, SnapshotEnds, recoveryVars
  <2>2. \A n : Covered(n)' <=> Covered(n)
    BY <1>2 DEF Covered, Known
  <2>3. ~(stage # "none" /\ Head(chain') = "gap")
    BY <1>1, <1>2, <1>6, DoneIsNotFirst DEF OneAtATime
  <2>4. Covered(loop'.cutoff)
    <3>1. CASE disposed
      BY <1>2, <3>1, NoLoopType, SeqsAreNat DEF Covered
    <3>2. CASE ~disposed
      BY <1>2, <2>1, <3>2 DEF SkipsTheMissed
    <3> QED
      BY <3>1, <3>2
  <2>5. /\ stage' = stage /\ cutoff' = cutoff
    BY <1>2 DEF recoveryVars
  <2> QED
    BY <1>2, <2>1, <2>2, <2>3, <2>4, <2>5 DEF SkipsTheMissed
<1>14. Good(rx, delivered)'
  BY <1>1, <1>2, GoodRests DEF envVars
<1> QED
  BY <1>8, <1>10, <1>12, <1>13, <1>14 DEF IInv

\* A recovery begins, or is not needed any more.
LEMMA BeginRecoveryKeeps ==
  ASSUME IInv, BeginRecovery
  PROVE  IInv'
<1>1. TypeOK /\ OnlyPublished /\ BehindWindow /\ OneAtATime /\ GapRunsAreChained /\ EndsInTurn
  BY DEF IInv
<1>2. /\ Idle /\ stage = "none" /\ chain # <<>>
      /\ UNCHANGED queueVars /\ UNCHANGED envVars /\ rx' = rx /\ tracked' = tracked
      /\ UNCHANGED <<replayPoint, noting, todo, asked, missed>>
  BY DEF BeginRecovery
<1>3. Good(rx, delivered)'
  BY <1>1, <1>2, QueueRests, GoodRests DEF envVars
<1>4. CASE Terminal(rx) /\ ChainPops /\ UNCHANGED <<recoveryVars, fetchFrom, sentThen>>
  <2>1. chain' \in Seq(Calls) /\ gapDone' \in BOOLEAN /\ GapRunsAreChained'
    BY <1>1, <1>2, <1>4, QueueRests, PopKeepsChain
  <2>2. TypeOK'
    BY <1>1, <1>2, <1>4, <2>1, QueueRests DEF TypeOK, recoveryVars, envVars, Calls
  <2>3. OnlyPublished' /\ BehindWindow' /\ OneAtATime' /\ EndsInTurn'
    BY <1>1, <1>2, <1>4, QueueRests DEF OnlyPublished, BehindWindow, OneAtATime, EndsInTurn,
       Terminal, Finishing, SnapshotEnds, recoveryVars, envVars
  <2>4. Ending'
    BY <1>2, <1>4 DEF Ending, Terminal
  <2> QED
    BY <1>3, <2>1, <2>2, <2>3, <2>4 DEF IInv
<1>5. CASE /\ ~Terminal(rx) /\ stage' = "history"
           /\ cutoff' \in 0..MaxSeq
           /\ IF held = {} THEN cutoff' = 0 ELSE Queue!IsMax(cutoff', held)
           /\ deferred' = "none" /\ fetchFrom' = replayPoint /\ sentThen' = sent
           /\ UNCHANGED <<snap, localEnd, chain, gapDone>>
  <2>1. replayPoint \in 0..MaxSeq /\ sent \in 0..MaxSeq /\ sent \in Nat
    BY <1>1, Numbers DEF TypeOK
  <2>2. TypeOK'
    BY <1>1, <1>2, <1>5, <2>1, QueueRests DEF TypeOK, envVars
  <2>3. OnlyPublished' /\ GapRunsAreChained'
    BY <1>1, <1>2, <1>5, QueueRests DEF OnlyPublished, GapRunsAreChained, envVars
  <2>4. BehindWindow' /\ OneAtATime'
    BY <1>1, <1>2, <1>5, QueueRests DEF BehindWindow, OneAtATime, Terminal
  <2>5. localEnd = "none"
    BY <1>1, <1>2, <1>5 DEF EndsInTurn, Finishing
  <2>6. EndsInTurn'
    BY <1>5, <2>5 DEF EndsInTurn
  <2>7. SkipsTheMissed'
    <3>1. SkipsTheMissed
      BY <1>2, <1>5 DEF IInv, Ending, Finishing
    <3>2. \A n : Covered(n)' <=> Covered(n)
      BY <1>2, QueueRests, <1>1 DEF Covered, Known
    <3>3. cutoff' <= sentThen'
      BY <1>1, <1>5, <2>1 DEF Queue!IsMax, OnlyPublished
    <3>4. Head(chain) = "gap" => Head(gapRuns) <= sent
      BY <1>1, <1>2, DoneIsNotFirst, FirstGapRun DEF OnlyPublished
    <3> QED
      BY <1>1, <1>2, <1>5, <3>1, <3>2, <3>3, <3>4, QueueRests DEF SkipsTheMissed
  <2> QED
    BY <1>3, <2>2, <2>3, <2>4, <2>6, <2>7 DEF IInv
<1> QED
  BY <1>4, <1>5 DEF BeginRecovery

\* The history answers. What it should have held and did not is missed from now on, so
\* everything up to the recovery's start, and up to the last message it did hold, is known.
LEMMA HistoryAnswersKeeps ==
  ASSUME IInv, NEW answer \in SUBSET Seqs, HistoryAnswers(answer)
  PROVE  IInv'
<1>1. TypeOK /\ OnlyPublished /\ BehindWindow /\ OneAtATime /\ GapRunsAreChained /\ EndsInTurn
  BY DEF IInv
<1>2. /\ Quiet /\ stage = "history" /\ stage' = "replay"
      /\ answer \subseteq {s \in Seqs : s >= fetchFrom /\ s <= sent} /\ todo' = answer
      /\ missed' = (missed \cup
           {s \in (fetchFrom + 1)..MaxSeq :
              s \notin answer /\ (s <= sentThen \/ \E a \in answer : s < a)}) \ delivered
      /\ fetchFrom' = 0 /\ sentThen' = 0
      /\ UNCHANGED queueVars /\ UNCHANGED envVars /\ rx' = rx
      /\ UNCHANGED <<tracked, cutoff, deferred, snap, localEnd, replayPoint, noting, chain, gapDone, asked>>
  BY DEF HistoryAnswers
<1>3. /\ fetchFrom \in Nat /\ fetchFrom < next /\ next \in Nat /\ sentThen \in Nat /\ MaxSeq \in Nat
      /\ cutoff \in Nat
  BY <1>1, <1>2, Numbers DEF BehindWindow
<1>4. TypeOK'
  <2>1. missed' \subseteq Seqs
    <3> SUFFICES ASSUME NEW s \in (fetchFrom + 1)..MaxSeq PROVE s \in Seqs
      BY <1>1, <1>2 DEF TypeOK
    <3> QED
      BY <1>3 DEF Seqs
  <2>2. {replayPoint', noting', fetchFrom', sentThen'} \subseteq 0..MaxSeq
    BY <1>1, <1>2, <1>3 DEF TypeOK
  <2> QED
    BY <1>1, <1>2, <2>1, <2>2, QueueRests DEF TypeOK, envVars
<1>5. OnlyPublished' /\ GapRunsAreChained'
  BY <1>1, <1>2, QueueRests DEF OnlyPublished, GapRunsAreChained, envVars
<1>6. BehindWindow'
  BY <1>1, <1>2, QueueRests DEF BehindWindow
<1>7. OneAtATime'
  <2>1. Idle /\ ~gapDone /\ loop.cutoff = 0
    BY <1>2, NoLoopType DEF Quiet, Idle, Queue!Idle
  <2> QED
    BY <1>1, <1>2, <2>1, QueueRests DEF OneAtATime, Terminal
<1>8. EndsInTurn'
  BY <1>1, <1>2 DEF EndsInTurn, Finishing, Terminal
<1>9. ASSUME ~Ending' PROVE SkipsTheMissed'
  <2>1. SkipsTheMissed
    BY <1>2, <1>9 DEF IInv, Ending, Terminal, Finishing
  <2>2. /\ next' = next /\ held' = held /\ replayed' = replayed /\ gapRuns' = gapRuns
        /\ loop' = loop /\ delivered' = delivered
    BY <1>1, <1>2, QueueRests
  <2>3. delivered \cup missed \subseteq delivered' \cup missed'
    BY <1>2, <2>2
  <2>4. Known \subseteq Known'
    <3>1. todo = {}
      BY <1>1, <1>2 DEF OneAtATime
    <3> QED
      BY <2>2, <2>3, <3>1 DEF Known
  <2>5. \A n : Covered(n) => Covered(n)'
    BY <2>4 DEF Covered
  <2>6. ASSUME NEW s \in Seqs, s <= sentThen \/ \E a \in answer : s <= a
        PROVE  s \in Known'
    <3>1. s \in Nat /\ s <= MaxSeq
      BY SeqsAreNat
    <3>2. CASE s <= fetchFrom
      <4>1. s < next
        BY <1>3, <3>1, <3>2
      <4>2. s \in delivered \cup missed
        BY <2>1, <4>1 DEF SkipsTheMissed
      <4> QED
        BY <2>3, <4>2 DEF Known
    <3>3. CASE s \in answer
      BY <1>2, <3>3 DEF Known
    <3>4. CASE ~(s <= fetchFrom) /\ s \notin answer
      <4>1. s \in (fetchFrom + 1)..MaxSeq
        BY <1>3, <3>1, <3>4
      <4>2. s <= sentThen \/ \E a \in answer : s < a
        <5>1. ASSUME NEW a \in answer, s <= a PROVE s < a
          <6>1. a \in Nat /\ s # a
            BY <3>4, <5>1, SeqsAreNat
          <6> QED
            BY <3>1, <5>1, <6>1
        <5> QED
          BY <2>6, <5>1
      <4>3. s \in missed' \/ s \in delivered
        BY <1>2, <3>4, <4>1, <4>2
      <4> QED
        BY <2>2, <4>3 DEF Known
    <3> QED
      BY <3>2, <3>3, <3>4
  <2>7. ASSUME NEW n \in Nat, n <= sentThen PROVE Covered(n)'
    <3> SUFFICES ASSUME NEW s \in Seqs, s <= n PROVE s \in Known'
      BY DEF Covered
    <3>1. s <= sentThen
      BY <1>3, <2>7, SeqsAreNat
    <3> QED
      BY <2>6, <3>1
  <2>8. \A a \in answer : Covered(a)'
    BY <2>6 DEF Covered
  <2>9. Covered(cutoff)'
    BY <1>2, <1>3, <2>1, <2>7 DEF SkipsTheMissed
  <2>10. Head(chain) = "gap" => Covered(Head(gapRuns))'
    <3> SUFFICES ASSUME Head(chain) = "gap" PROVE Covered(Head(gapRuns))'
      OBVIOUS
    <3>1. Head(gapRuns) <= sentThen
      BY <1>2, <2>1 DEF SkipsTheMissed
    <3>2. PICK n \in Nat : n = Head(gapRuns)
      BY <1>1, <1>2, DoneIsNotFirst, FirstGapRun, SeqsAreNat DEF OneAtATime
    <3>3. Head(gapRuns') = n
      BY <2>2, <3>2
    <3> QED
      BY <2>7, <3>1, <3>2, <3>3
  <2>11. ~gapDone'
    BY <1>2 DEF Quiet
  <2>12. \A h \in replayed' \cup todo' : Covered(h)'
    BY <1>2, <2>1, <2>2, <2>5, <2>8 DEF SkipsTheMissed
  <2>13. \A s \in Seqs : s < next' => s \in delivered' \cup missed'
    BY <2>1, <2>2, <2>3 DEF SkipsTheMissed
  <2>14. Covered(loop.cutoff)'
    BY <2>1, <2>2, <2>5 DEF SkipsTheMissed
  <2> QED
    BY <1>2, <2>9, <2>10, <2>11, <2>12, <2>13, <2>14 DEF SkipsTheMissed
<1>10. Good(rx, delivered)'
  BY <1>1, <1>2, QueueRests, GoodRests DEF envVars
<1> QED
  BY <1>4, <1>5, <1>6, <1>7, <1>8, <1>9, <1>10 DEF IInv

\* The next message of the history is received, or refused: then it was delivered, given up
\* or is held already.
LEMMA ReplayNextKeeps ==
  ASSUME IInv, ReplayNext
  PROVE  IInv'
<1>1. TypeOK /\ OnlyPublished /\ BehindWindow /\ OneAtATime /\ GapRunsAreChained /\ EndsInTurn
  BY DEF IInv
<1>2. PICK s \in todo :
        /\ todo' = todo \ {s}
        /\ IF Queue!Accepts(s) \/ s \in held \ replayed
           THEN Receive(s, TRUE)
           ELSE UNCHANGED <<queueVars, rx, deferred, noting, replayPoint>>
  BY DEF ReplayNext
<1>3. /\ Idle /\ stage = "replay" /\ Steady /\ s \in Seqs /\ s <= sent
  BY <1>1 DEF ReplayNext, Steady, OnlyPublished, TypeOK
<1>4. CASE Queue!Accepts(s) \/ s \in held \ replayed
  BY <1>2, <1>3, <1>4, ReceiveKeeps
<1>5. CASE ~(Queue!Accepts(s) \/ s \in held \ replayed)
  <2>1. /\ UNCHANGED queueVars /\ rx' = rx /\ deferred' = deferred /\ noting' = noting
        /\ replayPoint' = replayPoint
    BY <1>2, <1>5
  <2>2. /\ log' = log /\ sent' = sent /\ tracked' = tracked /\ stage' = stage /\ cutoff' = cutoff
        /\ snap' = snap /\ localEnd' = localEnd /\ fetchFrom' = fetchFrom /\ sentThen' = sentThen
        /\ chain' = chain /\ gapDone' = gapDone /\ asked' = asked /\ missed' = missed
    BY <1>3 DEF Steady, envVars
  <2>3. TypeOK'
    BY <1>1, <1>2, <2>1, <2>2, QueueRests DEF TypeOK
  <2>4. OnlyPublished' /\ BehindWindow' /\ OneAtATime' /\ GapRunsAreChained' /\ EndsInTurn'
    BY <1>1, <1>2, <1>3, <2>1, <2>2, QueueRests DEF OnlyPublished, BehindWindow, OneAtATime,
       GapRunsAreChained, EndsInTurn, Terminal, Finishing, SnapshotEnds
  <2>5. ASSUME ~Ending' PROVE SkipsTheMissed'
    <3>1. SkipsTheMissed /\ ~Terminal(rx)
      BY <2>1, <2>2, <2>5 DEF IInv, Ending, Terminal, Finishing, SnapshotEnds
    <3>2. s \in delivered \cup missed \cup held
      <4>1. ~disposed
        BY <1>1, <3>1 DEF OneAtATime
      <4>2. ~(s >= next) \/ s \in held
        BY <1>5, <4>1 DEF Queue!Accepts
      <4>3. ~(s >= next) => s < next
        BY <1>1, <1>3, SeqsAreNat, Numbers
      <4> QED
        BY <1>3, <3>1, <4>2, <4>3 DEF SkipsTheMissed
    <3>3. Known' = Known
      BY <1>1, <1>2, <2>1, <2>2, <3>2, QueueRests DEF Known
    <3>4. \A n : Covered(n) => Covered(n)'
      BY <3>3 DEF Covered
    <3> QED
      BY <1>1, <1>2, <2>1, <2>2, <3>1, <3>4, QueueRests DEF SkipsTheMissed
  <2>6. Good(rx, delivered)'
    BY <1>1, <2>1, <2>2, QueueRests, GoodRests
  <2> QED
    BY <2>3, <2>4, <2>5, <2>6 DEF IInv
<1> QED
  BY <1>4, <1>5

\* The replay is through: the gaps it revealed will be closed too.
LEMMA HistoryReplayedKeeps ==
  ASSUME IInv, HistoryReplayed
  PROVE  IInv'
<1>1. TypeOK /\ OnlyPublished /\ BehindWindow /\ OneAtATime /\ GapRunsAreChained /\ EndsInTurn
  BY DEF IInv
<1>2. /\ Idle /\ stage = "replay" /\ todo = {} /\ cutoff' \in 0..MaxSeq
      /\ cutoff' = cutoff \/ cutoff' \in replayed
      /\ stage' = "snapshot"
      /\ UNCHANGED queueVars /\ UNCHANGED envVars /\ rx' = rx /\ UNCHANGED sessionVars
      /\ UNCHANGED <<tracked, deferred, snap, localEnd>>
  BY DEF HistoryReplayed, Queue!IsMax
<1>3. /\ replayPoint' = replayPoint /\ noting' = noting /\ fetchFrom' = fetchFrom
      /\ sentThen' = sentThen /\ todo' = todo /\ chain' = chain /\ gapDone' = gapDone
      /\ asked' = asked /\ missed' = missed
  BY <1>2 DEF sessionVars
<1>4. TypeOK'
  BY <1>1, <1>2, <1>3, QueueRests DEF TypeOK, envVars
<1>5. OnlyPublished' /\ BehindWindow' /\ OneAtATime' /\ GapRunsAreChained' /\ EndsInTurn'
  BY <1>1, <1>2, <1>3, QueueRests, NoLoopType DEF OnlyPublished, BehindWindow, OneAtATime,
     GapRunsAreChained, EndsInTurn, Terminal, Finishing, Idle, Queue!Idle, envVars
<1>6. ASSUME ~Ending' PROVE SkipsTheMissed'
  <2>1. SkipsTheMissed
    BY <1>2, <1>6 DEF IInv, Ending, Terminal, Finishing
  <2>2. \A n : Covered(n) <=> Covered(n)'
    BY <1>1, <1>2, <1>3, QueueRests DEF Covered, Known
  <2>3. Covered(cutoff')
    BY <1>2, <2>1 DEF SkipsTheMissed
  <2>4. ~gapDone
    BY <1>1, <1>2 DEF OneAtATime
  <2> QED
    BY <1>1, <1>2, <1>3, <2>1, <2>2, <2>3, <2>4, QueueRests DEF SkipsTheMissed
<1>7. Good(rx, delivered)'
  BY <1>1, <1>2, QueueRests, GoodRests DEF envVars
<1> QED
  BY <1>4, <1>5, <1>6, <1>7 DEF IInv

-----------------------------------------------------------------------------
(* The recovery finishes.                                                    *)

\* The recovery closes its gaps: those it asked for, whose missing messages are known by
\* now, or every gap if the session is about to end.
LEMMA FinishRecoveryKeeps ==
  ASSUME IInv, NEW answer \in [exchanges : SUBSET Exchanges, st : States \cup {"none"}],
         FinishRecovery(answer), Quiet, stage \in {"history", "snapshot"},
         UNCHANGED <<envVars, rx, tracked, cutoff, deferred, sessionVars>>,
         localEnd' \in TerminalStates \/ (localEnd' = localEnd /\ stage = "snapshot")
  PROVE  IInv'
<1>1. TypeOK /\ OnlyPublished /\ BehindWindow /\ OneAtATime /\ GapRunsAreChained /\ EndsInTurn
  BY DEF IInv
<1>2. /\ log' = log /\ sent' = sent /\ rx' = rx /\ tracked' = tracked /\ cutoff' = cutoff
      /\ deferred' = deferred
      /\ replayPoint' = replayPoint /\ noting' = noting /\ fetchFrom' = fetchFrom
      /\ sentThen' = sentThen /\ todo' = todo /\ chain' = chain /\ gapDone' = gapDone
      /\ asked' = asked /\ missed' = missed
  BY DEF envVars, sessionVars
<1>3. PICK through : through = IF deferred # "none" \/ SnapshotEnds(answer) THEN MaxSeq ELSE cutoff
  OBVIOUS
<1>4. /\ snap' = answer /\ stage' = "skip"
      /\ Queue!SkipThrough(through) \/ UNCHANGED queueVars
  BY <1>3 DEF FinishRecovery
<1>5. through \in 0..MaxSeq
  BY <1>1, <1>3, MaxSeqAssumption DEF TypeOK
<1>6. /\ next' = next /\ held' = held /\ replayed' = replayed /\ timer' = timer
      /\ gapRuns' = gapRuns /\ disposed' = disposed /\ delivered' = delivered
      /\ loop' = loop \/ loop' = [by |-> "skipThrough", cutoff |-> through, released |-> FALSE]
      /\ out' = 0 \/ out' = out
  BY <1>4 DEF Queue!SkipThrough, queueVars
<1>7. /\ Idle /\ ~gapDone /\ loop = Queue!NoLoop /\ loop.by = "none" /\ loop.cutoff = 0
  BY NoLoopType DEF Quiet, Idle, Queue!Idle
<1>8. /\ loop' \in Loops /\ (loop'.by = "none" => loop' = Queue!NoLoop) /\ loop'.by # "accept"
      /\ loop'.cutoff \in {0, through}
  <2>1. loop \in Loops
    BY <1>1, QueueTypes
  <2>2. CASE loop' = loop
    BY <1>7, <2>1, <2>2
  <2>3. CASE loop' = [by |-> "skipThrough", cutoff |-> through, released |-> FALSE]
    BY <1>5, <2>3 DEF Loops, Queue!Callers
  <2> QED
    BY <1>6, <2>2, <2>3
<1>9. TypeOK'
  <2>1. Queue!TypeOK'
    <3>1. /\ next' \in 1..(MaxSeq + 1) /\ held' \subseteq Seqs /\ replayed' \subseteq held'
          /\ gapRuns' \in Seq(Seqs) /\ disposed' \in BOOLEAN /\ delivered' \subseteq Seqs
          /\ timer' \in BOOLEAN
      BY <1>1, <1>6, QueueTypes, MaxSeqAssumption
    <3>2. out' \in 0..MaxSeq
      BY <1>1, <1>6, QueueTypes, MaxSeqAssumption
    <3> QED
      BY <1>8, <3>1, <3>2, QueueTypesNext
  <2>2. localEnd' \in {"none"} \cup TerminalStates
    BY <1>1 DEF TypeOK
  <2> QED
    BY <1>1, <1>2, <1>4, <2>1, <2>2 DEF TypeOK
<1>10. OnlyPublished' /\ BehindWindow' /\ GapRunsAreChained'
  BY <1>1, <1>2, <1>4, <1>6, <1>8 DEF OnlyPublished, BehindWindow, GapRunsAreChained
<1>11. OneAtATime' /\ EndsInTurn'
  BY <1>1, <1>2, <1>4, <1>6, <1>7 DEF OneAtATime, EndsInTurn, Finishing, Terminal
<1>12. ASSUME ~Ending' PROVE SkipsTheMissed'
  <2>1. /\ ~Terminal(rx) /\ deferred = "none" /\ ~SnapshotEnds(answer) /\ localEnd' = "none"
    BY <1>2, <1>4, <1>12 DEF Ending, Terminal, Finishing, SnapshotEnds
  <2>2. stage = "snapshot" /\ through = cutoff
    BY <1>3, <2>1 DEF TerminalStates
  <2>3. SkipsTheMissed
    BY <2>1, <2>2 DEF IInv, Ending, Finishing
  <2>4. \A n : Covered(n) <=> Covered(n)'
    BY <1>2, <1>6 DEF Covered, Known
  <2>5. Covered(loop'.cutoff)
    <3>1. Covered(0) /\ Covered(cutoff)
      BY <2>2, <2>3, SeqsAreNat DEF Covered, SkipsTheMissed
    <3> QED
      BY <1>8, <2>2, <3>1
  <2> QED
    BY <1>2, <1>4, <1>6, <1>7, <2>2, <2>3, <2>4, <2>5 DEF SkipsTheMissed
<1>13. Good(rx, delivered)'
  BY <1>2, <1>6, GoodRests
<1> QED
  BY <1>9, <1>10, <1>11, <1>12, <1>13 DEF IInv

\* The snapshot answers.
LEMMA SnapshotAnswersKeeps ==
  ASSUME IInv, SnapshotAnswers
  PROVE  IInv'
<1>1. PICK answer \in Snapshots : FinishRecovery(answer)
  BY DEF SnapshotAnswers
<1>2. answer \in [exchanges : SUBSET Exchanges, st : States \cup {"none"}]
  <2>1. tracked \subseteq Exchanges
    BY DEF IInv, TypeOK
  <2> QED
    BY <2>1 DEF Snapshots, NoSnapshot
<1> QED
  BY <1>1, <1>2, FinishRecoveryKeeps DEF SnapshotAnswers

\* The recorded outcomes apply.
LEMMA ApplyOutcomesKeeps ==
  ASSUME IInv, ApplyOutcomes
  PROVE  /\ IInv' /\ rx'.state = rx.state
         /\ Moves(rx, rx', held \cup delivered \cup delivered')
<1>1. TypeOK /\ OnlyPublished /\ BehindWindow /\ OneAtATime /\ GapRunsAreChained /\ EndsInTurn
      /\ Good(rx, delivered)
  BY DEF IInv
<1>2. /\ Idle /\ stage = "skip" /\ stage' = "deferred"
      /\ rx' = ApplyRecordedOutcomes(rx, snap.exchanges, held)
      /\ UNCHANGED queueVars /\ log' = log /\ sent' = sent /\ tracked' = tracked
      /\ cutoff' = cutoff /\ deferred' = deferred /\ snap' = snap /\ localEnd' = localEnd
      /\ replayPoint' = replayPoint /\ noting' = noting /\ fetchFrom' = fetchFrom
      /\ sentThen' = sentThen /\ todo' = todo /\ chain' = chain /\ gapDone' = gapDone
      /\ asked' = asked /\ missed' = missed
  BY DEF ApplyOutcomes, envVars, sessionVars
<1>3. held \subseteq Seqs /\ delivered \subseteq Seqs /\ snap.exchanges \subseteq Exchanges
  BY <1>1, QueueTypes DEF TypeOK
<1>4. PICK recorded \in SUBSET Exchanges : recorded = snap.exchanges
  BY <1>3
<1>5. PICK q : q = ApplyRecordedOutcomes(rx, recorded, held)
  OBVIOUS
<1>6. Good(q, delivered) /\ Moves(rx, q, delivered \cup held) /\ q.state = rx.state
  <2>1. held \in SUBSET Seqs /\ delivered \in SUBSET Seqs
    BY <1>3
  <2>2. Good(q, delivered)
    BY ONLY <1>1, <1>5, <2>1, ApplyRecordedOutcomesKeeps
  <2>3. Moves(rx, q, delivered \cup held)
    BY ONLY <1>1, <1>5, <2>1, ApplyRecordedOutcomesKeeps
  <2>4. q.state = rx.state
    BY ONLY <1>1, <1>5, <2>1, ApplyRecordedOutcomesKeeps
  <2> QED
    BY <2>2, <2>3, <2>4
<1>7. /\ Good(rx', delivered) /\ Moves(rx, rx', delivered \cup held) /\ rx'.state = rx.state
      /\ rx' \in ReceiverStates /\ rx'.unsettled \subseteq rx.unsettled
  BY <1>2, <1>4, <1>5, <1>6 DEF Good, Moves
<1>8. TypeOK'
  BY <1>1, <1>2, <1>7, QueueRests DEF TypeOK
<1>9. OnlyPublished' /\ BehindWindow' /\ OneAtATime' /\ GapRunsAreChained' /\ EndsInTurn'
  <2>1. OnlyPublished' /\ BehindWindow' /\ GapRunsAreChained'
    BY <1>1, <1>2, <1>7, QueueRests DEF OnlyPublished, BehindWindow, GapRunsAreChained
  <2>2. OneAtATime'
    <3>1. loop.cutoff = 0
      BY <1>2, NoLoopType DEF Idle, Queue!Idle
    <3> QED
      BY <1>1, <1>2, <1>7, <3>1, QueueRests DEF OneAtATime, Terminal
  <2>3. EndsInTurn'
    BY <1>1, <1>2, <1>7 DEF EndsInTurn, Terminal, Finishing
  <2> QED
    BY <2>1, <2>2, <2>3
<1>10. ASSUME ~Ending' PROVE SkipsTheMissed'
  <2>1. SkipsTheMissed
    BY <1>2, <1>7, <1>10 DEF IInv, Ending, Terminal, Finishing, SnapshotEnds
  <2>2. \A n : Covered(n) <=> Covered(n)'
    BY <1>1, <1>2, QueueRests DEF Covered, Known
  <2> QED
    BY <1>1, <1>2, <2>1, <2>2, QueueRests DEF SkipsTheMissed
<1>11. Good(rx, delivered)'
  <2>1. delivered' = delivered
    BY <1>1, <1>2, QueueRests
  <2> QED
    BY <1>2, <1>7, <2>1, GoodStays
<1>12. Moves(rx, rx', held \cup delivered \cup delivered')
  <2>1. held \cup delivered \cup delivered' = delivered \cup held
    BY <1>1, <1>2, QueueRests
  <2> QED
    BY <1>7, <2>1
<1> QED
  BY <1>7, <1>8, <1>9, <1>10, <1>11, <1>12 DEF IInv

\* An end from outside the queue's callbacks, or a change that is none: dispose() runs
\* exactly if the session has ended.
LEMMA OutsideTheQueue ==
  ASSUME IInv, Idle, NEW S, Good(rx', delivered), Moves(rx, rx', S), DisposeOnEnd
  PROVE  /\ Queue!TypeOK' /\ Idle' /\ loop' = loop /\ loop.cutoff = 0 /\ loop.by = "none"
         /\ next' = next /\ delivered' = delivered /\ gapRuns' = gapRuns
         /\ held' \subseteq held /\ replayed' \subseteq replayed
         /\ disposed' = Terminal(rx') /\ (disposed' => held' = {})
         /\ (~Terminal(rx') => held' = held /\ replayed' = replayed)
         /\ rx' \in ReceiverStates /\ rx'.unsettled \subseteq rx.unsettled
         /\ Terminal(rx) => rx' = rx
<1>1. TypeOK /\ OneAtATime
  BY DEF IInv
<1>2. rx' \in ReceiverStates /\ rx'.unsettled \subseteq rx.unsettled /\ (Terminal(rx) => rx' = rx)
  BY DEF Good, Moves
<1>3. loop = Queue!NoLoop /\ loop.cutoff = 0 /\ loop.by = "none"
  BY NoLoopType DEF Idle, Queue!Idle
<1>4. disposed \in BOOLEAN /\ (disposed <=> Terminal(rx)) /\ Terminal(rx) \in BOOLEAN
      /\ Terminal(rx') \in BOOLEAN
  BY <1>1, QueueTypes DEF OneAtATime, Terminal
<1>5. CASE Terminal(rx') /\ ~disposed
  <2>1. /\ disposed' = TRUE /\ held' = {} /\ replayed' = {} /\ timer' = FALSE
        /\ loop' = Queue!NoLoop /\ out' = 0
        /\ next' = next /\ gapRuns' = gapRuns /\ delivered' = delivered
    BY <1>5 DEF DisposeOnEnd, Queue!Dispose, Queue!DisposeQueue
  <2>2. Queue!TypeOK'
    <3>1. /\ next' \in 1..(MaxSeq + 1) /\ gapRuns' \in Seq(Seqs) /\ delivered' \subseteq Seqs
          /\ loop' \in Loops /\ 0 \in 0..MaxSeq
      BY <1>1, <2>1, QueueTypes, MaxSeqAssumption, NoLoopType
    <3> QED
      BY <2>1, <3>1, QueueTypesNext
  <2>3. Terminal(rx') = TRUE
    BY <1>4, <1>5
  <2> QED
    BY <1>2, <1>3, <1>5, <2>1, <2>2, <2>3 DEF Idle, Queue!Idle
<1>6. CASE ~(Terminal(rx') /\ ~disposed)
  <2>1. UNCHANGED queueVars
    BY <1>6 DEF DisposeOnEnd
  <2>2. /\ Queue!TypeOK' /\ next' = next /\ held' = held /\ replayed' = replayed
        /\ gapRuns' = gapRuns /\ disposed' = disposed /\ loop' = loop /\ delivered' = delivered
        /\ Idle' = Idle
    BY <1>1, <2>1, QueueRests
  <2>3. disposed <=> Terminal(rx')
    <3>1. disposed => Terminal(rx')
      BY <1>2, <1>4 DEF Terminal
    <3> QED
      BY <1>6, <3>1
  <2>4. disposed' = Terminal(rx')
    BY ONLY <1>4, <2>2, <2>3
  <2>5. disposed' => held' = {}
    BY <1>1, <2>2 DEF OneAtATime
  <2> QED
    BY <1>2, <1>3, <2>2, <2>4, <2>5
<1> QED
  BY <1>5, <1>6

\* applyRecordedState: the session ends as recorded, or opens.
LEMMA ApplyRecordedStateKeeps ==
  ASSUME TypeOK, NEW r, NEW S \in SUBSET Seqs, Good(r, S), NEW st \in States \cup {"none"},
         NEW behind \in SUBSET Seqs, NEW q, q = ApplyRecordedState(r, st, behind)
  PROVE  /\ Good(q, S) /\ Moves(r, q, S \cup behind)
         /\ st \in TerminalStates => Terminal(q)
         /\ ~Terminal(r) /\ Terminal(q) => st \in TerminalStates /\ q.state = st
<1>1. CASE st \in TerminalStates
  <2>1. q = End(r, st, behind)
    BY <1>1 DEF ApplyRecordedState
  <2>2. Good(q, S)
    BY <1>1, <2>1, EndKeeps
  <2>3. Moves(r, q, S \cup behind) /\ Terminal(q) /\ (~Terminal(r) => q.state = st)
    BY <1>1, <2>1, EndKeeps
  <2> QED
    BY <1>1, <2>2, <2>3
<1>2. CASE st \notin TerminalStates /\ st = "ready" /\ r.state = "open"
  <2>1. q = [r EXCEPT !.state = "ready"]
    BY <1>2 DEF ApplyRecordedState
  <2>2. r \in ReceiverStates
    BY DEF Good
  <2>3. /\ q \in ReceiverStates /\ q.unsettled = r.unsettled /\ q.later = r.later
        /\ q.arts = r.arts /\ q.outcome = r.outcome /\ q.state = "ready"
    BY <2>1, <2>2 DEF ReceiverStates, States
  <2>4. ~Terminal(q) /\ ~Terminal(r)
    BY <1>2, <2>3 DEF Terminal, TerminalStates
  <2> QED
    BY <1>2, <2>3, <2>4 DEF Good, Moves
<1>3. CASE st \notin TerminalStates /\ ~(st = "ready" /\ r.state = "open")
  <2>1. q = r
    BY <1>3 DEF ApplyRecordedState
  <2> QED
    BY <1>3, <2>1, StayingMoves
<1> QED
  BY <1>1, <1>2, <1>3

\* What the steps that may end the session outside the queue's callbacks keep, whatever the
\* recovery they are part of does next.
LEMMA EndingKeeps ==
  ASSUME IInv, Idle, NEW S, Good(rx', delivered), Moves(rx, rx', S), DisposeOnEnd,
         UNCHANGED <<envVars, tracked, todo, replayPoint, noting, fetchFrom, missed>>,
         stage' # "history"
  PROVE  OnlyPublished' /\ BehindWindow' /\ Good(rx, delivered)'
<1>1. OnlyPublished /\ BehindWindow
  BY DEF IInv
<1>2. /\ loop' = loop /\ loop.by = "none"
      /\ next' = next /\ delivered' = delivered /\ gapRuns' = gapRuns
      /\ held' \subseteq held /\ rx'.unsettled \subseteq rx.unsettled
  BY OutsideTheQueue
<1>3. log' = log /\ sent' = sent
  BY DEF envVars
<1>4. OnlyPublished'
  BY <1>1, <1>2, <1>3 DEF OnlyPublished
<1>5. BehindWindow'
  BY <1>1, <1>2 DEF BehindWindow
<1>6. Good(rx, delivered)'
  BY <1>2, <1>3, GoodStays
<1> QED
  BY <1>4, <1>5, <1>6

\* The deferred end applies.
LEMMA ApplyDeferredKeeps ==
  ASSUME IInv, ApplyDeferred
  PROVE  /\ IInv' /\ Moves(rx, rx', held \cup delivered \cup delivered')
         /\ ~Terminal(rx) /\ Terminal(rx') => deferred # "none" /\ rx'.state = deferred
<1>1. TypeOK /\ OneAtATime /\ GapRunsAreChained /\ EndsInTurn /\ Good(rx, delivered)
  BY DEF IInv
<1>2. /\ stage = "deferred" /\ stage' = "state" /\ DisposeOnEnd
      /\ rx' = IF deferred = "none" THEN rx ELSE End(rx, deferred, held)
      /\ UNCHANGED envVars /\ log' = log /\ sent' = sent /\ tracked' = tracked
      /\ cutoff' = cutoff /\ deferred' = deferred /\ snap' = snap /\ localEnd' = localEnd
      /\ replayPoint' = replayPoint /\ noting' = noting /\ fetchFrom' = fetchFrom
      /\ sentThen' = sentThen /\ todo' = todo /\ chain' = chain /\ gapDone' = gapDone
      /\ asked' = asked /\ missed' = missed
  BY DEF ApplyDeferred, envVars, sessionVars
<1>3. /\ Idle /\ held \subseteq Seqs /\ delivered \subseteq Seqs
      /\ deferred # "none" => deferred \in TerminalStates
  BY <1>1, <1>2, QueueTypes DEF OneAtATime, TypeOK, TerminalKinds, TerminalStates
<1>4. /\ Good(rx', delivered) /\ Moves(rx, rx', delivered \cup held)
      /\ deferred # "none" => Terminal(rx')
      /\ ~Terminal(rx) /\ Terminal(rx') => deferred # "none" /\ rx'.state = deferred
  <2>1. CASE deferred = "none"
    BY <1>1, <1>2, <2>1, StayingMoves
  <2>2. CASE deferred # "none"
    <3>1. PICK q : q = End(rx, deferred, held)
      OBVIOUS
    <3>2. /\ Good(q, delivered) /\ Moves(rx, q, delivered \cup held) /\ Terminal(q)
          /\ ~Terminal(rx) => q.state = deferred
      BY <1>1, <1>3, <2>2, <3>1, EndKeeps
    <3> QED
      BY <1>2, <2>2, <3>1, <3>2
  <2> QED
    BY <2>1, <2>2
<1>5. /\ Queue!TypeOK' /\ Idle' /\ loop' = loop /\ loop.cutoff = 0
      /\ next' = next /\ delivered' = delivered /\ gapRuns' = gapRuns
      /\ disposed' = Terminal(rx') /\ (disposed' => held' = {})
      /\ (~Terminal(rx') => held' = held /\ replayed' = replayed)
      /\ rx' \in ReceiverStates /\ (Terminal(rx) => rx' = rx)
  BY <1>2, <1>3, <1>4, OutsideTheQueue
<1>6. TypeOK'
  BY <1>1, <1>2, <1>5 DEF TypeOK
<1>7. OnlyPublished' /\ BehindWindow' /\ Good(rx, delivered)'
  BY <1>2, <1>3, <1>4, EndingKeeps
<1>8. OneAtATime' /\ GapRunsAreChained'
  BY <1>1, <1>2, <1>5 DEF OneAtATime, GapRunsAreChained, Terminal
<1>9. EndsInTurn'
  BY <1>1, <1>2, <1>4, <1>5 DEF EndsInTurn, Finishing, Terminal
<1>10. ASSUME ~Ending' PROVE SkipsTheMissed'
  <2>1. ~Terminal(rx') /\ SkipsTheMissed
    BY <1>2, <1>5, <1>10 DEF IInv, Ending, Finishing, SnapshotEnds, Terminal
  <2>2. \A n : Covered(n) <=> Covered(n)'
    BY <1>2, <1>5, <2>1 DEF Covered, Known
  <2> QED
    BY <1>2, <1>5, <2>1, <2>2 DEF SkipsTheMissed
<1>11. Moves(rx, rx', held \cup delivered \cup delivered')
  <2>1. held \cup delivered \cup delivered' = delivered \cup held
    BY <1>5
  <2> QED
    BY <1>4, <2>1
<1> QED
  BY <1>4, <1>6, <1>7, <1>8, <1>9, <1>10, <1>11 DEF IInv

\* The recorded state applies.
LEMMA ApplyStateKeeps ==
  ASSUME IInv, ApplyState
  PROVE  /\ IInv' /\ Moves(rx, rx', held \cup delivered \cup delivered')
         /\ ~Terminal(rx) /\ Terminal(rx') =>
              deferred = "none" /\ SnapshotEnds(snap) /\ rx'.state = snap.st
<1>1. TypeOK /\ OneAtATime /\ GapRunsAreChained /\ EndsInTurn /\ Good(rx, delivered)
  BY DEF IInv
<1>2. /\ stage = "state" /\ stage' = "localEnd" /\ DisposeOnEnd
      /\ rx' = ApplyRecordedState(rx, snap.st, held)
      /\ UNCHANGED envVars /\ log' = log /\ sent' = sent /\ tracked' = tracked
      /\ cutoff' = cutoff /\ deferred' = deferred /\ snap' = snap /\ localEnd' = localEnd
      /\ replayPoint' = replayPoint /\ noting' = noting /\ fetchFrom' = fetchFrom
      /\ sentThen' = sentThen /\ todo' = todo /\ chain' = chain /\ gapDone' = gapDone
      /\ asked' = asked /\ missed' = missed
  BY DEF ApplyState, envVars, sessionVars
<1>3. /\ Idle /\ held \subseteq Seqs /\ delivered \subseteq Seqs
      /\ snap.st \in States \cup {"none"}
  BY <1>1, <1>2, QueueTypes DEF OneAtATime, TypeOK
<1>4. /\ Good(rx', delivered) /\ Moves(rx, rx', delivered \cup held)
      /\ SnapshotEnds(snap) => Terminal(rx')
      /\ ~Terminal(rx) /\ Terminal(rx') => SnapshotEnds(snap) /\ rx'.state = snap.st
  <2>1. PICK q : q = ApplyRecordedState(rx, snap.st, held)
    OBVIOUS
  <2>2. /\ Good(q, delivered) /\ Moves(rx, q, delivered \cup held)
        /\ snap.st \in TerminalStates => Terminal(q)
        /\ ~Terminal(rx) /\ Terminal(q) => snap.st \in TerminalStates /\ q.state = snap.st
    BY <1>1, <1>3, <2>1, ApplyRecordedStateKeeps
  <2> QED
    BY <1>2, <2>1, <2>2 DEF SnapshotEnds
<1>5. /\ Queue!TypeOK' /\ Idle' /\ loop' = loop /\ loop.cutoff = 0
      /\ next' = next /\ delivered' = delivered /\ gapRuns' = gapRuns
      /\ disposed' = Terminal(rx') /\ (disposed' => held' = {})
      /\ (~Terminal(rx') => held' = held /\ replayed' = replayed)
      /\ rx' \in ReceiverStates /\ (Terminal(rx) => rx' = rx)
  BY <1>2, <1>3, <1>4, OutsideTheQueue
<1>6. TypeOK'
  BY <1>1, <1>2, <1>5 DEF TypeOK
<1>7. OnlyPublished' /\ BehindWindow' /\ Good(rx, delivered)'
  BY <1>2, <1>3, <1>4, EndingKeeps
<1>8. OneAtATime' /\ GapRunsAreChained'
  BY <1>1, <1>2, <1>5 DEF OneAtATime, GapRunsAreChained, Terminal
<1>9. EndsInTurn'
  BY <1>1, <1>2, <1>4, <1>5 DEF EndsInTurn, Finishing, Terminal, SnapshotEnds
<1>10. ASSUME ~Ending' PROVE SkipsTheMissed'
  <2>1. ~Terminal(rx') /\ SkipsTheMissed
    BY <1>2, <1>5, <1>10 DEF IInv, Ending, Finishing, SnapshotEnds, Terminal
  <2>2. \A n : Covered(n) <=> Covered(n)'
    BY <1>2, <1>5, <2>1 DEF Covered, Known
  <2> QED
    BY <1>2, <1>5, <2>1, <2>2 DEF SkipsTheMissed
<1>11. Moves(rx, rx', held \cup delivered \cup delivered')
  <2>1. held \cup delivered \cup delivered' = delivered \cup held
    BY <1>5
  <2> QED
    BY <1>4, <2>1
<1>12. ~Terminal(rx) => deferred = "none"
  BY <1>1, <1>2 DEF EndsInTurn
<1> QED
  BY <1>4, <1>6, <1>7, <1>8, <1>9, <1>10, <1>11, <1>12 DEF IInv

\* The local end applies last, and the next call of the chain may start.
LEMMA ApplyLocalEndKeeps ==
  ASSUME IInv, ApplyLocalEnd
  PROVE  /\ IInv' /\ Moves(rx, rx', held \cup delivered \cup delivered')
         /\ ~Terminal(rx) /\ Terminal(rx') =>
              deferred = "none" /\ ~SnapshotEnds(snap) /\ rx'.state = localEnd
<1>1. TypeOK /\ OneAtATime /\ GapRunsAreChained /\ EndsInTurn /\ Good(rx, delivered)
  BY DEF IInv
<1>2. /\ stage = "localEnd" /\ stage' = "none" /\ DisposeOnEnd
      /\ rx' = IF localEnd = "none" THEN rx ELSE End(rx, localEnd, held)
      /\ ChainPops /\ snap' = NoSnapshot /\ cutoff' = 0 /\ deferred' = "none"
      /\ UNCHANGED envVars /\ log' = log /\ sent' = sent /\ tracked' = tracked
      /\ localEnd' = localEnd
      /\ replayPoint' = replayPoint /\ noting' = noting /\ fetchFrom' = fetchFrom
      /\ sentThen' = sentThen /\ todo' = todo /\ asked' = asked /\ missed' = missed
  BY DEF ApplyLocalEnd, envVars
<1>3. /\ Idle /\ held \subseteq Seqs /\ delivered \subseteq Seqs
      /\ localEnd # "none" => localEnd \in TerminalStates
  BY <1>1, <1>2, QueueTypes DEF OneAtATime, TypeOK
<1>4. /\ Good(rx', delivered) /\ Moves(rx, rx', delivered \cup held)
      /\ localEnd # "none" => Terminal(rx')
      /\ ~Terminal(rx) /\ Terminal(rx') => rx'.state = localEnd
  <2>1. CASE localEnd = "none"
    BY <1>1, <1>2, <2>1, StayingMoves
  <2>2. CASE localEnd # "none"
    <3>1. PICK q : q = End(rx, localEnd, held)
      OBVIOUS
    <3>2. /\ Good(q, delivered) /\ Moves(rx, q, delivered \cup held) /\ Terminal(q)
          /\ ~Terminal(rx) => q.state = localEnd
      BY <1>1, <1>3, <2>2, <3>1, EndKeeps
    <3> QED
      BY <1>2, <2>2, <3>1, <3>2
  <2> QED
    BY <2>1, <2>2
<1>5. /\ Queue!TypeOK' /\ Idle' /\ loop' = loop /\ loop.cutoff = 0
      /\ next' = next /\ delivered' = delivered /\ gapRuns' = gapRuns
      /\ disposed' = Terminal(rx') /\ (disposed' => held' = {})
      /\ (~Terminal(rx') => held' = held /\ replayed' = replayed)
      /\ rx' \in ReceiverStates /\ (Terminal(rx) => rx' = rx)
  BY <1>2, <1>3, <1>4, OutsideTheQueue
<1>6. /\ chain # <<>> /\ todo = {} /\ ~gapDone
      /\ chain' \in Seq(Calls) /\ gapDone' \in BOOLEAN /\ GapRunsAreChained'
  BY <1>1, <1>2, <1>5, PopKeepsChain DEF OneAtATime
<1>7. TypeOK'
  <2>1. snap' \in [exchanges : SUBSET Exchanges, st : States \cup {"none"}] /\ cutoff' \in 0..MaxSeq
    BY <1>2, MaxSeqAssumption DEF NoSnapshot
  <2> QED
    BY <1>1, <1>2, <1>5, <1>6, <2>1 DEF TypeOK, Calls
<1>8. OnlyPublished' /\ BehindWindow' /\ Good(rx, delivered)'
  BY <1>2, <1>3, <1>4, EndingKeeps
<1>9. OneAtATime'
  BY <1>1, <1>2, <1>5, <1>6 DEF OneAtATime, Terminal
<1>10. EndsInTurn'
  BY <1>2, <1>4 DEF EndsInTurn, Terminal
<1>11. ~Terminal(rx) => deferred = "none" /\ ~SnapshotEnds(snap)
  BY <1>1, <1>2 DEF EndsInTurn
<1>12. ASSUME ~Ending' PROVE SkipsTheMissed'
  <2>1. ~Terminal(rx') /\ ~Terminal(rx) /\ localEnd = "none"
    BY <1>4, <1>5, <1>12 DEF Ending, Terminal
  <2>2. SkipsTheMissed
    BY <1>11, <2>1 DEF IInv, Ending
  <2>3. \A n : Covered(n) <=> Covered(n)'
    BY <1>2, <1>5, <2>1 DEF Covered, Known
  <2>4. gapDone' => Covered(Head(gapRuns))
    BY <1>2, <1>6, <2>2 DEF SkipsTheMissed, ChainPops
  <2> QED
    BY <1>2, <1>5, <2>1, <2>2, <2>3, <2>4 DEF SkipsTheMissed
<1>13. Moves(rx, rx', held \cup delivered \cup delivered')
  <2>1. held \cup delivered \cup delivered' = delivered \cup held
    BY <1>5
  <2> QED
    BY <1>4, <2>1
<1> QED
  BY <1>4, <1>6, <1>7, <1>8, <1>9, <1>10, <1>11, <1>12, <1>13 DEF IInv

-----------------------------------------------------------------------------
(* Outside events.                                                           *)

\* A message arrives live.
LEMMA ReceiveLiveKeeps ==
  ASSUME IInv, NEW s \in Seqs, ReceiveLive(s)
  PROVE  IInv'
<1>1. Receive(s, FALSE) /\ s <= sent /\ Steady /\ todo' = todo
  BY DEF ReceiveLive, Steady
<1>2. stage \notin {"deferred", "state", "localEnd"}
  BY DEF ReceiveLive, Quiet
<1>3. PICK isReplay \in BOOLEAN : isReplay = FALSE
  OBVIOUS
<1> QED
  BY <1>1, <1>2, <1>3, ReceiveKeeps

\* The session ends while no recovery is open: a notice of the backend, or a local end.
LEMMA EndAtRest ==
  ASSUME IInv, Quiet, stage = "none", NEW st \in TerminalStates, rx' = End(rx, st, held),
         DisposeOnEnd, UNCHANGED <<envVars, tracked, recoveryVars, sessionVars>>
  PROVE  IInv' /\ Moves(rx, rx', held \cup delivered \cup delivered')
<1>1. TypeOK /\ OneAtATime /\ GapRunsAreChained /\ EndsInTurn /\ Good(rx, delivered)
  BY DEF IInv
<1>2. /\ log' = log /\ sent' = sent /\ tracked' = tracked /\ stage' = stage /\ cutoff' = cutoff
      /\ deferred' = deferred /\ snap' = snap /\ localEnd' = localEnd
      /\ replayPoint' = replayPoint /\ noting' = noting /\ fetchFrom' = fetchFrom
      /\ sentThen' = sentThen /\ todo' = todo /\ chain' = chain /\ gapDone' = gapDone
      /\ asked' = asked /\ missed' = missed
  BY DEF envVars, recoveryVars, sessionVars
<1>3. Idle /\ held \subseteq Seqs /\ delivered \subseteq Seqs
  BY <1>1, QueueTypes DEF Quiet
<1>4. PICK q : q = End(rx, st, held)
  OBVIOUS
<1>5. Good(q, delivered) /\ Moves(rx, q, delivered \cup held) /\ Terminal(q)
  BY <1>1, <1>3, <1>4, EndKeeps
<1>6. Good(rx', delivered) /\ Moves(rx, rx', delivered \cup held) /\ Terminal(rx')
  BY <1>4, <1>5
<1>7. /\ Queue!TypeOK' /\ Idle' /\ loop' = loop /\ loop.cutoff = 0
      /\ next' = next /\ delivered' = delivered /\ gapRuns' = gapRuns
      /\ disposed' = Terminal(rx') /\ (disposed' => held' = {})
      /\ rx' \in ReceiverStates
  BY <1>3, <1>6, OutsideTheQueue
<1>8. TypeOK'
  BY <1>1, <1>2, <1>7 DEF TypeOK
<1>9. OnlyPublished' /\ BehindWindow' /\ Good(rx, delivered)'
  BY <1>2, <1>3, <1>6, EndingKeeps
<1>10. OneAtATime' /\ GapRunsAreChained'
  <2>1. disposed' <=> Terminal(rx)'
    BY <1>7 DEF Terminal
  <2>2. OneAtATime'
    BY <1>1, <1>2, <1>7, <2>1 DEF OneAtATime
  <2>3. GapRunsAreChained'
    BY <1>1, <1>2, <1>7 DEF GapRunsAreChained
  <2> QED
    BY <2>2, <2>3
<1>11. EndsInTurn' /\ Ending'
  BY <1>2, <1>6 DEF EndsInTurn, Ending, Terminal
<1>12. Moves(rx, rx', held \cup delivered \cup delivered')
  <2>1. held \cup delivered \cup delivered' = delivered \cup held
    BY <1>7
  <2> QED
    BY <1>6, <2>1
<1> QED
  BY <1>8, <1>9, <1>10, <1>11, <1>12 DEF IInv

\* A notice of the backend: it is deferred while a recovery is open.
LEMMA ReceiveNoticeKeeps ==
  ASSUME IInv, NEW st \in TerminalKinds, ReceiveNotice(st)
  PROVE  IInv' /\ Moves(rx, rx', held \cup delivered \cup delivered')
<1>1. TypeOK /\ OnlyPublished /\ BehindWindow /\ OneAtATime /\ GapRunsAreChained /\ EndsInTurn
  BY DEF IInv
<1>2. /\ Quiet \/ (Idle /\ stage = "replay")
      /\ UNCHANGED <<envVars, tracked, stage, cutoff, snap, localEnd, sessionVars>>
  BY DEF ReceiveNotice
<1>3. /\ log' = log /\ sent' = sent /\ tracked' = tracked /\ stage' = stage /\ cutoff' = cutoff
      /\ snap' = snap /\ localEnd' = localEnd
      /\ replayPoint' = replayPoint /\ noting' = noting /\ fetchFrom' = fetchFrom
      /\ sentThen' = sentThen /\ todo' = todo /\ chain' = chain /\ gapDone' = gapDone
      /\ asked' = asked /\ missed' = missed
  BY <1>2 DEF envVars, sessionVars
<1>4. CASE RecoveryOpen
  <2>1. /\ stage \in {"history", "snapshot", "replay"}
        /\ deferred' \in {st, deferred} /\ rx' = rx /\ UNCHANGED queueVars
    BY <1>2, <1>4 DEF ReceiveNotice, RecoveryOpen, Quiet
  <2>2. TypeOK'
    BY <1>1, <1>3, <2>1, QueueRests DEF TypeOK
  <2>3. OnlyPublished' /\ BehindWindow' /\ OneAtATime' /\ GapRunsAreChained'
    BY <1>1, <1>3, <2>1, QueueRests DEF OnlyPublished, BehindWindow, OneAtATime,
       GapRunsAreChained, Terminal
  <2>4. EndsInTurn'
    BY <1>1, <1>3, <2>1 DEF EndsInTurn, Finishing, Terminal
  <2>5. ASSUME ~Ending' PROVE SkipsTheMissed'
    <3>1. SkipsTheMissed
      BY <2>1, <2>5 DEF IInv, Ending, Terminal, Finishing
    <3>2. \A n : Covered(n) <=> Covered(n)'
      BY <1>1, <1>3, <2>1, QueueRests DEF Covered, Known
    <3> QED
      BY <1>1, <1>3, <2>1, <3>1, <3>2, QueueRests DEF SkipsTheMissed
  <2>6. Good(rx, delivered)'
    BY <1>1, <1>3, <2>1, QueueRests, GoodRests
  <2> QED
    BY <2>1, <2>2, <2>3, <2>4, <2>5, <2>6, StayingMoves DEF IInv
<1>5. CASE ~RecoveryOpen
  <2>1. /\ Quiet /\ stage = "none" /\ rx' = End(rx, st, held) /\ DisposeOnEnd
        /\ deferred' = deferred
    BY <1>2, <1>5 DEF ReceiveNotice, RecoveryOpen, Quiet
  <2>2. UNCHANGED <<envVars, tracked, recoveryVars, sessionVars>>
    BY <1>2, <2>1 DEF recoveryVars
  <2>3. st \in TerminalStates
    BY DEF TerminalKinds, TerminalStates
  <2> QED
    BY <2>1, <2>2, <2>3, EndAtRest
<1> QED
  BY <1>4, <1>5

\* terminate.
LEMMA TerminateKeeps ==
  ASSUME IInv, NEW st \in TerminalStates, Terminate(st)
  PROVE  IInv' /\ Moves(rx, rx', held \cup delivered \cup delivered')
<1>1. TypeOK /\ OnlyPublished /\ BehindWindow /\ OneAtATime /\ GapRunsAreChained /\ EndsInTurn
  BY DEF IInv
<1>2. UNCHANGED <<envVars, tracked, sessionVars>>
  BY DEF Terminate
<1>3. CASE Quiet /\ stage = "none" /\ rx' = End(rx, st, held) /\ DisposeOnEnd /\ UNCHANGED recoveryVars
  BY <1>2, <1>3, EndAtRest
<1>4. CASE /\ Quiet /\ stage \in {"history", "snapshot"} /\ localEnd' = st
           /\ FinishRecovery(NoSnapshot) /\ UNCHANGED <<rx, cutoff, deferred>>
  <2>1. NoSnapshot \in [exchanges : SUBSET Exchanges, st : States \cup {"none"}]
    BY DEF NoSnapshot
  <2>2. UNCHANGED <<envVars, rx, tracked, cutoff, deferred, sessionVars>>
    BY <1>2, <1>4
  <2>3. IInv'
    BY <1>4, <2>1, <2>2, FinishRecoveryKeeps
  <2> QED
    BY <1>4, <2>3, StayingMoves
<1>5. CASE /\ Finishing /\ localEnd = "none" /\ localEnd' = st
           /\ UNCHANGED <<queueVars, rx, stage, cutoff, deferred, snap>>
  <2>1. /\ log' = log /\ sent' = sent /\ tracked' = tracked /\ stage' = stage /\ cutoff' = cutoff
        /\ snap' = snap /\ deferred' = deferred /\ rx' = rx
        /\ replayPoint' = replayPoint /\ noting' = noting /\ fetchFrom' = fetchFrom
        /\ sentThen' = sentThen /\ todo' = todo /\ chain' = chain /\ gapDone' = gapDone
        /\ asked' = asked /\ missed' = missed
    BY <1>2, <1>5 DEF envVars, sessionVars
  <2>2. TypeOK'
    BY <1>1, <1>5, <2>1, QueueRests DEF TypeOK
  <2>3. OnlyPublished' /\ BehindWindow' /\ OneAtATime' /\ GapRunsAreChained'
    BY <1>1, <1>5, <2>1, QueueRests DEF OnlyPublished, BehindWindow, OneAtATime,
       GapRunsAreChained, Terminal
  <2>4. EndsInTurn' /\ Ending'
    <3>1. Finishing' /\ localEnd' # "none"
      BY <1>5, <2>1 DEF Finishing, TerminalStates
    <3> QED
      BY <1>1, <2>1, <3>1 DEF EndsInTurn, Ending, Terminal, SnapshotEnds
  <2>5. Good(rx, delivered)'
    BY <1>1, <1>5, <2>1, QueueRests, GoodRests
  <2> QED
    BY <2>1, <2>2, <2>3, <2>4, <2>5, StayingMoves DEF IInv
<1> QED
  BY <1>3, <1>4, <1>5 DEF Terminate

\* A step that changes the receiver only, and does not end the session.
LEMMA ReceiverStepKeeps ==
  ASSUME IInv, UNCHANGED <<queueVars, envVars, recoveryVars, sessionVars>>,
         Good(rx', delivered), ~Terminal(rx), ~Terminal(rx'),
         tracked \subseteq tracked', tracked' \subseteq Exchanges, rx'.unsettled \subseteq tracked'
  PROVE  IInv'
<1>1. TypeOK /\ OnlyPublished /\ BehindWindow /\ OneAtATime /\ GapRunsAreChained /\ EndsInTurn
  BY DEF IInv
<1>2. /\ log' = log /\ sent' = sent /\ stage' = stage /\ cutoff' = cutoff
      /\ deferred' = deferred /\ snap' = snap /\ localEnd' = localEnd
      /\ replayPoint' = replayPoint /\ noting' = noting /\ fetchFrom' = fetchFrom
      /\ sentThen' = sentThen /\ todo' = todo /\ chain' = chain /\ gapDone' = gapDone
      /\ asked' = asked /\ missed' = missed
  BY DEF envVars, recoveryVars, sessionVars
<1>3. rx' \in ReceiverStates
  BY DEF Good
<1>4. TypeOK'
  BY <1>1, <1>2, <1>3, QueueRests DEF TypeOK
<1>5. OnlyPublished' /\ BehindWindow' /\ GapRunsAreChained'
  BY <1>1, <1>2, QueueRests DEF OnlyPublished, BehindWindow, GapRunsAreChained
<1>6. OneAtATime' /\ EndsInTurn'
  BY <1>1, <1>2, QueueRests DEF OneAtATime, EndsInTurn, Terminal, Finishing, SnapshotEnds
<1>7. ASSUME ~Ending' PROVE SkipsTheMissed'
  <2>1. SkipsTheMissed
    BY <1>2, <1>7 DEF IInv, Ending, Finishing, SnapshotEnds
  <2>2. \A n : Covered(n) <=> Covered(n)'
    BY <1>1, <1>2, QueueRests DEF Covered, Known
  <2> QED
    BY <1>1, <1>2, <2>1, <2>2, QueueRests DEF SkipsTheMissed
<1>8. Good(rx, delivered)'
  <2>1. delivered' = delivered
    BY <1>1, QueueRests
  <2> QED
    BY <1>2, <2>1, GoodStays
<1> QED
  BY <1>4, <1>5, <1>6, <1>7, <1>8 DEF IInv

\* An exchange is tracked: nothing of it has been published yet.
LEMMA TrackExchangeKeeps ==
  ASSUME IInv, NEW x \in Exchanges, TrackExchange(x)
  PROVE  /\ IInv' /\ x \notin tracked /\ tracked' = tracked \cup {x} /\ ~Terminal(rx) /\ ~Terminal(rx')
         /\ rx'.unsettled = rx.unsettled \cup {x} /\ rx'.outcome = rx.outcome
<1>1. TypeOK /\ OnlyPublished /\ Good(rx, delivered)
  BY DEF IInv
<1>2. /\ x \notin tracked /\ rx.state \in {"open", "ready"} /\ tracked' = tracked \cup {x}
      /\ rx' = [rx EXCEPT !.unsettled = rx.unsettled \cup {x}]
      /\ UNCHANGED <<queueVars, envVars, recoveryVars, sessionVars>>
  BY DEF TrackExchange
<1>3. rx \in ReceiverStates
  BY <1>1 DEF Good
<1>4. /\ rx' \in ReceiverStates
      /\ rx'.state = rx.state /\ rx'.arts = rx.arts /\ rx'.later = rx.later
      /\ rx'.unsettled = rx.unsettled \cup {x} /\ rx'.outcome = rx.outcome
  BY <1>2, <1>3 DEF ReceiverStates
<1>5. ~Terminal(rx) /\ ~Terminal(rx')
  BY <1>2, <1>4 DEF Terminal, TerminalStates
<1>6. ArtifactsOf(x, delivered) = {}
  <2>1. \A s \in delivered : log[s].x # x
    BY <1>1, <1>2, QueueTypes, ExchangesAssumption DEF OnlyPublished
  <2> QED
    BY <2>1 DEF ArtifactsOf
<1>7. Good(rx', delivered)
  BY <1>1, <1>4, <1>5, <1>6 DEF Good
<1>8. tracked' \subseteq Exchanges /\ rx'.unsettled \subseteq tracked'
  BY <1>1, <1>2, <1>4 DEF TypeOK, OnlyPublished
<1> QED
  BY <1>2, <1>4, <1>5, <1>7, <1>8, ReceiverStepKeeps

\* An exchange that could not be sent is settled.
LEMMA ForgetExchangeKeeps ==
  ASSUME IInv, NEW x \in Exchanges, ForgetExchange(x)
  PROVE  /\ IInv' /\ tracked' = tracked /\ Terminal(rx') = Terminal(rx) /\ x \in rx.unsettled
         /\ rx'.unsettled = rx.unsettled \ {x}
         /\ rx'.outcome[x].by = "unsent"
         /\ \A y \in Exchanges \ {x} : rx'.outcome[y] = rx.outcome[y]
<1>1. TypeOK /\ OnlyPublished /\ Good(rx, delivered)
  BY DEF IInv
<1>2. /\ x \in rx.unsettled /\ rx' = Settle(rx, x, "failed", {}, "unsent")
      /\ UNCHANGED <<queueVars, envVars, tracked, recoveryVars, sessionVars>>
  BY DEF ForgetExchange
<1>3. rx \in ReceiverStates
  BY <1>1 DEF Good
<1>4. PICK st \in OutcomeStates, arts \in SUBSET Seqs, by \in {"message", "record", "end", "unsent"} :
        st = "failed" /\ arts = {} /\ by = "unsent"
  BY DEF OutcomeStates
<1>5. /\ rx' \in ReceiverStates
      /\ rx'.state = rx.state /\ rx'.arts = rx.arts
      /\ rx'.unsettled = rx.unsettled \ {x} /\ rx'.later = rx.later \ {x}
      /\ \A y \in Exchanges \ {x} : rx'.outcome[y] = rx.outcome[y]
  BY <1>2, <1>3, <1>4, SettleFields
<1>6. rx'.outcome[x].by = "unsent"
  <2>1. x \in DOMAIN rx.outcome
    BY <1>3 DEF ReceiverStates
  <2>2. rx'.outcome = [rx.outcome EXCEPT ![x] = [st |-> "failed", arts |-> {}, by |-> "unsent"]]
    BY <1>2, <1>3 DEF Settle, ReceiverStates
  <2> QED
    BY <2>1, <2>2
<1>7. ~Terminal(rx) /\ ~Terminal(rx')
  BY <1>1, <1>2, <1>5 DEF Good, Terminal
<1>8. Good(rx', delivered)
  BY <1>1, <1>5, <1>7 DEF Good
<1>9. tracked' \subseteq Exchanges /\ rx'.unsettled \subseteq tracked' /\ tracked' = tracked
  BY <1>1, <1>2, <1>5 DEF TypeOK, OnlyPublished
<1>10. IInv'
  BY <1>2, <1>7, <1>8, <1>9, ReceiverStepKeeps
<1>11. Terminal(rx') = Terminal(rx)
  BY <1>5 DEF Terminal
<1> QED
  BY <1>2, <1>5, <1>6, <1>9, <1>10, <1>11

\* The session starts to close.
LEMMA BeginClosingKeeps ==
  ASSUME IInv, BeginClosing
  PROVE  IInv' /\ Moves(rx, rx', held \cup delivered \cup delivered') /\ ~Terminal(rx')
<1>1. TypeOK /\ OnlyPublished /\ Good(rx, delivered)
  BY DEF IInv
<1>2. /\ rx.state = "ready" /\ rx' = [rx EXCEPT !.state = "closing"]
      /\ UNCHANGED <<queueVars, envVars, tracked, recoveryVars, sessionVars>>
  BY DEF BeginClosing
<1>3. rx \in ReceiverStates
  BY <1>1 DEF Good
<1>4. /\ rx' \in ReceiverStates
      /\ rx'.state = "closing" /\ rx'.arts = rx.arts /\ rx'.later = rx.later
      /\ rx'.unsettled = rx.unsettled /\ rx'.outcome = rx.outcome
  BY <1>2, <1>3 DEF ReceiverStates, States
<1>5. ~Terminal(rx) /\ ~Terminal(rx')
  BY <1>2, <1>4 DEF Terminal, TerminalStates
<1>6. Good(rx', delivered)
  BY <1>1, <1>4, <1>5 DEF Good
<1>7. tracked \subseteq tracked' /\ tracked' \subseteq Exchanges /\ rx'.unsettled \subseteq tracked'
  BY <1>1, <1>2, <1>4 DEF TypeOK, OnlyPublished
<1>8. Moves(rx, rx', held \cup delivered \cup delivered')
  BY <1>4, <1>5 DEF Moves
<1> QED
  BY <1>2, <1>5, <1>6, <1>7, <1>8, ReceiverStepKeeps

-----------------------------------------------------------------------------
(* Every step.                                                               *)

\* Initially nothing has been sent, received or asked for.
LEMMA InitIInv == Init => IInv
<1> SUFFICES ASSUME Init PROVE IInv
  OBVIOUS
<1>1. /\ next = 1 /\ held = {} /\ replayed = {} /\ timer = FALSE /\ gapRuns = <<>>
      /\ disposed = FALSE /\ loop = Queue!NoLoop /\ delivered = {} /\ out = 0
      /\ log \in Logs /\ sent = 0 /\ tracked = {} /\ stage = "none" /\ cutoff = 0
      /\ deferred = "none" /\ snap = NoSnapshot /\ localEnd = "none"
      /\ replayPoint = 0 /\ noting = 0 /\ fetchFrom = 0 /\ sentThen = 0 /\ todo = {}
      /\ chain = <<>> /\ gapDone = FALSE /\ asked = 0 /\ missed = {}
  BY DEF Init, Queue!Init
<1>2. PICK a \in [Exchanges -> SUBSET Seqs], o \in [Exchanges -> Outcomes] :
        a = [x \in Exchanges |-> {}] /\ o = [x \in Exchanges |-> NoOutcome]
  BY DEF Outcomes
<1>3. rx = [state |-> "open", unsettled |-> {}, later |-> {}, arts |-> a, outcome |-> o]
  BY <1>2 DEF Init
<1>4. /\ rx \in ReceiverStates /\ rx.unsettled = {} /\ rx.later = {} /\ rx.state = "open"
  BY <1>2, <1>3, ReceiverOf DEF States
<1>5. ~Terminal(rx) /\ Good(rx, delivered)
  BY <1>4 DEF Good, Terminal, TerminalStates
<1>6. 0 \in 0..MaxSeq /\ 1 \in 1..(MaxSeq + 1) /\ 0 \in 0..MaxAsked /\ loop.cutoff = 0
      /\ loop \in Loops /\ loop.by = "none"
  BY <1>1, MaxSeqAssumption, MaxAskedAssumption, NoLoopType
<1>7. Queue!TypeOK
  <2>1. timer \in BOOLEAN /\ disposed \in BOOLEAN
    BY <1>1
  <2>2. /\ next \in 1..(MaxSeq + 1) /\ held \subseteq Seqs /\ replayed \subseteq held
        /\ gapRuns \in Seq(Seqs) /\ delivered \subseteq Seqs /\ out \in 0..MaxSeq
    BY <1>1, <1>6
  <2>3. loop.by = "none" => loop = Queue!NoLoop
    BY <1>1
  <2> QED
    BY <1>6, <2>1, <2>2, <2>3 DEF Queue!TypeOK, Queue!Seqs, Seqs, Loops
<1>8. TypeOK
  <2>1. gapDone \in BOOLEAN
    BY <1>1
  <2>2. snap \in [exchanges : SUBSET Exchanges, st : States \cup {"none"}]
    BY <1>1 DEF NoSnapshot
  <2>3. chain \in Seq({"gap", "asked"}) /\ {replayPoint, noting, fetchFrom, sentThen} \subseteq 0..MaxSeq
    BY <1>1, <1>6
  <2> QED
    BY <1>1, <1>4, <1>6, <1>7, <2>1, <2>2, <2>3 DEF TypeOK
<1>9. OnlyPublished
  <2>1. \A s \in Seqs : ~(s <= sent)
    BY <1>1, SeqsAreNat
  <2> QED
    BY <1>1, <1>4, <2>1 DEF OnlyPublished
<1>10. BehindWindow /\ OneAtATime /\ GapRunsAreChained /\ EndsInTurn
  BY <1>1, <1>5, <1>6 DEF BehindWindow, OneAtATime, GapRunsAreChained, EndsInTurn
<1>11. SkipsTheMissed
  <2>1. Covered(0) /\ \A s \in Seqs : ~(s < next)
    BY <1>1, SeqsAreNat DEF Covered
  <2> QED
    BY <1>1, <1>6, <2>1 DEF SkipsTheMissed
<1> QED
  BY <1>5, <1>8, <1>9, <1>10, <1>11 DEF IInv

\* A step of the queue moves the receiver, and ends no session while a recovery is open.
LEMMA QueueStepMoves ==
  ASSUME IInv, DispatchOut,
         (\E s \in Seqs, isReplay \in BOOLEAN : Queue!Accept(s, isReplay)) \/ Queue!Loop
  PROVE  /\ Moves(rx, rx', held \cup delivered \cup delivered')
         /\ Terminal(rx') => Terminal(rx) \/ ~RecoveryOpen
<1>1. BehindWindow /\ OneAtATime /\ held \subseteq Seqs
  BY QueueTypes DEF IInv
<1>2. ASSUME out' = 0
      PROVE  /\ Moves(rx, rx', held \cup delivered \cup delivered')
             /\ Terminal(rx') => Terminal(rx) \/ ~RecoveryOpen
  BY <1>2, NothingOut, StayingMoves
<1>3. ASSUME NEW s \in Seqs, Queue!AcceptNext(s)
      PROVE  /\ Moves(rx, rx', held \cup delivered \cup delivered')
             /\ Terminal(rx') => Terminal(rx) \/ ~RecoveryOpen
  <2>1. PICK rest : rest = [by |-> "accept", cutoff |-> 0, released |-> TRUE]
    OBVIOUS
  <2>2. Queue!DeliverSeq(s, rest) /\ ~disposed /\ \A h \in held : s <= h
    BY <1>1, <1>3, <2>1 DEF Queue!AcceptNext, Queue!Accepts, BehindWindow
  <2> QED
    BY <2>2, HandOver
<1>4. CASE \E s \in Seqs, isReplay \in BOOLEAN : Queue!Accept(s, isReplay)
  <2>1. PICK s \in Seqs, isReplay \in BOOLEAN : Queue!Accept(s, isReplay)
    BY <1>4
  <2>2. Queue!AcceptNext(s) \/ out' = 0
    BY <2>1 DEF Queue!Accept, Queue!AcceptAhead, Queue!AcceptHeldAgain
  <2> QED
    BY <1>2, <1>3, <2>2
<1>5. CASE Queue!ReleaseNext
  <2>1. PICK s \in held : /\ Queue!IsMin(s, held) /\ ~Queue!Idle
                          /\ Queue!DeliverSeq(s, [loop EXCEPT !.released = TRUE])
    BY <1>5 DEF Queue!ReleaseNext
  <2>2. PICK rest : rest = [loop EXCEPT !.released = TRUE]
    OBVIOUS
  <2>3. s \in Seqs /\ Queue!DeliverSeq(s, rest) /\ ~disposed /\ \A h \in held : s <= h
    BY <1>1, <2>1, <2>2 DEF OneAtATime, Queue!IsMin
  <2> QED
    BY <2>3, HandOver
<1>6. CASE Queue!LoopEnds
  BY <1>2, <1>6 DEF Queue!LoopEnds
<1> QED
  BY <1>4, <1>5, <1>6 DEF Queue!Loop

\* What any step does to the receiver: it tracks or forgets an exchange, or moves.
ReceiverStep ==
    \/ Moves(rx, rx', held \cup delivered \cup delivered') /\ tracked' = tracked
    \/ \E x \in Exchanges : TrackExchange(x) \/ ForgetExchange(x)

\* How a session ends while its recovery winds down.
EndsInOrder ==
    Finishing /\ ~Terminal(rx) /\ Terminal(rx') =>
        rx'.state = IF deferred # "none" THEN deferred
                    ELSE IF SnapshotEnds(snap) THEN snap.st
                    ELSE localEnd

\* Every step of a recovery keeps the invariant.
LEMMA RecoveryKeeps ==
  ASSUME IInv, Recovery
  PROVE  IInv' /\ ReceiverStep /\ EndsInOrder
<1>1. CASE BeginRecovery
  <2>1. rx' = rx /\ tracked' = tracked
    BY <1>1 DEF BeginRecovery
  <2> QED
    BY <1>1, <2>1, BeginRecoveryKeeps, StayingMoves DEF ReceiverStep, EndsInOrder
<1>2. CASE \E answer \in SUBSET Seqs : HistoryAnswers(answer)
  <2>1. PICK answer \in SUBSET Seqs : HistoryAnswers(answer)
    BY <1>2
  <2>2. rx' = rx /\ tracked' = tracked
    BY <2>1 DEF HistoryAnswers
  <2> QED
    BY <2>1, <2>2, HistoryAnswersKeeps, StayingMoves DEF ReceiverStep, EndsInOrder
<1>3. CASE ReplayNext
  <2>1. stage = "replay" /\ tracked' = tracked
    BY <1>3 DEF ReplayNext
  <2>2. Moves(rx, rx', held \cup delivered \cup delivered')
    <3>1. PICK s \in todo :
            IF Queue!Accepts(s) \/ s \in held \ replayed
            THEN Receive(s, TRUE)
            ELSE UNCHANGED <<queueVars, rx, deferred, noting, replayPoint>>
      BY <1>3 DEF ReplayNext
    <3>2. s \in Seqs
      BY DEF IInv, TypeOK
    <3>3. CASE Receive(s, TRUE)
      BY <3>2, <3>3, QueueStepMoves DEF Receive
    <3>4. CASE rx' = rx
      BY <3>4, StayingMoves
    <3> QED
      BY <3>1, <3>3, <3>4
  <2> QED
    BY <1>3, <2>1, <2>2, ReplayNextKeeps DEF ReceiverStep, EndsInOrder, Finishing
<1>4. CASE HistoryReplayed
  <2>1. rx' = rx /\ tracked' = tracked
    BY <1>4 DEF HistoryReplayed
  <2> QED
    BY <1>4, <2>1, HistoryReplayedKeeps, StayingMoves DEF ReceiverStep, EndsInOrder
<1>5. CASE SnapshotAnswers
  <2>1. rx' = rx /\ tracked' = tracked
    BY <1>5 DEF SnapshotAnswers
  <2> QED
    BY <1>5, <2>1, SnapshotAnswersKeeps, StayingMoves DEF ReceiverStep, EndsInOrder
<1>6. CASE ApplyOutcomes
  <2>1. tracked' = tracked
    BY <1>6 DEF ApplyOutcomes
  <2> QED
    BY <1>6, <2>1, ApplyOutcomesKeeps DEF ReceiverStep, EndsInOrder, Terminal
<1>7. CASE ApplyDeferred
  <2>1. tracked' = tracked
    BY <1>7 DEF ApplyDeferred
  <2> QED
    BY <1>7, <2>1, ApplyDeferredKeeps DEF ReceiverStep, EndsInOrder
<1>8. CASE ApplyState
  <2>1. tracked' = tracked
    BY <1>8 DEF ApplyState
  <2> QED
    BY <1>8, <2>1, ApplyStateKeeps DEF ReceiverStep, EndsInOrder
<1>9. CASE ApplyLocalEnd
  <2>1. tracked' = tracked
    BY <1>9 DEF ApplyLocalEnd
  <2> QED
    BY <1>9, <2>1, ApplyLocalEndKeeps DEF ReceiverStep, EndsInOrder
<1> QED
  BY <1>1, <1>2, <1>3, <1>4, <1>5, <1>6, <1>7, <1>8, <1>9 DEF Recovery

\* Every step keeps the invariant.
LEMMA NextKeeps ==
  ASSUME IInv, Next
  PROVE  IInv' /\ ReceiverStep /\ EndsInOrder
<1>1. CASE Publish
  <2>1. rx' = rx /\ tracked' = tracked
    BY <1>1 DEF Publish
  <2> QED
    BY <1>1, <2>1, PublishKeeps, StayingMoves DEF ReceiverStep, EndsInOrder
<1>2. ASSUME NEW x \in Exchanges, TrackExchange(x) PROVE IInv' /\ ReceiverStep /\ EndsInOrder
  BY <1>2, TrackExchangeKeeps DEF ReceiverStep, EndsInOrder
<1>3. ASSUME NEW x \in Exchanges, ForgetExchange(x) PROVE IInv' /\ ReceiverStep /\ EndsInOrder
  BY <1>3, ForgetExchangeKeeps DEF ReceiverStep, EndsInOrder
<1>4. ASSUME NEW s \in Seqs, ReceiveLive(s) PROVE IInv' /\ ReceiverStep /\ EndsInOrder
  <2>1. /\ Queue!Accept(s, FALSE) /\ DispatchOut /\ tracked' = tracked
        /\ stage \in {"none", "history", "snapshot"}
    BY <1>4 DEF ReceiveLive, Receive, Quiet
  <2>2. Moves(rx, rx', held \cup delivered \cup delivered')
    BY <2>1, QueueStepMoves
  <2> QED
    BY <1>4, <2>1, <2>2, ReceiveLiveKeeps DEF ReceiverStep, EndsInOrder, Finishing
<1>5. CASE QueueLoop
  <2>1. Queue!Loop /\ DispatchOut /\ tracked' = tracked /\ ~Idle
    BY <1>5 DEF QueueLoop, Queue!Loop, Queue!ReleaseNext, Queue!LoopEnds, Idle
  <2>2. /\ Moves(rx, rx', held \cup delivered \cup delivered')
        /\ Terminal(rx') => Terminal(rx) \/ ~RecoveryOpen
    BY <2>1, QueueStepMoves
  <2>3. Finishing => RecoveryOpen
    BY <2>1 DEF IInv, OneAtATime, Finishing, RecoveryOpen
  <2> QED
    BY <1>5, <2>1, <2>2, <2>3, QueueLoopKeeps DEF ReceiverStep, EndsInOrder
<1>6. ASSUME NEW st \in TerminalKinds, ReceiveNotice(st) PROVE IInv' /\ ReceiverStep /\ EndsInOrder
  <2>1. tracked' = tracked /\ ~Finishing
    BY <1>6 DEF ReceiveNotice, Quiet, Finishing
  <2> QED
    BY <1>6, <2>1, ReceiveNoticeKeeps DEF ReceiverStep, EndsInOrder
<1>7. CASE AskRecovery
  <2>1. rx' = rx /\ tracked' = tracked
    BY <1>7 DEF AskRecovery
  <2> QED
    BY <1>7, <2>1, AskRecoveryKeeps, StayingMoves DEF ReceiverStep, EndsInOrder
<1>8. CASE GapTimerFires
  <2>1. rx' = rx /\ tracked' = tracked
    BY <1>8 DEF GapTimerFires
  <2> QED
    BY <1>8, <2>1, GapTimerFiresKeeps, StayingMoves DEF ReceiverStep, EndsInOrder
<1>9. CASE GapRecovered
  <2>1. rx' = rx /\ tracked' = tracked
    BY <1>9 DEF GapRecovered
  <2> QED
    BY <1>9, <2>1, GapRecoveredKeeps, StayingMoves DEF ReceiverStep, EndsInOrder
<1>10. CASE Recovery
  BY <1>10, RecoveryKeeps
<1>11. CASE BeginClosing
  <2>1. tracked' = tracked
    BY <1>11 DEF BeginClosing
  <2> QED
    BY <1>11, <2>1, BeginClosingKeeps DEF ReceiverStep, EndsInOrder
<1>12. ASSUME NEW st \in TerminalStates, Terminate(st) PROVE IInv' /\ ReceiverStep /\ EndsInOrder
  <2>1. tracked' = tracked /\ (Finishing => rx' = rx)
    BY <1>12 DEF Terminate, Finishing
  <2> QED
    BY <1>12, <2>1, TerminateKeeps DEF ReceiverStep, EndsInOrder
<1> QED
  BY <1>1, <1>2, <1>3, <1>4, <1>5, <1>6, <1>7, <1>8, <1>9, <1>10, <1>11, <1>12 DEF Next

\* Nor does a stutter break it.
LEMMA StutterKeeps ==
  ASSUME IInv, UNCHANGED vars
  PROVE  IInv' /\ UNCHANGED <<queueVars, rx, tracked>>
<1>1. TypeOK /\ OnlyPublished /\ BehindWindow /\ OneAtATime /\ GapRunsAreChained /\ EndsInTurn
  BY DEF IInv
<1>2. UNCHANGED <<queueVars, envVars, rx, tracked, recoveryVars, sessionVars>>
  BY DEF vars
<1>3. Good(rx, delivered)'
  BY <1>1, <1>2, QueueRests, GoodRests DEF envVars
<1>4. TypeOK'
  BY <1>1, <1>2, QueueRests DEF TypeOK, envVars, recoveryVars, sessionVars
<1>5. OnlyPublished' /\ BehindWindow' /\ OneAtATime' /\ GapRunsAreChained' /\ EndsInTurn'
  BY <1>1, <1>2, QueueRests DEF OnlyPublished, BehindWindow, OneAtATime, GapRunsAreChained,
     EndsInTurn, Terminal, Finishing, SnapshotEnds, envVars, recoveryVars, sessionVars
<1>6. ~Ending' => SkipsTheMissed'
  BY <1>1, <1>2, QueueRests DEF IInv, Ending, SkipsTheMissed, Covered, Known, Terminal, Finishing,
     SnapshotEnds, envVars, recoveryVars, sessionVars
<1> QED
  BY <1>2, <1>3, <1>4, <1>5, <1>6 DEF IInv

LEMMA IInvAlways == Spec => []IInv
<1>1. IInv /\ [Next]_vars => IInv'
  BY NextKeeps, StutterKeeps
<1> QED
  BY <1>1, InitIInv, PTL DEF Spec

-----------------------------------------------------------------------------
(* The properties.                                                           *)

\* Recovery fetches what is missing and gives up only that: every seq below the window was
\* delivered or is missing from the history, and so is everything up to the replay point.
THEOREM RecoveryIsSound == Spec => []RecoverySound
<1>1. IInv => RecoverySound
  <2> SUFFICES ASSUME IInv PROVE RecoverySound
    OBVIOUS
  <2>1. TypeOK /\ ReplayPointProcessed
    BY DEF IInv, BehindWindow, ReplayPointProcessed
  <2>2. ASSUME ~Ending PROVE (1..(next - 1)) \ delivered \subseteq missed
    <3> SUFFICES ASSUME NEW s \in 1..(next - 1) PROVE s \in delivered \cup missed
      OBVIOUS
    <3>1. s \in Seqs /\ s < next
      BY <2>1, QueueTypes, MaxSeqAssumption DEF Seqs
    <3> QED
      BY <2>2, <3>1 DEF IInv, SkipsTheMissed
  <2> QED
    BY <2>1, <2>2 DEF RecoverySound, SkippedWasMissed, Ending
<1> QED
  BY <1>1, IInvAlways, PTL

\* A local end asked for while a recovery was under way has ended the session by the time
\* the recovery is over.
THEOREM LocalEndIsHonoured == Spec => []LocalEndHonoured
<1>1. IInv => LocalEndHonoured
  BY DEF IInv, EndsInTurn, Finishing, LocalEndHonoured
<1> QED
  BY <1>1, IInvAlways, PTL

\* A recovery that ends the session ends it as the deferred message says, else as recorded,
\* else as asked for locally.
THEOREM EndsTakePrecedence == Spec => EndPrecedence
<1>1. IInv /\ [Next]_vars =>
        [Finishing /\ ~Terminal(rx) /\ Terminal(rx') =>
           rx'.state = IF deferred # "none" THEN deferred
                       ELSE IF SnapshotEnds(snap) THEN snap.st
                       ELSE localEnd]_vars
  BY NextKeeps DEF EndsInOrder
<1> QED
  BY <1>1, IInvAlways, PTL DEF Spec, EndPrecedence

\* An exchange settles with every artifact received for it, wherever it was held.
THEOREM ArtifactsAreKept == Spec => ArtifactsKept
<1>1. IInv /\ [Next]_vars =>
        [\A x \in Exchanges :
           rx.outcome[x] = NoOutcome /\ rx'.outcome[x] \notin {NoOutcome}
           /\ rx'.outcome[x].by # "unsent"
           => ArtifactsOf(x, held \cup delivered \cup delivered') \subseteq rx'.outcome[x].arts]_vars
  <2> SUFFICES ASSUME IInv, Next, NEW x \in Exchanges,
                      rx.outcome[x] = NoOutcome, rx'.outcome[x] # NoOutcome,
                      rx'.outcome[x].by # "unsent"
               PROVE  ArtifactsOf(x, held \cup delivered \cup delivered') \subseteq rx'.outcome[x].arts
    OBVIOUS
  <2>1. CASE Moves(rx, rx', held \cup delivered \cup delivered')
    BY <2>1 DEF Moves
  <2>2. ASSUME NEW y \in Exchanges, TrackExchange(y) PROVE FALSE
    BY <2>2, TrackExchangeKeeps
  <2>3. ASSUME NEW y \in Exchanges, ForgetExchange(y) PROVE FALSE
    BY <2>3, ForgetExchangeKeeps
  <2> QED
    BY <2>1, <2>2, <2>3, NextKeeps DEF ReceiverStep
<1> QED
  BY <1>1, IInvAlways, PTL DEF Spec, ArtifactsKept

\* Outside the queue's callbacks the receiver disposes the queue or leaves it alone.
LEMMA DisposeIsQueueStep ==
  ASSUME DisposeOnEnd
  PROVE  [Queue!Next]_Queue!vars
  BY DEF DisposeOnEnd, Queue!Next, queueVars, Queue!vars

\* So does a finishing recovery, or it skips through a seq that is held or above one.
LEMMA FinishIsQueueStep ==
  ASSUME IInv, NEW answer, FinishRecovery(answer)
  PROVE  [Queue!Next]_Queue!vars
<1>1. PICK through : through = IF deferred # "none" \/ SnapshotEnds(answer) THEN MaxSeq ELSE cutoff
  OBVIOUS
<1>2. CASE ~(\E h \in held : h <= through)
  BY <1>1, <1>2 DEF FinishRecovery, queueVars, Queue!vars
<1>3. CASE \E h \in held : h <= through
  <2>1. PICK h \in held : h <= through
    BY <1>3
  <2>2. through \in 0..MaxSeq /\ h \in Nat /\ h >= 1
    BY <1>1, QueueTypes, SeqsAreNat, MaxSeqAssumption DEF IInv, TypeOK
  <2>3. through \in Queue!Seqs
    BY <2>1, <2>2, MaxSeqAssumption DEF Queue!Seqs
  <2>4. Queue!SkipThrough(through)
    BY <1>1, <1>3 DEF FinishRecovery
  <2> QED
    BY <2>3, <2>4 DEF Queue!Next
<1> QED
  BY <1>2, <1>3

\* The session drives its receive queue as the queue's own specification says.
THEOREM QueueAsSpecified == Spec => QueueSpec
<1>1. Init => Queue!Init
  BY DEF Init
<1>2. IInv /\ [Next]_vars => [Queue!Next]_Queue!vars
  <2> SUFFICES ASSUME IInv, Next PROVE [Queue!Next]_Queue!vars
    BY DEF vars, queueVars, Queue!vars
  <2>0. /\ todo \subseteq Seqs
        /\ Queue!Seqs = Seqs
    BY DEF IInv, TypeOK, Queue!Seqs, Seqs
  <2>1. CASE UNCHANGED queueVars
    BY <2>1 DEF queueVars, Queue!vars
  <2>2. ASSUME NEW s \in Seqs, NEW isReplay \in BOOLEAN, Receive(s, isReplay)
        PROVE  [Queue!Next]_Queue!vars
    BY <2>0, <2>2 DEF Receive, Queue!Next
  <2>3. CASE Publish \/ AskRecovery \/ BeginRecovery \/ HistoryReplayed \/ ApplyOutcomes \/ BeginClosing
    BY <2>1, <2>3 DEF Publish, AskRecovery, BeginRecovery, HistoryReplayed, ApplyOutcomes, BeginClosing
  <2>4. ASSUME NEW x \in Exchanges, TrackExchange(x) \/ ForgetExchange(x)
        PROVE  [Queue!Next]_Queue!vars
    BY <2>1, <2>4 DEF TrackExchange, ForgetExchange
  <2>5. ASSUME NEW s \in Seqs, ReceiveLive(s)
        PROVE  [Queue!Next]_Queue!vars
    BY <2>2, <2>5 DEF ReceiveLive
  <2>6. CASE QueueLoop \/ GapTimerFires \/ GapRecovered
    BY <2>6 DEF QueueLoop, GapTimerFires, GapRecovered, Queue!Next
  <2>7. ASSUME NEW st \in TerminalKinds, ReceiveNotice(st)
        PROVE  [Queue!Next]_Queue!vars
    BY <2>1, <2>7, DisposeIsQueueStep DEF ReceiveNotice
  <2>8. ASSUME NEW answer \in SUBSET Seqs, HistoryAnswers(answer)
        PROVE  [Queue!Next]_Queue!vars
    BY <2>1, <2>8 DEF HistoryAnswers
  <2>9. CASE ReplayNext
    BY <2>0, <2>1, <2>2, <2>9 DEF ReplayNext
  <2>10. CASE SnapshotAnswers
    BY <2>10, FinishIsQueueStep DEF SnapshotAnswers
  <2>11. CASE ApplyDeferred \/ ApplyState \/ ApplyLocalEnd
    BY <2>11, DisposeIsQueueStep DEF ApplyDeferred, ApplyState, ApplyLocalEnd
  <2>12. ASSUME NEW st \in TerminalStates, Terminate(st)
         PROVE  [Queue!Next]_Queue!vars
    BY <2>1, <2>12, DisposeIsQueueStep, FinishIsQueueStep DEF Terminate
  <2> QED
    BY <2>3, <2>4, <2>5, <2>6, <2>7, <2>8, <2>9, <2>10, <2>11, <2>12 DEF Next, Recovery
<1> QED
  BY <1>1, <1>2, IInvAlways, PTL DEF Spec, QueueSpec, Queue!Spec

\* The session's contract: each exchange settles once, none after the end of the session,
\* and the end leaves none waiting.
THEOREM ContractKept == Spec => KeepsContract
<1> DEFINE Status == [x \in Exchanges |-> IF x \notin tracked THEN "unsent"
                                          ELSE IF x \in rx.unsettled THEN "pending"
                                          ELSE "settled"]
<1>1. Init => Contract!Init
  <2> SUFFICES ASSUME Init PROVE Contract!Init
    OBVIOUS
  <2>1. rx.state = "open" /\ tracked = {}
    BY DEF Init
  <2>2. Terminal(rx) = FALSE
    BY <2>1 DEF Terminal, TerminalStates
  <2> QED
    BY <2>1, <2>2 DEF Contract!Init
<1>2. IInv /\ [Next]_vars => [Contract!Next]_Contract!vars
  <2> SUFFICES ASSUME IInv, [Next]_vars PROVE [Contract!Next]_Contract!vars
    OBVIOUS
  <2>1. CASE UNCHANGED vars
    <3>1. rx' = rx /\ tracked' = tracked
      BY <2>1 DEF vars
    <3> QED
      BY <3>1 DEF Contract!vars, Terminal
  <2>2. CASE Next
    <3>1. /\ Good(rx, delivered) /\ rx.unsettled \subseteq tracked /\ tracked \subseteq Exchanges
          /\ Terminal(rx) \in BOOLEAN
      BY DEF IInv, OnlyPublished, TypeOK, Terminal
    <3>2. IInv' /\ ReceiverStep
      BY <2>2, NextKeeps
    <3>3. rx'.unsettled \subseteq tracked' /\ (Terminal(rx') => rx'.unsettled = {})
          /\ Terminal(rx') \in BOOLEAN
      BY <3>2 DEF IInv, OnlyPublished, Good, Terminal
    <3>4. ASSUME NEW x \in Exchanges, TrackExchange(x)
          PROVE  Contract!Send(x)
      <4>1. /\ x \notin tracked /\ tracked' = tracked \cup {x} /\ ~Terminal(rx) /\ ~Terminal(rx')
            /\ rx'.unsettled = rx.unsettled \cup {x}
        BY <3>4, TrackExchangeKeeps
      <4>2. Status' = [Status EXCEPT ![x] = "pending"]
        BY <3>1, <4>1
      <4>3. Terminal(rx') = Terminal(rx)
        BY ONLY <3>1, <3>3, <4>1
      <4> QED
        BY <4>1, <4>2, <4>3 DEF Contract!Send
    <3>5. ASSUME NEW S \in SUBSET rx.unsettled, rx'.unsettled = rx.unsettled \ S, S # {},
                 tracked' = tracked, Terminal(rx') = Terminal(rx)
          PROVE  Contract!Settle(S)
      <4>1. S \subseteq Contract!Pending
        BY <3>1 DEF Contract!Pending
      <4>2. Status' = [x \in Exchanges |-> IF x \in S THEN "settled" ELSE Status[x]]
        BY <3>1, <3>5
      <4> QED
        BY <3>5, <4>1, <4>2 DEF Contract!Settle
    <3>6. ASSUME NEW x \in Exchanges, ForgetExchange(x)
          PROVE  Contract!Settle({x})
      BY <3>5, <3>6, ForgetExchangeKeeps
    <3>7. CASE Moves(rx, rx', held \cup delivered \cup delivered') /\ tracked' = tracked
      <4>1. rx'.unsettled \subseteq rx.unsettled /\ (Terminal(rx) => rx' = rx)
        BY <3>7 DEF Moves
      <4>2. CASE Terminal(rx') = Terminal(rx)
        <5>1. PICK S \in SUBSET rx.unsettled : S = rx.unsettled \ rx'.unsettled
          OBVIOUS
        <5>2. rx'.unsettled = rx.unsettled \ S
          BY <4>1, <5>1
        <5>3. CASE S = {}
          <6>1. rx'.unsettled = rx.unsettled
            BY <5>2, <5>3
          <6> QED
            BY <3>7, <4>2, <6>1 DEF Contract!vars
        <5>4. CASE S # {}
          <6>1. Contract!Settle(S)
            BY <3>5, <3>7, <4>2, <5>2, <5>4
          <6>2. S \in SUBSET Exchanges
            BY <3>1
          <6> QED
            BY <6>1, <6>2 DEF Contract!Next
        <5> QED
          BY <5>3, <5>4
      <4>3. CASE Terminal(rx') # Terminal(rx)
        <5>1. Terminal(rx) = FALSE /\ Terminal(rx') = TRUE
          BY <3>1, <3>3, <4>1, <4>3
        <5>2. rx'.unsettled = {}
          BY <3>3, <5>1
        <5>3. Status' = [x \in Exchanges |-> IF Status[x] = "pending" THEN "settled" ELSE Status[x]]
          BY <3>1, <3>7, <5>2
        <5>4. Contract!End
          BY <5>1, <5>3 DEF Contract!End
        <5> QED
          BY <5>4 DEF Contract!Next
      <4> QED
        BY <4>2, <4>3
    <3>8. CASE \E x \in Exchanges : TrackExchange(x) \/ ForgetExchange(x)
      <4>1. PICK x \in Exchanges : TrackExchange(x) \/ ForgetExchange(x)
        BY <3>8
      <4>2. Contract!Send(x) \/ Contract!Settle({x})
        BY <3>4, <3>6, <4>1
      <4> QED
        BY <4>2 DEF Contract!Next
    <3> QED
      BY <3>2, <3>7, <3>8 DEF ReceiverStep
  <2> QED
    BY <2>1, <2>2
<1> QED
  BY <1>1, <1>2, IInvAlways, PTL DEF Spec, KeepsContract, Contract!Spec

=============================================================================
