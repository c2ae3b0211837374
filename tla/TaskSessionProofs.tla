------------------------- MODULE TaskSessionProofs -------------------------
(***************************************************************************)
(* The consumer's sessions. Of one task, NothingMissed and WaitersSettle,    *)
(* for every set of logs, callbacks and waiters and every size of the        *)
(* windows, from the inductive invariant IInv; and at the end of the         *)
(* module, of the streams of a session's exchanges, ClientsInStep.           *)
(***************************************************************************)
EXTENDS TaskSession, SessionStreams, SequenceTheorems, FiniteSetTheorems,
        WellFoundedInduction, TLAPS

-----------------------------------------------------------------------------
\* A set of naturals with a member has a least one.
LEMMA Least ==
  ASSUME NEW I \in SUBSET Nat, I # {}
  PROVE  \E m \in I : \A k \in I : m <= k
  <1> DEFINE R == {ss \in Nat \X Nat : ss[1] < ss[2]}
  <1>1. IsWellFoundedOn(R, Nat)
    <2>1. OpToRel(<, Nat) = R
      BY Zenon DEF OpToRel
    <2>2. IsWellFoundedOn(OpToRel(<, Nat), Nat)
      BY NatLessThanWellFounded, Zenon
    <2> QED BY <2>1, <2>2, Zenon
  <1>2. \A k, m \in Nat : k < m => <<k, m>> \in R
    OBVIOUS
  <1> HIDE DEF R
  <1>3. PICK m \in I : \A k \in I : ~(<<k, m>> \in R)
    BY <1>1, WFMin
  <1>4. \A k \in I : m <= k
    <2> TAKE k \in I
    <2>1. ~(k < m)
      BY <1>2, <1>3
    <2> QED BY <2>1
  <1> QED BY <1>4

Ascends(q) == \A j, m \in DOMAIN q : j < m => q[j] < q[m]

\* q lists the members of S in increasing order.
Lists(q, S) ==
  /\ q \in [1..Cardinality(S) -> S]
  /\ Ascends(q)

LEMMA SortedLists ==
  ASSUME NEW S, \E q : Lists(q, S)
  PROVE  Lists(Sorted(S), S)
<1>1. \E q \in [1..Cardinality(S) -> S] : \A j, m \in DOMAIN q : j < m => q[j] < q[m]
  BY DEF Lists, Ascends
<1> QED
  BY <1>1 DEF Lists, Ascends, Sorted

LEMMA FinitePart ==
  ASSUME NEW n \in Nat, NEW S \in SUBSET (1..n)
  PROVE  IsFiniteSet(S) /\ Cardinality(S) \in Nat
<1>1. IsFiniteSet(1..n)
  BY FS_Interval
<1> QED
  BY <1>1, FS_Subset, FS_CardinalityType

\* Every set of numbers up to n has such a list.
LEMMA ListsExist ==
  ASSUME NEW n \in Nat, NEW S \in SUBSET (1..n)
  PROVE  IsFiniteSet(S) /\ \E q : Lists(q, S)
<1> DEFINE Bad == {k \in Nat : \E T \in SUBSET (1..k) : ~\E q : Lists(q, T)}
<1>0. ASSUME NEW k \in Nat, NEW T \in SUBSET (1..k) PROVE IsFiniteSet(T) /\ Cardinality(T) \in Nat
  BY FinitePart
<1>1. SUFFICES ASSUME Bad # {} PROVE FALSE
  BY <1>0
<1>2. PICK k \in Bad : \A i \in Bad : k <= i
  BY <1>1, Least
<1>3. PICK T \in SUBSET (1..k) : ~\E q : Lists(q, T)
  OBVIOUS
<1>4. k # 0
  <2> SUFFICES ASSUME k = 0 PROVE FALSE
    OBVIOUS
  <2>1. T = {}
    BY <1>3
  <2>2. Cardinality(T) = 0
    BY <2>1, FS_EmptySet
  <2>3. Lists(<<>>, T)
    BY <2>1, <2>2 DEF Lists, Ascends
  <2> QED
    BY <2>3, <1>3
<1>5. k - 1 \in Nat /\ k - 1 \notin Bad
  BY <1>2, <1>4
<1>6. k \in T
  <2> SUFFICES ASSUME k \notin T PROVE T \in SUBSET (1..k - 1)
    BY <1>3, <1>5
  <2> QED
    BY <1>5
<1> DEFINE U == T \ {k}
<1>7. U \in SUBSET (1..k - 1)
  BY <1>5
<1>8. PICK q : Lists(q, U)
  BY <1>5, <1>7
<1> DEFINE c == Cardinality(U)
           r == [j \in 1..c + 1 |-> IF j = c + 1 THEN k ELSE q[j]]
<1>9. IsFiniteSet(T) /\ c \in Nat /\ Cardinality(T) = c + 1
  <2>1. IsFiniteSet(T) /\ Cardinality(T) \in Nat /\ IsFiniteSet(U) /\ Cardinality(U) \in Nat
    BY <1>5, <1>7, FinitePart
  <2>2. Cardinality(U) = Cardinality(T) - 1
    BY <2>1, <1>6, FS_RemoveElement
  <2> QED
    BY <2>1, <2>2
<1>10. q \in [1..c -> U] /\ Ascends(q)
  BY <1>8 DEF Lists
<1> HIDE DEF U, c
<1>11. \A j \in 1..c : q[j] \in 1..k - 1 /\ q[j] \in T
  BY <1>10, <1>7 DEF U
<1>12. r \in [1..Cardinality(T) -> T]
  BY <1>9, <1>11, <1>6
<1>13. Ascends(r)
  BY <1>9, <1>10, <1>11, <1>5 DEF Ascends
<1> QED
  BY <1>12, <1>13, <1>3 DEF Lists

\* A list in increasing order has every member of the set, and is the only one.
LEMMA ListsAll ==
  ASSUME NEW n \in Nat, NEW S \in SUBSET (1..n), NEW q, Lists(q, S)
  PROVE  /\ q \in Seq(Nat) /\ Len(q) = Cardinality(S)
         /\ {q[j] : j \in DOMAIN q} = S
<1>1. IsFiniteSet(S) /\ Cardinality(S) \in Nat
  BY FinitePart
<1>2. IsFiniteSet(1..Cardinality(S)) /\ Cardinality(1..Cardinality(S)) = Cardinality(S)
  BY <1>1, FS_Interval
<1> DEFINE D == 1..Cardinality(S)
<1>3. q \in [D -> S] /\ \A j, m \in D : j < m => q[j] < q[m]
  BY DEF Lists, Ascends
<1>4. \A j \in D : q[j] \in Nat
  <2>1. \A j \in D : q[j] \in S
    BY <1>3
  <2>2. \A i \in S : i \in Nat
    OBVIOUS
  <2> HIDE DEF D
  <2> QED
    BY <2>1, <2>2
<1>5. q \in Injection(D, S)
  <2>1. ASSUME NEW j \in D, NEW m \in D, q[j] = q[m] PROVE j = m
    <3>1. j \in Nat /\ m \in Nat /\ (j < m \/ m < j \/ j = m)
      BY <1>1
    <3> QED
      BY <1>3, <1>4, <2>1, <3>1
  <2> HIDE DEF D
  <2> QED
    BY <1>3, <2>1 DEF Injection, IsInjective
<1>6. q \in Surjection(D, S)
  BY <1>1, <1>2, <1>5, FS_Injection
<1>7. {q[j] : j \in D} = S
  BY <1>6, <1>3 DEF Surjection
<1>8. q \in Seq(Nat) /\ Len(q) = Cardinality(S) /\ DOMAIN q = D
  BY <1>1, <1>3, <1>4
<1> QED
  BY <1>7, <1>8

LEMMA ListsOnce ==
  ASSUME NEW n \in Nat, NEW S \in SUBSET (1..n), NEW q, NEW r, Lists(q, S), Lists(r, S)
  PROVE  q = r
<1>1. /\ q \in Seq(Nat) /\ Len(q) = Cardinality(S)
      /\ {q[j] : j \in DOMAIN q} = S
      /\ r \in Seq(Nat) /\ Len(r) = Cardinality(S)
      /\ {r[j] : j \in DOMAIN r} = S
  <2>1. \A p : Lists(p, S) => /\ p \in Seq(Nat) /\ Len(p) = Cardinality(S)
                             /\ {p[j] : j \in DOMAIN p} = S
    BY ListsAll
  <2> QED
    BY <2>1
<1> DEFINE D == 1..Cardinality(S)
<1>2. /\ q \in [D -> S] /\ \A j, m \in D : j < m => q[j] < q[m]
      /\ r \in [D -> S] /\ \A j, m \in D : j < m => r[j] < r[m]
  BY DEF Lists, Ascends
<1> DEFINE Apart == {j \in D : q[j] # r[j]}
<1>0. IsFiniteSet(S) /\ Cardinality(S) \in Nat
  BY FinitePart
<1>13. SUFFICES ASSUME q # r PROVE FALSE
  OBVIOUS
<1>3. Apart # {} /\ Apart \in SUBSET Nat
  <2>1. Apart \in SUBSET Nat
    BY <1>0
  <2> HIDE DEF D
  <2>2. \E j \in D : q[j] # r[j]
    BY <1>2, <1>13
  <2> QED
    BY <2>1, <2>2
<1>4. PICK j \in Apart : \A k \in Apart : j <= k
  <2> HIDE DEF Apart
  <2> QED
    BY <1>3, Least
<1>9. j \in D /\ j \in Nat /\ q[j] # r[j] /\ q[j] \in Nat /\ r[j] \in Nat
  <2>1. j \in D /\ j \in Nat /\ q[j] # r[j]
    BY <1>3, <1>4
  <2>2. q[j] \in S /\ r[j] \in S
    BY <1>2, <2>1
  <2>3. \A i \in S : i \in Nat
    OBVIOUS
  <2> QED
    BY <2>1, <2>2, <2>3
<1>5. ASSUME NEW a, NEW b, a \in [D -> S], b \in [D -> S],
             \A i, m \in D : i < m => a[i] < a[m],
             \A i, m \in D : i < m => b[i] < b[m],
             \A i \in D : i < j => a[i] = b[i],
             {b[i] : i \in D} = S,
             a[j] < b[j]
      PROVE  FALSE
  <2>1. PICK m \in D : b[m] = a[j]
    BY <1>5
  <2>2. m # j /\ a[j] \in Nat /\ b[j] \in Nat /\ m \in Nat
    <3>1. a[j] \in Nat /\ b[j] \in Nat
      <4>1. a[j] \in S /\ b[j] \in S
        BY <1>5, <1>9
      <4>2. \A i \in S : i \in Nat
        OBVIOUS
      <4> QED
        BY <4>1, <4>2
    <3> QED
      BY <1>5, <2>1, <3>1, <1>0
  <2>3. CASE m < j
    <3>1. a[m] = a[j] /\ a[m] < a[j]
      BY <1>5, <2>1, <2>3
    <3> QED
      BY <3>1, <2>2
  <2>4. CASE j < m
    <3>1. b[j] < a[j]
      BY <1>5, <2>1, <2>4
    <3> QED
      BY <3>1, <2>2, <1>5
  <2> QED
    BY <1>9, <2>2, <2>3, <2>4
<1>6. \A i \in D : i < j => q[i] = r[i]
  BY <1>4
<1>7. q[j] < r[j] \/ r[j] < q[j]
  BY <1>9
<1>8. DOMAIN q = D /\ DOMAIN r = D
  BY <1>2
<1> QED
  BY <1>1, <1>2, <1>5, <1>6, <1>7, <1>8

LEMMA SortedAll ==
  ASSUME NEW n \in Nat, NEW S \in SUBSET (1..n)
  PROVE  /\ Lists(Sorted(S), S)
         /\ Sorted(S) \in Seq(Nat)
         /\ {Sorted(S)[j] : j \in DOMAIN Sorted(S)} = S
<1>1. Lists(Sorted(S), S)
  BY ListsExist, SortedLists
<1>2. \A q : Lists(q, S) => /\ q \in Seq(Nat) /\ Len(q) = Cardinality(S)
                          /\ {q[j] : j \in DOMAIN q} = S
  BY ListsAll
<1> QED
  BY <1>1, <1>2, Zenon

\* What comes behind all members of a set goes to the end of its list.
LEMMA SortedAppend ==
  ASSUME NEW n \in Nat, NEW S \in SUBSET (1..n), NEW i \in Nat, i > n
  PROVE  Append(Sorted(S), i) = Sorted(S \cup {i})
<1> DEFINE q == Sorted(S)
           T == S \cup {i}
           r == Append(q, i)
<1>1. Lists(q, S) /\ q \in Seq(Nat) /\ Len(q) = Cardinality(S)
  BY SortedAll, ListsAll
<1>2. T \in SUBSET (1..i) /\ i \notin S
  OBVIOUS
<1>3. Lists(Sorted(T), T)
  BY <1>2, SortedAll
<1>4. IsFiniteSet(S) /\ Cardinality(S) \in Nat
  BY FinitePart
<1>5. Cardinality(T) = Cardinality(S) + 1
  BY <1>2, <1>4, FS_AddElement
<1> DEFINE c == Cardinality(S)
<1>6. q \in [1..c -> S] /\ \A j, m \in 1..c : j < m => q[j] < q[m]
  BY <1>1 DEF Lists, Ascends
<1> HIDE DEF q, T, c
<1>7. c \in Nat /\ Len(q) = c /\ DOMAIN r = 1..c + 1 /\ r[c + 1] = i
  BY <1>1, <1>4 DEF c
<1>8. \A j \in 1..c : r[j] = q[j] /\ r[j] \in S /\ r[j] < i /\ r[j] \in Nat
  <2> TAKE j \in 1..c
  <2>1. r[j] = q[j] /\ q[j] \in S
    BY <1>1, <1>6, <1>7
  <2>2. \A m \in S : m < i /\ m \in Nat
    OBVIOUS
  <2> QED
    BY <2>1, <2>2
<1>9. r \in [1..c + 1 -> T]
  <2>1. \A j \in 1..c + 1 : r[j] \in T
    BY <1>7, <1>8 DEF T
  <2>2. r \in Seq(Nat) /\ Len(r) = c + 1
    BY <1>1, <1>7
  <2> HIDE DEF r
  <2>3. r = [j \in 1..c + 1 |-> r[j]]
    BY <2>2, LenProperties
  <2> QED
    BY <2>1, <2>3
<1>10. \A j, m \in 1..c + 1 : j < m => r[j] < r[m]
  <2> TAKE j, m \in 1..c + 1
  <2> HAVE j < m
  <2>1. CASE m = c + 1
    BY <1>7, <1>8, <2>1
  <2>2. CASE m # c + 1
    BY <1>6, <1>7, <1>8, <2>2
  <2> QED
    BY <2>1, <2>2
<1>11. Lists(r, T)
  BY <1>5, <1>7, <1>9, <1>10 DEF Lists, Ascends, c, r
<1> HIDE DEF r
<1>12. r = Sorted(T)
  BY <1>2, <1>3, <1>11, ListsOnce
<1> QED
  BY <1>12 DEF q, r, T

LEMMA SortedNone == Sorted({}) = <<>>
<1> DEFINE N == {}
<1>1. N \in SUBSET (1..0)
  OBVIOUS
<1> HIDE DEF N
<1>2. Lists(Sorted(N), N)
  BY <1>1, SortedAll
<1>3. Cardinality({}) = 0
  BY FS_EmptySet
<1>4. Sorted({}) \in [1..0 -> {}]
  BY <1>2, <1>3 DEF Lists, N
<1>5. \A f \in [1..0 -> {}] : f = <<>>
  OBVIOUS
<1> QED
  BY <1>4, <1>5

-----------------------------------------------------------------------------
(* The invariant.                                                            *)

Events == {q \in Seq(Nat) : Len(q) <= 1}
States == {"active", "ending", "ended"}

SessOK ==
  /\ sess \in [via : {"send", "connect"}, autoDrain : BOOLEAN,
       mode : {"created", "timed", "live", "basic", "terminal", "preclosed", "failed"},
       ended : BOOLEAN, first : Events, cancelled : Events, draining : BOOLEAN,
       closed : {"no", "yes", "app", "drained"}, closing : BOOLEAN,
       awaited : SUBSET AllClients]
  /\ sess.ended => Delivered \/ sess.mode \in {"terminal", "preclosed"}
  /\ sess.mode = "terminal" => sess.ended
  /\ sess.mode = "preclosed" => Closed
  /\ sess.closed \in {"yes", "drained"} => dispatch = Idle

WireOK ==
  /\ log \in Logs /\ published \in 0..Len(log) /\ cursor \in 0..published
  /\ next \in 1..published + 1
  /\ seen \in Seq(Nat) /\ artifacts \in Seq(Nat) /\ known \in Seq(Nat)

StreamsOK ==
  /\ clients \in [Streams -> Seq(States)]
  /\ current \in [Streams -> Nat]
  /\ \A s \in Streams : current[s] <= Len(clients[s]) /\ Len(clients[s]) <= MaxClients
  /\ refEnded \subseteq Streams /\ tracked \subseteq AllClients

\* The session takes messages: it is subscribed, or was until it closed.
Reading == sess.mode \in {"live", "basic"}

\* Only the message taken last is being dispatched.
DispatchOK ==
  /\ dispatch \in [event : Nat, phase : {"idle", "event", "typed", "calling"},
                   todo : Seq(Callbacks), same : BOOLEAN]
  /\ dispatch.phase = "idle" => dispatch = Idle
  /\ dispatch.phase = "event" => dispatch.todo = <<>> /\ ~dispatch.same
  /\ dispatch.phase # "idle" =>
       Reading /\ dispatch.event = next - 1 /\ dispatch.event > cursor

\* The window holds the last messages taken, as many as it has room for.
Window ==
  IF Reading
  THEN /\ next > cursor
       /\ Len(seen) <= SeenMax /\ Len(seen) <= next - 1 - cursor
       /\ Len(seen) = SeenMax \/ Len(seen) = next - 1 - cursor
       /\ \A j \in 1..Len(seen) : seen[j] = next - 1 - Len(seen) + j
  ELSE seen = <<>>

\* How far the session has taken in what was published, and from where on.
Done == IF dispatch.phase = "event" THEN next - 2 ELSE next - 1
Start == IF sess.mode = "basic" THEN cursor ELSE 0
Held(k, n) == {i \in Indices(k, n) : i > Start}
Names(I) == {log[i].of : i \in I}
KnownNames == {log[known[j]].of : j \in DOMAIN known}

Taken ==
  /\ sess.mode \in {"created", "timed"} => artifacts = <<>> /\ known = <<>>
  /\ Reading => artifacts = Sorted(Held("artifact", Done)) /\ KnownNames = Names(Held("stream", Done))

\* A waiter is left pending only until the dispatch that serves it ends.
Promised ==
  /\ waiters \in [Waiters -> [for : {"none", "terminal", "stream"},
                              is : {"unused", "pending", "resolved", "rejected"}]]
  /\ \A w \in Waiters : waiters[w].is = "pending" =>
       /\ ~Closed /\ Reading
       /\ waiters[w].for \in {"terminal", "stream"}
       /\ waiters[w].for = "terminal" /\ Delivered =>
            dispatch.phase \in {"typed", "calling"} /\ KindAt(dispatch.event) = "terminal"
       /\ waiters[w].for = "stream" /\ known # <<>> =>
            dispatch.phase \in {"typed", "calling"} /\ KindAt(dispatch.event) = "stream"

Distinct(q) == \A i, j \in DOMAIN q : i # j => q[i] # q[j]
In(c, q) == \E j \in DOMAIN q : q[j] = c

\* Each callback is in the array of its kind, once.
Registered ==
  /\ DOMAIN heard = Callbacks
  /\ \A c \in Callbacks :
       heard[c].kind \in Kinds \cup {"none"} /\ heard[c] = [kind |-> heard[c].kind, got |-> heard[c].got]
  /\ lists \in [Kinds -> Seq(Callbacks)]
  /\ \A k \in Kinds : Distinct(lists[k]) /\ \A j \in DOMAIN lists[k] : heard[lists[k][j]].kind = k
  /\ ~Closed => \A c \in Callbacks : heard[c].kind \in Kinds => In(c, lists[heard[c].kind])
  /\ ~Opened => \A c \in Callbacks : heard[c].kind = "none"
  /\ sess.ended /\ ~Delivered => \A c \in Callbacks : heard[c].kind # "terminal"

\* The loop still has to call callbacks of the event's kind, each once.
Looping ==
  /\ Distinct(dispatch.todo)
  /\ \A j \in DOMAIN dispatch.todo : heard[dispatch.todo[j]].kind = KindAt(dispatch.event)

\* What a callback has been called with once the loop has come to it.
Told(c) == IF In(c, dispatch.todo) THEN Append(heard[c].got, dispatch.event) ELSE heard[c].got

Hears(c) ==
  /\ heard[c].kind = "artifact" => Told(c) = artifacts
  /\ heard[c].kind = "stream" => Told(c) = known
  /\ heard[c].kind = "terminal" => Told(c) = sess.first
  /\ heard[c].kind = "cancel" => Told(c) \in {<<>>, sess.cancelled}

AllHear == sess.closed # "app" => \A c \in Callbacks \ nested : Hears(c)

IInv ==
  /\ SessOK /\ WireOK /\ StreamsOK /\ DispatchOK
  /\ Window /\ Taken
  /\ Promised
  /\ Registered /\ Looping /\ AllHear

-----------------------------------------------------------------------------
(* What a step leaves alone it keeps.                                        *)

LEMMA LogTyped ==
  ASSUME log \in Logs
  PROVE  /\ Len(log) \in Nat /\ DOMAIN log = 1..Len(log)
         /\ \A i \in 1..Len(log) : KindAt(i) \in Kinds
<1> DEFINE R == [kind : Kinds, of : Streams \cup {"none"}]
<1>1. log \in Seq(R)
  BY LogsAssumption
<1>2. ASSUME NEW i \in 1..Len(log) PROVE log[i].kind \in Kinds
  <2>1. log[i] \in R
    <3> HIDE DEF R
    <3> QED
      BY <1>1, ElementOfSeq
  <2> QED
    BY <2>1
<1> QED
  BY <1>1, <1>2 DEF KindAt

LEMMA TakenFrame ==
  ASSUME Taken, UNCHANGED <<log, cursor, artifacts, known>>, sess'.mode = sess.mode, Done' = Done
  PROVE  Taken'
<1> DEFINE d == Done
<1>1. \A k, n : Held(k, n)' = Held(k, n)
  BY DEF Held, Indices, KindAt, Start
<1>2. \A I : Names(I)' = Names(I)
  BY DEF Names
<1>3. KnownNames' = KnownNames
  BY DEF KnownNames
<1>4. Reading' = Reading
  BY DEF Reading
<1>5. Held("artifact", Done)' = Held("artifact", Done) /\ Held("stream", Done)' = Held("stream", Done)
  BY <1>1
<1>6. Names(Held("stream", Done))' = Names(Held("stream", Done))
  BY <1>2, <1>5
<1> QED
  BY <1>3, <1>4, <1>5, <1>6 DEF Taken

LEMMA HearsFrame ==
  ASSUME AllHear, UNCHANGED <<heard, nested, artifacts, known>>,
         sess'.first = sess.first, sess'.cancelled = sess.cancelled,
         dispatch'.todo = dispatch.todo, dispatch'.event = dispatch.event,
         sess'.closed # "app" => sess.closed # "app"
  PROVE  AllHear'
<1>1. \A c : Told(c)' = Told(c)
  BY DEF Told, In
<1>2. \A c : Hears(c)' = Hears(c)
  BY <1>1 DEF Hears
<1> QED
  BY <1>2 DEF AllHear

LEMMA WindowFrame ==
  ASSUME Window, UNCHANGED <<seen, next, cursor>>, Reading' = Reading
  PROVE  Window'
BY DEF Window

SessType ==
  sess \in [via : {"send", "connect"}, autoDrain : BOOLEAN,
       mode : {"created", "timed", "live", "basic", "terminal", "preclosed", "failed"},
       ended : BOOLEAN, first : Events, cancelled : Events, draining : BOOLEAN,
       closed : {"no", "yes", "app", "drained"}, closing : BOOLEAN,
       awaited : SUBSET AllClients]

-----------------------------------------------------------------------------
(* Closing, whoever does it.                                                 *)

\* What Close, EndClient, StreamDone, EndCompletes, DrainTimerFires, AsyncClose and
\* AsyncCloses may do to the rest of the session.
Closing ==
  /\ UNCHANGED <<wire, view, heard, nested>>
  /\ sess'.mode = sess.mode /\ sess'.ended = sess.ended
  /\ sess'.first = sess.first /\ sess'.cancelled = sess.cancelled
  /\ dispatch' \in {dispatch, [dispatch EXCEPT !.same = FALSE]}
  /\ \/ sess'.closed = sess.closed /\ UNCHANGED <<waiters, lists>>
     \/ /\ ~Closed /\ sess'.closed \in {"app", "drained"}
        /\ sess'.closed = "drained" => dispatch = Idle
        /\ waiters' = Settled({"terminal", "stream"}, "rejected")
        /\ lists' = [k \in Kinds |-> <<>>]

LEMMA IdleStays == [Idle EXCEPT !.same = FALSE] = Idle
<1>1. Idle \in [event : {0}, phase : {"idle"}, todo : {<<>>}, same : BOOLEAN] /\ Idle.same = FALSE
  BY DEF Idle
<1>2. ASSUME NEW E, NEW P, NEW T, NEW x \in [event : E, phase : P, todo : T, same : BOOLEAN],
             x.same = FALSE
      PROVE  [x EXCEPT !.same = FALSE] = x
  BY <1>2
<1> QED
  BY <1>1, <1>2

LEMMA ClosingKeeps ==
  ASSUME IInv, Closing, SessType', StreamsOK'
  PROVE  IInv'
<1> USE DEF IInv
<1>1. /\ UNCHANGED <<log, published, cursor, next, seen, artifacts, known, heard, nested>>
      /\ sess'.mode = sess.mode /\ sess'.ended = sess.ended
      /\ sess'.first = sess.first /\ sess'.cancelled = sess.cancelled
      /\ \/ sess'.closed = sess.closed
         \/ ~Closed /\ sess'.closed \in {"app", "drained"} /\ (sess'.closed = "drained" => dispatch = Idle)
  BY DEF Closing, wire, view
<1>2. /\ dispatch'.event = dispatch.event /\ dispatch'.phase = dispatch.phase
      /\ dispatch'.todo = dispatch.todo
      /\ dispatch'.same \in BOOLEAN /\ (~dispatch.same => ~dispatch'.same)
      /\ dispatch' \in [event : Nat, phase : {"idle", "event", "typed", "calling"},
                        todo : Seq(Callbacks), same : BOOLEAN]
      /\ dispatch = Idle => dispatch' = Idle
  <2> DEFINE T == Seq(Callbacks)
             D == [event : Nat, phase : {"idle", "event", "typed", "calling"},
                   todo : T, same : BOOLEAN]
             d == [dispatch EXCEPT !.same = FALSE]
  <2>1. dispatch \in D
    BY DEF DispatchOK
  <2>2. dispatch' = dispatch \/ dispatch' = d
    BY DEF Closing
  <2> HIDE DEF T
  <2>3. /\ d.event = dispatch.event /\ d.phase = dispatch.phase /\ d.todo = dispatch.todo
        /\ d.same = FALSE /\ d \in D
    BY <2>1
  <2>4. dispatch = Idle => d = Idle
    BY IdleStays
  <2> HIDE DEF D, d
  <2>5. dispatch.same \in BOOLEAN
    BY <2>1 DEF D
  <2> QED
    BY <2>1, <2>2, <2>3, <2>4, <2>5 DEF D, T
<1>3. Reading' = Reading /\ Delivered' = Delivered /\ Opened' = Opened /\ (Closed => Closed')
  BY <1>1 DEF Reading, Delivered, Opened, Closed
<1>4. SessOK'
  BY <1>1, <1>2, <1>3 DEF SessOK, SessType, Closed
<1>5. WireOK'
  BY <1>1 DEF WireOK
<1>6. DispatchOK'
  BY <1>1, <1>2, <1>3 DEF DispatchOK
<1>7. Window'
  BY <1>1, <1>3, WindowFrame
<1>8. Taken'
  <2>1. Done' = Done
    BY <1>1, <1>2 DEF Done
  <2> QED
    BY <1>1, <2>1, TakenFrame
<1>9. Promised'
  <2>1. CASE sess'.closed = sess.closed /\ UNCHANGED <<waiters, lists>>
    <3>1. KindAt(dispatch.event)' = KindAt(dispatch.event) /\ Closed' = Closed
      BY <1>1, <1>2, <2>1 DEF KindAt, Closed
    <3> QED
      BY <1>1, <1>2, <1>3, <2>1, <3>1 DEF Promised
  <2>2. CASE waiters' = Settled({"terminal", "stream"}, "rejected")
    BY <2>2 DEF Promised, Settled
  <2> QED
    BY <2>1, <2>2 DEF Closing
<1>10. Registered'
  <2>1. CASE sess'.closed = sess.closed /\ UNCHANGED <<waiters, lists>>
    <3>1. Closed' = Closed
      BY <2>1 DEF Closed
    <3> QED
      BY <1>1, <1>3, <2>1, <3>1 DEF Registered, In, Distinct
  <2>2. CASE ~Closed /\ sess'.closed \in {"app", "drained"} /\ lists' = [k \in Kinds |-> <<>>]
    <3>1. Closed'
      BY <2>2 DEF Closed
    <3>2. lists' \in [Kinds -> Seq(Callbacks)]
      BY <2>2
    <3>3. \A k \in Kinds : Distinct(lists'[k]) /\ DOMAIN lists'[k] = {}
      BY <2>2 DEF Distinct
    <3>4. \A c \in Callbacks : heard'[c] = heard[c]
      BY <1>1
    <3> HIDE DEF IInv
    <3>5. Registered
      BY DEF IInv
    <3> QED
      BY <1>1, <1>3, <3>1, <3>2, <3>3, <3>5 DEF Registered
  <2> QED
    BY <2>1, <2>2 DEF Closing
<1>11. Looping'
  BY <1>1, <1>2 DEF Looping, Distinct, KindAt
<1>12. AllHear'
  BY <1>1, <1>2, HearsFrame DEF Closed
<1> QED
  BY <1>4, <1>5, <1>6, <1>7, <1>8, <1>9, <1>10, <1>11, <1>12

\* Ending clients leaves their lists as long as they were.
LEMMA EndClientsIs ==
  ASSUME StreamsOK, NEW E, EndClients(E)
  PROVE  /\ clients' \in [Streams -> Seq(States)]
         /\ current' \in [Streams -> Nat]
         /\ \A s \in Streams : /\ Len(clients'[s]) = Len(clients[s])
                               /\ current'[s] <= Len(clients'[s])
         /\ refEnded' \subseteq refEnded \cup {c[1] : c \in E}
<1> DEFINE New(s) == [n \in DOMAIN clients[s] |->
             IF <<s, n>> \notin E THEN clients[s][n] ELSE IF s \in Writers THEN "ending" ELSE "ended"]
<1>1. ASSUME NEW s \in Streams PROVE New(s) \in Seq(States) /\ Len(New(s)) = Len(clients[s])
  <2>1. clients[s] \in Seq(States)
    BY DEF StreamsOK
  <2>2. Len(clients[s]) \in Nat /\ DOMAIN clients[s] = 1..Len(clients[s])
    BY <2>1
  <2>3. \A n \in 1..Len(clients[s]) : clients[s][n] \in States
    BY <2>1, ElementOfSeq
  <2> DEFINE m == Len(clients[s])
             v(n) == IF <<s, n>> \notin E THEN clients[s][n]
                     ELSE IF s \in Writers THEN "ending" ELSE "ended"
  <2>4. \A n \in 1..m : v(n) \in States
    BY <2>3 DEF States
  <2>5. New(s) = [n \in 1..m |-> v(n)]
    BY <2>2
  <2> HIDE DEF m, v, New
  <2>6. New(s) \in [1..m -> States] /\ m \in Nat
    BY <2>2, <2>4, <2>5 DEF m
  <2>7. New(s) \in Seq(States) /\ Len(New(s)) = m
    BY <2>6
  <2> QED
    BY <2>7 DEF m
<1>2. clients' = [s \in Streams |-> New(s)]
  BY DEF EndClients
<1> HIDE DEF New
<1>3. clients' \in [Streams -> Seq(States)] /\ \A s \in Streams : Len(clients'[s]) = Len(clients[s])
  BY <1>1, <1>2
<1>4. \A s \in Streams : current'[s] \in {0, current[s]}
  BY DEF EndClients
<1>5. current' = [s \in Streams |-> current'[s]]
  BY DEF EndClients
<1>6. \A s \in Streams : /\ current[s] \in Nat /\ current[s] <= Len(clients[s])
                         /\ Len(clients[s]) \in Nat
  <2> TAKE s \in Streams
  <2>1. clients[s] \in Seq(States)
    BY DEF StreamsOK
  <2> QED
    BY <2>1 DEF StreamsOK
<1>7. current' \in [Streams -> Nat] /\ \A s \in Streams : current'[s] <= Len(clients'[s])
  BY <1>3, <1>4, <1>5, <1>6
<1>8. refEnded' \subseteq refEnded \cup {c[1] : c \in E}
  BY DEF EndClients, Finished
<1> QED
  BY <1>3, <1>7, <1>8

LEMMA EndClientsOK ==
  ASSUME StreamsOK, NEW E \in SUBSET AllClients, EndClients(E), tracked' \subseteq tracked
  PROVE  StreamsOK'
<1>1. /\ clients' \in [Streams -> Seq(States)]
      /\ current' \in [Streams -> Nat]
      /\ \A s \in Streams : /\ Len(clients'[s]) = Len(clients[s])
                            /\ current'[s] <= Len(clients'[s])
      /\ refEnded' \subseteq refEnded \cup {c[1] : c \in E}
  BY EndClientsIs
<1>2. {c[1] : c \in E} \subseteq Streams
  BY DEF AllClients
<1> QED
  BY <1>1, <1>2 DEF StreamsOK

\* What close() and asyncClose() hand on of the session's flags.
Flags == {sess, [sess EXCEPT !.closing = FALSE, !.awaited = {}]}
           \cup {[sess EXCEPT !.closing = TRUE, !.awaited = E] : E \in SUBSET AllClients}

\* Of these only the asyncClose flags change, and the mark of a close.
LEMMA FlagsAre ==
  ASSUME SessType, NEW flags \in Flags
  PROVE  /\ sess' = flags =>
              /\ SessType'
              /\ sess'.mode = sess.mode /\ sess'.ended = sess.ended
              /\ sess'.first = sess.first /\ sess'.cancelled = sess.cancelled
              /\ sess'.closed = sess.closed
         /\ \A by \in {"app", "drained"} : sess' = [flags EXCEPT !.closed = by] =>
              /\ SessType'
              /\ sess'.mode = sess.mode /\ sess'.ended = sess.ended
              /\ sess'.first = sess.first /\ sess'.cancelled = sess.cancelled
              /\ sess'.closed = by
<1> DEFINE M == {"created", "timed", "live", "basic", "terminal", "preclosed", "failed"}
           V == {"send", "connect"}
           C == {"no", "yes", "app", "drained"}
           A == SUBSET AllClients
           T == [via : V, autoDrain : BOOLEAN, mode : M, ended : BOOLEAN, first : Events,
                 cancelled : Events, draining : BOOLEAN, closed : C, closing : BOOLEAN, awaited : A]
<1>1. sess \in T /\ {} \in A /\ \A by \in {"app", "drained"} : by \in C
  BY DEF SessType
<1> HIDE DEF M, V, C, A
<1>2. ASSUME NEW f \in T, NEW by \in C, NEW g, g = [f EXCEPT !.closed = by]
      PROVE  /\ g \in T /\ g.mode = f.mode /\ g.ended = f.ended
             /\ g.first = f.first /\ g.cancelled = f.cancelled /\ g.closed = by
  BY <1>2
<1>3. ASSUME NEW f \in T, NEW b \in BOOLEAN, NEW a \in A, NEW g, g = [f EXCEPT !.closing = b, !.awaited = a]
      PROVE  /\ g \in T /\ g.mode = f.mode /\ g.ended = f.ended
             /\ g.first = f.first /\ g.cancelled = f.cancelled /\ g.closed = f.closed
  BY <1>3
<1>4. /\ flags \in T /\ flags.mode = sess.mode /\ flags.ended = sess.ended
      /\ flags.first = sess.first /\ flags.cancelled = sess.cancelled /\ flags.closed = sess.closed
  <2>1. CASE flags = sess
    BY <1>1, <2>1
  <2>2. CASE flags = [sess EXCEPT !.closing = FALSE, !.awaited = {}]
    BY <1>1, <1>3, <2>2
  <2>3. CASE \E E \in SUBSET AllClients : flags = [sess EXCEPT !.closing = TRUE, !.awaited = E]
    BY <1>1, <1>3, <2>3 DEF A
  <2> QED
    BY <2>1, <2>2, <2>3 DEF Flags
<1> HIDE DEF T
<1>5. sess' \in T => SessType'
  BY DEF SessType, T, M, V, C, A
<1>6. ASSUME NEW by \in {"app", "drained"}, sess' = [flags EXCEPT !.closed = by]
      PROVE  /\ sess' \in T
             /\ sess'.mode = flags.mode /\ sess'.ended = flags.ended
             /\ sess'.first = flags.first /\ sess'.cancelled = flags.cancelled
             /\ sess'.closed = by
  BY <1>1, <1>2, <1>4, <1>6
<1> QED
  BY <1>4, <1>5, <1>6

\* close(): a session that was open is closed by whoever it says.
LEMMA ShutIs ==
  ASSUME NEW by \in {"app", "drained"}, NEW flags \in Flags, Shut(by, flags), SessType
  PROVE  /\ SessType'
         /\ sess'.mode = sess.mode /\ sess'.ended = sess.ended
         /\ sess'.first = sess.first /\ sess'.cancelled = sess.cancelled
         /\ sess'.closed = by
BY FlagsAre DEF Shut

LEMMA CloseKeeps == ASSUME IInv, Close PROVE IInv'
<1>1. /\ ~Closed /\ Shut("app", sess) /\ EndClients({c \in tracked : Active(c)})
      /\ dispatch' = [dispatch EXCEPT !.same = FALSE]
      /\ UNCHANGED <<wire, view, heard, nested>>
  BY DEF Close
<1>2. SessType /\ StreamsOK /\ sess \in Flags
  BY DEF IInv, SessOK, SessType, Flags
<1>3. /\ SessType' /\ sess'.mode = sess.mode /\ sess'.ended = sess.ended
      /\ sess'.first = sess.first /\ sess'.cancelled = sess.cancelled /\ sess'.closed = "app"
  BY <1>1, <1>2, ShutIs
<1>4. Closing
  BY <1>1, <1>3 DEF Closing, Shut
<1>5. StreamsOK'
  BY <1>1, <1>2, EndClientsOK DEF Shut, StreamsOK
<1> QED
  BY <1>3, <1>4, <1>5, ClosingKeeps

\* What Leave does to a session whose flags have not changed but for those of asyncClose.
LEMMA LeaveIs ==
  ASSUME NEW C, NEW flags, Leave(C, flags), SessType, flags \in Flags,
         UNCHANGED <<wire, view, heard, nested>>
  PROVE  SessType' /\ Closing /\ tracked' \subseteq tracked
<1> DEFINE shuts == C # {} /\ sess.draining /\ ~Closed /\ tracked \subseteq C
<1>1. CASE shuts
  <2> DEFINE by == IF dispatch = Idle THEN "drained" ELSE "app"
  <2>1. Shut(by, flags) /\ dispatch' = [dispatch EXCEPT !.same = FALSE]
    BY <1>1 DEF Leave
  <2>2. by \in {"app", "drained"} /\ (by = "drained" => dispatch = Idle)
    OBVIOUS
  <2> HIDE DEF by
  <2>3. /\ SessType' /\ sess'.mode = sess.mode /\ sess'.ended = sess.ended
        /\ sess'.first = sess.first /\ sess'.cancelled = sess.cancelled /\ sess'.closed = by
    BY <2>1, <2>2, ShutIs
  <2>4. Closing
    BY <1>1, <2>1, <2>2, <2>3 DEF Closing, Shut
  <2> QED
    BY <2>1, <2>3, <2>4 DEF Shut
<1>2. CASE ~shuts
  <2>1. tracked' = tracked \ C /\ sess' = flags /\ UNCHANGED <<waiters, lists, dispatch>>
    BY <1>2 DEF Leave
  <2>2. /\ SessType' /\ sess'.mode = sess.mode /\ sess'.ended = sess.ended
        /\ sess'.first = sess.first /\ sess'.cancelled = sess.cancelled /\ sess'.closed = sess.closed
    BY <2>1, FlagsAre
  <2>3. Closing
    BY <2>1, <2>2 DEF Closing
  <2> QED
    BY <2>1, <2>2, <2>3
<1> QED
  BY <1>1, <1>2

LEMMA EndClientKeeps ==
  ASSUME IInv, NEW c \in AllClients, EndClient(c) \/ StreamDone(c)
  PROVE  IInv'
<1>1. EndClients({c}) /\ UNCHANGED <<wire, view, heard, nested>>
  BY DEF EndClient, StreamDone
<1>2. SessType /\ StreamsOK /\ sess \in Flags
  BY DEF IInv, SessOK, SessType, Flags
<1>3. SessType' /\ Closing /\ tracked' \subseteq tracked
  BY <1>1, <1>2, LeaveIs DEF EndClient, StreamDone
<1>4. StreamsOK'
  BY <1>1, <1>2, <1>3, EndClientsOK
<1> QED
  BY <1>3, <1>4, ClosingKeeps

LEMMA EndCompletesKeeps ==
  ASSUME IInv, NEW c \in AllClients, EndCompletes(c)
  PROVE  IInv'
<1>1. /\ IsClient(c)
      /\ clients' = [clients EXCEPT ![c[1]][c[2]] = "ended"]
      /\ current' = [current EXCEPT ![c[1]] = 0]
      /\ refEnded' = refEnded \cup {c[1]}
      /\ Leave({c}, sess)
      /\ UNCHANGED <<wire, view, heard, nested>>
  BY DEF EndCompletes
<1>2. SessType /\ StreamsOK /\ sess \in Flags
  BY DEF IInv, SessOK, SessType, Flags
<1>3. SessType' /\ Closing /\ tracked' \subseteq tracked
  BY <1>1, <1>2, LeaveIs
<1>4. StreamsOK'
  <2>1. PICK s \in Streams, n \in Nat : c[1] = s /\ c[2] = n
    BY DEF AllClients
  <2>2. clients[s] \in Seq(States) /\ n \in 1..Len(clients[s])
    BY <1>1, <1>2, <2>1 DEF StreamsOK, IsClient
  <2> DEFINE q == [clients[s] EXCEPT ![n] = "ended"]
  <2>3. q \in Seq(States) /\ Len(q) = Len(clients[s])
    BY <2>2, ExceptSeq DEF States
  <2>4. clients' = [clients EXCEPT ![s] = q]
    BY <1>1, <2>1
  <2> HIDE DEF q
  <2>5. clients' \in [Streams -> Seq(States)] /\ \A t \in Streams : Len(clients'[t]) = Len(clients[t])
    BY <1>2, <2>3, <2>4 DEF StreamsOK
  <2>6. \A t \in Streams : Len(clients[t]) \in Nat
    <3> TAKE t \in Streams
    <3>1. clients[t] \in Seq(States)
      BY <1>2 DEF StreamsOK
    <3> QED
      BY <3>1
  <2>7. /\ current' \in [Streams -> Nat] /\ \A t \in Streams : current'[t] <= Len(clients'[t])
    BY <1>1, <1>2, <2>1, <2>5, <2>6 DEF StreamsOK
  <2> QED
    BY <1>1, <1>2, <1>3, <2>1, <2>5, <2>7 DEF StreamsOK
<1> QED
  BY <1>3, <1>4, ClosingKeeps

LEMMA DrainTimerFiresKeeps == ASSUME IInv, dispatch = Idle, DrainTimerFires PROVE IInv'
<1>1. /\ ~Closed /\ Shut("drained", sess) /\ EndClients({c \in tracked : Active(c)})
      /\ UNCHANGED <<wire, view, heard, nested, dispatch>>
  BY DEF DrainTimerFires
<1>2. SessType /\ StreamsOK /\ sess \in Flags
  BY DEF IInv, SessOK, SessType, Flags
<1>3. /\ SessType' /\ sess'.mode = sess.mode /\ sess'.ended = sess.ended
      /\ sess'.first = sess.first /\ sess'.cancelled = sess.cancelled /\ sess'.closed = "drained"
  BY <1>1, <1>2, ShutIs
<1>4. Closing
  BY <1>1, <1>3 DEF Closing, Shut
<1>5. StreamsOK'
  BY <1>1, <1>2, EndClientsOK DEF Shut, StreamsOK
<1> QED
  BY <1>3, <1>4, <1>5, ClosingKeeps

LEMMA AsyncCloseKeeps == ASSUME IInv, AsyncClose PROVE IInv'
<1> DEFINE E == {c \in tracked : Active(c)}
<1>1. /\ EndClients(E)
      /\ Leave(Finished(E), [sess EXCEPT !.closing = TRUE, !.awaited = E])
      /\ UNCHANGED <<wire, view, heard, nested>>
  BY DEF AsyncClose
<1>2. SessType /\ StreamsOK /\ E \in SUBSET AllClients
  BY DEF IInv, SessOK, SessType, StreamsOK
<1> HIDE DEF E
<1>5. [sess EXCEPT !.closing = TRUE, !.awaited = E] \in Flags
  BY <1>2 DEF Flags
<1>3. SessType' /\ Closing /\ tracked' \subseteq tracked
  BY <1>1, <1>2, <1>5, LeaveIs
<1>4. StreamsOK'
  BY <1>1, <1>2, <1>3, EndClientsOK
<1> QED
  BY <1>3, <1>4, ClosingKeeps

LEMMA AsyncClosesKeeps == ASSUME IInv, dispatch = Idle, AsyncCloses PROVE IInv'
<1> DEFINE done == [sess EXCEPT !.closing = FALSE, !.awaited = {}]
<1>1. /\ \/ Closed /\ sess' = done /\ tracked' = {} /\ UNCHANGED <<waiters, lists>>
         \/ ~Closed /\ Shut("app", done)
      /\ UNCHANGED <<wire, view, heard, nested, dispatch, clients, current, refEnded>>
  BY DEF AsyncCloses
<1>2. SessType /\ StreamsOK /\ done \in Flags
  BY DEF IInv, SessOK, SessType, Flags
<1> HIDE DEF done
<1>3. StreamsOK'
  BY <1>1, <1>2 DEF StreamsOK, Shut
<1>4. CASE Closed /\ sess' = done /\ UNCHANGED <<waiters, lists>>
  <2>1. /\ SessType' /\ sess'.mode = sess.mode /\ sess'.ended = sess.ended
        /\ sess'.first = sess.first /\ sess'.cancelled = sess.cancelled /\ sess'.closed = sess.closed
    BY <1>2, <1>4, FlagsAre
  <2>2. Closing
    BY <1>1, <1>4, <2>1 DEF Closing
  <2> QED
    BY <1>3, <2>1, <2>2, ClosingKeeps
<1>5. CASE ~Closed /\ Shut("app", done)
  <2>1. /\ SessType' /\ sess'.mode = sess.mode /\ sess'.ended = sess.ended
        /\ sess'.first = sess.first /\ sess'.cancelled = sess.cancelled /\ sess'.closed = "app"
    BY <1>2, <1>5, ShutIs
  <2>2. Closing
    BY <1>1, <1>5, <2>1 DEF Closing, Shut
  <2> QED
    BY <1>3, <2>1, <2>2, ClosingKeeps
<1> QED
  BY <1>1, <1>4, <1>5

-----------------------------------------------------------------------------
(* Opening the session.                                                      *)

LEMMA InitIInv == Init => IInv
<1> SUFFICES ASSUME Init PROVE IInv
  OBVIOUS
<1> USE DEF Init
<1>1. log \in Logs /\ Len(log) \in Nat
  BY LogTyped
<1>2. PICK via \in {"send", "connect"}, auto \in BOOLEAN :
        sess = [via |-> via, autoDrain |-> auto, mode |-> "created", ended |-> FALSE,
                first |-> <<>>, cancelled |-> <<>>, draining |-> FALSE, closed |-> "no",
                closing |-> FALSE, awaited |-> {}]
  OBVIOUS
<1>3. /\ sess.mode = "created" /\ sess.ended = FALSE /\ sess.first = <<>>
      /\ sess.closed = "no" /\ SessType
  <2>1. <<>> \in Events
    BY DEF Events
  <2>2. {} \in SUBSET AllClients
    OBVIOUS
  <2> QED
    BY <1>2, <2>1, <2>2 DEF SessType
<1>4. Idle.phase = "idle" /\ Idle.todo = <<>> /\ Idle.event = 0 /\ Idle.same = FALSE
  BY DEF Idle
<1>5. SessOK
  BY <1>3 DEF SessOK, SessType, Closed, Delivered
<1>6. WireOK
  BY <1>1 DEF WireOK
<1>7. StreamsOK
  BY BoundsAssumption DEF StreamsOK
<1>8. DispatchOK
  BY <1>4 DEF DispatchOK, Idle
<1>9. ~Reading /\ ~Opened
  BY <1>3 DEF Reading, Opened
<1>10. Window /\ Taken
  BY <1>9 DEF Window, Taken
<1>11. Promised
  BY DEF Promised
<1>12. Registered
  <2>1. Unheard.kind = "none" /\ Unheard = [kind |-> Unheard.kind, got |-> Unheard.got]
    BY DEF Unheard
  <2>2. DOMAIN heard = Callbacks /\ \A c \in Callbacks : heard[c] = Unheard
    OBVIOUS
  <2>3. lists \in [Kinds -> Seq(Callbacks)] /\ \A k \in Kinds : lists[k] = <<>>
    OBVIOUS
  <2> QED
    BY <1>3, <2>1, <2>2, <2>3 DEF Registered, Distinct, Kinds
<1>13. Looping
  BY <1>4 DEF Looping, Distinct
<1>14. AllHear
  BY DEF AllHear, Hears, Unheard
<1> QED
  BY <1>5, <1>6, <1>7, <1>8, <1>10, <1>11, <1>12, <1>13, <1>14 DEF IInv

LEMMA PublishKeeps == ASSUME IInv, Publish PROVE IInv'
<1>1. /\ published < Len(log) /\ published' = published + 1
      /\ UNCHANGED <<log, cursor, next, sess, seen, artifacts, known, lists, heard, nested,
                     dispatch, waiters, clients, current, refEnded, tracked>>
  BY DEF Publish, view, calls, streams
<1>2. /\ SessOK /\ WireOK /\ StreamsOK /\ DispatchOK /\ Window /\ Taken /\ Promised
      /\ Registered /\ Looping /\ AllHear
  BY DEF IInv
<1>3. SessOK' /\ StreamsOK' /\ DispatchOK' /\ Window'
  BY <1>1, <1>2 DEF SessOK, Delivered, Closed, StreamsOK, DispatchOK, Reading, Window
<1>4. WireOK'
  <2>1. Len(log) \in Nat
    BY <1>2, LogTyped DEF WireOK
  <2> QED
    BY <1>1, <1>2, <2>1 DEF WireOK
<1>5. Taken'
  BY <1>1, <1>2, TakenFrame DEF Done
<1>6. Promised'
  BY <1>1, <1>2 DEF Promised, Closed, Reading, Delivered, KindAt
<1>7. Registered' /\ Looping'
  BY <1>1, <1>2 DEF Registered, Looping, Distinct, In, Closed, Opened, Delivered, KindAt
<1>8. AllHear'
  BY <1>1, <1>2, HearsFrame
<1> QED
  BY <1>3, <1>4, <1>5, <1>6, <1>7, <1>8 DEF IInv

\* The opening sets the mode, and may set that the task has ended and the session closed.
LEMMA ModeIs ==
  ASSUME SessType,
         NEW m \in {"created", "timed", "live", "basic", "terminal", "preclosed", "failed"}
  PROVE  /\ sess' = [sess EXCEPT !.mode = m] =>
              /\ SessType' /\ sess'.mode = m /\ sess'.ended = sess.ended
              /\ sess'.closed = sess.closed /\ sess'.first = sess.first
         /\ sess' = [sess EXCEPT !.mode = m, !.ended = TRUE] =>
              /\ SessType' /\ sess'.mode = m /\ sess'.ended = TRUE
              /\ sess'.closed = sess.closed /\ sess'.first = sess.first
         /\ sess' = [sess EXCEPT !.mode = m, !.ended = TRUE, !.closed = "yes"] =>
              /\ SessType' /\ sess'.mode = m /\ sess'.ended = TRUE
              /\ sess'.closed = "yes" /\ sess'.first = sess.first
<1> DEFINE M == {"created", "timed", "live", "basic", "terminal", "preclosed", "failed"}
           V == {"send", "connect"}
           C == {"no", "yes", "app", "drained"}
           A == SUBSET AllClients
           T == [via : V, autoDrain : BOOLEAN, mode : M, ended : BOOLEAN, first : Events,
                 cancelled : Events, draining : BOOLEAN, closed : C, closing : BOOLEAN, awaited : A]
<1>1. sess \in T /\ m \in M /\ "yes" \in C
  BY DEF SessType
<1> HIDE DEF M, V, C, A
<1>2. ASSUME NEW g, g = [sess EXCEPT !.mode = m]
      PROVE  /\ g \in T /\ g.mode = m /\ g.ended = sess.ended
             /\ g.closed = sess.closed /\ g.first = sess.first
  BY <1>1, <1>2
<1>3. ASSUME NEW g, g = [sess EXCEPT !.mode = m, !.ended = TRUE]
      PROVE  /\ g \in T /\ g.mode = m /\ g.ended = TRUE
             /\ g.closed = sess.closed /\ g.first = sess.first
  BY <1>1, <1>3
<1>4. ASSUME NEW g, g = [sess EXCEPT !.mode = m, !.ended = TRUE, !.closed = "yes"]
      PROVE  /\ g \in T /\ g.mode = m /\ g.ended = TRUE
             /\ g.closed = "yes" /\ g.first = sess.first
  BY <1>1, <1>4
<1> HIDE DEF T
<1>5. sess' \in T => SessType'
  BY DEF SessType, T, M, V, C, A
<1> QED
  BY <1>2, <1>3, <1>4, <1>5

\* While the session opens, nothing has been called and nobody waits.
LEMMA OpeningKeeps ==
  ASSUME IInv, ~Opened, dispatch = Idle,
         UNCHANGED <<log, published, seen, lists, heard, nested, dispatch, waiters,
                     clients, current, refEnded, tracked>>,
         WireOK', SessOK', Window', Taken', sess'.first = sess.first,
         Closed => Closed'
  PROVE  IInv'
<1>1. /\ StreamsOK /\ DispatchOK /\ Promised /\ Registered /\ Looping /\ AllHear /\ ~Reading
  BY DEF IInv, Opened, Reading
<1>2. StreamsOK'
  BY <1>1 DEF StreamsOK
<1>3. dispatch' = Idle /\ Idle.phase = "idle"
  BY DEF Idle
<1>4. DispatchOK'
  BY <1>1, <1>3 DEF DispatchOK
<1>5. Promised'
  BY <1>1 DEF Promised
<1>6. \A c \in Callbacks : heard[c].kind = "none"
  BY <1>1 DEF Registered
<1>7. Registered'
  BY <1>1, <1>6 DEF Registered, Distinct, Kinds
<1>8. Looping'
  BY <1>3, <1>1 DEF Looping, Idle, Distinct
<1>9. AllHear'
  BY <1>6 DEF AllHear, Hears
<1> QED
  BY <1>2, <1>4, <1>5, <1>7, <1>8, <1>9 DEF IInv

LEMMA IdempotentHitKeeps == ASSUME IInv, dispatch = Idle, IdempotentHit PROVE IInv'
<1>1. /\ sess.mode = "created"
      /\ sess' = [sess EXCEPT !.mode = "preclosed", !.ended = TRUE, !.closed = "yes"]
      /\ UNCHANGED <<log, published, cursor, next, seen, artifacts, known, lists, heard, nested,
                     dispatch, waiters, clients, current, refEnded, tracked>>
  BY DEF IdempotentHit, wire, view, calls, streams
<1>2. SessOK /\ SessType /\ WireOK /\ Window /\ Taken
  BY DEF IInv, SessOK, SessType
<1>3. /\ SessType' /\ sess'.mode = "preclosed" /\ sess'.ended = TRUE /\ sess'.closed = "yes"
      /\ sess'.first = sess.first
  BY <1>1, <1>2, ModeIs
<1>4. ~Opened /\ ~Reading /\ ~Reading'
  BY <1>1, <1>3 DEF Opened, Reading
<1>5. SessOK' /\ WireOK' /\ Window' /\ Taken'
  BY <1>1, <1>2, <1>3, <1>4 DEF SessOK, SessType, Closed, WireOK, Window, Taken
<1> QED
  BY <1>1, <1>3, <1>4, <1>5, OpeningKeeps DEF Closed

LEMMA AskTimeKeeps == ASSUME IInv, dispatch = Idle, AskTime PROVE IInv'
<1>1. /\ sess.mode = "created"
      /\ sess' = [sess EXCEPT !.mode = "timed"]
      /\ cursor' = published
      /\ UNCHANGED <<log, published, next, seen, artifacts, known, lists, heard, nested,
                     dispatch, waiters, clients, current, refEnded, tracked>>
  BY DEF AskTime, view, calls, streams
<1>2. SessOK /\ SessType /\ WireOK /\ Window /\ Taken
  BY DEF IInv, SessOK, SessType
<1>3. /\ SessType' /\ sess'.mode = "timed" /\ sess'.ended = sess.ended /\ sess'.closed = sess.closed
      /\ sess'.first = sess.first
  BY <1>1, <1>2, ModeIs
<1>4. ~Opened /\ ~Reading /\ ~Reading'
  BY <1>1, <1>3 DEF Opened, Reading
<1>5. SessOK' /\ Window' /\ Taken'
  BY <1>1, <1>2, <1>3, <1>4 DEF SessOK, SessType, Closed, Delivered, Window, Taken
<1>6. WireOK'
  <2>1. Len(log) \in Nat
    BY <1>2, LogTyped DEF WireOK
  <2> QED
    BY <1>1, <1>2, <2>1 DEF WireOK
<1> QED
  BY <1>1, <1>3, <1>4, <1>5, <1>6, OpeningKeeps DEF Closed

LEMMA HistoryFailsKeeps == ASSUME IInv, dispatch = Idle, HistoryFails PROVE IInv'
<1>1. /\ sess.mode \in {"created", "timed"}
      /\ UNCHANGED <<log, published, seen, artifacts, known, lists, heard, nested,
                     dispatch, waiters, clients, current, refEnded, tracked>>
  BY DEF HistoryFails, view, calls, streams
<1>2. SessOK /\ SessType /\ WireOK /\ Window /\ Taken
  BY DEF IInv, SessOK, SessType
<1>3. ~Opened /\ ~Reading
  BY <1>1 DEF Opened, Reading
<1>4. CASE sess' = [sess EXCEPT !.mode = "failed"] /\ UNCHANGED <<cursor, next>>
  <2>1. /\ SessType' /\ sess'.mode = "failed" /\ sess'.ended = sess.ended
        /\ sess'.closed = sess.closed /\ sess'.first = sess.first
    BY <1>2, <1>4, ModeIs
  <2>2. SessOK' /\ WireOK' /\ Window' /\ Taken'
    BY <1>1, <1>2, <1>3, <1>4, <2>1
    DEF SessOK, SessType, Closed, Delivered, WireOK, Window, Taken, Reading
  <2> QED
    BY <1>1, <1>3, <2>1, <2>2, OpeningKeeps DEF Closed
<1>5. CASE sess' = [sess EXCEPT !.mode = "basic"] /\ cursor' = Replayed /\ next' = Replayed + 1
  <2>1. /\ SessType' /\ sess'.mode = "basic" /\ sess'.ended = sess.ended
        /\ sess'.closed = sess.closed /\ sess'.first = sess.first
    BY <1>2, <1>5, ModeIs
  <2>2. SessOK'
    BY <1>1, <1>2, <2>1 DEF SessOK, SessType, Closed, Delivered
  <2>3. Len(log) \in Nat /\ published \in 0..Len(log)
    BY <1>2, LogTyped DEF WireOK
  <2>4. Replayed \in 0..published
    BY <2>3, BoundsAssumption DEF Replayed
  <2>5. WireOK'
    BY <1>1, <1>2, <1>5, <2>3, <2>4 DEF WireOK
  <2>6. seen = <<>> /\ artifacts = <<>> /\ known = <<>>
    BY <1>1, <1>2, <1>3 DEF Window, Taken
  <2>7. Window'
    BY <1>1, <1>5, <2>4, <2>6, <2>1, BoundsAssumption DEF Window
  <2>8. Taken'
    <3>1. Idle.phase = "idle"
      BY DEF Idle
    <3>2. Start' = Replayed /\ Done' = Replayed
      BY <1>1, <1>5, <2>1, <2>4, <3>1 DEF Start, Done
    <3>3. Held("artifact", Done)' = {} /\ Held("stream", Done)' = {}
      BY <2>4, <3>2 DEF Held, Indices
    <3>4. Sorted({}) = <<>>
      BY SortedNone
    <3>5. KnownNames' = {} /\ Names({})' = {}
      BY <1>1, <2>6 DEF KnownNames, Names
    <3>6. artifacts' = <<>>
      BY <1>1, <2>6
    <3> QED
      BY <2>1, <3>3, <3>4, <3>5, <3>6 DEF Taken
  <2> QED
    BY <1>1, <1>3, <2>1, <2>2, <2>5, <2>7, <2>8, OpeningKeeps DEF Closed
<1> QED
  BY <1>4, <1>5 DEF HistoryFails

LEMMA ReadHistoryKeeps == ASSUME IInv, dispatch = Idle, ReadHistory PROVE IInv'
<1> DEFINE A == Indices("artifact", published)
           K == {i \in Indices("stream", published) :
                   \A j \in Indices("stream", i - 1) : log[j].of # log[i].of}
<1>1. /\ sess.mode = "timed" /\ artifacts' = Sorted(A) /\ known' = Sorted(K)
      /\ UNCHANGED <<log, published, seen, lists, heard, nested,
                     dispatch, waiters, clients, current, refEnded, tracked>>
  BY DEF ReadHistory, calls, streams
<1>2. SessOK /\ SessType /\ WireOK /\ Window
  BY DEF IInv, SessOK, SessType
<1>3. ~Opened /\ ~Reading
  BY <1>1 DEF Opened, Reading
<1>4. Len(log) \in Nat /\ published \in 0..Len(log) /\ published \in Nat /\ log \in Logs
  BY <1>2, LogTyped DEF WireOK
<1>5. A \in SUBSET (1..published) /\ K \in SUBSET (1..published)
  BY DEF Indices
<1>6. /\ Sorted(A) \in Seq(Nat) /\ Sorted(K) \in Seq(Nat)
      /\ {Sorted(K)[j] : j \in DOMAIN Sorted(K)} = K
  <2> HIDE DEF A, K
  <2> QED
    BY <1>4, <1>5, SortedAll
<1>7. CASE sess' = [sess EXCEPT !.mode = "terminal", !.ended = TRUE] /\ UNCHANGED <<cursor, next>>
  <2>1. /\ SessType' /\ sess'.mode = "terminal" /\ sess'.ended = TRUE
        /\ sess'.closed = sess.closed /\ sess'.first = sess.first
    BY <1>2, <1>7, ModeIs
  <2> HIDE DEF A, K
  <2>2. SessOK' /\ WireOK' /\ Window' /\ Taken'
    BY <1>1, <1>2, <1>3, <1>6, <1>7, <2>1
    DEF SessOK, SessType, Closed, Delivered, WireOK, Window, Taken, Reading
  <2> QED
    BY <1>1, <1>3, <2>1, <2>2, OpeningKeeps DEF Closed
<1>8. CASE /\ sess' = [sess EXCEPT !.mode = "live"]
           /\ cursor' = SubscribeCursor /\ next' = SubscribeCursor + 1
  <2>1. /\ SessType' /\ sess'.mode = "live" /\ sess'.ended = sess.ended
        /\ sess'.closed = sess.closed /\ sess'.first = sess.first
    BY <1>2, <1>8, ModeIs
  <2>2. SubscribeCursor = published
    BY <1>2, <1>4 DEF SubscribeCursor, WireOK
  <2>3. SessOK'
    BY <1>1, <1>2, <2>1 DEF SessOK, SessType, Closed, Delivered
  <2>4. WireOK'
    <3> HIDE DEF A, K
    <3> QED
      BY <1>1, <1>2, <1>4, <1>6, <1>8, <2>2 DEF WireOK
  <2>5. seen = <<>>
    BY <1>2, <1>3 DEF Window
  <2>6. Window'
    BY <1>1, <1>4, <1>8, <2>1, <2>2, <2>5, BoundsAssumption DEF Window
  <2>7. Taken'
    <3>1. Start' = 0 /\ Done' = published
      <4>1. Idle.phase = "idle"
        BY DEF Idle
      <4> QED
        BY <1>1, <1>4, <1>8, <2>1, <2>2, <4>1 DEF Start, Done
    <3>2. /\ Held("artifact", Done)' = A
          /\ Held("stream", Done)' = Indices("stream", published)
      BY <1>1, <1>4, <3>1 DEF Held, Indices, KindAt
    <3>3. KnownNames' = Names(K)
      <4>1. KnownNames' = {log[Sorted(K)[j]].of : j \in DOMAIN Sorted(K)}
        BY <1>1 DEF KnownNames
      <4> HIDE DEF K
      <4> DEFINE q == Sorted(K)
      <4>2. {q[j] : j \in DOMAIN q} = K
        BY <1>6
      <4> HIDE DEF q
      <4>3. {log[q[j]].of : j \in DOMAIN q} = {log[i].of : i \in K}
        BY <4>2
      <4> QED
        BY <4>1, <4>3 DEF Names, q
    <3>4. Names(K) = Names(Indices("stream", published))
      <4>1. Names(K) \subseteq Names(Indices("stream", published))
        BY DEF Names
      <4>2. ASSUME NEW i \in Indices("stream", published)
            PROVE  log[i].of \in Names(K)
        <5> DEFINE S == {j \in Indices("stream", published) : log[j].of = log[i].of}
        <5>1. S \in SUBSET Nat /\ S # {}
          BY <1>4, <4>2 DEF Indices
        <5> HIDE DEF S
        <5>2. PICK m \in S : \A k \in S : m <= k
          BY <5>1, Least
        <5>3. m \in Indices("stream", published) /\ log[m].of = log[i].of
          BY DEF S
        <5>4. ASSUME NEW j \in Indices("stream", m - 1) PROVE log[j].of # log[m].of
          <6>1. j \in 1..m - 1 /\ m \in 1..published /\ KindAt(j) = "stream" /\ j \in Nat /\ m \in Nat
            BY <1>4, <5>3, <5>4 DEF Indices
          <6>2. j \in Indices("stream", published) /\ ~(m <= j)
            BY <1>4, <6>1 DEF Indices
          <6> QED
            BY <5>2, <5>3, <6>2 DEF S
        <5>5. m \in K
          BY <5>3, <5>4
        <5> QED
          BY <5>3, <5>5 DEF Names
      <4> QED
        BY <4>1, <4>2 DEF Names
    <3>5. Names(Held("stream", Done))' = Names(Indices("stream", published))
      BY <1>1, <3>2 DEF Names
    <3> HIDE DEF A, K
    <3> QED
      BY <1>1, <2>1, <3>2, <3>3, <3>4, <3>5 DEF Taken
  <2> QED
    BY <1>1, <1>3, <2>1, <2>3, <2>4, <2>6, <2>7, OpeningKeeps DEF Closed
<1> QED
  BY <1>7, <1>8 DEF ReadHistory

-----------------------------------------------------------------------------
(* What the application does besides closing.                                *)

\* A step that leaves the messages and the dispatch alone.
LEMMA AsideKeeps ==
  ASSUME IInv,
         UNCHANGED <<log, published, cursor, next, seen, artifacts, known>>,
         dispatch'.event = dispatch.event, dispatch'.phase = dispatch.phase,
         sess'.mode = sess.mode
  PROVE  WireOK' /\ Window' /\ Taken'
<1>1. WireOK /\ Window /\ Taken
  BY DEF IInv
<1>2. WireOK'
  BY <1>1 DEF WireOK
<1>3. Window'
  BY <1>1, WindowFrame DEF Reading
<1>4. Taken'
  BY <1>1, TakenFrame DEF Done
<1> QED
  BY <1>2, <1>3, <1>4

LEMMA OpenKeeps == ASSUME IInv, NEW s \in Streams, Open(s) PROVE IInv'
<1>1. /\ Len(clients[s]) < MaxClients
      /\ clients' = [clients EXCEPT ![s] = Append(@, "active")]
      /\ current' = [current EXCEPT ![s] = Len(clients[s]) + 1]
      /\ tracked' = tracked \cup {<<s, Len(clients[s]) + 1>>}
      /\ UNCHANGED <<wire, sess, view, calls, refEnded>>
  BY DEF Open
<1>2. StreamsOK /\ SessOK
  BY DEF IInv
<1>3. clients[s] \in Seq(States) /\ Len(clients[s]) \in Nat /\ MaxClients \in Nat
  BY <1>2, BoundsAssumption DEF StreamsOK
<1>4. /\ Append(clients[s], "active") \in Seq(States)
      /\ Len(Append(clients[s], "active")) = Len(clients[s]) + 1
  BY <1>3, AppendProperties DEF States
<1>5. \A t \in Streams : Len(clients[t]) \in Nat
  <2> TAKE t \in Streams
  <2>1. clients[t] \in Seq(States)
    BY <1>2 DEF StreamsOK
  <2> QED
    BY <2>1
<1>6. <<s, Len(clients[s]) + 1>> \in AllClients
  BY <1>1, <1>3 DEF AllClients
<1>7. StreamsOK'
  <2> DEFINE q == Append(clients[s], "active")
             l == Len(clients[s])
  <2>1. q \in Seq(States) /\ Len(q) = l + 1 /\ l \in Nat /\ l + 1 <= MaxClients
    BY <1>1, <1>3, <1>4
  <2>2. clients' = [clients EXCEPT ![s] = q] /\ current' = [current EXCEPT ![s] = l + 1]
    BY <1>1
  <2> HIDE DEF q, l
  <2>3. clients' \in [Streams -> Seq(States)] /\ current' \in [Streams -> Nat]
    BY <1>2, <2>1, <2>2 DEF StreamsOK
  <2>4. \A t \in Streams : current'[t] <= Len(clients'[t]) /\ Len(clients'[t]) <= MaxClients
    BY <1>2, <1>3, <1>5, <2>1, <2>2 DEF StreamsOK
  <2> QED
    BY <1>1, <1>2, <1>6, <2>3, <2>4 DEF StreamsOK
<1>8. Closing
  BY <1>1 DEF Closing, calls
<1>9. SessType'
  BY <1>1, <1>2 DEF SessOK, SessType
<1> QED
  BY <1>7, <1>8, <1>9, ClosingKeeps

\* What is pending is so in a session that reads, which has not ended unless it has
\* handed on a terminal event.
LEMMA TerminalIs ==
  ASSUME SessOK
  PROVE  /\ Terminal \in Events
         /\ Delivered => Terminal = sess.first
         /\ ~Delivered /\ ~sess.ended => Terminal = <<>> /\ sess.first = <<>>
         /\ Terminal # <<>> <=> Delivered \/ sess.ended
         /\ Reading /\ ~Delivered => ~sess.ended
<1>1. <<Synthetic>> \in Events /\ <<>> \in Events
  BY DEF Events, Synthetic
<1> QED
  BY <1>1 DEF SessOK, Terminal, Delivered, Reading

LEMMA FirstIs ==
  ASSUME SessType, NEW x \in Events, sess' = [sess EXCEPT !.first = x]
  PROVE  /\ SessType'
         /\ sess'.mode = sess.mode /\ sess'.ended = sess.ended
         /\ sess'.first = x /\ sess'.cancelled = sess.cancelled /\ sess'.closed = sess.closed
<1> DEFINE M == {"created", "timed", "live", "basic", "terminal", "preclosed", "failed"}
           V == {"send", "connect"}
           C == {"no", "yes", "app", "drained"}
           A == SUBSET AllClients
           T == [via : V, autoDrain : BOOLEAN, mode : M, ended : BOOLEAN, first : Events,
                 cancelled : Events, draining : BOOLEAN, closed : C, closing : BOOLEAN, awaited : A]
<1>1. sess \in T
  BY DEF SessType
<1> HIDE DEF M, V, C, A
<1>2. /\ sess' \in T /\ sess'.mode = sess.mode /\ sess'.ended = sess.ended
      /\ sess'.first = x /\ sess'.cancelled = sess.cancelled /\ sess'.closed = sess.closed
  BY <1>1
<1> HIDE DEF T
<1>3. sess' \in T => SessType'
  BY DEF SessType, T, M, V, C, A
<1> QED
  BY <1>2, <1>3

\* The terminal event is made up only for a session that has ended without one: nobody
\* waits there, and no callback of its kind has been registered.
LEMMA MadeUp ==
  ASSUME IInv, sess' \in {sess, [sess EXCEPT !.first = Terminal]}
  PROVE  /\ SessType'
         /\ sess'.mode = sess.mode /\ sess'.ended = sess.ended
         /\ sess'.first \in {sess.first, Terminal}
         /\ sess'.cancelled = sess.cancelled /\ sess'.closed = sess.closed
         /\ Reading' = Reading /\ Opened' = Opened /\ Closed' = Closed
         /\ Delivered => Delivered' /\ sess'.first = sess.first
         /\ Reading => Delivered' = Delivered
         /\ sess'.first # sess.first =>
              Delivered' /\ ~Delivered /\ \A c \in Callbacks : heard[c].kind # "terminal"
<1>1. SessOK /\ SessType /\ Registered
  BY DEF IInv, SessOK, SessType
<1>2. Terminal \in Events
  BY <1>1, TerminalIs
<1>3. /\ SessType'
      /\ sess'.mode = sess.mode /\ sess'.ended = sess.ended
      /\ sess'.first \in {sess.first, Terminal}
      /\ sess'.cancelled = sess.cancelled /\ sess'.closed = sess.closed
  <2>1. CASE sess' = sess
    BY <1>1, <2>1 DEF SessType
  <2>2. CASE sess' = [sess EXCEPT !.first = Terminal]
    BY <1>1, <1>2, <2>2, FirstIs
  <2> QED
    BY <2>1, <2>2
<1>4. Reading' = Reading /\ Opened' = Opened /\ Closed' = Closed
  BY <1>3 DEF Reading, Opened, Closed
<1>5. /\ Delivered => Terminal = sess.first
      /\ ~Delivered /\ ~sess.ended => Terminal = <<>> /\ sess.first = <<>>
      /\ Terminal # <<>> <=> Delivered \/ sess.ended
      /\ Reading /\ ~Delivered => ~sess.ended
  BY <1>1, TerminalIs
<1>6. sess.ended /\ ~Delivered => \A c \in Callbacks : heard[c].kind # "terminal"
  BY <1>1 DEF Registered
<1>7. Delivered' <=> sess'.first # <<>>
  BY DEF Delivered
<1>8. Delivered <=> sess.first # <<>>
  BY DEF Delivered
<1> QED
  BY <1>3, <1>4, <1>5, <1>6, <1>7, <1>8

LEMMA WaitKeeps ==
  ASSUME IInv, sess' \in {sess, [sess EXCEPT !.first = Terminal]}, Promised',
         UNCHANGED <<wire, view, lists, heard, nested, dispatch, streams>>
  PROVE  IInv'
<1>1. /\ SessType'
      /\ sess'.mode = sess.mode /\ sess'.ended = sess.ended
      /\ sess'.cancelled = sess.cancelled /\ sess'.closed = sess.closed
      /\ Reading' = Reading /\ Opened' = Opened /\ Closed' = Closed
      /\ Delivered => Delivered' /\ sess'.first = sess.first
      /\ sess'.first # sess.first =>
           Delivered' /\ ~Delivered /\ \A c \in Callbacks : heard[c].kind # "terminal"
  BY MadeUp
<1>2. UNCHANGED <<log, published, cursor, next, seen, artifacts, known, lists, heard, nested,
                  dispatch, clients, current, refEnded, tracked>>
  BY DEF wire, view, streams
<1>3. SessOK /\ StreamsOK /\ DispatchOK /\ Registered /\ Looping /\ AllHear
  BY DEF IInv
<1>4. SessOK'
  BY <1>1, <1>2, <1>3 DEF SessOK, SessType
<1>5. StreamsOK' /\ DispatchOK' /\ Looping'
  BY <1>1, <1>2, <1>3 DEF StreamsOK, DispatchOK, Looping, Distinct, KindAt
<1>6. WireOK' /\ Window' /\ Taken'
  BY <1>1, <1>2, AsideKeeps
<1>7. Registered'
  <2>1. sess.ended /\ ~Delivered' => \A c \in Callbacks : heard[c].kind # "terminal"
    BY <1>1, <1>3 DEF Registered
  <2> QED
    BY <1>1, <1>2, <1>3, <2>1 DEF Registered, Distinct, In
<1>8. AllHear'
  <2>1. \A c : Told(c)' = Told(c)
    BY <1>2 DEF Told, In
  <2>2. \A c \in Callbacks : Hears(c) => Hears(c)'
    BY <1>1, <1>2, <2>1 DEF Hears
  <2> QED
    BY <1>1, <1>2, <1>3, <2>2 DEF AllHear
<1> QED
  BY <1>4, <1>5, <1>6, <1>7, <1>8 DEF IInv

LEMMA WaitForTerminalKeeps ==
  ASSUME IInv, Opened, NEW w \in Waiters, WaitForTerminal(w)
  PROVE  IInv'
<1> DEFINE how == IF Terminal # <<>> THEN "resolved" ELSE IF Closed THEN "rejected" ELSE "pending"
<1>1. /\ waiters' = [waiters EXCEPT ![w] = [for |-> "terminal", is |-> how]]
      /\ sess' = [sess EXCEPT !.first = Terminal]
      /\ UNCHANGED <<wire, view, lists, heard, nested, dispatch, streams>>
  BY DEF WaitForTerminal
<1>2. SessOK /\ Promised
  BY DEF IInv
<1>3. Reading' = Reading /\ Closed' = Closed /\ (Reading => Delivered' = Delivered)
  BY <1>1, MadeUp
<1>4. how = "pending" => ~Closed /\ Reading /\ ~Delivered
  <2>1. Terminal # <<>> <=> Delivered \/ sess.ended
    BY <1>2, TerminalIs
  <2> QED
    BY <1>2, <2>1 DEF SessOK, Opened, Reading
<1>5. how \in {"resolved", "rejected", "pending"}
  OBVIOUS
<1> HIDE DEF how
<1>6. KindAt(dispatch.event)' = KindAt(dispatch.event) /\ dispatch' = dispatch /\ known' = known
  BY <1>1 DEF KindAt, wire, view
<1>7. Promised'
  <2>1. waiters' \in [Waiters -> [for : {"none", "terminal", "stream"},
                                  is : {"unused", "pending", "resolved", "rejected"}]]
    BY <1>1, <1>2, <1>5 DEF Promised
  <2>2. \A v \in Waiters : v # w => waiters'[v] = waiters[v]
    BY <1>1, <1>2 DEF Promised
  <2>3. waiters'[w].for = "terminal" /\ waiters'[w].is = how
    BY <1>1, <1>2 DEF Promised
  <2> QED
    BY <1>2, <1>3, <1>4, <1>6, <2>1, <2>2, <2>3 DEF Promised
<1> QED
  BY <1>1, <1>7, WaitKeeps

LEMMA WaitForStreamKeeps ==
  ASSUME IInv, Opened, NEW w \in Waiters, WaitForStream(w)
  PROVE  IInv'
<1> DEFINE how == IF Closed THEN "rejected" ELSE IF Len(known) = 1 THEN "resolved"
                  ELSE IF known # <<>> \/ sess.mode = "terminal" THEN "rejected" ELSE "pending"
<1>1. /\ waiters' = [waiters EXCEPT ![w] = [for |-> "stream", is |-> how]]
      /\ sess' = sess
      /\ UNCHANGED <<wire, view, lists, heard, nested, dispatch, streams>>
  BY DEF WaitForStream
<1>2. SessOK /\ Promised
  BY DEF IInv
<1>3. Reading' = Reading /\ Closed' = Closed /\ Delivered' = Delivered
  BY <1>1 DEF Reading, Closed, Delivered
<1>4. how = "pending" => ~Closed /\ Reading /\ known = <<>>
  BY <1>2 DEF SessOK, Opened, Reading
<1>5. how \in {"resolved", "rejected", "pending"}
  OBVIOUS
<1> HIDE DEF how
<1>6. KindAt(dispatch.event)' = KindAt(dispatch.event) /\ dispatch' = dispatch /\ known' = known
  BY <1>1 DEF KindAt, wire, view
<1>7. Promised'
  <2>1. waiters' \in [Waiters -> [for : {"none", "terminal", "stream"},
                                  is : {"unused", "pending", "resolved", "rejected"}]]
    BY <1>1, <1>2, <1>5 DEF Promised
  <2>2. \A v \in Waiters : v # w => waiters'[v] = waiters[v]
    BY <1>1, <1>2 DEF Promised
  <2>3. waiters'[w].for = "stream" /\ waiters'[w].is = how
    BY <1>1, <1>2 DEF Promised
  <2> QED
    BY <1>2, <1>3, <1>4, <1>6, <2>1, <2>2, <2>3 DEF Promised
<1> QED
  BY <1>1, <1>7, WaitKeeps

LEMMA WaitTimesOutKeeps ==
  ASSUME IInv, NEW w \in Waiters, WaitTimesOut(w)
  PROVE  IInv'
<1>1. /\ waiters' = [waiters EXCEPT ![w].is = "rejected"]
      /\ UNCHANGED <<wire, sess, view, lists, heard, nested, dispatch, streams>>
  BY DEF WaitTimesOut
<1>2. Promised
  BY DEF IInv
<1>3. /\ KindAt(dispatch.event)' = KindAt(dispatch.event) /\ dispatch' = dispatch
      /\ known' = known /\ sess' = sess
  BY <1>1 DEF KindAt, wire, view
<1>4. Promised'
  <2>1. waiters' \in [Waiters -> [for : {"none", "terminal", "stream"},
                                  is : {"unused", "pending", "resolved", "rejected"}]]
    BY <1>1, <1>2 DEF Promised
  <2>2. \A v \in Waiters : v # w => waiters'[v] = waiters[v]
    BY <1>1, <1>2 DEF Promised
  <2>3. waiters'[w].is = "rejected"
    BY <1>1, <1>2 DEF Promised
  <2> QED
    BY <1>2, <1>3, <2>1, <2>2, <2>3 DEF Promised, Closed, Reading, Delivered
<1> QED
  BY <1>3, <1>1, <1>4, WaitKeeps

\* Pushing on an array.
LEMMA PushIs ==
  ASSUME NEW q \in Seq(Callbacks), NEW c \in Callbacks
  PROVE  /\ Append(q, c) \in Seq(Callbacks)
         /\ \A d : In(d, Append(q, c)) <=> In(d, q) \/ d = c
         /\ Distinct(q) /\ ~In(c, q) => Distinct(Append(q, c))
<1> DEFINE r == Append(q, c)
<1>1. Len(q) \in Nat /\ DOMAIN q = 1..Len(q)
  OBVIOUS
<1>2. r \in Seq(Callbacks) /\ Len(r) = Len(q) + 1 /\ DOMAIN r = 1..Len(q) + 1
  OBVIOUS
<1>3. (\A i \in 1..Len(q) : r[i] = q[i]) /\ r[Len(q) + 1] = c
  OBVIOUS
<1> HIDE DEF r
<1>4. \A i \in DOMAIN r : i \in DOMAIN q \/ i = Len(q) + 1
  BY <1>1, <1>2
<1>5. DOMAIN q \subseteq DOMAIN r /\ Len(q) + 1 \in DOMAIN r
  BY <1>1, <1>2
<1>6. \A d : In(d, r) <=> In(d, q) \/ d = c
  BY <1>1, <1>3, <1>4, <1>5 DEF In
<1>7. Distinct(q) /\ ~In(c, q) => Distinct(r)
  BY <1>1, <1>3, <1>4 DEF In, Distinct
<1> QED
  BY <1>2, <1>6, <1>7 DEF r

LEMMA RegisterKeeps ==
  ASSUME IInv, Opened, NEW c \in Callbacks, NEW kind \in Kinds, Register(c, kind)
  PROVE  IInv'
<1> DEFINE mine == dispatch # Idle /\ dispatch.same /\ KindAt(dispatch.event) = kind
<1>1. /\ heard[c] = Unheard
      /\ heard' = [heard EXCEPT ![c] = [kind |-> kind, got |-> Sticky(kind)]]
      /\ lists' = [lists EXCEPT ![kind] = Append(@, c)]
      /\ sess' = IF kind = "terminal" THEN [sess EXCEPT !.first = Terminal] ELSE sess
      /\ UNCHANGED <<log, published, cursor, next, seen, artifacts, known, waiters,
                     clients, current, refEnded, tracked>>
      /\ dispatch = Idle => UNCHANGED nested
      /\ dispatch # Idle => nested' = nested \cup {c}
      /\ dispatch' = IF mine THEN [dispatch EXCEPT !.todo = Append(@, c)] ELSE dispatch
  BY DEF Register, wire, view, streams
<1>2. /\ SessOK /\ WireOK /\ StreamsOK /\ DispatchOK /\ Window /\ Taken /\ Promised
      /\ Registered /\ Looping /\ AllHear
  BY DEF IInv
<1>3. /\ SessType'
      /\ sess'.mode = sess.mode /\ sess'.ended = sess.ended
      /\ sess'.first \in {sess.first, Terminal}
      /\ sess'.cancelled = sess.cancelled /\ sess'.closed = sess.closed
      /\ Reading' = Reading /\ Opened' = Opened /\ Closed' = Closed
      /\ Delivered => Delivered' /\ sess'.first = sess.first
      /\ Reading => Delivered' = Delivered
      /\ sess'.first # sess.first =>
           Delivered' /\ ~Delivered /\ \A d \in Callbacks : heard[d].kind # "terminal"
  BY <1>1, MadeUp
<1>4. /\ dispatch'.event = dispatch.event /\ dispatch'.phase = dispatch.phase
      /\ dispatch'.same = dispatch.same
      /\ dispatch'.todo = IF mine THEN Append(dispatch.todo, c) ELSE dispatch.todo
      /\ dispatch' \in [event : Nat, phase : {"idle", "event", "typed", "calling"},
                        todo : Seq(Callbacks), same : BOOLEAN]
      /\ dispatch = Idle => dispatch' = Idle
      /\ dispatch # Idle => dispatch.phase # "idle"
  <2>1. dispatch \in [event : Nat, phase : {"idle", "event", "typed", "calling"},
                      todo : Seq(Callbacks), same : BOOLEAN]
    BY <1>2 DEF DispatchOK
  <2>2. dispatch.todo \in Seq(Callbacks)
    BY <2>1
  <2>3. Append(dispatch.todo, c) \in Seq(Callbacks)
    BY <2>2, PushIs
  <2> DEFINE T == Seq(Callbacks)
             D == [event : Nat, phase : {"idle", "event", "typed", "calling"},
                   todo : T, same : BOOLEAN]
  <2> HIDE DEF T
  <2>4. ASSUME NEW q \in T, NEW d, d = [dispatch EXCEPT !.todo = q]
        PROVE  /\ d.event = dispatch.event /\ d.phase = dispatch.phase
               /\ d.same = dispatch.same /\ d.todo = q /\ d \in D
    BY <2>1, <2>4 DEF T
  <2>5. CASE mine
    <3>1. dispatch' = [dispatch EXCEPT !.todo = Append(dispatch.todo, c)]
      BY <1>1, <2>5
    <3>2. /\ dispatch'.event = dispatch.event /\ dispatch'.phase = dispatch.phase
          /\ dispatch'.same = dispatch.same /\ dispatch'.todo = Append(dispatch.todo, c)
          /\ dispatch' \in D
      BY <2>3, <2>4, <3>1 DEF T
    <3> QED
      BY <1>2, <2>5, <3>2 DEF T, DispatchOK
  <2>6. CASE ~mine
    <3>1. dispatch' = dispatch
      BY <1>1, <2>6
    <3> QED
      BY <1>2, <2>1, <2>6, <3>1 DEF DispatchOK
  <2> QED
    BY <2>5, <2>6
<1>5. SessOK'
  BY <1>2, <1>3, <1>4 DEF SessOK, SessType
<1>6. WireOK' /\ Window' /\ Taken'
  BY <1>1, <1>3, <1>4, AsideKeeps
<1>7. StreamsOK'
  BY <1>1, <1>2 DEF StreamsOK
<1>8. DispatchOK'
  BY <1>1, <1>2, <1>3, <1>4 DEF DispatchOK, Idle
<1>9. Promised'
  <2>1. KindAt(dispatch.event)' = KindAt(dispatch.event)
    BY <1>1, <1>4 DEF KindAt
  <2> QED
    BY <1>1, <1>2, <1>3, <1>4, <2>1 DEF Promised
<1>10. heard[c].kind = "none" /\ "none" \notin Kinds
  BY <1>1 DEF Unheard, Kinds
<1>11. /\ DOMAIN heard' = Callbacks
       /\ \A d \in Callbacks : d # c => heard'[d] = heard[d]
       /\ heard'[c] = [kind |-> kind, got |-> Sticky(kind)]
       /\ heard'[c].kind = kind /\ heard'[c].got = Sticky(kind)
  BY <1>1, <1>2 DEF Registered
<1>12. \A k \in Kinds : lists[k] \in Seq(Callbacks) /\ ~In(c, lists[k])
  BY <1>2, <1>10 DEF Registered, In
<1>13. ~In(c, dispatch.todo)
  <2>1. CASE dispatch = Idle
    BY <2>1 DEF Idle, In
  <2>2. CASE dispatch # Idle
    <3>1. dispatch.event \in 1..Len(log) /\ log \in Logs
      <4>1. Len(log) \in Nat
        BY <1>2, LogTyped DEF WireOK
      <4> QED
        BY <1>2, <1>4, <2>2, <4>1 DEF DispatchOK, WireOK
    <3>2. KindAt(dispatch.event) \in Kinds
      BY <3>1, LogTyped
    <3> QED
      BY <1>2, <1>10, <3>2 DEF Looping, In
  <2> QED
    BY <2>1, <2>2
<1>14. Registered'
  <2>1. /\ Append(lists[kind], c) \in Seq(Callbacks)
        /\ \A d : In(d, Append(lists[kind], c)) <=> In(d, lists[kind]) \/ d = c
        /\ Distinct(Append(lists[kind], c))
    BY <1>2, <1>12, PushIs DEF Registered
  <2> DEFINE q == Append(lists[kind], c)
  <2>2. lists' = [lists EXCEPT ![kind] = q]
    BY <1>1
  <2> HIDE DEF q
  <2>3. lists' \in [Kinds -> Seq(Callbacks)]
    BY <1>2, <2>1, <2>2 DEF Registered, q
  <2>4. lists'[kind] = q /\ \A k \in Kinds : k # kind => lists'[k] = lists[k]
    BY <1>2, <2>2 DEF Registered
  <2>5. \A k \in Kinds : Distinct(lists[k]) /\ \A d : In(d, lists[k]) => d \in Callbacks /\ heard[d].kind = k
    BY <1>2, <1>12 DEF Registered, In
  <2>6. \A k \in Kinds : Distinct(lists'[k]) /\ \A d : In(d, lists'[k]) => d \in Callbacks /\ heard'[d].kind = k
    <3> TAKE k \in Kinds
    <3>1. CASE k = kind
      <4>1. Distinct(lists'[k]) /\ \A d : In(d, lists'[k]) <=> In(d, lists[k]) \/ d = c
        BY <2>1, <2>4, <3>1 DEF q
      <4>2. \A d : In(d, lists[k]) => d # c
        BY <1>12
      <4> QED
        BY <1>11, <2>5, <3>1, <4>1, <4>2
    <3>2. CASE k # kind
      <4>1. lists'[k] = lists[k]
        BY <2>4, <3>2
      <4>2. \A d : In(d, lists[k]) => d # c
        BY <1>12
      <4> QED
        BY <1>11, <2>5, <4>1, <4>2
    <3> QED
      BY <3>1, <3>2
  <2>7. \A k \in Kinds : Distinct(lists'[k]) /\ \A j \in DOMAIN lists'[k] : heard'[lists'[k][j]].kind = k
    BY <2>6 DEF In
  <2>8. ASSUME NEW d \in Callbacks
        PROVE  /\ heard'[d].kind \in Kinds \cup {"none"}
               /\ heard'[d] = [kind |-> heard'[d].kind, got |-> heard'[d].got]
               /\ ~Closed' /\ heard'[d].kind \in Kinds => In(d, lists'[heard'[d].kind])
               /\ sess'.ended /\ ~Delivered' => heard'[d].kind # "terminal"
    <3>1. CASE d = c
      <4>1. sess'.ended /\ ~Delivered' => kind # "terminal"
        <5>1. Terminal # <<>> <=> Delivered \/ sess.ended
          BY <1>2, TerminalIs
        <5>2. kind = "terminal" => sess'.first = Terminal
          <6>1. Terminal \in Events /\ SessType
            BY <1>2, TerminalIs DEF SessOK, SessType
          <6> QED
            BY <1>1, <6>1, FirstIs
        <5> QED
          BY <1>3, <5>1, <5>2 DEF Delivered
      <4>2. In(c, lists'[kind])
        BY <2>1, <2>4 DEF q
      <4> QED
        BY <1>11, <3>1, <4>1, <4>2
    <3>2. CASE d # c
      <4>1. heard'[d] = heard[d]
        BY <1>11, <3>2
      <4>2. heard[d].kind \in Kinds /\ In(d, lists[heard[d].kind]) => In(d, lists'[heard[d].kind])
        BY <2>1, <2>4 DEF q
      <4> QED
        BY <1>2, <1>3, <4>1, <4>2 DEF Registered
    <3> QED
      BY <3>1, <3>2
  <2> QED
    BY <1>3, <1>11, <2>3, <2>7, <2>8 DEF Registered
<1>15. Looping'
  <2>1. dispatch.todo \in Seq(Callbacks)
    BY <1>2 DEF DispatchOK
  <2>2. \A d : In(d, dispatch.todo) => d \in Callbacks /\ heard[d].kind = KindAt(dispatch.event)
    BY <1>2, <2>1 DEF Looping, In
  <2>3. KindAt(dispatch.event)' = KindAt(dispatch.event)
    BY <1>1, <1>4 DEF KindAt
  <2>4. Distinct(dispatch'.todo) /\ \A d : In(d, dispatch'.todo) => In(d, dispatch.todo) \/ (mine /\ d = c)
    <3>1. CASE mine
      <4>1. Distinct(dispatch.todo)
        BY <1>2 DEF Looping
      <4> QED
        BY <1>4, <1>13, <2>1, <3>1, <4>1, PushIs
    <3>2. CASE ~mine
      BY <1>2, <1>4, <3>2 DEF Looping
    <3> QED
      BY <3>1, <3>2
  <2>5. \A d : In(d, dispatch'.todo) => heard'[d].kind = KindAt(dispatch.event)
    BY <1>11, <1>13, <2>2, <2>4
  <2> QED
    BY <2>3, <2>4, <2>5 DEF Looping, In
<1>16. AllHear'
  <2> SUFFICES ASSUME sess'.closed # "app", NEW d \in Callbacks \ nested' PROVE Hears(d)'
    BY DEF AllHear
  <2>1. CASE d = c
    <3>1. dispatch = Idle /\ dispatch' = Idle
      BY <1>1, <1>4, <2>1
    <3>2. Told(c)' = Sticky(kind)
      BY <1>11, <3>1 DEF Told, In, Idle
    <3>3. kind = "terminal" => sess'.first = Terminal
      <4>1. Terminal \in Events /\ SessType
        BY <1>2, TerminalIs DEF SessOK, SessType
      <4> QED
        BY <1>1, <4>1, FirstIs
    <3>4. Hears(c)'
      BY <1>1, <1>3, <1>11, <3>2, <3>3 DEF Hears, Sticky
    <3> QED
      BY <2>1, <3>4
  <2>2. CASE d # c
    <3>1. d \in Callbacks \ nested /\ heard'[d] = heard[d]
      BY <1>1, <1>11, <2>2
    <3>2. In(d, dispatch.todo)' <=> In(d, dispatch.todo)
      <4>1. dispatch.todo \in Seq(Callbacks)
        BY <1>2 DEF DispatchOK
      <4>2. In(d, dispatch'.todo) <=> In(d, dispatch.todo)
        BY <1>4, <2>2, <4>1, PushIs
      <4> QED
        BY <4>2 DEF In
    <3>3. Told(d)' = Told(d)
      BY <1>4, <3>1, <3>2 DEF Told
    <3>4. Hears(d)
      BY <1>2, <1>3, <3>1 DEF AllHear
    <3> QED
      BY <1>1, <1>3, <3>1, <3>3, <3>4 DEF Hears
  <2> QED
    BY <2>1, <2>2
<1> QED
  BY <1>5, <1>6, <1>7, <1>8, <1>9, <1>14, <1>15, <1>16 DEF IInv

-----------------------------------------------------------------------------
(* The channel hands over a message.                                         *)

\* What is replayed has been seen: the window is not shorter than the replay.
LEMMA ReplayedIsSeen ==
  ASSUME WireOK, Window, Reading, NEW i \in Nat, i > cursor, i < next, i > Replayed
  PROVE  IsSeen(i)
<1>1. Len(seen) \in Nat /\ DOMAIN seen = 1..Len(seen)
  BY DEF WireOK
<1>2. published \in Nat /\ cursor \in Nat /\ next \in Nat /\ next <= published + 1
  <2>1. Len(log) \in Nat
    BY LogTyped DEF WireOK
  <2> QED
    BY <2>1 DEF WireOK
<1>3. CacheSize \in Nat /\ SeenMax \in Nat /\ CacheSize <= SeenMax
  BY BoundsAssumption, WindowAssumption
<1>4. i > published - CacheSize
  BY <1>2, <1>3 DEF Replayed
<1> DEFINE j == i - (next - 1 - Len(seen))
<1>5. Len(seen) = SeenMax \/ Len(seen) = next - 1 - cursor
  BY DEF Window
<1>6. j \in 1..Len(seen)
  <2> DEFINE l == Len(seen)
  <2>1. l \in Nat /\ (l = SeenMax \/ l = next - 1 - cursor)
    BY <1>1, <1>5
  <2> HIDE DEF l
  <2>2. i - (next - 1 - l) \in 1..l
    <3>1. i - (next - 1 - l) <= l
      BY <1>2, <2>1
    <3>2. CASE l = SeenMax
      BY <1>2, <1>3, <1>4, <2>1, <3>1, <3>2
    <3>3. CASE l = next - 1 - cursor
      BY <1>2, <2>1, <3>1, <3>3
    <3> QED
      BY <2>1, <3>2, <3>3
  <2> QED
    BY <2>2 DEF l
<1>7. seen[j] = next - 1 - Len(seen) + j
  BY <1>6 DEF Window
<1>8. seen[j] = i
  BY <1>1, <1>2, <1>6, <1>7
<1> QED
  BY <1>1, <1>6, <1>8 DEF IsSeen

\* What comes next has not been seen, and the window moves on with it.
LEMMA NextIsNew ==
  ASSUME WireOK, Window, Reading, NEW r, r = Remember(next)
  PROVE  /\ ~IsSeen(next)
         /\ r \in Seq(Nat) /\ Len(r) <= SeenMax /\ Len(r) <= next - cursor
         /\ Len(r) = SeenMax \/ Len(r) = next - cursor
         /\ \A j \in 1..Len(r) : r[j] = next - Len(r) + j
<1>1. seen \in Seq(Nat) /\ Len(seen) \in Nat /\ DOMAIN seen = 1..Len(seen)
  BY DEF WireOK
<1>2. cursor \in Nat /\ next \in Nat /\ cursor < next /\ published \in Nat
  <2>1. Len(log) \in Nat
    BY LogTyped DEF WireOK
  <2> QED
    BY <2>1 DEF WireOK, Window
<1>3. SeenMax \in Nat \ {0}
  BY BoundsAssumption
<1>4. /\ Len(seen) <= SeenMax /\ Len(seen) <= next - 1 - cursor
      /\ Len(seen) = SeenMax \/ Len(seen) = next - 1 - cursor
      /\ \A j \in 1..Len(seen) : seen[j] = next - 1 - Len(seen) + j
  BY DEF Window
<1>5. ~IsSeen(next)
  BY <1>1, <1>2, <1>4 DEF IsSeen
<1>6. CASE Len(seen) = SeenMax
  <2> DEFINE t == Tail(seen)
  <2>1. seen # <<>>
    BY <1>1, <1>3, <1>6
  <2>2. t \in Seq(Nat) /\ Len(t) = Len(seen) - 1 /\ \A j \in 1..Len(t) : t[j] = seen[j + 1]
    BY <1>1, <2>1, HeadTailProperties
  <2>3. r = Append(t, next)
    BY <1>6 DEF Remember
  <2> HIDE DEF t
  <2>4. /\ r \in Seq(Nat) /\ Len(r) = Len(seen)
        /\ \A j \in 1..Len(t) : r[j] = t[j]
        /\ r[Len(seen)] = next
    <3>1. /\ r \in Seq(Nat) /\ Len(r) = Len(t) + 1
          /\ \A j \in 1..Len(t) : r[j] = t[j]
          /\ r[Len(t) + 1] = next
      BY <1>2, <2>2, <2>3, AppendProperties
    <3>2. Len(t) + 1 = Len(seen)
      BY <1>1, <2>2
    <3> QED
      BY <3>1, <3>2
  <2>5. ASSUME NEW j \in 1..Len(r) PROVE r[j] = next - Len(r) + j
    <3>1. CASE j = Len(seen)
      BY <1>1, <1>2, <2>4, <3>1
    <3>2. CASE j # Len(seen)
      <4>1. j \in 1..Len(t) /\ j + 1 \in 1..Len(seen)
        <5>1. j \in Nat /\ 1 <= j /\ j <= Len(seen) /\ Len(t) = Len(seen) - 1
          BY <1>1, <2>2, <2>4
        <5> DEFINE l == Len(seen)
                   m == Len(t)
        <5>2. l \in Nat /\ j \in Nat /\ 1 <= j /\ j <= l /\ j # l /\ m = l - 1
          BY <1>1, <5>1, <3>2
        <5> HIDE DEF l, m
        <5>3. j \in 1..m /\ j + 1 \in 1..l
          BY <5>2
        <5> QED
          BY <5>3 DEF l, m
      <4>2. r[j] = seen[j + 1] /\ seen[j + 1] = next - 1 - Len(seen) + (j + 1)
        BY <1>4, <2>2, <2>4, <4>1
      <4> QED
        BY <1>1, <1>2, <2>4, <4>1, <4>2
    <3> QED
      BY <3>1, <3>2
  <2> QED
    BY <1>1, <1>2, <1>3, <1>4, <1>5, <1>6, <2>4, <2>5
<1>7. CASE Len(seen) # SeenMax
  <2>1. r = Append(seen, next) /\ Len(seen) = next - 1 - cursor
    BY <1>4, <1>7 DEF Remember
  <2>2. /\ r \in Seq(Nat) /\ Len(r) = Len(seen) + 1
        /\ \A j \in 1..Len(seen) : r[j] = seen[j]
        /\ r[Len(seen) + 1] = next
    BY <1>1, <1>2, <2>1, AppendProperties
  <2>3. ASSUME NEW j \in 1..Len(r) PROVE r[j] = next - Len(r) + j
    <3>1. CASE j = Len(seen) + 1
      BY <1>1, <1>2, <2>2, <3>1
    <3>2. CASE j # Len(seen) + 1
      <4>1. j \in 1..Len(seen)
        BY <1>1, <2>2, <3>2
      <4>2. r[j] = next - 1 - Len(seen) + j
        BY <1>4, <2>2, <4>1
      <4> QED
        BY <1>1, <1>2, <2>2, <4>1, <4>2
    <3> QED
      BY <3>1, <3>2
  <2> QED
    BY <1>1, <1>2, <1>3, <1>4, <1>5, <1>7, <2>1, <2>2, <2>3
<1> QED
  BY <1>6, <1>7

LEMMA ReceiveKeeps ==
  ASSUME IInv, dispatch = Idle, NEW i \in 1..Len(log), Receive(i)
  PROVE  IInv'
<1>1. /\ Reading /\ ~Closed /\ i \in cursor + 1 .. published
      /\ i = next \/ i \in Replayed + 1 .. next - 1
      /\ next' = IF i = next THEN i + 1 ELSE next
      /\ IF IsSeen(i) THEN UNCHANGED <<seen, dispatch>>
         ELSE seen' = Remember(i) /\ dispatch' = [Idle EXCEPT !.event = i, !.phase = "event"]
      /\ UNCHANGED <<log, published, cursor, sess, artifacts, known, lists, heard, nested, waiters,
                     clients, current, refEnded, tracked>>
  BY DEF Receive, Subscribed, Reading, streams
<1>2. /\ SessOK /\ WireOK /\ StreamsOK /\ DispatchOK /\ Window /\ Taken /\ Promised
      /\ Registered /\ Looping /\ AllHear
  BY DEF IInv
<1>3. /\ Len(log) \in Nat /\ published \in 0..Len(log) /\ cursor \in Nat /\ next \in Nat
      /\ i \in Nat /\ published \in Nat
  <2>1. Len(log) \in Nat
    BY <1>2, LogTyped DEF WireOK
  <2> QED
    BY <1>2, <2>1 DEF WireOK
<1>4. CASE i # next
  <2>1. Replayed \in Nat
    BY <1>3, BoundsAssumption DEF Replayed
  <2>2. IsSeen(i)
    BY <1>1, <1>2, <1>3, <1>4, <2>1, ReplayedIsSeen
  <2>3. Closing
    BY <1>1, <1>4, <2>2 DEF Closing, wire, view
  <2>4. SessType' /\ StreamsOK'
    BY <1>1, <1>2 DEF SessOK, SessType, StreamsOK
  <2> QED
    BY <2>3, <2>4, ClosingKeeps
<1>5. CASE i = next
  <2>1. ~IsSeen(next)
    BY <1>1, <1>2, NextIsNew
  <2>2. /\ seen' = Remember(next) /\ next' = next + 1
        /\ dispatch' = [Idle EXCEPT !.event = i, !.phase = "event"]
    BY <1>1, <1>5, <2>1
  <2>3. /\ seen' \in Seq(Nat) /\ Len(seen') <= SeenMax /\ Len(seen') <= next - cursor
        /\ Len(seen') = SeenMax \/ Len(seen') = next - cursor
        /\ \A j \in 1..Len(seen') : seen'[j] = next - Len(seen') + j
    BY <1>1, <1>2, <2>2, NextIsNew
  <2>4. /\ dispatch'.event = next /\ dispatch'.phase = "event" /\ dispatch'.todo = <<>>
        /\ dispatch'.same = FALSE
        /\ dispatch' \in [event : Nat, phase : {"idle", "event", "typed", "calling"},
                          todo : Seq(Callbacks), same : BOOLEAN]
    <3> DEFINE T == Seq(Callbacks)
               P == {"idle", "event", "typed", "calling"}
               D == [event : Nat, phase : P, todo : T, same : BOOLEAN]
    <3>1. <<>> \in T /\ "event" \in P /\ "idle" \in P
      OBVIOUS
    <3> HIDE DEF T, P
    <3>2. Idle \in D /\ Idle.todo = <<>> /\ Idle.same = FALSE
      BY <3>1 DEF Idle
    <3>3. ASSUME NEW q, q = [Idle EXCEPT !.event = i, !.phase = "event"]
          PROVE  /\ q \in D /\ q.event = i /\ q.phase = "event"
                 /\ q.todo = Idle.todo /\ q.same = Idle.same
      BY <1>3, <3>1, <3>2, <3>3
    <3> QED
      BY <1>5, <2>2, <3>2, <3>3 DEF T, P
  <2>5. Reading' /\ ~Closed'
    BY <1>1 DEF Reading, Closed
  <2>6. SessOK'
    BY <1>1, <1>2, <2>5 DEF SessOK, Closed, Delivered
  <2>7. WireOK'
    BY <1>1, <1>2, <1>3, <1>5, <2>2, <2>3 DEF WireOK
  <2>8. StreamsOK'
    BY <1>1, <1>2 DEF StreamsOK
  <2>9. DispatchOK'
    BY <1>1, <1>3, <1>5, <2>2, <2>4, <2>5 DEF DispatchOK
  <2>10. Window'
    <3>1. next' - 1 = next /\ cursor' = cursor /\ next' > cursor
      BY <1>1, <1>2, <1>3, <2>2 DEF Window
    <3> QED
      BY <2>3, <2>5, <3>1 DEF Window
  <2>11. Taken'
    <3>1. Done' = Done
      BY <1>3, <2>2, <2>4 DEF Done, Idle
    <3> QED
      BY <1>1, <1>2, <3>1, TakenFrame
  <2>12. Promised'
    BY <1>1, <1>2, <2>5 DEF Promised, Delivered, Idle
  <2>13. Registered'
    BY <1>1, <1>2 DEF Registered, Distinct, In, Closed, Opened, Delivered
  <2>14. Looping'
    BY <2>4 DEF Looping, Distinct
  <2>15. AllHear'
    <3>1. dispatch.todo = <<>>
      BY DEF Idle
    <3>2. \A c : Told(c)' = heard[c].got /\ Told(c) = heard[c].got
      BY <1>1, <2>4, <3>1 DEF Told, In
    <3>3. \A c : Hears(c)' = Hears(c)
      BY <1>1, <3>2 DEF Hears
    <3> QED
      BY <1>1, <1>2, <3>3 DEF AllHear
  <2> QED
    BY <2>6, <2>7, <2>8, <2>9, <2>10, <2>11, <2>12, <2>13, <2>14, <2>15 DEF IInv
<1> QED
  BY <1>4, <1>5

-----------------------------------------------------------------------------
(* The dispatch of a message.                                                *)

\* The message being dispatched is the last one taken.
LEMMA EventIs ==
  ASSUME IInv, dispatch.phase # "idle"
  PROVE  /\ Reading /\ dispatch # Idle /\ sess.closed \notin {"yes", "drained"}
         /\ dispatch.event \in Nat /\ dispatch.event \in 1..Len(log)
         /\ dispatch.event = next - 1 /\ dispatch.event > cursor /\ cursor \in Nat /\ next \in Nat
         /\ KindAt(dispatch.event) \in Kinds
<1>1. SessOK /\ WireOK /\ DispatchOK
  BY DEF IInv
<1>2. dispatch # Idle
  BY DEF Idle
<1>3. Len(log) \in Nat /\ log \in Logs /\ \A i \in 1..Len(log) : KindAt(i) \in Kinds
  BY <1>1, LogTyped DEF WireOK
<1>4. /\ Reading /\ dispatch.event \in Nat /\ dispatch.event = next - 1
      /\ dispatch.event > cursor /\ cursor \in Nat /\ next \in Nat /\ next <= Len(log) + 1
  BY <1>1, <1>3 DEF DispatchOK, WireOK
<1> QED
  BY <1>1, <1>2, <1>3, <1>4 DEF SessOK

\* What is held grows by it, if it is of the kind.
LEMMA HeldNext ==
  ASSUME NEW k, NEW i \in Nat, cursor \in Nat, i > cursor
  PROVE  /\ Held(k, i) = IF KindAt(i) = k THEN Held(k, i - 1) \cup {i} ELSE Held(k, i - 1)
         /\ Held(k, i - 1) \in SUBSET (1..i - 1)
<1>1. i > Start /\ i \in 1..i
  BY DEF Start
<1>2. \A j : j \in 1..i <=> j \in 1..i - 1 \/ j = i
  OBVIOUS
<1> QED
  BY <1>1, <1>2 DEF Held, Indices

\* The loop over the callbacks of a kind starts with all of them.
LEMMA LoopIs ==
  ASSUME IInv, dispatch.phase = "event", NEW k \in Kinds, Loop(k)
  PROVE  /\ dispatch'.event = dispatch.event /\ dispatch'.phase = "typed"
         /\ dispatch'.todo = lists[k]
         /\ dispatch' \in [event : Nat, phase : {"idle", "event", "typed", "calling"},
                           todo : Seq(Callbacks), same : BOOLEAN]
<1> DEFINE T == Seq(Callbacks)
           P == {"idle", "event", "typed", "calling"}
           D == [event : Nat, phase : P, todo : T, same : BOOLEAN]
<1>1. dispatch \in D /\ lists[k] \in T /\ "typed" \in P
  BY DEF IInv, DispatchOK, Registered
<1> HIDE DEF T, P
<1>2. ASSUME NEW q, q = [dispatch EXCEPT !.phase = "typed", !.todo = lists[k], !.same = TRUE]
      PROVE  /\ q \in D /\ q.event = dispatch.event /\ q.phase = "typed"
             /\ q.todo = lists[k]
  BY <1>1, <1>2
<1> QED
  BY <1>2 DEF Loop, T, P

\* Who is in the loop: the callbacks of its kind, unless the application has closed
\* the session.
LEMMA LoopTells ==
  ASSUME IInv, dispatch.phase = "event", NEW k \in Kinds, Loop(k), UNCHANGED heard,
         sess.closed # "app", NEW c \in Callbacks
  PROVE  /\ Told(c) = heard[c].got
         /\ Told(c)' = IF heard[c].kind = k THEN Append(heard[c].got, dispatch.event)
                       ELSE heard[c].got
<1>1. DispatchOK /\ Registered /\ SessOK
  BY DEF IInv
<1>2. dispatch.todo = <<>>
  BY <1>1 DEF DispatchOK
<1>3. Told(c) = heard[c].got
  BY <1>2 DEF Told, In
<1>4. ~Closed
  BY <1>1, EventIs DEF Closed, SessOK
<1>5. In(c, lists[k]) <=> heard[c].kind = k
  BY <1>1, <1>4 DEF Registered, In
<1>6. dispatch'.todo = lists[k] /\ dispatch'.event = dispatch.event
  BY LoopIs
<1>7. Told(c)' = IF In(c, lists[k]) THEN Append(heard[c].got, dispatch.event) ELSE heard[c].got
  BY <1>6 DEF Told, In
<1> QED
  BY <1>3, <1>5, <1>7

\* What follows the catch-all callbacks, but for the session's bookkeeping.
LEMMA TypedKeeps ==
  ASSUME IInv, dispatch.phase = "event", Drop \/ Loop(KindAt(dispatch.event)),
         UNCHANGED <<log, published, cursor, next, seen, lists, heard, nested, waiters,
                     clients, current, refEnded, tracked>>,
         SessType', sess'.mode = sess.mode, sess'.closed = sess.closed,
         artifacts' \in Seq(Nat), known' \in Seq(Nat),
         sess'.ended = sess.ended \/ Delivered',
         sess.ended => sess'.ended, Delivered => Delivered',
         Delivered' /\ ~Delivered => Loop(KindAt(dispatch.event)) /\ KindAt(dispatch.event) = "terminal",
         known' # <<>> /\ known = <<>> =>
           Loop(KindAt(dispatch.event)) /\ KindAt(dispatch.event) = "stream",
         Taken', AllHear'
  PROVE  IInv'
<1> DEFINE i == dispatch.event
           k == KindAt(i)
<1>1. /\ SessOK /\ WireOK /\ StreamsOK /\ DispatchOK /\ Window /\ Promised /\ Registered
  BY DEF IInv
<1>2. /\ Reading /\ dispatch # Idle /\ sess.closed \notin {"yes", "drained"}
      /\ i = next - 1 /\ i > cursor /\ k \in Kinds
  BY EventIs
<1>3. Reading' /\ (Closed' = Closed) /\ Opened' = Opened
  BY <1>2 DEF Reading, Closed, Opened
<1>4. /\ Loop(k) => /\ dispatch'.event = i /\ dispatch'.phase = "typed"
                    /\ dispatch'.todo = lists[k]
                    /\ dispatch' \in [event : Nat, phase : {"idle", "event", "typed", "calling"},
                                      todo : Seq(Callbacks), same : BOOLEAN]
      /\ ~Loop(k) => dispatch' = Idle
  BY <1>2, LoopIs DEF Drop
<1> HIDE DEF i, k
<1>5. SessOK'
  BY <1>1, <1>2, <1>3 DEF SessOK, SessType, Closed
<1>6. WireOK'
  BY <1>1 DEF WireOK
<1>7. StreamsOK'
  BY <1>1 DEF StreamsOK
<1>8. Idle.phase = "idle" /\ Idle.todo = <<>>
      /\ Idle \in [event : Nat, phase : {"idle", "event", "typed", "calling"},
                   todo : Seq(Callbacks), same : BOOLEAN]
  BY DEF Idle
<1>9. DispatchOK'
  <2>1. CASE Loop(k)
    BY <1>2, <1>3, <1>4, <2>1 DEF DispatchOK
  <2>2. CASE ~Loop(k)
    BY <1>4, <1>8, <2>2 DEF DispatchOK
  <2> QED
    BY <2>1, <2>2
<1>10. Window'
  BY <1>1, <1>2, <1>3, WindowFrame
<1>11. Promised'
  <2>1. Loop(k) => KindAt(dispatch.event)' = k
    BY <1>4 DEF KindAt, i, k
  <2>2. ASSUME NEW w \in Waiters, waiters'[w].is = "pending"
        PROVE  /\ ~Closed' /\ Reading' /\ waiters'[w].for \in {"terminal", "stream"}
               /\ waiters'[w].for = "terminal" /\ Delivered' =>
                    dispatch'.phase \in {"typed", "calling"} /\ KindAt(dispatch.event)' = "terminal"
               /\ waiters'[w].for = "stream" /\ known' # <<>> =>
                    dispatch'.phase \in {"typed", "calling"} /\ KindAt(dispatch.event)' = "stream"
    <3>1. /\ ~Closed /\ waiters[w].for \in {"terminal", "stream"}
          /\ waiters[w].for = "terminal" => ~Delivered
          /\ waiters[w].for = "stream" => known = <<>>
      BY <1>1, <2>2 DEF Promised
    <3> QED
      BY <1>3, <1>4, <2>1, <3>1 DEF i, k
  <2>3. waiters' = waiters
    OBVIOUS
  <2> QED
    BY <1>1, <2>2, <2>3 DEF Promised
<1>12. Registered'
  <2>1. sess'.ended /\ ~Delivered' => sess.ended /\ ~Delivered
    OBVIOUS
  <2> QED
    BY <1>1, <1>3, <2>1 DEF Registered, Distinct, In
<1>13. Looping'
  <2>1. CASE Loop(k)
    <3>1. KindAt(dispatch.event)' = k
      BY <1>4, <2>1 DEF KindAt, i, k
    <3> QED
      BY <1>1, <1>2, <1>4, <2>1, <3>1 DEF Looping, Registered, Distinct
  <2>2. CASE ~Loop(k)
    BY <1>4, <1>8, <2>2 DEF Looping, Distinct
  <2> QED
    BY <2>1, <2>2
<1> QED
  BY <1>5, <1>6, <1>7, <1>9, <1>10, <1>11, <1>12, <1>13 DEF IInv

\* A message that is dropped tells nobody anything.
LEMMA DropTells ==
  ASSUME IInv, dispatch.phase = "event", Drop, UNCHANGED <<heard, nested, artifacts, known, sess>>
  PROVE  AllHear'
<1>1. DispatchOK /\ AllHear
  BY DEF IInv
<1>2. dispatch.todo = <<>> /\ dispatch'.todo = <<>>
  BY <1>1 DEF DispatchOK, Drop, Idle
<1>3. \A c : Told(c)' = heard[c].got /\ Told(c) = heard[c].got
  BY <1>2 DEF Told, In
<1>4. \A c : Hears(c)' = Hears(c)
  BY <1>3 DEF Hears
<1> QED
  BY <1>1, <1>4 DEF AllHear

\* Done moves on over the message.
LEMMA DoneIs ==
  ASSUME IInv, dispatch.phase = "event", UNCHANGED next, dispatch'.phase \in {"idle", "typed"}
  PROVE  /\ Done = dispatch.event - 1 /\ Done' = dispatch.event
         /\ artifacts = Sorted(Held("artifact", dispatch.event - 1))
         /\ KnownNames = Names(Held("stream", dispatch.event - 1))
<1>1. /\ dispatch.event = next - 1 /\ next \in Nat /\ Reading
  BY EventIs
<1>2. Done = dispatch.event - 1 /\ Done' = dispatch.event
  BY <1>1 DEF Done
<1> QED
  BY <1>1, <1>2 DEF IInv, Taken

\* What was held is still held, after a step that leaves log, cursor and mode alone.
LEMMA HeldFrame ==
  ASSUME UNCHANGED <<log, cursor>>, sess'.mode = sess.mode, NEW i, Done' = i
  PROVE  /\ Held("artifact", Done)' = Held("artifact", i)
         /\ Held("stream", Done)' = Held("stream", i)
         /\ Names(Held("stream", Done))' = Names(Held("stream", i))
<1>1. \A k : Held(k, Done)' = Held(k, i)
  BY DEF Held, Indices, KindAt, Start
<1> QED
  BY <1>1 DEF Names

LEMMA TypedArtifactKeeps ==
  ASSUME IInv, dispatch.phase = "event", TypedArtifact(dispatch.event),
         UNCHANGED <<wire, seen, lists, heard, nested, waiters, streams>>
  PROVE  IInv'
<1> DEFINE i == dispatch.event
<1>1. /\ KindAt(i) = "artifact" /\ artifacts' = Append(artifacts, i)
      /\ Loop("artifact") /\ UNCHANGED <<known, sess>>
      /\ UNCHANGED <<log, published, cursor, next, seen, lists, heard, nested, waiters,
                     clients, current, refEnded, tracked>>
  BY DEF TypedArtifact, wire, streams
<1>2. WireOK /\ SessType /\ AllHear
  BY DEF IInv, SessOK, SessType
<1>3. Reading /\ i \in Nat /\ i > cursor /\ cursor \in Nat /\ "artifact" \in Kinds
  BY EventIs DEF Kinds
<1>4. artifacts' \in Seq(Nat) /\ known' \in Seq(Nat)
  BY <1>1, <1>2, <1>3 DEF WireOK
<1>5. Taken'
  <2>1. dispatch'.phase = "typed"
    BY <1>1, <1>3, LoopIs
  <2>2. /\ Done' = i /\ artifacts = Sorted(Held("artifact", i - 1))
        /\ KnownNames = Names(Held("stream", i - 1))
    BY <1>1, <2>1, DoneIs
  <2>3. Held("artifact", i) = Held("artifact", i - 1) \cup {i}
        /\ Held("artifact", i - 1) \in SUBSET (1..i - 1)
    BY <1>1, <1>3, HeldNext
  <2>4. Held("stream", i) = Held("stream", i - 1)
    BY <1>1, <1>3, HeldNext
  <2> HIDE DEF i
  <2>5. i - 1 \in Nat /\ i > i - 1
    BY <1>3
  <2>6. artifacts' = Sorted(Held("artifact", i))
    <3> DEFINE S == Held("artifact", i - 1)
               n == i - 1
    <3>1. n \in Nat /\ S \in SUBSET (1..n) /\ i \in Nat /\ i > n
      BY <1>3, <2>3, <2>5 DEF i
    <3> HIDE DEF S, n
    <3>2. Append(Sorted(S), i) = Sorted(S \cup {i})
      BY <3>1, SortedAppend
    <3> QED
      BY <1>1, <2>2, <2>3, <3>2 DEF S, i
  <2>7. KnownNames' = KnownNames
    BY <1>1 DEF KnownNames
  <2>8. Held("artifact", Done)' = Held("artifact", i) /\ Names(Held("stream", Done))' = Names(Held("stream", i))
    BY <1>1, <2>2, HeldFrame
  <2> QED
    BY <1>1, <1>3, <2>2, <2>4, <2>6, <2>7, <2>8 DEF Taken, Reading
<1>6. AllHear'
  <2> SUFFICES ASSUME sess'.closed # "app", NEW c \in Callbacks \ nested' PROVE Hears(c)'
    BY DEF AllHear
  <2>1. /\ Told(c) = heard[c].got
        /\ Told(c)' = IF heard[c].kind = "artifact" THEN Append(heard[c].got, i) ELSE heard[c].got
    BY <1>1, <1>3, LoopTells
  <2>2. Hears(c)
    BY <1>1, <1>2 DEF AllHear
  <2> QED
    BY <1>1, <2>1, <2>2 DEF Hears
<1>7. SessType' /\ Delivered' = Delivered
  BY <1>1, <1>2 DEF SessType, Delivered
<1> QED
  BY <1>1, <1>4, <1>5, <1>6, <1>7, TypedKeeps

LEMMA TypedStreamKeeps ==
  ASSUME IInv, dispatch.phase = "event", TypedStream(dispatch.event),
         UNCHANGED <<wire, seen, lists, heard, nested, waiters, streams>>
  PROVE  IInv'
<1> DEFINE i == dispatch.event
<1>1. /\ KindAt(i) = "stream"
      /\ IF IsKnown(log[i].of) THEN Drop /\ UNCHANGED known
         ELSE known' = Append(known, i) /\ Loop("stream")
      /\ UNCHANGED <<artifacts, sess>>
      /\ UNCHANGED <<log, published, cursor, next, seen, lists, heard, nested, waiters,
                     clients, current, refEnded, tracked>>
  BY DEF TypedStream, wire, streams
<1>2. WireOK /\ SessType /\ AllHear
  BY DEF IInv, SessOK, SessType
<1>3. Reading /\ i \in Nat /\ i > cursor /\ cursor \in Nat /\ "stream" \in Kinds
  BY EventIs DEF Kinds
<1>4. SessType' /\ Delivered' = Delivered
  BY <1>1, <1>2 DEF SessType, Delivered
<1>5. Held("stream", i) = Held("stream", i - 1) \cup {i} /\ Held("artifact", i) = Held("artifact", i - 1)
  BY <1>1, <1>3, HeldNext
<1>6. dispatch'.phase \in {"idle", "typed"}
  BY <1>1, <1>3, LoopIs DEF Drop, Idle
<1>7. /\ Done' = i /\ artifacts = Sorted(Held("artifact", i - 1))
      /\ KnownNames = Names(Held("stream", i - 1))
  BY <1>1, <1>6, DoneIs
<1> HIDE DEF i
<1>8. Names(Held("stream", i)) = Names(Held("stream", i - 1)) \cup {log[i].of}
  BY <1>5 DEF Names
<1>9. Held("artifact", Done)' = Held("artifact", i) /\ Names(Held("stream", Done))' = Names(Held("stream", i))
  BY <1>1, <1>7, HeldFrame
<1>10. IsKnown(log[i].of) <=> log[i].of \in KnownNames
  BY DEF IsKnown, KnownNames
<1>11. CASE IsKnown(log[i].of)
  <2>1. Drop /\ UNCHANGED known
    BY <1>1, <1>11
  <2>2. KnownNames' = Names(Held("stream", i))
    <3>1. KnownNames' = KnownNames
      BY <1>1, <2>1 DEF KnownNames
    <3> QED
      BY <1>7, <1>8, <1>10, <1>11, <3>1
  <2>3. Taken'
    BY <1>1, <1>3, <1>5, <1>7, <1>9, <2>2 DEF Taken, Reading
  <2>4. AllHear'
    BY <1>1, <2>1, DropTells
  <2> QED
    BY <1>1, <1>2, <1>4, <2>1, <2>3, <2>4, TypedKeeps DEF WireOK
<1>12. CASE ~IsKnown(log[i].of)
  <2>1. known' = Append(known, i) /\ Loop("stream")
    BY <1>1, <1>12
  <2>2. known \in Seq(Nat) /\ known' \in Seq(Nat) /\ artifacts' \in Seq(Nat)
    BY <1>1, <1>2, <1>3, <2>1 DEF WireOK
  <2>3. KnownNames' = Names(Held("stream", i))
    <3>1. /\ DOMAIN known = 1..Len(known) /\ Len(known) \in Nat
          /\ DOMAIN known' = 1..Len(known) + 1
          /\ \A j \in 1..Len(known) : known'[j] = known[j]
          /\ known'[Len(known) + 1] = i
      BY <1>3, <2>1, <2>2
    <3>2. \A j \in DOMAIN known' : j \in DOMAIN known \/ j = Len(known) + 1
      BY <3>1
    <3>3. DOMAIN known \subseteq DOMAIN known' /\ Len(known) + 1 \in DOMAIN known'
      BY <3>1
    <3>4. KnownNames' = {log[known'[j]].of : j \in DOMAIN known'}
      BY <1>1 DEF KnownNames
    <3>5. {log[known'[j]].of : j \in DOMAIN known'} = KnownNames \cup {log[i].of}
      BY <3>1, <3>2, <3>3 DEF KnownNames
    <3> QED
      BY <1>7, <1>8, <3>4, <3>5
  <2>4. Taken'
    BY <1>1, <1>3, <1>5, <1>7, <1>9, <2>3 DEF Taken, Reading
  <2>5. AllHear'
    <3> SUFFICES ASSUME sess'.closed # "app", NEW c \in Callbacks \ nested' PROVE Hears(c)'
      BY DEF AllHear
    <3>1. /\ Told(c) = heard[c].got
          /\ Told(c)' = IF heard[c].kind = "stream" THEN Append(heard[c].got, i) ELSE heard[c].got
      BY <1>1, <1>3, <2>1, LoopTells DEF i
    <3>2. Hears(c)
      BY <1>1, <1>2 DEF AllHear
    <3> QED
      BY <1>1, <2>1, <3>1, <3>2 DEF Hears
  <2> QED
    BY <1>1, <1>4, <2>1, <2>2, <2>4, <2>5, TypedKeeps DEF i
<1> QED
  BY <1>11, <1>12

\* A message that is neither an artifact nor a stream adds to nothing.
LEMMA OtherTaken ==
  ASSUME IInv, dispatch.phase = "event", KindAt(dispatch.event) \in {"cancel", "terminal"},
         UNCHANGED <<log, cursor, next, artifacts, known>>, sess'.mode = sess.mode,
         dispatch'.phase \in {"idle", "typed"}
  PROVE  Taken'
<1> DEFINE i == dispatch.event
<1>1. Reading /\ i \in Nat /\ i > cursor /\ cursor \in Nat
  BY EventIs
<1>2. Held("stream", i) = Held("stream", i - 1) /\ Held("artifact", i) = Held("artifact", i - 1)
  BY <1>1, HeldNext
<1>3. /\ Done' = i /\ artifacts = Sorted(Held("artifact", i - 1))
      /\ KnownNames = Names(Held("stream", i - 1))
  BY DoneIs
<1> HIDE DEF i
<1>4. Held("artifact", Done)' = Held("artifact", i) /\ Names(Held("stream", Done))' = Names(Held("stream", i))
  BY <1>3, HeldFrame
<1>5. KnownNames' = KnownNames
  BY DEF KnownNames
<1> QED
  BY <1>1, <1>2, <1>3, <1>4, <1>5 DEF Taken, Reading

\* What the session notes of a cancel request and of the terminal event.
LEMMA NotedIs ==
  ASSUME SessType, NEW i \in Nat
  PROVE  /\ sess' = [sess EXCEPT !.cancelled = <<i>>] =>
              /\ SessType' /\ sess'.mode = sess.mode /\ sess'.closed = sess.closed
              /\ sess'.ended = sess.ended /\ sess'.first = sess.first /\ sess'.cancelled = <<i>>
         /\ sess' = [sess EXCEPT !.first = <<i>>, !.ended = TRUE] =>
              /\ SessType' /\ sess'.mode = sess.mode /\ sess'.closed = sess.closed
              /\ sess'.ended = TRUE /\ sess'.first = <<i>> /\ sess'.cancelled = sess.cancelled
<1> DEFINE M == {"created", "timed", "live", "basic", "terminal", "preclosed", "failed"}
           V == {"send", "connect"}
           C == {"no", "yes", "app", "drained"}
           A == SUBSET AllClients
           T == [via : V, autoDrain : BOOLEAN, mode : M, ended : BOOLEAN, first : Events,
                 cancelled : Events, draining : BOOLEAN, closed : C, closing : BOOLEAN, awaited : A]
<1>1. sess \in T
  BY DEF SessType
<1>2. <<i>> \in Events
  BY DEF Events
<1> HIDE DEF M, V, C, A
<1>3. ASSUME NEW e \in Events, NEW g, g = [sess EXCEPT !.cancelled = e]
      PROVE  /\ g \in T /\ g.mode = sess.mode /\ g.closed = sess.closed
             /\ g.ended = sess.ended /\ g.first = sess.first /\ g.cancelled = e
  BY <1>1, <1>3
<1>4. ASSUME NEW e \in Events, NEW g, g = [sess EXCEPT !.first = e, !.ended = TRUE]
      PROVE  /\ g \in T /\ g.mode = sess.mode /\ g.closed = sess.closed
             /\ g.ended = TRUE /\ g.first = e /\ g.cancelled = sess.cancelled
  BY <1>1, <1>4
<1> HIDE DEF T
<1>5. sess' \in T => SessType'
  BY DEF SessType, T, M, V, C, A
<1>6. ASSUME sess' = [sess EXCEPT !.cancelled = <<i>>]
      PROVE  /\ SessType' /\ sess'.mode = sess.mode /\ sess'.closed = sess.closed
             /\ sess'.ended = sess.ended /\ sess'.first = sess.first /\ sess'.cancelled = <<i>>
  BY <1>2, <1>3, <1>5, <1>6
<1>7. ASSUME sess' = [sess EXCEPT !.first = <<i>>, !.ended = TRUE]
      PROVE  /\ SessType' /\ sess'.mode = sess.mode /\ sess'.closed = sess.closed
             /\ sess'.ended = TRUE /\ sess'.first = <<i>> /\ sess'.cancelled = sess.cancelled
  BY <1>2, <1>4, <1>5, <1>7
<1> QED
  BY <1>6, <1>7

LEMMA TypedCancelKeeps ==
  ASSUME IInv, dispatch.phase = "event", TypedCancel(dispatch.event),
         UNCHANGED <<wire, seen, lists, heard, nested, waiters, streams>>
  PROVE  IInv'
<1> DEFINE i == dispatch.event
<1>1. /\ KindAt(i) = "cancel"
      /\ IF Delivered \/ sess.cancelled # <<>> THEN Drop /\ UNCHANGED sess
         ELSE sess' = [sess EXCEPT !.cancelled = <<i>>] /\ Loop("cancel")
      /\ UNCHANGED <<artifacts, known>>
      /\ UNCHANGED <<log, published, cursor, next, seen, lists, heard, nested, waiters,
                     clients, current, refEnded, tracked>>
  BY DEF TypedCancel, wire, streams
<1>2. WireOK /\ SessType /\ AllHear
  BY DEF IInv, SessOK, SessType
<1>3. Reading /\ i \in Nat /\ "cancel" \in Kinds
  BY EventIs DEF Kinds
<1>4. dispatch'.phase \in {"idle", "typed"}
  BY <1>1, <1>3, LoopIs DEF Drop, Idle
<1>5. artifacts' \in Seq(Nat) /\ known' \in Seq(Nat)
  BY <1>1, <1>2 DEF WireOK
<1>6. CASE Delivered \/ sess.cancelled # <<>>
  <2>1. Drop /\ UNCHANGED sess
    BY <1>1, <1>6
  <2>2. SessType' /\ Delivered' = Delivered
    BY <1>2, <2>1 DEF SessType, Delivered
  <2>3. AllHear' /\ Taken'
    BY <1>1, <1>4, <2>1, DropTells, OtherTaken
  <2> QED
    BY <1>1, <1>5, <2>1, <2>2, <2>3, TypedKeeps
<1>7. CASE ~(Delivered \/ sess.cancelled # <<>>)
  <2>1. sess' = [sess EXCEPT !.cancelled = <<i>>] /\ Loop("cancel")
    BY <1>1, <1>7
  <2>2. /\ SessType' /\ sess'.mode = sess.mode /\ sess'.closed = sess.closed
        /\ sess'.ended = sess.ended /\ sess'.first = sess.first /\ sess'.cancelled = <<i>>
    BY <1>2, <1>3, <2>1, NotedIs
  <2>3. Delivered' = Delivered
    BY <2>2 DEF Delivered
  <2>4. Taken'
    BY <1>1, <1>4, <2>2, OtherTaken
  <2>5. AllHear'
    <3> SUFFICES ASSUME sess'.closed # "app", NEW c \in Callbacks \ nested' PROVE Hears(c)'
      BY DEF AllHear
    <3>1. /\ Told(c) = heard[c].got
          /\ Told(c)' = IF heard[c].kind = "cancel" THEN Append(heard[c].got, i) ELSE heard[c].got
      BY <1>1, <1>3, <2>1, <2>2, LoopTells
    <3>2. Hears(c)
      BY <1>1, <1>2, <2>2 DEF AllHear
    <3>3. Append(<<>>, i) = <<i>>
      OBVIOUS
    <3>4. CASE heard[c].kind = "cancel"
      <4>1. heard[c].got = <<>>
        BY <1>7, <3>1, <3>2, <3>4 DEF Hears
      <4>2. Told(c)' = <<i>> /\ heard'[c].kind = "cancel"
        BY <1>1, <3>1, <3>3, <3>4, <4>1
      <4> QED
        BY <2>2, <4>2 DEF Hears
    <3>5. CASE heard[c].kind # "cancel"
      BY <1>1, <2>2, <3>1, <3>2, <3>5 DEF Hears
    <3> QED
      BY <3>4, <3>5
  <2> QED
    BY <1>1, <1>5, <2>1, <2>2, <2>3, <2>4, <2>5, TypedKeeps
<1> QED
  BY <1>6, <1>7

LEMMA TypedTerminalKeeps ==
  ASSUME IInv, dispatch.phase = "event", TypedTerminal(dispatch.event),
         UNCHANGED <<wire, seen, lists, heard, nested, waiters, streams>>
  PROVE  IInv'
<1> DEFINE i == dispatch.event
<1>1. /\ KindAt(i) = "terminal"
      /\ IF Delivered THEN Drop /\ UNCHANGED sess
         ELSE sess' = [sess EXCEPT !.first = <<i>>, !.ended = TRUE] /\ Loop("terminal")
      /\ UNCHANGED <<artifacts, known>>
      /\ UNCHANGED <<log, published, cursor, next, seen, lists, heard, nested, waiters,
                     clients, current, refEnded, tracked>>
  BY DEF TypedTerminal, wire, streams
<1>2. WireOK /\ SessType /\ AllHear
  BY DEF IInv, SessOK, SessType
<1>3. Reading /\ i \in Nat /\ "terminal" \in Kinds
  BY EventIs DEF Kinds
<1>4. dispatch'.phase \in {"idle", "typed"}
  BY <1>1, <1>3, LoopIs DEF Drop, Idle
<1>5. artifacts' \in Seq(Nat) /\ known' \in Seq(Nat)
  BY <1>1, <1>2 DEF WireOK
<1>6. CASE Delivered
  <2>1. Drop /\ UNCHANGED sess
    BY <1>1, <1>6
  <2>2. SessType' /\ Delivered' = Delivered
    BY <1>2, <2>1 DEF SessType, Delivered
  <2>3. AllHear' /\ Taken'
    BY <1>1, <1>4, <2>1, DropTells, OtherTaken
  <2> QED
    BY <1>1, <1>5, <2>1, <2>2, <2>3, TypedKeeps
<1>7. CASE ~Delivered
  <2>1. sess' = [sess EXCEPT !.first = <<i>>, !.ended = TRUE] /\ Loop("terminal")
    BY <1>1, <1>7
  <2>2. /\ SessType' /\ sess'.mode = sess.mode /\ sess'.closed = sess.closed
        /\ sess'.ended = TRUE /\ sess'.first = <<i>> /\ sess'.cancelled = sess.cancelled
    BY <1>2, <1>3, <2>1, NotedIs
  <2>3. Delivered'
    BY <2>2 DEF Delivered
  <2>4. Taken'
    BY <1>1, <1>4, <2>2, OtherTaken
  <2>5. AllHear'
    <3> SUFFICES ASSUME sess'.closed # "app", NEW c \in Callbacks \ nested' PROVE Hears(c)'
      BY DEF AllHear
    <3>1. /\ Told(c) = heard[c].got
          /\ Told(c)' = IF heard[c].kind = "terminal" THEN Append(heard[c].got, i) ELSE heard[c].got
      BY <1>1, <1>3, <2>1, <2>2, LoopTells
    <3>2. Hears(c)
      BY <1>1, <1>2, <2>2 DEF AllHear
    <3>3. Append(<<>>, i) = <<i>>
      OBVIOUS
    <3>4. CASE heard[c].kind = "terminal"
      <4>1. heard[c].got = <<>>
        BY <1>7, <3>1, <3>2, <3>4 DEF Hears, Delivered
      <4>2. Told(c)' = <<i>> /\ heard'[c].kind = "terminal"
        BY <1>1, <3>1, <3>3, <3>4, <4>1
      <4> QED
        BY <2>2, <4>2 DEF Hears
    <3>5. CASE heard[c].kind # "terminal"
      BY <1>1, <2>2, <3>1, <3>2, <3>5 DEF Hears
    <3> QED
      BY <3>4, <3>5
  <2> QED
    BY <1>1, <1>5, <2>1, <2>2, <2>3, <2>4, <2>5, TypedKeeps
<1> QED
  BY <1>6, <1>7

\* Calling a callback with the event leaves what it will have been told as it is.
LEMMA GotIs ==
  ASSUME NEW x, NEW v, x = [kind |-> x.kind, got |-> x.got]
  PROVE  [x EXCEPT !.got = v] = [kind |-> x.kind, got |-> v]
<1> DEFINE R == [kind : {x.kind}, got : {x.got, v}]
           y == [x EXCEPT !.got = v]
<1>1. x \in R
  OBVIOUS
<1>2. y \in R /\ y.kind = x.kind /\ y.got = v
  BY <1>1
<1> HIDE DEF y
<1>3. y = [kind |-> y.kind, got |-> y.got]
  BY <1>2
<1> QED
  BY <1>2, <1>3 DEF y

LEMMA TailIs ==
  ASSUME NEW q \in Seq(Callbacks), q # <<>>
  PROVE  /\ Head(q) \in Callbacks /\ In(Head(q), q)
         /\ Tail(q) \in Seq(Callbacks)
         /\ Distinct(q) => Distinct(Tail(q))
                           /\ \A d : In(d, Tail(q)) <=> In(d, q) /\ d # Head(q)
<1> DEFINE t == Tail(q)
           l == Len(q)
           h == Head(q)
<1>1. /\ h \in Callbacks /\ t \in Seq(Callbacks) /\ l \in Nat /\ l > 0
      /\ h = q[1] /\ DOMAIN q = 1..l
      /\ DOMAIN t = 1..l - 1 /\ \A j \in 1..l - 1 : t[j] = q[j + 1]
  BY HeadTailProperties
<1> HIDE DEF t, l, h
<1>2. 1 \in DOMAIN q
  BY <1>1
<1>3. In(h, q)
  BY <1>1, <1>2 DEF In
<1>4. \A j \in DOMAIN t : j \in Nat /\ j + 1 \in DOMAIN q /\ j + 1 # 1 /\ t[j] = q[j + 1]
  BY <1>1
<1>5. \A j \in DOMAIN q : j # 1 => j - 1 \in DOMAIN t /\ t[j - 1] = q[j]
  BY <1>1
<1>6. ASSUME Distinct(q) PROVE Distinct(t)
  <2>1. \A i, j \in DOMAIN t : i # j => i + 1 # j + 1
    BY <1>4
  <2> QED
    BY <1>4, <1>6, <2>1 DEF Distinct
<1>7. ASSUME Distinct(q), NEW d PROVE In(d, t) <=> In(d, q) /\ d # h
  <2>1. In(d, t) => In(d, q) /\ d # h
    BY <1>1, <1>2, <1>4, <1>7 DEF In, Distinct
  <2>2. In(d, q) /\ d # h => In(d, t)
    BY <1>1, <1>5 DEF In
  <2> QED
    BY <2>1, <2>2
<1> QED
  BY <1>1, <1>3, <1>6, <1>7 DEF t, h

LEMMA CallNextKeeps ==
  ASSUME IInv, CallNext
  PROVE  IInv'
<1> DEFINE i == dispatch.event
           q == dispatch.todo
           c == Head(q)
           T == Seq(Callbacks)
           P == {"idle", "event", "typed", "calling"}
           D == [event : Nat, phase : P, todo : T, same : BOOLEAN]
<1>1. /\ dispatch.phase \in {"typed", "calling"} /\ q # <<>>
      /\ heard' = [heard EXCEPT ![c].got = Append(@, i)]
      /\ dispatch' = [dispatch EXCEPT !.phase = "calling", !.todo = Tail(q)]
      /\ UNCHANGED <<log, published, cursor, next, sess, seen, artifacts, known, lists, nested,
                     waiters, clients, current, refEnded, tracked>>
  BY DEF CallNext, wire, view, streams
<1>2. /\ SessOK /\ WireOK /\ StreamsOK /\ DispatchOK /\ Window /\ Taken /\ Promised
      /\ Registered /\ Looping /\ AllHear
  BY DEF IInv
<1>3. /\ dispatch \in D /\ q \in T
  BY <1>2 DEF DispatchOK
<1>4. /\ c \in Callbacks /\ In(c, q) /\ Tail(q) \in T /\ Distinct(Tail(q))
      /\ \A d : In(d, Tail(q)) <=> In(d, q) /\ d # c
  BY <1>1, <1>2, <1>3, TailIs DEF Looping
<1>5. /\ Reading /\ dispatch # Idle /\ sess.closed \notin {"yes", "drained"}
      /\ i = next - 1 /\ i > cursor
  BY <1>1, EventIs
<1>6. /\ dispatch' \in D /\ dispatch'.event = i /\ dispatch'.phase = "calling"
      /\ dispatch'.todo = Tail(q)
  <2>1. "calling" \in P
    OBVIOUS
  <2> DEFINE r == Tail(q)
  <2>2. r \in T
    BY <1>4
  <2> HIDE DEF T, P, r
  <2>3. ASSUME NEW g, g = [dispatch EXCEPT !.phase = "calling", !.todo = r]
        PROVE  g \in D /\ g.event = dispatch.event /\ g.phase = "calling" /\ g.todo = r
    BY <1>3, <2>1, <2>2, <2>3
  <2> QED
    BY <1>1, <2>3 DEF r
<1>7. /\ DOMAIN heard' = Callbacks
      /\ \A d \in Callbacks : d # c => heard'[d] = heard[d]
      /\ heard'[c] = [kind |-> heard[c].kind, got |-> Append(heard[c].got, i)]
  <2>1. DOMAIN heard = Callbacks /\ heard[c] = [kind |-> heard[c].kind, got |-> heard[c].got]
    BY <1>2, <1>4 DEF Registered
  <2> DEFINE v == Append(heard[c].got, i)
  <2>2. heard' = [heard EXCEPT ![c] = [heard[c] EXCEPT !.got = v]]
    BY <1>1
  <2> HIDE DEF v, c
  <2>3. /\ DOMAIN heard' = Callbacks
        /\ \A d \in Callbacks : d # c => heard'[d] = heard[d]
        /\ heard'[c] = [heard[c] EXCEPT !.got = v]
    BY <1>4, <2>1, <2>2
  <2>4. [heard[c] EXCEPT !.got = v] = [kind |-> heard[c].kind, got |-> v]
    BY <2>1, GotIs
  <2> QED
    BY <2>3, <2>4 DEF v
<1>8. /\ heard'[c].kind = heard[c].kind /\ heard'[c].got = Append(heard[c].got, i)
      /\ \A d \in Callbacks : heard'[d].kind = heard[d].kind
  BY <1>7
<1>9. \A d \in Callbacks : Told(d)' = Told(d)
  <2> TAKE d \in Callbacks
  <2>1. Told(d)' = IF In(d, Tail(q)) THEN Append(heard'[d].got, i) ELSE heard'[d].got
    BY <1>6 DEF Told, In
  <2>2. CASE d = c
    BY <1>4, <1>8, <2>1, <2>2 DEF Told
  <2>3. CASE d # c
    BY <1>4, <1>7, <2>1, <2>3 DEF Told
  <2> QED
    BY <2>2, <2>3
<1> HIDE DEF i, q, c
<1>10. SessOK'
  BY <1>1, <1>2, <1>5 DEF SessOK, Closed, Delivered
<1>11. WireOK' /\ StreamsOK'
  BY <1>1, <1>2 DEF WireOK, StreamsOK
<1>12. Reading' /\ Closed' = Closed /\ Delivered' = Delivered /\ Opened' = Opened
  BY <1>1, <1>5 DEF Reading, Closed, Delivered, Opened
<1>13. DispatchOK'
  BY <1>1, <1>5, <1>6, <1>12 DEF DispatchOK
<1>14. Window'
  BY <1>1, <1>2, <1>5, <1>12, WindowFrame
<1>15. Taken'
  <2>1. Done' = Done
    BY <1>1, <1>6 DEF Done
  <2> QED
    BY <1>1, <1>2, <2>1, TakenFrame
<1>16. KindAt(dispatch.event)' = KindAt(dispatch.event)
  BY <1>1, <1>6 DEF KindAt, i
<1>17. Promised'
  BY <1>1, <1>2, <1>6, <1>12, <1>16 DEF Promised
<1>18. Registered'
  <2>1. \A k \in Kinds : \A j \in DOMAIN lists[k] : lists[k][j] \in Callbacks
    BY <1>2 DEF Registered
  <2>2. \A k \in Kinds : Distinct(lists'[k]) /\ \A j \in DOMAIN lists'[k] : heard'[lists'[k][j]].kind = k
    BY <1>1, <1>2, <1>8, <2>1 DEF Registered
  <2>3. \A d \in Callbacks : heard'[d] = [kind |-> heard'[d].kind, got |-> heard'[d].got]
    <3> TAKE d \in Callbacks
    <3>1. CASE d = c
      BY <1>7, <1>8, <3>1
    <3>2. CASE d # c
      <4>1. heard'[d] = heard[d]
        BY <1>7, <3>2
      <4> QED
        BY <1>2, <4>1 DEF Registered
    <3> QED
      BY <3>1, <3>2
  <2>4. \A d \in Callbacks : heard'[d].kind \in Kinds \cup {"none"}
    BY <1>2, <1>8 DEF Registered
  <2>5. ~Closed' => \A d \in Callbacks : heard'[d].kind \in Kinds => In(d, lists'[heard'[d].kind])
    BY <1>1, <1>2, <1>8, <1>12 DEF Registered
  <2>6. /\ ~Opened' => \A d \in Callbacks : heard'[d].kind = "none"
        /\ sess'.ended /\ ~Delivered' => \A d \in Callbacks : heard'[d].kind # "terminal"
    BY <1>1, <1>2, <1>8, <1>12 DEF Registered
  <2>7. lists' \in [Kinds -> Seq(Callbacks)] /\ DOMAIN heard' = Callbacks
    BY <1>1, <1>2, <1>7 DEF Registered
  <2> QED
    BY <2>2, <2>3, <2>4, <2>5, <2>6, <2>7 DEF Registered
<1>19. Looping'
  <2>1. \A d : In(d, q) => d \in Callbacks /\ heard[d].kind = KindAt(dispatch.event)
    BY <1>2, <1>3 DEF Looping, In, q
  <2>2. \A d : In(d, Tail(q)) => heard'[d].kind = KindAt(dispatch.event)
    BY <1>4, <1>8, <2>1
  <2> QED
    BY <1>4, <1>6, <1>16, <2>2 DEF Looping, In
<1>20. AllHear'
  <2>1. \A d \in Callbacks : Hears(d)' = Hears(d)
    BY <1>1, <1>8, <1>9 DEF Hears
  <2> QED
    BY <1>1, <1>2, <2>1 DEF AllHear
<1> QED
  BY <1>10, <1>11, <1>13, <1>14, <1>15, <1>17, <1>18, <1>19, <1>20 DEF IInv

\* What the session notes when its loop over an event ends.
LEMMA EndingIs ==
  ASSUME SessType, NEW g
  PROVE  /\ g = [sess EXCEPT !.draining = TRUE] =>
              /\ g.mode = sess.mode /\ g.closed = sess.closed /\ g.ended = sess.ended
              /\ g.first = sess.first /\ g.cancelled = sess.cancelled
              /\ sess' = g => SessType'
         /\ g = [sess EXCEPT !.draining = sess.autoDrain, !.closed = "drained"] =>
              /\ g.mode = sess.mode /\ g.closed = "drained" /\ g.ended = sess.ended
              /\ g.first = sess.first /\ g.cancelled = sess.cancelled
              /\ sess' = g => SessType'
<1> DEFINE M == {"created", "timed", "live", "basic", "terminal", "preclosed", "failed"}
           V == {"send", "connect"}
           C == {"no", "yes", "app", "drained"}
           A == SUBSET AllClients
           T == [via : V, autoDrain : BOOLEAN, mode : M, ended : BOOLEAN, first : Events,
                 cancelled : Events, draining : BOOLEAN, closed : C, closing : BOOLEAN, awaited : A]
<1>1. sess \in T /\ "drained" \in C
  BY DEF SessType
<1> HIDE DEF M, V, C, A
<1>2. ASSUME g = [sess EXCEPT !.draining = TRUE]
      PROVE  /\ g \in T /\ g.mode = sess.mode /\ g.closed = sess.closed /\ g.ended = sess.ended
             /\ g.first = sess.first /\ g.cancelled = sess.cancelled
  BY <1>1, <1>2
<1>3. ASSUME g = [sess EXCEPT !.draining = sess.autoDrain, !.closed = "drained"]
      PROVE  /\ g \in T /\ g.mode = sess.mode /\ g.closed = "drained" /\ g.ended = sess.ended
             /\ g.first = sess.first /\ g.cancelled = sess.cancelled
  BY <1>1, <1>3
<1> HIDE DEF T
<1>4. sess' \in T => SessType'
  BY DEF SessType, T, M, V, C, A
<1> QED
  BY <1>2, <1>3, <1>4

LEMMA EventHandledKeeps ==
  ASSUME IInv, EventHandled
  PROVE  IInv'
<1> DEFINE k == KindAt(dispatch.event)
           resolved == Settled({k}, "resolved")
<1>1. /\ dispatch.phase \in {"typed", "calling"} /\ dispatch.todo = <<>> /\ dispatch' = Idle
      /\ UNCHANGED <<log, published, cursor, next, seen, artifacts, known, heard, nested>>
      /\ \/ waiters' = resolved /\ UNCHANGED <<sess, lists, clients, current, refEnded, tracked>>
         \/ /\ waiters' = resolved /\ sess' = [sess EXCEPT !.draining = TRUE]
            /\ UNCHANGED <<lists, clients, current, refEnded, tracked>>
         \/ /\ ~Closed
            /\ sess' = [sess EXCEPT !.draining = sess.autoDrain, !.closed = "drained"]
            /\ waiters' = [w \in Waiters |-> IF resolved[w].is = "pending"
                             THEN [resolved[w] EXCEPT !.is = "rejected"] ELSE resolved[w]]
            /\ lists' = [j \in Kinds |-> <<>>] /\ tracked' = {}
            /\ EndClients({c \in tracked : Active(c)})
  BY DEF EventHandled, wire, view, streams
<1>2. /\ SessOK /\ WireOK /\ StreamsOK /\ DispatchOK /\ Window /\ Taken /\ Promised
      /\ Registered /\ Looping /\ AllHear /\ SessType
  BY DEF IInv, SessOK, SessType
<1>3. /\ Reading /\ sess.closed \notin {"yes", "drained"}
      /\ next \in Nat
  BY <1>1, EventIs
<1>4. /\ SessType'
      /\ sess'.mode = sess.mode /\ sess'.ended = sess.ended
      /\ sess'.first = sess.first /\ sess'.cancelled = sess.cancelled
      /\ \/ sess'.closed = sess.closed /\ lists' = lists /\ waiters' = resolved
         \/ /\ ~Closed /\ sess'.closed = "drained"
            /\ lists' = [j \in Kinds |-> <<>>]
            /\ waiters' = [w \in Waiters |-> IF resolved[w].is = "pending"
                             THEN [resolved[w] EXCEPT !.is = "rejected"] ELSE resolved[w]]
  <2> HIDE DEF resolved
  <2>1. CASE sess' = sess /\ waiters' = resolved /\ lists' = lists
    BY <1>2, <2>1 DEF SessType
  <2>2. CASE sess' = [sess EXCEPT !.draining = TRUE] /\ waiters' = resolved /\ lists' = lists
    BY <1>2, <2>2, EndingIs
  <2>3. CASE /\ ~Closed
             /\ sess' = [sess EXCEPT !.draining = sess.autoDrain, !.closed = "drained"]
             /\ lists' = [j \in Kinds |-> <<>>]
             /\ waiters' = [w \in Waiters |-> IF resolved[w].is = "pending"
                              THEN [resolved[w] EXCEPT !.is = "rejected"] ELSE resolved[w]]
    BY <1>2, <2>3, EndingIs
  <2> QED
    BY <1>1, <2>1, <2>2, <2>3
<1>5. Reading' /\ Opened' = Opened /\ Delivered' = Delivered /\ (Closed => Closed')
  BY <1>3, <1>4 DEF Reading, Opened, Delivered, Closed
<1>6. SessOK'
  BY <1>1, <1>2, <1>4, <1>5 DEF SessOK, SessType, Closed
<1>7. WireOK'
  BY <1>1, <1>2 DEF WireOK
<1>8. StreamsOK'
  <2>1. CASE UNCHANGED <<clients, current, refEnded, tracked>>
    BY <1>2, <2>1 DEF StreamsOK
  <2>2. CASE tracked' = {} /\ EndClients({c \in tracked : Active(c)})
    <3> DEFINE E == {c \in tracked : Active(c)}
    <3>1. E \in SUBSET AllClients /\ tracked' \subseteq tracked
      BY <1>2, <2>2 DEF StreamsOK
    <3> HIDE DEF E
    <3>2. EndClients(E)
      BY <2>2 DEF E
    <3> QED
      BY <1>2, <3>1, <3>2, EndClientsOK
  <2> QED
    BY <1>1, <2>1, <2>2
<1>9. /\ Idle.phase = "idle" /\ Idle.todo = <<>>
      /\ Idle \in [event : Nat, phase : {"idle", "event", "typed", "calling"},
                   todo : Seq(Callbacks), same : BOOLEAN]
  BY DEF Idle
<1>10. DispatchOK'
  BY <1>1, <1>9 DEF DispatchOK
<1>11. Window'
  BY <1>1, <1>2, <1>3, <1>5, WindowFrame
<1>12. Taken'
  <2>1. Done' = Done
    BY <1>1, <1>9 DEF Done
  <2> QED
    BY <1>1, <1>2, <1>4, <2>1, TakenFrame
<1>13. Promised'
  <2>1. \A w \in Waiters : waiters[w] \in [for : {"none", "terminal", "stream"},
                                           is : {"unused", "pending", "resolved", "rejected"}]
    BY <1>2 DEF Promised
  <2>2. ASSUME NEW w \in Waiters
        PROVE  /\ resolved[w] \in [for : {"none", "terminal", "stream"},
                                   is : {"unused", "pending", "resolved", "rejected"}]
               /\ resolved[w].is = "pending" => waiters[w].for # k /\ resolved[w] = waiters[w]
    <3>1. resolved[w] = IF waiters[w].is = "pending" /\ waiters[w].for \in {k}
                        THEN [waiters[w] EXCEPT !.is = "resolved"] ELSE waiters[w]
      BY DEF Settled
    <3>2. CASE waiters[w].is = "pending" /\ waiters[w].for = k
      BY <2>1, <3>1, <3>2
    <3>3. CASE ~(waiters[w].is = "pending" /\ waiters[w].for = k)
      BY <2>1, <3>1, <3>3
    <3> QED
      BY <3>2, <3>3
  <2>3. resolved = [w \in Waiters |-> resolved[w]]
    BY DEF Settled
  <2> HIDE DEF resolved
  <2>4. CASE sess'.closed = sess.closed /\ waiters' = resolved
    <3>1. waiters' \in [Waiters -> [for : {"none", "terminal", "stream"},
                                    is : {"unused", "pending", "resolved", "rejected"}]]
      BY <2>2, <2>3, <2>4
    <3>2. ASSUME NEW w \in Waiters, waiters'[w].is = "pending"
          PROVE  /\ ~Closed' /\ Reading' /\ waiters'[w].for \in {"terminal", "stream"}
                 /\ waiters'[w].for = "terminal" => ~Delivered'
                 /\ waiters'[w].for = "stream" => known' = <<>>
      <4>1. waiters'[w] = waiters[w] /\ waiters[w].is = "pending" /\ waiters[w].for # k
        BY <2>2, <2>4, <3>2
      <4>2. Closed' = Closed
        BY <2>4 DEF Closed
      <4> QED
        BY <1>1, <1>2, <1>5, <4>1, <4>2 DEF Promised
    <3> QED
      BY <3>1, <3>2 DEF Promised
  <2>5. CASE waiters' = [w \in Waiters |-> IF resolved[w].is = "pending"
                           THEN [resolved[w] EXCEPT !.is = "rejected"] ELSE resolved[w]]
    <3>1. ASSUME NEW w \in Waiters
          PROVE  /\ waiters'[w] \in [for : {"none", "terminal", "stream"},
                                     is : {"unused", "pending", "resolved", "rejected"}]
                 /\ waiters'[w].is # "pending"
      BY <2>2, <2>5
    <3>2. waiters' = [w \in Waiters |-> waiters'[w]]
      BY <2>5
    <3>3. waiters' \in [Waiters -> [for : {"none", "terminal", "stream"},
                                    is : {"unused", "pending", "resolved", "rejected"}]]
      BY <3>1, <3>2
    <3> QED
      BY <3>1, <3>3 DEF Promised
  <2> QED
    BY <1>4, <2>4, <2>5
<1>14. Registered'
  <2>1. CASE sess'.closed = sess.closed /\ lists' = lists
    <3>1. Closed' = Closed
      BY <2>1 DEF Closed
    <3> QED
      BY <1>1, <1>2, <1>4, <1>5, <2>1, <3>1 DEF Registered, In, Distinct
  <2>2. CASE ~Closed /\ sess'.closed = "drained" /\ lists' = [j \in Kinds |-> <<>>]
    <3>1. Closed'
      BY <2>2 DEF Closed
    <3>2. lists' \in [Kinds -> Seq(Callbacks)]
      BY <2>2
    <3>3. \A j \in Kinds : Distinct(lists'[j]) /\ DOMAIN lists'[j] = {}
      BY <2>2 DEF Distinct
    <3>4. \A c \in Callbacks : heard'[c] = heard[c]
      BY <1>1
    <3> QED
      BY <1>1, <1>2, <1>4, <1>5, <3>1, <3>2, <3>3 DEF Registered
  <2> QED
    BY <1>4, <2>1, <2>2
<1>15. Looping'
  BY <1>1, <1>9 DEF Looping, Distinct
<1>16. AllHear'
  <2>1. \A c : Told(c) = heard[c].got /\ Told(c)' = heard[c].got
    BY <1>1, <1>9 DEF Told, In
  <2>2. \A c : Hears(c)' = Hears(c)
    BY <1>1, <1>4, <2>1 DEF Hears
  <2> QED
    BY <1>1, <1>2, <1>3, <1>4, <2>2 DEF AllHear, Closed
<1> QED
  BY <1>6, <1>7, <1>8, <1>10, <1>11, <1>12, <1>13, <1>14, <1>15, <1>16 DEF IInv

-----------------------------------------------------------------------------
(* Every step.                                                               *)

LEMMA EventLoopKeeps == ASSUME IInv, EventLoop PROVE IInv'
<1>0. dispatch = Idle
  BY DEF EventLoop
<1>1. CASE IdempotentHit \/ AskTime \/ ReadHistory \/ HistoryFails
  BY <1>0, <1>1, IdempotentHitKeeps, AskTimeKeeps, ReadHistoryKeeps, HistoryFailsKeeps
<1>2. CASE \E i \in 1..Len(log) : Receive(i)
  BY <1>0, <1>2, ReceiveKeeps
<1>3. CASE \E c \in AllClients : StreamDone(c) \/ EndCompletes(c)
  BY <1>0, <1>3, EndClientKeeps, EndCompletesKeeps
<1>4. CASE DrainTimerFires \/ AsyncCloses
  BY <1>0, <1>4, DrainTimerFiresKeeps, AsyncClosesKeeps
<1>5. CASE \E w \in Waiters : WaitTimesOut(w)
  BY <1>5, WaitTimesOutKeeps
<1> QED
  BY <1>1, <1>2, <1>3, <1>4, <1>5 DEF EventLoop

LEMMA ApplicationKeeps == ASSUME IInv, Application PROVE IInv'
<1>0. Opened
  BY DEF Application
<1>1. CASE Close \/ AsyncClose
  BY <1>1, CloseKeeps, AsyncCloseKeeps
<1>2. CASE \E c \in AllClients : EndClient(c)
  BY <1>2, EndClientKeeps
<1>3. CASE \E s \in Streams : Open(s)
  BY <1>3, OpenKeeps
<1>4. CASE \E c \in Callbacks, k \in Kinds : Register(c, k)
  BY <1>0, <1>4, RegisterKeeps
<1>5. CASE \E w \in Waiters : WaitForTerminal(w) \/ WaitForStream(w)
  BY <1>0, <1>5, WaitForTerminalKeeps, WaitForStreamKeeps
<1> QED
  BY <1>1, <1>2, <1>3, <1>4, <1>5 DEF Application

LEMMA DispatchingKeeps == ASSUME IInv, Dispatching PROVE IInv'
<1>1. CASE Typed
  <2>1. /\ dispatch.phase = "event"
        /\ \/ TypedArtifact(dispatch.event) \/ TypedStream(dispatch.event)
           \/ TypedCancel(dispatch.event) \/ TypedTerminal(dispatch.event)
        /\ UNCHANGED <<wire, seen, lists, heard, nested, waiters, streams>>
    BY <1>1 DEF Typed
  <2> QED
    BY <2>1, TypedArtifactKeeps, TypedStreamKeeps, TypedCancelKeeps, TypedTerminalKeeps
<1> QED
  BY <1>1, CallNextKeeps, EventHandledKeeps DEF Dispatching

LEMMA StutterKeeps == ASSUME IInv, UNCHANGED vars PROVE IInv'
<1>1. Closing
  BY DEF Closing, vars, calls, view, streams
<1>2. SessType' /\ StreamsOK'
  BY DEF IInv, SessOK, SessType, StreamsOK, vars, streams
<1> QED
  BY <1>1, <1>2, ClosingKeeps

\* The invariant, of every step of the session.
LEMMA IInvAlways == Spec => []IInv
<1>1. Init => IInv
  BY InitIInv
<1>2. IInv /\ [Next]_vars => IInv'
  BY PublishKeeps, EventLoopKeeps, ApplicationKeeps, DispatchingKeeps, StutterKeeps DEF Next
<1> QED
  BY <1>1, <1>2, PTL DEF Spec

LEMMA IInvMeans == IInv => NothingMissed /\ WaitersSettle
<1> SUFFICES ASSUME IInv PROVE NothingMissed /\ WaitersSettle
  OBVIOUS
<1>1. /\ SessOK /\ WireOK /\ StreamsOK /\ DispatchOK /\ Window /\ Taken /\ Promised
      /\ Registered /\ AllHear
  BY DEF IInv
<1>2. Len(log) \in Nat
  BY <1>1, LogTyped DEF WireOK
<1>3. TypeOK
  <2>1. published \in 0..Len(log) /\ cursor \in 0..Len(log) /\ next \in 1..Len(log) + 1
    BY <1>1, <1>2 DEF WireOK
  <2>2. Len(seen) <= SeenMax
    BY <1>1, BoundsAssumption DEF Window
  <2>3. /\ sess.mode \in {"created", "timed", "live", "basic", "terminal", "preclosed", "failed"}
        /\ sess.closed \in {"no", "yes", "app", "drained"} /\ sess.awaited \subseteq AllClients
    BY <1>1 DEF SessOK
  <2>4. dispatch.phase \in {"idle", "event", "typed", "calling"}
    BY <1>1 DEF DispatchOK
  <2>5. \A c \in Callbacks : heard[c].kind \in Kinds \cup {"none"}
    BY <1>1 DEF Registered
  <2>6. /\ tracked \subseteq AllClients /\ refEnded \subseteq Streams
        /\ \A s \in Streams : current[s] \in 0..Len(clients[s]) /\ Len(clients[s]) <= MaxClients
    <3>1. \A s \in Streams : current[s] \in Nat /\ Len(clients[s]) \in Nat
      <4> TAKE s \in Streams
      <4>1. clients[s] \in Seq(States)
        BY <1>1 DEF StreamsOK
      <4> QED
        BY <1>1, <4>1 DEF StreamsOK
    <3> QED
      BY <1>1, <3>1 DEF StreamsOK
  <2> QED
    BY <2>1, <2>2, <2>3, <2>4, <2>5, <2>6 DEF TypeOK
<1>4. CaughtUp
  <2> SUFFICES ASSUME Subscribed, dispatch = Idle PROVE
        LET start == IF sess.mode = "basic" THEN cursor ELSE 0
            H(k) == {i \in Indices(k, next - 1) : i > start} IN
        /\ artifacts = Sorted(H("artifact"))
        /\ {log[known[j]].of : j \in DOMAIN known} = {log[i].of : i \in H("stream")}
    BY DEF CaughtUp
  <2>1. Reading /\ Done = next - 1
    BY DEF Subscribed, Reading, Done, Idle
  <2> QED
    BY <1>1, <2>1 DEF Taken, Held, Start, Names, KnownNames
<1>5. CallbacksHearAll
  <2> SUFFICES ASSUME dispatch = Idle, sess.closed # "app", NEW c \in Callbacks \ nested
               PROVE  /\ heard[c].kind = "artifact" => heard[c].got = artifacts
                      /\ heard[c].kind = "stream" => heard[c].got = known
                      /\ heard[c].kind = "terminal" => heard[c].got = sess.first
                      /\ heard[c].kind = "cancel" => heard[c].got \in {<<>>, sess.cancelled}
    BY DEF CallbacksHearAll
  <2>1. Told(c) = heard[c].got
    BY DEF Told, In, Idle
  <2> QED
    BY <1>1, <2>1 DEF AllHear, Hears
<1>6. WaitersSettle
  <2> SUFFICES ASSUME NEW w \in Waiters, waiters[w].is = "pending"
               PROVE  /\ ~Closed /\ sess.mode \in {"live", "basic"}
                      /\ dispatch = Idle => IF waiters[w].for = "terminal" THEN ~Delivered
                                            ELSE known = <<>>
    BY DEF WaitersSettle
  <2>1. dispatch = Idle => dispatch.phase \notin {"typed", "calling"}
    BY DEF Idle
  <2> QED
    BY <1>1, <2>1 DEF Promised, Reading
<1> QED
  BY <1>3, <1>4, <1>5, <1>6 DEF NothingMissed

\* A session holds all that the task published behind its start, once and in order,
\* whatever the channel replays and whenever it was subscribed; and each callback that
\* is registered between two events has been called with all of its kind, and with
\* nothing twice.
THEOREM NothingIsMissed == Spec => []NothingMissed
  BY IInvAlways, IInvMeans, PTL

\* No promise of a session is left pending: it is settled by the event it waits for,
\* by its deadline or by whatever closes the session.
THEOREM WaitersAreSettled == Spec => []WaitersSettle
  BY IInvAlways, IInvMeans, PTL

-----------------------------------------------------------------------------
(* The streams of a session's exchanges, the other clients of streams a      *)
(* consumer has: for every set of exchanges no client outlives its session   *)
(* or its reader, no timer of the rotation outlives its client, and the      *)
(* lease goes on while a client is connected. The names of SessionStreams   *)
(* are apart from those of TaskSession, so that one module can extend both.  *)

TokenTypeOK ==
  /\ timer \in BOOLEAN /\ stopped \in BOOLEAN
  /\ denial \in {"none", "asked", "waiting"}

StreamsTypeOK ==
  /\ over \in BOOLEAN /\ leaseTimer \in BOOLEAN
  /\ following \subseteq Exchanges /\ connected \subseteq Exchanges
  /\ settled \in [Exchanges -> {"no", "completed", "failed"}]
  /\ starting \in
       [Exchanges -> {"no", "answer", "fetch", "credentials", "nothing", "done"}]
  /\ client \in [Exchanges -> {"none", "running", "ended"}]
  /\ reader \in [Exchanges -> {"waits", "reads", "ended", "returned"}]
  /\ TokenTypeOK

\* What an exchange that has not settled, or that still waits, cannot have yet.
StartsInOrder ==
  \A x \in Exchanges :
    /\ settled[x] = "no" => starting[x] = "no"
    /\ client[x] # "none" => starting[x] = "done"

\* Whatever is about to start is tracked, so that the end of the session reaches it,
\* or has been reached already: this is what the second look after the wait relies on.
StartsAreReached ==
  \A x \in Exchanges :
    starting[x] \in {"answer", "fetch", "credentials", "nothing"} => x \in following \cup told

\* A running client is tracked, for a reader that has not left.
RunningIsTracked ==
  \A x \in Exchanges : Running(x) => x \in following /\ reader[x] # "returned"

OverIsEmpty == over => following = {}

\* Every connected client is in the lease, and the lease has its interval.
LeaseFollows ==
  /\ \A x \in connected : Running(x) /\ x \in leased
  /\ leased # {} => leaseTimer

\* Before its client there is no rotation.
TokenIdle == ~timer /\ ~rotating /\ denial = "none" /\ ~stale /\ ~stopped

TokenFollows == client[Rotating] = "none" => TokenIdle

\* A rotation that has stopped has no timer, and none is on its way.
StoppedIsStill == stopped => ~timer /\ denial # "waiting"

StreamsInv ==
  /\ StreamsTypeOK
  /\ StartsInOrder
  /\ StartsAreReached
  /\ RunningIsTracked
  /\ OverIsEmpty
  /\ LeaseFollows
  /\ TokenFollows
  /\ StoppedIsStill

-----------------------------------------------------------------------------
\* What the rotation does alone: no step of it, whichever answer comes late, sets a
\* timer once it has stopped, and before its client has started there is none.
LEMMA TokenSteps ==
  ASSUME TokenTypeOK, StoppedIsStill, TokenStep
  PROVE  TokenTypeOK' /\ StoppedIsStill' /\ ~TokenIdle
<1> USE DEF TokenTypeOK, StoppedIsStill, TokenIdle
<1>1. CASE RotationDue
  BY <1>1 DEF RotationDue
<1>2. CASE Rotated
  BY <1>2 DEF Rotated, Recover, Apply
<1>3. CASE RotationFails
  <2>1. CASE stopped /\ UNCHANGED <<timer, denial, stopped, parked, awaiting>>
    BY <1>3, <2>1 DEF RotationFails
  <2>2. CASE ~stopped /\ Stopping
    BY <1>3, <2>2 DEF RotationFails, Stopping
  <2>3. CASE /\ ~stopped /\ timer' \in IF denial # "none" THEN {timer} ELSE {TRUE, timer}
             /\ UNCHANGED <<denial, stopped, parked, awaiting>>
    <3>1. timer' = timer \/ timer' = TRUE
      BY <2>3
    <3>2. timer' \in BOOLEAN
      BY <3>1
    <3> QED
      BY <1>3, <2>3, <3>2 DEF RotationFails
  <2> QED
    BY <1>3, <2>1, <2>2, <2>3 DEF RotationFails
<1>4. CASE DenialAnswered
  <2>1. CASE /\ denial = "asked"
             /\ IF stopped
                THEN denial' = "none" /\ UNCHANGED <<timer, stale, awaiting, stopped, parked>>
                ELSE Recover(FALSE)
    <3>1. CASE stopped
      BY <2>1, <3>1
    <3>2. CASE ~stopped
      BY <2>1, <3>2 DEF Recover
    <3> QED
      BY <3>1, <3>2
  <2>2. CASE /\ stale /\ stale' = FALSE /\ timer' = (timer \/ ~stopped)
             /\ UNCHANGED <<rotating, denial, awaiting, stopped, parked>>
    <3>1. timer' \in BOOLEAN /\ (stopped => timer' = timer)
      BY <2>2, Zenon
    <3> QED
      BY <2>2, <3>1
  <2> QED
    BY <1>4, <2>1, <2>2 DEF DenialAnswered
<1>5. CASE DenialLimited
  BY <1>5 DEF DenialLimited
<1>6. CASE DenialAsksAgain
  BY <1>6 DEF DenialAsksAgain
<1>7. CASE DenialFails
  <2>1. CASE denial = "asked" /\ denial' = "none" /\ stopped' = TRUE /\ timer' = FALSE
    BY <2>1
  <2>2. CASE stale /\ Stopping
    BY <2>2 DEF Stopping
  <2>3. CASE stale /\ UNCHANGED <<timer, denial, stopped, parked, awaiting>>
    BY <2>3
  <2> QED
    BY <1>7, <2>1, <2>2, <2>3 DEF DenialFails
<1> QED
  BY <1>1, <1>2, <1>3, <1>4, <1>5, <1>6, <1>7 DEF TokenStep

\* What its client does to it keeps both parts as well.
LEMMA TokenHandlers ==
  ASSUME TokenTypeOK, StoppedIsStill,
         \/ ~stopped /\ StartToken
         \/ StopToken \/ Denied \/ Reconnected
         \/ UNCHANGED tokenVars
  PROVE  TokenTypeOK' /\ StoppedIsStill'
<1> USE DEF TokenTypeOK, StoppedIsStill
<1>1. CASE ~stopped /\ StartToken
  BY <1>1 DEF StartToken
<1>2. CASE StopToken
  BY <1>2 DEF StopToken, Stopping
<1>3. CASE Denied
  <2>1. CASE Stopping
    BY <2>1 DEF Stopping
  <2>2. CASE denial' = "asked" /\ UNCHANGED <<timer, stopped>>
    BY <1>3, <2>2 DEF Denied
  <2> QED
    BY <1>3, <2>1, <2>2 DEF Denied
<1>4. CASE Reconnected
  BY <1>4 DEF Reconnected
<1>5. CASE UNCHANGED tokenVars
  BY <1>5 DEF tokenVars
<1> QED
  BY <1>1, <1>2, <1>3, <1>4, <1>5

\* What the settlement of some exchanges does: it starts what is tracked, once.
LEMMA SettledInOrder ==
  ASSUME StreamsTypeOK, StartsInOrder, NEW o, SettleAs(o),
         DOMAIN o \subseteq {x \in Exchanges : settled[x] = "no"},
         \A x \in DOMAIN o : o[x] \in {"completed", "failed"}
  PROVE  /\ settled' \in [Exchanges -> {"no", "completed", "failed"}]
         /\ starting' \in
              [Exchanges -> {"no", "answer", "fetch", "credentials", "nothing", "done"}]
         /\ \A x \in Exchanges : settled'[x] = "no" => starting'[x] = "no"
         /\ \A x \in Exchanges : client[x] # "none" => starting'[x] = "done"
         /\ \A x \in Exchanges :
              starting'[x] = starting[x] \/ (starting[x] = "no" /\ x \in following)
BY DEF SettleAs, FirstStep, StreamsTypeOK, StartsInOrder

\* The client of a tracked exchange stops: with it go its connection, its part of the
\* lease and its place among the streams, and nothing that the others rely on.
LEMMA StopKeepsStreamsInv ==
  ASSUME StreamsInv, NEW x \in Exchanges, Running(x), ClientStops(x),
         UNCHANGED <<over, told, settled, hasAnswer, credentials, started, starting, decided>>,
         reader' = reader \/ reader' = [reader EXCEPT ![x] = "returned"],
         x = Rotating \/ UNCHANGED tokenVars, TokenTypeOK', StoppedIsStill'
  PROVE  StreamsInv'
<1>1. StreamsTypeOK'
  BY DEF StreamsInv, StreamsTypeOK, ClientStops, LeaseWithout
<1>2. StartsInOrder' /\ StartsAreReached' /\ OverIsEmpty'
  BY DEF StreamsInv, StreamsTypeOK, StartsInOrder, StartsAreReached, OverIsEmpty,
         ClientStops, Running
<1>3. RunningIsTracked'
  BY DEF StreamsInv, StreamsTypeOK, RunningIsTracked, ClientStops, Running
<1>4. LeaseFollows'
  BY DEF StreamsInv, StreamsTypeOK, LeaseFollows, ClientStops, LeaseWithout,
         Running
<1>5. TokenFollows'
  <2>1. CASE x = Rotating
    BY <2>1 DEF StreamsInv, StreamsTypeOK, ClientStops, TokenFollows
  <2>2. CASE x # Rotating
    BY <2>2 DEF StreamsInv, StreamsTypeOK, ClientStops, TokenFollows, TokenIdle,
                tokenVars
  <2> QED
    BY <2>1, <2>2
<1> QED
  BY <1>1, <1>2, <1>3, <1>4, <1>5 DEF StreamsInv

\* A step of the rotation that stops no client.
LEMMA RotationKeepsStreamsInv ==
  ASSUME StreamsInv, UNCHANGED <<over, told, following, settled, starting, client, reader, leased, leaseTimer>>,
         connected' \subseteq connected, TokenTypeOK', StoppedIsStill',
         client[Rotating] # "none"
  PROVE  StreamsInv'
BY DEF StreamsInv, StreamsTypeOK, StartsInOrder, StartsAreReached, RunningIsTracked,
       Running, OverIsEmpty,
   LeaseFollows, TokenFollows

LEMMA InitStreamsInv == SessionInit => StreamsInv
BY DEF SessionInit, TokenInit, StreamsInv, StreamsTypeOK, TokenTypeOK, StartsInOrder,
       StartsAreReached, RunningIsTracked,
    Running, OverIsEmpty, LeaseFollows, TokenFollows, TokenIdle, StoppedIsStill

LEMMA NextKeepsStreamsInv ==
  ASSUME StreamsInv, [SessionNext]_(sessionVars)
  PROVE  StreamsInv'
<1>1. ASSUME NEW x \in Exchanges, Answered(x) PROVE StreamsInv'
  BY <1>1 DEF Answered, ends, lease, tokenVars, StreamsInv,
              StreamsTypeOK, TokenTypeOK, StartsInOrder,
     StartsAreReached, RunningIsTracked, Running, OverIsEmpty, LeaseFollows, TokenFollows,
     TokenIdle, StoppedIsStill
<1>2. ASSUME NEW x \in Exchanges, StreamStarted(x) PROVE StreamsInv'
  BY <1>2 DEF StreamStarted, ends, lease, tokenVars, StreamsInv,
              StreamsTypeOK, TokenTypeOK, StartsInOrder,
     StartsAreReached, RunningIsTracked, Running, OverIsEmpty, LeaseFollows, TokenFollows,
     TokenIdle, StoppedIsStill
<1>3. ASSUME NEW x \in Exchanges, Settles(x) PROVE StreamsInv'
  <2>1. PICK o \in {"completed", "failed"} : SettleAs([y \in {x} |-> o])
    BY <1>3 DEF Settles
  <2>2. /\ settled' \in [Exchanges -> {"no", "completed", "failed"}]
        /\ starting' \in
             [Exchanges -> {"no", "answer", "fetch", "credentials", "nothing", "done"}]
        /\ \A y \in Exchanges : settled'[y] = "no" => starting'[y] = "no"
        /\ \A y \in Exchanges : client[y] # "none" => starting'[y] = "done"
        /\ \A y \in Exchanges :
             starting'[y] = starting[y] \/ (starting[y] = "no" /\ y \in following)
    BY <1>3, <2>1, SettledInOrder DEF Settles, StreamsInv
  <2>3. following' = following
    BY <1>3 DEF Settles, Dropped
  <2>4. UNCHANGED <<over, told, client, connected, reader, leased, leaseTimer, tokenVars>>
    BY <1>3 DEF Settles, ends, lease
  <2> QED
    BY <2>2, <2>3, <2>4 DEF tokenVars, StreamsInv, StreamsTypeOK, TokenTypeOK,
                            StartsInOrder, StartsAreReached,
       RunningIsTracked, Running, OverIsEmpty, LeaseFollows, TokenFollows, TokenIdle,
       StoppedIsStill
<1>4. ASSUME NEW x \in Exchanges, AnswerAwaited(x) \/ Fetched(x) PROVE StreamsInv'
  <2>1. /\ starting[x] \in {"answer", "fetch"}
        /\ \E f \in {"fetch", "credentials", "nothing"} :
             starting' = [starting EXCEPT ![x] = f]
        /\ UNCHANGED <<over, told, following, settled, client, connected, reader, leased,
                       leaseTimer, tokenVars>>
    BY <1>4 DEF AnswerAwaited, Fetched, ends, lease
  <2> QED
    BY <2>1 DEF tokenVars, StreamsInv, StreamsTypeOK, TokenTypeOK, StartsInOrder,
                StartsAreReached,
       RunningIsTracked, Running, OverIsEmpty, LeaseFollows, TokenFollows, TokenIdle,
       StoppedIsStill
<1>5. ASSUME NEW x \in Exchanges, Decides(x) PROVE StreamsInv'
  <2>1. /\ starting[x] \in {"nothing", "credentials"} /\ client[x] = "none"
        /\ starting' = [starting EXCEPT ![x] = "done"]
        /\ UNCHANGED <<over, told, settled, connected, reader, leased, leaseTimer>>
    BY <1>5 DEF Decides, lease, StreamsInv, StreamsTypeOK, StartsInOrder
  <2>2. CASE Starts(x)
    <3>1. x \in following /\ reader[x] # "returned"
      BY <2>1, <2>2 DEF Starts, StreamsInv, StartsAreReached
    <3>2. client' = [client EXCEPT ![x] = "running"] /\ following' = following
      BY <1>5, <2>2 DEF Decides
    <3>3. TokenTypeOK' /\ StoppedIsStill' /\ (client'[Rotating] = "none" => TokenIdle')
      <4>1. CASE x = Rotating
        <5>1. StartToken /\ ~stopped
          BY <1>5, <2>1, <2>2, <4>1 DEF Decides, StreamsInv, TokenFollows, TokenIdle
        <5> QED
          BY <3>2, <4>1, <5>1, TokenHandlers DEF StreamsInv, StreamsTypeOK
      <4>2. CASE x # Rotating
        <5>1. UNCHANGED tokenVars
          BY <1>5, <2>2, <4>2 DEF Decides
        <5> QED
          BY <3>2, <4>2, <5>1, TokenHandlers
          DEF StreamsInv, StreamsTypeOK, TokenFollows, TokenIdle, tokenVars
      <4> QED
        BY <4>1, <4>2
    <3> QED
      BY <2>1, <3>1, <3>2, <3>3 DEF StreamsInv, StreamsTypeOK, StartsInOrder, StartsAreReached,
         RunningIsTracked, Running, OverIsEmpty, LeaseFollows, TokenFollows
  <2>3. CASE ~Starts(x)
    <3>1. following' = following \ {x} /\ UNCHANGED <<client, tokenVars>>
      BY <1>5, <2>3 DEF Decides
    <3> QED
      BY <2>1, <3>1 DEF tokenVars, StreamsInv, StreamsTypeOK, TokenTypeOK, StartsInOrder,
                        StartsAreReached,
         RunningIsTracked, Running, OverIsEmpty, LeaseFollows, TokenFollows, TokenIdle,
         StoppedIsStill
  <2> QED
    BY <2>2, <2>3
<1>6. ASSUME NEW x \in Exchanges, ConnectionChanges(x) PROVE StreamsInv'
  <2>1. /\ Running(x)
        /\ UNCHANGED <<over, told, following, settled, starting, client, reader>>
    BY <1>6 DEF ConnectionChanges, exchangeVars
  <2>2. CASE /\ connected' = connected \cup {x}
             /\ leased' = leased \cup {x} /\ leaseTimer' = TRUE
             /\ IF x = Rotating /\ awaiting THEN Reconnected
                ELSE (x = Rotating => ~parked) /\ UNCHANGED tokenVars
    <3>1. TokenTypeOK' /\ StoppedIsStill'
      BY <2>2, TokenHandlers DEF StreamsInv, StreamsTypeOK
    <3>2. TokenFollows'
      <4>1. CASE x = Rotating
        BY <2>1, <4>1 DEF TokenFollows, Running
      <4>2. CASE x # Rotating
        BY <2>1, <2>2, <4>2 DEF TokenFollows, TokenIdle, tokenVars, StreamsInv
      <4> QED
        BY <4>1, <4>2
    <3> QED
      BY <2>1, <2>2, <3>1, <3>2 DEF StreamsInv, StreamsTypeOK, StartsInOrder, StartsAreReached,
         RunningIsTracked, Running, OverIsEmpty, LeaseFollows
  <2>3. CASE connected' = connected \ {x} /\ UNCHANGED <<lease, tokenVars>>
    BY <2>1, <2>3 DEF lease, tokenVars, StreamsInv, StreamsTypeOK, TokenTypeOK,
                      StartsInOrder,
       StartsAreReached, RunningIsTracked, Running, OverIsEmpty, LeaseFollows,
       TokenFollows, TokenIdle, StoppedIsStill
  <2> QED
    BY <1>6, <2>2, <2>3 DEF ConnectionChanges
<1>7. ASSUME NEW x \in Exchanges, AccessDenied(x) PROVE StreamsInv'
  <2>1. Running(x)
    BY <1>7 DEF AccessDenied
  <2>2. CASE x # Rotating
    <3>1. Revoking(x) /\ UNCHANGED tokenVars
      BY <1>7, <2>2 DEF AccessDenied
    <3>2. TokenTypeOK' /\ StoppedIsStill'
      BY <3>1, TokenHandlers DEF StreamsInv, StreamsTypeOK
    <3> QED
      BY <2>1, <3>1, <3>2, StopKeepsStreamsInv DEF Revoking
  <2>3. CASE x = Rotating
    <3>1. TokenTypeOK' /\ StoppedIsStill'
      BY <1>7, <2>3, TokenHandlers DEF AccessDenied, StreamsInv, StreamsTypeOK
    <3>2. CASE Revoking(x)
      BY <2>1, <2>3, <3>1, <3>2, StopKeepsStreamsInv DEF Revoking
    <3>3. CASE connected' = connected \ {x} /\
               UNCHANGED <<over, told, exchangeVars, client, reader, lease>>
      BY <2>1, <2>3, <3>1, <3>3, RotationKeepsStreamsInv DEF exchangeVars, lease,
         Running
    <3> QED
      BY <1>7, <2>3, <3>2, <3>3 DEF AccessDenied
  <2> QED
    BY <2>2, <2>3
<1>8. ASSUME NEW x \in Exchanges, ReaderLearnsOf(x) \/ Reads(x) PROVE StreamsInv'
  <2>1. /\ reader[x] \in {"waits", "reads"}
        /\ \E r \in {"reads", "ended"} : reader' = [reader EXCEPT ![x] = r]
        /\ UNCHANGED <<over, told, following, settled, starting, client, connected, leased,
                       leaseTimer, tokenVars>>
    BY <1>8 DEF ReaderLearnsOf, Reads, exchangeVars, ends, lease
  <2> QED
    BY <2>1 DEF tokenVars, StreamsInv, StreamsTypeOK, TokenTypeOK, StartsInOrder,
                StartsAreReached,
       RunningIsTracked, Running, OverIsEmpty, LeaseFollows, TokenFollows, TokenIdle,
       StoppedIsStill
<1>9. ASSUME NEW x \in Exchanges, Returns(x) PROVE StreamsInv'
  <2>1. /\ reader' = [reader EXCEPT ![x] = "returned"]
        /\ UNCHANGED <<over, told, settled, hasAnswer, credentials, started, starting, decided>>
    BY <1>9 DEF Returns
  <2>2. CASE Running(x)
    <3>1. /\ ClientStops(x)
          /\ IF x = Rotating THEN StopToken ELSE UNCHANGED tokenVars
      BY <1>9, <2>2 DEF Returns
    <3>2. TokenTypeOK' /\ StoppedIsStill'
      BY <3>1, TokenHandlers DEF StreamsInv, StreamsTypeOK
    <3> QED
      BY <2>1, <2>2, <3>1, <3>2, StopKeepsStreamsInv
  <2>3. CASE ~Running(x)
    <3>1. UNCHANGED <<following, client, connected, leased, leaseTimer, tokenVars>>
      BY <1>9, <2>3 DEF Returns, lease
    <3> QED
      BY <2>1, <2>3, <3>1 DEF tokenVars, StreamsInv, StreamsTypeOK, TokenTypeOK,
                              StartsInOrder,
         StartsAreReached, RunningIsTracked, Running, OverIsEmpty, LeaseFollows,
         TokenFollows, TokenIdle, StoppedIsStill
  <2> QED
    BY <2>2, <2>3
<1>10. CASE Rotates
  <2>1. TokenTypeOK' /\ StoppedIsStill' /\ ~TokenIdle
    BY <1>10, TokenSteps DEF Rotates, StreamsInv, StreamsTypeOK
  <2>2. client[Rotating] # "none"
    BY <2>1 DEF StreamsInv, TokenFollows
  <2>3. CASE Revoking(Rotating) /\ Running(Rotating)
    BY <2>1, <2>3, StopKeepsStreamsInv, RotatingAssumption DEF Revoking
  <2>4. CASE UNCHANGED <<over, told, exchangeVars, ends, reader, lease>>
    BY <2>1, <2>2, <2>4, RotationKeepsStreamsInv DEF exchangeVars, ends, lease
  <2> QED
    BY <1>10, <2>3, <2>4 DEF Rotates
<1>11. CASE SessionEnds
  <2> DEFINE unsettled == {x \in Exchanges : settled[x] = "no"}
  <2>1. PICK o \in [unsettled -> {"completed", "failed"}] : SettleAs(o)
    BY <1>11 DEF SessionEnds
  <2>2. /\ settled' \in [Exchanges -> {"no", "completed", "failed"}]
        /\ starting' \in
             [Exchanges -> {"no", "answer", "fetch", "credentials", "nothing", "done"}]
        /\ \A y \in Exchanges : settled'[y] = "no" => starting'[y] = "no"
        /\ \A y \in Exchanges : client[y] # "none" => starting'[y] = "done"
        /\ \A y \in Exchanges :
             starting'[y] = starting[y] \/ (starting[y] = "no" /\ y \in following)
    BY <2>1, SettledInOrder DEF StreamsInv
  <2>3. /\ over' = TRUE /\ told' = told \cup following
        /\ client' = [x \in Exchanges |->
             IF x \in following /\ Running(x) THEN "ended" ELSE client[x]]
        /\ connected' = connected \ following
        /\ following' = {} /\ leased' = {} /\ leaseTimer' = FALSE /\ reader' = reader
    BY <1>11 DEF SessionEnds, Dropped
  <2>4. IF Rotating \in following /\ Running(Rotating) THEN StopToken ELSE UNCHANGED tokenVars
    BY <1>11 DEF SessionEnds, Dropped
  <2>5. TokenTypeOK' /\ StoppedIsStill'
    BY <2>4, TokenHandlers DEF StreamsInv, StreamsTypeOK
  <2>6. TokenFollows'
    <3>1. CASE Rotating \in following /\ Running(Rotating)
      BY <2>3, <3>1, RotatingAssumption DEF TokenFollows
    <3>2. CASE ~(Rotating \in following /\ Running(Rotating))
      BY <2>3, <2>4, <3>2, RotatingAssumption
         DEF TokenFollows, TokenIdle, tokenVars, StreamsInv
    <3> QED
      BY <3>1, <3>2
  <2>7. \A x \in Exchanges : client'[x] # "running"
    BY <2>3 DEF StreamsInv, StreamsTypeOK, RunningIsTracked, Running
  <2>8. connected' = {}
    BY <2>3 DEF StreamsInv, StreamsTypeOK, RunningIsTracked, LeaseFollows
  <2>9. StreamsTypeOK'
    BY <2>2, <2>3, <2>5 DEF StreamsInv, StreamsTypeOK, Running
  <2> QED
    BY <2>2, <2>3, <2>5, <2>6, <2>7, <2>8, <2>9 DEF StreamsInv, StreamsTypeOK, StartsInOrder,
       StartsAreReached, RunningIsTracked, Running, OverIsEmpty, LeaseFollows
<1>12. CASE UNCHANGED sessionVars
  BY <1>12 DEF sessionVars, exchangeVars, ends, lease, tokenVars,
               StreamsInv, StreamsTypeOK, TokenTypeOK, StartsInOrder,
     StartsAreReached, RunningIsTracked, Running, OverIsEmpty, LeaseFollows, TokenFollows,
     TokenIdle, StoppedIsStill
<1> QED
  BY <1>1, <1>2, <1>3, <1>4, <1>5, <1>6, <1>7, <1>8, <1>9, <1>10, <1>11, <1>12 DEF SessionNext

LEMMA StreamsInvAlways == SessionSpec => []StreamsInv
<1>1. SessionInit => StreamsInv
  BY InitStreamsInv
<1>2. StreamsInv /\ [SessionNext]_(sessionVars) => StreamsInv'
  BY NextKeepsStreamsInv
<1> QED
  BY <1>1, <1>2, PTL DEF SessionSpec

-----------------------------------------------------------------------------
\* No client runs on a session that has ended nor for a reader that has left, and no
\* timer of the rotation outlives its client, whichever wait the start or the refresh was in
\* when the session ended, the reader returned or the access was denied.
THEOREM NothingEverOutlives == SessionSpec => []NothingOutlives
<1>1. StreamsInv => NothingOutlives
  BY DEF StreamsInv, NothingOutlives, RunningIsTracked, OverIsEmpty, StoppedIsStill
<1>2. SessionSpec => []StreamsInv
  BY StreamsInvAlways
<1> QED
  BY <1>1, <1>2, PTL

\* ... and the beacon of the lease goes on as long as a client is connected.
THEOREM ClientsStayInStep == SessionSpec => []ClientsInStep
<1>1. StreamsInv => NothingOutlives
  BY DEF StreamsInv, NothingOutlives, RunningIsTracked, OverIsEmpty, StoppedIsStill
<1>2. StreamsInv => LeaseHeld
  BY DEF StreamsInv, LeaseFollows, LeaseHeld
<1>3. StreamsInv => ClientsInStep
  BY <1>1, <1>2 DEF ClientsInStep
<1>4. SessionSpec => []StreamsInv
  BY StreamsInvAlways
<1> QED
  BY <1>3, <1>4, PTL
=============================================================================
