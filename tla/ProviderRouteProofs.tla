------------------------- MODULE ProviderRouteProofs -------------------------
(***************************************************************************)
(* The provider's runtime and the checkpoint loop of its route, proved for *)
(* every set of sessions and probes and every bound: the runtime has one   *)
(* way to a route and keeps to its seats, and what the backend is told of  *)
(* a route is in step with what happened on it.                            *)
(***************************************************************************)
EXTENDS ProviderRoute, SequenceTheorems, FiniteSetTheorems, TLAPS

-----------------------------------------------------------------------------
(* The loop alone, with N events recorded on its route.                      *)

BatchTypes == [events : Seq(Nat), echoes : SUBSET Nonces, open : SUBSET SessionIds]

LoopTypes ==
    [pending : Seq(Nat), echoes : SUBSET Nonces, batches : Seq(BatchTypes),
     acked : Nat, flushing : BOOLEAN, posting : Nat, flushAgain : BOOLEAN,
     stopped : BOOLEAN, held : BOOLEAN]

Cut(p) == 1..Len(p.batches)
Places(p, b) == 1..Len(p.batches[b].events)
Holds(p, b, n) == \E i \in Places(p, b) : p.batches[b].events[i] = n

\* What is pending is what was recorded last; what came before it has been cut, in
\* the order recorded.
EventsAreCut(p, N) ==
    /\ Len(p.pending) <= N
    /\ \A i \in 1..Len(p.pending) : p.pending[i] = N - Len(p.pending) + i
    /\ \A n \in 1..(N - Len(p.pending)) : \E b \in Cut(p) : Holds(p, b, n)
    /\ \A b \in Cut(p) : \A i \in Places(p, b) :
         p.batches[b].events[i] \in 1..(N - Len(p.pending))

BatchesInOrder(p) ==
    /\ \A b \in Cut(p) : \A i, j \in Places(p, b) :
         i < j => p.batches[b].events[i] < p.batches[b].events[j]
    /\ \A a, b \in Cut(p) : a < b =>
         \A i \in Places(p, a), j \in Places(p, b) : p.batches[a].events[i] < p.batches[b].events[j]

LoopData(p, N) == p \in LoopTypes /\ EventsAreCut(p, N) /\ BatchesInOrder(p)

\* The post awaited is that of the first batch not answered, and a drain that waits
\* was neither stopped nor held.
Posts(p) ==
    /\ p.acked <= Len(p.batches)
    /\ p.posting # Heartbeat => p.posting = p.acked + 1 /\ p.posting <= Len(p.batches)
    /\ p.flushing => ~p.stopped /\ ~p.held

\* The backend has applied exactly the events of the batches se of p, in order.
AppliedOf(p, ap, se) ==
    /\ \A i \in 1..Len(ap) : \E b \in se : Holds(p, b, ap[i])
    /\ \A b \in se : \A i \in Places(p, b) : \E j \in 1..Len(ap) : ap[j] = p.batches[b].events[i]
    /\ \A i, j \in 1..Len(ap) : i < j => ap[i] < ap[j]

-----------------------------------------------------------------------------
(* The inductive invariant.                                                  *)

RouteTypes ==
    [no : Nat, open : BOOLEAN, sub : {"none", "joining", "joined", "denied"}, up : BOOLEAN,
     connectTimer : BOOLEAN, tokenTimer : BOOLEAN, rotating : BOOLEAN,
     refreshing : BOOLEAN, refreshed : BOOLEAN]

\* The variables the argument is about keep their types.
TypeOK ==
    /\ loop \in LoopTypes
    /\ status \in [SessionIds -> Statuses]
    /\ events \in Seq(Events)
    /\ applied \in Seq(Nat)
    /\ seen \in SUBSET Nat /\ wandering \in SUBSET Nat /\ dropped \in SUBSET Nat
    /\ phase \in {"off", "started", "tasks_only", "stopped"}
    /\ registering \in Nat /\ retrying \in BOOLEAN
    /\ route \in RouteTypes
    /\ opening \in SUBSET SessionIds

\* The runtime has one way to a route while it is to serve, and none while it serves
\* tasks only; a stopped one may still hear of what it had begun.
OneWay ==
    LET ways == registering + (IF retrying THEN 1 ELSE 0) + (IF route.open THEN 1 ELSE 0) IN
    /\ phase = "started" => ways = 1
    /\ phase \in {"off", "tasks_only"} => ways = 0
    /\ phase = "stopped" => ~route.open

\* Without a route nothing is under way: no timers, no client, no loop that posts or
\* waits, no session and nothing recorded or on its way to the backend.
ClosedIsIdle ==
    ~route.open => /\ route = NoRoute(route.no)
                   /\ ~loop.flushing /\ ~loop.held
                   /\ events = <<>> /\ applied = <<>>
                   /\ seen \cup wandering \cup dropped = {}
                   /\ opening = {} /\ \A x \in SessionIds : status[x] = "new"

OpenIsAttended ==
    route.open => /\ route.up \/ route.connectTimer
                  /\ route.tokenTimer \/ route.rotating
                  /\ ~loop.stopped

\* A session that is looked up has not begun, one whose end is recorded is over, and
\* the ones in progress are no more than the seats.
SessionsInOrder ==
    /\ \A x \in opening : status[x] = "new"
    /\ \A n \in 1..Len(events) : events[n].kind = "end" => status[events[n].x] = "ended"
    /\ IsFiniteSet(LiveSessions) /\ SeatsRespected

\* The backend has answered for every batch before the one under post, has nothing of
\* the ones behind it, and has applied exactly the events of those it has seen.
BackendFollows ==
    /\ 1..loop.acked \subseteq seen \cup dropped
    /\ \A b \in seen \cup dropped \cup wandering : b \in 1..(loop.acked + 1) /\ b \in Cut(loop)
    /\ AppliedOf(loop, applied, seen)

LoopInv ==
    /\ LoopData(loop, Len(events)) /\ Posts(loop)
    /\ BackendFollows /\ OpenAreNotEnded /\ EndIsSentAtOnce

IInv == TypeOK /\ OneWay /\ ClosedIsIdle /\ OpenIsAttended /\ SessionsInOrder /\ LoopInv

-----------------------------------------------------------------------------
(* Cutting a sequence into pieces of at most MaxBatch.                       *)

LEMMA TimesGrows ==
    ASSUME NEW d \in Nat \ {0}, NEW a \in Nat, NEW b \in Nat
    PROVE  /\ a * d \in Nat
           /\ (a + 1) * d = a * d + d
           /\ a < b => a * d + d <= b * d
           /\ a * d < b * d => a < b
    <1>1. a * d \in Nat /\ (a + 1) * d = a * d + d
        OBVIOUS
    <1>2. a < b => a * d + d <= b * d
        <2> SUFFICES ASSUME a < b PROVE a * d + d <= b * d
            OBVIOUS
        <2> DEFINE c == b - a - 1
        <2>1. c \in Nat /\ b = a + 1 + c
            OBVIOUS
        <2>2. c * d \in Nat
            BY <2>1
        <2> HIDE DEF c
        <2>3. b * d = a * d + d + c * d
            BY <2>1
        <2> QED
            BY <2>2, <2>3
    <1>3. a * d < b * d => a < b
        <2> SUFFICES ASSUME b <= a PROVE b * d <= a * d
            OBVIOUS
        <2> DEFINE c == a - b
        <2>1. c \in Nat /\ a = b + c
            OBVIOUS
        <2>2. c * d \in Nat /\ b * d \in Nat
            BY <2>1
        <2> HIDE DEF c
        <2>3. a * d = b * d + c * d
            BY <2>1
        <2> QED
            BY <2>2, <2>3
    <1> QED
        BY <1>1, <1>2, <1>3

LEMMA Division ==
    ASSUME NEW a \in Nat, NEW d \in Nat \ {0}
    PROVE  a \div d \in Nat /\ (a \div d) * d <= a /\ a < (a \div d) * d + d
    OBVIOUS

\* A piece of a sequence: at most m of its elements, behind the first d.
LEMMA PieceOf ==
    ASSUME NEW s \in Seq(Nat), NEW d \in Nat, NEW m \in Nat \ {0}
    PROVE  LET e == Take(DropFirst(s, d), m) IN
           /\ e \in Seq(Nat) /\ Len(e) \in Nat
           /\ Len(e) <= m /\ (Len(e) > 0 => d + Len(e) <= Len(s))
           /\ \A i \in 1..Len(e) : e[i] = s[d + i]
           /\ \A j \in 1..m : d + j <= Len(s) => j <= Len(e)
    <1> DEFINE t == DropFirst(s, d)
               e == Take(t, m)
    <1>1. /\ t \in Seq(Nat) /\ Len(t) \in Nat
          /\ Len(t) = IF Len(s) <= d THEN 0 ELSE Len(s) - d
          /\ \A i \in 1..Len(t) : t[i] = s[d + i]
        BY DEF DropFirst
    <1> HIDE DEF t
    <1>2. /\ e \in Seq(Nat) /\ Len(e) \in Nat
          /\ Len(e) = IF Len(t) <= m THEN Len(t) ELSE m
          /\ \A i \in 1..Len(e) : e[i] = t[i]
        <2>1. CASE Len(t) <= m
            BY <1>1, <2>1 DEF Take
        <2>2. CASE ~(Len(t) <= m)
            <3>1. e = SubSeq(t, 1, m)
                BY <2>2 DEF Take
            <3>2. \A i \in 1..m : t[i] \in Nat
                BY <1>1, <2>2
            <3>3. /\ e \in Seq(Nat) /\ Len(e) = m
                  /\ \A i \in 1..m : e[i] = t[1 + i - 1]
                <4>1. /\ SubSeq(t, 1, m) \in Seq(Nat)
                      /\ Len(SubSeq(t, 1, m)) = IF 1 <= m THEN m - 1 + 1 ELSE 0
                      /\ \A i \in 1..(m - 1 + 1) : SubSeq(t, 1, m)[i] = t[1 + i - 1]
                    BY <3>2, SubSeqProperties
                <4>2. 1 <= m /\ m - 1 + 1 = m
                    OBVIOUS
                <4> HIDE DEF e
                <4> QED
                    BY ONLY <3>1, <4>1, <4>2
            <3> QED
                BY <1>1, <2>2, <3>3
        <2> QED
            BY <2>1, <2>2
    <1> HIDE DEF e
    <1>3. /\ e \in Seq(Nat) /\ Len(e) \in Nat
          /\ Len(e) <= m /\ (Len(e) > 0 => d + Len(e) <= Len(s))
          /\ \A i \in 1..Len(e) : e[i] = s[d + i]
          /\ \A j \in 1..m : d + j <= Len(s) => j <= Len(e)
        <2>1. Len(s) \in Nat /\ Len(e) <= m /\ Len(e) <= Len(t)
            BY <1>1, <1>2
        <2>2. Len(e) > 0 => d + Len(e) <= Len(s)
            BY <1>1, <1>2, <2>1
        <2>3. \A i \in 1..Len(e) : e[i] = s[d + i]
            BY <1>1, <1>2, <2>1
        <2>4. \A j \in 1..m : d + j <= Len(s) => j <= Len(e)
            BY <1>1, <1>2, <2>1
        <2> QED
            BY <1>2, <2>1, <2>2, <2>3, <2>4
    <1> QED
        BY <1>3 DEF e, t

\* Every place up to n falls into one of the pieces of m places.
LEMMA PiecesCover ==
    ASSUME NEW n \in Nat, NEW m \in Nat \ {0}, NEW j \in 1..n
    PROVE  /\ CeilDiv(n, m) \in Nat
           /\ \E k \in 1..CeilDiv(n, m) : (k - 1) * m \in Nat /\ j - (k - 1) * m \in 1..m
    <1> DEFINE c == (n + m - 1) \div m
               q == (j - 1) \div m
    <1>1. n + m - 1 \in Nat /\ j - 1 \in Nat
        OBVIOUS
    <1>2. c \in Nat /\ n + m - 1 < c * m + m
        BY <1>1, Division
    <1>3. q \in Nat /\ q * m <= j - 1 /\ j - 1 < q * m + m
        BY <1>1, Division
    <1> HIDE DEF c, q
    <1>4. q * m \in Nat /\ c * m \in Nat
        BY <1>2, <1>3, TimesGrows
    <1>5. q * m < c * m
        BY <1>2, <1>3, <1>4
    <1>6. q < c
        BY <1>2, <1>3, <1>5, TimesGrows
    <1>7. q + 1 \in 1..c /\ (q + 1) - 1 = q /\ j - q * m \in 1..m
        BY <1>2, <1>3, <1>4, <1>6
    <1>8. \E k \in 1..c : (k - 1) * m \in Nat /\ j - (k - 1) * m \in 1..m
        BY <1>4, <1>7
    <1> QED
        BY <1>2, <1>8 DEF c, CeilDiv

-----------------------------------------------------------------------------
(* The functions of the loop.                                                *)

\* q has the batches of p and perhaps more, which list what is open now.
Extends(p, q) ==
    /\ Len(p.batches) <= Len(q.batches)
    /\ \A b \in Cut(p) : q.batches[b] = p.batches[b]
    /\ \A b \in Cut(q) \ Cut(p) : q.batches[b].open = LiveSessions

SameControl(p, q) ==
    /\ q.acked = p.acked /\ q.flushing = p.flushing /\ q.posting = p.posting
    /\ q.flushAgain = p.flushAgain /\ q.stopped = p.stopped /\ q.held = p.held

\* Cutting leaves nothing pending and every event recorded in a batch, in order.
LEMMA CutFacts ==
    ASSUME NEW N \in Nat, NEW p, LoopData(p, N)
    PROVE  /\ LoopData(CutBatches(p), N) /\ CutBatches(p).pending = <<>>
           /\ Extends(p, CutBatches(p)) /\ SameControl(p, CutBatches(p))
    <1> DEFINE L == Len(p.pending)
               m == Len(p.batches)
               n == IF CeilDiv(L, MaxBatch) = 0 /\ p.echoes # {} THEN 1 ELSE CeilDiv(L, MaxBatch)
               at(k) == (k - 1) * MaxBatch
               piece(k) == Take(DropFirst(p.pending, at(k)), MaxBatch)
               batch(k) == [events |-> piece(k), echoes |-> IF k = 1 THEN p.echoes ELSE {},
                            open |-> LiveSessions]
               new == [k \in 1..n |-> batch(k)]
               q == CutBatches(p)
    <1>1. /\ p \in LoopTypes /\ p.pending \in Seq(Nat) /\ p.batches \in Seq(BatchTypes)
          /\ L \in Nat /\ m \in Nat /\ L <= N /\ p.echoes \in SUBSET Nonces
        BY DEF LoopData, LoopTypes, EventsAreCut
    <1>2. MaxBatch \in Nat \ {0} /\ LiveSessions \in SUBSET SessionIds
        BY MaxBatchAssumption DEF LiveSessions
    <1>3. n \in Nat /\ CeilDiv(L, MaxBatch) \in Nat /\ n >= CeilDiv(L, MaxBatch)
        <2>1. L + MaxBatch - 1 \in Nat
            BY <1>1, <1>2
        <2>2. CeilDiv(L, MaxBatch) \in Nat
            BY <2>1, <1>2, Division DEF CeilDiv
        <2> QED
            BY <2>2
    <1>4. \A k \in 1..n : at(k) \in Nat
        <2> TAKE k \in 1..n
        <2>1. k - 1 \in Nat
            BY <1>3
        <2> QED
            BY <2>1, <1>2, TimesGrows
    <1>5. \A k \in 1..n :
            /\ piece(k) \in Seq(Nat) /\ Len(piece(k)) \in Nat
            /\ Len(piece(k)) <= MaxBatch /\ (Len(piece(k)) > 0 => at(k) + Len(piece(k)) <= L)
            /\ \A i \in 1..Len(piece(k)) : piece(k)[i] = p.pending[at(k) + i]
            /\ \A j \in 1..MaxBatch : at(k) + j <= L => j <= Len(piece(k))
        <2> TAKE k \in 1..n
        <2>1. at(k) \in Nat
            BY <1>4
        <2> HIDE DEF at
        <2> QED
            BY <2>1, <1>1, <1>2, PieceOf
    <1>6. \A k \in 1..n : batch(k) \in BatchTypes
        <2> HIDE DEF piece
        <2> QED
            BY <1>1, <1>2, <1>5 DEF BatchTypes
    <1>7. /\ new \in Seq(BatchTypes) /\ Len(new) = n
          /\ \A k \in 1..n : new[k] = batch(k)
        <2> HIDE DEF batch
        <2>1. new \in [1..n -> BatchTypes]
            BY <1>6
        <2> QED
            BY <2>1, <1>3
    <1>8. q = [p EXCEPT !.batches = p.batches \o new, !.pending = <<>>, !.echoes = {}]
        BY DEF CutBatches
    <1> HIDE DEF new, batch, piece, at, n, m, L
    <1>9. /\ q \in LoopTypes /\ q.pending = <<>> /\ Len(q.pending) = 0
          /\ q.batches = p.batches \o new /\ SameControl(p, q)
        <2> HIDE DEF q
        <2>1. p.batches \o new \in Seq(BatchTypes)
            BY <1>1, <1>7
        <2> QED
            <3>1. PICK bs \in Seq(BatchTypes) : bs = p.batches \o new
                BY <2>1
            <3>2. q = [p EXCEPT !.batches = bs, !.pending = <<>>, !.echoes = {}]
                BY <1>8, <3>1
            <3>3. q \in LoopTypes
                BY ONLY <1>1, <3>1, <3>2, EmptySeq DEF LoopTypes
            <3>4. q.pending = <<>> /\ q.batches = bs /\ SameControl(p, q)
                BY ONLY <1>1, <3>1, <3>2 DEF LoopTypes, SameControl
            <3>5. Len(q.pending) = 0
                BY <3>4
            <3> QED
                BY <3>1, <3>3, <3>4, <3>5
    <1> HIDE DEF q
    <1>10. /\ Len(q.batches) = m + n
           /\ \A b \in 1..m : q.batches[b] = p.batches[b]
           /\ \A b \in (m + 1)..(m + n) : q.batches[b] = batch(b - m)
        <2>1. /\ Len(q.batches) = m + n
              /\ \A b \in 1..(m + n) : q.batches[b] = IF b <= m THEN p.batches[b] ELSE new[b - m]
            <3>1. /\ Len(p.batches \o new) = Len(p.batches) + Len(new)
                  /\ \A b \in 1..(Len(p.batches) + Len(new)) :
                       (p.batches \o new)[b] = IF b <= Len(p.batches) THEN p.batches[b]
                                               ELSE new[b - Len(p.batches)]
                BY <1>1, <1>7, ConcatProperties
            <3> QED
                BY <3>1, <1>7, <1>9 DEF m
        <2>2. \A b \in (m + 1)..(m + n) : b - m \in 1..n /\ ~(b <= m) /\ b \in 1..(m + n)
            BY <1>1, <1>3
        <2>3. \A b \in 1..m : b \in 1..(m + n)
            BY <1>1, <1>3
        <2> QED
            BY <2>1, <2>2, <2>3, <1>1, <1>7
    <1>11. Extends(p, q)
        <2>1. \A k \in 1..n : batch(k).open = LiveSessions
            BY DEF batch
        <2> QED
            <3>1. \A b \in Cut(q) \ Cut(p) : b \in (m + 1)..(m + n) /\ b - m \in 1..n
                BY <1>1, <1>3, <1>10 DEF Cut, m
            <3>2. m <= Len(q.batches)
                BY <1>1, <1>3, <1>10
            <3> QED
                BY <2>1, <3>1, <3>2, <1>10 DEF Extends, Cut, m
    \* The events of a new batch.
    <1>12. \A b \in (m + 1)..(m + n) :
             /\ b - m \in 1..n /\ Len(q.batches[b].events) = Len(piece(b - m))
             /\ \A i \in Places(q, b) :
                  /\ i \in 1..MaxBatch /\ at(b - m) + i <= L
                  /\ q.batches[b].events[i] = N - L + at(b - m) + i
        <2> TAKE b \in (m + 1)..(m + n)
        <2> DEFINE k == b - m
        <2>1. k \in 1..n /\ q.batches[b] = batch(k)
            BY <1>1, <1>3, <1>10
        <2>2. q.batches[b].events = piece(k)
            BY <2>1 DEF batch
        <2>3. \A i \in 1..L : p.pending[i] = N - L + i
            BY DEF LoopData, EventsAreCut, L
        <2>4. at(k) \in Nat
            BY <1>4, <2>1
        <2> HIDE DEF k, piece, at
        <2>5. \A i \in 1..Len(piece(k)) :
                /\ i \in 1..MaxBatch /\ at(k) + i \in 1..L /\ piece(k)[i] = p.pending[at(k) + i]
            <3>1. /\ Len(piece(k)) \in Nat /\ Len(piece(k)) <= MaxBatch
                  /\ (Len(piece(k)) > 0 => at(k) + Len(piece(k)) <= L)
                  /\ \A i \in 1..Len(piece(k)) : piece(k)[i] = p.pending[at(k) + i]
                BY <2>1, <1>5
            <3>2. \A i \in 1..Len(piece(k)) : i \in 1..MaxBatch /\ at(k) + i \in 1..L
                BY <3>1, <2>4, <1>1, <1>2
            <3> QED
                BY <3>1, <3>2
        <2>6. \A i \in 1..Len(piece(k)) : p.pending[at(k) + i] = N - L + at(k) + i
            BY <2>3, <2>4, <2>5, <1>1
        <2>7. \A i \in Places(q, b) :
                  /\ i \in 1..MaxBatch /\ at(k) + i <= L
                  /\ q.batches[b].events[i] = N - L + at(k) + i
            BY <2>2, <2>5, <2>6, <1>1 DEF Places
        <2> QED
            BY <2>1, <2>2, <2>7 DEF k
    <1>13. EventsAreCut(q, N)
        <2>1. \A b \in Cut(q) : \A i \in Places(q, b) : q.batches[b].events[i] \in 1..N
            <3> TAKE b \in Cut(q)
            <3> TAKE i \in Places(q, b)
            <3>1. CASE b \in 1..m
                <4>1. q.batches[b] = p.batches[b] /\ i \in Places(p, b)
                    BY <3>1, <1>10 DEF Places
                <4>2. p.batches[b].events[i] \in 1..(N - L)
                    BY <4>1, <3>1 DEF LoopData, EventsAreCut, L, Cut, m
                <4> QED
                    BY <4>1, <4>2, <1>1
            <3>2. CASE b \in (m + 1)..(m + n)
                <4>1. /\ q.batches[b].events[i] = N - L + at(b - m) + i /\ i \in Nat /\ i >= 1
                      /\ at(b - m) + i <= L /\ at(b - m) \in Nat
                    BY <3>2, <1>2, <1>4, <1>12
                <4> HIDE DEF at
                <4> QED
                    BY <4>1, <1>1
            <3> QED
                BY <3>1, <3>2, <1>1, <1>3, <1>10 DEF Cut, m
        <2>2. \A x \in 1..N : \E b \in Cut(q) : Holds(q, b, x)
            <3> TAKE x \in 1..N
            <3>1. CASE x \in 1..(N - L)
                <4>1. PICK b \in 1..m : Holds(p, b, x)
                    BY <3>1 DEF LoopData, EventsAreCut, L, Cut, m
                <4> QED
                    <5>1. b \in Cut(q) /\ q.batches[b] = p.batches[b]
                        BY <1>1, <1>3, <1>10 DEF Cut
                    <5>2. Holds(q, b, x)
                        BY <4>1, <5>1 DEF Holds, Places
                    <5> QED
                        BY <5>1, <5>2
            <3>2. CASE x \in (N - L + 1)..N
                <4> DEFINE j == x - (N - L)
                <4>1. j \in 1..L
                    BY <3>2, <1>1
                <4> HIDE DEF j
                <4>2. PICK k \in 1..CeilDiv(L, MaxBatch) : at(k) \in Nat /\ j - at(k) \in 1..MaxBatch
                    BY <4>1, <1>1, <1>2, PiecesCover DEF at
                <4>3. k \in 1..n /\ m + k \in (m + 1)..(m + n) /\ (m + k) - m = k
                    BY <1>1, <1>3
                <4> DEFINE i == j - at(k)
                <4>4. i \in 1..MaxBatch /\ at(k) + i = j /\ at(k) + i <= L
                    BY <4>1, <4>2, <1>1
                <4> HIDE DEF i, at, piece
                <4>5. i \in 1..Len(piece(k))
                    BY <4>3, <4>4, <1>5
                <4>6. i \in Places(q, m + k)
                    BY <4>3, <4>5, <1>12 DEF Places
                <4>7. q.batches[m + k].events[i] = N - L + at(k) + i
                    BY <4>3, <4>6, <1>12
                <4>8. N - L + at(k) + i = x
                    BY <4>2, <4>4, <1>1 DEF j
                <4> QED
                    <5>1. m + k \in Cut(q)
                        BY <4>3, <1>1, <1>3, <1>10 DEF Cut
                    <5>2. Holds(q, m + k, x)
                        BY <4>6, <4>7, <4>8 DEF Holds
                    <5> QED
                        BY <5>1, <5>2
            <3> QED
                BY <3>1, <3>2, <1>1
        <2> QED
            <3>1. N - Len(q.pending) = N /\ Len(q.pending) <= N /\ 1..Len(q.pending) = {}
                BY <1>9
            <3> QED
                BY <2>1, <2>2, <3>1 DEF EventsAreCut
    <1>14. BatchesInOrder(q)
        <2>1. ASSUME NEW b \in Cut(q), NEW i \in Places(q, b), NEW j \in Places(q, b), i < j
              PROVE  q.batches[b].events[i] < q.batches[b].events[j]
            <3>1. CASE b \in 1..m
                BY <2>1, <3>1, <1>10 DEF LoopData, BatchesInOrder, Cut, Places, m
            <3>2. CASE b \in (m + 1)..(m + n)
                <4>1. /\ q.batches[b].events[i] = N - L + at(b - m) + i /\ i \in Nat
                      /\ q.batches[b].events[j] = N - L + at(b - m) + j /\ j \in Nat
                      /\ at(b - m) \in Nat
                    BY <3>2, <1>2, <1>4, <1>12
                <4> HIDE DEF at
                <4> QED
                    BY <4>1, <2>1, <1>1
            <3> QED
                BY <3>1, <3>2, <1>1, <1>3, <1>10 DEF Cut, m
        <2>2. ASSUME NEW a \in Cut(q), NEW b \in Cut(q), a < b,
                     NEW i \in Places(q, a), NEW j \in Places(q, b)
              PROVE  q.batches[a].events[i] < q.batches[b].events[j]
            <3>1. CASE a \in 1..m /\ b \in 1..m
                BY <2>2, <3>1, <1>10 DEF LoopData, BatchesInOrder, Cut, Places, m
            <3>2. CASE a \in 1..m /\ b \in (m + 1)..(m + n)
                <4>1. q.batches[a].events[i] \in 1..(N - L)
                    BY <3>2, <1>10 DEF LoopData, EventsAreCut, L, Cut, Places, m
                <4>2. /\ q.batches[b].events[j] = N - L + at(b - m) + j
                      /\ j \in Nat /\ j >= 1 /\ at(b - m) \in Nat
                    BY <3>2, <1>2, <1>4, <1>12
                <4> HIDE DEF at
                <4> QED
                    BY <4>1, <4>2, <1>1
            <3>3. CASE a \in (m + 1)..(m + n) /\ b \in (m + 1)..(m + n)
                <4>1. /\ q.batches[a].events[i] = N - L + at(a - m) + i /\ i \in 1..MaxBatch
                      /\ q.batches[b].events[j] = N - L + at(b - m) + j /\ j \in 1..MaxBatch
                      /\ at(a - m) \in Nat /\ at(b - m) \in Nat
                    BY <3>3, <1>4, <1>12
                <4>2. at(a - m) + MaxBatch <= at(b - m)
                    <5>1. a - m - 1 \in Nat /\ b - m - 1 \in Nat /\ a - m - 1 < b - m - 1
                        BY <3>3, <2>2, <1>1, <1>3
                    <5> QED
                        BY <5>1, <1>2, TimesGrows DEF at
                <4> HIDE DEF at
                <4> QED
                    BY <4>1, <4>2, <1>1, <1>2
            <3> QED
                <4>1. m \in Nat /\ n \in Nat /\ Cut(q) = 1..(m + n)
                    BY <1>1, <1>3, <1>10 DEF Cut, m
                <4>2. /\ a \in 1..(m + n) /\ b \in 1..(m + n) /\ a < b
                    BY <4>1, <2>2
                <4> HIDE DEF m, n
                <4>3. /\ a \in 1..m \/ a \in (m + 1)..(m + n)
                      /\ b \in 1..m \/ b \in (m + 1)..(m + n)
                      /\ b \in 1..m => a \in 1..m
                    BY ONLY <4>1, <4>2
                <4> QED
                    BY ONLY <3>1, <3>2, <3>3, <4>3
        <2> QED
            BY <2>1, <2>2 DEF BatchesInOrder
    <1> QED
        BY <1>9, <1>11, <1>13, <1>14 DEF LoopData, q

\* What a loop holds is what its events and its batches say.
LEMMA SameData ==
    ASSUME NEW N, NEW p, LoopData(p, N), NEW q \in LoopTypes,
           q.pending = p.pending, q.batches = p.batches
    PROVE  LoopData(q, N) /\ Extends(p, q)
    <1>1. EventsAreCut(q, N)
        BY DEF LoopData, EventsAreCut, Cut, Holds, Places
    <1>2. BatchesInOrder(q)
        BY DEF LoopData, BatchesInOrder, Cut, Places
    <1>3. Extends(p, q)
        BY DEF LoopData, LoopTypes, Extends, Cut
    <1> QED
        BY <1>1, <1>2, <1>3 DEF LoopData

\* q goes on from p with the same events.
Onward(p, q, N) ==
    LoopData(q, N) /\ Posts(q) /\ Extends(p, q) /\ q.stopped = p.stopped

LEMMA SendNextFacts ==
    ASSUME NEW N, NEW p, LoopData(p, N), p.acked <= Len(p.batches)
    PROVE  /\ Onward(p, SendNext(p), N) /\ SendNext(p).pending = p.pending
           /\ SendNext(p).batches = p.batches /\ SendNext(p).acked = p.acked
           /\ SendNext(p).flushAgain = p.flushAgain /\ SendNext(p).held = p.held
           /\ ~p.stopped /\ ~p.held => SendNext(p).flushing
    <1> DEFINE q == SendNext(p)
    <1>1. p \in LoopTypes /\ Len(p.batches) \in Nat
        BY DEF LoopData, LoopTypes
    <1>2. /\ q \in LoopTypes /\ q.pending = p.pending /\ q.batches = p.batches
          /\ q.acked = p.acked /\ q.stopped = p.stopped /\ q.held = p.held
          /\ q.flushAgain = p.flushAgain
          /\ q.flushing = IF p.stopped \/ p.held THEN FALSE ELSE TRUE
          /\ q.posting # Heartbeat =>
               q.posting = p.acked + 1 /\ p.acked < Len(p.batches) /\ ~(p.stopped \/ p.held)
        <2>1. CASE p.stopped \/ p.held
            <3>1. q = [p EXCEPT !.flushing = FALSE, !.posting = Heartbeat]
                BY <2>1 DEF SendNext
            <3> HIDE DEF q
            <3> QED
                BY <1>1, <2>1, <3>1 DEF LoopTypes, Heartbeat
        <2>2. CASE ~(p.stopped \/ p.held)
            <3>1. PICK b \in Nat : b = IF p.acked < Len(p.batches) THEN p.acked + 1 ELSE Heartbeat
                BY <1>1 DEF LoopTypes, Heartbeat
            <3>2. q = [p EXCEPT !.flushing = TRUE, !.posting = b]
                BY <2>2, <3>1 DEF SendNext
            <3> HIDE DEF q
            <3>3. /\ q \in LoopTypes /\ q.pending = p.pending /\ q.batches = p.batches
                  /\ q.acked = p.acked /\ q.stopped = p.stopped /\ q.held = p.held
                  /\ q.flushAgain = p.flushAgain /\ q.flushing = TRUE /\ q.posting = b
                BY <1>1, <3>2 DEF LoopTypes
            <3> QED
                BY <2>2, <3>1, <3>3
        <2> QED
            BY <2>1, <2>2
    <1>3. /\ ~p.stopped /\ ~p.held => q.flushing
          /\ q.flushing => ~q.stopped /\ ~q.held
        BY <1>2
    <1>4. Posts(q)
        <2>1. p.acked \in Nat
            BY <1>1 DEF LoopTypes
        <2> QED
            BY <2>1, <1>1, <1>2, <1>3 DEF Posts
    <1> QED
        BY <1>2, <1>3, <1>4, SameData DEF Onward

LEMMA DrainFacts ==
    ASSUME NEW N \in Nat, NEW p, LoopData(p, N), p.acked <= Len(p.batches)
    PROVE  /\ Onward(p, Drain(p), N) /\ Drain(p).pending = <<>>
           /\ Drain(p).acked = p.acked /\ Drain(p).held = p.held
    <1> DEFINE r == [p EXCEPT !.flushAgain = FALSE]
               c == CutBatches(r)
    <1>1. p \in LoopTypes /\ Len(p.batches) \in Nat
        BY DEF LoopData, LoopTypes
    <1>2. /\ r \in LoopTypes /\ r.pending = p.pending /\ r.batches = p.batches
          /\ r.acked = p.acked /\ r.stopped = p.stopped /\ r.held = p.held
        BY <1>1 DEF LoopTypes
    <1> HIDE DEF r
    <1>3. LoopData(r, N)
        BY <1>2, SameData
    <1>4. LoopData(c, N) /\ c.pending = <<>> /\ Extends(r, c) /\ SameControl(r, c)
        BY <1>3, CutFacts
    <1>5. Drain(p) = SendNext(c)
        BY DEF Drain, r
    <1> HIDE DEF c
    <1>6. Extends(p, c)
        BY <1>2, <1>4 DEF Extends, Cut
    <1>7. /\ c.acked = p.acked /\ c.stopped = p.stopped /\ c.held = p.held
          /\ c.acked <= Len(c.batches)
        <2>1. p.acked \in Nat /\ Len(c.batches) \in Nat
            BY <1>1, <1>4 DEF LoopData, LoopTypes
        <2> QED
            BY <2>1, <1>1, <1>2, <1>4, <1>6 DEF SameControl, Extends
    <1>8. /\ Onward(c, SendNext(c), N) /\ SendNext(c).pending = <<>>
          /\ SendNext(c).batches = c.batches /\ SendNext(c).acked = c.acked /\ SendNext(c).held = c.held
        BY <1>4, <1>7, SendNextFacts
    <1> QED
        BY <1>5, <1>6, <1>7, <1>8 DEF Onward, Extends, Cut

LEMMA FlushFacts ==
    ASSUME NEW N \in Nat, NEW p, LoopData(p, N), Posts(p)
    PROVE  /\ Onward(p, Flush(p), N) /\ Flush(p).acked = p.acked /\ Flush(p).held = p.held
           /\ \/ Flush(p).pending = <<>>
              \/ Flush(p).pending = p.pending /\ Flush(p).flushing /\ Flush(p).flushAgain
    <1>1. CASE p.flushing
        <2> DEFINE q == [p EXCEPT !.flushAgain = TRUE]
        <2>1. /\ q \in LoopTypes /\ q.pending = p.pending /\ q.batches = p.batches
              /\ q.acked = p.acked /\ q.stopped = p.stopped /\ q.held = p.held
              /\ q.flushing = p.flushing /\ q.posting = p.posting /\ q.flushAgain
            BY DEF LoopData, LoopTypes
        <2>2. Flush(p) = q
            BY <1>1 DEF Flush
        <2> HIDE DEF q
        <2>3. LoopData(q, N) /\ Extends(p, q) /\ Posts(q)
            BY <2>1, SameData DEF Posts
        <2> QED
            BY <1>1, <2>1, <2>2, <2>3 DEF Onward
    <1>2. CASE ~p.flushing
        BY <1>2, DrainFacts DEF Flush, Posts
    <1> QED
        BY <1>1, <1>2

LEMMA DrainOnFacts ==
    ASSUME NEW N \in Nat, NEW p, LoopData(p, N), p.acked <= Len(p.batches)
    PROVE  /\ Onward(p, DrainOn(p), N) /\ DrainOn(p).acked = p.acked
           /\ \/ DrainOn(p).pending = <<>>
              \/ DrainOn(p).pending = p.pending /\ (~p.flushAgain \/ p.stopped)
    <1>1. CASE p.flushAgain /\ ~p.stopped
        BY <1>1, DrainFacts DEF DrainOn
    <1>2. CASE ~(p.flushAgain /\ ~p.stopped)
        <2> DEFINE q == [p EXCEPT !.flushing = FALSE, !.posting = Heartbeat]
        <2>1. /\ q \in LoopTypes /\ q.pending = p.pending /\ q.batches = p.batches
              /\ q.acked = p.acked /\ q.stopped = p.stopped
              /\ ~q.flushing /\ q.posting = Heartbeat
            BY DEF LoopData, LoopTypes, Heartbeat
        <2>2. DrainOn(p) = q
            BY <1>2 DEF DrainOn
        <2> HIDE DEF q
        <2>3. LoopData(q, N) /\ Extends(p, q) /\ Posts(q)
            BY <2>1, SameData DEF Posts
        <2>4. ~p.flushAgain \/ p.stopped
            BY <1>2 DEF LoopData, LoopTypes
        <2> QED
            BY <2>1, <2>2, <2>3, <2>4 DEF Onward
    <1> QED
        BY <1>1, <1>2

LEMMA AnsweredFacts ==
    ASSUME NEW N \in Nat, NEW p, LoopData(p, N), Posts(p), p.flushing
    PROVE  /\ Onward(p, Answered(p), N)
           /\ Answered(p).acked = IF p.posting = Heartbeat THEN p.acked ELSE p.acked + 1
           /\ \/ Answered(p).pending = <<>>
              \/ /\ Answered(p).pending = p.pending
                 /\ p.flushAgain => Answered(p).flushing /\ Answered(p).flushAgain
    <1> DEFINE r == IF p.posting = Heartbeat THEN p ELSE [p EXCEPT !.acked = p.acked + 1]
    <1>1. p \in LoopTypes /\ p.acked \in Nat /\ Len(p.batches) \in Nat /\ p.posting \in Nat
        BY DEF LoopData, LoopTypes
    <1>2. /\ r \in LoopTypes /\ r.pending = p.pending /\ r.batches = p.batches
          /\ r.acked = IF p.posting = Heartbeat THEN p.acked ELSE p.acked + 1
          /\ r.flushing = p.flushing /\ r.flushAgain = p.flushAgain /\ r.stopped = p.stopped
          /\ r.held = p.held /\ r.posting = p.posting
        <2>1. CASE p.posting = Heartbeat
            BY <1>1, <2>1
        <2>2. CASE p.posting # Heartbeat
            <3>1. PICK a \in Nat : a = p.acked + 1
                BY <1>1
            <3>2. r = [p EXCEPT !.acked = a]
                BY <2>2, <3>1
            <3> HIDE DEF r
            <3> QED
                BY <1>1, <2>2, <3>1, <3>2 DEF LoopTypes
        <2> QED
            BY <2>1, <2>2
    <1>3. Answered(p) = IF r.posting # Heartbeat /\ r.acked < Len(r.batches) THEN SendNext(r) ELSE DrainOn(r)
        BY DEF Answered
    <1> HIDE DEF r
    <1>4. LoopData(r, N) /\ Extends(p, r) /\ r.acked <= Len(r.batches) /\ ~r.stopped /\ ~r.held
        BY <1>1, <1>2, SameData DEF Posts
    <1>5. CASE r.posting # Heartbeat /\ r.acked < Len(r.batches)
        <2>1. /\ Onward(r, SendNext(r), N) /\ SendNext(r).pending = r.pending
              /\ SendNext(r).batches = r.batches /\ SendNext(r).acked = r.acked
              /\ SendNext(r).flushAgain = r.flushAgain /\ SendNext(r).flushing
            BY <1>4, SendNextFacts
        <2>2. Answered(p) = SendNext(r)
            BY <1>3, <1>5
        <2>3. Onward(p, SendNext(r), N)
            BY <1>2, <2>1 DEF Onward, Extends, Cut
        <2>4. Answered(p).flushing /\ Answered(p).flushAgain = p.flushAgain /\ p.flushAgain \in BOOLEAN
            BY <1>1, <1>2, <2>1, <2>2 DEF LoopTypes
        <2>5. /\ Answered(p).acked = IF p.posting = Heartbeat THEN p.acked ELSE p.acked + 1
              /\ Answered(p).pending = p.pending
            BY <1>2, <2>1, <2>2
        <2> QED
            BY <2>2, <2>3, <2>4, <2>5
    <1>6. CASE ~(r.posting # Heartbeat /\ r.acked < Len(r.batches))
        <2>1. /\ Onward(r, DrainOn(r), N) /\ DrainOn(r).acked = r.acked
              /\ \/ DrainOn(r).pending = <<>>
                 \/ DrainOn(r).pending = r.pending /\ (~r.flushAgain \/ r.stopped)
            BY <1>4, DrainOnFacts
        <2>2. Answered(p) = DrainOn(r)
            BY <1>3, <1>6
        <2>3. Onward(p, DrainOn(r), N)
            BY <1>2, <2>1 DEF Onward, Extends, Cut
        <2>4. ~r.flushAgain \/ r.stopped => ~p.flushAgain
            BY <1>2, <1>4
        <2>5. /\ Answered(p).acked = IF p.posting = Heartbeat THEN p.acked ELSE p.acked + 1
              /\ \/ Answered(p).pending = <<>>
                 \/ Answered(p).pending = p.pending /\ ~p.flushAgain
            BY <1>2, <2>1, <2>2, <2>4
        <2> QED
            BY <2>2, <2>3, <2>5
    <1> QED
        BY <1>5, <1>6

LEMMA RecordFacts ==
    ASSUME NEW N \in Nat, NEW p, LoopData(p, N), Posts(p), NEW kind
    PROVE  LET q == Record(p, N + 1, kind) IN
           /\ Onward(p, q, N + 1) /\ q.acked = p.acked
           /\ \/ q.pending = <<>>
              \/ q.flushing /\ q.flushAgain
              \/ /\ kind # "end" /\ q.pending = Append(p.pending, N + 1)
                 /\ q.flushing = p.flushing /\ q.flushAgain = p.flushAgain
    <1> DEFINE r == [p EXCEPT !.pending = Append(p.pending, N + 1)]
    <1>1. p \in LoopTypes /\ p.pending \in Seq(Nat) /\ Len(p.pending) \in Nat /\ Len(p.pending) <= N
        BY DEF LoopData, LoopTypes, EventsAreCut
    <1>2. /\ Append(p.pending, N + 1) \in Seq(Nat) /\ Len(Append(p.pending, N + 1)) = Len(p.pending) + 1
          /\ \A i \in 1..(Len(p.pending) + 1) :
               Append(p.pending, N + 1)[i] = IF i = Len(p.pending) + 1 THEN N + 1 ELSE p.pending[i]
        BY <1>1
    <1>3. /\ r \in LoopTypes /\ r.pending = Append(p.pending, N + 1) /\ r.batches = p.batches
          /\ SameControl(p, r)
        BY <1>1, <1>2 DEF LoopTypes, SameControl
    <1> HIDE DEF r
    <1>4. LoopData(r, N + 1) /\ Posts(r) /\ Extends(p, r)
        <2>1. EventsAreCut(r, N + 1)
            <3>0. Len(r.pending) = Len(p.pending) + 1
                BY <1>2, <1>3
            <3>1. (N + 1) - Len(r.pending) = N - Len(p.pending) /\ Len(r.pending) <= N + 1
                BY ONLY <3>0, <1>1, N \in Nat
            <3>2. \A i \in 1..Len(r.pending) : r.pending[i] = (N + 1) - Len(r.pending) + i
                <4> TAKE i \in 1..Len(r.pending)
                <4>1. r.pending[i] = IF i = Len(p.pending) + 1 THEN N + 1 ELSE p.pending[i]
                    BY <3>0, <1>2, <1>3
                <4>2. i # Len(p.pending) + 1 => i \in 1..Len(p.pending)
                    BY <3>0, <1>1
                <4>3. \A k \in 1..Len(p.pending) : p.pending[k] = N - Len(p.pending) + k
                    BY DEF LoopData, EventsAreCut
                <4>4. N - Len(p.pending) + i = (N + 1) - Len(r.pending) + i
                    BY <3>1
                <4>5. CASE i = Len(p.pending) + 1
                    <5>1. r.pending[i] = N + 1 /\ i = Len(r.pending) /\ Len(r.pending) \in Nat
                        BY <3>0, <4>1, <4>5, <1>1
                    <5> QED
                        BY ONLY <5>1, N \in Nat
                <4>6. CASE i # Len(p.pending) + 1
                    BY <4>1, <4>2, <4>3, <4>4, <4>6
                <4> QED
                    BY <4>5, <4>6
            <3>3. /\ \A n \in 1..(N - Len(p.pending)) : \E b \in Cut(r) : Holds(r, b, n)
                  /\ \A b \in Cut(r) : \A i \in Places(r, b) :
                       r.batches[b].events[i] \in 1..(N - Len(p.pending))
                BY <1>3 DEF LoopData, EventsAreCut, Cut, Holds, Places
            <3> QED
                BY <3>1, <3>2, <3>3 DEF EventsAreCut
        <2>2. BatchesInOrder(r)
            BY <1>3 DEF LoopData, BatchesInOrder, Cut, Places
        <2>3. Posts(r) /\ Extends(p, r)
            BY <1>1, <1>3 DEF Posts, Extends, SameControl, Cut, LoopTypes
        <2> QED
            BY <2>1, <2>2, <2>3, <1>3 DEF LoopData
    <1>5. Record(p, N + 1, kind) = IF kind = "end" \/ Len(r.pending) >= MaxBatch THEN Flush(r) ELSE r
        BY DEF Record, r
    <1>6. CASE kind = "end" \/ Len(r.pending) >= MaxBatch
        <2>1. Record(p, N + 1, kind) = Flush(r)
            BY <1>5, <1>6
        <2>0. N + 1 \in Nat
            OBVIOUS
        <2>2. /\ Onward(r, Flush(r), N + 1) /\ Flush(r).acked = r.acked
              /\ \/ Flush(r).pending = <<>>
                 \/ Flush(r).flushing /\ Flush(r).flushAgain
            BY ONLY <2>0, <1>4, FlushFacts
        <2> QED
            BY <2>1, <2>2, <1>3 DEF Onward, Extends, SameControl, Cut
    <1>7. CASE ~(kind = "end" \/ Len(r.pending) >= MaxBatch)
        <2>1. Record(p, N + 1, kind) = r
            BY <1>5, <1>7
        <2> QED
            BY <2>1, <1>3, <1>4, <1>7 DEF Onward, SameControl
    <1> QED
        BY <1>6, <1>7


-----------------------------------------------------------------------------
(* What the backend has of a loop, and the parts of the invariant about it.  *)

LEMMA AppliedExtends ==
    ASSUME NEW p, NEW q, NEW ap, NEW se, AppliedOf(p, ap, se), se \subseteq Cut(p), Extends(p, q)
    PROVE  AppliedOf(q, ap, se)
    <1>1. \A b \in se : q.batches[b] = p.batches[b]
        BY DEF Extends
    <1>2. \A b \in se : Places(q, b) = Places(p, b)
        BY <1>1 DEF Places
    <1>3. ASSUME NEW i \in 1..Len(ap) PROVE \E b \in se : Holds(q, b, ap[i])
        <2>1. PICK b \in se : Holds(p, b, ap[i])
            BY DEF AppliedOf
        <2>2. Holds(q, b, ap[i])
            BY <2>1, <1>1, <1>2 DEF Holds
        <2> QED
            BY <2>2
    <1>4. ASSUME NEW b \in se, NEW i \in Places(q, b)
          PROVE  \E j \in 1..Len(ap) : ap[j] = q.batches[b].events[i]
        BY <1>1, <1>2 DEF AppliedOf
    <1>5. \A i, j \in 1..Len(ap) : i < j => ap[i] < ap[j]
        BY DEF AppliedOf
    <1> QED
        BY <1>3, <1>4, <1>5 DEF AppliedOf

\* A batch behind the ones processed adds its events behind theirs.
LEMMA AppliedGrows ==
    ASSUME NEW N \in Nat, NEW p, LoopData(p, N), NEW ap \in Seq(Nat), NEW se,
           AppliedOf(p, ap, se), se \subseteq Cut(p),
           NEW b \in Cut(p), \A a \in se : a < b
    PROVE  /\ ap \o p.batches[b].events \in Seq(Nat)
           /\ AppliedOf(p, ap \o p.batches[b].events, se \cup {b})
    <1> DEFINE ev == p.batches[b].events
               ap2 == ap \o ev
               k == Len(ap)
    <1>1. ev \in Seq(Nat) /\ Len(ev) \in Nat /\ k \in Nat
        <2>1. p.batches \in Seq(BatchTypes)
            BY DEF LoopData, LoopTypes
        <2>2. p.batches[b] \in BatchTypes
            BY <2>1 DEF Cut
        <2> QED
            BY <2>2 DEF BatchTypes
    <1>2. /\ ap2 \in Seq(Nat) /\ Len(ap2) = k + Len(ev)
          /\ \A i \in 1..(k + Len(ev)) : ap2[i] = IF i <= k THEN ap[i] ELSE ev[i - k]
        <2> HIDE DEF ev
        <2> QED
            BY <1>1, ConcatProperties
    <1>3. Places(p, b) = 1..Len(ev)
        BY DEF Places
    <1> HIDE DEF k, ap2
    <1>4. /\ \A i \in 1..k : ap2[i] = ap[i] /\ i \in 1..Len(ap2)
          /\ \A i \in 1..Len(ev) : ap2[k + i] = ev[i] /\ k + i \in 1..Len(ap2)
        <2> HIDE DEF ev
        <2>1. \A i \in 1..k : ap2[i] = ap[i] /\ i \in 1..Len(ap2)
            BY <1>1, <1>2
        <2>2. ASSUME NEW i \in 1..Len(ev) PROVE ap2[k + i] = ev[i] /\ k + i \in 1..Len(ap2)
            <3>1. k + i \in 1..(k + Len(ev)) /\ ~(k + i <= k) /\ (k + i) - k = i
                BY <1>1
            <3> QED
                BY <3>1, <1>2
        <2> QED
            BY <2>1, <2>2
    <1>5. \A i \in 1..Len(ap2) : i \in 1..k \/ (i - k \in 1..Len(ev) /\ i = k + (i - k))
        <2> HIDE DEF ev
        <2> QED
            BY <1>1, <1>2
    <1>6. ASSUME NEW i \in 1..Len(ap2) PROVE \E a \in se \cup {b} : Holds(p, a, ap2[i])
        <2>1. CASE i \in 1..k
            BY <2>1, <1>4 DEF AppliedOf, k
        <2>2. CASE i - k \in 1..Len(ev) /\ i = k + (i - k)
            <3>1. ap2[i] = ev[i - k]
                BY <2>2, <1>4
            <3>2. Holds(p, b, ap2[i])
                BY <3>1, <2>2, <1>3 DEF Holds
            <3> QED
                BY <3>2
        <2> QED
            BY <2>1, <2>2, <1>5
    <1>7. ASSUME NEW a \in se \cup {b}, NEW i \in Places(p, a)
          PROVE  \E j \in 1..Len(ap2) : ap2[j] = p.batches[a].events[i]
        <2>1. CASE a \in se
            <3>1. PICK j \in 1..k : ap[j] = p.batches[a].events[i]
                BY <2>1 DEF AppliedOf, k
            <3> QED
                BY <3>1, <1>4
        <2>2. CASE a = b
            BY <2>2, <1>3, <1>4
        <2> QED
            BY <2>1, <2>2
    <1>8. ASSUME NEW i \in 1..Len(ap2), NEW j \in 1..Len(ap2), i < j PROVE ap2[i] < ap2[j]
        <2>1. CASE i \in 1..k /\ j \in 1..k
            BY <2>1, <1>8, <1>4 DEF AppliedOf, k
        <2>2. CASE i \in 1..k /\ j - k \in 1..Len(ev) /\ j = k + (j - k)
            <3>1. PICK a \in se : Holds(p, a, ap[i])
                BY <2>2 DEF AppliedOf, k
            <3>2. PICK g \in Places(p, a) : p.batches[a].events[g] = ap[i]
                BY <3>1 DEF Holds
            <3>3. p.batches[a].events[g] < ev[j - k]
                BY <2>2, <1>3 DEF LoopData, BatchesInOrder
            <3> QED
                BY <3>2, <3>3, <2>2, <1>4
        <2>3. CASE /\ i - k \in 1..Len(ev) /\ i = k + (i - k)
                   /\ j - k \in 1..Len(ev) /\ j = k + (j - k)
            <3>1. i - k < j - k
                BY <1>1, <1>8, <2>3
            <3>2. ev[i - k] < ev[j - k]
                BY <3>1, <2>3, <1>3 DEF LoopData, BatchesInOrder
            <3> QED
                BY <3>2, <2>3, <1>4
        <2>4. ~(i - k \in 1..Len(ev) /\ j \in 1..k)
            <3> HIDE DEF ev
            <3> QED
                BY <1>1, <1>8
        <2> QED
            BY <2>1, <2>2, <2>3, <2>4, <1>5
    <1> QED
        BY <1>2, <1>6, <1>7, <1>8 DEF AppliedOf, ap2

\* Nothing pending is left behind by a step from p to q.
KeepsPending(p, q) ==
    \/ q.pending = <<>>
    \/ q.flushing /\ q.flushAgain
    \/ q.pending = p.pending /\ (p.flushing /\ p.flushAgain => q.flushing /\ q.flushAgain)

LEMMA OpenKept ==
    ASSUME TypeOK, OpenAreNotEnded, LoopData(loop, Len(events)), Extends(loop, loop'),
           Len(events) <= Len(events'), Len(events') \in Nat,
           \A n \in 1..Len(events) : events'[n] = events[n],
           \A n \in 1..Len(events') : events'[n].kind = "end" => events'[n].x \notin LiveSessions
    PROVE  OpenAreNotEnded'
    <1>1. Len(loop.batches) \in Nat /\ Len(events) \in Nat /\ Len(loop.pending) \in Nat
        BY DEF TypeOK, LoopTypes
    <1> SUFFICES ASSUME NEW b \in 1..Len(loop'.batches), NEW n \in 1..Len(events'),
                        events'[n].kind = "end",
                        NEW a \in 1..b, InBatch(a, n)'
                 PROVE  events'[n].x \notin loop'.batches[b].open
        BY DEF OpenAreNotEnded
    <1>2. CASE b \in Cut(loop)
        <2>1. a \in Cut(loop)
            BY <1>1, <1>2 DEF Cut
        <2>2. loop'.batches[a] = loop.batches[a] /\ loop'.batches[b] = loop.batches[b]
            BY <1>2, <2>1 DEF Extends
        <2>3. InBatch(a, n)
            BY <2>2 DEF InBatch
        <2>4. n \in 1..Len(events)
            <3>1. n \in 1..(Len(events) - Len(loop.pending))
                BY <2>1, <2>3 DEF InBatch, LoopData, EventsAreCut, Places
            <3> QED
                BY <3>1, <1>1
        <2> QED
            BY <2>2, <2>3, <2>4, <1>2 DEF OpenAreNotEnded, Cut
    <1>3. CASE b \notin Cut(loop)
        BY <1>3 DEF Extends, Cut
    <1> QED
        BY <1>2, <1>3

LEMMA EndKept ==
    ASSUME TypeOK, EndIsSentAtOnce, KeepsPending(loop, loop'),
           loop'.stopped = loop.stopped, UNCHANGED events
    PROVE  EndIsSentAtOnce'
    <1>1. CASE loop'.pending = <<>>
        BY <1>1 DEF EndIsSentAtOnce, IsPending
    <1>2. CASE loop'.flushing /\ loop'.flushAgain
        BY <1>2 DEF EndIsSentAtOnce
    <1>3. CASE /\ loop'.pending = loop.pending
               /\ loop.flushing /\ loop.flushAgain => loop'.flushing /\ loop'.flushAgain
        BY <1>3 DEF EndIsSentAtOnce, IsPending
    <1> QED
        BY <1>1, <1>2, <1>3 DEF KeepsPending

LEMMA BackendKept ==
    ASSUME TypeOK, BackendFollows, Extends(loop, loop'), loop' \in LoopTypes,
           loop.acked <= loop'.acked, 1..loop'.acked \subseteq seen' \cup dropped',
           AppliedOf(loop, applied', seen'),
           \A b \in seen' \cup dropped' \cup wandering' :
               \/ b \in seen \cup dropped \cup wandering
               \/ b \in 1..(loop.acked + 1) /\ b \in Cut(loop)
    PROVE  BackendFollows'
    <1>1. /\ loop.acked \in Nat /\ loop'.acked \in Nat
          /\ Len(loop.batches) \in Nat /\ Len(loop'.batches) \in Nat
        BY DEF TypeOK, LoopTypes
    <1>2. \A b : b \in 1..(loop.acked + 1) => b \in 1..(loop'.acked + 1)
        BY <1>1
    <1>3. \A b : b \in Cut(loop) => b \in Cut(loop')
        BY <1>1 DEF Cut, Extends
    <1>4. \A b \in seen' \cup dropped' \cup wandering' :
              b \in 1..(loop'.acked + 1) /\ b \in Cut(loop')
        BY <1>2, <1>3 DEF BackendFollows
    <1>5. seen' \subseteq Cut(loop)
        <2> SUFFICES ASSUME NEW b \in seen' PROVE b \in Cut(loop)
            OBVIOUS
        <2>1. CASE b \in dropped \cup wandering \cup seen
            BY <2>1 DEF BackendFollows
        <2> QED
            BY <2>1
    <1>6. AppliedOf(loop', applied', seen')
        BY <1>5, AppliedExtends
    <1> QED
        BY <1>4, <1>6 DEF BackendFollows, Cut, AppliedOf, Holds, Places

LEMMA ProcessFacts ==
    ASSUME TypeOK, LoopInv, NEW b \in Nat, Process(b),
           b # Heartbeat => b \in 1..(loop.acked + 1) /\ b \in Cut(loop)
    PROVE  /\ applied' \in Seq(Nat) /\ seen' \in SUBSET Nat
           /\ AppliedOf(loop, applied', seen')
           /\ seen \subseteq seen' /\ (b # Heartbeat => b \in seen' \cup dropped)
           /\ \A a \in seen' : a \in seen \/ (a \in 1..(loop.acked + 1) /\ a \in Cut(loop))
    <1>1. /\ AppliedOf(loop, applied, seen) /\ seen \subseteq Cut(loop)
          /\ applied \in Seq(Nat) /\ seen \in SUBSET Nat
        BY DEF LoopInv, BackendFollows, TypeOK
    <1>2. CASE b = Heartbeat \/ b \in seen \/ b \in dropped
        BY <1>1, <1>2 DEF Process
    <1>3. CASE ~(b = Heartbeat \/ b \in seen \/ b \in dropped)
        <2>1. applied' = applied \o loop.batches[b].events /\ seen' = seen \cup {b}
            BY <1>3 DEF Process
        <2>2. \A a \in seen : a < b
            <3>1. loop.acked \in Nat
                BY DEF TypeOK, LoopTypes
            <3>2. b = loop.acked + 1
                BY <1>3, <3>1 DEF LoopInv, BackendFollows
            <3>3. \A a \in seen : a \in 1..(loop.acked + 1) /\ a # b
                BY <1>3 DEF LoopInv, BackendFollows
            <3> QED
                BY <3>1, <3>2, <3>3
        <2>3. Len(events) \in Nat /\ LoopData(loop, Len(events))
            BY DEF TypeOK, LoopInv
        <2>4. b \in Cut(loop)
            BY <1>3
        <2>5. /\ applied \o loop.batches[b].events \in Seq(Nat)
              /\ AppliedOf(loop, applied \o loop.batches[b].events, seen \cup {b})
            BY <1>1, <2>2, <2>3, <2>4, AppliedGrows
        <2> QED
            BY <1>1, <1>3, <2>1, <2>5
    <1> QED
        BY <1>2, <1>3

LEMMA SameLoop ==
    ASSUME LoopInv, UNCHANGED <<loop, events, backendVars>>
    PROVE  LoopInv'
    <1> USE DEF backendVars
    <1>1. LoopData(loop, Len(events))' /\ Posts(loop)'
        BY DEF LoopInv, LoopData, LoopTypes, EventsAreCut, BatchesInOrder, Posts, Cut, Places, Holds
    <1>2. BackendFollows'
        BY DEF LoopInv, BackendFollows, AppliedOf, Cut, Places, Holds
    <1>3. OpenAreNotEnded' /\ EndIsSentAtOnce'
        BY DEF LoopInv, OpenAreNotEnded, InBatch, EndIsSentAtOnce, IsPending
    <1> QED
        BY <1>1, <1>2, <1>3 DEF LoopInv

\* A loop that begins, or has just ended, with nothing recorded.
LEMMA Afresh ==
    ASSUME loop' = NewLoop \/ loop' = [NewLoop EXCEPT !.stopped = TRUE],
           events' = <<>>, applied' = <<>>, seen' = {}, wandering' = {}, dropped' = {}
    PROVE  loop' \in LoopTypes /\ ~loop'.flushing /\ ~loop'.held /\ LoopInv'
    <1>1. /\ loop' \in LoopTypes /\ loop'.pending = <<>> /\ loop'.batches = <<>>
          /\ loop'.acked = 0 /\ loop'.flushing = FALSE /\ loop'.posting = Heartbeat
          /\ loop'.held = FALSE
        <2>1. PICK e \in Seq(Nat), bs \in Seq(BatchTypes) : e = <<>> /\ bs = <<>>
            BY EmptySeq
        <2>2. PICK st \in BOOLEAN : loop' =
                [pending |-> e, echoes |-> {}, batches |-> bs, acked |-> 0, flushing |-> FALSE,
                 posting |-> Heartbeat, flushAgain |-> FALSE, stopped |-> st, held |-> FALSE]
            <3>1. CASE loop' = NewLoop
                BY <3>1, <2>1 DEF NewLoop
            <3>2. CASE loop' = [NewLoop EXCEPT !.stopped = TRUE]
                BY <3>2, <2>1 DEF NewLoop
            <3> QED
                BY <3>1, <3>2
        <2> QED
            BY <2>1, <2>2 DEF LoopTypes, Heartbeat
    <1>2. Len(loop'.pending) = 0 /\ Len(loop'.batches) = 0 /\ Len(events') = 0 /\ Len(applied') = 0
        BY <1>1
    <1>3. EventsAreCut(loop', Len(events'))
        BY <1>2 DEF EventsAreCut, Cut
    <1>4. BatchesInOrder(loop') /\ Posts(loop')
        BY <1>1, <1>2 DEF BatchesInOrder, Cut, Posts
    <1>5. BackendFollows'
        BY <1>1, <1>2 DEF BackendFollows, AppliedOf
    <1>6. OpenAreNotEnded' /\ EndIsSentAtOnce'
        BY <1>2 DEF OpenAreNotEnded, EndIsSentAtOnce
    <1>7. LoopData(loop, Len(events))' /\ Posts(loop)'
        BY <1>1, <1>3, <1>4
          DEF LoopData, LoopTypes, EventsAreCut, BatchesInOrder, Posts, Cut, Places, Holds
    <1> QED
        BY <1>1, <1>5, <1>6, <1>7 DEF LoopInv

\* What is open is not ended, for a loop that goes on with the same events.
LEMMA LoopGoesOn ==
    ASSUME TypeOK, SessionsInOrder, LoopInv, UNCHANGED <<status, events>>,
           Onward(loop, loop', Len(events)), KeepsPending(loop, loop'), BackendFollows'
    PROVE  LoopInv'
    <1>1. LoopData(loop, Len(events)) /\ OpenAreNotEnded /\ EndIsSentAtOnce /\ Len(events) \in Nat
        BY DEF LoopInv, TypeOK
    <1>2. \A n \in 1..Len(events') : events'[n].kind = "end" => events'[n].x \notin LiveSessions
        BY DEF SessionsInOrder, LiveSessions
    <1>3. OpenAreNotEnded'
        BY <1>1, <1>2, OpenKept DEF Onward
    <1>4. EndIsSentAtOnce'
        BY <1>1, EndKept DEF Onward
    <1>5. LoopData(loop, Len(events))' /\ Posts(loop)'
        BY DEF Onward, LoopData, LoopTypes, EventsAreCut, BatchesInOrder, Posts, Cut, Places, Holds
    <1> QED
        BY <1>3, <1>4, <1>5 DEF LoopInv


-----------------------------------------------------------------------------
(* The runtime and its route.                                                *)

LEMMA InitIInv == Init => IInv
    <1> SUFFICES ASSUME Init PROVE IInv
        OBVIOUS
    <1> USE DEF Init, CheckpointsInit
    <1>1. /\ loop \in LoopTypes /\ loop.pending = <<>> /\ loop.batches = <<>>
          /\ loop.acked = 0 /\ loop.flushing = FALSE /\ loop.posting = Heartbeat
          /\ loop.held = FALSE
        <2>1. PICK e \in Seq(Nat), bs \in Seq(BatchTypes) : e = <<>> /\ bs = <<>>
            BY EmptySeq
        <2>2. loop = [pending |-> e, echoes |-> {}, batches |-> bs, acked |-> 0,
                      flushing |-> FALSE, posting |-> Heartbeat, flushAgain |-> FALSE,
                      stopped |-> FALSE, held |-> FALSE]
            BY <2>1 DEF NewLoop
        <2> QED
            BY ONLY <2>1, <2>2 DEF LoopTypes, Heartbeat
    <1>2. Len(loop.pending) = 0 /\ Len(loop.batches) = 0 /\ Len(events) = 0 /\ Len(applied) = 0
        BY <1>1
    <1>3. LoopData(loop, Len(events)) /\ Posts(loop)
        BY <1>1, <1>2 DEF LoopData, EventsAreCut, BatchesInOrder, Cut, Posts
    <1>4. BackendFollows /\ OpenAreNotEnded /\ EndIsSentAtOnce
        BY <1>1, <1>2 DEF BackendFollows, AppliedOf, OpenAreNotEnded, EndIsSentAtOnce
    <1>5. route \in RouteTypes /\ ~route.open
        BY DEF RouteTypes, NoRoute
    <1>6. TypeOK
        <2>1. status \in [SessionIds -> Statuses]
            BY DEF Statuses
        <2>2. events \in Seq(Events) /\ applied \in Seq(Nat)
            BY EmptySeq
        <2> QED
            BY <1>1, <1>5, <2>1, <2>2 DEF TypeOK
    <1>7. SessionsInOrder
        <2>1. LiveSessions = {}
            BY DEF LiveSessions
        <2> QED
            BY <2>1, <1>2, FS_EmptySet, MaxSessionsAssumption DEF SessionsInOrder, SeatsRespected
    <1>8. OneWay /\ ClosedIsIdle /\ OpenIsAttended
        BY <1>1, <1>5 DEF OneWay, ClosedIsIdle, OpenIsAttended, NoRoute
    <1> QED
        BY <1>3, <1>4, <1>6, <1>7, <1>8 DEF IInv, LoopInv

LEMMA RuntimeMoves ==
    ASSUME IInv, UNCHANGED <<vars, opening>>,
           phase' \in {"off", "started", "tasks_only", "stopped"}, registering' \in Nat,
           retrying' \in BOOLEAN, route' \in RouteTypes, OneWay',
           ~route'.open => ~route.open /\ route' = NoRoute(route'.no),
           OpenIsAttended'
    PROVE  IInv'
    <1> USE DEF vars, backendVars
    <1>1. TypeOK'
        BY DEF IInv, TypeOK
    <1>2. ClosedIsIdle'
        BY DEF IInv, ClosedIsIdle
    <1>3. SessionsInOrder'
        BY DEF IInv, SessionsInOrder, SeatsRespected, LiveSessions
    <1>4. LoopInv'
        BY SameLoop DEF IInv
    <1> QED
        BY <1>1, <1>2, <1>3, <1>4 DEF IInv

\* A route that stays open.
LEMMA RouteMoves ==
    ASSUME IInv, route.open, UNCHANGED <<vars, runtimeVars, opening>>,
           route' \in RouteTypes, route'.open,
           route'.up \/ route'.connectTimer, route'.tokenTimer \/ route'.rotating
    PROVE  IInv'
    <1> USE DEF runtimeVars
    <1>1. OneWay'
        BY DEF IInv, OneWay
    <1>2. OpenIsAttended'
        BY DEF IInv, OpenIsAttended, vars
    <1> QED
        BY <1>1, <1>2, RuntimeMoves DEF IInv, TypeOK

LEMMA Closing ==
    ASSUME IInv, NEW posting, CloseRoute(posting),
           phase' \in {"off", "started", "tasks_only", "stopped"}, registering' \in Nat,
           retrying' \in BOOLEAN, OneWay'
    PROVE  IInv'
    <1>1. /\ loop' = [NewLoop EXCEPT !.stopped = TRUE] /\ events' = <<>> /\ applied' = <<>>
          /\ seen' = {} /\ wandering' = {} /\ dropped' = {} /\ opening' = {}
          /\ status' = [x \in SessionIds |-> "new"] /\ route' = NoRoute(route.no)
        BY DEF CloseRoute, CheckpointsOver
    <1>2. loop' \in LoopTypes /\ ~loop'.flushing /\ ~loop'.held /\ LoopInv'
        BY <1>1, Afresh
    <1>3. route' \in RouteTypes /\ route' = NoRoute(route'.no) /\ ~route'.open
        <2>1. route.no \in Nat
            BY DEF IInv, TypeOK, RouteTypes
        <2> QED
            BY <1>1, <2>1 DEF NoRoute, RouteTypes
    <1>4. TypeOK'
        <2>1. status' \in [SessionIds -> Statuses]
            BY <1>1 DEF Statuses
        <2>2. events' \in Seq(Events) /\ applied' \in Seq(Nat)
            BY <1>1, EmptySeq
        <2> QED
            BY <1>1, <1>2, <1>3, <2>1, <2>2 DEF TypeOK
    <1>5. ClosedIsIdle' /\ OpenIsAttended'
        BY <1>1, <1>2, <1>3 DEF ClosedIsIdle, OpenIsAttended
    <1>6. SessionsInOrder'
        <2>1. LiveSessions' = {}
            BY <1>1 DEF LiveSessions
        <2>2. Len(events') = 0
            BY <1>1
        <2> QED
            BY <1>1, <2>1, <2>2, FS_EmptySet, MaxSessionsAssumption DEF SessionsInOrder, SeatsRespected
    <1> QED
        BY <1>2, <1>4, <1>5, <1>6 DEF IInv

LEMMA ReplaceRouteKeeps ==
    ASSUME IInv, NEW no, NEW posting, ReplaceRoute(no, posting)
    PROVE  IInv'
    <1>1. /\ phase \in {"off", "started", "tasks_only", "stopped"} /\ registering \in Nat
          /\ retrying \in BOOLEAN /\ route \in RouteTypes /\ OneWay
        BY DEF IInv, TypeOK
    <1>2. CASE route.open /\ route.no = no
        <2>1. /\ registering' = registering + 1 /\ CloseRoute(posting)
              /\ phase' = phase /\ retrying' = retrying
            BY <1>2 DEF ReplaceRoute
        <2>2. OneWay'
            <3>1. route'.open = FALSE
                BY <2>1 DEF CloseRoute, NoRoute
            <3> QED
                BY <1>1, <1>2, <2>1, <3>1 DEF OneWay
        <2> QED
            BY <1>1, <2>1, <2>2, Closing
    <1>3. CASE ~(route.open /\ route.no = no)
        <2>1. UNCHANGED <<vars, registering, route, opening, phase, retrying>>
            BY <1>3 DEF ReplaceRoute
        <2>2. OneWay' /\ OpenIsAttended'
            BY <2>1 DEF IInv, OneWay, OpenIsAttended, vars
        <2>3. ~route'.open => ~route.open /\ route' = NoRoute(route'.no)
            BY <2>1 DEF IInv, ClosedIsIdle
        <2> QED
            BY <1>1, <2>1, <2>2, <2>3, RuntimeMoves
    <1> QED
        BY <1>2, <1>3


\* Steps of the runtime that touch no route.
LEMMA RegisteringKeeps ==
    ASSUME IInv,
           \/ StartProvider \/ TasksOnly \/ RegisterFails \/ RetryTimerFires
           \/ \E no \in 1..MaxRoutes : LatePostAnswers(no)
    PROVE  IInv'
    <1>1. /\ phase \in {"off", "started", "tasks_only", "stopped"} /\ registering \in Nat
          /\ retrying \in BOOLEAN /\ route \in RouteTypes /\ OneWay
        BY DEF IInv, TypeOK
    <1>2. UNCHANGED <<vars, route, opening>>
        BY DEF StartProvider, TasksOnly, RegisterFails, RetryTimerFires, LatePostAnswers, openVars
    <1>3. OpenIsAttended' /\ (~route'.open => ~route.open /\ route' = NoRoute(route'.no))
        BY <1>2 DEF IInv, OpenIsAttended, ClosedIsIdle, vars
    <1>4. /\ phase' \in {"off", "started", "tasks_only", "stopped"} /\ registering' \in Nat
          /\ retrying' \in BOOLEAN /\ OneWay'
        <2>1. CASE StartProvider
            <3>1. phase = "off" /\ phase' = "started" /\ registering' = 1 /\ retrying' = retrying
                BY <2>1 DEF StartProvider
            <3> QED
                BY <1>1, <1>2, <3>1 DEF OneWay
        <2>2. CASE TasksOnly
            <3>1. /\ registering > 0 /\ phase = "started" /\ phase' = "tasks_only"
                  /\ registering' = registering - 1 /\ retrying' = retrying
                BY <2>2 DEF TasksOnly
            <3> QED
                BY <1>1, <1>2, <3>1 DEF OneWay
        <2>3. CASE RegisterFails
            <3>1. /\ registering > 0 /\ phase' = phase
                  /\ registering' = registering - 1 /\ retrying' = TRUE
                BY <2>3 DEF RegisterFails
            <3>2. phase = "started" => registering = 1 /\ ~retrying /\ ~route.open
                BY <1>1, <3>1 DEF OneWay
            <3>3. phase \notin {"off", "tasks_only"}
                BY <1>1, <3>1 DEF OneWay
            <3>4. registering' \in Nat /\ (phase = "started" => registering' = 0)
                BY <1>1, <3>1, <3>2
            <3> QED
                BY <1>1, <1>2, <3>1, <3>2, <3>3, <3>4 DEF OneWay
        <2>4. CASE RetryTimerFires
            <3>1. /\ retrying /\ phase' = phase /\ retrying' = FALSE
                  /\ registering' = IF phase = "stopped" THEN registering ELSE registering + 1
                BY <2>4 DEF RetryTimerFires
            <3>2. phase = "started" => registering = 0 /\ ~route.open
                BY <1>1, <3>1 DEF OneWay
            <3>3. phase \notin {"off", "tasks_only"}
                BY <1>1, <3>1 DEF OneWay
            <3>4. registering' \in Nat /\ (phase = "started" => registering' = 1)
                BY <1>1, <3>1, <3>2
            <3> QED
                BY <1>1, <1>2, <3>1, <3>2, <3>3, <3>4 DEF OneWay
        <2>5. CASE \E no \in 1..MaxRoutes : LatePostAnswers(no)
            <3>1. phase' = phase /\ registering' = registering /\ retrying' = retrying
                BY <2>5 DEF LatePostAnswers
            <3> QED
                BY <1>1, <1>2, <3>1 DEF OneWay
        <2> QED
            BY <2>1, <2>2, <2>3, <2>4, <2>5
    <1>5. route' \in RouteTypes
        BY <1>1, <1>2
    <1> QED
        BY <1>2, <1>3, <1>4, <1>5, RuntimeMoves

LEMMA RouteGrantedKeeps ==
    ASSUME IInv, RouteGranted
    PROVE  IInv'
    <1>1. /\ phase \in {"off", "started", "tasks_only", "stopped"} /\ registering \in Nat
          /\ retrying \in BOOLEAN /\ route \in RouteTypes /\ route.no \in Nat
        BY DEF IInv, TypeOK, RouteTypes
    <1>2. /\ registering > 0 /\ registering' = registering - 1 /\ registering' \in Nat
          /\ phase' = phase /\ retrying' = retrying /\ opening' = opening
        BY <1>1 DEF RouteGranted, openVars
    <1>3. CASE phase = "stopped"
        <2>1. UNCHANGED <<vars, route>>
            BY <1>3 DEF RouteGranted
        <2>2. OneWay' /\ OpenIsAttended' /\ (~route'.open => ~route.open /\ route' = NoRoute(route'.no))
            BY <1>2, <1>3, <2>1 DEF IInv, OneWay, OpenIsAttended, ClosedIsIdle, vars
        <2> QED
            BY <1>1, <1>2, <2>1, <2>2, RuntimeMoves
    <1>4. CASE phase # "stopped"
        <2>1. /\ route' = NewRoute(route.no + 1) /\ loop' = NewLoop
              /\ UNCHANGED <<status, events, applied, seen, wandering, dropped>>
            BY <1>4 DEF RouteGranted, CheckpointsBegin, backendVars
        <2>2. phase = "started" /\ registering = 1 /\ ~retrying /\ ~route.open
            BY <1>1, <1>2, <1>4 DEF IInv, OneWay
        <2>3. /\ events = <<>> /\ applied = <<>> /\ seen = {} /\ wandering = {} /\ dropped = {}
            BY <2>2 DEF IInv, ClosedIsIdle
        <2>4. loop' \in LoopTypes /\ LoopInv'
            BY <2>1, <2>3, Afresh
        <2>5. /\ route' \in RouteTypes /\ route'.open /\ route'.connectTimer /\ route'.tokenTimer
              /\ ~loop'.stopped
            <3>1. PICK no \in Nat : no = route.no + 1
                BY <1>1
            <3>2. route' = [no |-> no, open |-> TRUE, sub |-> "joining", up |-> FALSE,
                            connectTimer |-> TRUE, tokenTimer |-> TRUE, rotating |-> FALSE,
                            refreshing |-> FALSE, refreshed |-> FALSE]
                BY <2>1, <3>1 DEF NewRoute, NoRoute
            <3>3. route' \in RouteTypes /\ route'.open /\ route'.connectTimer /\ route'.tokenTimer
                BY ONLY <3>1, <3>2 DEF RouteTypes
            <3>4. ~loop'.stopped
                BY <2>1 DEF NewLoop
            <3> QED
                BY <3>3, <3>4
        <2>6. TypeOK'
            BY <1>1, <1>2, <2>1, <2>4, <2>5 DEF IInv, TypeOK
        <2>7. OneWay' /\ ClosedIsIdle' /\ OpenIsAttended'
            BY <1>2, <1>4, <2>2, <2>5 DEF OneWay, ClosedIsIdle, OpenIsAttended
        <2>8. SessionsInOrder'
            BY <1>2, <2>1 DEF IInv, SessionsInOrder, SeatsRespected, LiveSessions
        <2> QED
            BY <2>4, <2>6, <2>7, <2>8 DEF IInv
    <1> QED
        BY <1>3, <1>4

LEMMA GivingUpKeeps ==
    ASSUME IInv, ConnectTimesOut \/ StopProvider
    PROVE  IInv'
    <1>1. /\ phase \in {"off", "started", "tasks_only", "stopped"} /\ registering \in Nat
          /\ retrying \in BOOLEAN /\ route \in RouteTypes /\ OneWay
        BY DEF IInv, TypeOK
    <1>2. CASE ConnectTimesOut
        <2>1. /\ route.connectTimer /\ CloseRoute(loop.flushing) /\ retrying' = TRUE
              /\ phase' = phase /\ registering' = registering
            BY <1>2 DEF ConnectTimesOut
        <2>2. route.open
            BY <2>1 DEF IInv, ClosedIsIdle, NoRoute
        <2>3. route'.open = FALSE
            BY <2>1 DEF CloseRoute, NoRoute
        <2>4. OneWay'
            BY <1>1, <2>1, <2>2, <2>3 DEF OneWay
        <2> QED
            BY <1>1, <2>1, <2>4, Closing
    <1>3. CASE StopProvider
        <2>1. phase' = "stopped" /\ retrying' = FALSE /\ registering' = registering
            BY <1>3 DEF StopProvider
        <2>2. CASE route.open
            <3>1. CloseRoute(loop.flushing)
                BY <1>3, <2>2 DEF StopProvider
            <3>2. OneWay'
                BY <2>1, <3>1 DEF OneWay, CloseRoute, NoRoute
            <3> QED
                BY <1>1, <2>1, <3>1, <3>2, Closing
        <2>3. CASE ~route.open
            <3>1. UNCHANGED <<vars, route, opening>>
                BY <1>3, <2>3 DEF StopProvider
            <3>2. /\ OneWay' /\ OpenIsAttended'
                  /\ ~route'.open => ~route.open /\ route' = NoRoute(route'.no)
                BY <2>1, <2>3, <3>1 DEF IInv, OneWay, OpenIsAttended, ClosedIsIdle, vars
            <3> QED
                BY <1>1, <2>1, <3>1, <3>2, RuntimeMoves
        <2> QED
            BY <2>2, <2>3
    <1> QED
        BY <1>2, <1>3

\* Steps of the subscription and its token; the route stays, or is replaced.
LEMMA SubscriptionKeeps ==
    ASSUME IInv,
           \/ Drops \/ AccessDenied \/ DenialRefreshed \/ DenialNotRefreshed
           \/ TokenTimerFires \/ TokenRotated \/ RotationRefused \/ PostLosesRoute
           \/ \E no \in 1..MaxRoutes : LatePostLosesRoute(no)
    PROVE  IInv'
    <1>1. route \in RouteTypes /\ OpenIsAttended
        BY DEF IInv, TypeOK
    <1>2. route.sub # "none" \/ route.refreshing \/ route.tokenTimer \/ route.rotating => route.open
        BY DEF IInv, ClosedIsIdle, NoRoute
    <1>3. CASE Drops
        <2>1. /\ route' = [route EXCEPT !.sub = "joining"] /\ route.open
              /\ UNCHANGED <<vars, runtimeVars, opening>>
            BY <1>2, <1>3 DEF Drops, openVars
        <2>2. /\ route' \in RouteTypes /\ route'.open
              /\ route'.up \/ route'.connectTimer
              /\ route'.tokenTimer \/ route'.rotating
            BY <1>1, <2>1 DEF RouteTypes, OpenIsAttended
        <2> QED
            BY <2>1, <2>2, RouteMoves
    <1>4. CASE AccessDenied
        <2>1. CASE ~route.refreshing /\ route.refreshed
            BY <1>4, <2>1, ReplaceRouteKeeps DEF AccessDenied, RouteLost
        <2>2. CASE ~(~route.refreshing /\ route.refreshed)
            <3>1. /\ route' = [route EXCEPT !.sub = "denied", !.refreshing = TRUE] /\ route.open
                  /\ UNCHANGED <<vars, runtimeVars, opening>>
                BY <1>2, <1>4, <2>2 DEF AccessDenied, openVars
            <3>2. /\ route' \in RouteTypes /\ route'.open
                  /\ route'.up \/ route'.connectTimer
                  /\ route'.tokenTimer \/ route'.rotating
                BY <1>1, <3>1 DEF RouteTypes, OpenIsAttended
            <3> QED
                BY <3>1, <3>2, RouteMoves
        <2> QED
            BY <2>1, <2>2
    <1>5. CASE DenialRefreshed
        <2>1. /\ route' = [route EXCEPT !.refreshing = FALSE, !.refreshed = TRUE,
                                        !.tokenTimer = TRUE, !.sub = "joining"]
              /\ route.open /\ UNCHANGED <<vars, runtimeVars, opening>>
            BY <1>2, <1>5 DEF DenialRefreshed, openVars
        <2>2. /\ route' \in RouteTypes /\ route'.open
              /\ route'.up \/ route'.connectTimer
              /\ route'.tokenTimer \/ route'.rotating
            BY <1>1, <2>1 DEF RouteTypes, OpenIsAttended
        <2> QED
            BY <2>1, <2>2, RouteMoves
    <1>6. CASE TokenTimerFires
        <2>1. /\ route' = [route EXCEPT !.tokenTimer = FALSE, !.rotating = TRUE] /\ route.open
              /\ UNCHANGED <<vars, runtimeVars, opening>>
            BY <1>2, <1>6 DEF TokenTimerFires, openVars
        <2>2. /\ route' \in RouteTypes /\ route'.open
              /\ route'.up \/ route'.connectTimer
              /\ route'.tokenTimer \/ route'.rotating
            BY <1>1, <2>1 DEF RouteTypes, OpenIsAttended
        <2> QED
            BY <2>1, <2>2, RouteMoves
    <1>7. CASE TokenRotated
        <2>1. /\ route' = [route EXCEPT !.rotating = FALSE, !.tokenTimer = TRUE] /\ route.open
              /\ UNCHANGED <<vars, runtimeVars, opening>>
            BY <1>2, <1>7 DEF TokenRotated, openVars
        <2>2. /\ route' \in RouteTypes /\ route'.open
              /\ route'.up \/ route'.connectTimer
              /\ route'.tokenTimer \/ route'.rotating
            BY <1>1, <2>1 DEF RouteTypes, OpenIsAttended
        <2> QED
            BY <2>1, <2>2, RouteMoves
    <1>8. CASE DenialNotRefreshed \/ RotationRefused
        BY <1>8, ReplaceRouteKeeps DEF DenialNotRefreshed, RotationRefused, RouteLost
    <1>9. CASE PostLosesRoute \/ \E no \in 1..MaxRoutes : LatePostLosesRoute(no)
        BY <1>9, ReplaceRouteKeeps DEF PostLosesRoute, LatePostLosesRoute
    <1> QED
        BY <1>3, <1>4, <1>5, <1>6, <1>7, <1>8, <1>9


-----------------------------------------------------------------------------
(* Steps of the loop, on a route that is open.                               *)

LEMMA LoopMoves ==
    ASSUME IInv, route.open, LoopInv', loop' \in LoopTypes, loop'.stopped = loop.stopped,
           UNCHANGED <<status, events, phase, registering, retrying, opening>>,
           route' \in RouteTypes, route'.open,
           route'.up \/ route'.connectTimer, route'.tokenTimer \/ route'.rotating,
           applied' \in Seq(Nat), seen' \in SUBSET Nat, wandering' \in SUBSET Nat,
           dropped' \in SUBSET Nat
    PROVE  IInv'
    <1>1. TypeOK'
        BY DEF IInv, TypeOK
    <1>2. OneWay' /\ ClosedIsIdle' /\ OpenIsAttended'
        BY DEF IInv, OneWay, ClosedIsIdle, OpenIsAttended
    <1>3. SessionsInOrder'
        BY DEF IInv, SessionsInOrder, SeatsRespected, LiveSessions
    <1> QED
        BY <1>1, <1>2, <1>3 DEF IInv

\* The same with the route as it was.
LEMMA LoopMovesAlone ==
    ASSUME IInv, route.open, LoopInv', loop' \in LoopTypes, loop'.stopped = loop.stopped,
           UNCHANGED <<status, events, routeVars>>,
           applied' \in Seq(Nat), seen' \in SUBSET Nat, wandering' \in SUBSET Nat,
           dropped' \in SUBSET Nat
    PROVE  IInv'
    <1>1. UNCHANGED <<phase, registering, retrying, opening, route>>
        BY DEF routeVars, runtimeVars, openVars
    <1>2. /\ route' \in RouteTypes /\ route'.open
          /\ route'.up \/ route'.connectTimer
          /\ route'.tokenTimer \/ route'.rotating
        BY <1>1 DEF IInv, TypeOK, OpenIsAttended
    <1> QED
        BY <1>1, <1>2, LoopMoves

\* A loop that goes on with a backend that learns nothing.
LEMMA QuietLoop ==
    ASSUME IInv, Onward(loop, loop', Len(events)), KeepsPending(loop, loop'),
           loop'.acked = loop.acked, UNCHANGED <<status, events, backendVars>>
    PROVE  /\ LoopInv' /\ loop' \in LoopTypes /\ loop'.stopped = loop.stopped
           /\ applied' \in Seq(Nat) /\ seen' \in SUBSET Nat /\ wandering' \in SUBSET Nat
           /\ dropped' \in SUBSET Nat
    <1>1. /\ TypeOK /\ SessionsInOrder /\ LoopInv /\ BackendFollows /\ loop.acked \in Nat
        BY DEF IInv, LoopInv, TypeOK, LoopTypes
    <1>2. UNCHANGED <<applied, seen, wandering, dropped>>
        BY DEF backendVars
    <1>3. Extends(loop, loop') /\ loop' \in LoopTypes /\ loop'.stopped = loop.stopped
        BY DEF Onward, LoopData
    <1>4. BackendFollows'
        <2>1. loop.acked <= loop'.acked /\ 1..loop'.acked \subseteq seen' \cup dropped'
            BY <1>1, <1>2 DEF BackendFollows
        <2>2. AppliedOf(loop, applied', seen')
            BY <1>1, <1>2 DEF BackendFollows
        <2>3. \A b \in seen' \cup dropped' \cup wandering' : b \in seen \cup dropped \cup wandering
            BY <1>2
        <2> QED
            BY <1>1, <1>3, <2>1, <2>2, <2>3, BackendKept
    <1>5. LoopInv'
        BY <1>1, <1>4, LoopGoesOn
    <1> QED
        BY <1>1, <1>2, <1>3, <1>5 DEF TypeOK

LEMMA FlushMoves ==
    ASSUME IInv, loop' = Flush(loop)
    PROVE  Onward(loop, loop', Len(events)) /\ KeepsPending(loop, loop') /\ loop'.acked = loop.acked
    <1>1. LoopData(loop, Len(events)) /\ Posts(loop) /\ Len(events) \in Nat
        BY DEF IInv, LoopInv, TypeOK
    <1> QED
        BY <1>1, FlushFacts DEF KeepsPending

\* Neither the events nor the batches, nor what is under post.
LEMMA SameContents ==
    ASSUME IInv, loop' \in LoopTypes, loop'.pending = loop.pending, loop'.batches = loop.batches,
           loop'.acked = loop.acked, loop'.flushing = loop.flushing,
           loop'.posting = loop.posting, loop'.flushAgain = loop.flushAgain,
           loop'.stopped = loop.stopped, loop'.held => loop.held
    PROVE  Onward(loop, loop', Len(events)) /\ KeepsPending(loop, loop')
    <1>1. LoopData(loop, Len(events)) /\ Posts(loop)
        BY DEF IInv, LoopInv
    <1>2. LoopData(loop', Len(events)) /\ Extends(loop, loop')
        BY <1>1, SameData
    <1>3. Posts(loop')
        BY <1>1 DEF Posts
    <1>4. KeepsPending(loop, loop')
        BY DEF KeepsPending
    <1> QED
        BY <1>2, <1>3, <1>4 DEF Onward

LEMMA JoinsKeeps ==
    ASSUME IInv, NEW category, Joins(category)
    PROVE  IInv'
    <1>1. route \in RouteTypes /\ OpenIsAttended /\ route.open
        BY DEF IInv, TypeOK, ClosedIsIdle, NoRoute, Joins
    <1>2. UNCHANGED <<status, events, backendVars, runtimeVars, phase, registering, retrying, opening>>
        BY DEF Joins, runtimeVars, openVars
    <1>3. CASE route.up \/ category = "reconnected"
        <2>1. route' = [route EXCEPT !.sub = "joined", !.refreshed = FALSE] /\ UNCHANGED vars
            BY <1>2, <1>3 DEF Joins, vars
        <2>2. /\ route' \in RouteTypes /\ route'.open
              /\ route'.up \/ route'.connectTimer
              /\ route'.tokenTimer \/ route'.rotating
            BY <1>1, <2>1 DEF RouteTypes, OpenIsAttended
        <2> QED
            BY <1>1, <1>2, <2>1, <2>2, RouteMoves
    <1>4. CASE ~(route.up \/ category = "reconnected")
        <2>1. /\ route' = [route EXCEPT !.sub = "joined", !.refreshed = FALSE,
                                        !.up = TRUE, !.connectTimer = FALSE]
              /\ loop' = Flush(loop)
            BY <1>4 DEF Joins
        <2>2. /\ route' \in RouteTypes /\ route'.open
              /\ route'.up \/ route'.connectTimer
              /\ route'.tokenTimer \/ route'.rotating
            BY <1>1, <2>1 DEF RouteTypes, OpenIsAttended
        <2>3. Onward(loop, loop', Len(events)) /\ KeepsPending(loop, loop') /\ loop'.acked = loop.acked
            BY <2>1, FlushMoves
        <2>4. /\ LoopInv' /\ loop' \in LoopTypes /\ loop'.stopped = loop.stopped
              /\ applied' \in Seq(Nat) /\ seen' \in SUBSET Nat /\ wandering' \in SUBSET Nat
              /\ dropped' \in SUBSET Nat
            BY <1>2, <2>3, QuietLoop
        <2> QED
            BY <1>1, <1>2, <2>2, <2>4, LoopMoves
    <1> QED
        BY <1>3, <1>4

LEMMA QuietKeeps ==
    ASSUME IInv, UNCHANGED routeVars,
           \/ route.up /\ Tick
           \/ TickAgain \/ HoldExpires
           \/ \E n \in Nonces : route.sub = "joined" /\ EchoProbe(n)
    PROVE  IInv'
    <1>1. /\ loop \in LoopTypes /\ route.open
          /\ UNCHANGED <<status, events, backendVars>>
        BY DEF IInv, TypeOK, ClosedIsIdle, NoRoute, Tick, TickAgain, HoldExpires, EchoProbe
    <1>2. Onward(loop, loop', Len(events)) /\ KeepsPending(loop, loop') /\ loop'.acked = loop.acked
        <2>1. CASE Tick \/ TickAgain
            BY <2>1, FlushMoves DEF Tick, TickAgain
        <2>2. CASE HoldExpires
            <3>1. loop' = [loop EXCEPT !.held = FALSE]
                BY <2>2 DEF HoldExpires
            <3>2. /\ loop' \in LoopTypes /\ loop'.pending = loop.pending
                  /\ loop'.batches = loop.batches /\ loop'.acked = loop.acked
                  /\ loop'.flushing = loop.flushing /\ loop'.posting = loop.posting
                  /\ loop'.flushAgain = loop.flushAgain /\ loop'.stopped = loop.stopped
                  /\ loop'.held = FALSE
                BY <1>1, <3>1 DEF LoopTypes
            <3> QED
                BY <3>2, SameContents
        <2>3. CASE \E n \in Nonces : EchoProbe(n)
            <3>1. PICK es \in SUBSET Nonces : loop' = [loop EXCEPT !.echoes = es]
                <4>1. PICK n \in Nonces : loop' = [loop EXCEPT !.echoes = @ \cup {n}]
                    BY <2>3 DEF EchoProbe
                <4>2. loop.echoes \cup {n} \in SUBSET Nonces
                    BY <1>1 DEF LoopTypes
                <4> QED
                    BY <4>1, <4>2
            <3>2. /\ loop' \in LoopTypes /\ loop'.pending = loop.pending
                  /\ loop'.batches = loop.batches /\ loop'.acked = loop.acked
                  /\ loop'.flushing = loop.flushing /\ loop'.posting = loop.posting
                  /\ loop'.flushAgain = loop.flushAgain /\ loop'.stopped = loop.stopped
                  /\ loop'.held = loop.held
                BY <1>1, <3>1 DEF LoopTypes
            <3> QED
                BY <3>2, SameContents
        <2> QED
            BY <2>1, <2>2, <2>3
    <1>3. /\ LoopInv' /\ loop' \in LoopTypes /\ loop'.stopped = loop.stopped
          /\ applied' \in Seq(Nat) /\ seen' \in SUBSET Nat /\ wandering' \in SUBSET Nat
          /\ dropped' \in SUBSET Nat
        BY <1>1, <1>2, QuietLoop
    <1> QED
        BY <1>1, <1>3, LoopMovesAlone


-----------------------------------------------------------------------------
(* Posts and their answers.                                                  *)

\* The post awaited is a heartbeat or that of the batch behind those answered for.
LEMMA PostAwaited ==
    ASSUME IInv, loop.flushing
    PROVE  /\ route.open /\ loop.posting \in Nat /\ loop.acked \in Nat /\ Len(events) \in Nat
           /\ LoopData(loop, Len(events)) /\ Posts(loop)
           /\ loop.posting # Heartbeat =>
                /\ loop.posting = loop.acked + 1
                /\ loop.posting \in 1..(loop.acked + 1) /\ loop.posting \in Cut(loop)
    <1>1. /\ loop \in LoopTypes /\ loop.acked \in Nat /\ loop.posting \in Nat
          /\ Len(loop.batches) \in Nat /\ Posts(loop)
        BY DEF IInv, LoopInv, TypeOK, LoopTypes
    <1>2. loop.posting # Heartbeat =>
              /\ loop.posting = loop.acked + 1
              /\ loop.posting \in 1..(loop.acked + 1) /\ loop.posting \in Cut(loop)
        BY <1>1 DEF Posts, Cut
    <1> QED
        BY <1>1, <1>2 DEF IInv, LoopInv, TypeOK, ClosedIsIdle

LEMMA AnsweredMoves ==
    ASSUME IInv, loop.flushing, loop' = Answered(loop)
    PROVE  /\ Onward(loop, loop', Len(events)) /\ KeepsPending(loop, loop')
           /\ loop'.acked = IF loop.posting = Heartbeat THEN loop.acked ELSE loop.acked + 1
    BY PostAwaited, AnsweredFacts DEF KeepsPending

LEMMA PostAnsweredKeeps ==
    ASSUME IInv, UNCHANGED routeVars, PostAcknowledged \/ PostRefused
    PROVE  IInv'
    <1> DEFINE b == loop.posting
    <1>1. /\ loop.flushing /\ loop' = Answered(loop)
          /\ UNCHANGED <<status, events, wandering>>
        BY DEF PostAcknowledged, PostRefused
    <1>2. /\ route.open /\ b \in Nat /\ loop.acked \in Nat
          /\ b # Heartbeat => b = loop.acked + 1 /\ b \in 1..(loop.acked + 1) /\ b \in Cut(loop)
        BY <1>1, PostAwaited
    <1>3. /\ Onward(loop, loop', Len(events)) /\ KeepsPending(loop, loop')
          /\ loop'.acked = IF b = Heartbeat THEN loop.acked ELSE loop.acked + 1
        BY <1>1, AnsweredMoves
    <1>4. TypeOK /\ SessionsInOrder /\ LoopInv /\ BackendFollows
        BY DEF IInv, LoopInv
    <1>5. /\ applied' \in Seq(Nat) /\ seen' \in SUBSET Nat /\ dropped' \in SUBSET Nat
          /\ AppliedOf(loop, applied', seen')
          /\ seen \cup dropped \subseteq seen' \cup dropped'
          /\ b # Heartbeat => b \in seen' \cup dropped'
          /\ \A a \in seen' \cup dropped' \cup wandering' :
               \/ a \in seen \cup dropped \cup wandering
               \/ a \in 1..(loop.acked + 1) /\ a \in Cut(loop)
        <2>1. CASE PostAcknowledged
            <3>1. Process(b) /\ b \notin dropped /\ dropped' = dropped
                BY <2>1 DEF PostAcknowledged
            <3>2. /\ applied' \in Seq(Nat) /\ seen' \in SUBSET Nat
                  /\ AppliedOf(loop, applied', seen')
                  /\ seen \subseteq seen' /\ (b # Heartbeat => b \in seen' \cup dropped)
                  /\ \A a \in seen' : a \in seen \/ (a \in 1..(loop.acked + 1) /\ a \in Cut(loop))
                BY <1>2, <1>4, <3>1, ProcessFacts
            <3> QED
                BY <1>1, <1>4, <3>1, <3>2 DEF TypeOK
        <2>2. CASE PostRefused
            <3>1. /\ dropped' = IF b = Heartbeat THEN dropped ELSE dropped \cup {b}
                  /\ applied' = applied /\ seen' = seen
                BY <2>2 DEF PostRefused
            <3>2. AppliedOf(loop, applied', seen')
                BY <1>4, <3>1 DEF BackendFollows
            <3>3. applied' \in Seq(Nat) /\ seen' \in SUBSET Nat /\ dropped' \in SUBSET Nat
                BY <1>2, <1>4, <3>1 DEF TypeOK
            <3> QED
                BY <1>1, <1>2, <3>1, <3>2, <3>3
        <2> QED
            BY <2>1, <2>2
    <1> HIDE DEF b
    <1>6. BackendFollows'
        <2>1. loop.acked <= loop'.acked
            BY <1>2, <1>3
        <2>2. 1..loop'.acked \subseteq seen' \cup dropped'
            <3> SUFFICES ASSUME NEW a \in 1..loop'.acked PROVE a \in seen' \cup dropped'
                OBVIOUS
            <3>1. a \in 1..loop.acked \/ (b # Heartbeat /\ a = b)
                BY <1>2, <1>3
            <3> QED
                BY <3>1, <1>4, <1>5 DEF BackendFollows
        <2>3. Extends(loop, loop') /\ loop' \in LoopTypes
            BY <1>3 DEF Onward, LoopData
        <2> QED
            BY <1>4, <1>5, <2>1, <2>2, <2>3, BackendKept
    <1>7. LoopInv'
        BY <1>1, <1>3, <1>4, <1>6, LoopGoesOn
    <1>8. loop' \in LoopTypes /\ loop'.stopped = loop.stopped /\ wandering' \in SUBSET Nat
        BY <1>1, <1>3, <1>4 DEF Onward, LoopData, TypeOK
    <1> QED
        BY <1>1, <1>2, <1>5, <1>7, <1>8, LoopMovesAlone

LEMMA PostFailsKeeps ==
    ASSUME IInv, UNCHANGED routeVars, PostFails
    PROVE  IInv'
    <1> DEFINE b == loop.posting
    <1>1. /\ loop.flushing
          /\ UNCHANGED <<status, events, applied, seen, dropped>>
          /\ wandering' = IF b = Heartbeat THEN wandering ELSE wandering \cup {b}
        BY DEF PostFails
    <1>2. PICK held \in BOOLEAN : loop' = DrainOn([loop EXCEPT !.held = held])
        BY DEF PostFails, ToRetry
    <1>3. /\ route.open /\ b \in Nat /\ loop.acked \in Nat /\ Len(events) \in Nat
          /\ LoopData(loop, Len(events)) /\ Posts(loop)
          /\ b # Heartbeat => b \in 1..(loop.acked + 1) /\ b \in Cut(loop)
        BY <1>1, PostAwaited
    <1>4. TypeOK /\ SessionsInOrder /\ LoopInv /\ BackendFollows /\ loop \in LoopTypes
        BY DEF IInv, LoopInv, TypeOK
    <1> DEFINE r == [loop EXCEPT !.held = held]
    <1>5. /\ r \in LoopTypes /\ r.pending = loop.pending /\ r.batches = loop.batches
          /\ r.acked = loop.acked /\ r.flushAgain = loop.flushAgain /\ r.stopped = loop.stopped
        BY <1>4 DEF LoopTypes
    <1> HIDE DEF b, r
    <1>6. LoopData(r, Len(events)) /\ Extends(loop, r) /\ r.acked <= Len(r.batches) /\ ~r.stopped
        BY <1>1, <1>3, <1>5, SameData DEF Posts
    <1>7. /\ Onward(r, loop', Len(events)) /\ loop'.acked = loop.acked
          /\ \/ loop'.pending = <<>>
             \/ loop'.pending = loop.pending /\ ~loop.flushAgain
        <2>1. /\ Onward(r, DrainOn(r), Len(events)) /\ DrainOn(r).acked = r.acked
              /\ \/ DrainOn(r).pending = <<>>
                 \/ DrainOn(r).pending = r.pending /\ (~r.flushAgain \/ r.stopped)
            BY <1>3, <1>6, DrainOnFacts
        <2>2. loop' = DrainOn(r)
            BY <1>2 DEF r
        <2>3. ~r.flushAgain \/ r.stopped => ~loop.flushAgain
            BY <1>5, <1>6
        <2> QED
            BY <2>1, <2>2, <2>3, <1>5
    <1>8. Onward(loop, loop', Len(events)) /\ KeepsPending(loop, loop')
        <2>1. KeepsPending(loop, loop')
            BY <1>7 DEF KeepsPending
        <2>2. Onward(loop, loop', Len(events))
            BY <1>5, <1>7 DEF Onward, Extends, Cut
        <2> QED
            BY <2>1, <2>2
    <1>9. wandering' \in SUBSET Nat
        BY <1>1, <1>3, <1>4 DEF TypeOK
    <1>10. BackendFollows'
        <2>1. loop.acked <= loop'.acked /\ 1..loop'.acked \subseteq seen' \cup dropped'
            BY <1>1, <1>3, <1>4, <1>7 DEF BackendFollows
        <2>2. AppliedOf(loop, applied', seen')
            BY <1>1, <1>4 DEF BackendFollows
        <2>3. \A a \in seen' \cup dropped' \cup wandering' :
                  \/ a \in seen \cup dropped \cup wandering
                  \/ a \in 1..(loop.acked + 1) /\ a \in Cut(loop)
            BY <1>1, <1>3
        <2>4. Extends(loop, loop') /\ loop' \in LoopTypes
            BY <1>8 DEF Onward, LoopData
        <2> QED
            BY <1>4, <2>1, <2>2, <2>3, <2>4, BackendKept
    <1>11. LoopInv'
        BY <1>1, <1>4, <1>8, <1>10, LoopGoesOn
    <1>12. loop' \in LoopTypes /\ loop'.stopped = loop.stopped
        BY <1>8 DEF Onward, LoopData
    <1>13. applied' \in Seq(Nat) /\ seen' \in SUBSET Nat /\ dropped' \in SUBSET Nat
        BY <1>1, <1>4 DEF TypeOK
    <1> QED
        BY <1>1, <1>3, <1>9, <1>11, <1>12, <1>13, LoopMovesAlone

\* A post given up reaches the backend after all.
LEMMA WanderingKeeps ==
    ASSUME IInv, UNCHANGED routeVars, NEW b, WanderingArrives(b)
    PROVE  IInv'
    <1>1. /\ b \in wandering /\ wandering' = wandering \ {b} /\ Process(b)
          /\ UNCHANGED <<loop, status, events, dropped>>
        BY DEF WanderingArrives
    <1>2. TypeOK /\ SessionsInOrder /\ LoopInv /\ BackendFollows /\ loop \in LoopTypes
        BY DEF IInv, LoopInv, TypeOK
    <1>3. /\ route.open /\ b \in Nat /\ b \in 1..(loop.acked + 1) /\ b \in Cut(loop)
        BY <1>1, <1>2 DEF IInv, ClosedIsIdle, BackendFollows, TypeOK
    <1>4. /\ applied' \in Seq(Nat) /\ seen' \in SUBSET Nat
          /\ AppliedOf(loop, applied', seen') /\ seen \subseteq seen'
          /\ \A a \in seen' : a \in seen \/ (a \in 1..(loop.acked + 1) /\ a \in Cut(loop))
        BY <1>1, <1>2, <1>3, ProcessFacts
    <1>5. Onward(loop, loop', Len(events)) /\ KeepsPending(loop, loop')
        BY <1>1, <1>2, SameContents
    <1>6. wandering' \in SUBSET Nat /\ dropped' \in SUBSET Nat
        BY <1>1, <1>2 DEF TypeOK
    <1>7. BackendFollows'
        <2>1. loop.acked <= loop'.acked /\ 1..loop'.acked \subseteq seen' \cup dropped'
            BY <1>1, <1>2, <1>4 DEF BackendFollows, LoopTypes
        <2>2. \A a \in seen' \cup dropped' \cup wandering' :
                  \/ a \in seen \cup dropped \cup wandering
                  \/ a \in 1..(loop.acked + 1) /\ a \in Cut(loop)
            BY <1>1, <1>4
        <2>3. Extends(loop, loop') /\ loop' \in LoopTypes
            BY <1>5 DEF Onward, LoopData
        <2> QED
            BY <1>2, <1>4, <2>1, <2>2, <2>3, BackendKept
    <1>8. LoopInv'
        BY <1>1, <1>2, <1>5, <1>7, LoopGoesOn
    <1>9. loop' \in LoopTypes /\ loop'.stopped = loop.stopped
        BY <1>1, <1>2
    <1> QED
        BY <1>1, <1>3, <1>4, <1>6, <1>8, <1>9, LoopMovesAlone


-----------------------------------------------------------------------------
(* The sessions of the route.                                                *)

LEMMA SessionMoves ==
    ASSUME IInv, route.open, UNCHANGED <<loop, events, backendVars, runtimeVars, route>>,
           status' \in [SessionIds -> Statuses], opening' \in SUBSET SessionIds, SessionsInOrder'
    PROVE  IInv'
    <1> USE DEF backendVars, runtimeVars
    <1>1. TypeOK'
        BY DEF IInv, TypeOK
    <1>2. OneWay' /\ ClosedIsIdle' /\ OpenIsAttended'
        BY DEF IInv, OneWay, ClosedIsIdle, OpenIsAttended
    <1>3. LoopInv'
        BY SameLoop DEF IInv
    <1> QED
        BY <1>1, <1>2, <1>3 DEF IInv

\* Fewer sessions in progress need no more seats.
LEMMA LiveShrinks ==
    ASSUME SessionsInOrder, LiveSessions' \subseteq LiveSessions
    PROVE  IsFiniteSet(LiveSessions') /\ Cardinality(LiveSessions') <= MaxSessions
    <1>1. IsFiniteSet(LiveSessions) /\ Cardinality(LiveSessions) <= MaxSessions
        BY DEF SessionsInOrder, SeatsRespected
    <1>2. PICK S : S = LiveSessions'
        OBVIOUS
    <1>3. IsFiniteSet(S) /\ Cardinality(S) <= Cardinality(LiveSessions)
        BY <1>1, <1>2, FS_Subset
    <1>4. Cardinality(S) \in Nat /\ Cardinality(LiveSessions) \in Nat /\ MaxSessions \in Nat
        BY <1>1, <1>3, FS_CardinalityType, MaxSessionsAssumption
    <1> QED
        BY <1>1, <1>2, <1>3, <1>4

LEMMA SeatKeeps ==
    ASSUME TypeOK, SessionsInOrder, NEW x \in SessionIds, status[x] = "new", Seat(x),
           opening' \subseteq opening \ {x}
    PROVE  status' \in [SessionIds -> Statuses] /\ SessionsInOrder' /\ UNCHANGED <<loop, events, backendVars>>
    <1>1. /\ status \in [SessionIds -> Statuses] /\ UNCHANGED <<loop, events, backendVars>>
          /\ events \in Seq(Events) /\ opening \in SUBSET SessionIds
        BY DEF TypeOK, Seat
    <1>2. PICK s \in {"open", "ending"} :
              /\ status' = [status EXCEPT ![x] = s]
              /\ s = "open" => ~(Cardinality(LiveSessions) >= MaxSessions)
        BY DEF Seat
    <1>3. /\ status' \in [SessionIds -> Statuses]
          /\ \A y \in SessionIds : status'[y] = IF y = x THEN s ELSE status[y]
        BY <1>1, <1>2 DEF Statuses
    <1>4. \A y \in opening' : status'[y] = "new"
        BY <1>1, <1>3 DEF SessionsInOrder
    <1>5. \A n \in 1..Len(events) : events[n].kind = "end" => status'[events[n].x] = "ended"
        <2> SUFFICES ASSUME NEW n \in 1..Len(events), events[n].kind = "end"
                     PROVE  status'[events[n].x] = "ended"
            OBVIOUS
        <2>1. events[n] \in Events
            BY <1>1
        <2>2. events[n].x \in SessionIds /\ status[events[n].x] = "ended"
            BY <2>1 DEF SessionsInOrder, Events
        <2> QED
            BY <2>2, <1>3
    <1>6. IsFiniteSet(LiveSessions') /\ Cardinality(LiveSessions') <= MaxSessions
        <2>1. CASE s = "ending"
            <3>1. LiveSessions' \subseteq LiveSessions
                BY <2>1, <1>3 DEF LiveSessions
            <3> QED
                BY <3>1, LiveShrinks
        <2>2. CASE s = "open"
            <3>1. LiveSessions' = LiveSessions \cup {x} /\ x \notin LiveSessions
                BY <2>2, <1>1, <1>3 DEF LiveSessions
            <3>2. IsFiniteSet(LiveSessions) /\ Cardinality(LiveSessions) \in Nat
                BY FS_CardinalityType DEF SessionsInOrder
            <3>3. /\ IsFiniteSet(LiveSessions \cup {x})
                  /\ Cardinality(LiveSessions \cup {x}) = Cardinality(LiveSessions) + 1
                BY <3>1, <3>2, FS_AddElement
            <3>4. MaxSessions \in Nat /\ ~(Cardinality(LiveSessions) >= MaxSessions)
                BY <2>2, <1>2, MaxSessionsAssumption
            <3>5. Cardinality(LiveSessions) + 1 <= MaxSessions
                BY <3>2, <3>4
            <3> QED
                BY <3>1, <3>3, <3>5
        <2> QED
            BY <2>1, <2>2
    <1>7. SessionsInOrder'
        BY <1>1, <1>4, <1>5, <1>6 DEF SessionsInOrder, SeatsRespected
    <1> QED
        BY <1>1, <1>3, <1>7

\* The session_opens of the route and the lookups they start.
LEMMA OpeningKeeps ==
    ASSUME IInv, NEW x \in SessionIds,
           AcceptManifest(x) \/ OpenAsked(x) \/ OpenTaken(x) \/ LookedUp(x) \/ LookupDropped(x)
    PROVE  IInv'
    <1>1. /\ TypeOK /\ SessionsInOrder /\ status \in [SessionIds -> Statuses]
          /\ opening \in SUBSET SessionIds
        BY DEF IInv, TypeOK
    <1>2. route.open /\ UNCHANGED <<runtimeVars, route>>
        <2>1. CASE AcceptManifest(x)
            BY <2>1 DEF AcceptManifest
        <2>2. CASE OpenAsked(x) \/ OpenTaken(x)
            BY <2>2 DEF IInv, ClosedIsIdle, NoRoute, OpenAsked, OpenTaken
        <2>3. CASE LookedUp(x) \/ LookupDropped(x)
            BY <2>3 DEF IInv, ClosedIsIdle, LookedUp, LookupDropped
        <2> QED
            BY <2>1, <2>2, <2>3
    <1>3. CASE Seat(x) /\ status[x] = "new" /\ opening' \subseteq opening \ {x}
        <2>1. /\ status' \in [SessionIds -> Statuses] /\ SessionsInOrder'
              /\ UNCHANGED <<loop, events, backendVars>>
            BY <1>1, <1>3, SeatKeeps
        <2>2. opening' \in SUBSET SessionIds
            BY <1>1, <1>3
        <2> QED
            BY <1>2, <2>1, <2>2, SessionMoves
    <1>4. CASE UNCHANGED vars /\ (opening' \subseteq opening \/ (opening' = opening \cup {x} /\ status[x] = "new"))
        <2>1. UNCHANGED <<loop, status, events, backendVars>>
            BY <1>4 DEF vars
        <2>2. SessionsInOrder'
            <3>1. \A y \in opening' : status[y] = "new"
                BY <1>1, <1>4 DEF SessionsInOrder
            <3> QED
                BY <2>1, <3>1 DEF IInv, SessionsInOrder, SeatsRespected, LiveSessions
        <2>3. opening' \in SUBSET SessionIds
            BY <1>1, <1>4
        <2> QED
            BY <1>1, <1>2, <2>1, <2>2, <2>3, SessionMoves
    <1>5. \/ Seat(x) /\ status[x] = "new" /\ opening' \subseteq opening \ {x}
          \/ UNCHANGED vars /\ (opening' \subseteq opening \/ (opening' = opening \cup {x} /\ status[x] = "new"))
        <2>1. CASE AcceptManifest(x)
            <3>1. UNCHANGED vars /\ opening' = opening
                BY <2>1 DEF AcceptManifest
            <3> QED
                BY <3>1
        <2>2. CASE OpenAsked(x)
            BY <2>2 DEF OpenAsked
        <2>3. CASE OpenTaken(x)
            BY <2>3 DEF OpenTaken
        <2>4. CASE LookedUp(x)
            BY <2>4, <1>1 DEF LookedUp, SessionsInOrder
        <2>5. CASE LookupDropped(x)
            <3>1. UNCHANGED vars /\ opening' = opening \ {x}
                BY <2>5 DEF LookupDropped
            <3>2. opening' \subseteq opening
                BY <3>1
            <3> QED
                BY <3>1, <3>2
        <2> QED
            BY <2>1, <2>2, <2>3, <2>4, <2>5
    <1> QED
        BY <1>3, <1>4, <1>5

LEMMA RecordedFacts ==
    ASSUME TypeOK, NEW x \in SessionIds, NEW kind \in {"fact", "end"}, Recorded(x, kind)
    PROVE  /\ events' \in Seq(Events)
           /\ Len(events) \in Nat /\ Len(events') = Len(events) + 1
           /\ \A n \in 1..Len(events') : n \in 1..Len(events) \/ n = Len(events) + 1
           /\ \A n \in 1..Len(events) : events'[n] = events[n]
           /\ events'[Len(events) + 1].x = x /\ events'[Len(events) + 1].kind = kind
    <1>1. PICK e \in Events :
              e = [x |-> x, kind |-> kind] /\ e.x = x /\ e.kind = kind /\ events' = Append(events, e)
        BY DEF Recorded, Events
    <1>2. events \in Seq(Events) /\ Len(events) \in Nat
        BY DEF TypeOK
    <1>3. /\ events' \in Seq(Events)
          /\ Len(events') = Len(events) + 1
          /\ \A n \in 1..(Len(events) + 1) :
               events'[n] = IF n = Len(events) + 1 THEN e ELSE events[n]
        BY ONLY <1>1, <1>2
    <1> QED
        BY <1>1, <1>2, <1>3

LEMMA RecordingMoves ==
    ASSUME IInv, NEW x \in SessionIds, NEW kind \in {"fact", "end"}, Recorded(x, kind),
           kind = "end" => status[x] = "ending"
    PROVE  LoopInv' /\ loop' \in LoopTypes /\ loop'.stopped = loop.stopped
    <1> DEFINE N == Len(events)
    <1>1. /\ TypeOK /\ SessionsInOrder /\ LoopInv /\ BackendFollows /\ loop \in LoopTypes
          /\ LoopData(loop, Len(events)) /\ Posts(loop) /\ OpenAreNotEnded /\ EndIsSentAtOnce
          /\ loop.acked \in Nat
        BY DEF IInv, LoopInv, TypeOK, LoopTypes
    <1>2. /\ ~loop.stopped /\ loop' = Record(loop, N + 1, kind)
          /\ UNCHANGED <<applied, seen, wandering, dropped>>
        BY DEF Recorded, backendVars
    <1>3. /\ N \in Nat /\ Len(events') = N + 1
          /\ \A n \in 1..Len(events') : n \in 1..N \/ n = N + 1
          /\ \A n \in 1..N : events'[n] = events[n]
          /\ events'[N + 1].x = x /\ events'[N + 1].kind = kind
        BY <1>1, RecordedFacts
    <1>4. /\ Onward(loop, loop', N + 1) /\ loop'.acked = loop.acked
          /\ \/ loop'.pending = <<>>
             \/ loop'.flushing /\ loop'.flushAgain
             \/ /\ kind # "end" /\ loop'.pending = Append(loop.pending, N + 1)
                /\ loop'.flushing = loop.flushing /\ loop'.flushAgain = loop.flushAgain
        BY <1>1, <1>2, <1>3, RecordFacts
    <1>5. /\ Extends(loop, loop') /\ loop' \in LoopTypes /\ loop'.stopped = loop.stopped
          /\ LoopData(loop', N + 1) /\ Posts(loop')
        BY <1>4 DEF Onward, LoopData
    <1>6. OpenAreNotEnded'
        <2>1. \A n \in 1..Len(events') : events'[n].kind = "end" => events'[n].x \notin LiveSessions
            <3>1. \A n \in 1..N : events[n].kind = "end" => status[events[n].x] = "ended"
                BY <1>1 DEF SessionsInOrder
            <3> QED
                BY <1>3, <3>1 DEF LiveSessions
        <2>2. N <= Len(events') /\ Len(events') \in Nat
            BY <1>3
        <2> QED
            BY <1>1, <1>3, <1>5, <2>1, <2>2, OpenKept
    <1>7. EndIsSentAtOnce'
        <2>1. CASE loop'.pending = <<>>
            BY <2>1 DEF EndIsSentAtOnce, IsPending
        <2>2. CASE loop'.flushing /\ loop'.flushAgain
            BY <2>2 DEF EndIsSentAtOnce
        <2>3. CASE /\ kind # "end" /\ loop'.pending = Append(loop.pending, N + 1)
                   /\ loop'.flushing = loop.flushing /\ loop'.flushAgain = loop.flushAgain
            <3> SUFFICES ASSUME NEW n \in 1..Len(events'), events'[n].kind = "end", IsPending(n)'
                         PROVE  loop'.flushing /\ loop'.flushAgain
                BY DEF EndIsSentAtOnce
            <3>1. n \in 1..N /\ events[n].kind = "end"
                BY <1>3, <2>3
            <3>2. PICK i \in 1..Len(loop'.pending) : loop'.pending[i] = n
                BY DEF IsPending
            <3>3. i \in 1..Len(loop.pending) /\ loop.pending[i] = n
                <4>1. loop.pending \in Seq(Nat) /\ Len(loop.pending) \in Nat
                    BY <1>1 DEF LoopTypes
                <4>2. /\ i \in 1..(Len(loop.pending) + 1)
                      /\ n = IF i = Len(loop.pending) + 1 THEN N + 1 ELSE loop.pending[i]
                    BY <2>3, <3>2, <4>1
                <4>3. n # N + 1
                    BY <1>3, <3>1
                <4> QED
                    BY <4>1, <4>2, <4>3
            <3>4. IsPending(n)
                BY <3>3 DEF IsPending
            <3> QED
                BY <1>1, <1>2, <2>3, <3>1, <3>4 DEF EndIsSentAtOnce
        <2> QED
            BY <1>4, <2>1, <2>2, <2>3
    <1>8. BackendFollows'
        <2>1. loop.acked <= loop'.acked /\ 1..loop'.acked \subseteq seen' \cup dropped'
            BY <1>1, <1>2, <1>4 DEF BackendFollows
        <2>2. AppliedOf(loop, applied', seen')
            BY <1>1, <1>2 DEF BackendFollows
        <2>3. \A a \in seen' \cup dropped' \cup wandering' : a \in seen \cup dropped \cup wandering
            BY <1>2
        <2> QED
            BY <1>1, <1>5, <2>1, <2>2, <2>3, BackendKept
    <1>9. LoopData(loop, Len(events))' /\ Posts(loop)'
        BY <1>3, <1>5
          DEF LoopData, LoopTypes, EventsAreCut, BatchesInOrder, Posts, Cut, Places, Holds
    <1> QED
        BY <1>5, <1>6, <1>7, <1>8, <1>9 DEF LoopInv


LEMMA SessionStepKeeps ==
    ASSUME IInv, NEW x \in SessionIds, SessionStep(x)
    PROVE  IInv'
    <1>1. /\ TypeOK /\ SessionsInOrder /\ status \in [SessionIds -> Statuses]
          /\ opening \in SUBSET SessionIds /\ events \in Seq(Events)
        BY DEF IInv, TypeOK
    <1>2. UNCHANGED <<routeVars, phase, registering, retrying, opening, route, runtimeVars>>
        BY DEF SessionStep, routeVars, runtimeVars, openVars
    <1>3. route.open
        BY DEF IInv, ClosedIsIdle, SessionStep, RecordFact, SessionEnding, RecordEnd, EndSilently
    <1>4. CASE RecordFact(x)
        <2>1. Recorded(x, "fact") /\ status' = status
            BY <1>4 DEF RecordFact
        <2>2. LoopInv' /\ loop' \in LoopTypes /\ loop'.stopped = loop.stopped
            BY <2>1, RecordingMoves
        <2>3. /\ events' \in Seq(Events) /\ Len(events) \in Nat
              /\ \A n \in 1..Len(events') : n \in 1..Len(events) \/ n = Len(events) + 1
              /\ \A n \in 1..Len(events) : events'[n] = events[n]
              /\ events'[Len(events) + 1].kind = "fact"
            BY <1>1, <2>1, RecordedFacts
        <2>4. UNCHANGED <<applied, seen, wandering, dropped>>
            BY <2>1 DEF Recorded, backendVars
        <2>5. SessionsInOrder'
            <3>1. \A n \in 1..Len(events') : events'[n].kind = "end" => status'[events'[n].x] = "ended"
                BY <1>1, <2>1, <2>3 DEF SessionsInOrder
            <3> QED
                BY <1>1, <1>2, <2>1, <3>1 DEF SessionsInOrder, SeatsRespected, LiveSessions
        <2>6. TypeOK'
            BY <1>2, <2>1, <2>2, <2>3, <2>4 DEF IInv, TypeOK
        <2>7. OneWay' /\ ClosedIsIdle' /\ OpenIsAttended'
            BY <1>2, <1>3, <2>2 DEF IInv, OneWay, ClosedIsIdle, OpenIsAttended
        <2> QED
            BY <2>2, <2>5, <2>6, <2>7 DEF IInv
    <1>5. CASE RecordEnd(x)
        <2>1. /\ Recorded(x, "end") /\ status[x] = "ending"
              /\ status' = [status EXCEPT ![x] = "ended"]
            BY <1>5 DEF RecordEnd
        <2>2. LoopInv' /\ loop' \in LoopTypes /\ loop'.stopped = loop.stopped
            BY <2>1, RecordingMoves
        <2>3. /\ events' \in Seq(Events) /\ Len(events) \in Nat
              /\ \A n \in 1..Len(events') : n \in 1..Len(events) \/ n = Len(events) + 1
              /\ \A n \in 1..Len(events) : events'[n] = events[n]
              /\ events'[Len(events) + 1].x = x
            BY <1>1, <2>1, RecordedFacts
        <2>4. UNCHANGED <<applied, seen, wandering, dropped>>
            BY <2>1 DEF Recorded, backendVars
        <2>5. /\ status' \in [SessionIds -> Statuses]
              /\ \A y \in SessionIds : status'[y] = IF y = x THEN "ended" ELSE status[y]
            BY <1>1, <2>1 DEF Statuses
        <2>6. SessionsInOrder'
            <3>1. ASSUME NEW n \in 1..Len(events'), events'[n].kind = "end"
                  PROVE  status'[events'[n].x] = "ended"
                <4>1. CASE n \in 1..Len(events)
                    <5>1. events[n] \in Events /\ events'[n] = events[n]
                        BY <1>1, <2>3, <4>1
                    <5>2. status[events[n].x] = "ended" /\ events[n].x \in SessionIds
                        BY <1>1, <3>1, <4>1, <5>1 DEF SessionsInOrder, Events
                    <5> QED
                        BY <2>5, <5>1, <5>2
                <4>2. CASE n = Len(events) + 1
                    BY <2>3, <2>5, <4>2
                <4> QED
                    BY <2>3, <4>1, <4>2
            <3>2. \A y \in opening' : status'[y] = "new"
                BY <1>1, <1>2, <2>1, <2>5 DEF SessionsInOrder
            <3>3. LiveSessions' \subseteq LiveSessions
                BY <2>5 DEF LiveSessions
            <3> QED
                BY <1>1, <3>1, <3>2, <3>3, LiveShrinks DEF SessionsInOrder, SeatsRespected
        <2>7. TypeOK'
            BY <1>2, <2>2, <2>3, <2>4, <2>5 DEF IInv, TypeOK
        <2>8. OneWay' /\ ClosedIsIdle' /\ OpenIsAttended'
            BY <1>2, <1>3, <2>2 DEF IInv, OneWay, ClosedIsIdle, OpenIsAttended
        <2> QED
            BY <2>2, <2>6, <2>7, <2>8 DEF IInv
    <1>6. CASE SessionEnding(x) \/ EndSilently(x)
        <2>1. PICK s \in {"ending", "ended"} :
                  /\ status[x] \in {"open", "ending"} /\ status' = [status EXCEPT ![x] = s]
                  /\ UNCHANGED <<loop, events, heard, backendVars>>
            BY <1>6 DEF SessionEnding, EndSilently
        <2>2. /\ status' \in [SessionIds -> Statuses]
              /\ \A y \in SessionIds : status'[y] = IF y = x THEN s ELSE status[y]
            BY <1>1, <2>1 DEF Statuses
        <2>3. SessionsInOrder'
            <3>1. ASSUME NEW n \in 1..Len(events), events[n].kind = "end"
                  PROVE  status'[events[n].x] = "ended"
                <4>1. events[n] \in Events
                    BY <1>1
                <4>2. status[events[n].x] = "ended" /\ events[n].x \in SessionIds
                    BY <1>1, <3>1, <4>1 DEF SessionsInOrder, Events
                <4> QED
                    BY <2>1, <2>2, <4>2
            <3>2. \A y \in opening' : status'[y] = "new"
                BY <1>1, <1>2, <2>1, <2>2 DEF SessionsInOrder
            <3>3. LiveSessions' \subseteq LiveSessions
                BY <2>2 DEF LiveSessions
            <3> QED
                BY <1>1, <2>1, <3>1, <3>2, <3>3, LiveShrinks DEF SessionsInOrder, SeatsRespected
        <2> QED
            BY <1>1, <1>2, <1>3, <2>1, <2>2, <2>3, SessionMoves
    <1> QED
        BY <1>4, <1>5, <1>6 DEF SessionStep

-----------------------------------------------------------------------------
LEMMA NextKeepsIInv ==
    ASSUME IInv, [Next]_allVars
    PROVE  IInv'
    <1>1. CASE StartProvider \/ TasksOnly \/ RegisterFails \/ RetryTimerFires
        BY <1>1, RegisteringKeeps
    <1>2. CASE \E no \in 1..MaxRoutes : LatePostAnswers(no)
        BY <1>2, RegisteringKeeps
    <1>3. CASE RouteGranted
        BY <1>3, RouteGrantedKeeps
    <1>4. CASE ConnectTimesOut \/ StopProvider
        BY <1>4, GivingUpKeeps
    <1>5. CASE Joins("connected") \/ Joins("reconnected")
        BY <1>5, JoinsKeeps
    <1>6. CASE \/ Drops \/ AccessDenied \/ DenialRefreshed \/ DenialNotRefreshed
               \/ TokenTimerFires \/ TokenRotated \/ RotationRefused \/ PostLosesRoute
               \/ \E no \in 1..MaxRoutes : LatePostLosesRoute(no)
        BY <1>6, SubscriptionKeeps
    <1>7. CASE RouteTicks \/ \E n \in Nonces : Probed(n)
        BY <1>7, QuietKeeps DEF RouteTicks, Probed
    <1>8. CASE LoopSteps
        <2>1. LoopStep /\ UNCHANGED routeVars
            BY <1>8 DEF LoopSteps
        <2>2. CASE TickAgain \/ HoldExpires
            BY <2>1, <2>2, QuietKeeps
        <2>3. CASE PostAcknowledged \/ PostRefused
            BY <2>1, <2>3, PostAnsweredKeeps
        <2>4. CASE PostFails
            BY <2>1, <2>4, PostFailsKeeps
        <2>5. CASE \E b \in 1..MaxEvents + Cardinality(Nonces) : WanderingArrives(b)
            BY <2>1, <2>5, WanderingKeeps
        <2> QED
            BY <2>1, <2>2, <2>3, <2>4, <2>5 DEF LoopStep
    <1>9. CASE \E x \in SessionIds :
                 \/ AcceptManifest(x) \/ OpenAsked(x) \/ OpenTaken(x)
                 \/ LookedUp(x) \/ LookupDropped(x)
        BY <1>9, OpeningKeeps
    <1>10. CASE \E x \in SessionIds : SessionStep(x)
        BY <1>10, SessionStepKeeps
    <1>11. CASE UNCHANGED allVars
        <2>1. UNCHANGED <<vars, opening, phase, registering, retrying, route>>
            BY <1>11 DEF allVars, routeVars, runtimeVars, openVars
        <2>2. OneWay' /\ OpenIsAttended' /\ (~route'.open => ~route.open /\ route' = NoRoute(route'.no))
            BY <2>1 DEF IInv, OneWay, OpenIsAttended, ClosedIsIdle, vars
        <2> QED
            BY <2>1, <2>2, RuntimeMoves DEF IInv, TypeOK
    <1> QED
        BY <1>1, <1>2, <1>3, <1>4, <1>5, <1>6, <1>7, <1>8, <1>9, <1>10, <1>11 DEF Next

LEMMA IInvAlways == Spec => []IInv
    BY InitIInv, NextKeepsIInv, PTL DEF Spec

\* The runtime has one way to a route as long as it is to serve sessions, and serves no
\* more of them than it has seats for, whatever is lost, denied, retried or looked up
\* meanwhile: however many sessions and routes there are (startSessionsProvider,
\* replaceRoute, retryRoute, SessionRoute.openSession).
THEOREM OneWayToServe == Spec => []RuntimeInStep
    <1>1. IInv => RuntimeInStep
        <2> SUFFICES ASSUME IInv PROVE RuntimeInStep
            OBVIOUS
        <2>1. OneRoute
            BY DEF IInv, OneWay, OpenIsAttended, OneRoute
        <2>2. SeatsRespected
            BY DEF IInv, SessionsInOrder
        <2> QED
            BY <2>1, <2>2 DEF RuntimeInStep
    <1> QED
        BY <1>1, IInvAlways, PTL

\* What the backend is told of a route is in step with what happened on it, however many
\* events and batches there are and whatever becomes of the posts: each event is applied
\* once and in order, no batch lists a session as open that it or an earlier one ended,
\* and an end never waits for the next tick (CheckpointLoop.record, cutBatches, drain).
THEOREM CheckpointsInStep == Spec => []BackendInStep
    <1>1. IInv => BackendInStep
        <2> SUFFICES ASSUME IInv PROVE BackendInStep
            OBVIOUS
        <2>1. /\ BackendFollows /\ LoopData(loop, Len(events)) /\ AppliedOf(loop, applied, seen)
              /\ EventsAreCut(loop, Len(events)) /\ BatchesInOrder(loop)
              /\ loop.acked \in Nat /\ applied \in Seq(Nat) /\ seen \in SUBSET Nat
            BY DEF IInv, LoopInv, LoopData, BackendFollows, TypeOK, LoopTypes
        <2>2. ASSUME NEW i \in 1..Len(applied), NEW n \in 1..(applied[i] - 1)
              PROVE  IsApplied(n) \/ WasDropped(n)
            <3>1. applied[i] \in Nat
                BY <2>1
            <3>2. PICK b \in seen : Holds(loop, b, applied[i])
                BY <2>1 DEF AppliedOf
            <3>3. b \in Cut(loop) /\ b \in 1..(loop.acked + 1)
                BY <2>1 DEF BackendFollows
            <3>4. PICK g \in Places(loop, b) : loop.batches[b].events[g] = applied[i]
                BY <3>2 DEF Holds
            <3>5. applied[i] \in 1..(Len(events) - Len(loop.pending))
                BY <2>1, <3>3, <3>4 DEF EventsAreCut
            <3>6. n \in 1..(Len(events) - Len(loop.pending)) /\ n < applied[i]
                <4>1. Len(events) \in Nat /\ Len(loop.pending) \in Nat
                    BY DEF IInv, TypeOK, LoopTypes
                <4> QED
                    BY <3>1, <3>5, <4>1
            <3>7. PICK a \in Cut(loop) : Holds(loop, a, n)
                BY <2>1, <3>6 DEF EventsAreCut
            <3>8. PICK h \in Places(loop, a) : loop.batches[a].events[h] = n
                BY <3>7 DEF Holds
            <3>9. a \in seen \cup dropped
                <4>1. a \in Nat /\ a >= 1 /\ b \in Nat
                    BY <3>3 DEF Cut
                <4>2. CASE a > b
                    <5>1. applied[i] < n
                        BY <2>1, <3>3, <3>4, <3>8, <4>1, <4>2 DEF BatchesInOrder
                    <5> QED
                        BY <3>1, <3>6, <5>1
                <4>3. CASE a = b
                    BY <4>3
                <4>4. CASE a < b
                    <5>1. a \in 1..loop.acked
                        BY <2>1, <3>3, <4>1, <4>4
                    <5> QED
                        BY <2>1, <5>1 DEF BackendFollows
                <4> QED
                    BY <4>1, <4>2, <4>3, <4>4
            <3>10. CASE a \in seen
                BY <2>1, <3>8, <3>10 DEF AppliedOf, IsApplied
            <3>11. CASE a \in dropped
                BY <3>7, <3>11 DEF WasDropped, InBatch, Holds, Places
            <3> QED
                BY <3>9, <3>10, <3>11
        <2>3. AppliedInOrder
            BY <2>1, <2>2 DEF AppliedInOrder, AppliedOf
        <2> QED
            BY <2>3 DEF IInv, LoopInv, BackendInStep
    <1> QED
        BY <1>1, IInvAlways, PTL
=============================================================================
