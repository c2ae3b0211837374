---------------------------- MODULE StreamClient ----------------------------
(***************************************************************************)
(* The reading end of a data stream: StreamClient reassembles messages that *)
(* come in parts, puts the numbered messages in order, gives a missing one  *)
(* up when the gap timer fires, hands them to one iterator, and completes   *)
(* it behind the end marker.                                                *)
(*                                                                          *)
(* A message is its number, counted from 0 whatever the format.  The client *)
(* is the record r, and each handler a function of it: none of them awaits. *)
(***************************************************************************)
EXTENDS Integers, Sequences, SequencesExt

CONSTANTS
    MaxGroups,      \* MULTIPART_MAX_GROUPS
    MaxMessages     \* bound: the numbers a stream uses, its marker included

ASSUME StreamClientAssumption == {MaxGroups, MaxMessages} \subseteq Nat

VARIABLE r

readerVars == <<r>>

Numbers == 0..(MaxMessages - 1)
NoEnd == -1

Readers ==
    [next : 0..MaxMessages,             \* nextExpectedSeq
     buffer : SUBSET Numbers,           \* reorderBuffer
     groups : Seq([n : Numbers, got : SUBSET Nat]),  \* multipartBuffers, oldest first
     timer : BOOLEAN,                   \* reorderTimer
     endSeq : Numbers \cup {NoEnd},
     done : BOOLEAN,                    \* inboundDone
     queue : Seq(Numbers),              \* inboundQueue
     waiting : BOOLEAN,                 \* inboundResolve: next() has been called
     read : Seq(Numbers),               \* what the iterator has yielded
     attached : BOOLEAN]                \* the message listener is installed

-----------------------------------------------------------------------------
\* enqueueInbound() for the messages first..last, one after the other: an
\* iterator that waits gets the first, the rest are queued.
EnqueueInbound(c, first, last) ==
    LET msgs == [i \in 1..(last - first + 1) |-> first + i - 1] IN
    IF c.waiting /\ msgs # <<>>
    THEN [c EXCEPT !.waiting = FALSE, !.read = Append(@, first), !.queue = @ \o Tail(msgs)]
    ELSE [c EXCEPT !.queue = @ \o msgs]

\* flushConsecutive(), from n: n itself has arrived.
EmitFrom(c, n) ==
    LET gaps == {k \in n + 1..MaxMessages : k \notin c.buffer}
        stop == Min(gaps)
    IN  [EnqueueInbound(c, n, stop - 1) EXCEPT
            !.next = stop,
            !.buffer = @ \ (n..(stop - 1))]

\* Mutant of RestartTimer: the timer is cancelled whatever still waits.
RestartTimer_Cancels(c) == [c EXCEPT !.timer = FALSE]

\* cancelAndRestartTimerIfNeeded()
RestartTimer(c) == [c EXCEPT !.timer = (c.buffer # {})]

Complete(c) == [c EXCEPT !.done = TRUE, !.waiting = FALSE, !.buffer = {}, !.timer = FALSE]

CheckEndReached(c) ==
    IF c.endSeq # NoEnd /\ c.next >= c.endSeq THEN Complete(c) ELSE c

\* Mutant of Rejects: what has been yielded is not remembered.
Rejects_Buffered(c, n) ==
    \/ c.endSeq # NoEnd /\ n >= c.endSeq
    \/ n \in c.buffer

\* Past the boundary, already yielded or given up, or already buffered.
Rejects(c, n) ==
    \/ c.endSeq # NoEnd /\ n >= c.endSeq
    \/ n < c.next
    \/ n \in c.buffer

\* enqueueReordered()
Enqueue(c, n) ==
    IF Rejects(c, n) THEN c
    ELSE IF n = c.next
    THEN CheckEndReached(RestartTimer(EmitFrom(c, n)))
    ELSE [c EXCEPT !.buffer = @ \cup {n}, !.timer = TRUE]

-----------------------------------------------------------------------------
\* A whole data message arrives, live or replayed from the channel's cache.
ReceiveData(n) ==
    /\ r.attached
    /\ r' = Enqueue(r, n)

\* The newest groups, at most MaxGroups, of those that are not too old: age is
\* a matter of time, and takes the oldest first.
Evicted(groups) ==
    {SubSeq(groups, k, Len(groups)) :
        k \in {j \in 1..(Len(groups) + 1) : Len(groups) + 1 - j <= MaxGroups}}

\* The groups with part p of message n added to its group, or to a new one.
WithPart(groups, n, p) ==
    IF \E i \in DOMAIN groups : groups[i].n = n
    THEN [i \in DOMAIN groups |->
            IF groups[i].n = n THEN [groups[i] EXCEPT !.got = @ \cup {p}] ELSE groups[i]]
    ELSE Append(groups, [n |-> n, got |-> {p}])

\* Mutant of IsWhole: the last part arriving is taken for the whole.
IsWhole_Last(group, total) == total \in group.got

IsWhole(group, total) == group.got = 1..total

\* A part of a message arrives: handleMultipartPart().
ReceivePart(n, p, total) ==
    /\ r.attached
    /\ \E kept \in Evicted(r.groups) :
          LET groups == WithPart(kept, n, p)
              at == CHOOSE i \in DOMAIN groups : groups[i].n = n
          IN  r' = IF IsWhole(groups[at], total)
                   THEN Enqueue([r EXCEPT !.groups = RemoveAt(groups, at)], n)
                   ELSE [r EXCEPT !.groups = groups]

\* The end marker arrives; a gap before it is given the timer's time.
ReceiveEnd(n) ==
    /\ r.attached
    /\ LET c == [r EXCEPT !.endSeq = n] IN
       r' = IF c.next >= n THEN CheckEndReached(c) ELSE [c EXCEPT !.timer = TRUE]

\* The gap timer gives up what is missing: up to the next buffered message, or
\* up to the end.
ReorderTimerFires ==
    /\ r.timer
    /\ LET c == [r EXCEPT !.timer = FALSE] IN
       r' = IF c.buffer # {}
            THEN CheckEndReached(RestartTimer(EmitFrom(c, Min(c.buffer))))
            ELSE IF c.endSeq # NoEnd /\ c.next < c.endSeq
            THEN CheckEndReached([c EXCEPT !.next = c.endSeq])
            ELSE c

\* The application asks the iterator for the next message.
CallNext ==
    /\ ~r.waiting
    /\ \/ /\ r.queue # <<>>
          /\ r' = [r EXCEPT !.read = Append(@, Head(r.queue)), !.queue = Tail(@)]
       \/ /\ r.queue = <<>> /\ ~r.done
          /\ r' = [r EXCEPT !.waiting = TRUE]

\* end() of an inbound client, by the application or by the session that owns
\* the stream.
EndReader ==
    /\ r.attached
    /\ r' = [Complete(r) EXCEPT !.attached = FALSE, !.groups = <<>>]

\* A status of the transport that is fatal ends the client; any other error is
\* only reported.
FatalStatus == EndReader

ReaderInit ==
    r = [next |-> 0, buffer |-> {}, groups |-> <<>>, timer |-> FALSE, endSeq |-> NoEnd,
         done |-> FALSE, queue |-> <<>>, waiting |-> FALSE, read |-> <<>>, attached |-> TRUE]

-----------------------------------------------------------------------------
\* What the iterator has yielded or will yield without another message.
Yielded == r.read \o r.queue

\* What is buffered is ahead of the next number, and has a timer.
ReaderTypeOK ==
    /\ r \in Readers
    /\ \A n \in r.buffer : r.next < n
    /\ r.buffer # {} => r.timer /\ ~r.done

=============================================================================
