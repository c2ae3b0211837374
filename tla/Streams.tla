------------------------------- MODULE Streams -------------------------------
(***************************************************************************)
(* A data stream from one writer to one reader.  The channel delivers what   *)
(* has reached it at any time, in any order, any number of times, or never.  *)
(***************************************************************************)
EXTENDS StreamBundle, StreamClient, SequencesExt

pipeVars == <<writerVars, readerVars>>

ASSUME StreamsAssumption == MaxMessages = Len(Input) + 1

StreamInit == WriterInit /\ ReaderInit

\* handleInboundMessage(): message i of the writer has the number i - 1.
Deliver(i, p) ==
    /\ <<i, p>> \in wire
    /\ LET total == Len(messages[i].parts) IN
       \/ messages[i].kind = "end" /\ ReceiveEnd(i - 1)
       \/ messages[i].kind = "data" /\ total = 1 /\ ReceiveData(i - 1)
       \/ messages[i].kind = "data" /\ total > 1 /\ ReceivePart(i - 1, p, total)
    /\ UNCHANGED writerVars

StreamNext ==
    \/ WriterNext /\ UNCHANGED readerVars
    \/ \E i \in 1..MaxMessages, p \in 1..MaxParts : Deliver(i, p)
    \/ (ReorderTimerFires \/ CallNext \/ EndReader \/ FatalStatus) /\ UNCHANGED writerVars

StreamSpec == StreamInit /\ [][StreamNext]_pipeVars

\* The reader's gap timer fires.  Nothing is assumed of the writer, of the
\* channel or of the application.
Fairness == WF_pipeVars(ReorderTimerFires /\ UNCHANGED writerVars)

StreamFairSpec == StreamSpec /\ Fairness

-----------------------------------------------------------------------------
\* Batches of chunks, one behind the other, give them in the order written, none twice.
Ascending(batches) ==
    \A i, j \in DOMAIN batches : \A k \in DOMAIN batches[i], l \in DOMAIN batches[j] :
        i < j \/ (i = j /\ k < l) => batches[i][k] < batches[j][l]

\* The chunks, or the events, of the messages that have been yielded.
Chunks(numbers) == [i \in DOMAIN numbers |-> messages[numbers[i] + 1].chunks]

\* Every chunk written is in one message or waits in the buffer, in order; what
\* waits has a flush coming, and nothing is behind the end marker.
ChunksAccountedFor ==
    /\ LET batches == Append([i \in DOMAIN messages |-> messages[i].chunks], buffer) IN
       Ascending(batches) /\ UNION {Range(batches[i]) : i \in DOMAIN batches} = 1..writes
    /\ buffer # <<>> => flushTimer \/ ending = "flights"
    /\ \A i \in DOMAIN messages : messages[i].kind = "end" => i = Len(messages) /\ buffer = <<>>

\* The reader yields chunks in the order written, none of them twice, and a
\* binary one is decoded as binary.
ReadInOrder ==
    /\ Ascending(Chunks(Yielded))
    /\ format = "bytes" =>
          \A i \in DOMAIN messages : \A k \in DOMAIN messages[i].chunks :
             Input[messages[i].chunks[k]] = "binary" => messages[i].encoding = "base64"

\* What is put in order has arrived in all its parts, and the groups that wait
\* for the rest of theirs are few, incomplete, and one for each message.
Reassembled ==
    /\ \A n \in r.buffer \cup Range(Yielded) :
          \A p \in DOMAIN messages[n + 1].parts : <<n + 1, p>> \in wire
    /\ Len(r.groups) <= MaxGroups + 1
    /\ \A i, j \in DOMAIN r.groups : r.groups[i].n = r.groups[j].n => i = j
    /\ \A i \in DOMAIN r.groups : r.groups[i].got # DOMAIN messages[r.groups[i].n + 1].parts

\* An iterator is left waiting only while the stream may still bring something.
WaiterIsServed ==
    r.waiting => /\ r.queue = <<>> /\ ~r.done
                 /\ r.endSeq = NoEnd \/ r.next < r.endSeq

\* The reader's own bookkeeping: types, parts, groups and the iterator agree.
ReaderInStep == ReaderTypeOK /\ Reassembled /\ WaiterIsServed

\* A message buffered behind a gap is eventually yielded, unless the reader ends.
\* Number 0 has no gap before it, and the last number is the marker's.
BufferedIsYielded ==
    \A n \in Numbers \ {0, MaxMessages - 1} :
        n \in r.buffer ~> ~r.attached \/ n \in Range(Yielded)

=============================================================================
