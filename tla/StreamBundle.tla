---------------------------- MODULE StreamBundle ----------------------------
(***************************************************************************)
(* The writing end of a data stream: StreamBundle gathers writes into       *)
(* numbered messages, flushed by size or by a timer and published           *)
(* concurrently, an oversized one in parts, and StreamClient.end closes the  *)
(* stream with a marker numbered behind the last of them.                   *)
(*                                                                          *)
(* A chunk is the number of its write.  The part p of message i is <<i, p>>;  *)
(* a message that goes out whole has one part.                               *)
(***************************************************************************)
EXTENDS Integers, Sequences, FiniteSets

CONSTANTS
    Input,          \* what the application writes: kinds, "text" or "binary"
    Profiles,       \* the pairs of a format and an affinity
    MaxAttempts,    \* MAX_ATTEMPTS of publishMessage
    PartConcurrency, \* DEFAULT_MULTIPART_CONCURRENCY
    MaxParts        \* bound: the parts of a message

ASSUME StreamBundleAssumption ==
    /\ Input \in Seq({"text", "binary"})
    /\ Profiles \subseteq {"bytes", "events"} \X {"dedicated", "shared"}
    /\ {MaxAttempts, PartConcurrency, MaxParts} \subseteq Nat \ {0}

VARIABLES
    format,         \* "bytes" or "events"
    affinity,       \* "dedicated" or "shared"
    writes,         \* how many chunks
    buffer,         \* chunks not yet in a message
    hasBinary,      \* currentBatchHasBinary
    flushTimer,
    messages,       \* [kind, chunks, encoding, parts]
    ending,         \* how far end() is
    wire            \* the parts that have reached the channel

writerVars ==
    <<format, affinity, writes, buffer, hasBinary, flushTimer, messages, ending, wire>>

bufferVars == <<writes, buffer, hasBinary, flushTimer>>

Encodings == {"utf8", "base64"}

\* parts[p] is the attempt that publishes part p, 0 once it is settled.
Message ==
    [kind : {"data", "end"}, chunks : Seq(DOMAIN Input), encoding : Encodings,
     parts : UNION {[1..k -> 0..MaxAttempts] : k \in 1..MaxParts}]

Settled(m) == {p \in DOMAIN m.parts : m.parts[p] = 0}

\* runWithConcurrency(): a worker that is free takes the next part.
Publishing(m) ==
    {p \in DOMAIN m.parts \ Settled(m) : p <= PartConcurrency + Cardinality(Settled(m))}

PublishesInFlight == {i \in 1..Len(messages) : Publishing(messages[i]) # {}}

-----------------------------------------------------------------------------
Data(chunks, binary, parts) ==
    [kind |-> "data", chunks |-> chunks,
     encoding |-> IF binary THEN "base64" ELSE "utf8",
     parts |-> [p \in 1..parts |-> 1]]

EndMarker ==
    [kind |-> "end", chunks |-> <<>>, encoding |-> "utf8", parts |-> [p \in {1} |-> 1]]

\* Mutant of Flushed: the batch is cut when its publish has been started.
Flushed_KeepsBuffer(chunks, binary) ==
    /\ IF chunks = <<>> THEN UNCHANGED messages
       ELSE \E parts \in 1..MaxParts : messages' = Append(messages, Data(chunks, binary, parts))
    /\ buffer' = chunks
    /\ hasBinary' = FALSE
    /\ flushTimer' = FALSE

\* flush() or flushEvents() of what the buffer has become: one message, its
\* number taken at once, published whole or in parts.
Flushed(chunks, binary) ==
    /\ IF chunks = <<>> THEN UNCHANGED messages
       ELSE \E parts \in 1..MaxParts : messages' = Append(messages, Data(chunks, binary, parts))
    /\ buffer' = <<>>
    /\ hasBinary' = FALSE
    /\ flushTimer' = FALSE

Buffered(binary) ==
    /\ ending = "no"
    /\ writes < Len(Input)
    /\ writes' = writes + 1
    /\ LET chunks == Append(buffer, writes') IN
       \/ Flushed(chunks, binary)
       \/ /\ buffer' = chunks
          /\ hasBinary' = binary
          /\ flushTimer' = TRUE
          /\ UNCHANGED messages
    /\ UNCHANGED <<format, affinity, ending, wire>>

\* A write that fills the bundle flushes it, any other makes sure that the
\* timer runs.  An event says itself that it is binary: its batch is not marked.
Write == Buffered(format = "bytes" /\ (hasBinary \/ Input[writes + 1] = "binary"))

FlushTimerFires ==
    /\ flushTimer
    /\ Flushed(buffer, hasBinary)
    /\ UNCHANGED <<format, affinity, writes, ending, wire>>

PublishSucceeds(i, p) ==
    /\ i \in PublishesInFlight /\ p \in Publishing(messages[i])
    /\ messages' = [messages EXCEPT ![i].parts[p] = 0]
    /\ wire' = wire \cup {<<i, p>>}
    /\ UNCHANGED <<format, affinity, bufferVars, ending>>

\* An attempt fails, though the part may have gone out, and is repeated; after
\* MaxAttempts the part is given up without a word to the writer.
PublishFails(i, p) ==
    /\ i \in PublishesInFlight /\ p \in Publishing(messages[i])
    /\ messages' = [messages EXCEPT ![i].parts[p] = IF @ < MaxAttempts THEN @ + 1 ELSE 0]
    /\ wire' \in {wire, wire \cup {<<i, p>>}}
    /\ UNCHANGED <<format, affinity, bufferVars, ending>>

\* end(): no more writes, and the flushes under way are waited for.
EndStream ==
    /\ ending = "no"
    /\ ending' = "flights"
    /\ flushTimer' = FALSE
    /\ UNCHANGED <<format, affinity, writes, buffer, hasBinary, messages, wire>>

FlushRest ==
    /\ ending = "flights" /\ PublishesInFlight = {}
    /\ ending' = "flush"
    /\ Flushed(buffer, hasBinary)
    /\ UNCHANGED <<format, affinity, writes, wire>>

\* publishEndMarker(), which a shared stream leaves out.
PublishEndMarker ==
    /\ ending = "flush" /\ PublishesInFlight = {}
    /\ IF affinity = "dedicated"
       THEN ending' = "marker" /\ messages' = Append(messages, EndMarker)
       ELSE ending' = "ended" /\ UNCHANGED messages
    /\ UNCHANGED <<format, affinity, bufferVars, wire>>

MarkerSettles ==
    /\ ending = "marker" /\ PublishesInFlight = {}
    /\ ending' = "ended"
    /\ UNCHANGED <<format, affinity, bufferVars, messages, wire>>

WriterInit ==
    /\ \E profile \in Profiles : format = profile[1] /\ affinity = profile[2]
    /\ writes = 0
    /\ buffer = <<>>
    /\ hasBinary = FALSE
    /\ flushTimer = FALSE
    /\ messages = <<>>
    /\ ending = "no"
    /\ wire = {}

WriterNext ==
    \/ Write \/ FlushTimerFires
    \/ \E i \in 1..Len(Input) + 1, p \in 1..MaxParts : PublishSucceeds(i, p) \/ PublishFails(i, p)
    \/ EndStream \/ FlushRest \/ PublishEndMarker \/ MarkerSettles

=============================================================================
