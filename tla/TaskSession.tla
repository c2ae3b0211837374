---------------------------- MODULE TaskSession ----------------------------
(* The consumer's view of one task: TaskClient's opening of a session       *)
(* (sendMessage, connect), TaskSession's handling of the task channel, and  *)
(* StreamRef. A dispatch runs application callbacks, which may call any of  *)
(* the session's methods, so it is several steps here: the catch-all        *)
(* callbacks, then one step per typed callback, then the rest.              *)
EXTENDS Naturals, Sequences, FiniteSets

CONSTANTS
  Logs,        \* what the task may publish: sequences of events
  Streams,     \* stream ids
  Writers,     \* streams the consumer writes to: their end() awaits a flush
  Callbacks,   \* callbacks the application registers
  Waiters,     \* waitForTerminal and waitForStream calls
  CacheSize,   \* messages the channel replays
  SeenMax,     \* SEEN_TIMETOKENS_MAX
  MaxClients   \* bound on StreamClients per StreamRef

Kinds == {"terminal", "cancel", "artifact", "stream"}

ASSUME LogsAssumption == Logs \subseteq Seq([kind : Kinds, of : Streams \cup {"none"}])
ASSUME BoundsAssumption ==
  CacheSize \in Nat /\ SeenMax \in Nat \ {0} /\ MaxClients \in Nat
ASSUME WindowAssumption == CacheSize <= SeenMax

Synthetic == 0  \* the terminal event made up from the session's state
\* The members of a set of numbers as a sequence, in increasing order.
Sorted(S) == CHOOSE q \in [1..Cardinality(S) -> S] :
               \A j, m \in DOMAIN q : j < m => q[j] < q[m]
Idle == [event |-> 0, phase |-> "idle", todo |-> <<>>, same |-> FALSE]
Unheard == [kind |-> "none", got |-> <<>>]

VARIABLES
  log, published,    \* the task channel
  cursor, next,      \* the subscription: what it started behind, what comes next
  sess,              \* the opening and the session's flags: ended is a terminal state,
                     \* first the delivered terminal, cancelled the sticky
                     \* cancel_requested, closing and awaited the asyncClose under way
  seen,              \* seenTimetokens, oldest first
  artifacts, known,  \* artifacts and streams: the events they came with
  lists,             \* the callback arrays, by kind
  heard,             \* what each callback was called with
  nested,            \* callbacks registered while an event was dispatched
  dispatch,          \* the handleEvent call under way
  waiters,
  clients,           \* per stream, the StreamClients its ref has made
  current, refEnded, \* StreamRef._client (0 is null), _clientEnded
  tracked            \* openStreamClients

wire == <<log, published, cursor, next>>
view == <<seen, artifacts, known>>
calls == <<lists, heard, nested, dispatch, waiters>>
streams == <<clients, current, refEnded, tracked>>
vars == <<wire, sess, view, calls, streams>>

Init ==
  /\ log \in Logs /\ published = 0 /\ cursor = 0 /\ next = 1
  /\ \E via \in {"send", "connect"}, auto \in BOOLEAN :
       sess = [via |-> via, autoDrain |-> auto, mode |-> "created", ended |-> FALSE,
               first |-> <<>>, cancelled |-> <<>>, draining |-> FALSE, closed |-> "no",
               closing |-> FALSE, awaited |-> {}]
  /\ seen = <<>> /\ artifacts = <<>> /\ known = <<>>
  /\ lists = [k \in Kinds |-> <<>>]
  /\ heard = [c \in Callbacks |-> Unheard] /\ nested = {} /\ dispatch = Idle
  /\ waiters = [w \in Waiters |-> [for |-> "none", is |-> "unused"]]
  /\ clients = [s \in Streams |-> <<>>]
  /\ current = [s \in Streams |-> 0] /\ refEnded = {} /\ tracked = {}

KindAt(i) == log[i].kind
Closed == sess.closed # "no"
Subscribed == sess.mode \in {"live", "basic"} /\ ~Closed
Opened == sess.mode \notin {"created", "timed", "failed"}
Delivered == sess.first # <<>>
Indices(k, n) == {i \in 1..n : KindAt(i) = k}
IsKnown(s) == \E j \in DOMAIN known : log[known[j]].of = s

Publish ==
  /\ published < Len(log)
  /\ published' = published + 1
  /\ UNCHANGED <<log, cursor, next, sess, view, calls, streams>>

-----------------------------------------------------------------------------
(* Opening a session.                                                        *)

\* sendMessage with a used idempotency key: the task has already ended.
IdempotentHit ==
  /\ sess.mode = "created" /\ sess.via = "send"
  /\ Indices("terminal", published) # {}
  /\ sess' = [sess EXCEPT !.mode = "preclosed", !.ended = TRUE, !.closed = "yes"]
  /\ UNCHANGED <<wire, view, calls, streams>>

\* The task exists; the server's time comes before its history is read.
AskTime ==
  /\ sess.mode = "created"
  /\ sess' = [sess EXCEPT !.mode = "timed"]
  /\ cursor' = published
  /\ UNCHANGED <<log, published, next, view, calls, streams>>

\* Mutant of SubscribeCursor: always the server's time.
SubscribeCursor_Time == cursor

SubscribeCursor == IF published > 0 THEN published ELSE cursor

\* The history decides whether the task has ended, or for connect the task's
\* state from the RPC, which may be ahead of the channel. A live session starts
\* behind what it has read. (The buffer between subscribe and the switch to live
\* mode stays empty: nothing is awaited in between.)
ReadHistory ==
  /\ sess.mode = "timed"
  /\ artifacts' = Sorted(Indices("artifact", published))
  /\ known' = Sorted({i \in Indices("stream", published) :
                       \A j \in Indices("stream", i - 1) : log[j].of # log[i].of})
  /\ \/ /\ \/ Indices("terminal", published) # {}
           \/ sess.via = "connect" /\ Indices("terminal", Len(log)) # {}
        /\ sess' = [sess EXCEPT !.mode = "terminal", !.ended = TRUE]
        /\ UNCHANGED <<cursor, next>>
     \/ /\ Indices("terminal", published) = {}
        /\ sess' = [sess EXCEPT !.mode = "live"]
        /\ cursor' = SubscribeCursor /\ next' = SubscribeCursor + 1
  /\ UNCHANGED <<log, published, seen, calls, streams>>

Replayed == IF published > CacheSize THEN published - CacheSize ELSE 0

\* sendMessage falls back to what the channel replays; connect fails.
HistoryFails ==
  /\ sess.mode \in {"created", "timed"}
  /\ IF sess.via = "connect"
     THEN /\ sess' = [sess EXCEPT !.mode = "failed"]
          /\ UNCHANGED <<cursor, next>>
     ELSE /\ sess' = [sess EXCEPT !.mode = "basic"]
          /\ cursor' = Replayed /\ next' = Replayed + 1
  /\ UNCHANGED <<log, published, view, calls, streams>>

-----------------------------------------------------------------------------
(* Closing, and stream clients. Ending one may close the session, and closing *)
(* ends all it tracks.                                                        *)

IsClient(c) == c[2] \in DOMAIN clients[c[1]]
Active(c) == IsClient(c) /\ clients[c[1]][c[2]] = "active"
AllClients == Streams \X (1..MaxClients)

\* end() of a client that writes flushes before anything is called back.
Finished(E) == {c \in E : c[1] \notin Writers}
EndClients(E) ==
  /\ clients' = [s \in Streams |-> [n \in DOMAIN clients[s] |->
       IF <<s, n>> \notin E THEN clients[s][n] ELSE IF s \in Writers THEN "ending" ELSE "ended"]]
  /\ current' = [s \in Streams |-> IF \E c \in Finished(E) : c[1] = s THEN 0 ELSE current[s]]
  /\ refEnded' = refEnded \cup {c[1] : c \in Finished(E)}

Settled(for, how) == [w \in Waiters |-> IF waiters[w].is = "pending" /\ waiters[w].for \in for
                                        THEN [waiters[w] EXCEPT !.is = how] ELSE waiters[w]]

\* Mutant of Shut: terminal waiters are left as they are.
Shut_StreamWaitersOnly(by, flags) ==
  /\ sess' = [flags EXCEPT !.closed = by]
  /\ tracked' = {}
  /\ waiters' = Settled({"stream"}, "rejected")
  /\ lists' = [k \in Kinds |-> <<>>]

\* close() but for the clients: the waiters are rejected and the callbacks
\* dropped, though not from the loop that may be running over them.
Shut(by, flags) ==
  /\ sess' = [flags EXCEPT !.closed = by]
  /\ tracked' = {}
  /\ waiters' = Settled({"terminal", "stream"}, "rejected")
  /\ lists' = [k \in Kinds |-> <<>>]

Close ==
  /\ ~Closed
  /\ Shut("app", sess)
  /\ EndClients({c \in tracked : Active(c)})
  /\ dispatch' = [dispatch EXCEPT !.same = FALSE]
  /\ UNCHANGED <<wire, view, heard, nested>>

\* The onInboundDone callbacks of clients C: the last one to leave a draining
\* session closes it; the application does when it ends that one in a callback.
Leave(C, flags) ==
  IF C # {} /\ sess.draining /\ ~Closed /\ tracked \subseteq C
  THEN /\ Shut(IF dispatch = Idle THEN "drained" ELSE "app", flags)
       /\ dispatch' = [dispatch EXCEPT !.same = FALSE]
  ELSE /\ tracked' = tracked \ C
       /\ sess' = flags
       /\ UNCHANGED <<waiters, lists, dispatch>>

EndClient(c) ==
  /\ Active(c)
  /\ EndClients({c})
  /\ Leave(Finished({c}), sess)
  /\ UNCHANGED <<wire, view, heard, nested>>

\* The peer ends the stream; the session then ends the client.
StreamDone(c) ==
  /\ Active(c)
  /\ EndClients({c})
  /\ Leave({c}, sess)
  /\ UNCHANGED <<wire, view, heard, nested>>

\* A flush is over: the client has ended, and its ref forgets the client it has.
EndCompletes(c) ==
  /\ IsClient(c) /\ clients[c[1]][c[2]] = "ending"
  /\ clients' = [clients EXCEPT ![c[1]][c[2]] = "ended"]
  /\ current' = [current EXCEPT ![c[1]] = 0]
  /\ refEnded' = refEnded \cup {c[1]}
  /\ Leave({c}, sess)
  /\ UNCHANGED <<wire, view, heard, nested>>

\* Mutant of DrainTimerFires: ends the clients and leaves closing to them.
DrainTimerFires_LeftToClients ==
  /\ sess.draining /\ ~Closed
  /\ EndClients({c \in tracked : Active(c)})
  /\ UNCHANGED <<wire, sess, view, calls, tracked>>

DrainTimerFires ==
  /\ sess.draining /\ ~Closed
  /\ Shut("drained", sess)
  /\ EndClients({c \in tracked : Active(c)})
  /\ UNCHANGED <<wire, view, heard, nested, dispatch>>

\* asyncClose() awaits the clients it finds, ...
AsyncClose ==
  LET E == {c \in tracked : Active(c)} IN
  /\ ~Closed /\ ~sess.closing
  /\ EndClients(E)
  /\ Leave(Finished(E), [sess EXCEPT !.closing = TRUE, !.awaited = E])
  /\ UNCHANGED <<wire, view, heard, nested>>

\* ... and then forgets every client before it closes.
AsyncCloses ==
  LET done == [sess EXCEPT !.closing = FALSE, !.awaited = {}] IN
  /\ sess.closing /\ \A c \in sess.awaited : clients[c[1]][c[2]] = "ended"
  /\ IF Closed THEN sess' = done /\ tracked' = {} /\ UNCHANGED <<waiters, lists>>
               ELSE Shut("app", done)
  /\ UNCHANGED <<wire, view, heard, nested, dispatch, clients, current, refEnded>>

\* StreamRef.open(), on a stream the session knows: its client while that is
\* active, an error once one has ended or the task has; else a new client.
Open(s) ==
  /\ IsKnown(s)
  /\ current[s] = 0 \/ ~Active(<<s, current[s]>>)
  /\ s \notin refEnded /\ ~sess.ended /\ Len(clients[s]) < MaxClients
  /\ clients' = [clients EXCEPT ![s] = Append(@, "active")]
  /\ current' = [current EXCEPT ![s] = Len(clients[s]) + 1]
  /\ tracked' = tracked \cup {<<s, Len(clients[s]) + 1>>}
  /\ UNCHANGED <<wire, sess, view, calls, refEnded>>

-----------------------------------------------------------------------------
(* Callbacks and waiters.                                                    *)

Terminal == IF Delivered THEN sess.first ELSE IF sess.ended THEN <<Synthetic>> ELSE <<>>

\* Mutant of Sticky: only the terminal event is kept for later callbacks.
Sticky_TerminalOnly(kind) == IF kind = "terminal" THEN Terminal ELSE <<>>

\* What a new callback is called with at once.
Sticky(kind) ==
  CASE kind = "terminal" -> Terminal
    [] kind = "cancel" -> IF Delivered THEN <<>> ELSE sess.cancelled
    [] kind = "artifact" -> artifacts
    [] kind = "stream" -> known

\* onTerminal, onCancelRequested, onArtifact, onStream. The loop over the array
\* sees what is pushed on it.
Register(c, kind) ==
  /\ heard[c] = Unheard
  /\ heard' = [heard EXCEPT ![c] = [kind |-> kind, got |-> Sticky(kind)]]
  /\ lists' = [lists EXCEPT ![kind] = Append(@, c)]
  /\ sess' = IF kind = "terminal" THEN [sess EXCEPT !.first = Terminal] ELSE sess
  /\ IF dispatch = Idle THEN UNCHANGED <<nested, dispatch>>
     ELSE /\ nested' = nested \cup {c}
          /\ dispatch' = IF dispatch.same /\ KindAt(dispatch.event) = kind
                         THEN [dispatch EXCEPT !.todo = Append(@, c)] ELSE dispatch
  /\ UNCHANGED <<wire, view, waiters, streams>>

WaitForTerminal(w) ==
  /\ waiters[w].is = "unused"
  /\ waiters' = [waiters EXCEPT ![w] = [for |-> "terminal",
       is |-> IF Terminal # <<>> THEN "resolved" ELSE IF Closed THEN "rejected" ELSE "pending"]]
  /\ sess' = [sess EXCEPT !.first = Terminal]
  /\ UNCHANGED <<wire, view, lists, heard, nested, dispatch, streams>>

WaitForStream(w) ==
  /\ waiters[w].is = "unused"
  /\ waiters' = [waiters EXCEPT ![w] = [for |-> "stream",
       is |-> IF Closed THEN "rejected" ELSE IF Len(known) = 1 THEN "resolved"
              ELSE IF known # <<>> \/ sess.mode = "terminal" THEN "rejected" ELSE "pending"]]
  /\ UNCHANGED <<wire, sess, view, lists, heard, nested, dispatch, streams>>

WaitTimesOut(w) ==
  /\ waiters[w] = [for |-> "terminal", is |-> "pending"]
  /\ waiters' = [waiters EXCEPT ![w].is = "rejected"]
  /\ UNCHANGED <<wire, sess, view, lists, heard, nested, dispatch, streams>>

-----------------------------------------------------------------------------
(* handleEvent.                                                              *)

IsSeen(i) == \E j \in DOMAIN seen : seen[j] = i

Remember(i) == Append(IF Len(seen) = SeenMax THEN Tail(seen) ELSE seen, i)

\* The channel hands over its next message, or again one of those it replays.
Receive(i) ==
  /\ Subscribed /\ i \in cursor + 1 .. published
  /\ i = next \/ i \in Replayed + 1 .. next - 1
  /\ next' = IF i = next THEN i + 1 ELSE next
  /\ IF IsSeen(i) THEN UNCHANGED <<seen, dispatch>>
     ELSE /\ seen' = Remember(i)
          /\ dispatch' = [Idle EXCEPT !.event = i, !.phase = "event"]
  /\ UNCHANGED <<log, published, cursor, sess, artifacts, known, lists, heard, nested, waiters,
                 streams>>

\* Behind the catch-all callbacks: the bookkeeping of the event's kind, and the
\* loop over its callbacks.
Loop(kind) == dispatch' = [dispatch EXCEPT !.phase = "typed", !.todo = lists[kind], !.same = TRUE]
Drop == dispatch' = Idle

TypedArtifact(i) ==
  /\ KindAt(i) = "artifact"
  /\ artifacts' = Append(artifacts, i)
  /\ Loop("artifact")
  /\ UNCHANGED <<known, sess>>

TypedStream(i) ==
  /\ KindAt(i) = "stream"
  /\ IF IsKnown(log[i].of) THEN Drop /\ UNCHANGED known
     ELSE known' = Append(known, i) /\ Loop("stream")
  /\ UNCHANGED <<artifacts, sess>>

TypedCancel(i) ==
  /\ KindAt(i) = "cancel"
  /\ IF Delivered \/ sess.cancelled # <<>> THEN Drop /\ UNCHANGED sess
     ELSE sess' = [sess EXCEPT !.cancelled = <<i>>] /\ Loop("cancel")
  /\ UNCHANGED <<artifacts, known>>

TypedTerminal(i) ==
  /\ KindAt(i) = "terminal"
  /\ IF Delivered THEN Drop /\ UNCHANGED sess
     ELSE sess' = [sess EXCEPT !.first = <<i>>, !.ended = TRUE] /\ Loop("terminal")
  /\ UNCHANGED <<artifacts, known>>

Typed ==
  /\ dispatch.phase = "event"
  /\ LET i == dispatch.event IN
     TypedArtifact(i) \/ TypedStream(i) \/ TypedCancel(i) \/ TypedTerminal(i)
  /\ UNCHANGED <<wire, seen, lists, heard, nested, waiters, streams>>

CallNext ==
  /\ dispatch.phase \in {"typed", "calling"} /\ dispatch.todo # <<>>
  /\ heard' = [heard EXCEPT ![Head(dispatch.todo)].got = Append(@, dispatch.event)]
  /\ dispatch' = [dispatch EXCEPT !.phase = "calling", !.todo = Tail(@)]
  /\ UNCHANGED <<wire, sess, view, lists, nested, waiters, streams>>

\* Behind the callbacks the waiters resolve; a terminal then drains or closes.
EventHandled ==
  LET kind == KindAt(dispatch.event)
      open == {c \in tracked : Active(c)}
      resolved == Settled({kind}, "resolved")
      ending == kind = "terminal" /\ ~Closed IN
  /\ dispatch.phase \in {"typed", "calling"} /\ dispatch.todo = <<>>
  /\ dispatch' = Idle
  /\ \/ ~ending /\ waiters' = resolved /\ UNCHANGED <<sess, lists, streams>>
     \/ /\ ending /\ sess.autoDrain /\ tracked # {}
        /\ waiters' = resolved
        /\ sess' = [sess EXCEPT !.draining = TRUE]
        /\ UNCHANGED <<lists, streams>>
     \/ /\ ending /\ ~(sess.autoDrain /\ tracked # {})
        /\ sess' = [sess EXCEPT !.draining = sess.autoDrain, !.closed = "drained"]
        /\ waiters' = [w \in Waiters |-> IF resolved[w].is = "pending"
                         THEN [resolved[w] EXCEPT !.is = "rejected"] ELSE resolved[w]]
        /\ lists' = [k \in Kinds |-> <<>>] /\ tracked' = {}
        /\ EndClients(open)
  /\ UNCHANGED <<wire, view, heard, nested>>

-----------------------------------------------------------------------------
\* The application acts between events and from inside a callback.
Application ==
  /\ Opened /\ dispatch.phase \in {"idle", "event", "calling"}
  /\ \/ Close \/ AsyncClose
     \/ \E c \in AllClients : EndClient(c)
     \/ \E s \in Streams : Open(s)
     \/ \E c \in Callbacks, k \in Kinds : Register(c, k)
     \/ \E w \in Waiters : WaitForTerminal(w) \/ WaitForStream(w)

EventLoop ==
  /\ dispatch = Idle
  /\ \/ IdempotentHit \/ AskTime \/ ReadHistory \/ HistoryFails
     \/ \E i \in 1..Len(log) : Receive(i)
     \/ \E c \in AllClients : StreamDone(c) \/ EndCompletes(c)
     \/ DrainTimerFires \/ AsyncCloses
     \/ \E w \in Waiters : WaitTimesOut(w)

Dispatching == Typed \/ CallNext \/ EventHandled

Next == Publish \/ EventLoop \/ Application \/ Dispatching

Spec == Init /\ [][Next]_vars

\* A dispatch is synchronous code and runs to its end; a timer set fires.
FairSpec == Spec /\ WF_vars(Dispatching) /\ WF_vars(dispatch = Idle /\ DrainTimerFires)

-----------------------------------------------------------------------------
(* Properties.                                                               *)

TypeOK ==
  /\ published \in 0..Len(log) /\ cursor \in 0..Len(log) /\ next \in 1..Len(log) + 1
  /\ sess.mode \in {"created", "timed", "live", "basic", "terminal", "preclosed", "failed"}
  /\ sess.closed \in {"no", "yes", "app", "drained"} /\ sess.awaited \subseteq AllClients
  /\ Len(seen) <= SeenMax /\ tracked \subseteq AllClients /\ refEnded \subseteq Streams
  /\ dispatch.phase \in {"idle", "event", "typed", "calling"}
  /\ \A c \in Callbacks : heard[c].kind \in Kinds \cup {"none"}
  /\ \A s \in Streams : current[s] \in 0..Len(clients[s]) /\ Len(clients[s]) <= MaxClients

\* The session holds each artifact the task published behind the session's start
\* and before its place in the channel once, in order, and each stream: between
\* the history it was built from and the subscription nothing is lost, and what
\* the channel replays changes nothing.
CaughtUp ==
  Subscribed /\ dispatch = Idle =>
    LET start == IF sess.mode = "basic" THEN cursor ELSE 0
        Held(k) == {i \in Indices(k, next - 1) : i > start} IN
    /\ artifacts = Sorted(Held("artifact"))
    /\ {log[known[j]].of : j \in DOMAIN known} = {log[i].of : i \in Held("stream")}

\* Until the application closes the session, each artifact and stream it holds
\* and the one terminal event has been handed exactly once to every callback of
\* its kind registered between events, whenever that was, before or behind the
\* event; a cancel_requested at most once.
CallbacksHearAll ==
  dispatch = Idle /\ sess.closed # "app" => \A c \in Callbacks \ nested :
    CASE heard[c].kind = "artifact" -> heard[c].got = artifacts
      [] heard[c].kind = "stream" -> heard[c].got = known
      [] heard[c].kind = "terminal" -> heard[c].got = sess.first
      [] heard[c].kind = "cancel" -> heard[c].got \in {<<>>, sess.cancelled}
      [] OTHER -> TRUE

\* A session and its callbacks have all that the task published.
NothingMissed == TypeOK /\ CaughtUp /\ CallbacksHearAll

\* No promise the session gave is left behind: none is pending once the session
\* has closed, nor one for a terminal or a stream that has come.
WaitersSettle ==
  \A w \in Waiters : waiters[w].is = "pending" =>
    /\ ~Closed /\ sess.mode \in {"live", "basic"}
    /\ dispatch = Idle => IF waiters[w].for = "terminal" THEN ~Delivered ELSE known = <<>>

\* A session that has handed on the task's terminal event comes to close.
DrainCloses == Delivered /\ sess.first # <<Synthetic>> ~> Closed
=============================================================================
