---------------------------- MODULE ConsumerAuth ----------------------------
(* Credentials and the calls that use them: ConsumerAuth with its proactive  *)
(* refresh, the reactive refresh that concurrent callers share and the hold  *)
(* a 429 imposes; TaskClient's operations, each a sequence of requests with  *)
(* its own guards and its one retry; and the backend that issues, rotates    *)
(* and expires tokens. Tokens are numbered as the backend issues them; an    *)
(* access token and the refresh token issued with it have one number.        *)
EXTENDS Naturals, Sequences

CONSTANTS
  Calls,       \* calls the application makes
  Operations,  \* what each of them is, by mode: a sequence of requests
  MaxIssued,   \* bound on tokens the backend issues, by mode
  Chains,      \* proactive refreshes that may be under way at once: a bound
  MaxRetries   \* MAX_RETRIES

ASSUME RetriesAssumption == MaxRetries \in Nat \ {0}

\* What a call may ask for. Only sendMessage submits a message, and it does so once.
Requests ==
  [is : {"ready", "file", "store", "submit", "rpc", "header", "token", "fetch", "card"},
   preflight : BOOLEAN, awaits : BOOLEAN, retries : BOOLEAN]
ASSUME OperationsAssumption ==
  \A m \in DOMAIN Operations, c \in Calls :
    LET op == Operations[m][c] IN
    /\ op \in Seq(Requests) \ {<<>>}
    /\ \A i, j \in DOMAIN op : op[i].is = "submit" /\ op[j].is = "submit" => i = j

NoTimer == "none"
Init_ == "init"
Reactive == "reactive"
ASSUME ChainsAssumption == Chains # {} /\ {NoTimer, Init_, Reactive} \cap Chains = {}

Refreshers == Chains \cup {Init_, Reactive}
NoAttempt == [is |-> "none", kind |-> "none", using |-> 0, got |-> 0]
Endings == {"done", "failed", "null"}
NoChain == [is |-> "none", failures |-> 0]

VARIABLES
  mode,             \* "apiKey", "provider" (a token endpoint or provider function), or
                    \* "agent", whose credentials are AgentAuth's
  issued, expired,  \* tokens issued, of which the last is the refresh token the backend
                    \* still accepts; access tokens up to expired are refused
  token,            \* _token and _refreshToken, which are set together
  ready, destroyed, failed,  \* _initialized, _destroyed, whether _lastAuthError is set
  held,             \* the rate-limit hold is in force
  attempt,          \* the request each refresher has in flight
  chain, tracked,   \* proactive refreshes, and the one whose timer is _refreshTimer
  call              \* per call: where it is, the token its request carries, the requests
                    \* left, the tasks it made, whether its connection was lost before

vars == <<mode, issued, expired, token, ready, destroyed, failed, held, attempt, chain, tracked,
          call>>

AuthInit ==
  /\ mode \in DOMAIN Operations
  /\ issued = 0 /\ expired = 0 /\ token = 0
  /\ ready = FALSE /\ destroyed = FALSE /\ failed = FALSE /\ held = FALSE
  /\ attempt = [r \in Refreshers |-> NoAttempt]
  /\ chain = [c \in Chains |-> NoChain] /\ tracked = NoTimer
  /\ call = [c \in Calls |-> [at |-> "idle", with |-> 0, todo |-> Operations[mode][c], made |-> 0,
                             lost |-> FALSE]]

Busy(r) == attempt[r].is # "none"

-----------------------------------------------------------------------------
(* One refresh attempt.                                                      *)

\* Mutant of Sending: a login does not look at the hold.
Sending_LoginAnyway(kind) ==
  [is |-> IF held /\ mode # "provider" /\ kind = "refresh" THEN "held" ELSE "sent",
   kind |-> kind, using |-> token, got |-> 0]

\* A hold in force fails the attempt at once, without a request.
Sending(kind) ==
  [is |-> IF held /\ mode # "provider" THEN "held" ELSE "sent",
   kind |-> kind, using |-> token, got |-> 0]

Kind == IF mode # "provider" THEN "refresh" ELSE "login"

\* The backend issues a token, refuses a refresh token it has rotated, limits the
\* rate or fails; an answer may be lost behind a rotation.
ServerAnswers(r) ==
  LET answer(is, got) == attempt' = [attempt EXCEPT ![r] = [NoAttempt EXCEPT !.is = is, !.got = got]]
      refused == attempt[r].kind = "refresh" /\ attempt[r].using # issued IN
  /\ attempt[r].is = "sent"
  /\ \/ /\ ~refused /\ issued < MaxIssued[mode]
        /\ issued' = issued + 1
        /\ answer("ok", issued + 1) \/ answer("failed", 0)
     \/ refused /\ answer("invalid", 0) /\ UNCHANGED issued
     \/ mode # "provider" /\ answer("limited", 0) /\ UNCHANGED issued
     \/ answer("failed", 0) /\ UNCHANGED issued
  /\ UNCHANGED <<mode, expired, token, ready, destroyed, failed, held, chain, tracked,
                 call>>

HoldEnds ==
  /\ held /\ held' = FALSE
  /\ UNCHANGED <<mode, issued, expired, token, ready, destroyed, failed, attempt, chain, tracked,
                 call>>

TokensExpire ==
  /\ expired < issued /\ expired' = issued
  /\ UNCHANGED <<mode, issued, token, ready, destroyed, failed, held, attempt,
                 chain, tracked, call>>

\* A refresh token the backend no longer knows: log in again.
LogsInAgain(r) ==
  /\ attempt[r].is = "invalid"
  /\ attempt' = [attempt EXCEPT ![r] = Sending("login")]
  /\ UNCHANGED <<mode, issued, expired, token, ready, destroyed, failed, held, chain, tracked,
                 call>>

-----------------------------------------------------------------------------
(* Proactive refresh.                                                        *)

Free(ch) == {c \in Chains : ch[c].is = "none"}

\* _scheduleRefresh: the timer that is tracked makes room for a new one.
Schedule(ch) ==
  LET rest == IF tracked = NoTimer THEN ch ELSE [ch EXCEPT ![tracked] = NoChain]
      c == CHOOSE x \in Free(rest) : TRUE IN
  IF destroyed THEN chain' = ch /\ UNCHANGED tracked
  ELSE chain' = [rest EXCEPT ![c].is = "armed"] /\ tracked' = c

\* Mutant of TimerFires: only the timer cleared by destroy() is stopped.
TimerFires_Anyway(c) ==
  /\ chain[c].is = "armed"
  /\ tracked' = NoTimer
  /\ chain' = [chain EXCEPT ![c].is = "running"]
  /\ attempt' = [attempt EXCEPT ![c] = Sending(Kind)]
  /\ UNCHANGED <<mode, issued, expired, token, ready, destroyed, failed, held, call>>

TimerFires(c) ==
  /\ chain[c].is = "armed"
  /\ tracked' = NoTimer
  /\ IF destroyed THEN chain' = [chain EXCEPT ![c] = NoChain] /\ UNCHANGED attempt
     ELSE /\ Free(chain) # {}    \* the bound on refreshes under way at once
          /\ chain' = [chain EXCEPT ![c].is = "running"]
          /\ attempt' = [attempt EXCEPT ![c] = Sending(Kind)]
  /\ UNCHANGED <<mode, issued, expired, token, ready, destroyed, failed, held, call>>

\* _retryProactiveRefreshIn: the new timer is tracked, whichever was.
Retry(c, failures) ==
  IF destroyed THEN chain' = [chain EXCEPT ![c] = NoChain] /\ UNCHANGED tracked
  ELSE chain' = [chain EXCEPT ![c] = [is |-> "armed", failures |-> failures]] /\ tracked' = c

\* destroy() clears the timer it knows of; a request in flight goes on.
Destroy ==
  /\ ~destroyed /\ destroyed' = TRUE
  /\ chain' = IF tracked = NoTimer THEN chain ELSE [chain EXCEPT ![tracked] = NoChain]
  /\ tracked' = NoTimer
  /\ UNCHANGED <<mode, issued, expired, token, ready, failed, held, attempt, call>>

-----------------------------------------------------------------------------
(* Calls. A call is a sequence of requests; each says whether preflight and   *)
(* the initial token come first, and whether a lost connection is retried.    *)

Plain(name) == [is |-> name, preflight |-> FALSE, awaits |-> FALSE, retries |-> FALSE]

BackendFetch == [Plain("file") EXCEPT !.preflight = TRUE]
CallRpc == [is |-> "rpc", preflight |-> TRUE, awaits |-> TRUE, retries |-> TRUE]
ReadToken == Plain("token")
AuthenticatedFetch == Plain("fetch")   \* of AgentAuth

RequestUpload == BackendFetch
UploadToStorage == Plain("store")
ConfirmUpload == BackendFetch
UploadFile == <<RequestUpload, UploadToStorage, ConfirmUpload>>
AgentUpload == <<AuthenticatedFetch, UploadToStorage, AuthenticatedFetch>>
GetToken == <<AuthenticatedFetch>>     \* of a task's connections

\* sendMessage waits for the credentials, uploads a file and calls SendMessage.
SendMessage ==
  <<[CallRpc EXCEPT !.is = "ready"]>> \o UploadFile \o <<[CallRpc EXCEPT !.is = "submit"]>>

\* connect wants a token that is there, asks for the task and for a read token.
Connect == <<[Plain("header") EXCEPT !.preflight = TRUE], CallRpc, ReadToken>>

GetTask == <<CallRpc>>

\* A lookup asks for the bearer credential each time.
Lookup(name) == [Plain(name) EXCEPT !.preflight = TRUE, !.awaits = TRUE]
GetAgentCard == <<Lookup("card")>>

Request(c) == Head(call[c].todo)
Is(c, name) == Request(c).is = name
Over(k, how) == [k EXCEPT !.at = how, !.with = 0, !.todo = IF how = "null" THEN @ ELSE <<>>]
Onward(k) == IF Len(k.todo) = 1 THEN Over(k, "done")
             ELSE [k EXCEPT !.at = "next", !.with = 0, !.todo = Tail(@)]

\* A request goes out with the token of this moment. sendMessage has none of its
\* own at its head, and connect only looks whether there is a token; the storage
\* an upload is posted to takes no token.
Sent(k, with) ==
  CASE Head(k.todo).is = "ready" -> Onward(k)
    [] Head(k.todo).is = "header" -> IF with = 0 THEN Over(k, "failed") ELSE Onward(k)
    [] Head(k.todo).is = "store" -> [k EXCEPT !.at = "sent"]
    [] OTHER -> [k EXCEPT !.at = IF @ = "refreshing" THEN "resent" ELSE "sent", !.with = with]

\* What becomes of the calls that wait for the initial token ...
InitSettles(ok, with) ==
  call' = [c \in Calls |->
    LET k == call[c] IN
    IF k.at # "starting" THEN k ELSE IF ok THEN Sent(k, with) ELSE Over(k, "failed")]

\* Mutant of ReactiveSettles: calls that joined the refresh hear of a success only.
ReactiveSettles_SuccessOnly(ok, with) ==
  call' = [c \in Calls |->
    LET k == call[c] IN
    CASE k.at = "refreshing" /\ ok -> Sent(k, with)
      [] k.at = "preflight" /\ ok -> [k EXCEPT !.at = "passed"]
      [] k.at = "renewing" /\ ok -> [k EXCEPT !.at = "next", !.todo = <<Lookup("card again")>>]
      [] OTHER -> k]

\* Mutant of ReactiveSettles: a card lookup takes a failed refresh for an answer.
ReactiveSettles_Null(ok, with) ==
  call' = [c \in Calls |->
    LET k == call[c] IN
    CASE k.at \notin {"refreshing", "preflight", "renewing"} -> k
      [] k.at = "refreshing" /\ ok -> Sent(k, with)
      [] k.at = "preflight" /\ ok -> [k EXCEPT !.at = "passed"]
      [] k.at = "renewing" /\ ok -> [k EXCEPT !.at = "next", !.todo = <<Lookup("card again")>>]
      [] OTHER -> Over(k, IF k.at = "renewing" THEN "null" ELSE "failed")]

\* ... or for the shared refresh: one more request, the first one, one more lookup.
ReactiveSettles(ok, with) ==
  call' = [c \in Calls |->
    LET k == call[c] IN
    CASE k.at \notin {"refreshing", "preflight", "renewing"} -> k
      [] k.at = "refreshing" /\ ok -> Sent(k, with)
      [] k.at = "preflight" /\ ok -> [k EXCEPT !.at = "passed"]
      [] k.at = "renewing" /\ ok -> [k EXCEPT !.at = "next", !.todo = <<Lookup("card again")>>]
      [] OTHER -> Over(k, "failed")]

\* The reactive refresh a caller needs, joined if one is in flight.
Join == attempt' = IF Busy(Reactive) THEN attempt ELSE [attempt EXCEPT ![Reactive] = Sending(Kind)]

\* ensureReady: the first caller fetches the initial token, the others share it.
Passes(c) ==
  IF ready \/ mode = "agent" \/ ~Request(c).awaits
  THEN call' = [call EXCEPT ![c] = Sent(@, token)] /\ UNCHANGED attempt
  ELSE /\ call' = [call EXCEPT ![c].at = "starting"]
       /\ attempt' = IF Busy(Init_) THEN attempt
                     ELSE [attempt EXCEPT ![Init_] = Sending("login")]

\* preflightAuthOrThrow: with an error on record one refresh is tried first. A
\* handler, which makes an agent's calls, runs once the agent has connected.
CallStarts(c) ==
  /\ call[c].at \in {"idle", "next"} /\ (mode = "agent" => token # 0)
  /\ IF ~failed \/ ~Request(c).preflight THEN Passes(c)
     ELSE IF destroyed THEN call' = [call EXCEPT ![c] = Over(@, "failed")] /\ UNCHANGED attempt
     ELSE call' = [call EXCEPT ![c].at = "preflight"] /\ Join
  /\ UNCHANGED <<mode, issued, expired, token, ready, destroyed, failed, held, chain, tracked>>

CallPasses(c) ==
  /\ call[c].at = "passed" /\ Passes(c)
  /\ UNCHANGED <<mode, issued, expired, token, ready, destroyed, failed, held, chain, tracked>>

\* The backend accepts the token or answers 401, except that for a card lookup,
\* which needs no credentials, a stale token finds nothing. The request may be
\* carried out and still be answered by an error, or not at all.
Answers(c) ==
  IF call[c].with > expired \/ Is(c, "store") THEN {"ok", "error", "lost"}
  ELSE IF Is(c, "card") \/ Is(c, "card again") THEN {"empty"} ELSE {"unauthorized"}
Makes(c, answer) ==
  IF ~Is(c, "submit") \/ answer = "unauthorized" THEN {0}
  ELSE IF answer = "ok" THEN {1} ELSE {0, 1}

\* Mutant of Refreshable: whatever went wrong, a refresh is tried.
Refreshable_Always(answer) == answer \in {"unauthorized", "error"}

\* isAuthRefreshRetryable
Refreshable(answer) == answer = "unauthorized"

\* withRetry begins again, with the token of that moment, when a connection was
\* lost: once in a call, a bound.
WithRetry(k) == Sent([k EXCEPT !.at = "sent", !.lost = TRUE], token)

\* One refresh and one more request after a 401; an empty lookup is repeated behind a refresh, or is
\* answered null.
CallAnswered(c) ==
  /\ call[c].at \in {"sent", "resent"}
  /\ \E answer \in Answers(c) : \E made \in Makes(c, answer) :
       LET k == [call[c] EXCEPT !.made = @ + made, !.with = 0]
           renews == answer = "empty" /\ Is(c, "card") /\ ~destroyed
           refreshes == Refreshable(answer) /\ k.at = "sent" /\ ~destroyed
           outcome ==
             CASE answer = "ok" -> Onward(k)
               [] answer = "lost" /\ Request(c).retries /\ ~k.lost -> WithRetry(k)
               [] renews -> [k EXCEPT !.at = "renewing"]
               [] refreshes -> [k EXCEPT !.at = "refreshing"]
               [] answer = "empty" /\ ~renews /\ (Is(c, "card") => ~failed) -> Over(k, "null")
               [] OTHER -> Over(k, "failed") IN
       /\ call' = [call EXCEPT ![c] = outcome]
       /\ IF renews \/ refreshes THEN Join ELSE UNCHANGED attempt
  /\ UNCHANGED <<mode, issued, expired, token, ready, destroyed, failed, held, chain, tracked>>

-----------------------------------------------------------------------------
(* The outcome of an attempt.                                                *)

Finish(r) == attempt' = [attempt EXCEPT ![r] = NoAttempt]

\* Mutant of Succeeds: a shared refresh leaves the schedule as it is.
Succeeds_NoSchedule(r) ==
  /\ attempt[r].is = "ok"
  /\ Finish(r)
  /\ token' = attempt[r].got /\ failed' = FALSE
  /\ CASE r = Init_ -> ready' = TRUE /\ InitSettles(TRUE, attempt[r].got) /\ Schedule(chain)
       [] r = Reactive -> ReactiveSettles(TRUE, attempt[r].got) /\ UNCHANGED <<ready, chain, tracked>>
       [] OTHER -> Schedule([chain EXCEPT ![r] = NoChain]) /\ UNCHANGED <<ready, call>>
  /\ UNCHANGED <<mode, issued, expired, destroyed, held>>

\* The token is taken, the error cleared and the next refresh scheduled.
Succeeds(r) ==
  /\ attempt[r].is = "ok"
  /\ Finish(r)
  /\ token' = attempt[r].got /\ failed' = FALSE
  /\ CASE r = Init_ -> ready' = TRUE /\ InitSettles(TRUE, attempt[r].got) /\ Schedule(chain)
       [] r = Reactive -> ReactiveSettles(TRUE, attempt[r].got) /\ Schedule(chain) /\ UNCHANGED ready
       [] OTHER -> Schedule([chain EXCEPT ![r] = NoChain]) /\ UNCHANGED <<ready, call>>
  /\ UNCHANGED <<mode, issued, expired, destroyed, held>>

\* A 429 puts the hold in force; the shared refresh records its error.
SharedFails(r) ==
  /\ r \in {Init_, Reactive} /\ attempt[r].is \in {"limited", "held", "failed"}
  /\ Finish(r)
  /\ held' = (held \/ attempt[r].is = "limited")
  /\ \/ r = Init_ /\ InitSettles(FALSE, 0) /\ UNCHANGED failed
     \/ r = Reactive /\ ReactiveSettles(FALSE, 0) /\ failed' = TRUE
  /\ UNCHANGED <<mode, issued, expired, token, ready, destroyed, chain, tracked>>

\* A proactive refresh retries: without counting when the rate was limited, else
\* a number of times, and then records the error and stops.
ProactiveFails(c) ==
  LET limited == attempt[c].is \in {"limited", "held"}
      last == chain[c].failures = MaxRetries - 1 IN
  /\ attempt[c].is \in {"limited", "held", "failed"}
  /\ Finish(c)
  /\ held' = (held \/ attempt[c].is = "limited")
  /\ \/ limited /\ Retry(c, chain[c].failures) /\ UNCHANGED failed
     \/ ~limited /\ ~last /\ Retry(c, chain[c].failures + 1) /\ UNCHANGED failed
     \/ /\ ~limited /\ last
        /\ chain' = [chain EXCEPT ![c] = NoChain] /\ failed' = TRUE
        /\ UNCHANGED tracked
  /\ UNCHANGED <<mode, issued, expired, token, ready, destroyed, call>>

Settles(r) == LogsInAgain(r) \/ Succeeds(r) \/ SharedFails(r) \/ (r \in Chains /\ ProactiveFails(r))
CallSteps(c) ==
  \/ call[c].at = "next" /\ CallStarts(c)
  \/ CallPasses(c) \/ CallAnswered(c)

-----------------------------------------------------------------------------
(* Properties.                                                               *)

\* Until it is destroyed, an instance that got its first token never falls asleep:
\* it has a refresh scheduled or under way, or an error on record that makes the
\* next call try one, however its refreshes overlap.
StaysAwake ==
  ready /\ ~destroyed => failed \/ Busy(Reactive) \/ \E c \in Chains : chain[c].is # "none"

\* While the hold of a 429 is in force no refresher sends a request, not even
\* when it finds out in the middle of its refresh; and once the credentials are
\* destroyed no refresh starts, though a timer nobody tracks may be armed.
RequestsHeldBack ==
  [][/\ held => \A r \in Refreshers : attempt'[r].is = "sent" =>
          attempt[r].is = "sent" /\ attempt'[r].kind = attempt[r].kind
     /\ destroyed => \A r \in Refreshers \ {Init_} : ~Busy(r) => attempt'[r].is = "none"]_vars

\* What a call tells its caller. getAgentCard answers null for an agent that
\* exists only if the client has been destroyed or a token it renewed on the way
\* was found stale as well: an authentication failure never reads as a missing
\* agent. sendMessage makes one task, and a second one only when the connection
\* was lost behind the first.
CallersAreToldTheTruth ==
  \A c \in Calls :
    /\ call[c].at = "null" => destroyed \/ Is(c, "card again")
    /\ call[c].made <= IF call[c].lost THEN 2 ELSE 1
=============================================================================
