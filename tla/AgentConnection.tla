--------------------------- MODULE AgentConnection ---------------------------
(* An agent instance's connection: AgentAuth's connect and refresh, the      *)
(* retry of a rate-limited connect, the control client and its replacement   *)
(* when the backend switches the environment, denied access, stop(), and an  *)
(* administrator who takes the agent offline. The credentials and the calls  *)
(* are those of ConsumerAuth with mode "agent": AgentAuth's refresh lock is  *)
(* the shared refresh, and connect the initial login.                        *)
EXTENDS ConsumerAuth, FiniteSets

CONSTANTS
  MaxSwitches   \* bound on control clients made for a new environment

Environments == {"playground", "network"}

VARIABLES agent

all == <<vars, agent>>

\* A control client: its keyset's environment, whether the message listener is on
\* it, whether it is subscribed, alive, and made here, and the environment its
\* token is for.
Client(env, listens, token_, owned) ==
  [env |-> env, listens |-> listens, subscribed |-> FALSE, alive |-> TRUE, owned |-> owned,
   token |-> token_]

NoAgent == [at |-> "none", stopped |-> FALSE, banned |-> FALSE, denied |-> FALSE,
            serving |-> FALSE, clients |-> <<>>]

\* The instance listens on its first client, its own or an injected one, before
\* it knows a channel, and connects.
Init ==
  /\ AuthInit
  /\ IF mode = "agent"
     THEN \E env \in Environments, owned \in BOOLEAN :
            agent = [NoAgent EXCEPT !.at = "connecting",
                                    !.clients = <<Client(env, TRUE, "none", owned)>>]
     ELSE agent = NoAgent

Last == Len(agent.clients)
Current == agent.clients[Last]
Hears == Current.listens /\ Current.subscribed /\ Current.alive
Running == agent.at # "exited"

-----------------------------------------------------------------------------
(* connect and refresh.                                                      *)

\* The first connect, or a retry when its timer fires: the hold is looked at first.
ConnectAgent ==
  /\ agent.at \in {"connecting", "waiting"} /\ ~Busy(Init_)
  /\ attempt' = [attempt EXCEPT ![Init_] = Sending("login")]
  /\ agent' = [agent EXCEPT !.at = "connect sent"]
  /\ UNCHANGED <<mode, issued, expired, token, ready, destroyed, failed, held, chain, tracked,
                 call>>

\* The backend refuses an agent that is banned, whatever it asks for.
ServerRefuses(r) ==
  /\ attempt[r].is = "sent" /\ agent.banned
  /\ attempt' = [attempt EXCEPT ![r] = [NoAttempt EXCEPT !.is = "fatal"]]
  /\ UNCHANGED <<mode, issued, expired, token, ready, destroyed, failed, held, chain, tracked,
                 call, agent>>

\* Sessions are served from the connect on.
StartSessionProvider(k) == [k EXCEPT !.serving = ~k.stopped]

\* The answer names the channel. The client may have been destroyed meanwhile.
Connected ==
  /\ attempt[Init_].is = "ok"
  /\ Finish(Init_) /\ token' = attempt[Init_].got
  /\ agent' = StartSessionProvider([agent EXCEPT !.at = "up",
               !.clients[Last] = [@ EXCEPT !.token = Current.env, !.subscribed = TRUE]])
  /\ UNCHANGED <<mode, issued, expired, ready, destroyed, failed, held, chain, tracked, call>>

\* Only a rate-limited connect is tried again, unless the instance has stopped.
ConnectFails ==
  LET limited == attempt[Init_].is \in {"limited", "held"} IN
  /\ attempt[Init_].is \in {"limited", "held", "failed"}
  /\ Finish(Init_)
  /\ held' = (held \/ attempt[Init_].is = "limited")
  /\ agent' = [agent EXCEPT !.at = IF limited /\ ~agent.stopped THEN "waiting" ELSE "down"]
  /\ UNCHANGED <<mode, issued, expired, token, ready, destroyed, failed, chain, tracked, call>>

\* AgentAuth.refresh: everyone who waits for it hears how it went. Nothing is
\* recorded and nothing scheduled.
Refreshed ==
  /\ attempt[Reactive].is = "ok"
  /\ Finish(Reactive) /\ token' = attempt[Reactive].got /\ ReactiveSettles(TRUE, attempt[Reactive].got)
  /\ UNCHANGED <<mode, issued, expired, ready, destroyed, failed, held, chain, tracked, agent>>

RefreshFails ==
  /\ attempt[Reactive].is \in {"limited", "held", "failed"}
  /\ Finish(Reactive) /\ ReactiveSettles(FALSE, 0)
  /\ held' = (held \/ attempt[Reactive].is = "limited")
  /\ UNCHANGED <<mode, issued, expired, token, ready, destroyed, failed, chain, tracked, agent>>

\* exitIfFatalAuthError, from wherever the error surfaces. A handler that catches
\* it keeps the process running, with a token that is not renewed.
Fatal(r) ==
  /\ attempt[r].is = "fatal"
  /\ Finish(r)
  /\ \/ agent' = [agent EXCEPT !.at = "exited"] /\ UNCHANGED call
     \/ r = Reactive /\ ReactiveSettles(FALSE, 0) /\ UNCHANGED agent
  /\ UNCHANGED <<mode, issued, expired, token, ready, destroyed, failed, held, chain, tracked>>

-----------------------------------------------------------------------------
(* The control client.                                                       *)

\* Mutant of Detached: the listener stays on a client that is not to be destroyed.
Detached_OwnedOnly(k) == [k EXCEPT !.listens = ~k.owned, !.subscribed = FALSE, !.alive = @ /\ ~k.owned]

\* A client that is given up is destroyed if it was made here.
Detached(k) == [k EXCEPT !.listens = FALSE, !.subscribed = FALSE, !.alive = @ /\ ~k.owned]

\* The backend announces another environment, with a token for it or without,
\* to whoever listens.
SwitchEnvironment(env, given) ==
  /\ Hears
  /\ env # Current.env /\ Last <= MaxSwitches
  /\ agent' = IF ~given THEN agent
              ELSE [agent EXCEPT !.clients = Append([agent.clients EXCEPT ![Last] = Detached(@)],
                      [Client(env, TRUE, env, TRUE) EXCEPT !.subscribed = TRUE])]
  /\ UNCHANGED vars

\* accessDeniedHandler destroys the client of the moment, once, whoever made it.
AccessDenied ==
  /\ Hears /\ ~agent.denied
  /\ agent' = [agent EXCEPT !.denied = TRUE, !.clients[Last].alive = FALSE]
  /\ UNCHANGED vars

Stop ==
  /\ ~agent.stopped /\ agent.at # "connecting"
  /\ agent' = [agent EXCEPT !.stopped = TRUE, !.serving = FALSE, !.clients[Last] = Detached(@),
                            !.at = IF @ = "waiting" THEN "down" ELSE @]
  /\ UNCHANGED vars

Ban ==
  /\ ~agent.banned /\ agent' = [agent EXCEPT !.banned = TRUE]
  /\ UNCHANGED vars

-----------------------------------------------------------------------------
Consuming == mode # "agent" /\ UNCHANGED agent
Providing == mode = "agent" /\ Running

Answer(r) ==
  \/ Running /\ ~agent.banned /\ ServerAnswers(r) /\ UNCHANGED agent
  \/ Providing /\ ServerRefuses(r)
AgentSettles(r) ==
  \/ LogsInAgain(r) /\ UNCHANGED agent
  \/ r = Init_ /\ (Connected \/ ConnectFails)
  \/ r = Reactive /\ (Refreshed \/ RefreshFails)
  \/ Fatal(r)
Outcome(r) == (Consuming /\ Settles(r)) \/ (Providing /\ AgentSettles(r))
Step(c) == Running /\ CallSteps(c) /\ UNCHANGED agent

Next ==
  \/ \E r \in Refreshers : Answer(r) \/ Outcome(r)
  \/ \E c \in Calls : Step(c) \/ (Running /\ CallStarts(c) /\ UNCHANGED agent)
  \/ Consuming /\ (Destroy \/ \E c \in Chains : TimerFires(c))
  \/ Running /\ (HoldEnds \/ TokensExpire) /\ UNCHANGED agent
  \/ Providing /\ (ConnectAgent \/ AccessDenied \/ Stop \/ Ban)
  \/ Providing /\ \E env \in Environments, given \in BOOLEAN : SwitchEnvironment(env, given)

\* A call's request, or a refresh a call waits for, settles, and what awaits it
\* runs: the steps of a call are finitely many, so one condition serves them all.
\* Nothing is assumed of the proactive refreshes, which no call waits for.
Progress == (\E r \in {Init_, Reactive} : Answer(r) \/ Outcome(r)) \/ \E c \in Calls : Step(c)
FairSpec == Init /\ [][Next]_all /\ WF_all(Progress)

-----------------------------------------------------------------------------
(* Properties.                                                               *)

\* Every call comes to an end, also one that waits for another's refresh, unless
\* its process ends.
CallsEnd == \A c \in Calls : call[c].at # "idle" ~> call[c].at \in Endings \/ ~Running

\* The agent hears the control channel through one client, the current one. It is
\* subscribed under a token of its own environment from the connect on, and until
\* the instance stops or access is denied; once stopped nothing listens, nothing
\* waits to connect, and no sessions are served.
OneEar ==
  mode = "agent" =>
    /\ \A i \in 1..Last - 1 : ~agent.clients[i].listens /\ ~agent.clients[i].subscribed
    /\ Current.listens = ~agent.stopped
    /\ agent.at = "up" /\ ~agent.stopped =>
         Current.subscribed /\ Current.token = Current.env /\ Current.alive = ~agent.denied
    /\ agent.stopped => ~agent.serving /\ agent.at # "waiting"
=============================================================================
