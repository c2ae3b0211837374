---------------------------- MODULE ProviderRoute ----------------------------
(***************************************************************************)
(* The provider's session route: sessions/provider-route.ts, started and   *)
(* stopped by an agent instance (agent-instance.ts), over the endpoints of *)
(* provider-api.ts, with the checkpoint loop of each route (Checkpoints).  *)
(*                                                                         *)
(* The runtime registers a route, subscribes to it, refreshes its token on *)
(* its TTL and after a denial, and gives it up for another one when it     *)
(* cannot listen or the backend has lost it.  The open route seats the     *)
(* sessions that are opened on it, up to a number.                         *)
(*                                                                         *)
(* A closed route tests `closed` after every await of its own, so what its *)
(* token requests and lookups answer changes nothing: they end with it.    *)
(* Its loop makes no such test: a post of it may still report it lost.     *)
(***************************************************************************)
EXTENDS Checkpoints

CONSTANTS
    MaxSessions,    \* the seats of a route
    MaxRoutes       \* bound: routes registered

ASSUME MaxSessionsAssumption == MaxSessions \in Nat \ {0}
ASSUME MaxRoutesAssumption == MaxRoutes \in Nat \ {0}

VARIABLES
    phase,          \* of the runtime: "off", "started", "tasks_only" or "stopped"
    registering,    \* registrations in flight
    retrying,       \* the runtime's retry timer
    route,          \* the route, see NoRoute
    late,           \* closed routes with a post in flight
    manifests,      \* the route each cached manifest names, 0 for no manifest
    opening,        \* sessions whose lookup is under way
    scene           \* bound: what the behaviour meets, see Init

runtimeVars == <<phase, registering, retrying, late>>
openVars == <<manifests, opening>>
routeVars == <<runtimeVars, route, openVars, scene>>
allVars == <<vars, routeVars>>

NoRoute(no) ==
    [no |-> no,                 \* routeId; a closed route's number is not used again
     open |-> FALSE,            \* the runtime's `route` is set
     sub |-> "none",            \* of its client: "joining", "joined" or "denied"
     up |-> FALSE,              \* heartbeating
     connectTimer |-> FALSE,
     tokenTimer |-> FALSE,
     rotating |-> FALSE,        \* refreshToken awaits its answer
     refreshing |-> FALSE,      \* refreshingOnDenial
     refreshed |-> FALSE]       \* refreshedSinceConnect

\* A new route subscribes, its connect and token timers running.
NewRoute(no) ==
    [NoRoute(no) EXCEPT !.open = TRUE, !.sub = "joining", !.connectTimer = TRUE, !.tokenTimer = TRUE]

-----------------------------------------------------------------------------
(* The runtime: one registration, retry or route at a time.                 *)

StartProvider ==
    /\ phase = "off"
    /\ phase' = "started"
    /\ registering' = 1
    /\ UNCHANGED <<vars, retrying, route, late, openVars, scene>>

\* SessionRoute.close: timers and loop stop, its sessions and lookups end.
CloseRoute(posting) ==
    /\ route' = NoRoute(route.no)
    /\ opening' = {}
    /\ late' = IF posting THEN late \cup {route.no} ELSE late
    /\ CheckpointsOver

\* Mutant of ReplaceRoute: whichever route is lost, another is registered.
ReplaceRoute_Any(no, posting) ==
    /\ registering' = registering + 1
    /\ IF route.open /\ route.no = no
       THEN CloseRoute(posting)
       ELSE UNCHANGED <<vars, route, opening, late>>
    /\ UNCHANGED <<phase, retrying, manifests, scene>>

\* onLost, for the route numbered `no`.
ReplaceRoute(no, posting) ==
    /\ IF route.open /\ route.no = no
       THEN registering' = registering + 1 /\ CloseRoute(posting)
       ELSE UNCHANGED <<vars, registering, route, opening, late>>
    /\ UNCHANGED <<phase, retrying, manifests, scene>>

RouteLost == ReplaceRoute(route.no, loop.flushing)

RouteGranted ==
    /\ registering > 0 /\ route.no < MaxRoutes
    /\ registering' = registering - 1
    /\ IF phase = "stopped"
       THEN UNCHANGED <<vars, route>>
       ELSE route' = NewRoute(route.no + 1) /\ CheckpointsBegin
    /\ UNCHANGED <<phase, retrying, late, openVars, scene>>

\* SESSIONS_DISABLED or SESSION_PAID_AGENT_UNSUPPORTED.
TasksOnly ==
    /\ registering > 0 /\ scene = "routes" /\ phase = "started" /\ route.no = 0
    /\ registering' = registering - 1
    /\ phase' = "tasks_only"
    /\ UNCHANGED <<vars, retrying, route, late, openVars, scene>>

\* Any other failure is retried, also when the runtime has stopped meanwhile.
RegisterFails ==
    /\ registering > 0 /\ scene = "routes"
    /\ registering' = registering - 1
    /\ retrying' = TRUE
    /\ UNCHANGED <<vars, phase, route, late, openVars, scene>>

\* openRoute returns at once when stopped.
RetryTimerFires ==
    /\ retrying
    /\ retrying' = FALSE
    /\ registering' = IF phase = "stopped" THEN registering ELSE registering + 1
    /\ UNCHANGED <<vars, phase, route, late, openVars, scene>>

\* retryRoute.
ConnectTimesOut ==
    /\ route.connectTimer /\ scene = "routes"
    /\ CloseRoute(loop.flushing)
    /\ retrying' = TRUE
    /\ UNCHANGED <<phase, registering, manifests, scene>>

StopProvider ==
    /\ phase # "stopped"
    /\ phase' = "stopped"
    /\ retrying' = FALSE
    /\ IF route.open THEN CloseRoute(loop.flushing) ELSE UNCHANGED <<vars, route, opening, late>>
    /\ UNCHANGED <<registering, manifests, scene>>

-----------------------------------------------------------------------------
(* The subscription and its token.                                          *)

\* onStatus, "connected" or "reconnected": only the first "connected" starts
\* the heartbeats.
Joins(category) ==
    /\ route.sub = "joining"
    /\ IF route.up \/ category = "reconnected"
       THEN /\ route' = [route EXCEPT !.sub = "joined", !.refreshed = FALSE]
            /\ UNCHANGED loop
       ELSE /\ route' = [route EXCEPT !.sub = "joined", !.refreshed = FALSE,
                                      !.up = TRUE, !.connectTimer = FALSE]
            /\ loop' = Flush(loop)
    /\ UNCHANGED <<status, events, heard, backendVars, runtimeVars, openVars, scene>>

Drops ==
    /\ route.sub = "joined" /\ scene = "routes"
    /\ route' = [route EXCEPT !.sub = "joining"]
    /\ UNCHANGED <<vars, runtimeVars, openVars, scene>>

\* onStatus, "access_denied": the client stays unsubscribed until it is told
\* to reconnect.  One refresh per connection; denied again, the route is lost.
AccessDenied ==
    /\ route.sub \in {"joining", "joined"} /\ scene = "routes"
    /\ IF ~route.refreshing /\ route.refreshed
       THEN RouteLost
       ELSE /\ route' = [route EXCEPT !.sub = "denied", !.refreshing = TRUE]
            /\ UNCHANGED <<vars, runtimeVars, openVars, scene>>

\* refreshOnDenial's answer: token, timer, reconnect.
DenialRefreshed ==
    /\ route.refreshing
    /\ route' = [route EXCEPT !.refreshing = FALSE, !.refreshed = TRUE,
                              !.tokenTimer = TRUE, !.sub = "joining"]
    /\ UNCHANGED <<vars, runtimeVars, openVars, scene>>

\* Mutant of DenialNotRefreshed: the failure is left to the next denial.
DenialNotRefreshed_Waits ==
    /\ route.refreshing
    /\ route' = [route EXCEPT !.refreshing = FALSE]
    /\ UNCHANGED <<vars, runtimeVars, openVars, scene>>

DenialNotRefreshed ==
    /\ route.refreshing
    /\ RouteLost

TokenTimerFires ==
    /\ route.tokenTimer /\ scene = "routes"
    /\ route' = [route EXCEPT !.tokenTimer = FALSE, !.rotating = TRUE]
    /\ UNCHANGED <<vars, runtimeVars, openVars, scene>>

\* Rotated, or failed and to be retried: in either case a timer runs again.
TokenRotated ==
    /\ route.rotating
    /\ route' = [route EXCEPT !.rotating = FALSE, !.tokenTimer = TRUE]
    /\ UNCHANGED <<vars, runtimeVars, openVars, scene>>

\* ROUTE_LOST, or the credential is refused.
RotationRefused ==
    /\ route.rotating
    /\ RouteLost

-----------------------------------------------------------------------------
(* Checkpoints on the open route, and posts of closed ones.                 *)

\* The backend failed the route, or refused the credential.
PostLosesRoute ==
    /\ loop.flushing
    /\ ReplaceRoute(route.no, FALSE)

\* The answer of a closed route's post: the route is not the runtime's.
LatePostAnswers(no) ==
    /\ no \in late
    /\ late' = late \ {no}
    /\ UNCHANGED <<vars, phase, registering, retrying, route, openVars, scene>>

LatePostLosesRoute(no) ==
    /\ no \in late
    /\ ReplaceRoute(no, FALSE)

RouteTicks == route.up /\ Tick /\ UNCHANGED routeVars

LoopSteps == LoopStep /\ UNCHANGED routeVars

Probed(n) == route.sub = "joined" /\ scene = "probes" /\ EchoProbe(n) /\ UNCHANGED routeVars

-----------------------------------------------------------------------------
(* Sessions.                                                                *)

\* acceptManifest: the newest manifest of a session counts.
AcceptManifest(x) ==
    /\ phase = "started" /\ scene = "routes" /\ route.open
    /\ manifests' = [manifests EXCEPT ![x] = route.no]
    /\ UNCHANGED <<vars, runtimeVars, route, opening, scene>>

\* Seats are counted when the manifest is there; a session refused for want of
\* one fails at once, and its end is recorded.
Seat(x) ==
    /\ status' = [status EXCEPT ![x] =
                    IF Cardinality(LiveSessions) >= MaxSessions THEN "ending" ELSE "open"]
    /\ UNCHANGED <<loop, events, heard, backendVars>>

\* session_open without a cached manifest: the session is looked up.
OpenAsked(x) ==
    /\ route.sub = "joined" /\ route.up /\ status[x] = "new" /\ x \notin opening
    /\ manifests[x] = 0
    /\ opening' = opening \cup {x}
    /\ UNCHANGED <<vars, runtimeVars, manifests, route, scene>>

\* With one, it is taken; one that names another route drops the session_open,
\* and so does an opener the session would not hear.
OpenTaken(x) ==
    /\ route.sub = "joined" /\ route.up /\ status[x] = "new" /\ x \notin opening
    /\ manifests[x] # 0
    /\ manifests' = [manifests EXCEPT ![x] = 0]
    /\ \/ manifests[x] = route.no /\ Seat(x)
       \/ UNCHANGED vars
    /\ UNCHANGED <<runtimeVars, opening, route, scene>>

\* Mutant of LookedUp: as if the seat had been kept since the lookup began.
LookedUp_Unchecked(x) ==
    /\ x \in opening
    /\ opening' = opening \ {x}
    /\ status' = [status EXCEPT ![x] = "open"]
    /\ UNCHANGED <<loop, events, heard, backendVars, runtimeVars, manifests, route, scene>>

LookedUp(x) ==
    /\ x \in opening
    /\ opening' = opening \ {x}
    /\ Seat(x)
    /\ UNCHANGED <<runtimeVars, manifests, route, scene>>

\* Not found, of another route, given up after its retries, or opened by
\* someone the session would not hear.
LookupDropped(x) ==
    /\ x \in opening
    /\ opening' = opening \ {x}
    /\ UNCHANGED <<vars, runtimeVars, manifests, route, scene>>

\* Bound: the events of the scene.
MayRecord == scene = "events" \/ (scene = "probes" /\ events = <<>>)

\* What open sessions report.
SessionStep(x) ==
    /\ \/ MayRecord /\ RecordFact(x)
       \/ SessionEnding(x)
       \/ MayRecord /\ RecordEnd(x)
       \/ EndSilently(x)
    /\ UNCHANGED routeVars

-----------------------------------------------------------------------------
(* A behaviour meets one of: up to MaxEvents events, posts that lose the route *)
(* and a stop; probes, with one event; or all other trouble of routes, with    *)
(* sessions looked up.  Otherwise its first route's manifests are cached.      *)
Init ==
    /\ CheckpointsInit
    /\ phase = "off"
    /\ registering = 0
    /\ retrying = FALSE
    /\ route = NoRoute(0)
    /\ late = {}
    /\ scene \in {"events", "probes", "routes"}
    /\ manifests = [x \in SessionIds |-> IF scene = "routes" THEN 0 ELSE 1]
    /\ opening = {}

Next ==
    \/ StartProvider \/ RouteGranted \/ TasksOnly \/ RegisterFails
    \/ RetryTimerFires \/ ConnectTimesOut \/ StopProvider
    \/ Joins("connected") \/ (route.refreshed /\ Joins("reconnected"))
    \/ Drops \/ AccessDenied \/ DenialRefreshed \/ DenialNotRefreshed
    \/ TokenTimerFires \/ TokenRotated \/ RotationRefused
    \/ PostLosesRoute \/ RouteTicks \/ LoopSteps
    \/ \E no \in 1..MaxRoutes : LatePostAnswers(no) \/ LatePostLosesRoute(no)
    \/ \E n \in Nonces : Probed(n)
    \/ \E x \in SessionIds : \/ AcceptManifest(x) \/ OpenAsked(x) \/ OpenTaken(x)
                             \/ LookedUp(x) \/ LookupDropped(x) \/ SessionStep(x)

Spec == Init /\ [][Next]_allVars

\* The interval timer fires, a Retry-After passes, and a backend asked again
\* and again answers at some point; so does a token request, and a client that
\* joins is let in, denied, or given up by the connect timer.
Fairness ==
    /\ WF_allVars(RouteTicks)
    /\ WF_allVars(HoldExpires /\ UNCHANGED routeVars)
    /\ SF_allVars(((PostAcknowledged \/ PostRefused) /\ UNCHANGED routeVars) \/ PostLosesRoute)
    /\ WF_allVars(DenialRefreshed \/ DenialNotRefreshed)

FairSpec == Spec /\ Fairness

-----------------------------------------------------------------------------
\* As long as the agent is to serve sessions, exactly one thing brings it a
\* route or is one: a registration, the retry timer or the route, never two
\* and never none.  A route that does not send heartbeats yet is under the
\* connect timer, and its token is always about to be replaced.
OneRoute ==
    /\ phase = "started" =>
        registering + (IF retrying THEN 1 ELSE 0) + (IF route.open THEN 1 ELSE 0) = 1
    /\ phase = "stopped" => ~route.open
    /\ route.open => /\ route.up \/ route.connectTimer
                     /\ route.tokenTimer \/ route.rotating
                     /\ ~loop.stopped

\* No more sessions are served than there are seats, whatever is being opened.
SeatsRespected == Cardinality(LiveSessions) <= MaxSessions

\* The runtime has one way to a route, and serves on it what it has seats for.
RuntimeInStep == OneRoute /\ SeatsRespected

\* A route whose client was denied listens again, or makes way for another.
DeniedIsAnswered == route.sub = "denied" ~> route.sub # "denied"

=============================================================================
