----------------------------- MODULE ConsumerToken -----------------------------
(* ConsumerTokenRotation, for the token of one stream: its refresh on TTL,   *)
(* the one refresh that answers a denial, and its wait while the rate is     *)
(* limited. The transport, which parks a denied subscription until resume(), *)
(* and the token endpoint are external.                                      *)

VARIABLES
  timer,     \* the refresh on TTL, or its retry, is due
  rotating,  \* rotate() awaits the endpoint
  denial,    \* denialRefreshing: none, the refresh in flight, or waiting out a limit
  stale,     \* a denial refresh that something has superseded is in flight
  awaiting,  \* awaitingReconnect, which nothing reads once stopped
  stopped,   \* stop() or revoke() was called, in the step its client ends
  parked     \* the subscription, while it lasts, waits for resume()

tokenVars == <<timer, rotating, denial, stale, awaiting, stopped, parked>>

TokenInit ==
  /\ timer = FALSE /\ rotating = FALSE /\ denial = "none" /\ stale = FALSE /\ awaiting = FALSE
  /\ stopped = FALSE /\ parked = FALSE

StartToken ==
  /\ timer' = TRUE
  /\ UNCHANGED <<rotating, denial, stale, awaiting, stopped, parked>>

Stopping ==
  /\ stopped' = TRUE /\ timer' = FALSE
  /\ denial' = IF denial = "waiting" THEN "none" ELSE denial
  /\ parked' = FALSE /\ awaiting' = FALSE

StopToken == Stopping /\ UNCHANGED <<rotating, stale>>

\* recoverFromDenial: a fresh token resumes the subscription. The refresh it overtakes,
\* unless it is the one that brought it, goes on superseded.
Recover(overtaken) ==
  /\ timer' = TRUE /\ denial' = "none" /\ awaiting' = TRUE /\ parked' = FALSE
  /\ stale' = (stale \/ overtaken) /\ UNCHANGED stopped

\* apply(): the token is set and the next rotation scheduled.
Apply == timer' = TRUE /\ UNCHANGED <<denial, stale, awaiting, stopped, parked>>

RotationDue ==
  /\ timer /\ ~rotating /\ timer' = FALSE /\ rotating' = TRUE
  /\ UNCHANGED <<denial, stale, awaiting, stopped, parked>>

\* Mutant of Rotated: its token ends a denial without resuming what it parked.
Rotated_Applies ==
  /\ rotating /\ rotating' = FALSE
  /\ IF stopped THEN UNCHANGED <<timer, denial, stale, awaiting, stopped, parked>>
     ELSE /\ timer' = TRUE /\ denial' = "none" /\ stale' = (stale \/ denial = "asked")
          /\ UNCHANGED <<awaiting, stopped, parked>>

\* Any fresh token answers a pending denial.
Rotated ==
  /\ rotating /\ rotating' = FALSE
  /\ IF stopped THEN UNCHANGED <<timer, denial, stale, awaiting, stopped, parked>>
     ELSE IF denial # "none" THEN Recover(denial = "asked")
     ELSE Apply

\* A failure: while a denial is pending its refresh owns the retries; what fails
\* until the token expires is given up, and a refusal ends the stream.
RotationFails ==
  /\ rotating /\ rotating' = FALSE
  /\ \/ stopped /\ UNCHANGED <<timer, denial, stopped, parked, awaiting>>
     \/ ~stopped /\ Stopping
     \/ /\ ~stopped /\ timer' \in IF denial # "none" THEN {timer} ELSE {TRUE, timer}
        /\ UNCHANGED <<denial, stopped, parked, awaiting>>
  /\ UNCHANGED stale

\* onDenied: the first denial is answered by a refresh; one of a token just refreshed
\* revokes. The transport raises none while it is parked.
Denied ==
  /\ ~parked /\ ~stopped /\ denial = "none"
  /\ \/ awaiting /\ Stopping
     \/ ~awaiting /\ denial' = "asked" /\ parked' = TRUE /\ UNCHANGED <<timer, stopped, awaiting>>
  /\ UNCHANGED <<rotating, stale>>

DenialAnswered ==
  \/ /\ denial = "asked"
     /\ IF stopped
        THEN denial' = "none" /\ UNCHANGED <<timer, stale, awaiting, stopped, parked>>
        ELSE Recover(FALSE)
     /\ UNCHANGED rotating
  \/ /\ stale /\ stale' = FALSE /\ timer' = (timer \/ ~stopped)
     /\ UNCHANGED <<rotating, denial, awaiting, stopped, parked>>

\* Rate limited: a wait, which rotation stays out of.
DenialLimited ==
  /\ denial = "asked" /\ ~stopped /\ denial' = "waiting" /\ timer' = FALSE
  /\ UNCHANGED <<rotating, stale, awaiting, stopped, parked>>

DenialAsksAgain ==
  /\ denial = "waiting" /\ denial' = "asked"
  /\ UNCHANGED <<timer, rotating, stale, awaiting, stopped, parked>>

\* The refresh fails for good; the failure of a superseded one is not heard, but for a
\* refusal, which ends the stream.
DenialFails ==
  \/ /\ denial = "asked"
     /\ denial' = "none" /\ stopped' = TRUE /\ timer' = FALSE /\ parked' = FALSE
     /\ awaiting' = FALSE /\ UNCHANGED <<rotating, stale>>
  \/ /\ stale /\ stale' = FALSE
     /\ (~stopped /\ Stopping) \/ UNCHANGED <<timer, denial, stopped, parked, awaiting>>
     /\ UNCHANGED rotating

Reconnected ==
  /\ ~parked /\ awaiting /\ awaiting' = FALSE
  /\ UNCHANGED <<timer, rotating, denial, stale, stopped, parked>>

TokenStep ==
  \/ RotationDue \/ Rotated \/ RotationFails \/ DenialAnswered \/ DenialLimited
  \/ DenialAsksAgain \/ DenialFails
=============================================================================
