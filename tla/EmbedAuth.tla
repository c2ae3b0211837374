----------------------------- MODULE EmbedAuth -----------------------------
(* Browser sign-in on one page, for one partition (backend and set of        *)
(* agents): signInAndGetClients with its resume and popup paths, the session *)
(* manager that refreshes the page's token, the stored session, signOut, and *)
(* the backend that rotates a refresh token each time it is used.            *)
EXTENDS Naturals, Sequences

CONSTANTS
  SignIns, SignOuts,  \* calls the page makes
  NoSignIn,           \* no popup is open
  MaxTokens,          \* bound on refresh tokens the backend issues
  MaxManagers         \* bound on session managers the page makes

ASSUME BoundsAssumption == MaxTokens \in Nat /\ MaxManagers \in Nat
ASSUME NoSignInAssumption == NoSignIn \notin SignIns

NoRefresh == [is |-> "none", using |-> 0, got |-> 0]
NoWindow == [is |-> "none", got |-> 0]

VARIABLES
  minted, live,  \* refresh tokens: made so far, accepted by the backend
  stored,        \* the refresh token in localStorage, 0 when there is no session
  managers,      \* EmbeddedAuthSessionManagers: token names the refresh token the
                 \* JWT belongs to, refresh is the one in flight
  registered,    \* the manager the registry holds, 0 when none
  signIn,        \* each call's progress and the manager it uses
  popup, window, \* the record of inFlightPopups and what its window has done
  signOut,       \* each call's progress, the token it revokes, the managers it found
  lost           \* tokens whose only copy never reached the page's storage

pageVars == <<minted, live, stored, managers, registered, signIn, popup, window, signOut, lost>>
backend == <<minted, live, lost>>

PageInit ==
  /\ minted \in {0, 1} /\ live = 1..minted /\ stored = minted  \* a session of an earlier visit
  /\ managers = <<>> /\ registered = 0
  /\ signIn = [s \in SignIns |-> [at |-> "idle", with |-> 0]]
  /\ popup = NoSignIn /\ window = NoWindow
  /\ signOut = [o \in SignOuts |-> [at |-> "idle", revokes |-> 0, found |-> {}]]
  /\ lost = {}

Made == DOMAIN managers
Refreshing(m) == managers[m].refresh.is # "none"
HasFresh(m) == managers[m].token # 0 /\ managers[m].fresh
NewManager == [token |-> 0, fresh |-> FALSE, cleared |-> FALSE, refresh |-> NoRefresh]
Cleared(m) == [m EXCEPT !.token = 0, !.fresh = FALSE, !.cleared = TRUE]
Asked == [is |-> "sent", using |-> stored, got |-> 0]
\* Continuations of a settled promise run before anything else on the page.
Settled == \A s \in SignIns : signIn[s].at \in {"idle", "refreshing", "popup", "done", "failed"}

-----------------------------------------------------------------------------
(* The session manager.                                                      *)

\* tokenProvider of a manager whose token is stale, called by a TaskClient. With
\* no stored session it fails; a cached token or a refresh in flight is shared.
TokenProvider(m) ==
  /\ \E s \in SignIns : signIn[s] = [at |-> "done", with |-> m]
  /\ ~managers[m].cleared /\ ~Refreshing(m) /\ ~HasFresh(m) /\ stored # 0
  /\ managers' = [managers EXCEPT ![m].refresh = Asked]
  /\ UNCHANGED <<backend, stored, registered, signIn, popup, window, signOut>>

GoesStale(m) ==
  /\ HasFresh(m)
  /\ managers' = [managers EXCEPT ![m].fresh = FALSE]
  /\ UNCHANGED <<backend, stored, registered, signIn, popup, window, signOut>>

\* The backend rotates the token, or refuses it, or the request or the answer is lost.
BackendAnswers(m) ==
  LET t == managers[m].refresh.using
      answer(is, got) == managers' = [managers EXCEPT ![m].refresh.is = is, ![m].refresh.got = got] IN
  /\ managers[m].refresh.is = "sent"
  /\ \/ /\ t \in live /\ minted < MaxTokens
        /\ minted' = minted + 1 /\ live' = (live \ {t}) \cup {minted + 1}
        /\ \/ answer("ok", minted + 1) /\ UNCHANGED lost
           \/ answer("failed", 0) /\ lost' = lost \cup {minted + 1}
     \/ t \notin live /\ answer("refused", 0) /\ UNCHANGED backend
     \/ answer("failed", 0) /\ UNCHANGED backend
  /\ UNCHANGED <<stored, registered, signIn, popup, window, signOut>>

\* The sign-ins awaiting manager m's refresh go on with its outcome.
Resume(m, outcome) ==
  signIn' = [s \in SignIns |-> IF signIn[s] = [at |-> "refreshing", with |-> m]
                               THEN [at |-> outcome, with |-> m] ELSE signIn[s]]

\* Mutant of RefreshSucceeds: a manager cleared under the await is not looked at.
RefreshSucceeds_Revives(m) ==
  /\ managers[m].refresh.is = "ok"
  /\ managers' = [managers EXCEPT ![m] = [token |-> managers[m].refresh.got, fresh |-> TRUE,
                                          cleared |-> FALSE, refresh |-> NoRefresh]]
  /\ stored' = IF stored = 0 THEN 0 ELSE managers[m].refresh.got
  /\ Resume(m, "ok")
  /\ UNCHANGED <<backend, registered, popup, window, signOut>>

\* Mutant of RefreshSucceeds: the rotated token is not persisted.
RefreshSucceeds_KeepsOld(m) ==
  /\ managers[m].refresh.is = "ok" /\ ~managers[m].cleared
  /\ managers' = [managers EXCEPT ![m].token = managers[m].refresh.got, ![m].fresh = TRUE,
                                  ![m].refresh = NoRefresh]
  /\ Resume(m, "ok")
  /\ UNCHANGED <<backend, stored, registered, popup, window, signOut>>

\* A cleared manager drops the answer; else the token is taken and, if a session
\* is stored at all, its refresh token replaced.
RefreshSucceeds(m) ==
  /\ managers[m].refresh.is = "ok"
  /\ IF managers[m].cleared
     THEN /\ managers' = [managers EXCEPT ![m].refresh = NoRefresh]
          /\ lost' = lost \cup {managers[m].refresh.got}
          /\ Resume(m, "refused")
          /\ UNCHANGED stored
     ELSE /\ managers' = [managers EXCEPT ![m].token = managers[m].refresh.got, ![m].fresh = TRUE,
                                          ![m].refresh = NoRefresh]
          /\ stored' = IF stored = 0 THEN 0 ELSE managers[m].refresh.got
          /\ \E outcome \in {"ok", "none_live"} : Resume(m, outcome)
          /\ UNCHANGED lost
  /\ UNCHANGED <<minted, live, registered, popup, window, signOut>>

RefreshRefused(m) ==
  /\ managers[m].refresh.is = "refused"
  /\ managers' = [managers EXCEPT ![m] = [Cleared(@) EXCEPT !.refresh = NoRefresh]]
  /\ stored' = 0
  /\ Resume(m, "refused")
  /\ UNCHANGED <<backend, registered, popup, window, signOut>>

RefreshErrs(m) ==
  /\ managers[m].refresh.is = "failed"
  /\ managers' = [managers EXCEPT ![m].refresh = NoRefresh]
  /\ Resume(m, "error")
  /\ UNCHANGED <<backend, stored, registered, popup, window, signOut>>

-----------------------------------------------------------------------------
(* signInAndGetClients.                                                      *)

\* Mutant of OpenPopup: the call whose popup is replaced is not told.
OpenPopup_ForgetsOther(s) ==
  \/ /\ popup' = s /\ window' = [NoWindow EXCEPT !.is = "open"]
     /\ signIn' = [signIn EXCEPT ![s].at = "popup"]
  \/ /\ popup' = NoSignIn /\ window' = NoWindow
     /\ signIn' = [signIn EXCEPT ![s].at = "failed"]

\* One popup at a time: the call that had it fails. The browser may block the new one.
OpenPopup(s) ==
  LET others == [x \in SignIns |-> IF x = popup THEN [signIn[x] EXCEPT !.at = "failed"]
                                   ELSE signIn[x]] IN
  \/ /\ popup' = s /\ window' = [NoWindow EXCEPT !.is = "open"]
     /\ signIn' = [others EXCEPT ![s].at = "popup"]
  \/ /\ popup' = NoSignIn /\ window' = NoWindow
     /\ signIn' = [others EXCEPT ![s].at = "failed"]

\* Mutant of ManagerFor: each call makes a manager of its own.
ManagerFor_Own == Len(managers) + 1

ManagerFor == IF registered # 0 THEN registered ELSE Len(managers) + 1

\* A stored session is resumed, through the manager that is registered if any.
SignInResumes(s) ==
  LET m == ManagerFor
      all == IF m \in Made THEN managers ELSE Append(managers, NewManager)
      idle == ~all[m].cleared /\ all[m].refresh.is = "none"
      cached == all[m].token # 0 /\ all[m].fresh
      next == IF all[m].cleared THEN {"refused"}
              ELSE IF idle /\ cached THEN {"ok", "none_live"} ELSE {"refreshing"} IN
  /\ signIn[s].at = "idle" /\ stored # 0 /\ m <= MaxManagers
  /\ registered' = m
  /\ managers' = IF idle /\ ~cached THEN [all EXCEPT ![m].refresh = Asked] ELSE all
  /\ \E at \in next : signIn' = [signIn EXCEPT ![s] = [at |-> at, with |-> m]]
  /\ UNCHANGED <<backend, stored, popup, window, signOut>>

SignInOpens(s) ==
  /\ signIn[s].at = "idle" /\ stored = 0
  /\ OpenPopup(s)
  /\ UNCHANGED <<backend, stored, managers, registered, signOut>>

SignInResumed(s) ==
  /\ \/ signIn[s].at = "ok" /\ signIn' = [signIn EXCEPT ![s].at = "done"]
     \/ signIn[s].at = "error" /\ signIn' = [signIn EXCEPT ![s].at = "failed"]
  /\ UNCHANGED <<backend, stored, managers, registered, popup, window, signOut>>

\* With no agent left in scope, or no valid token, the partition is cleared for a popup.
SignInStartsOver(s) ==
  /\ signIn[s].at \in {"none_live", "refused"}
  /\ managers' = IF signIn[s].at = "refused" THEN managers
                 ELSE [managers EXCEPT ![signIn[s].with] = Cleared(@)]
  /\ stored' = 0 /\ registered' = 0
  /\ lost' = IF stored = 0 THEN lost ELSE lost \cup {stored}
  /\ OpenPopup(s)
  /\ UNCHANGED <<minted, live, signOut>>

\* The user approves (the window posts its answer and closes), refuses, or closes it.
UserActs ==
  /\ window.is = "open"
  /\ \/ /\ minted < MaxTokens
        /\ minted' = minted + 1 /\ live' = live \cup {minted + 1}
        /\ lost' = lost \cup {minted + 1}
        /\ window' = [is |-> "approved", got |-> minted + 1]
     \/ /\ \E is \in {"refused", "closed"} : window' = [window EXCEPT !.is = is]
        /\ UNCHANGED backend
  /\ UNCHANGED <<stored, managers, registered, signIn, popup, signOut>>

\* The answer arrives: the session is stored and a new manager takes it over.
PopupSucceeds(s) ==
  /\ popup = s /\ window.is = "approved" /\ Len(managers) < MaxManagers
  /\ stored' = window.got /\ lost' = lost \ {window.got}
  /\ managers' = Append(managers, [NewManager EXCEPT !.token = window.got, !.fresh = TRUE])
  /\ registered' = Len(managers) + 1
  /\ signIn' = [signIn EXCEPT ![s] = [at |-> "done", with |-> Len(managers) + 1]]
  /\ popup' = NoSignIn /\ window' = NoWindow
  /\ UNCHANGED <<minted, live, signOut>>

\* An error arrives, the closed window is noticed, or five minutes have passed.
PopupFails(s) ==
  /\ popup = s
  /\ signIn' = [signIn EXCEPT ![s].at = "failed"]
  /\ popup' = NoSignIn /\ window' = NoWindow
  /\ UNCHANGED <<backend, stored, managers, registered, signOut>>

-----------------------------------------------------------------------------
(* signOut.                                                                  *)

SignOut(o) ==
  /\ signOut[o].at = "idle"
  /\ IF stored = 0
     THEN /\ signOut' = [signOut EXCEPT ![o].at = "done", ![o].found = Made]
          /\ UNCHANGED <<managers, registered>>
     ELSE /\ signOut' = [signOut EXCEPT ![o] = [at |-> "revoking", revokes |-> stored,
                                                found |-> Made]]
          /\ managers' = [m \in Made |-> IF m = registered THEN Cleared(managers[m])
                                         ELSE managers[m]]
          /\ registered' = 0
  /\ UNCHANGED <<backend, stored, signIn, popup, window>>

\* The revoke reaches the backend, or does not.
RevokeAnswered(o) ==
  /\ signOut[o].at = "revoking"
  /\ signOut' = [signOut EXCEPT ![o].at = "revoked"]
  /\ live' \in {live, live \ {signOut[o].revokes}}
  /\ UNCHANGED <<minted, lost, stored, managers, registered, signIn, popup, window>>

SignedOut(o) ==
  /\ signOut[o].at = "revoked"
  /\ signOut' = [signOut EXCEPT ![o].at = "done"]
  /\ stored' = 0
  /\ UNCHANGED <<backend, managers, registered, signIn, popup, window>>

\* Elsewhere the user or an administrator ends the session.
BackendRevokes ==
  /\ \E t \in live : live' = live \ {t}
  /\ UNCHANGED <<minted, lost, stored, managers, registered, signIn, popup, window, signOut>>

Answered == \E m \in Made : RefreshSucceeds(m) \/ RefreshRefused(m) \/ RefreshErrs(m)
Continue == \E s \in SignIns : SignInResumed(s) \/ SignInStartsOver(s)
PopupEnds == \E s \in SignIns : PopupSucceeds(s) \/ PopupFails(s)

PageNext ==
  \/ Continue
  \/ /\ Settled
     /\ \/ Answered \/ PopupEnds
        \/ \E m \in Made : TokenProvider(m) \/ GoesStale(m)
        \/ \E s \in SignIns : SignInResumes(s) \/ SignInOpens(s)
        \/ \E o \in SignOuts : SignOut(o) \/ SignedOut(o)
  \/ UserActs \/ BackendRevokes
  \/ \E m \in Made : BackendAnswers(m)
  \/ \E o \in SignOuts : RevokeAnswered(o)

PageSpec == PageInit /\ [][PageNext]_pageVars

\* fetch settles, its answer is handled, and a popup's timer bounds its wait.
PageFairSpec ==
  /\ PageSpec /\ WF_pageVars(Continue) /\ WF_pageVars(Settled /\ PopupEnds)
  /\ \A m \in 1..MaxManagers : WF_pageVars(m \in Made /\ BackendAnswers(m))
  /\ \A m \in 1..MaxManagers : WF_pageVars(Settled /\ m \in Made /\
       (RefreshSucceeds(m) \/ RefreshRefused(m) \/ RefreshErrs(m)))

-----------------------------------------------------------------------------
(* Properties.                                                               *)

NeverSignedOut == \A o \in SignOuts : signOut[o].at = "idle"

\* Until the page signs out, a refresh token is never submitted by two managers at
\* once: the backend would refuse the second and the page would log itself out.
OneRefreshPerToken ==
  NeverSignedOut => \A m, n \in Made : m # n /\ Refreshing(m) /\ Refreshing(n) =>
    managers[m].refresh.using # managers[n].refresh.using

\* Until the page signs out, a token the backend accepts is the stored one or on
\* its way there, unless the network lost it, nobody waited for it any more, or
\* nothing was in its scope.
KeptWhileLive ==
  NeverSignedOut => \A t \in live \ lost :
    t = stored \/ \E m \in Made : managers[m].refresh.got = t /\ ~managers[m].cleared

\* The sign-ins of a page share one session and do not lose it.
SessionShared == OneRefreshPerToken /\ KeptWhileLive

\* A manager that was cleared stays so, and a refresh it has in flight brings
\* nothing back: neither its token nor a stored session.
ClearedStaysCleared ==
  [][\A m \in Made : managers[m].cleared =>
       /\ managers'[m].cleared /\ managers'[m].token = 0
       /\ managers'[m].refresh # managers[m].refresh => stored' \in {0, stored}]_pageVars

\* Every sign-in is settled in the end, also one whose popup another took over.
SignInSettles ==
  \A s \in SignIns : signIn[s].at = "popup" ~> signIn[s].at \in {"done", "failed"}
=============================================================================
