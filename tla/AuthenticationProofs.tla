------------------------- MODULE AuthenticationProofs -------------------------
(* The credentials, on a page and in a process. First the sign-ins of a page, *)
(* for every set of calls and every bound: a cleared manager stays cleared,   *)
(* and until the page signs out its sign-ins share one session and do not     *)
(* lose it (IInv). Then the credentials of a consumer, an agent or a provider,*)
(* the calls that use them and the agent's connection, for every set of       *)
(* calls, every mode and operation, any number of tokens, of refreshes under  *)
(* way at once and of environment switches (Inv: AuthInv is what              *)
(* ConsumerAuth's steps keep, AgentInv what the connection's do).             *)
EXTENDS EmbedAuth, AgentConnection, SequenceTheorems, TLAPS

-----------------------------------------------------------------------------
(* The sign-ins of a page.                                                   *)

Refreshes == [is : {"none", "sent", "ok", "refused", "failed"}, using : Nat, got : Nat]
Managers == [token : Nat, fresh : BOOLEAN, cleared : BOOLEAN, refresh : Refreshes]
SignInAt == {"idle", "refreshing", "ok", "none_live", "refused", "error", "popup", "done", "failed"}

\* The variables keep their types, and no token is known before it is issued.
TypeOK ==
  /\ minted \in Nat /\ live \in SUBSET (1..minted) /\ stored \in 0..minted
  /\ managers \in Seq(Managers) /\ registered \in 0..Len(managers)
  /\ signIn \in [SignIns -> [at : SignInAt, with : Nat]]
  /\ popup \in SignIns \cup {NoSignIn}
  /\ window \in [is : {"none", "open", "approved", "refused", "closed"}, got : 0..minted]
  /\ signOut \in [SignOuts -> [at : {"idle", "revoking", "revoked", "done"},
                               revokes : Nat, found : SUBSET Nat]]
  /\ lost \in SUBSET (1..minted)

\* A refresh has brought a token exactly when the backend granted one, and so has
\* the window.
AnswersAreGrants ==
  /\ \A m \in Made : IF managers[m].refresh.is = "ok" THEN managers[m].refresh.got \in 1..minted
                     ELSE managers[m].refresh.got = 0
  /\ window.is = "approved" => window.got # 0

\* A cleared manager holds no token.
ClearedIsEmpty == \A m \in Made : managers[m].cleared => managers[m].token = 0

\* A popup is only open while there is no session.
PopupReplacesNothing == popup # NoSignIn => stored = 0

\* Only the registered manager can be in use, and only while there is a session.
OneManager == \A m \in Made : ~managers[m].cleared => m = registered /\ stored # 0

\* What is in flight is the refresh of the stored token, of a manager in use, and
\* once the backend has answered it the stored token is spent.
RefreshOfStored ==
  \A m \in Made : Refreshing(m) =>
    /\ ~managers[m].cleared
    /\ managers[m].refresh.is = "sent" => managers[m].refresh.using = stored
    /\ managers[m].refresh.is \in {"ok", "refused"} => stored \notin live

\* A sign-in awaits a refresh that is in flight; one that is to start over finds its
\* manager registered, or what was registered already gone.
SignInFollows(s) ==
  LET m == signIn[s].with IN
  /\ signIn[s].at = "refreshing" => m \in Made /\ Refreshing(m)
  /\ signIn[s].at \in {"refused", "none_live"} =>
       /\ m \in Made /\ registered \in {m, 0}
       /\ IF signIn[s].at = "refused" THEN managers[m].cleared ELSE ~Refreshing(m)

KeptIn(t) == t = stored \/ \E m \in Made : managers[m].refresh.got = t /\ ~managers[m].cleared

SharedInv ==
  /\ OneManager /\ RefreshOfStored
  /\ \A s \in SignIns : SignInFollows(s)
  /\ \A t \in live \ lost : KeptIn(t)

IInv ==
  /\ TypeOK /\ AnswersAreGrants /\ ClearedIsEmpty /\ PopupReplacesNothing
  /\ NeverSignedOut => SharedInv

-----------------------------------------------------------------------------
(* Sequences of managers.                                                    *)

\* q is p but for its entry m, which is r.
ChangedAt(p, q, m, r) ==
  /\ q \in Seq(Managers) /\ Len(q) = Len(p) /\ DOMAIN q = DOMAIN p
  /\ q[m] = r /\ \A n \in DOMAIN p \ {m} : q[n] = p[n]

\* Updating one manager leaves the others and their number alone.
LEMMA OneUpdated ==
  ASSUME NEW p \in Seq(Managers), NEW m \in DOMAIN p, NEW r \in Managers
  PROVE  ChangedAt(p, [p EXCEPT ![m] = r], m, r)
  BY DEF ChangedAt

\* A manager that is made comes after the others.
LEMMA OneAppended ==
  ASSUME NEW p \in Seq(Managers), NEW r \in Managers
  PROVE  /\ Append(p, r) \in Seq(Managers) /\ Len(Append(p, r)) = Len(p) + 1
         /\ DOMAIN Append(p, r) = DOMAIN p \cup {Len(p) + 1}
         /\ Len(p) + 1 \notin DOMAIN p
         /\ Append(p, r)[Len(p) + 1] = r
         /\ \A n \in DOMAIN p : Append(p, r)[n] = p[n]
  OBVIOUS

\* A manager that is made and changed at once is made as it becomes.
LEMMA LastUpdated ==
  ASSUME NEW p \in Seq(Managers), NEW q \in Managers, NEW r \in Managers
  PROVE  [Append(p, q) EXCEPT ![Len(p) + 1] = r] = Append(p, r)
  <1> DEFINE u == [Append(p, q) EXCEPT ![Len(p) + 1] = r]
             v == Append(p, r)
  <1>1. /\ u \in Seq(Managers) /\ v \in Seq(Managers)
        /\ Len(u) = Len(p) + 1 /\ Len(v) = Len(p) + 1
    OBVIOUS
  <1>2. ASSUME NEW i \in 1..(Len(p) + 1)
        PROVE  u[i] = v[i]
    <2>1. CASE i = Len(p) + 1
      BY <2>1, OneAppended
    <2>2. CASE i # Len(p) + 1
      <3>1. i \in DOMAIN p /\ i \in DOMAIN Append(p, q)
        BY <2>2
      <3>2. u[i] = Append(p, q)[i]
        BY <2>2, <3>1
      <3> QED
        BY <3>1, <3>2, OneAppended
    <2> QED
      BY <2>1, <2>2
  <1> HIDE DEF u, v
  <1>3. u = v
    BY <1>1, <1>2, SeqEqual
  <1> QED
    BY <1>3 DEF u, v

\* A manager keeps its type when its refresh or its token is replaced.
LEMMA ManagerTypes ==
  ASSUME NEW r \in Managers, NEW f \in Refreshes, NEW t \in Nat
  PROVE  /\ [r EXCEPT !.refresh = f] \in Managers
         /\ [r EXCEPT !.fresh = FALSE] \in Managers
         /\ [r EXCEPT !.token = t, !.fresh = TRUE, !.refresh = f] \in Managers
         /\ Cleared(r) \in Managers /\ [Cleared(r) EXCEPT !.refresh = f] \in Managers
         /\ [NewManager EXCEPT !.token = t, !.fresh = TRUE] \in Managers
         /\ NewManager \in Managers /\ NoRefresh \in Refreshes
  BY DEF Managers, Refreshes, Cleared, NewManager, NoRefresh

\* Clearing a manager leaves its refresh in flight; a new one has none.
LEMMA ClearedFacts ==
  ASSUME NEW r \in Managers
  PROVE  /\ Cleared(r) \in Managers /\ Cleared(r).refresh = r.refresh
         /\ Cleared(r).token = 0 /\ Cleared(r).cleared
  BY DEF Managers, Cleared

LEMMA NewManagerFacts ==
  ASSUME NEW t \in Nat
  PROVE  /\ [NewManager EXCEPT !.token = t, !.fresh = TRUE] \in Managers
         /\ [NewManager EXCEPT !.token = t, !.fresh = TRUE].refresh = NoRefresh
         /\ ~[NewManager EXCEPT !.token = t, !.fresh = TRUE].cleared
         /\ NewManager \in Managers /\ NewManager.refresh = NoRefresh /\ NoRefresh \in Refreshes
  BY DEF Managers, Refreshes, NewManager, NoRefresh

\* An answer leaves which token a refresh uses alone.
LEMMA RefreshAnswered ==
  ASSUME NEW f \in Refreshes, NEW is \in {"ok", "refused", "failed"}, NEW got \in Nat
  PROVE  [f EXCEPT !.is = is, !.got = got] = [is |-> is, using |-> f.using, got |-> got]
  <1> DEFINE g == [f EXCEPT !.is = is]
  <1>1. g = [is |-> is, using |-> f.using, got |-> f.got]
    BY DEF Refreshes
  <1>2. g \in Refreshes
    BY DEF Refreshes
  <1>3. [g EXCEPT !.got = got] = [is |-> is, using |-> f.using, got |-> got]
    <2> HIDE DEF g
    <2> QED
      BY <1>1, <1>2 DEF Refreshes
  <1> QED
    BY <1>3

\* Every manager is a manager, and so is what it holds.
LEMMA ManagerFacts ==
  ASSUME TypeOK, NEW m \in Made
  PROVE  /\ managers[m] \in Managers /\ managers[m].refresh \in Refreshes
         /\ managers[m].token \in Nat /\ managers[m].refresh.got \in Nat
         /\ managers[m].fresh \in BOOLEAN /\ managers[m].cleared \in BOOLEAN
         /\ m \in 1..Len(managers)
  <1>1. managers \in Seq(Managers)
    BY DEF TypeOK
  <1>2. managers[m] \in Managers /\ m \in 1..Len(managers)
    BY <1>1 DEF Made
  <1> QED
    BY <1>2 DEF Managers, Refreshes

-----------------------------------------------------------------------------
(* The steps.                                                                *)

LEMMA InitIInv == PageInit => IInv
  <1> SUFFICES ASSUME PageInit PROVE IInv
    OBVIOUS
  <1>1. Made = {} /\ managers \in Seq(Managers) /\ Len(managers) = 0
    BY DEF PageInit, Made
  <1>2. minted \in Nat /\ live = 1..minted /\ stored = minted /\ lost = {} /\ registered = 0
    BY DEF PageInit
  <1>3. /\ signIn \in [SignIns -> [at : SignInAt, with : Nat]]
        /\ \A s \in SignIns : signIn[s].at = "idle"
    BY DEF PageInit, SignInAt
  <1>4. signOut \in [SignOuts -> [at : {"idle", "revoking", "revoked", "done"},
                                 revokes : Nat, found : SUBSET Nat]]
    BY DEF PageInit
  <1>5. popup = NoSignIn /\ window = [is |-> "none", got |-> 0]
    BY DEF PageInit, NoWindow
  <1>6. TypeOK
    BY <1>1, <1>2, <1>3, <1>4, <1>5 DEF TypeOK
  <1>7. SharedInv
    <2>1. \A t \in live \ lost : KeptIn(t)
      BY <1>2, PageInit DEF PageInit, KeptIn
    <2> QED
      BY <2>1, <1>1, <1>3 DEF SharedInv, OneManager, RefreshOfStored, SignInFollows
  <1> QED
    BY <1>1, <1>5, <1>6, <1>7 DEF IInv, AnswersAreGrants, ClearedIsEmpty, PopupReplacesNothing

\* While nobody is to go on, a sign-in follows its refresh as long as that stays in flight.
LEMMA StillFollows ==
  ASSUME Settled, \A s \in SignIns : SignInFollows(s), signIn' = signIn, Made \subseteq Made',
         \A m \in Made : Refreshing(m) => Refreshing(m)'
  PROVE  \A s \in SignIns : SignInFollows(s)'
  <1> TAKE s \in SignIns
  <1>1. signIn[s].at \notin {"refused", "none_live"}
    BY DEF Settled
  <1>2. SignInFollows(s)
    OBVIOUS
  <1>3. signIn[s].at = "refreshing" => signIn[s].with \in Made /\ Refreshing(signIn[s].with)
    BY <1>2 DEF SignInFollows
  <1> QED
    BY <1>1, <1>3 DEF SignInFollows

\* A token stays kept while what keeps it stays.
LEMMA StillKept ==
  ASSUME TypeOK, AnswersAreGrants, NEW t \in live, KeptIn(t), stored' = stored,
         \A m \in Made : managers[m].refresh.is = "ok" /\ ~managers[m].cleared =>
           m \in Made' /\ ~managers'[m].cleared /\ managers'[m].refresh.got = managers[m].refresh.got
  PROVE  KeptIn(t)'
  <1>1. t # 0
    BY DEF TypeOK
  <1>2. \A m \in Made : managers[m].refresh.got = t => managers[m].refresh.is = "ok"
    BY <1>1 DEF AnswersAreGrants
  <1> QED
    BY <1>2 DEF KeptIn

LEMMA TokenProviderKeeps ==
  ASSUME IInv, Settled, NEW m \in Made, TokenProvider(m)
  PROVE  IInv'
  <1> DEFINE r == [managers[m] EXCEPT !.refresh = Asked]
  <1>1. TypeOK /\ stored \in Nat
    BY DEF IInv, TypeOK
  <1>2. managers[m] \in Managers /\ managers[m].token \in Nat
    BY <1>1, ManagerFacts
  <1>3. r \in Managers /\ r.refresh = Asked /\ r.cleared = managers[m].cleared /\ r.token = managers[m].token
    BY <1>1, <1>2 DEF Managers, Refreshes, Asked
  <1>4. managers' = [managers EXCEPT ![m] = r]
    BY DEF TokenProvider
  <1> HIDE DEF r
  <1>5. ChangedAt(managers, managers', m, r)
    BY <1>1, <1>3, <1>4, OneUpdated DEF TypeOK, Made
  <1>6. /\ ~managers[m].cleared /\ ~Refreshing(m) /\ stored # 0
        /\ UNCHANGED <<minted, live, lost, stored, registered, signIn, popup, window, signOut>>
    BY DEF TokenProvider, backend
  <1>7. TypeOK'
    BY <1>1, <1>5, <1>6 DEF TypeOK, ChangedAt
  <1>8. AnswersAreGrants' /\ ClearedIsEmpty' /\ PopupReplacesNothing'
    BY <1>3, <1>5, <1>6 DEF IInv, AnswersAreGrants, ClearedIsEmpty, PopupReplacesNothing, ChangedAt, Made, Asked
  <1>9. ASSUME NeverSignedOut'
        PROVE  SharedInv'
    <2>1. SharedInv
      BY <1>6, <1>9 DEF IInv, NeverSignedOut
    <2>2. OneManager'
      BY <2>1, <1>3, <1>5, <1>6 DEF SharedInv, OneManager, ChangedAt, Made
    <2>3. RefreshOfStored'
      BY <2>1, <1>3, <1>5, <1>6 DEF SharedInv, RefreshOfStored, ChangedAt, Made, Refreshing, Asked
    <2>4. \A s \in SignIns : SignInFollows(s)'
      <3>1. Made' = Made /\ \A n \in Made : Refreshing(n) => Refreshing(n)'
        BY <1>3, <1>5, <1>6 DEF ChangedAt, Made, Refreshing, Asked
      <3> QED
        BY <3>1, <2>1, <1>6, StillFollows DEF SharedInv
    <2>5. \A t \in (live \ lost)' : KeptIn(t)'
      <3>1. \A n \in Made : managers[n].refresh.is = "ok" /\ ~managers[n].cleared =>
              n \in Made' /\ ~managers'[n].cleared /\ managers'[n].refresh.got = managers[n].refresh.got
        BY <1>5, <1>6 DEF ChangedAt, Made, Refreshing
      <3> QED
        BY <3>1, <2>1, <1>1, <1>6, StillKept DEF SharedInv, IInv
    <2> QED
      BY <2>2, <2>3, <2>4, <2>5 DEF SharedInv
  <1> QED
    BY <1>7, <1>8, <1>9 DEF IInv

LEMMA GoesStaleKeeps ==
  ASSUME IInv, Settled, NEW m \in Made, GoesStale(m)
  PROVE  IInv'
  <1> DEFINE r == [managers[m] EXCEPT !.fresh = FALSE]
  <1>1. TypeOK
    BY DEF IInv
  <1>2. managers[m] \in Managers /\ managers[m].token \in Nat
    BY <1>1, ManagerFacts
  <1>3. /\ r \in Managers /\ r.refresh = managers[m].refresh /\ r.cleared = managers[m].cleared
        /\ r.token = managers[m].token
    BY <1>2 DEF Managers
  <1>4. managers' = [managers EXCEPT ![m] = r]
    BY DEF GoesStale
  <1> HIDE DEF r
  <1>5. ChangedAt(managers, managers', m, r)
    BY <1>1, <1>3, <1>4, OneUpdated DEF TypeOK, Made
  <1>6. UNCHANGED <<minted, live, lost, stored, registered, signIn, popup, window, signOut>>
    BY DEF GoesStale, backend
  <1>7. TypeOK'
    BY <1>1, <1>5, <1>6 DEF TypeOK, ChangedAt
  <1>8. AnswersAreGrants' /\ ClearedIsEmpty' /\ PopupReplacesNothing'
    BY <1>3, <1>5, <1>6 DEF IInv, AnswersAreGrants, ClearedIsEmpty, PopupReplacesNothing, ChangedAt, Made
  <1>9. ASSUME NeverSignedOut'
        PROVE  SharedInv'
    <2>1. SharedInv
      BY <1>6, <1>9 DEF IInv, NeverSignedOut
    <2>2. OneManager'
      BY <2>1, <1>3, <1>5, <1>6 DEF SharedInv, OneManager, ChangedAt, Made
    <2>3. RefreshOfStored'
      BY <2>1, <1>3, <1>5, <1>6 DEF SharedInv, RefreshOfStored, ChangedAt, Made, Refreshing
    <2>4. \A s \in SignIns : SignInFollows(s)'
      <3>1. Made' = Made /\ \A n \in Made : Refreshing(n) => Refreshing(n)'
        BY <1>3, <1>5, <1>6 DEF ChangedAt, Made, Refreshing
      <3> QED
        BY <3>1, <2>1, <1>6, StillFollows DEF SharedInv
    <2>5. \A t \in (live \ lost)' : KeptIn(t)'
      <3>1. \A n \in Made : managers[n].refresh.is = "ok" /\ ~managers[n].cleared =>
              n \in Made' /\ ~managers'[n].cleared /\ managers'[n].refresh.got = managers[n].refresh.got
        BY <1>3, <1>5, <1>6 DEF ChangedAt, Made, Refreshing
      <3> QED
        BY <3>1, <2>1, <1>1, <1>6, StillKept DEF SharedInv, IInv
    <2> QED
      BY <2>2, <2>3, <2>4, <2>5 DEF SharedInv
  <1> QED
    BY <1>7, <1>8, <1>9 DEF IInv

\* Any answer leaves the sign-ins and the uses of the managers as they are; a grant
\* spends the stored token and is kept by its manager or lost on the way.
LEMMA BackendAnswersKeeps ==
  ASSUME IInv, NEW m \in Made, BackendAnswers(m)
  PROVE  IInv'
  <1> DEFINE u == managers[m].refresh.using
             f(is, got) == [is |-> is, using |-> u, got |-> got]
             r(is, got) == [managers[m] EXCEPT !.refresh = f(is, got)]
             Grants(is, got) ==
               /\ u \in live /\ minted' = minted + 1 /\ live' = (live \ {u}) \cup {minted + 1}
               /\ \/ is = "ok" /\ got = minted + 1 /\ lost' = lost
                  \/ is = "failed" /\ got = 0 /\ lost' = lost \cup {minted + 1}
             Refuses(is, got) ==
               /\ got = 0 /\ UNCHANGED <<minted, live, lost>>
               /\ (is = "refused" /\ u \notin live) \/ is = "failed"
  <1>1. TypeOK /\ minted \in Nat /\ stored \in 0..minted /\ live \in SUBSET (1..minted)
               /\ lost \in SUBSET (1..minted)
    BY DEF IInv, TypeOK
  <1>2. /\ managers[m] \in Managers /\ managers[m].token \in Nat /\ u \in Nat
        /\ managers[m].refresh \in Refreshes
    BY <1>1, ManagerFacts DEF Refreshes
  <1>3. /\ managers[m].refresh.is = "sent"
        /\ UNCHANGED <<stored, registered, signIn, popup, window, signOut>>
    BY DEF BackendAnswers
  <1>4. PICK is \in {"ok", "refused", "failed"}, got \in Nat :
          /\ managers' = [managers EXCEPT ![m].refresh.is = is, ![m].refresh.got = got]
          /\ Grants(is, got) \/ Refuses(is, got)
    BY <1>1 DEF BackendAnswers, backend
  <1>5. /\ r(is, got) \in Managers /\ r(is, got).refresh = f(is, got)
        /\ r(is, got).cleared = managers[m].cleared /\ r(is, got).token = managers[m].token
    BY <1>2 DEF Managers, Refreshes
  <1>6. managers' = [managers EXCEPT ![m] = r(is, got)]
    <2>1. [managers[m].refresh EXCEPT !.is = is, !.got = got] = f(is, got)
      BY <1>2, RefreshAnswered
    <2>2. r(is, got) = [managers[m] EXCEPT !.refresh = [@ EXCEPT !.is = is, !.got = got]]
      BY <2>1
    <2>3. r(is, got) = [managers[m] EXCEPT !.refresh.is = is, !.refresh.got = got]
      BY ONLY <2>2, <1>2 DEF r, Managers, Refreshes
    <2>4. managers \in Seq(Managers) /\ m \in DOMAIN managers
      BY <1>1 DEF TypeOK, Made
    <2> QED
      BY ONLY <1>4, <2>3, <2>4
  <1> HIDE DEF r
  <1>7. ChangedAt(managers, managers', m, r(is, got))
    BY <1>1, <1>5, <1>6, OneUpdated DEF TypeOK, Made
  <1>8. /\ minted' \in Nat /\ minted' >= minted /\ live' \in SUBSET (1..minted')
        /\ lost' \in SUBSET (1..minted') /\ stored' \in 0..minted'
        /\ window.got \in 0..minted => window'.got \in 0..minted'
    BY <1>1, <1>3, <1>4
  <1>9. TypeOK'
    <2>1. window' \in [is : {"none", "open", "approved", "refused", "closed"}, got : 0..minted']
      BY <1>1, <1>3, <1>8 DEF TypeOK
    <2> QED
      BY <2>1, <1>1, <1>7, <1>8, <1>3 DEF TypeOK, ChangedAt
  <1>10. AnswersAreGrants'
    <2>1. IF is = "ok" THEN got \in 1..minted' ELSE got = 0
      BY <1>1, <1>4
    <2>2. \A n \in Made' : IF managers'[n].refresh.is = "ok" THEN managers'[n].refresh.got \in 1..minted'
                            ELSE managers'[n].refresh.got = 0
      BY <2>1, <1>1, <1>5, <1>7, <1>8 DEF IInv, AnswersAreGrants, ChangedAt, Made
    <2> QED
      BY <2>2, <1>3 DEF IInv, AnswersAreGrants
  <1>11. ClearedIsEmpty' /\ PopupReplacesNothing'
    BY <1>5, <1>7, <1>3 DEF IInv, ClearedIsEmpty, PopupReplacesNothing, ChangedAt, Made
  <1>12. ASSUME NeverSignedOut'
         PROVE  SharedInv'
    <2>1. SharedInv
      BY <1>3, <1>12 DEF IInv, NeverSignedOut
    <2>2. OneManager'
      BY <2>1, <1>3, <1>5, <1>7 DEF SharedInv, OneManager, ChangedAt, Made
    <2>3. u = stored /\ ~managers[m].cleared /\ Refreshing(m)
      BY <2>1, <1>3 DEF SharedInv, RefreshOfStored, Refreshing
    <2>4. OneManager /\ \A n \in Made : n # m => ~Refreshing(n)
      BY <2>1, <2>3 DEF SharedInv, OneManager, RefreshOfStored
    <2>5. is \in {"ok", "refused"} => stored \notin live'
      BY <2>3, <1>1, <1>4
    <2>6. RefreshOfStored'
      BY <2>3, <2>4, <2>5, <1>3, <1>5, <1>7 DEF RefreshOfStored, ChangedAt, Made, Refreshing
    <2>7. \A s \in SignIns : SignInFollows(s)'
      <3> TAKE s \in SignIns
      <3>1. SignInFollows(s)
        BY <2>1 DEF SharedInv
      <3>2. \A n \in Made : n \in Made' /\ managers'[n].cleared = managers[n].cleared
                            /\ (Refreshing(n)' <=> Refreshing(n))
        <4> TAKE n \in Made
        <4>1. n \in Made' /\ managers'[n].cleared = managers[n].cleared
          BY <1>5, <1>7 DEF ChangedAt, Made
        <4>2. CASE n = m
          <5>1. is # "none" /\ managers'[m].refresh.is = is
            BY <1>4, <1>5, <1>7 DEF ChangedAt
          <5> QED
            BY <4>1, <4>2, <5>1, <2>3 DEF Refreshing
        <4>3. CASE n # m
          BY <4>1, <4>3, <1>7 DEF ChangedAt, Made, Refreshing
        <4> QED
          BY <4>2, <4>3
      <3> QED
        BY <3>1, <3>2, <1>3 DEF SignInFollows
    <2>8. \A t \in (live \ lost)' : KeptIn(t)'
      <3> TAKE t \in (live \ lost)'
      <3>1. CASE t = minted + 1
        <4>1. is = "ok" /\ got = minted + 1
          BY <3>1, <1>1, <1>4
        <4> QED
          BY <4>1, <3>1, <2>3, <1>5, <1>7 DEF KeptIn, ChangedAt, Made
      <3>2. CASE t # minted + 1
        <4>1. t \in live \ lost
          BY <3>2, <1>4
        <4>2. KeptIn(t)
          BY <4>1, <2>1 DEF SharedInv
        <4>3. \A n \in Made : managers[n].refresh.is = "ok" /\ ~managers[n].cleared =>
                n \in Made' /\ ~managers'[n].cleared /\ managers'[n].refresh.got = managers[n].refresh.got
          BY <1>3, <1>7 DEF ChangedAt, Made
        <4> QED
          BY <4>1, <4>2, <4>3, <1>1, <1>3, StillKept DEF IInv
      <3> QED
        BY <3>1, <3>2
    <2> QED
      BY <2>2, <2>6, <2>7, <2>8 DEF SharedInv
  <1> QED
    BY <1>9, <1>10, <1>11, <1>12 DEF IInv

\* The sign-ins that awaited m go on, and the others still follow theirs.
LEMMA ResumedFollow ==
  ASSUME TypeOK, Settled, \A s \in SignIns : SignInFollows(s), NEW m \in Made, Made' = Made,
         NEW outcome \in {"ok", "none_live", "refused", "error"}, Resume(m, outcome),
         \A n \in Made \ {m} : Refreshing(n) => Refreshing(n)',
         outcome \in {"none_live", "refused"} => registered' \in {m, 0},
         outcome = "refused" => managers'[m].cleared,
         outcome = "none_live" => ~Refreshing(m)'
  PROVE  \A s \in SignIns : SignInFollows(s)'
  <1> TAKE s \in SignIns
  <1>1. signIn[s].at \notin {"refused", "none_live"}
    BY DEF Settled
  <1>2. signIn[s] \in [at : SignInAt, with : Nat]
    BY DEF TypeOK
  <1>3. signIn[s].at = "refreshing" => signIn[s].with \in Made /\ Refreshing(signIn[s].with)
    BY DEF SignInFollows
  <1>4. CASE signIn[s] = [at |-> "refreshing", with |-> m]
    <2>1. signIn'[s] = [at |-> outcome, with |-> m]
      BY <1>4 DEF Resume
    <2>2. signIn'[s].at = outcome /\ signIn'[s].with = m /\ outcome # "refreshing" /\ m \in Made'
      BY <2>1
    <2>3. ~Refreshing(m)' <=> managers'[m].refresh.is = "none"
      BY DEF Refreshing
    <2>4. CASE outcome = "refused"
      BY <2>2, <2>4 DEF SignInFollows
    <2>5. CASE outcome = "none_live"
      BY <2>2, <2>3, <2>5 DEF SignInFollows, Refreshing
    <2>6. CASE outcome \in {"ok", "error"}
      BY <2>2, <2>6 DEF SignInFollows
    <2> QED
      BY <2>4, <2>5, <2>6
  <1>5. CASE signIn[s] # [at |-> "refreshing", with |-> m]
    <2>1. signIn'[s] = signIn[s]
      BY <1>5 DEF Resume
    <2>2. signIn[s].at = "refreshing" => signIn[s].with # m
      BY <1>2, <1>5
    <2> QED
      BY <2>1, <2>2, <1>1, <1>3 DEF SignInFollows
  <1> QED
    BY <1>4, <1>5

\* Going on, a sign-in keeps its type.
LEMMA ResumedType ==
  ASSUME TypeOK, NEW m \in Made, NEW outcome \in {"ok", "none_live", "refused", "error"},
         Resume(m, outcome)
  PROVE  signIn' \in [SignIns -> [at : SignInAt, with : Nat]]
  <1>1. m \in Nat
    <2>1. managers \in Seq(Managers)
      BY DEF TypeOK
    <2> QED
      BY <2>1, ManagerFacts
  <1>2. [at |-> outcome, with |-> m] \in [at : SignInAt, with : Nat]
    BY <1>1 DEF SignInAt
  <1> QED
    BY <1>2 DEF Resume, TypeOK

\* While the page has never signed out, a refresh in flight is the registered
\* manager's, and it is the only one in use.
LEMMA RefreshingIsInUse ==
  ASSUME SharedInv, NEW m \in Made, Refreshing(m)
  PROVE  /\ ~managers[m].cleared /\ registered = m /\ stored # 0
         /\ \A n \in Made : n # m => managers[n].cleared /\ ~Refreshing(n)
  BY DEF SharedInv, OneManager, RefreshOfStored

\* What is kept while a refresh is answered is what the answer brings.
LEMMA AnswerIsKept ==
  ASSUME TypeOK, AnswersAreGrants, SharedInv, NEW m \in Made,
         managers[m].refresh.is \in {"ok", "refused"}, NEW t \in live \ lost
  PROVE  managers[m].refresh.is = "ok" /\ t = managers[m].refresh.got
  <1>1. Refreshing(m)
    BY DEF Refreshing
  <1>2. stored \notin live /\ \A n \in Made : n # m => managers[n].cleared
    BY <1>1, RefreshingIsInUse DEF SharedInv, RefreshOfStored
  <1>3. KeptIn(t) /\ t # 0
    BY DEF SharedInv, TypeOK
  <1>4. managers[m].refresh.got = t
    BY <1>2, <1>3 DEF KeptIn
  <1> QED
    BY <1>3, <1>4 DEF AnswersAreGrants

LEMMA RefreshFailsKeeps ==
  ASSUME IInv, Settled, NEW m \in Made, RefreshErrs(m)
  PROVE  IInv'
  <1> DEFINE r == [managers[m] EXCEPT !.refresh = NoRefresh]
  <1>1. TypeOK /\ AnswersAreGrants
    BY DEF IInv
  <1>2. managers[m] \in Managers /\ managers[m].token \in Nat
    BY <1>1, ManagerFacts
  <1>3. /\ r \in Managers /\ r.refresh = NoRefresh /\ r.cleared = managers[m].cleared
        /\ r.token = managers[m].token
    BY <1>2 DEF Managers, Refreshes, NoRefresh
  <1>4. managers' = [managers EXCEPT ![m] = r]
    BY DEF RefreshErrs
  <1> HIDE DEF r
  <1>5. ChangedAt(managers, managers', m, r)
    BY <1>1, <1>3, <1>4, OneUpdated DEF TypeOK, Made
  <1>6. /\ managers[m].refresh.is = "failed" /\ Resume(m, "error")
        /\ UNCHANGED <<minted, live, lost, stored, registered, popup, window, signOut>>
    BY DEF RefreshErrs, backend
  <1>7. TypeOK'
    <2>1. signIn' \in [SignIns -> [at : SignInAt, with : Nat]]
      BY <1>1, <1>6, ResumedType
    <2> QED
      BY <2>1, <1>1, <1>5, <1>6 DEF TypeOK, ChangedAt
  <1>8. AnswersAreGrants' /\ ClearedIsEmpty' /\ PopupReplacesNothing'
    BY <1>3, <1>5, <1>6 DEF IInv, AnswersAreGrants, ClearedIsEmpty, PopupReplacesNothing, ChangedAt, Made, NoRefresh
  <1>9. ASSUME NeverSignedOut'
        PROVE  SharedInv'
    <2>1. SharedInv
      BY <1>6, <1>9 DEF IInv, NeverSignedOut
    <2>2. OneManager'
      BY <2>1, <1>3, <1>5, <1>6 DEF SharedInv, OneManager, ChangedAt, Made
    <2>3. RefreshOfStored'
      BY <2>1, <1>3, <1>5, <1>6 DEF SharedInv, RefreshOfStored, ChangedAt, Made, Refreshing, NoRefresh
    <2>4. \A s \in SignIns : SignInFollows(s)'
      <3>1. Made' = Made /\ \A n \in Made \ {m} : Refreshing(n) => Refreshing(n)'
        BY <1>5 DEF ChangedAt, Made, Refreshing
      <3> QED
        BY <3>1, <2>1, <1>1, <1>6, ResumedFollow DEF SharedInv
    <2>5. \A t \in (live \ lost)' : KeptIn(t)'
      <3>1. \A n \in Made : managers[n].refresh.is = "ok" /\ ~managers[n].cleared =>
              n \in Made' /\ ~managers'[n].cleared /\ managers'[n].refresh.got = managers[n].refresh.got
        BY <1>5, <1>6 DEF ChangedAt, Made
      <3> QED
        BY <3>1, <2>1, <1>1, <1>6, StillKept DEF SharedInv, IInv
    <2> QED
      BY <2>2, <2>3, <2>4, <2>5 DEF SharedInv
  <1> QED
    BY <1>7, <1>8, <1>9 DEF IInv

LEMMA RefreshRefusedKeeps ==
  ASSUME IInv, Settled, NEW m \in Made, RefreshRefused(m)
  PROVE  IInv'
  <1> DEFINE r == [Cleared(managers[m]) EXCEPT !.refresh = NoRefresh]
  <1>1. TypeOK /\ AnswersAreGrants
    BY DEF IInv
  <1>2. managers[m] \in Managers /\ managers[m].token \in Nat
    BY <1>1, ManagerFacts
  <1>3. r \in Managers /\ r.refresh = NoRefresh /\ r.cleared /\ r.token = 0
    BY <1>2 DEF Managers, Refreshes, NoRefresh, Cleared
  <1>4. managers' = [managers EXCEPT ![m] = r]
    BY DEF RefreshRefused
  <1> HIDE DEF r
  <1>5. ChangedAt(managers, managers', m, r)
    BY <1>1, <1>3, <1>4, OneUpdated DEF TypeOK, Made
  <1>6. /\ managers[m].refresh.is = "refused" /\ Resume(m, "refused") /\ stored' = 0
        /\ UNCHANGED <<minted, live, lost, registered, popup, window, signOut>>
    BY DEF RefreshRefused, backend
  <1>7. TypeOK'
    <2>1. signIn' \in [SignIns -> [at : SignInAt, with : Nat]]
      BY <1>1, <1>6, ResumedType
    <2> QED
      BY <2>1, <1>1, <1>5, <1>6 DEF TypeOK, ChangedAt
  <1>8. AnswersAreGrants' /\ ClearedIsEmpty' /\ PopupReplacesNothing'
    BY <1>3, <1>5, <1>6 DEF IInv, AnswersAreGrants, ClearedIsEmpty, PopupReplacesNothing, ChangedAt, Made, NoRefresh
  <1>9. ASSUME NeverSignedOut'
        PROVE  SharedInv'
    <2>1. SharedInv /\ Refreshing(m)
      BY <1>6, <1>9 DEF IInv, NeverSignedOut, Refreshing
    <2>2. registered = m /\ \A n \in Made : n # m => managers[n].cleared /\ ~Refreshing(n)
      BY <2>1, RefreshingIsInUse
    <2>3. OneManager' /\ RefreshOfStored'
      BY <2>2, <1>3, <1>5 DEF OneManager, RefreshOfStored, ChangedAt, Made, Refreshing, NoRefresh
    <2>4. \A s \in SignIns : SignInFollows(s)'
      <3>1. Made' = Made /\ \A n \in Made \ {m} : Refreshing(n) => Refreshing(n)'
        BY <1>5 DEF ChangedAt, Made, Refreshing
      <3>2. managers'[m].cleared /\ registered' = m
        BY <2>2, <1>3, <1>5, <1>6 DEF ChangedAt
      <3> QED
        BY <3>1, <3>2, <2>1, <1>1, <1>6, ResumedFollow DEF SharedInv
    <2>5. \A t \in (live \ lost)' : KeptIn(t)'
      BY <2>1, <1>1, <1>6, AnswerIsKept
    <2> QED
      BY <2>3, <2>4, <2>5 DEF SharedInv
  <1> QED
    BY <1>7, <1>8, <1>9 DEF IInv

\* An answer a cleared manager drops is lost; one a manager in use takes replaces the
\* stored token, if there is one.
LEMMA RefreshSucceedsKeeps ==
  ASSUME IInv, Settled, NEW m \in Made, RefreshSucceeds(m)
  PROVE  IInv'
  <1> DEFINE got == managers[m].refresh.got
  <1>1. TypeOK /\ AnswersAreGrants
    BY DEF IInv
  <1>2. /\ managers[m] \in Managers /\ managers[m].token \in Nat
        /\ managers[m].cleared \in BOOLEAN
    BY <1>1, ManagerFacts
  <1>3. /\ managers[m].refresh.is = "ok"
        /\ UNCHANGED <<minted, live, registered, popup, window, signOut>>
    BY DEF RefreshSucceeds
  <1>4. got \in 1..minted /\ got \in Nat /\ minted \in Nat
    BY <1>1, <1>3 DEF AnswersAreGrants, TypeOK
  <1>5. CASE managers[m].cleared
    <2> DEFINE r == [managers[m] EXCEPT !.refresh = NoRefresh]
    <2>1. /\ r \in Managers /\ r.refresh = NoRefresh /\ r.cleared = managers[m].cleared
          /\ r.token = managers[m].token
      BY <1>2 DEF Managers, Refreshes, NoRefresh
    <2>2. /\ managers' = [managers EXCEPT ![m] = r] /\ lost' = lost \cup {got}
          /\ Resume(m, "refused") /\ stored' = stored
      BY <1>5 DEF RefreshSucceeds
    <2> HIDE DEF r
    <2>3. ChangedAt(managers, managers', m, r)
      BY <1>1, <2>1, <2>2, OneUpdated DEF TypeOK, Made
    <2>4. TypeOK'
      <3>1. signIn' \in [SignIns -> [at : SignInAt, with : Nat]]
        BY <1>1, <2>2, ResumedType
      <3> QED
        BY <3>1, <1>1, <1>3, <1>4, <2>2, <2>3 DEF TypeOK, ChangedAt
    <2>5. AnswersAreGrants' /\ ClearedIsEmpty' /\ PopupReplacesNothing'
      BY <1>3, <2>1, <2>2, <2>3 DEF IInv, AnswersAreGrants, ClearedIsEmpty, PopupReplacesNothing, ChangedAt, Made, NoRefresh
    <2>6. ~NeverSignedOut'
      <3>1. Refreshing(m)
        BY <1>3 DEF Refreshing
      <3> QED
        BY <3>1, <1>3, <1>5, RefreshingIsInUse DEF IInv, NeverSignedOut
    <2> QED
      BY <2>4, <2>5, <2>6 DEF IInv
  <1>6. CASE ~managers[m].cleared
    <2> DEFINE r == [managers[m] EXCEPT !.token = got, !.fresh = TRUE, !.refresh = NoRefresh]
    <2>1. r \in Managers /\ r.refresh = NoRefresh /\ r.cleared = managers[m].cleared
      BY <1>2, <1>4 DEF Managers, Refreshes, NoRefresh
    <2>2. managers' = [managers EXCEPT ![m] = r]
      BY <1>6 DEF RefreshSucceeds
    <2>3. /\ lost' = lost /\ stored' = IF stored = 0 THEN 0 ELSE got
          /\ \E outcome \in {"ok", "none_live"} : Resume(m, outcome)
      BY <1>6 DEF RefreshSucceeds
    <2> HIDE DEF r
    <2>4. ChangedAt(managers, managers', m, r)
      BY <1>1, <2>1, <2>2, OneUpdated DEF TypeOK, Made
    <2>5. PICK outcome \in {"ok", "none_live"} : Resume(m, outcome)
      BY <2>3
    <2>6. TypeOK'
      <3>1. signIn' \in [SignIns -> [at : SignInAt, with : Nat]]
        BY <1>1, <2>5, ResumedType
      <3> QED
        BY <3>1, <1>1, <1>3, <1>4, <2>3, <2>4 DEF TypeOK, ChangedAt
    <2>7. AnswersAreGrants' /\ ClearedIsEmpty' /\ PopupReplacesNothing'
      BY <1>3, <1>6, <2>1, <2>3, <2>4 DEF IInv, AnswersAreGrants, ClearedIsEmpty, PopupReplacesNothing, ChangedAt, Made, NoRefresh
    <2>8. ASSUME NeverSignedOut'
          PROVE  SharedInv'
      <3>1. SharedInv /\ Refreshing(m)
        BY <1>3, <2>8 DEF IInv, NeverSignedOut, Refreshing
      <3>2. /\ registered = m /\ stored # 0
            /\ \A n \in Made : n # m => managers[n].cleared /\ ~Refreshing(n)
        BY <3>1, RefreshingIsInUse
      <3>3. OneManager' /\ RefreshOfStored'
        BY <3>2, <1>3, <1>4, <2>1, <2>3, <2>4 DEF OneManager, RefreshOfStored, ChangedAt, Made, Refreshing, NoRefresh
      <3>4. \A s \in SignIns : SignInFollows(s)'
        <4>1. Made' = Made /\ \A n \in Made \ {m} : Refreshing(n) => Refreshing(n)'
          BY <2>4 DEF ChangedAt, Made, Refreshing
        <4>2. registered' = m /\ ~Refreshing(m)'
          BY <3>2, <1>3, <2>1, <2>4 DEF ChangedAt, Refreshing, NoRefresh
        <4> QED
          BY <4>1, <4>2, <3>1, <1>1, <2>5, ResumedFollow DEF SharedInv
      <3>5. \A t \in (live \ lost)' : KeptIn(t)'
        BY <3>1, <3>2, <1>1, <1>3, <2>3, AnswerIsKept DEF KeptIn
      <3> QED
        BY <3>3, <3>4, <3>5 DEF SharedInv
    <2> QED
      BY <2>6, <2>7, <2>8 DEF IInv
  <1> QED
    BY <1>5, <1>6, <1>2

-----------------------------------------------------------------------------
(* Signing in.                                                               *)

\* The call that had the popup fails and the caller has it, or was blocked.
LEMMA OpenPopupType ==
  ASSUME TypeOK, NEW s \in SignIns, OpenPopup(s)
  PROVE  /\ signIn' \in [SignIns -> [at : SignInAt, with : Nat]]
         /\ popup' \in SignIns \cup {NoSignIn}
         /\ window' \in [is : {"none", "open", "approved", "refused", "closed"}, got : 0..minted]
         /\ window'.is # "approved"
         /\ \A x \in SignIns : signIn'[x] = signIn[x] \/ signIn'[x].at \in {"popup", "failed"}
         /\ signIn'[s].at \in {"popup", "failed"}
  <1> DEFINE others == [x \in SignIns |-> IF x = popup THEN [signIn[x] EXCEPT !.at = "failed"]
                                          ELSE signIn[x]]
  <1>1. \A x \in SignIns : signIn[x] \in [at : SignInAt, with : Nat]
    BY DEF TypeOK
  <1>2. \A x \in SignIns, at \in {"popup", "failed"} :
          /\ [signIn[x] EXCEPT !.at = at] \in [at : SignInAt, with : Nat]
          /\ [signIn[x] EXCEPT !.at = at].at = at
    BY <1>1 DEF SignInAt
  <1>3. /\ others \in [SignIns -> [at : SignInAt, with : Nat]]
        /\ \A x \in SignIns : others[x] = signIn[x] \/ others[x].at = "failed"
    BY <1>1, <1>2
  <1>4. \A at \in {"popup", "failed"} :
          /\ [others[s] EXCEPT !.at = at] \in [at : SignInAt, with : Nat]
          /\ [others[s] EXCEPT !.at = at].at = at
    BY <1>3 DEF SignInAt
  <1>5. minted \in Nat
    BY DEF TypeOK
  <1>6. \E at \in {"popup", "failed"} :
          /\ signIn' = [others EXCEPT ![s] = [others[s] EXCEPT !.at = at]]
          /\ popup' \in {s, NoSignIn}
          /\ window' \in {[is |-> "open", got |-> 0], [is |-> "none", got |-> 0]}
    BY DEF OpenPopup, NoWindow
  <1> HIDE DEF others
  <1>7. PICK at \in {"popup", "failed"} :
          /\ signIn' = [others EXCEPT ![s] = [others[s] EXCEPT !.at = at]]
          /\ popup' \in {s, NoSignIn}
          /\ window' \in {[is |-> "open", got |-> 0], [is |-> "none", got |-> 0]}
    BY <1>6
  <1>8. /\ signIn' \in [SignIns -> [at : SignInAt, with : Nat]]
        /\ signIn'[s] = [others[s] EXCEPT !.at = at]
        /\ \A x \in SignIns \ {s} : signIn'[x] = others[x]
    BY <1>3, <1>4, <1>7
  <1>9. /\ window' \in [is : {"none", "open", "approved", "refused", "closed"}, got : 0..minted]
        /\ window'.is # "approved"
    BY <1>5, <1>7
  <1> QED
    BY <1>3, <1>4, <1>7, <1>8, <1>9

\* A sign-in that has nothing to await follows nothing.
LEMMA NoLongerFollows ==
  ASSUME managers' = managers, registered' = registered, NEW s \in SignIns, SignInFollows(s),
         signIn'[s] = signIn[s] \/ signIn'[s].at \in {"popup", "failed", "done", "ok", "error"}
  PROVE  SignInFollows(s)'
  <1>1. CASE signIn'[s] = signIn[s]
    BY <1>1 DEF SignInFollows, Made, Refreshing
  <1>2. CASE signIn'[s].at \in {"popup", "failed", "done", "ok", "error"}
    BY <1>2 DEF SignInFollows
  <1> QED
    BY <1>1, <1>2

\* A step that leaves the managers, the session and the backend alone, but may take
\* sign-ins on and the popup with them.
LEMMA SignInsMoveOn ==
  ASSUME IInv, UNCHANGED <<minted, live, lost, stored, managers, registered, signOut>>,
         signIn' \in [SignIns -> [at : SignInAt, with : Nat]],
         popup' \in SignIns \cup {NoSignIn}, popup' # NoSignIn => stored = 0,
         window' \in [is : {"none", "open", "approved", "refused", "closed"}, got : 0..minted],
         window'.is = "approved" => window'.got # 0,
         \A x \in SignIns : signIn'[x] = signIn[x]
                            \/ signIn'[x].at \in {"popup", "failed", "done", "ok", "error"}
  PROVE  IInv'
  <1>1. TypeOK'
    BY DEF IInv, TypeOK
  <1>2. AnswersAreGrants' /\ ClearedIsEmpty' /\ PopupReplacesNothing'
    BY DEF IInv, AnswersAreGrants, ClearedIsEmpty, PopupReplacesNothing, Made
  <1>3. ASSUME NeverSignedOut'
        PROVE  SharedInv'
    <2>1. SharedInv
      BY <1>3 DEF IInv, NeverSignedOut
    <2>2. OneManager' /\ RefreshOfStored'
      BY <2>1 DEF SharedInv, OneManager, RefreshOfStored, Made, Refreshing
    <2>3. \A s \in SignIns : SignInFollows(s)'
      BY <2>1, NoLongerFollows DEF SharedInv
    <2>4. \A t \in (live \ lost)' : KeptIn(t)'
      BY <2>1 DEF SharedInv, KeptIn, Made
    <2> QED
      BY <2>2, <2>3, <2>4 DEF SharedInv
  <1> QED
    BY <1>1, <1>2, <1>3 DEF IInv

LEMMA SignInOpensKeeps ==
  ASSUME IInv, NEW s \in SignIns, SignInOpens(s)
  PROVE  IInv'
  <1>1. /\ OpenPopup(s) /\ stored = 0 /\ TypeOK
        /\ UNCHANGED <<minted, live, lost, stored, managers, registered, signOut>>
    BY DEF SignInOpens, backend, IInv
  <1> QED
    BY <1>1, OpenPopupType, SignInsMoveOn

LEMMA SignInResumedKeeps ==
  ASSUME IInv, NEW s \in SignIns, SignInResumed(s)
  PROVE  IInv'
  <1>1. UNCHANGED <<minted, live, lost, stored, managers, registered, popup, window, signOut>>
    BY DEF SignInResumed, backend
  <1>2. PICK at \in {"done", "failed"} : signIn' = [signIn EXCEPT ![s] = [signIn[s] EXCEPT !.at = at]]
    BY DEF SignInResumed
  <1>3. TypeOK /\ PopupReplacesNothing /\ AnswersAreGrants
    BY DEF IInv
  <1>4. signIn[s] \in [at : SignInAt, with : Nat]
    BY <1>3 DEF TypeOK
  <1>5. [signIn[s] EXCEPT !.at = at] \in [at : SignInAt, with : Nat] /\ [signIn[s] EXCEPT !.at = at].at = at
    BY <1>4 DEF SignInAt
  <1>6. /\ signIn' \in [SignIns -> [at : SignInAt, with : Nat]]
        /\ \A x \in SignIns : signIn'[x] = signIn[x]
                            \/ signIn'[x].at \in {"popup", "failed", "done", "ok", "error"}
    BY <1>2, <1>3, <1>5 DEF TypeOK
  <1>7. /\ popup' \in SignIns \cup {NoSignIn}
        /\ popup' # NoSignIn => stored = 0
        /\ window' \in [is : {"none", "open", "approved", "refused", "closed"}, got : 0..minted]
        /\ window'.is = "approved" => window'.got # 0
    BY <1>1, <1>3 DEF TypeOK, PopupReplacesNothing, AnswersAreGrants
  <1> QED
    BY <1>1, <1>6, <1>7, SignInsMoveOn

LEMMA PopupFailsKeeps ==
  ASSUME IInv, NEW s \in SignIns, PopupFails(s)
  PROVE  IInv'
  <1>1. /\ UNCHANGED <<minted, live, lost, stored, managers, registered, signOut>>
        /\ popup' = NoSignIn /\ window' = [is |-> "none", got |-> 0]
        /\ signIn' = [signIn EXCEPT ![s] = [signIn[s] EXCEPT !.at = "failed"]]
    BY DEF PopupFails, backend, NoWindow
  <1>2. TypeOK
    BY DEF IInv
  <1>3. signIn[s] \in [at : SignInAt, with : Nat] /\ minted \in Nat
    BY <1>2 DEF TypeOK
  <1>4. /\ [signIn[s] EXCEPT !.at = "failed"] \in [at : SignInAt, with : Nat]
        /\ [signIn[s] EXCEPT !.at = "failed"].at = "failed"
    BY <1>3 DEF SignInAt
  <1>5. /\ signIn' \in [SignIns -> [at : SignInAt, with : Nat]]
        /\ \A x \in SignIns : signIn'[x] = signIn[x] \/ signIn'[x].at = "failed"
    BY <1>1, <1>2, <1>4 DEF TypeOK
  <1>6. /\ window' \in [is : {"none", "open", "approved", "refused", "closed"}, got : 0..minted]
        /\ window'.is # "approved"
    BY <1>1, <1>3
  <1> QED
    BY <1>1, <1>5, <1>6, SignInsMoveOn

\* What the popup's window posts is a token that has not reached the page yet.
LEMMA UserActsKeeps ==
  ASSUME IInv, UserActs
  PROVE  IInv'
  <1>1. UNCHANGED <<stored, managers, registered, signIn, popup, signOut>> /\ TypeOK
    BY DEF UserActs, IInv
  <1>2. /\ minted \in Nat /\ live \in SUBSET (1..minted) /\ lost \in SUBSET (1..minted)
        /\ stored \in 0..minted
    BY <1>1 DEF TypeOK
  <1>3. \/ /\ minted' = minted + 1 /\ live' = live \cup {minted + 1} /\ lost' = lost \cup {minted + 1}
           /\ window' = [is |-> "approved", got |-> minted + 1]
        \/ /\ UNCHANGED <<minted, live, lost>>
           /\ \E is \in {"refused", "closed"} : window' = [window EXCEPT !.is = is]
    BY DEF UserActs, backend
  <1>4. /\ minted' \in Nat /\ minted' >= minted /\ live' \in SUBSET (1..minted')
        /\ lost' \in SUBSET (1..minted') /\ stored' \in 0..minted'
    BY <1>1, <1>2, <1>3
  <1>5. /\ window' \in [is : {"none", "open", "approved", "refused", "closed"}, got : 0..minted']
        /\ window'.is = "approved" => window'.got # 0
    BY <1>1, <1>2, <1>3 DEF TypeOK
  <1>6. TypeOK'
    BY <1>1, <1>4, <1>5 DEF TypeOK
  <1>7. AnswersAreGrants' /\ ClearedIsEmpty' /\ PopupReplacesNothing'
    BY <1>1, <1>2, <1>4, <1>5 DEF IInv, AnswersAreGrants, ClearedIsEmpty, PopupReplacesNothing, Made
  <1>8. ASSUME NeverSignedOut'
        PROVE  SharedInv'
    <2>1. SharedInv
      BY <1>1, <1>8 DEF IInv, NeverSignedOut
    <2>2. stored \notin live => stored \notin live'
      BY <1>2, <1>3
    <2>3. OneManager' /\ RefreshOfStored' /\ \A s \in SignIns : SignInFollows(s)'
      BY <2>1, <2>2, <1>1 DEF SharedInv, OneManager, RefreshOfStored, SignInFollows, Made, Refreshing
    <2>4. (live \ lost)' \subseteq live \ lost
      BY <1>2, <1>3
    <2>5. \A t \in (live \ lost)' : KeptIn(t)'
      BY <2>1, <2>4, <1>1 DEF SharedInv, KeptIn, Made
    <2> QED
      BY <2>3, <2>5 DEF SharedInv
  <1> QED
    BY <1>6, <1>7, <1>8 DEF IInv

\* The backend may withdraw a token at any time.
LEMMA FewerLiveKeeps ==
  ASSUME IInv, live' \subseteq live,
         UNCHANGED <<minted, lost, stored, managers, registered, signIn, popup, window, signOut>>
  PROVE  IInv'
  <1>1. TypeOK'
    BY DEF IInv, TypeOK
  <1>2. AnswersAreGrants' /\ ClearedIsEmpty' /\ PopupReplacesNothing'
    BY DEF IInv, AnswersAreGrants, ClearedIsEmpty, PopupReplacesNothing, Made
  <1>3. ASSUME NeverSignedOut'
        PROVE  SharedInv'
    <2>1. SharedInv
      BY <1>3 DEF IInv, NeverSignedOut
    <2>2. OneManager' /\ RefreshOfStored' /\ \A s \in SignIns : SignInFollows(s)'
      BY <2>1 DEF SharedInv, OneManager, RefreshOfStored, SignInFollows, Made, Refreshing
    <2>3. \A t \in (live \ lost)' : KeptIn(t)'
      BY <2>1 DEF SharedInv, KeptIn, Made
    <2> QED
      BY <2>2, <2>3 DEF SharedInv
  <1> QED
    BY <1>1, <1>2, <1>3 DEF IInv

\* Starting over leaves no manager in use and no session.
LEMMA SignInStartsOverKeeps ==
  ASSUME IInv, NEW s \in SignIns, SignInStartsOver(s)
  PROVE  IInv'
  <1> DEFINE m == signIn[s].with
  <1>1. TypeOK /\ AnswersAreGrants
    BY DEF IInv
  <1>2. /\ signIn[s].at \in {"none_live", "refused"} /\ OpenPopup(s)
        /\ managers' = IF signIn[s].at = "refused" THEN managers
                       ELSE [managers EXCEPT ![m] = Cleared(managers[m])]
        /\ stored' = 0 /\ registered' = 0
        /\ lost' = IF stored = 0 THEN lost ELSE lost \cup {stored}
        /\ UNCHANGED <<minted, live, signOut>>
    BY DEF SignInStartsOver
  <1>3. /\ minted \in Nat /\ live \in SUBSET (1..minted) /\ stored \in 0..minted
        /\ managers \in Seq(Managers) /\ lost \in SUBSET (1..minted)
    BY <1>1 DEF TypeOK
  <1>4. /\ managers' \in Seq(Managers) /\ Made' = Made
        /\ \A n \in Made : \/ managers'[n] = managers[n] /\ (n = m => signIn[s].at = "refused")
                           \/ n = m /\ signIn[s].at = "none_live" /\ managers'[n] = Cleared(managers[n])
    <2>1. CASE signIn[s].at = "refused"
      BY <2>1, <1>2, <1>3 DEF Made
    <2>2. CASE signIn[s].at = "none_live" /\ m \in Made
      <3>1. Cleared(managers[m]) \in Managers
        BY <2>2, <1>1, ManagerFacts, ManagerTypes DEF Refreshes
      <3>2. ChangedAt(managers, managers', m, Cleared(managers[m]))
        BY <2>2, <3>1, <1>2, <1>3, OneUpdated DEF Made
      <3> QED
        BY <2>2, <3>2 DEF ChangedAt, Made
    <2>3. CASE signIn[s].at = "none_live" /\ m \notin Made
      <3>1. managers \in [1..Len(managers) -> Managers] /\ m \notin 1..Len(managers)
        BY <2>3, <1>3 DEF Made
      <3>2. managers' = managers
        BY <2>3, <3>1, <1>2
      <3> QED
        BY <2>3, <3>2, <1>3 DEF Made
    <2> QED
      BY <1>2, <2>1, <2>2, <2>3
  <1>5. \A n \in Made : /\ managers'[n].refresh = managers[n].refresh
                        /\ managers[n].cleared => managers'[n].cleared
                        /\ managers[n].token = 0 => managers'[n].token = 0
                        /\ n = m /\ signIn[s].at = "none_live" => managers'[n].cleared /\ managers'[n].token = 0
                        /\ ~(n = m /\ signIn[s].at = "none_live") => managers'[n] = managers[n]
    BY <1>1, <1>4, ManagerFacts, ClearedFacts
  <1>6. TypeOK'
    BY <1>1, <1>2, <1>3, <1>4, OpenPopupType DEF TypeOK
  <1>7. AnswersAreGrants'
    BY <1>1, <1>2, <1>4, <1>5, OpenPopupType DEF AnswersAreGrants
  <1>8. ClearedIsEmpty' /\ PopupReplacesNothing'
    <2>1. \A n \in Made : managers'[n].cleared => managers'[n].token = 0
      BY <1>5 DEF IInv, ClearedIsEmpty
    <2> QED
      BY <2>1, <1>2, <1>4 DEF ClearedIsEmpty, PopupReplacesNothing
  <1>9. ASSUME NeverSignedOut'
        PROVE  SharedInv'
    <2>1. SharedInv
      BY <1>2, <1>9 DEF IInv, NeverSignedOut
    <2>2. /\ m \in Made /\ registered \in {m, 0}
          /\ signIn[s].at = "refused" => managers[m].cleared
          /\ signIn[s].at = "none_live" => ~Refreshing(m)
      BY <2>1, <1>2 DEF SharedInv, SignInFollows
    <2>3. \A n \in Made : managers'[n].cleared
      <3> TAKE n \in Made
      <3>1. CASE n = m
        BY <3>1, <2>2, <1>2, <1>5
      <3>2. CASE n # m
        <4>1. managers[n].cleared
          <5>1. registered # n
            BY <3>2, <2>2, <1>3 DEF Made
          <5> QED
            BY <5>1, <2>1 DEF SharedInv, OneManager
        <4> QED
          BY <4>1, <1>5
      <3> QED
        BY <3>1, <3>2
    <2>4. \A n \in Made : ~Refreshing(n)
      <3> TAKE n \in Made
      <3>1. CASE n = m
        BY <3>1, <2>1, <2>2, <1>2 DEF SharedInv, RefreshOfStored
      <3>2. CASE n # m
        <4>1. registered # n
          BY <3>2, <2>2, <1>3 DEF Made
        <4> QED
          BY <4>1, <2>1 DEF SharedInv, OneManager, RefreshOfStored
      <3> QED
        BY <3>1, <3>2
    <2>5. \A n \in Made' : ~Refreshing(n)'
      BY <2>4, <1>4, <1>5 DEF Refreshing
    <2>6. OneManager' /\ RefreshOfStored'
      BY <2>3, <2>5, <1>4 DEF OneManager, RefreshOfStored
    <2>7. \A x \in SignIns : SignInFollows(x)'
      <3> TAKE x \in SignIns
      <3>1. SignInFollows(x)
        BY <2>1 DEF SharedInv
      <3>2. CASE signIn'[x] = signIn[x]
        <4>1. signIn[x].at # "refreshing"
          BY <3>1, <2>4 DEF SignInFollows
        <4> QED
          BY <4>1, <3>1, <3>2, <2>3, <2>5, <1>2, <1>4 DEF SignInFollows
      <3>3. CASE signIn'[x].at \in {"popup", "failed"}
        BY <3>3 DEF SignInFollows
      <3> QED
        BY <3>2, <3>3, <1>1, <1>2, OpenPopupType
    <2>8. \A t \in (live \ lost)' : KeptIn(t)'
      <3> TAKE t \in (live \ lost)'
      <3>1. t \in live \ lost /\ t # stored /\ t # 0
        BY <1>2, <1>3
      <3>2. PICK n \in Made : managers[n].refresh.got = t
        BY <3>1, <2>1 DEF SharedInv, KeptIn
      <3>3. managers[n].refresh.is = "ok"
        BY <3>1, <3>2, <1>1 DEF AnswersAreGrants
      <3> QED
        BY <3>3, <2>4 DEF Refreshing
    <2> QED
      BY <2>6, <2>7, <2>8 DEF SharedInv
  <1> QED
    BY <1>6, <1>7, <1>8, <1>9 DEF IInv

\* The popup's token becomes the session of a new manager, the only one in use.
LEMMA PopupSucceedsKeeps ==
  ASSUME IInv, Settled, NEW s \in SignIns, PopupSucceeds(s)
  PROVE  IInv'
  <1> DEFINE k == Len(managers) + 1
             r == [NewManager EXCEPT !.token = window.got, !.fresh = TRUE]
  <1>0. k = Len(managers) + 1
    OBVIOUS
  <1>1. TypeOK /\ AnswersAreGrants
    BY DEF IInv
  <1>2. /\ minted \in Nat /\ live \in SUBSET (1..minted) /\ stored \in 0..minted
        /\ managers \in Seq(Managers) /\ lost \in SUBSET (1..minted) /\ window.got \in 0..minted
        /\ k \in Nat /\ k # 0
    BY <1>1 DEF TypeOK
  <1>3. /\ popup = s /\ window.is = "approved"
        /\ stored' = window.got /\ lost' = lost \ {window.got}
        /\ managers' = Append(managers, r) /\ registered' = k
        /\ signIn' = [signIn EXCEPT ![s] = [at |-> "done", with |-> k]]
        /\ popup' = NoSignIn /\ window' = NoWindow
        /\ UNCHANGED <<minted, live, signOut>>
    BY DEF PopupSucceeds
  <1>4. r \in Managers /\ r.refresh = NoRefresh /\ ~r.cleared
    <2>1. window.got \in Nat
      BY <1>2
    <2> QED
      BY <2>1, NewManagerFacts
  <1> HIDE DEF r, k
  <1>5. /\ managers' \in Seq(Managers) /\ Len(managers') = k /\ Made' = Made \cup {k} /\ k \notin Made
        /\ managers'[k] = r /\ \A n \in Made : managers'[n] = managers[n]
    BY <1>0, <1>2, <1>3, <1>4, OneAppended DEF Made
  <1>6. stored = 0 /\ window.got # 0
    BY <1>3, <1>1, NoSignInAssumption DEF IInv, PopupReplacesNothing, AnswersAreGrants
  <1>7. TypeOK'
    <2>1. signIn' \in [SignIns -> [at : SignInAt, with : Nat]]
      BY <1>1, <1>2, <1>3 DEF TypeOK, SignInAt
    <2>2. window' \in [is : {"none", "open", "approved", "refused", "closed"}, got : 0..minted']
      BY <1>2, <1>3 DEF NoWindow
    <2> QED
      <3>1. registered' \in 0..Len(managers') /\ stored' \in 0..minted' /\ lost' \in SUBSET (1..minted')
        <4>1. registered' \in 0..Len(managers')
          BY <1>2, <1>3, <1>5
        <4>2. stored' \in 0..minted'
          BY <1>2, <1>3
        <4>3. lost' \in SUBSET (1..minted')
          <5>1. lost' \subseteq lost /\ minted' = minted
            BY <1>3
          <5> QED
            BY <5>1, <1>2
        <4> QED
          BY <4>1, <4>2, <4>3
      <3>2. signOut' \in [SignOuts -> [at : {"idle", "revoking", "revoked", "done"},
                                      revokes : Nat, found : SUBSET Nat]]
        BY <1>1, <1>3 DEF TypeOK
      <3> QED
        BY <2>1, <2>2, <3>1, <3>2, <1>2, <1>3, <1>5 DEF TypeOK
  <1>8. AnswersAreGrants' /\ ClearedIsEmpty' /\ PopupReplacesNothing'
    <2>1. AnswersAreGrants'
      <3>1. managers'[k].refresh.is = "none" /\ managers'[k].refresh.got = 0 /\ window'.is = "none"
        BY <1>3, <1>4, <1>5 DEF NoRefresh, NoWindow
      <3> QED
        BY <3>1, <1>1, <1>3, <1>5 DEF AnswersAreGrants
    <2>2. ClearedIsEmpty'
      BY <1>4, <1>5 DEF IInv, ClearedIsEmpty
    <2>3. PopupReplacesNothing'
      BY <1>3 DEF PopupReplacesNothing
    <2> QED
      BY <2>1, <2>2, <2>3
  <1>9. ASSUME NeverSignedOut'
        PROVE  SharedInv'
    <2>1. SharedInv
      BY <1>3, <1>9 DEF IInv, NeverSignedOut
    <2>2. \A n \in Made : managers[n].cleared /\ ~Refreshing(n)
      BY <2>1, <1>6 DEF SharedInv, OneManager, RefreshOfStored
    <2>3. \A n \in Made' : ~Refreshing(n)'
      BY <2>2, <1>4, <1>5 DEF Refreshing, NoRefresh
    <2>4. OneManager' /\ RefreshOfStored'
      BY <2>2, <2>3, <1>3, <1>5, <1>6 DEF OneManager, RefreshOfStored
    <2>5. \A x \in SignIns : SignInFollows(x)'
      <3> TAKE x \in SignIns
      <3>1. signIn[x].at \notin {"refused", "none_live", "refreshing"}
        BY <2>1, <2>2 DEF SharedInv, SignInFollows, Settled
      <3>2. signIn'[x] = signIn[x] \/ signIn'[x].at = "done"
        BY <1>1, <1>3 DEF TypeOK
      <3> QED
        BY <3>1, <3>2 DEF SignInFollows
    <2>6. \A t \in (live \ lost)' : KeptIn(t)'
      <3> TAKE t \in (live \ lost)'
      <3>1. CASE t = window.got
        BY <3>1, <1>3 DEF KeptIn
      <3>2. CASE t # window.got
        <4>1. t \in live \ lost /\ t # stored
          BY <3>2, <1>2, <1>3, <1>6
        <4> QED
          BY <4>1, <2>1, <2>2 DEF SharedInv, KeptIn
      <3> QED
        BY <3>1, <3>2
    <2> QED
      BY <2>4, <2>5, <2>6 DEF SharedInv
  <1> QED
    BY <1>7, <1>8, <1>9 DEF IInv

-----------------------------------------------------------------------------
(* Signing out. Nothing is claimed of a page that has.                       *)

LEMMA SignOutKeeps ==
  ASSUME IInv, NEW o \in SignOuts, SignOut(o) \/ SignedOut(o) \/ RevokeAnswered(o)
  PROVE  IInv'
  <1>1. TypeOK /\ AnswersAreGrants /\ ClearedIsEmpty /\ PopupReplacesNothing
    BY DEF IInv
  <1>2. /\ managers \in Seq(Managers) /\ stored \in 0..minted /\ minted \in Nat /\ live \in SUBSET (1..minted)
        /\ registered \in 0..Len(managers) /\ Made \subseteq Nat
        /\ signOut \in [SignOuts -> [at : {"idle", "revoking", "revoked", "done"},
                                     revokes : Nat, found : SUBSET Nat]]
    BY <1>1 DEF TypeOK, Made
  <1>3. /\ UNCHANGED <<minted, lost, signIn, popup, window>> /\ stored' \in {stored, 0}
        /\ live' \subseteq live /\ registered' \in {registered, 0}
    BY DEF SignOut, SignedOut, RevokeAnswered, backend
  <1>4. /\ managers' \in Seq(Managers) /\ Made' = Made /\ Len(managers') = Len(managers)
        /\ \A n \in Made : managers'[n] \in {managers[n], Cleared(managers[n])}
    <2>1. CASE managers' = managers
      BY <2>1, <1>2 DEF Made
    <2>2. CASE managers' = [n \in Made |-> IF n = registered THEN Cleared(managers[n]) ELSE managers[n]]
      <3>1. \A n \in Made : Cleared(managers[n]) \in Managers /\ managers[n] \in Managers
        BY <1>1, ManagerFacts, ManagerTypes DEF Refreshes
      <3>2. Made = 1..Len(managers) /\ Len(managers) \in Nat
        BY <1>2 DEF Made
      <3> QED
        BY <2>2, <3>1, <3>2 DEF Made
    <2> QED
      BY <2>1, <2>2 DEF SignOut, SignedOut, RevokeAnswered
  <1>5. /\ signOut' \in [SignOuts -> [at : {"idle", "revoking", "revoked", "done"},
                                      revokes : Nat, found : SUBSET Nat]]
        /\ signOut'[o].at # "idle"
    <2>1. signOut[o] \in [at : {"idle", "revoking", "revoked", "done"}, revokes : Nat, found : SUBSET Nat]
      BY <1>2
    <2>2. CASE SignOut(o)
      BY <2>1, <2>2, <1>2 DEF SignOut
    <2>3. CASE SignedOut(o)
      BY <2>1, <2>3, <1>2 DEF SignedOut
    <2>4. CASE RevokeAnswered(o)
      BY <2>1, <2>4, <1>2 DEF RevokeAnswered
    <2> QED
      BY <2>2, <2>3, <2>4
  <1>6. TypeOK'
    BY <1>1, <1>2, <1>3, <1>4, <1>5 DEF TypeOK
  <1>7. AnswersAreGrants' /\ ClearedIsEmpty' /\ PopupReplacesNothing'
    <2>1. \A n \in Made : /\ managers'[n].refresh = managers[n].refresh
                          /\ managers'[n] = managers[n] \/ managers'[n].token = 0
      BY <1>1, <1>4, ManagerFacts, ClearedFacts
    <2> QED
      BY <2>1, <1>1, <1>3, <1>4 DEF AnswersAreGrants, ClearedIsEmpty, PopupReplacesNothing
  <1>8. ~NeverSignedOut'
    BY <1>5 DEF NeverSignedOut
  <1> QED
    BY <1>6, <1>7, <1>8 DEF IInv

-----------------------------------------------------------------------------
(* Resuming a stored session.                                                *)

\* What SignInResumes does whichever manager it finds: it registers m and the
\* sign-in goes on with it.
ResumesWith(s, m, at) ==
  /\ stored # 0 /\ registered' = m
  /\ signIn' = [signIn EXCEPT ![s] = [at |-> at, with |-> m]]
  /\ UNCHANGED <<minted, live, lost, stored, popup, window, signOut>>

\* The registered manager is used as it is, or sent to refresh; a new one is sent.
LEMMA ResumesHow ==
  ASSUME TypeOK, NEW s \in SignIns, SignInResumes(s)
  PROVE  \/ \E at \in {"refused", "ok", "none_live", "refreshing"} :
              /\ registered \in Made /\ ResumesWith(s, registered, at) /\ managers' = managers
              /\ at = "refused" => managers[registered].cleared
              /\ at = "none_live" => ~Refreshing(registered)
              /\ at = "refreshing" => Refreshing(registered)
         \/ /\ registered \in Made /\ ResumesWith(s, registered, "refreshing")
            /\ ~managers[registered].cleared /\ ~Refreshing(registered)
            /\ managers' = [managers EXCEPT ![registered] = [managers[registered] EXCEPT !.refresh = Asked]]
         \/ /\ registered = 0 /\ ResumesWith(s, Len(managers) + 1, "refreshing")
            /\ managers' = Append(managers, [NewManager EXCEPT !.refresh = Asked])
  <1>1. managers \in Seq(Managers) /\ registered \in 0..Len(managers) /\ stored # 0
    BY DEF TypeOK, SignInResumes
  <1>2. UNCHANGED <<minted, live, lost, stored, popup, window, signOut>>
    BY DEF SignInResumes, backend
  <1>5. stored \in Nat
    BY DEF TypeOK
  <1>3. CASE registered # 0
    <2> DEFINE m == registered
               idle == ~managers[m].cleared /\ managers[m].refresh.is = "none"
               cached == managers[m].token # 0 /\ managers[m].fresh
               next == IF managers[m].cleared THEN {"refused"}
                       ELSE IF idle /\ cached THEN {"ok", "none_live"} ELSE {"refreshing"}
    <2>1. m \in Made /\ ManagerFor = m
      BY <1>1, <1>3 DEF Made, ManagerFor
    <2>2. /\ registered' = m
          /\ managers' = IF idle /\ ~cached THEN [managers EXCEPT ![m].refresh = Asked] ELSE managers
          /\ \E at \in next : signIn' = [signIn EXCEPT ![s] = [at |-> at, with |-> m]]
      BY <2>1 DEF SignInResumes
    <2>3. PICK at \in next : ResumesWith(s, m, at)
      BY <2>2, <1>1, <1>2 DEF ResumesWith
    <2>4. CASE managers[m].cleared
      BY <2>1, <2>2, <2>3, <2>4
    <2>5. CASE ~managers[m].cleared /\ managers[m].refresh.is # "none"
      BY <2>1, <2>2, <2>3, <2>5 DEF Refreshing
    <2>6. CASE idle /\ cached
      BY <2>1, <2>2, <2>3, <2>6 DEF Refreshing
    <2>7. CASE idle /\ ~cached
      BY <2>1, <2>2, <2>3, <2>7 DEF Refreshing
    <2> QED
      BY <2>4, <2>5, <2>6, <2>7
  <1>4. CASE registered = 0
    <2> DEFINE m == Len(managers) + 1
               grown == Append(managers, NewManager)
    <2>1. m \notin Made /\ ManagerFor = m
      BY <1>1, <1>4 DEF Made, ManagerFor
    <2>2. grown \in Seq(Managers) /\ grown[m] = NewManager /\ m \in DOMAIN grown
      BY <1>1, NewManagerFacts, OneAppended
    <2>3. /\ registered' = m /\ managers' = [grown EXCEPT ![m].refresh = Asked]
          /\ signIn' = [signIn EXCEPT ![s] = [at |-> "refreshing", with |-> m]]
      <3>1. /\ ~grown[m].cleared /\ grown[m].refresh.is = "none" /\ grown[m].token = 0
        BY <2>2 DEF NewManager, NoRefresh
      <3> QED
        BY <2>1, <3>1 DEF SignInResumes
    <2>4. [grown EXCEPT ![m].refresh = Asked] = [grown EXCEPT ![m] = [NewManager EXCEPT !.refresh = Asked]]
      BY <2>2
    <2>5. [grown EXCEPT ![m] = [NewManager EXCEPT !.refresh = Asked]]
            = Append(managers, [NewManager EXCEPT !.refresh = Asked])
      <3>1. [NewManager EXCEPT !.refresh = Asked] \in Managers
        BY <1>5 DEF NewManager, Managers, Refreshes, Asked
      <3> QED
        BY <3>1, <1>1, NewManagerFacts, LastUpdated
    <2> QED
      BY <1>1, <1>2, <1>4, <2>3, <2>4, <2>5 DEF ResumesWith
  <1> QED
    BY <1>3, <1>4

\* The sign-in that resumes follows its manager, and the others still follow theirs.
LEMMA ResumingFollows ==
  ASSUME TypeOK, Settled, \A x \in SignIns : SignInFollows(x),
         NEW s \in SignIns, NEW m \in Nat, NEW at \in {"refused", "ok", "none_live", "refreshing"},
         ResumesWith(s, m, at), m \in Made', Made \subseteq Made',
         \A n \in Made : Refreshing(n) => Refreshing(n)',
         at = "refused" => managers'[m].cleared,
         at = "none_live" => ~Refreshing(m)',
         at = "refreshing" => Refreshing(m)'
  PROVE  /\ \A x \in SignIns : SignInFollows(x)'
         /\ signIn' \in [SignIns -> [at : SignInAt, with : Nat]]
  <1>1. [at |-> at, with |-> m] \in [at : SignInAt, with : Nat]
    BY DEF SignInAt
  <1>2. /\ signIn' \in [SignIns -> [at : SignInAt, with : Nat]]
        /\ signIn'[s] = [at |-> at, with |-> m]
        /\ \A x \in SignIns \ {s} : signIn'[x] = signIn[x]
    BY <1>1 DEF ResumesWith, TypeOK
  <1>3. registered' = m
    BY DEF ResumesWith
  <1>4. \A x \in SignIns : SignInFollows(x)'
    <2> TAKE x \in SignIns
    <2>1. CASE x = s
      <3>1. signIn'[x].at = at /\ signIn'[x].with = m
        BY <2>1, <1>2
      <3> QED
        BY <3>1, <1>3 DEF SignInFollows, Refreshing
    <2>2. CASE x # s
      <3>1. signIn'[x] = signIn[x] /\ signIn[x].at \notin {"refused", "none_live"}
        BY <2>2, <1>2 DEF Settled
      <3>2. signIn[x].at = "refreshing" => signIn[x].with \in Made /\ Refreshing(signIn[x].with)
        BY DEF SignInFollows
      <3> QED
        BY <3>1, <3>2 DEF SignInFollows
    <2> QED
      BY <2>1, <2>2
  <1> QED
    BY <1>2, <1>4

LEMMA SignInResumesKeeps ==
  ASSUME IInv, Settled, NEW s \in SignIns, SignInResumes(s)
  PROVE  IInv'
  <1>1. TypeOK /\ AnswersAreGrants /\ ClearedIsEmpty /\ PopupReplacesNothing
    BY DEF IInv
  <1>2. /\ minted \in Nat /\ live \in SUBSET (1..minted) /\ stored \in 0..minted /\ stored \in Nat
        /\ managers \in Seq(Managers) /\ Len(managers) \in Nat /\ registered \in 0..Len(managers)
        /\ registered \in Nat /\ Asked \in Refreshes /\ Made = 1..Len(managers)
    BY <1>1 DEF TypeOK, Asked, Refreshes, Made
  <1>3. CASE \E at \in {"refused", "ok", "none_live", "refreshing"} :
               /\ registered \in Made /\ ResumesWith(s, registered, at) /\ managers' = managers
               /\ at = "refused" => managers[registered].cleared
               /\ at = "none_live" => ~Refreshing(registered)
               /\ at = "refreshing" => Refreshing(registered)
    <2>1. PICK at \in {"refused", "ok", "none_live", "refreshing"} :
               /\ registered \in Made /\ ResumesWith(s, registered, at) /\ managers' = managers
               /\ at = "refused" => managers[registered].cleared
               /\ at = "none_live" => ~Refreshing(registered)
               /\ at = "refreshing" => Refreshing(registered)
      BY <1>3
    <2>2. /\ signIn' = [signIn EXCEPT ![s] = [at |-> at, with |-> registered]] /\ registered' = registered
          /\ UNCHANGED <<minted, live, lost, stored, popup, window, signOut>>
      BY <2>1 DEF ResumesWith
    <2>3. TypeOK'
      BY <1>1, <1>2, <2>1, <2>2 DEF TypeOK, SignInAt
    <2>4. AnswersAreGrants' /\ ClearedIsEmpty' /\ PopupReplacesNothing'
      BY <1>1, <2>1, <2>2 DEF AnswersAreGrants, ClearedIsEmpty, PopupReplacesNothing, Made
    <2>5. ASSUME NeverSignedOut'
          PROVE  SharedInv'
      <3>1. SharedInv
        BY <2>2, <2>5 DEF IInv, NeverSignedOut
      <3>2. OneManager' /\ RefreshOfStored' /\ \A t \in (live \ lost)' : KeptIn(t)'
        BY <3>1, <2>1, <2>2 DEF SharedInv, OneManager, RefreshOfStored, KeptIn, Made, Refreshing
      <3>3. /\ Made' = Made /\ \A n \in Made : Refreshing(n) <=> Refreshing(n)'
        BY <2>1 DEF Made, Refreshing
      <3>4. \A x \in SignIns : SignInFollows(x)'
        BY <3>1, <3>3, <2>1, <1>1, <1>2, ResumingFollows DEF SharedInv
      <3> QED
        BY <3>2, <3>4 DEF SharedInv
    <2> QED
      BY <2>3, <2>4, <2>5 DEF IInv
  <1>4. CASE /\ registered \in Made /\ ResumesWith(s, registered, "refreshing")
             /\ ~managers[registered].cleared /\ ~Refreshing(registered)
             /\ managers' = [managers EXCEPT ![registered] = [managers[registered] EXCEPT !.refresh = Asked]]
    <2>0. PICK m \in Made : m = registered
      BY <1>4
    <2> DEFINE r == [managers[m] EXCEPT !.refresh = Asked]
    <2>1. managers[m] \in Managers
      BY <1>1, ManagerFacts
    <2>2. /\ r \in Managers /\ r.refresh = Asked /\ r.cleared = managers[m].cleared
          /\ r.token = managers[m].token
      BY <2>1, <1>2 DEF Managers
    <2> HIDE DEF r
    <2>3. ChangedAt(managers, managers', m, r)
      BY <2>0, <2>2, <1>2, <1>4, OneUpdated DEF Made, r
    <2>4. /\ signIn' = [signIn EXCEPT ![s] = [at |-> "refreshing", with |-> m]] /\ registered' = m
          /\ stored # 0 /\ UNCHANGED <<minted, live, lost, stored, popup, window, signOut>>
      BY <2>0, <1>4 DEF ResumesWith
    <2>5. TypeOK'
      BY <2>0, <1>1, <1>2, <2>3, <2>4 DEF TypeOK, SignInAt, ChangedAt
    <2>6. AnswersAreGrants' /\ ClearedIsEmpty' /\ PopupReplacesNothing'
      BY <2>0, <1>1, <1>4, <2>2, <2>3, <2>4 DEF AnswersAreGrants, ClearedIsEmpty, PopupReplacesNothing, ChangedAt, Made, Asked
    <2>7. ASSUME NeverSignedOut'
          PROVE  SharedInv'
      <3>1. SharedInv
        BY <2>4, <2>7 DEF IInv, NeverSignedOut
      <3>2. OneManager' /\ RefreshOfStored'
        BY <2>0, <3>1, <1>4, <2>2, <2>3, <2>4 DEF SharedInv, OneManager, RefreshOfStored, ChangedAt, Made, Refreshing, Asked
      <3>3. /\ Made' = Made /\ Refreshing(m)' /\ \A n \in Made : Refreshing(n) => Refreshing(n)'
        BY <2>2, <2>3, <2>4 DEF Made, Refreshing, ChangedAt, Asked
      <3>4. \A x \in SignIns : SignInFollows(x)'
        BY <2>0, <3>1, <3>3, <1>1, <1>2, <1>4, ResumingFollows DEF SharedInv
      <3>5. \A t \in (live \ lost)' : KeptIn(t)'
        <4>1. \A n \in Made : managers[n].refresh.is = "ok" /\ ~managers[n].cleared =>
                n \in Made' /\ ~managers'[n].cleared /\ managers'[n].refresh.got = managers[n].refresh.got
          BY <2>0, <1>4, <2>3 DEF ChangedAt, Made, Refreshing
        <4> QED
          BY <4>1, <3>1, <1>1, <2>4, StillKept DEF SharedInv
      <3> QED
        BY <3>2, <3>4, <3>5 DEF SharedInv
    <2> QED
      BY <2>5, <2>6, <2>7 DEF IInv
  <1>5. CASE /\ registered = 0 /\ ResumesWith(s, Len(managers) + 1, "refreshing")
             /\ managers' = Append(managers, [NewManager EXCEPT !.refresh = Asked])
    <2>0. PICK k \in Nat : k = Len(managers) + 1
      BY <1>2
    <2> DEFINE r == [NewManager EXCEPT !.refresh = Asked]
    <2>1. r \in Managers /\ r.refresh = Asked /\ ~r.cleared
      BY <1>2 DEF NewManager, Managers, Refreshes, Asked
    <2> HIDE DEF r
    <2>2. /\ managers' \in Seq(Managers) /\ Len(managers') = k /\ Made' = Made \cup {k} /\ k \notin Made
          /\ managers'[k] = r /\ \A n \in Made : managers'[n] = managers[n]
      BY <2>0, <2>1, <1>2, <1>5, OneAppended DEF Made, r
    <2>3. /\ signIn' = [signIn EXCEPT ![s] = [at |-> "refreshing", with |-> k]] /\ registered' = k
          /\ stored # 0 /\ UNCHANGED <<minted, live, lost, stored, popup, window, signOut>>
          /\ k \in Nat /\ k # 0
      BY <2>0, <1>2, <1>5 DEF ResumesWith
    <2>4. TypeOK'
      <3>1. signIn' \in [SignIns -> [at : SignInAt, with : Nat]] /\ registered' \in 0..Len(managers')
        BY <1>1, <2>2, <2>3 DEF TypeOK, SignInAt
      <3> QED
        BY <3>1, <1>1, <2>2, <2>3 DEF TypeOK
    <2>5. AnswersAreGrants' /\ ClearedIsEmpty' /\ PopupReplacesNothing'
      <3>1. managers'[k].refresh.is = "sent" /\ managers'[k].refresh.got = 0 /\ ~managers'[k].cleared
        BY <2>1, <2>2 DEF Asked
      <3> QED
        BY <3>1, <1>1, <2>2, <2>3 DEF AnswersAreGrants, ClearedIsEmpty, PopupReplacesNothing
    <2>6. ASSUME NeverSignedOut'
          PROVE  SharedInv'
      <3>1. SharedInv
        BY <2>3, <2>6 DEF IInv, NeverSignedOut
      <3>2. \A n \in Made : managers[n].cleared /\ ~Refreshing(n)
        <4>1. \A n \in Made : n # registered
          BY <1>2, <1>5
        <4> QED
          BY <4>1, <3>1 DEF SharedInv, OneManager, RefreshOfStored
      <3>3. /\ managers'[k].refresh.is = "sent" /\ managers'[k].refresh.using = stored
            /\ ~managers'[k].cleared
        BY <2>1, <2>2 DEF Asked
      <3>4. OneManager' /\ RefreshOfStored'
        BY <3>2, <3>3, <2>2, <2>3 DEF OneManager, RefreshOfStored, Refreshing
      <3>5. \A n \in Made : Refreshing(n) => Refreshing(n)'
        BY <3>2
      <3>6. Refreshing(k)'
        BY <3>3 DEF Refreshing
      <3>7. ResumesWith(s, k, "refreshing")
        BY <2>0, <1>5
      <3>8. \A x \in SignIns : SignInFollows(x)'
        BY <3>1, <3>5, <3>6, <3>7, <2>2, <2>3, <1>1, ResumingFollows DEF SharedInv
      <3>9. \A t \in (live \ lost)' : KeptIn(t)'
        BY <3>1, <3>2, <2>3 DEF SharedInv, KeptIn
      <3> QED
        BY <3>4, <3>8, <3>9 DEF SharedInv
    <2> QED
      BY <2>4, <2>5, <2>6 DEF IInv
  <1> QED
    BY ONLY <1>1, <1>3, <1>4, <1>5, SignInResumes(s), s \in SignIns, ResumesHow

-----------------------------------------------------------------------------
(* Every step.                                                               *)

LEMMA NextKeepsIInv == IInv /\ [PageNext]_pageVars => IInv'
  <1> SUFFICES ASSUME IInv, [PageNext]_pageVars PROVE IInv'
    OBVIOUS
  <1>1. CASE \E s \in SignIns : SignInResumed(s) \/ SignInStartsOver(s)
    BY <1>1, SignInResumedKeeps, SignInStartsOverKeeps
  <1>2. CASE Settled /\ Answered
    BY <1>2, RefreshSucceedsKeeps, RefreshRefusedKeeps, RefreshFailsKeeps DEF Answered
  <1>3. CASE Settled /\ PopupEnds
    BY <1>3, PopupSucceedsKeeps, PopupFailsKeeps DEF PopupEnds
  <1>4. CASE Settled /\ \E m \in Made : TokenProvider(m) \/ GoesStale(m)
    BY <1>4, TokenProviderKeeps, GoesStaleKeeps
  <1>5. CASE Settled /\ \E s \in SignIns : SignInResumes(s) \/ SignInOpens(s)
    BY <1>5, SignInResumesKeeps, SignInOpensKeeps
  <1>6. CASE \E o \in SignOuts : SignOut(o) \/ SignedOut(o) \/ RevokeAnswered(o)
    BY <1>6, SignOutKeeps
  <1>7. CASE UserActs
    BY <1>7, UserActsKeeps
  <1>8. CASE BackendRevokes
    BY <1>8, FewerLiveKeeps DEF BackendRevokes
  <1>9. CASE \E m \in Made : BackendAnswers(m)
    BY <1>9, BackendAnswersKeeps
  <1>10. CASE UNCHANGED pageVars
    BY <1>10 DEF pageVars, IInv, TypeOK, AnswersAreGrants, ClearedIsEmpty, PopupReplacesNothing, SharedInv,
       NeverSignedOut, OneManager, RefreshOfStored, SignInFollows, KeptIn, Made, Refreshing
  <1> QED
    BY <1>1, <1>2, <1>3, <1>4, <1>5, <1>6, <1>7, <1>8, <1>9, <1>10 DEF PageNext, Continue

LEMMA IInvAlways == PageSpec => []IInv
  BY InitIInv, NextKeepsIInv, PTL DEF PageSpec

-----------------------------------------------------------------------------
(* What follows.                                                             *)

\* Until the page signs out, its sign-ins never submit one refresh token twice and
\* never let go of a session the backend still accepts: createSessionManager and
\* signInAndGetClients share it through the manager of the partition.
THEOREM OneSessionPerPage == PageSpec => []SessionShared
  <1>1. IInv => SessionShared
    <2> SUFFICES ASSUME IInv, NeverSignedOut PROVE SessionShared
      BY DEF SessionShared, OneRefreshPerToken, KeptWhileLive
    <2>1. SharedInv
      BY DEF IInv
    <2>2. OneRefreshPerToken
      BY <2>1, RefreshingIsInUse DEF OneRefreshPerToken
    <2>3. KeptWhileLive
      BY <2>1 DEF SharedInv, KeptIn, KeptWhileLive
    <2> QED
      BY <2>2, <2>3 DEF SessionShared
  <1> QED
    BY <1>1, IInvAlways, PTL
\* A manager that has been cleared stays so: neither an answer still on its way to it
\* nor a sign-in that finds it brings a token or a stored session back.
THEOREM ClearedForGood == PageSpec => ClearedStaysCleared
  <1> DEFINE Stays(m) ==
        /\ managers'[m].cleared /\ managers'[m].token = 0
        /\ managers'[m].refresh # managers[m].refresh => stored' \in {0, stored}
  <1>1. ASSUME IInv, [PageNext]_pageVars, NEW m \in Made, managers[m].cleared
        PROVE  Stays(m)
    <2>1. TypeOK /\ managers \in Seq(Managers) /\ managers[m].token = 0
      BY <1>1 DEF IInv, TypeOK, ClearedIsEmpty
    <2>2. managers[m] \in Managers /\ Cleared(managers[m]) \in Managers
      BY <2>1, <1>1, ManagerFacts, ClearedFacts
    <2>3. ASSUME NEW n \in Made, NEW r, managers' = [managers EXCEPT ![n] = r], n # m
          PROVE  Stays(m)
      BY <2>1, <2>3, <1>1 DEF Made
    <2>4. CASE managers' = managers
      BY <2>1, <2>4, <1>1
    <2>5. ASSUME NEW s \in SignIns, SignInStartsOver(s)
          PROVE  Stays(m)
      <3>1. stored' = 0
        BY <2>5 DEF SignInStartsOver
      <3>2. managers'[m] \in {managers[m], Cleared(managers[m])}
        BY <2>1, <2>5, <1>1 DEF SignInStartsOver, Made
      <3> QED
        BY <3>1, <3>2, <2>1, <2>2, <1>1, ClearedFacts
    <2>6. ASSUME NEW n \in Made, RefreshSucceeds(n) \/ RefreshRefused(n) \/ RefreshErrs(n)
          PROVE  Stays(m)
      <3>1. CASE n # m
        BY <3>1, <2>3, <2>6 DEF RefreshSucceeds, RefreshRefused, RefreshErrs
      <3>2. CASE n = m /\ RefreshSucceeds(n)
        BY <3>2, <2>1, <2>2, <1>1 DEF RefreshSucceeds, Made, Managers
      <3>3. CASE n = m /\ RefreshRefused(n)
        BY <3>3, <2>1, <2>2, <1>1 DEF RefreshRefused, Made, Managers, Cleared
      <3>4. CASE n = m /\ RefreshErrs(n)
        BY <3>4, <2>1, <2>2, <1>1 DEF RefreshErrs, Made, Managers
      <3> QED
        BY <3>1, <3>2, <3>3, <3>4, <2>6
    <2>7. ASSUME NEW n \in Made, TokenProvider(n)
          PROVE  Stays(m)
      BY <2>3, <2>7, <1>1 DEF TokenProvider
    <2>8. ASSUME NEW n \in Made, GoesStale(n)
          PROVE  Stays(m)
      BY <2>1, <2>3, <2>8, <1>1 DEF GoesStale, HasFresh
    <2>9. ASSUME NEW n \in Made, BackendAnswers(n)
          PROVE  Stays(m)
      <3>1. stored' = stored
        BY <2>9 DEF BackendAnswers
      <3>2. PICK is, got : managers' = [managers EXCEPT ![n].refresh.is = is, ![n].refresh.got = got]
        BY <2>9 DEF BackendAnswers
      <3>3. managers'[m].cleared /\ managers'[m].token = 0
        BY <3>2, <2>1, <2>2, <1>1 DEF Made, Managers, Refreshes
      <3> QED
        BY <3>1, <3>3
    <2>10. ASSUME NEW s \in SignIns, SignInResumes(s)
           PROVE  Stays(m)
      <3>1. CASE registered = 0 /\ managers' = Append(managers, [NewManager EXCEPT !.refresh = Asked])
        BY <3>1, <2>1, <1>1 DEF Made
      <3>2. CASE /\ registered \in Made /\ ~managers[registered].cleared
                 /\ managers' = [managers EXCEPT ![registered] = [managers[registered] EXCEPT !.refresh = Asked]]
        BY <3>2, <2>3, <1>1
      <3> QED
        BY <3>1, <3>2, <2>4, <2>1, <2>10, ResumesHow
    <2>11. ASSUME NEW s \in SignIns, PopupSucceeds(s)
           PROVE  Stays(m)
      BY <2>1, <2>11, <1>1 DEF PopupSucceeds, Made
    <2>12. ASSUME NEW o \in SignOuts, SignOut(o)
           PROVE  Stays(m)
      <3>1. stored' = stored
        BY <2>12 DEF SignOut
      <3>2. managers'[m] \in {managers[m], Cleared(managers[m])}
        BY <2>12, <1>1 DEF SignOut
      <3> QED
        BY <3>1, <3>2, <2>1, <2>2, <1>1, ClearedFacts
    <2>13. CASE \/ \E s \in SignIns : SignInResumed(s) \/ SignInOpens(s) \/ PopupFails(s)
                \/ \E o \in SignOuts : SignedOut(o) \/ RevokeAnswered(o)
                \/ UserActs \/ BackendRevokes \/ UNCHANGED pageVars
      BY <2>4, <2>13 DEF SignInResumed, SignInOpens, PopupFails, SignedOut, RevokeAnswered, UserActs,
         BackendRevokes, pageVars
    <2> HIDE DEF Stays
    <2> QED
      BY <1>1, <2>5, <2>6, <2>7, <2>8, <2>9, <2>10, <2>11, <2>12, <2>13
         DEF PageNext, Continue, Answered, PopupEnds
  <1>2. IInv /\ [PageNext]_pageVars =>
          [\A m \in Made : managers[m].cleared =>
             /\ managers'[m].cleared /\ managers'[m].token = 0
             /\ managers'[m].refresh # managers[m].refresh => stored' \in {0, stored}]_pageVars
    BY <1>1
  <1> QED
    BY <1>2, IInvAlways, PTL DEF PageSpec, ClearedStaysCleared

-----------------------------------------------------------------------------
(* The invariant of the credentials and the calls.                          *)

Attempts ==
  [is : {"none", "sent", "ok", "failed", "invalid", "limited", "held", "fatal"},
   kind : {"none", "refresh", "login"}, using : Nat, got : Nat]
ChainStates == [is : {"none", "armed", "running"}, failures : Nat]
Todos == Seq(Requests \cup {Lookup("card again")})
CallRecords ==
  [at : {"idle", "next", "starting", "preflight", "passed", "sent", "resent", "refreshing",
         "renewing", "done", "failed", "null"},
   with : Nat, todo : Todos, made : Nat, lost : BOOLEAN]

AuthTypes ==
  /\ issued \in Nat /\ token \in Nat /\ mode \in DOMAIN Operations
  /\ ready \in BOOLEAN /\ destroyed \in BOOLEAN /\ failed \in BOOLEAN /\ held \in BOOLEAN
  /\ attempt \in [Refreshers -> Attempts]
  /\ chain \in [Chains -> ChainStates] /\ tracked \in Chains \cup {NoTimer}
  /\ call \in [Calls -> CallRecords]

\* There is room to schedule a refresh whenever none is tracked.
RoomToSchedule == ~destroyed /\ tracked = NoTimer => Free(chain) # {}

\* An agent has no initial login to wait for, and a token endpoint no rate limit.
ModesApart ==
  /\ mode = "agent" => ~ready
  /\ mode = "provider" => ~held /\ \A r \in Refreshers : attempt[r].is # "limited"

\* What a call has made is bounded by whether it still has a message to submit, and
\* whether it has lost its connection once.
Submits(todo) == \E i \in DOMAIN todo : todo[i].is = "submit"
MadeAtMost(again, submits) == IF again THEN (IF submits THEN 1 ELSE 2) ELSE IF submits THEN 0 ELSE 1
OneSubmit(todo) ==
  \A i, j \in DOMAIN todo : todo[i].is = "submit" /\ todo[j].is = "submit" => i = j
CallSound(k) ==
  /\ k.at \notin Endings => k.todo # <<>>
  /\ OneSubmit(k.todo)
  /\ k.made <= MadeAtMost(k.lost, Submits(k.todo))
CallsSound ==
  \A c \in Calls :
    CallSound(call[c]) /\ (call[c].at = "null" => destroyed \/ Is(c, "card again"))

AuthInv == AuthTypes /\ RoomToSchedule /\ ModesApart /\ CallsSound /\ StaysAwake

ClientRecords ==
  [env : Environments, listens : BOOLEAN, subscribed : BOOLEAN, alive : BOOLEAN,
   owned : BOOLEAN, token : Environments \cup {"none"}]
AgentRecords ==
  [at : {"none", "connecting", "connect sent", "waiting", "up", "down", "exited"},
   stopped : BOOLEAN, banned : BOOLEAN, denied : BOOLEAN, serving : BOOLEAN,
   clients : Seq(ClientRecords)]

AgentTypes == agent \in AgentRecords /\ (mode = "agent" => agent.clients # <<>>)

\* A connect is under way in one stage only, and until it has been answered nothing is
\* subscribed, so that access cannot be denied.
ConnectFirst ==
  mode = "agent" =>
    /\ Busy(Init_) => agent.at \in {"connect sent", "exited"}
    /\ agent.at \notin {"up", "exited"} => ~Current.subscribed /\ ~agent.denied
    /\ agent.at \in {"connecting", "connect sent", "waiting"} /\ ~agent.stopped => Current.alive

AgentInv == AgentTypes /\ ConnectFirst /\ OneEar

-----------------------------------------------------------------------------
(* A call's requests.                                                        *)

\* A sequence of some elements is one of these and others.
LEMMA MoreThanIn ==
  ASSUME NEW S, NEW T, NEW q \in Seq(S)
  PROVE  q \in Seq(S \cup T)
  OBVIOUS

\* What is left of a sequence behind its first element.
LEMMA TailIs ==
  ASSUME NEW S, NEW q \in Seq(S), q # <<>>
  PROVE  /\ Tail(q) \in Seq(S) /\ Head(q) \in S /\ Head(q) = q[1] /\ 1 \in DOMAIN q
         /\ Len(q) # 1 => Tail(q) # <<>>
         /\ \A i \in DOMAIN Tail(q) : i + 1 \in DOMAIN q /\ Tail(q)[i] = q[i + 1] /\ i + 1 # 1
  <1>1. Len(q) \in Nat \ {0} /\ DOMAIN q = 1..Len(q) /\ Head(q) = q[1]
    BY HeadTailProperties
  <1>2. Tail(q) \in Seq(S) /\ Len(Tail(q)) = Len(q) - 1 /\ Head(q) \in S
    BY HeadTailProperties
  <1>3. DOMAIN Tail(q) = 1..Len(q) - 1 /\ \A i \in 1..Len(q) - 1 : Tail(q)[i] = q[i + 1]
    BY <1>2, HeadTailProperties
  <1>4. Len(q) # 1 => Tail(q) # <<>>
    BY <1>1, <1>2
  <1> QED BY <1>1, <1>2, <1>3, <1>4

\* A call comes to an end.
LEMMA OverIs ==
  ASSUME NEW k \in CallRecords, NEW how \in Endings
  PROVE  /\ Over(k, how) \in CallRecords /\ Over(k, how).at = how
         /\ Over(k, how).made = k.made /\ Over(k, how).lost = k.lost
         /\ Over(k, how).todo = IF how = "null" THEN k.todo ELSE <<>>
  <1>1. <<>> \in Todos
    BY DEF Todos
  <1> QED BY <1>1 DEF Over, CallRecords, Endings

LEMMA FailsSoundly ==
  ASSUME NEW k \in CallRecords, k.made <= MadeAtMost(k.lost, FALSE)
  PROVE  /\ Over(k, "failed") \in CallRecords /\ CallSound(Over(k, "failed"))
         /\ Over(k, "failed").at = "failed"
  <1>1. /\ Over(k, "failed") \in CallRecords /\ Over(k, "failed").at = "failed"
        /\ Over(k, "failed").made = k.made /\ Over(k, "failed").lost = k.lost
        /\ Over(k, "failed").todo = <<>>
    BY OverIs DEF Endings
  <1>2. OneSubmit(<<>>) /\ ~Submits(<<>>)
    BY DEF OneSubmit, Submits
  <1> QED BY <1>1, <1>2 DEF CallSound, Endings, MadeAtMost

\* What a sound call has made is within every looser bound.
LEMMA LooserBounds ==
  ASSUME NEW k \in CallRecords, CallSound(k)
  PROVE  /\ k.made <= MadeAtMost(k.lost, FALSE)
         /\ \A s : (s => Submits(k.todo)) => k.made <= MadeAtMost(k.lost, s)
  <1>1. k.made \in Nat /\ k.lost \in BOOLEAN /\ k.made <= MadeAtMost(k.lost, Submits(k.todo))
    BY DEF CallRecords, CallSound
  <1> QED BY <1>1 DEF MadeAtMost

\* What is left behind a call's first request.
LEMMA OnwardIs ==
  ASSUME NEW k \in CallRecords, OneSubmit(k.todo), k.todo # <<>>
  PROVE  /\ Onward(k) \in CallRecords /\ Onward(k).at \in {"done", "next"}
         /\ Onward(k).made = k.made /\ Onward(k).lost = k.lost
         /\ Onward(k).at = "next" => Onward(k).todo # <<>>
         /\ OneSubmit(Onward(k).todo)
         /\ Submits(Onward(k).todo) => Submits(k.todo) /\ Head(k.todo).is # "submit"
  <1> DEFINE S == Requests \cup {Lookup("card again")}
  <1>1. k.todo \in Seq(S)
    BY DEF CallRecords, Todos
  <1>2. CASE Len(k.todo) = 1
    <2>1. Onward(k) = Over(k, "done")
      BY <1>2 DEF Onward
    <2>2. /\ Over(k, "done") \in CallRecords /\ Over(k, "done").at = "done"
          /\ Over(k, "done").made = k.made /\ Over(k, "done").lost = k.lost
          /\ Over(k, "done").todo = <<>>
      BY OverIs DEF Endings
    <2> QED BY <2>1, <2>2 DEF OneSubmit, Submits
  <1>3. CASE Len(k.todo) # 1
    <2> DEFINE t == Tail(k.todo)
    <2>1. Onward(k) = [k EXCEPT !.at = "next", !.with = 0, !.todo = t]
      BY <1>3 DEF Onward, CallRecords
    <2>2. t \in Seq(S) /\ t # <<>>
          /\ \A i \in DOMAIN t : i + 1 \in DOMAIN k.todo /\ t[i] = k.todo[i + 1] /\ i + 1 # 1
          /\ Head(k.todo) = k.todo[1] /\ 1 \in DOMAIN k.todo
      BY <1>1, <1>3, TailIs
    <2>2a. t \in Todos
      BY <2>2 DEF Todos
    <2> HIDE DEF t, S
    <2>3. ASSUME NEW q, q = [k EXCEPT !.at = "next", !.with = 0, !.todo = t]
          PROVE  /\ q \in CallRecords
                 /\ q.at = "next" /\ q.todo = t
                 /\ q.made = k.made /\ q.lost = k.lost
      BY <2>2a, <2>3 DEF CallRecords
    <2>4. DOMAIN t \subseteq Nat
      BY <2>2
    <2>5. OneSubmit(t)
      BY <2>2, <2>4 DEF OneSubmit
    <2>6. Submits(t) => Submits(k.todo) /\ Head(k.todo).is # "submit"
      BY <2>2 DEF Submits, OneSubmit
    <2> QED BY <2>1, <2>2, <2>3, <2>5, <2>6
  <1> QED BY <1>2, <1>3

\* A request goes out, or the call has no use for one.
LEMMA SentIs ==
  ASSUME NEW k \in CallRecords, CallSound(k), k.todo # <<>>, k.at # "null", NEW with \in Nat
  PROVE  /\ Sent(k, with) \in CallRecords /\ CallSound(Sent(k, with))
         /\ Sent(k, with).at # "null"
  <1>1. /\ Onward(k) \in CallRecords /\ CallSound(Onward(k)) /\ Onward(k).at # "null"
    <2>1. OneSubmit(k.todo)
      BY DEF CallSound
    <2>2. k.made <= MadeAtMost(k.lost, Submits(Onward(k).todo))
      BY <2>1, LooserBounds, OnwardIs
    <2> QED BY <2>1, <2>2, OnwardIs DEF CallSound, Endings
  <1>2. /\ Over(k, "failed") \in CallRecords /\ CallSound(Over(k, "failed"))
        /\ Over(k, "failed").at # "null"
    BY FailsSoundly, LooserBounds
  <1>3. ASSUME NEW at \in {"sent", "resent"}, NEW w \in Nat,
               NEW q, q = [k EXCEPT !.at = at, !.with = w]
        PROVE  q \in CallRecords /\ CallSound(q) /\ q.at # "null"
    BY <1>3 DEF CallRecords, CallSound
  <1>4. [k EXCEPT !.at = "sent"] = [k EXCEPT !.at = "sent", !.with = k.with] /\ k.with \in Nat
    BY DEF CallRecords
  <1> QED BY <1>1, <1>2, <1>3, <1>4 DEF Sent

\* Calls that change without an answer of null stay sound.
LEMMA CallsStaySound ==
  ASSUME AuthTypes, CallsSound, destroyed => destroyed',
         call' \in [Calls -> CallRecords],
         \A c \in Calls : call'[c] = call[c] \/ (CallSound(call'[c]) /\ call'[c].at # "null")
  PROVE  CallsSound'
  BY DEF CallsSound, Is, Request

LEMMA InitSettlesSoundly ==
  ASSUME AuthTypes, CallsSound, NEW ok \in BOOLEAN, NEW with \in Nat, InitSettles(ok, with),
         destroyed => destroyed'
  PROVE  call' \in [Calls -> CallRecords] /\ CallsSound'
  <1>1. ASSUME NEW c \in Calls
        PROVE  /\ call'[c] \in CallRecords
               /\ call'[c] = call[c] \/ (CallSound(call'[c]) /\ call'[c].at # "null")
    <2>1. call[c] \in CallRecords /\ CallSound(call[c])
      BY DEF AuthTypes, CallsSound
    <2>2. CASE call[c].at # "starting"
      BY <2>1, <2>2 DEF InitSettles
    <2>3. CASE call[c].at = "starting"
      <3>1. call[c].todo # <<>>
        BY <2>1, <2>3 DEF CallSound, Endings
      <3>2. call'[c] = IF ok THEN Sent(call[c], with) ELSE Over(call[c], "failed")
        BY <2>3 DEF InitSettles
      <3> QED BY <2>1, <2>3, <3>1, <3>2, SentIs, FailsSoundly, LooserBounds
    <2> QED BY <2>2, <2>3
  <1>2. call' \in [Calls -> CallRecords]
    BY <1>1 DEF InitSettles
  <1> QED BY <1>1, <1>2, CallsStaySound

LEMMA ReactiveSettlesSoundly ==
  ASSUME AuthTypes, CallsSound, NEW ok \in BOOLEAN, NEW with \in Nat, ReactiveSettles(ok, with),
         destroyed => destroyed'
  PROVE  call' \in [Calls -> CallRecords] /\ CallsSound'
  <1>1. ASSUME NEW c \in Calls
        PROVE  /\ call'[c] \in CallRecords
               /\ call'[c] = call[c] \/ (CallSound(call'[c]) /\ call'[c].at # "null")
    <2>1. call[c] \in CallRecords /\ CallSound(call[c])
      BY DEF AuthTypes, CallsSound
    <2>2. CASE call[c].at \notin {"refreshing", "preflight", "renewing"}
      BY <2>1, <2>2 DEF ReactiveSettles
    <2>3. CASE call[c].at \in {"refreshing", "preflight", "renewing"} /\ ~ok
      <3>1. call'[c] = Over(call[c], "failed")
        BY <2>3 DEF ReactiveSettles
      <3> QED BY <2>1, <3>1, FailsSoundly, LooserBounds
    <2>4. CASE call[c].at = "refreshing" /\ ok
      <3>1. call'[c] = Sent(call[c], with)
        BY <2>4 DEF ReactiveSettles
      <3>2. call[c].todo # <<>>
        BY <2>1, <2>4 DEF CallSound, Endings
      <3> QED BY <2>1, <2>4, <3>1, <3>2, SentIs
    <2>5. CASE call[c].at = "preflight" /\ ok
      <3>1. call'[c] = [call[c] EXCEPT !.at = "passed"]
        BY <2>5 DEF ReactiveSettles
      <3> QED BY <2>1, <2>5, <3>1 DEF CallRecords, CallSound, Endings
    <2>6. CASE call[c].at = "renewing" /\ ok
      <3> DEFINE t == <<Lookup("card again")>>
      <3>1. call'[c] = [call[c] EXCEPT !.at = "next", !.todo = t]
        BY <2>6 DEF ReactiveSettles
      <3>2. t \in Todos
        BY DEF Todos
      <3>3. t # <<>> /\ OneSubmit(t) /\ ~Submits(t)
        <4>1. Lookup("card again").is = "card again"
          BY DEF Lookup, Plain
        <4>2. DOMAIN t = 1..1 /\ t[1] = Lookup("card again")
          OBVIOUS
        <4>3. \A i \in DOMAIN t : t[i].is # "submit"
          <5>1. \A i \in 1..1 : i = 1
            OBVIOUS
          <5> HIDE DEF t
          <5> QED BY <4>1, <4>2, <5>1
        <4> QED BY <4>2, <4>3 DEF OneSubmit, Submits
      <3> HIDE DEF t
      <3>4. ASSUME NEW k \in CallRecords, NEW q, q = [k EXCEPT !.at = "next", !.todo = t]
            PROVE  /\ q \in CallRecords
                   /\ q.at = "next" /\ q.todo = t /\ q.made = k.made /\ q.lost = k.lost
        BY <3>2, <3>4 DEF CallRecords
      <3>5. call[c].made <= MadeAtMost(call[c].lost, Submits(t))
        BY <2>1, <3>3, LooserBounds
      <3> QED BY <2>1, <3>1, <3>3, <3>4, <3>5 DEF CallSound
    <2> QED BY <2>2, <2>3, <2>4, <2>5, <2>6
  <1>2. call' \in [Calls -> CallRecords]
    BY <1>1 DEF ReactiveSettles
  <1> QED BY <1>1, <1>2, CallsStaySound

-----------------------------------------------------------------------------
(* The steps of a call.                                                      *)

\* A call may start the initial login, or the shared refresh unless it is destroyed.
Starts ==
  \/ UNCHANGED attempt
  \/ \E r \in {Init_, Reactive}, kind \in {"refresh", "login"} :
       /\ ~Busy(r) /\ (IF r = Reactive THEN ~destroyed ELSE mode # "agent")
       /\ attempt' = [attempt EXCEPT ![r] = Sending(kind)]

LEMMA SendingIs ==
  ASSUME AuthTypes, NEW kind \in {"refresh", "login"}
  PROVE  /\ Sending(kind) \in Attempts /\ Sending(kind).is \in {"held", "sent"}
         /\ held /\ mode # "provider" => Sending(kind).is = "held"
  BY DEF AuthTypes, Sending, Attempts

LEMMA KindIs == Kind \in {"refresh", "login"}
  BY DEF Kind

LEMMA JoinStarts == AuthTypes /\ ~destroyed /\ Join => Starts
  BY KindIs DEF Join, Starts

LEMMA PassesIs ==
  ASSUME AuthTypes, CallsSound, UNCHANGED destroyed, NEW c \in Calls, Passes(c),
         call[c].at \notin Endings
  PROVE  call' \in [Calls -> CallRecords] /\ CallsSound' /\ Starts
  <1>1. call[c] \in CallRecords /\ CallSound(call[c]) /\ call[c].todo # <<>> /\ token \in Nat
    BY DEF AuthTypes, CallsSound, CallSound
  <1>2. CASE ready \/ mode = "agent" \/ ~Request(c).awaits
    <2>1. call' = [call EXCEPT ![c] = Sent(call[c], token)] /\ UNCHANGED attempt
      BY <1>2 DEF Passes
    <2>2. /\ Sent(call[c], token) \in CallRecords /\ CallSound(Sent(call[c], token))
          /\ Sent(call[c], token).at # "null"
      BY <1>1, SentIs DEF Endings
    <2>3. /\ call' \in [Calls -> CallRecords]
          /\ \A x \in Calls :
               call'[x] = call[x] \/ (CallSound(call'[x]) /\ call'[x].at # "null")
      BY <2>1, <2>2 DEF AuthTypes
    <2> QED BY <2>1, <2>3, CallsStaySound DEF Starts
  <1>3. CASE ~(ready \/ mode = "agent" \/ ~Request(c).awaits)
    <2>1. /\ call' = [call EXCEPT ![c].at = "starting"]
          /\ attempt' = IF Busy(Init_) THEN attempt
                        ELSE [attempt EXCEPT ![Init_] = Sending("login")]
      BY <1>3 DEF Passes
    <2>2. ASSUME NEW q, q = [call[c] EXCEPT !.at = "starting"]
          PROVE  q \in CallRecords /\ CallSound(q) /\ q.at # "null"
      BY <1>1, <2>2 DEF CallRecords, CallSound
    <2>3. /\ call' \in [Calls -> CallRecords]
          /\ \A x \in Calls :
               call'[x] = call[x] \/ (CallSound(call'[x]) /\ call'[x].at # "null")
      BY <2>1, <2>2 DEF AuthTypes
    <2>4. Starts
      <3>1. CASE Busy(Init_)
        BY <2>1, <3>1 DEF Starts
      <3>2. CASE ~Busy(Init_)
        <4>1. Init_ # Reactive /\ mode # "agent"
          BY <1>3 DEF Init_, Reactive
        <4> QED BY <2>1, <3>2, <4>1 DEF Starts
      <3> QED BY <3>1, <3>2
    <2> QED BY <2>3, <2>4, CallsStaySound
  <1> QED BY <1>2, <1>3

LEMMA CallStartsIs ==
  ASSUME AuthTypes, CallsSound, NEW c \in Calls, CallStarts(c)
  PROVE  call' \in [Calls -> CallRecords] /\ CallsSound' /\ Starts
  <1>1. call[c].at \notin Endings /\ UNCHANGED destroyed
    BY DEF CallStarts, Endings
  <1>2. call[c] \in CallRecords /\ CallSound(call[c]) /\ call[c].todo # <<>> /\ token \in Nat
    BY <1>1 DEF AuthTypes, CallsSound, CallSound
  <1>3. CASE ~failed \/ ~Request(c).preflight
    BY <1>1, <1>3, PassesIs DEF CallStarts
  <1>4. CASE ~(~failed \/ ~Request(c).preflight) /\ destroyed
    <2>1. call' = [call EXCEPT ![c] = Over(call[c], "failed")] /\ UNCHANGED attempt
      BY <1>4 DEF CallStarts
    <2>2. /\ Over(call[c], "failed") \in CallRecords /\ CallSound(Over(call[c], "failed"))
          /\ Over(call[c], "failed").at # "null"
      BY <1>2, FailsSoundly, LooserBounds
    <2>3. /\ call' \in [Calls -> CallRecords]
          /\ \A x \in Calls :
               call'[x] = call[x] \/ (CallSound(call'[x]) /\ call'[x].at # "null")
      BY <2>1, <2>2 DEF AuthTypes
    <2> QED BY <1>1, <2>1, <2>3, CallsStaySound DEF Starts
  <1>5. CASE ~(~failed \/ ~Request(c).preflight) /\ ~destroyed
    <2>1. call' = [call EXCEPT ![c].at = "preflight"] /\ Join
      BY <1>5 DEF CallStarts
    <2>2. ASSUME NEW q, q = [call[c] EXCEPT !.at = "preflight"]
          PROVE  q \in CallRecords /\ CallSound(q) /\ q.at # "null"
      BY <1>2, <2>2 DEF CallRecords, CallSound
    <2>3. /\ call' \in [Calls -> CallRecords]
          /\ \A x \in Calls :
               call'[x] = call[x] \/ (CallSound(call'[x]) /\ call'[x].at # "null")
      BY <2>1, <2>2 DEF AuthTypes
    <2> QED BY <1>1, <1>5, <2>1, <2>3, CallsStaySound, JoinStarts
  <1> QED BY <1>3, <1>4, <1>5

\* What a call makes with one answer: nothing, or the message it has to submit.
LEMMA MakesIs ==
  ASSUME NEW c \in Calls, NEW answer \in Answers(c), NEW made \in Makes(c, answer)
  PROVE  /\ made \in {0, 1}
         /\ made = 1 => Is(c, "submit") /\ answer # "unauthorized"
         /\ answer = "empty" => made = 0 /\ (Is(c, "card") \/ Is(c, "card again"))
  <1>1. made \in {0, 1} /\ (made = 1 => Is(c, "submit") /\ answer # "unauthorized")
    BY DEF Makes
  <1>2. answer = "empty" => Is(c, "card") \/ Is(c, "card again")
    BY DEF Answers
  <1>3. answer = "empty" => ~Is(c, "submit")
    BY <1>2 DEF Is
  <1> QED BY <1>1, <1>2, <1>3

LEMMA CallAnsweredIs ==
  ASSUME AuthTypes, CallsSound, NEW c \in Calls, CallAnswered(c)
  PROVE  call' \in [Calls -> CallRecords] /\ CallsSound' /\ Starts
  <1>1. /\ call[c] \in CallRecords /\ CallSound(call[c]) /\ call[c].todo # <<>> /\ token \in Nat
        /\ OneSubmit(call[c].todo) /\ UNCHANGED destroyed
    BY DEF AuthTypes, CallsSound, CallSound, CallAnswered, Endings
  <1> DEFINE with(made) == [call[c] EXCEPT !.made = @ + made, !.with = 0]
             renews(answer) == answer = "empty" /\ Is(c, "card") /\ ~destroyed
             refreshes(answer, k) == Refreshable(answer) /\ k.at = "sent" /\ ~destroyed
             outcome(answer, k) ==
               CASE answer = "ok" -> Onward(k)
                 [] answer = "lost" /\ Request(c).retries /\ ~k.lost -> WithRetry(k)
                 [] renews(answer) -> [k EXCEPT !.at = "renewing"]
                 [] refreshes(answer, k) -> [k EXCEPT !.at = "refreshing"]
                 [] answer = "empty" /\ ~renews(answer) /\ (Is(c, "card") => ~failed) -> Over(k, "null")
                 [] OTHER -> Over(k, "failed")
  <1>2. \E answer \in Answers(c) : \E made \in Makes(c, answer) :
          /\ call' = [call EXCEPT ![c] = outcome(answer, with(made))]
          /\ IF renews(answer) \/ refreshes(answer, with(made)) THEN Join ELSE UNCHANGED attempt
    BY DEF CallAnswered
  <1>2a. PICK answer \in Answers(c) : \E made \in Makes(c, answer) :
          /\ call' = [call EXCEPT ![c] = outcome(answer, with(made))]
          /\ IF renews(answer) \/ refreshes(answer, with(made)) THEN Join ELSE UNCHANGED attempt
    BY <1>2
  <1>2b. PICK made \in Makes(c, answer) :
          /\ call' = [call EXCEPT ![c] = outcome(answer, with(made))]
          /\ IF renews(answer) \/ refreshes(answer, with(made)) THEN Join ELSE UNCHANGED attempt
    BY <1>2a
  <1>3. PICK k : k = with(made)
    OBVIOUS
  <1>4. /\ made \in {0, 1}
        /\ made = 1 => Is(c, "submit") /\ answer # "unauthorized"
        /\ answer = "empty" => made = 0 /\ (Is(c, "card") \/ Is(c, "card again"))
    BY MakesIs
  <1>5. /\ k \in CallRecords
        /\ k.todo = call[c].todo /\ k.lost = call[c].lost /\ k.made = call[c].made + made
        /\ k.at = call[c].at
    <2>1. ASSUME NEW j \in CallRecords, NEW m \in {0, 1}, NEW q, q = [j EXCEPT !.made = @ + m, !.with = 0]
          PROVE  /\ q \in CallRecords
                 /\ q.todo = j.todo /\ q.lost = j.lost /\ q.made = j.made + m /\ q.at = j.at
      <3>1. j.made + m \in Nat
        BY <2>1 DEF CallRecords
      <3>2. q = [j EXCEPT !.made = j.made + m, !.with = 0]
        BY <2>1
      <3>3. ASSUME NEW n \in Nat, q = [j EXCEPT !.made = n, !.with = 0]
            PROVE  /\ q \in CallRecords
                   /\ q.todo = j.todo /\ q.lost = j.lost /\ q.made = n /\ q.at = j.at
        BY <3>3 DEF CallRecords
      <3> QED BY <3>1, <3>2, <3>3
    <2> QED BY <1>1, <1>3, <1>4, <2>1
  <1>6. made = 1 => Submits(k.todo) /\ Head(k.todo).is = "submit"
    <2>1. Head(k.todo) = k.todo[1] /\ 1 \in DOMAIN k.todo
      BY <1>1, <1>5, TailIs DEF CallRecords, Todos
    <2> QED BY <1>4, <1>5, <2>1 DEF Is, Request, Submits
  <1>7. k.made <= MadeAtMost(k.lost, FALSE) /\ (made = 0 => CallSound(k))
    <2>1. call[c].made \in Nat /\ call[c].lost \in BOOLEAN
          /\ call[c].made <= MadeAtMost(call[c].lost, Submits(call[c].todo))
      BY <1>1 DEF CallRecords, CallSound
    <2>2. CASE made = 0
      BY <1>1, <1>5, <2>1, <2>2 DEF CallSound, MadeAtMost
    <2>3. CASE made = 1
      BY <1>5, <1>6, <2>1, <2>3 DEF MadeAtMost
    <2> QED BY <1>4, <2>2, <2>3
  <1>8. call' = [call EXCEPT ![c] = outcome(answer, k)] /\ Starts
    BY <1>2b, <1>3, JoinStarts DEF Starts
  <1> HIDE DEF with
  <1>9. /\ outcome(answer, k) \in CallRecords /\ CallSound(outcome(answer, k))
        /\ outcome(answer, k).at = "null" =>
             destroyed \/ Head(outcome(answer, k).todo).is = "card again"
    <2>1. CASE answer = "ok"
      <3>1. outcome(answer, k) = Onward(k)
        BY <2>1 DEF Refreshable
      <3>2. Onward(k).made <= MadeAtMost(Onward(k).lost, Submits(Onward(k).todo))
        <4>1. k.made <= MadeAtMost(k.lost, Submits(Onward(k).todo))
          <5>1. CASE made = 1
            <6>1. ~Submits(Onward(k).todo)
              BY <1>1, <1>5, <1>6, <5>1, OnwardIs
            <6> QED BY <1>5, <1>7, <6>1 DEF MadeAtMost
          <5>2. CASE made = 0
            BY <1>1, <1>5, <1>7, <5>2, OnwardIs, LooserBounds
          <5> QED BY <1>4, <5>1, <5>2
        <4> QED BY <1>1, <1>5, <4>1, OnwardIs
      <3> QED BY <1>1, <1>5, <3>1, <3>2, OnwardIs DEF CallSound, Endings
    <2>2. CASE answer = "lost" /\ Request(c).retries /\ ~k.lost
      <3>1. outcome(answer, k) = WithRetry(k)
        BY <2>2 DEF Refreshable
      <3>2. ASSUME NEW q, q = [k EXCEPT !.at = "sent", !.lost = TRUE]
            PROVE  q \in CallRecords /\ CallSound(q) /\ q.todo # <<>> /\ q.at # "null"
        <4>1. /\ q \in CallRecords /\ q.at = "sent" /\ q.lost = TRUE
              /\ q.made = k.made /\ q.todo = k.todo
          BY <1>5, <3>2 DEF CallRecords
        <4>2. k.made <= 1 /\ k.made \in Nat
          BY <1>5, <1>7, <2>2 DEF MadeAtMost, CallRecords
        <4>3. q.made <= MadeAtMost(q.lost, Submits(q.todo))
          BY <4>1, <4>2 DEF MadeAtMost
        <4> QED BY <1>1, <1>5, <4>1, <4>3 DEF CallSound
      <3>3. outcome(answer, k) = Sent([k EXCEPT !.at = "sent", !.lost = TRUE], token)
        BY <3>1 DEF WithRetry
      <3>4. ASSUME NEW q, q = [k EXCEPT !.at = "sent", !.lost = TRUE]
            PROVE  /\ Sent(q, token) \in CallRecords /\ CallSound(Sent(q, token))
                   /\ Sent(q, token).at # "null"
        BY <1>1, <3>2, <3>4, SentIs
      <3> QED BY <3>3, <3>4
    <2>3. CASE renews(answer)
      <3>1. outcome(answer, k) = [k EXCEPT !.at = "renewing"] /\ made = 0
        BY <1>4, <2>3 DEF Refreshable
      <3>2. CallSound(k)
        BY <1>7, <3>1
      <3>3. ASSUME NEW q, q = [k EXCEPT !.at = "renewing"]
            PROVE  q \in CallRecords /\ CallSound(q) /\ q.at # "null"
        BY <1>1, <1>5, <3>2, <3>3 DEF CallRecords, CallSound
      <3> QED BY <3>1, <3>3
    <2>4. CASE refreshes(answer, k)
      <3>1. outcome(answer, k) = [k EXCEPT !.at = "refreshing"] /\ made = 0
        BY <1>4, <2>4 DEF Refreshable
      <3>2. CallSound(k)
        BY <1>7, <3>1
      <3>3. ASSUME NEW q, q = [k EXCEPT !.at = "refreshing"]
            PROVE  q \in CallRecords /\ CallSound(q) /\ q.at # "null"
        BY <1>1, <1>5, <3>2, <3>3 DEF CallRecords, CallSound
      <3> QED BY <3>1, <3>3
    <2>5. CASE answer = "empty" /\ ~renews(answer) /\ (Is(c, "card") => ~failed)
      <3>1. outcome(answer, k) = Over(k, "null") /\ made = 0
        BY <1>4, <2>5 DEF Refreshable
      <3>2. destroyed \/ Is(c, "card again")
        BY <1>4, <2>5
      <3>3. CallSound(k)
        BY <1>7, <3>1
      <3>4. /\ Over(k, "null") \in CallRecords /\ Over(k, "null").at = "null"
            /\ Over(k, "null").made = k.made /\ Over(k, "null").lost = k.lost
            /\ Over(k, "null").todo = k.todo
        BY <1>5, OverIs DEF Endings
      <3> QED BY <1>5, <3>1, <3>2, <3>3, <3>4 DEF CallSound, Endings, Is, Request
    <2>6. CASE outcome(answer, k) = Over(k, "failed")
      BY <1>5, <1>7, <2>6, FailsSoundly
    <2>7. \/ answer = "ok" \/ (answer = "lost" /\ Request(c).retries /\ ~k.lost)
          \/ renews(answer) \/ refreshes(answer, k)
          \/ (answer = "empty" /\ ~renews(answer) /\ (Is(c, "card") => ~failed))
          \/ outcome(answer, k) = Over(k, "failed")
      <3> HIDE DEF renews, refreshes
      <3> QED OBVIOUS
    <2> QED BY <2>1, <2>2, <2>3, <2>4, <2>5, <2>6, <2>7
  <1> HIDE DEF outcome
  <1>10. call' \in [Calls -> CallRecords] /\ call'[c] = outcome(answer, k)
         /\ \A x \in Calls : x # c => call'[x] = call[x]
    BY <1>8, <1>9 DEF AuthTypes
  <1>11. CallsSound'
    BY <1>1, <1>9, <1>10 DEF CallsSound, Is, Request
  <1> QED BY <1>8, <1>10, <1>11

-----------------------------------------------------------------------------
(* The steps of the refreshers.                                              *)

\* Attempts begin, or are answered: none of them is over.
AttemptsGoOn ==
  /\ attempt' \in [Refreshers -> Attempts]
  /\ Busy(Reactive) => Busy(Reactive)'
  /\ mode = "provider" => \A r \in Refreshers : attempt'[r].is # "limited"

LEMMA RefreshersAre ==
  /\ Init_ \in Refreshers /\ Reactive \in Refreshers /\ Chains \subseteq Refreshers
  /\ Init_ # Reactive /\ NoTimer \notin Chains /\ Init_ \notin Chains /\ Reactive \notin Chains
  BY ChainsAssumption DEF Refreshers, Init_, Reactive, NoTimer

LEMMA NoAttemptIs == NoAttempt \in Attempts /\ NoAttempt.is = "none"
  BY DEF NoAttempt, Attempts

LEMMA NoChainIs == NoChain \in ChainStates /\ NoChain.is = "none"
  BY DEF NoChain, ChainStates

LEMMA OneAttemptGoesOn ==
  ASSUME AuthInv, NEW r \in Refreshers, NEW a \in Attempts, attempt' = [attempt EXCEPT ![r] = a],
         a.is # "none", mode = "provider" => a.is # "limited"
  PROVE  AttemptsGoOn
  BY DEF AuthInv, AuthTypes, ModesApart, AttemptsGoOn, Busy

LEMMA StartsGoOn ==
  ASSUME AuthInv, Starts
  PROVE  AttemptsGoOn
  <1>1. CASE UNCHANGED attempt
    BY <1>1 DEF AuthInv, AuthTypes, ModesApart, AttemptsGoOn, Busy
  <1>2. ASSUME NEW r \in {Init_, Reactive}, NEW kind \in {"refresh", "login"},
               attempt' = [attempt EXCEPT ![r] = Sending(kind)]
        PROVE  AttemptsGoOn
    BY <1>2, SendingIs, RefreshersAre, OneAttemptGoesOn DEF AuthInv
  <1> QED BY <1>1, <1>2 DEF Starts

\* Steps that only begin or answer attempts, and let calls go on.
LEMMA OnlyAttempts ==
  ASSUME AuthInv, AttemptsGoOn, issued' \in Nat, token' \in Nat,
         UNCHANGED <<mode, ready, destroyed, failed, held, chain, tracked>>,
         call' \in [Calls -> CallRecords], CallsSound'
  PROVE  AuthInv'
  <1>1. AuthTypes' /\ RoomToSchedule' /\ ModesApart'
    BY DEF AuthInv, AuthTypes, AttemptsGoOn, RoomToSchedule, Free, ModesApart
  <1>2. StaysAwake'
    BY DEF AuthInv, AttemptsGoOn, StaysAwake, Busy
  <1> QED BY <1>1, <1>2 DEF AuthInv

LEMMA CallsUnchanged == AuthInv /\ UNCHANGED <<call, destroyed>> =>
                          call' \in [Calls -> CallRecords] /\ CallsSound'
  <1> SUFFICES ASSUME AuthInv, UNCHANGED <<call, destroyed>>
               PROVE  call' \in [Calls -> CallRecords] /\ CallsSound'
    OBVIOUS
  <1>1. call' \in [Calls -> CallRecords]
    BY DEF AuthInv, AuthTypes
  <1> QED BY <1>1, CallsStaySound DEF AuthInv

LEMMA AnswersAre ==
  ASSUME AuthInv, NEW r \in Refreshers, ServerAnswers(r)
  PROVE  /\ issued' \in Nat
         /\ \E a \in Attempts : /\ attempt' = [attempt EXCEPT ![r] = a]
                                /\ a.is \notin {"none", "sent"}
                                /\ mode = "provider" => a.is # "limited"
  <1> DEFINE reply(is, got) == [NoAttempt EXCEPT !.is = is, !.got = got]
  <1>1. ASSUME NEW is \in {"ok", "failed", "invalid", "limited"}, NEW got \in Nat
        PROVE  reply(is, got) \in Attempts /\ reply(is, got).is = is
    BY DEF NoAttempt, Attempts
  <1>2. issued \in Nat /\ issued' \in Nat
    BY DEF AuthInv, AuthTypes, ServerAnswers
  <1>3. \E is \in {"ok", "failed", "invalid", "limited"}, got \in {0, issued + 1} :
          attempt' = [attempt EXCEPT ![r] = reply(is, got)] /\ (mode = "provider" => is # "limited")
    BY DEF ServerAnswers
  <1> HIDE DEF reply
  <1>4. PICK is \in {"ok", "failed", "invalid", "limited"}, got \in {0, issued + 1} :
          attempt' = [attempt EXCEPT ![r] = reply(is, got)] /\ (mode = "provider" => is # "limited")
    BY <1>3
  <1>5. reply(is, got) \in Attempts /\ reply(is, got).is = is
    BY <1>1, <1>2
  <1> QED BY <1>2, <1>4, <1>5

LEMMA AnswersKeep ==
  ASSUME AuthInv, NEW r \in Refreshers, ServerAnswers(r)
  PROVE  AuthInv'
  <1>1. UNCHANGED <<mode, token, ready, destroyed, failed, held, chain, tracked, call>>
    BY DEF ServerAnswers
  <1>2. AttemptsGoOn /\ issued' \in Nat
    BY AnswersAre, OneAttemptGoesOn
  <1>3. token \in Nat
    BY DEF AuthInv, AuthTypes
  <1> QED BY <1>1, <1>2, <1>3, CallsUnchanged, OnlyAttempts

LEMMA LogsInAgainKeeps ==
  ASSUME AuthInv, NEW r \in Refreshers, LogsInAgain(r)
  PROVE  AuthInv'
  <1>1. UNCHANGED <<mode, issued, token, ready, destroyed, failed, held, chain, tracked, call>>
        /\ attempt' = [attempt EXCEPT ![r] = Sending("login")]
    BY DEF LogsInAgain
  <1>2. AttemptsGoOn
    BY <1>1, SendingIs, OneAttemptGoesOn DEF AuthInv
  <1>3. token \in Nat /\ issued \in Nat
    BY DEF AuthInv, AuthTypes
  <1> QED BY <1>1, <1>2, <1>3, CallsUnchanged, OnlyAttempts

LEMMA CallsKeep ==
  ASSUME AuthInv, NEW c \in Calls, CallStarts(c) \/ CallSteps(c)
  PROVE  AuthInv'
  <1>1. UNCHANGED <<mode, issued, token, ready, destroyed, failed, held, chain, tracked>>
    BY DEF CallSteps, CallStarts, CallPasses, CallAnswered
  <1>2. call' \in [Calls -> CallRecords] /\ CallsSound' /\ Starts
    <2>1. AuthTypes /\ CallsSound
      BY DEF AuthInv
    <2>2. CASE CallStarts(c)
      BY <2>1, <2>2, CallStartsIs
    <2>3. CASE CallPasses(c)
      BY <1>1, <2>1, <2>3, PassesIs DEF CallPasses, Endings
    <2>4. CASE CallAnswered(c)
      BY <2>1, <2>4, CallAnsweredIs
    <2> QED BY <2>2, <2>3, <2>4 DEF CallSteps
  <1>3. token \in Nat /\ issued \in Nat
    BY DEF AuthInv, AuthTypes
  <1> QED BY <1>1, <1>2, <1>3, StartsGoOn, OnlyAttempts

LEMMA HoldEndsKeeps ==
  ASSUME AuthInv, HoldEnds \/ TokensExpire
  PROVE  AuthInv'
  <1>1. UNCHANGED <<call, destroyed>>
    BY DEF HoldEnds, TokensExpire
  <1>2. /\ UNCHANGED <<mode, issued, token, ready, destroyed, failed, attempt, chain, tracked, call>>
        /\ held' = FALSE \/ held' = held
    BY DEF HoldEnds, TokensExpire
  <1>3. AuthTypes' /\ RoomToSchedule'
    BY <1>2 DEF AuthInv, AuthTypes, RoomToSchedule, Free
  <1>4. ModesApart' /\ StaysAwake'
    BY <1>2 DEF AuthInv, ModesApart, StaysAwake, Busy
  <1> QED BY <1>1, <1>3, <1>4, CallsUnchanged DEF AuthInv

-----------------------------------------------------------------------------
(* The schedule of proactive refreshes.                                      *)

\* A refresh is scheduled, in the place of the one that is tracked or in a free one.
LEMMA ScheduleIs ==
  ASSUME AuthTypes, UNCHANGED destroyed, NEW ch \in [Chains -> ChainStates], Schedule(ch),
         ~destroyed /\ tracked = NoTimer => Free(ch) # {}
  PROVE  /\ chain' \in [Chains -> ChainStates] /\ tracked' \in Chains \cup {NoTimer}
         /\ RoomToSchedule'
         /\ ~destroyed => \E c \in Chains : chain'[c].is # "none"
  <1>1. CASE destroyed
    BY <1>1 DEF Schedule, AuthTypes, RoomToSchedule
  <1>2. CASE ~destroyed
    <2> DEFINE rest == IF tracked = NoTimer THEN ch ELSE [ch EXCEPT ![tracked] = NoChain]
               c == CHOOSE x \in Free(rest) : TRUE
    <2>1. chain' = [rest EXCEPT ![c].is = "armed"] /\ tracked' = c
      BY <1>2 DEF Schedule
    <2>2. rest \in [Chains -> ChainStates]
      BY NoChainIs
    <2>3. Free(rest) # {}
      <3>1. CASE tracked = NoTimer
        BY <1>2, <3>1
      <3>2. CASE tracked # NoTimer
        BY <3>2, NoChainIs DEF AuthTypes, Free
      <3> QED BY <3>1, <3>2
    <2>4. c \in Free(rest)
      BY <2>3
    <2> HIDE DEF rest, c
    <2>5. c \in Chains
      BY <2>4 DEF Free
    <2>6. chain' \in [Chains -> ChainStates] /\ chain'[c].is = "armed"
      BY <2>1, <2>2, <2>5 DEF ChainStates
    <2> QED BY <2>1, <2>5, <2>6, RefreshersAre DEF RoomToSchedule
  <1> QED BY <1>1, <1>2 DEF AuthTypes

LEMMA SucceedsKeeps ==
  ASSUME AuthInv, NEW r \in Refreshers, Succeeds(r), mode # "agent"
  PROVE  AuthInv'
  <1>1. /\ UNCHANGED <<mode, issued, expired, destroyed, held>> /\ token' \in Nat
        /\ attempt' \in [Refreshers -> Attempts]
        /\ ready' \in BOOLEAN /\ failed' = FALSE
    BY NoAttemptIs DEF AuthInv, AuthTypes, Attempts, Succeeds, Finish
  <1>2. \E ch \in [Chains -> ChainStates] :
          Schedule(ch) /\ (~destroyed /\ tracked = NoTimer => Free(ch) # {})
    <2>1. CASE r \in {Init_, Reactive}
      <3>1. Schedule(chain)
        BY <2>1, RefreshersAre DEF Succeeds
      <3> QED BY <3>1 DEF AuthInv, AuthTypes, RoomToSchedule
    <2>2. CASE r \notin {Init_, Reactive}
      <3> DEFINE ch == [chain EXCEPT ![r] = NoChain]
      <3>1. Schedule(ch)
        BY <2>2 DEF Succeeds
      <3>2. r \in Chains
        BY <2>2 DEF Refreshers
      <3>3. ch \in [Chains -> ChainStates] /\ r \in Free(ch)
        BY <3>2, NoChainIs DEF AuthInv, AuthTypes, Free
      <3> QED BY <3>1, <3>3
    <2> QED BY <2>1, <2>2
  <1>3. /\ chain' \in [Chains -> ChainStates] /\ tracked' \in Chains \cup {NoTimer}
        /\ RoomToSchedule'
        /\ ~destroyed => \E c \in Chains : chain'[c].is # "none"
    BY <1>1, <1>2, ScheduleIs DEF AuthInv
  <1>4. call' \in [Calls -> CallRecords] /\ CallsSound'
    <2>1. attempt[r].got \in Nat
      BY DEF AuthInv, AuthTypes, Attempts
    <2>2. CASE r = Init_
      <3>1. InitSettles(TRUE, attempt[r].got)
        BY <2>2, RefreshersAre DEF Succeeds
      <3> QED BY <1>1, <2>1, <3>1, InitSettlesSoundly DEF AuthInv
    <2>3. CASE r = Reactive
      <3>1. ReactiveSettles(TRUE, attempt[r].got)
        BY <2>3, RefreshersAre DEF Succeeds
      <3> QED BY <1>1, <2>1, <3>1, ReactiveSettlesSoundly DEF AuthInv
    <2>4. CASE r \notin {Init_, Reactive}
      BY <1>1, <2>4, CallsUnchanged DEF Succeeds
    <2> QED BY <2>2, <2>3, <2>4
  <1>5. mode = "provider" => \A x \in Refreshers : attempt'[x].is # "limited"
    BY NoAttemptIs DEF AuthInv, AuthTypes, ModesApart, Succeeds, Finish
  <1>6. AuthTypes' /\ ModesApart' /\ StaysAwake'
    BY <1>1, <1>3, <1>4, <1>5 DEF AuthInv, AuthTypes, ModesApart, StaysAwake
  <1> QED BY <1>3, <1>4, <1>6 DEF AuthInv

LEMMA SharedFailsKeeps ==
  ASSUME AuthInv, NEW r \in Refreshers, SharedFails(r)
  PROVE  AuthInv'
  <1>1. /\ UNCHANGED <<mode, issued, expired, token, ready, destroyed, chain, tracked>>
        /\ attempt' = [attempt EXCEPT ![r] = NoAttempt] /\ r \in {Init_, Reactive}
        /\ held' = (held \/ attempt[r].is = "limited")
        /\ failed' = failed \/ failed' = TRUE
        /\ r = Reactive => failed' = TRUE
    BY RefreshersAre DEF SharedFails, Finish
  <1>2. call' \in [Calls -> CallRecords] /\ CallsSound'
    <2>1. CASE InitSettles(FALSE, 0)
      BY <1>1, <2>1, InitSettlesSoundly DEF AuthInv
    <2>2. CASE ReactiveSettles(FALSE, 0)
      BY <1>1, <2>2, ReactiveSettlesSoundly DEF AuthInv
    <2> QED BY <2>1, <2>2 DEF SharedFails
  <1>3. attempt' \in [Refreshers -> Attempts]
    BY <1>1, NoAttemptIs DEF AuthInv, AuthTypes
  <1>4. failed' \in BOOLEAN /\ held' \in BOOLEAN
    BY <1>1 DEF AuthInv, AuthTypes
  <1>5. AuthTypes'
    BY <1>1, <1>2, <1>3, <1>4 DEF AuthInv, AuthTypes
  <1>6. ModesApart'
    BY <1>1, NoAttemptIs DEF AuthInv, AuthTypes, ModesApart
  <1>7. RoomToSchedule' /\ StaysAwake'
    BY <1>1, RefreshersAre DEF AuthInv, AuthTypes, RoomToSchedule, Free, StaysAwake, Busy
  <1> QED BY <1>2, <1>5, <1>6, <1>7 DEF AuthInv

LEMMA RetryIs ==
  ASSUME AuthTypes, RoomToSchedule, UNCHANGED destroyed, NEW c \in Chains, NEW n \in Nat,
         Retry(c, n)
  PROVE  /\ chain' \in [Chains -> ChainStates] /\ tracked' \in Chains \cup {NoTimer}
         /\ RoomToSchedule'
         /\ ~destroyed => chain'[c].is # "none"
  <1>1. CASE destroyed
    BY <1>1, NoChainIs DEF Retry, AuthTypes, RoomToSchedule
  <1>2. CASE ~destroyed
    <2>1. [is |-> "armed", failures |-> n] \in ChainStates
      BY DEF ChainStates
    <2> QED BY <1>2, <2>1, RefreshersAre DEF Retry, AuthTypes, RoomToSchedule
  <1> QED BY <1>1, <1>2 DEF AuthTypes

LEMMA ProactiveFailsKeeps ==
  ASSUME AuthInv, NEW c \in Chains, ProactiveFails(c)
  PROVE  AuthInv'
  <1>1. /\ UNCHANGED <<mode, issued, expired, token, ready, destroyed, call>>
        /\ attempt' = [attempt EXCEPT ![c] = NoAttempt] /\ c \in Refreshers
        /\ held' = (held \/ attempt[c].is = "limited")
    BY RefreshersAre DEF ProactiveFails, Finish
  <1>2. chain[c].failures \in Nat
    BY DEF AuthInv, AuthTypes, ChainStates
  <1>3. /\ chain' \in [Chains -> ChainStates] /\ tracked' \in Chains \cup {NoTimer}
        /\ RoomToSchedule' /\ failed' \in BOOLEAN
        /\ ~destroyed => failed' \/ chain'[c].is # "none"
    <2>1. ASSUME NEW n \in Nat, Retry(c, n), UNCHANGED failed
          PROVE  /\ chain' \in [Chains -> ChainStates] /\ tracked' \in Chains \cup {NoTimer}
                 /\ RoomToSchedule' /\ failed' \in BOOLEAN
                 /\ ~destroyed => failed' \/ chain'[c].is # "none"
      BY <1>1, <2>1, RetryIs DEF AuthInv, AuthTypes
    <2>2. CASE chain' = [chain EXCEPT ![c] = NoChain] /\ failed' = TRUE /\ UNCHANGED tracked
      BY <1>1, <2>2, NoChainIs DEF AuthInv, AuthTypes, RoomToSchedule, Free
    <2>3. chain[c].failures + 1 \in Nat
      BY <1>2
    <2>4. \/ \E n \in {chain[c].failures, chain[c].failures + 1} : Retry(c, n) /\ UNCHANGED failed
          \/ chain' = [chain EXCEPT ![c] = NoChain] /\ failed' = TRUE /\ UNCHANGED tracked
      BY DEF ProactiveFails
    <2> QED BY <1>2, <2>1, <2>2, <2>3, <2>4
  <1>4. call' \in [Calls -> CallRecords] /\ CallsSound'
    BY <1>1, CallsUnchanged
  <1>5. attempt' \in [Refreshers -> Attempts] /\ held' \in BOOLEAN
    BY <1>1, NoAttemptIs DEF AuthInv, AuthTypes
  <1>6. AuthTypes'
    BY <1>1, <1>3, <1>4, <1>5 DEF AuthInv, AuthTypes
  <1>7. ModesApart'
    BY <1>1, NoAttemptIs DEF AuthInv, AuthTypes, ModesApart
  <1>8. StaysAwake'
    BY <1>1, <1>3 DEF StaysAwake
  <1> QED BY <1>3, <1>4, <1>6, <1>7, <1>8 DEF AuthInv

LEMMA TimerFiresKeeps ==
  ASSUME AuthInv, NEW c \in Chains, TimerFires(c)
  PROVE  AuthInv'
  <1>1. UNCHANGED <<mode, issued, expired, token, ready, destroyed, failed, held, call>>
        /\ tracked' = NoTimer /\ chain[c].is = "armed"
    BY DEF TimerFires
  <1>2. call' \in [Calls -> CallRecords] /\ CallsSound'
    BY <1>1, CallsUnchanged
  <1>3. CASE destroyed
    <2>1. chain' = [chain EXCEPT ![c] = NoChain] /\ UNCHANGED attempt
      BY <1>3 DEF TimerFires
    <2> QED BY <1>1, <1>2, <1>3, <2>1, NoChainIs DEF AuthInv, AuthTypes, RoomToSchedule,
              ModesApart, StaysAwake
  <1>4. CASE ~destroyed
    <2>1. /\ Free(chain) # {} /\ chain' = [chain EXCEPT ![c].is = "running"]
          /\ attempt' = [attempt EXCEPT ![c] = Sending(Kind)]
      BY <1>4 DEF TimerFires
    <2>2. chain' \in [Chains -> ChainStates] /\ chain'[c].is = "running"
      BY <2>1 DEF AuthInv, AuthTypes, ChainStates
    <2>3. RoomToSchedule'
      BY <1>1, <2>1 DEF AuthInv, AuthTypes, RoomToSchedule, Free
    <2>4. AttemptsGoOn
      BY <2>1, KindIs, SendingIs, RefreshersAre, OneAttemptGoesOn DEF AuthInv
    <2>5. AuthTypes' /\ ModesApart'
      BY <1>1, <1>2, <2>2, <2>4 DEF AuthInv, AuthTypes, ModesApart, AttemptsGoOn
    <2> QED BY <1>2, <2>2, <2>3, <2>5 DEF AuthInv, StaysAwake
  <1> QED BY <1>3, <1>4

LEMMA DestroyKeeps ==
  ASSUME AuthInv, Destroy
  PROVE  AuthInv'
  <1>1. UNCHANGED <<mode, issued, expired, token, ready, failed, held, attempt, call>>
        /\ tracked' = NoTimer /\ destroyed' = TRUE
    BY DEF Destroy
  <1>2. chain' \in [Chains -> ChainStates]
    BY NoChainIs DEF AuthInv, AuthTypes, Destroy
  <1>3. call' \in [Calls -> CallRecords] /\ CallsSound'
    BY <1>1, CallsStaySound DEF AuthInv, AuthTypes
  <1> QED BY <1>1, <1>2, <1>3 DEF AuthInv, AuthTypes, RoomToSchedule, ModesApart, StaysAwake

-----------------------------------------------------------------------------
(* The agent's connection.                                                   *)

LEMMA LastReplaced ==
  ASSUME NEW cs \in Seq(ClientRecords), cs # <<>>, NEW k \in ClientRecords,
         NEW ds, ds = [cs EXCEPT ![Len(cs)] = k]
  PROVE  /\ Len(cs) \in Nat \ {0} /\ cs[Len(cs)] \in ClientRecords
         /\ ds \in Seq(ClientRecords) /\ ds # <<>> /\ Len(ds) = Len(cs) /\ ds[Len(cs)] = k
         /\ \A i \in 1..Len(cs) - 1 : ds[i] = cs[i]
  <1>1. Len(cs) \in Nat \ {0} /\ DOMAIN cs = 1..Len(cs) /\ cs[Len(cs)] \in ClientRecords
    OBVIOUS
  <1>2. ds \in Seq(ClientRecords) /\ Len(ds) = Len(cs) /\ ds[Len(cs)] = k
    BY <1>1
  <1>3. \A i \in 1..Len(cs) - 1 : i \in DOMAIN cs /\ i # Len(cs)
    <2>1. ASSUME NEW n \in Nat \ {0}
          PROVE  \A i \in 1..n - 1 : i \in 1..n /\ i # n
      OBVIOUS
    <2> QED BY <1>1, <2>1
  <1>4. \A i \in 1..Len(cs) - 1 : ds[i] = cs[i]
    BY <1>3
  <1> QED BY <1>1, <1>2, <1>4

\* The agent stays as it is while others act.
LEMMA AgentRests ==
  ASSUME AgentInv, UNCHANGED <<agent, mode>>, mode = "agent" => (Busy(Init_)' => Busy(Init_))
  PROVE  AgentInv'
  BY DEF AgentInv, AgentTypes, ConnectFirst, OneEar, Current, Last

LEMMA CurrentIs ==
  ASSUME AgentInv, mode = "agent"
  PROVE  /\ Current \in ClientRecords /\ Last \in Nat \ {0} /\ Current = agent.clients[Last]
         /\ agent.clients \in Seq(ClientRecords) /\ Last = Len(agent.clients)
         /\ agent.stopped \in BOOLEAN /\ agent.denied \in BOOLEAN /\ agent.banned \in BOOLEAN
         /\ agent.serving \in BOOLEAN
  <1>1. agent.clients \in Seq(ClientRecords) /\ agent.clients # <<>>
        /\ agent.stopped \in BOOLEAN /\ agent.denied \in BOOLEAN /\ agent.banned \in BOOLEAN
        /\ agent.serving \in BOOLEAN
    BY DEF AgentInv, AgentTypes, AgentRecords
  <1> QED BY <1>1 DEF Current, Last

\* Where the connect stands and what is on record changes, the clients do not.
LEMMA StageChanges ==
  ASSUME AgentInv, mode = "agent", UNCHANGED mode,
         NEW at \in {"connect sent", "waiting", "down", "exited"}, agent' = [agent EXCEPT !.at = at],
         at = "exited" \/ agent.at \in {"connecting", "connect sent", "waiting"},
         at = "waiting" => ~agent.stopped,
         Busy(Init_)' => at \in {"connect sent", "exited"}
  PROVE  AgentInv'
  <1>1. /\ agent' \in AgentRecords /\ agent'.at = at /\ agent'.clients = agent.clients
        /\ agent'.stopped = agent.stopped /\ agent'.denied = agent.denied
        /\ agent'.serving = agent.serving
    BY DEF AgentInv, AgentTypes, AgentRecords
  <1>2. AgentTypes'
    BY <1>1 DEF AgentInv, AgentTypes
  <1>3. ConnectFirst'
    BY <1>1 DEF AgentInv, ConnectFirst, Current, Last
  <1>4. OneEar'
    BY <1>1 DEF AgentInv, OneEar, Current, Last
  <1> QED BY <1>2, <1>3, <1>4 DEF AgentInv

LEMMA ConnectedKeepsAgent ==
  ASSUME AgentInv, AuthTypes, mode = "agent", agent.at # "exited", Connected
  PROVE  AgentInv'
  <1> DEFINE k == [Current EXCEPT !.token = Current.env, !.subscribed = TRUE]
  <1>1. agent.at = "connect sent" /\ UNCHANGED mode /\ ~Busy(Init_)'
    BY RefreshersAre, NoAttemptIs DEF AgentInv, ConnectFirst, Connected, Busy, Finish, AuthTypes
  <1>2. k \in ClientRecords /\ k.token = k.env /\ k.subscribed /\ k.listens = Current.listens
        /\ k.alive = Current.alive
    BY CurrentIs DEF ClientRecords
  <1>3. PICK ds : ds = [agent.clients EXCEPT ![Last] = k]
    OBVIOUS
  <1>4. /\ ds \in Seq(ClientRecords) /\ ds # <<>> /\ Len(ds) = Last /\ ds[Last] = k
        /\ \A i \in 1..Last - 1 : ds[i] = agent.clients[i]
    BY <1>2, <1>3, CurrentIs, LastReplaced
  <1>5. agent' = [agent EXCEPT !.at = "up", !.clients = ds, !.serving = ~agent.stopped]
    <2>1. [agent.clients EXCEPT ![Last] = [@ EXCEPT !.token = Current.env, !.subscribed = TRUE]] = ds
      BY <1>3, CurrentIs
    <2>2. [agent EXCEPT !.at = "up", !.clients = ds].stopped = agent.stopped
      BY DEF AgentInv, AgentTypes, AgentRecords
    <2>3. agent' = [[agent EXCEPT !.at = "up", !.clients = ds] EXCEPT !.serving = ~agent.stopped]
      BY <2>1, <2>2 DEF Connected, StartSessionProvider
    <2> QED BY <2>3 DEF AgentInv, AgentTypes, AgentRecords
  <1> HIDE DEF k
  <1>6. /\ agent' \in AgentRecords /\ agent'.at = "up" /\ agent'.clients = ds
        /\ agent'.stopped = agent.stopped /\ agent'.denied = agent.denied
        /\ agent'.serving = ~agent.stopped
    BY <1>4, <1>5, CurrentIs DEF AgentInv, AgentTypes, AgentRecords
  <1>7. AgentTypes'
    BY <1>4, <1>6 DEF AgentTypes
  <1>8. ConnectFirst'
    BY <1>1, <1>6 DEF ConnectFirst
  <1>9. OneEar'
    <2>1. Last' = Last /\ Current' = k
      BY <1>4, <1>6 DEF Last, Current
    <2>2. \A i \in 1..Last - 1 : ~ds[i].listens /\ ~ds[i].subscribed
      BY <1>4 DEF AgentInv, OneEar
    <2>3. k.listens = ~agent.stopped
      BY <1>2 DEF AgentInv, OneEar
    <2>4. ~agent.stopped => k.alive = TRUE /\ agent.denied = FALSE
      BY <1>1, <1>2, CurrentIs DEF AgentInv, ConnectFirst, ClientRecords
    <2> QED BY <1>1, <1>2, <1>6, <2>1, <2>2, <2>3, <2>4 DEF OneEar
  <1> QED BY <1>7, <1>8, <1>9 DEF AgentInv

LEMMA DeniedKeepsAgent ==
  ASSUME AgentInv, mode = "agent", agent.at # "exited", AccessDenied
  PROVE  AgentInv'
  <1> DEFINE k == [Current EXCEPT !.alive = FALSE]
  <1>1. UNCHANGED <<mode, attempt>> /\ agent.at = "up"
    BY DEF AgentInv, ConnectFirst, AccessDenied, Hears, vars
  <1>2. k \in ClientRecords /\ k.token = Current.token /\ k.env = Current.env
        /\ k.subscribed = Current.subscribed /\ k.listens = Current.listens /\ k.alive = FALSE
    BY CurrentIs DEF ClientRecords
  <1>3. PICK ds : ds = [agent.clients EXCEPT ![Last] = k]
    OBVIOUS
  <1>4. /\ ds \in Seq(ClientRecords) /\ ds # <<>> /\ Len(ds) = Last /\ ds[Last] = k
        /\ \A i \in 1..Last - 1 : ds[i] = agent.clients[i]
    BY <1>2, <1>3, CurrentIs, LastReplaced
  <1>5. agent' = [agent EXCEPT !.denied = TRUE, !.clients = ds]
    BY <1>3, CurrentIs DEF AccessDenied, AgentInv, AgentTypes, AgentRecords, ClientRecords
  <1> HIDE DEF k
  <1>6. /\ agent' \in AgentRecords /\ agent'.at = "up" /\ agent'.clients = ds
        /\ agent'.stopped = agent.stopped /\ agent'.denied = TRUE
        /\ agent'.serving = agent.serving
    BY <1>1, <1>4, <1>5, CurrentIs DEF AgentInv, AgentTypes, AgentRecords
  <1>7. AgentTypes'
    BY <1>4, <1>6 DEF AgentTypes
  <1>8. ConnectFirst'
    BY <1>1, <1>6 DEF ConnectFirst, AgentInv, Busy
  <1>9. OneEar'
    BY <1>1, <1>2, <1>4, <1>6, CurrentIs DEF AgentInv, OneEar, Current, Last
  <1> QED BY <1>7, <1>8, <1>9 DEF AgentInv

LEMMA DetachedIs ==
  ASSUME NEW c \in ClientRecords
  PROVE  /\ Detached(c) \in ClientRecords /\ Detached(c).listens = FALSE /\ Detached(c).subscribed = FALSE
  BY DEF Detached, ClientRecords

LEMMA StopKeepsAgent ==
  ASSUME AgentInv, mode = "agent", agent.at # "exited", Stop
  PROVE  AgentInv'
  <1> DEFINE k == Detached(Current)
             at == IF agent.at = "waiting" THEN "down" ELSE agent.at
  <1>1. UNCHANGED <<mode, attempt>> /\ ~agent.stopped
    BY DEF Stop, vars
  <1>2. k \in ClientRecords /\ k.listens = FALSE /\ k.subscribed = FALSE
    BY CurrentIs, DetachedIs
  <1>3. PICK ds : ds = [agent.clients EXCEPT ![Last] = k]
    OBVIOUS
  <1>4. /\ ds \in Seq(ClientRecords) /\ ds # <<>> /\ Len(ds) = Last /\ ds[Last] = k
        /\ \A i \in 1..Last - 1 : ds[i] = agent.clients[i]
    BY <1>2, <1>3, CurrentIs, LastReplaced
  <1>5. agent' = [agent EXCEPT !.stopped = TRUE, !.serving = FALSE, !.clients = ds, !.at = at]
    BY <1>3, CurrentIs DEF Stop, AgentInv, AgentTypes, AgentRecords
  <1>6. at \in {"none", "connecting", "connect sent", "waiting", "up", "down", "exited"}
    BY DEF AgentInv, AgentTypes, AgentRecords
  <1> HIDE DEF k
  <1>7. /\ agent' \in AgentRecords /\ agent'.at = at /\ agent'.clients = ds
        /\ agent'.stopped = TRUE /\ agent'.denied = agent.denied /\ agent'.serving = FALSE
    BY <1>4, <1>5, <1>6, CurrentIs DEF AgentInv, AgentTypes, AgentRecords
  <1>8. AgentTypes'
    BY <1>4, <1>7 DEF AgentTypes
  <1>9. ConnectFirst'
    BY <1>1, <1>2, <1>4, <1>7, CurrentIs DEF ConnectFirst, AgentInv, Busy, Current, Last
  <1>10. OneEar'
    <2>1. Last' = Last /\ Current' = k
      BY <1>4, <1>7 DEF Last, Current
    <2>2. \A i \in 1..Last - 1 : ~ds[i].listens /\ ~ds[i].subscribed
      BY <1>4 DEF AgentInv, OneEar
    <2>3. at # "waiting"
      OBVIOUS
    <2> QED BY <1>1, <1>2, <1>7, <2>1, <2>2, <2>3 DEF OneEar
  <1> QED BY <1>8, <1>9, <1>10 DEF AgentInv

LEMMA BanKeepsAgent ==
  ASSUME AgentInv, mode = "agent", Ban
  PROVE  AgentInv'
  <1>1. /\ UNCHANGED <<mode, attempt>> /\ agent' \in AgentRecords
        /\ agent'.at = agent.at /\ agent'.clients = agent.clients /\ agent'.stopped = agent.stopped
        /\ agent'.denied = agent.denied /\ agent'.serving = agent.serving
    BY DEF Ban, vars, AgentInv, AgentTypes, AgentRecords
  <1> QED BY <1>1 DEF AgentInv, AgentTypes, ConnectFirst, OneEar, Current, Last, Busy

\* A new client takes the listener over from the one before it.
LEMMA SwitchKeepsAgent ==
  ASSUME AgentInv, mode = "agent", NEW env \in Environments, NEW given \in BOOLEAN,
         agent.at # "exited", SwitchEnvironment(env, given)
  PROVE  AgentInv'
  <1>1. /\ UNCHANGED <<mode, attempt>> /\ agent.at = "up" /\ Hears
    BY DEF AgentInv, ConnectFirst, SwitchEnvironment, Hears, vars
  <1>2. CASE ~given
    BY <1>1, <1>2, AgentRests DEF SwitchEnvironment, Busy
  <1>3. CASE given
    <2> DEFINE k == Detached(Current)
               n == [Client(env, TRUE, env, TRUE) EXCEPT !.subscribed = TRUE]
    <2>1. k \in ClientRecords /\ k.listens = FALSE /\ k.subscribed = FALSE
      BY CurrentIs, DetachedIs
    <2>2. n \in ClientRecords /\ n.listens = TRUE /\ n.subscribed = TRUE /\ n.alive = TRUE
          /\ n.token = n.env
      BY DEF Client, ClientRecords
    <2>3. PICK ds : ds = [agent.clients EXCEPT ![Last] = k]
      OBVIOUS
    <2>4. /\ ds \in Seq(ClientRecords) /\ ds # <<>> /\ Len(ds) = Last /\ ds[Last] = k
          /\ \A i \in 1..Last - 1 : ds[i] = agent.clients[i]
      BY <2>1, <2>3, CurrentIs, LastReplaced
    <2>5. PICK es : es = Append(ds, n)
      OBVIOUS
    <2>6. agent' = [agent EXCEPT !.clients = es]
      <3>1. [agent.clients EXCEPT ![Last] = Detached(@)] = ds
        BY <2>3, CurrentIs
      <3>2. agent' = [agent EXCEPT !.clients = Append([agent.clients EXCEPT ![Last] = Detached(@)], n)]
        BY <1>3 DEF SwitchEnvironment
      <3> HIDE DEF k, n
      <3> QED BY <2>5, <3>1, <3>2
    <2> HIDE DEF k, n
    <2>7. /\ es \in Seq(ClientRecords) /\ es # <<>> /\ Len(es) = Last + 1 /\ es[Last + 1] = n
          /\ es[Last] = k /\ \A i \in 1..Last - 1 : es[i] = agent.clients[i]
      BY <2>2, <2>4, <2>5, CurrentIs
    <2>8. /\ agent' \in AgentRecords /\ agent'.at = "up" /\ agent'.clients = es
          /\ agent'.stopped = agent.stopped /\ agent'.denied = agent.denied
          /\ agent'.serving = agent.serving
      BY <1>1, <2>6, <2>7 DEF AgentInv, AgentTypes, AgentRecords
    <2>9. AgentTypes'
      BY <2>7, <2>8 DEF AgentTypes
    <2>10. ConnectFirst'
      BY <1>1, <2>8 DEF ConnectFirst, AgentInv, Busy
    <2>11. ~agent.stopped /\ ~agent.denied
      BY <1>1, CurrentIs DEF AgentInv, OneEar, Hears
    <2>12. OneEar'
      <3>1. \A i \in 1..Last : ~es[i].listens /\ ~es[i].subscribed
        <4> TAKE i \in 1..Last
        <4>1. CASE i = Last
          BY <2>1, <2>7, <4>1
        <4>2. CASE i # Last
          <5>1. i \in 1..Last - 1
            BY <4>2, CurrentIs
          <5> QED BY <2>7, <5>1 DEF AgentInv, OneEar
        <4> QED BY <4>1, <4>2
      <3>2. Last' = Last + 1 /\ Current' = n
        BY <2>7, <2>8 DEF Last, Current
      <3>3. Last' - 1 = Last
        BY <3>2, CurrentIs
      <3> QED BY <2>2, <2>8, <2>11, <3>1, <3>2, <3>3 DEF OneEar
    <2> QED BY <2>9, <2>10, <2>12 DEF AgentInv
  <1> QED BY <1>2, <1>3

-----------------------------------------------------------------------------
(* Every step keeps both invariants.                                         *)

\* An attempt of an agent is over: nothing is recorded and nothing scheduled.
LEMMA AttemptOver ==
  ASSUME AuthInv, mode = "agent", NEW r \in Refreshers, Finish(r),
         UNCHANGED <<mode, issued, ready, destroyed, failed, chain, tracked>>,
         token' \in Nat, held' \in BOOLEAN, call' \in [Calls -> CallRecords], CallsSound'
  PROVE  AuthInv' /\ (~Busy(Init_) => ~Busy(Init_)') /\ ~Busy(r)'
  <1>1. attempt' = [attempt EXCEPT ![r] = NoAttempt] /\ attempt' \in [Refreshers -> Attempts]
    BY NoAttemptIs DEF Finish, AuthInv, AuthTypes
  <1>2. AuthTypes'
    BY <1>1 DEF AuthInv, AuthTypes
  <1>3. RoomToSchedule' /\ ModesApart' /\ StaysAwake'
    BY <1>1 DEF AuthInv, RoomToSchedule, Free, ModesApart, StaysAwake
  <1>4. (~Busy(Init_) => ~Busy(Init_)') /\ ~Busy(r)'
    BY <1>1, NoAttemptIs, RefreshersAre DEF Busy, AuthInv, AuthTypes
  <1> QED BY <1>2, <1>3, <1>4 DEF AuthInv

LEMMA AgentSettlesKeeps ==
  ASSUME AuthInv, mode = "agent", NEW r \in {Init_, Reactive},
         \/ r = Init_ /\ (Connected \/ ConnectFails)
         \/ r = Reactive /\ (Refreshed \/ RefreshFails)
  PROVE  AuthInv' /\ (~Busy(Init_) => ~Busy(Init_)') /\ ~Busy(r)'
  <1>1. /\ Finish(r) /\ UNCHANGED <<mode, issued, ready, destroyed, failed, chain, tracked>>
        /\ token' = token \/ token' = attempt[r].got
        /\ held' = held \/ held' = (held \/ attempt[r].is = "limited")
    BY DEF Connected, ConnectFails, Refreshed, RefreshFails
  <1>2. token' \in Nat /\ held' \in BOOLEAN /\ attempt[r].got \in Nat
    BY <1>1, RefreshersAre DEF AuthInv, AuthTypes, Attempts
  <1>3. call' \in [Calls -> CallRecords] /\ CallsSound'
    <2>1. CASE UNCHANGED call
      BY <1>1, <2>1, CallsUnchanged
    <2>2. CASE ReactiveSettles(TRUE, attempt[r].got) \/ ReactiveSettles(FALSE, 0)
      BY <1>1, <1>2, <2>2, ReactiveSettlesSoundly DEF AuthInv
    <2> QED BY <2>1, <2>2 DEF Connected, ConnectFails, Refreshed, RefreshFails
  <1> QED BY <1>1, <1>2, <1>3, RefreshersAre, AttemptOver

LEMMA FatalKeeps ==
  ASSUME AuthInv, mode = "agent", NEW r \in Refreshers, Fatal(r)
  PROVE  AuthInv' /\ (~Busy(Init_) => ~Busy(Init_)') /\ ~Busy(r)'
  <1>1. Finish(r) /\ UNCHANGED <<mode, issued, token, ready, destroyed, failed, held, chain, tracked>>
    BY DEF Fatal
  <1>2. token' \in Nat /\ held' \in BOOLEAN
    BY <1>1 DEF AuthInv, AuthTypes
  <1>3. call' \in [Calls -> CallRecords] /\ CallsSound'
    <2>1. CASE UNCHANGED call
      BY <1>1, <2>1, CallsUnchanged
    <2>2. CASE ReactiveSettles(FALSE, 0)
      BY <1>1, <2>2, ReactiveSettlesSoundly DEF AuthInv
    <2> QED BY <2>1, <2>2 DEF Fatal
  <1> QED BY <1>1, <1>2, <1>3, AttemptOver

\* A refresher's attempt goes on, or is over, without the agent taking notice.
LEMMA InitIsNotMade ==
  ASSUME AuthInv, mode = "agent", Starts
  PROVE  Busy(Init_)' => Busy(Init_)
  BY RefreshersAre DEF AuthInv, AuthTypes, Starts, Busy

Inv == AuthInv /\ AgentInv

\* What a consumer does leaves what is true of an agent alone.
LEMMA ConsumersKeepAgent ==
  ASSUME AgentInv, UNCHANGED <<mode, agent>>, mode # "agent"
  PROVE  AgentInv'
  BY DEF AgentInv, AgentTypes, ConnectFirst, OneEar

LEMMA AnswerKeeps ==
  ASSUME Inv, NEW r \in Refreshers, Answer(r)
  PROVE  Inv'
  <1> USE DEF Inv
  <1>1. CASE ServerAnswers(r) /\ UNCHANGED agent
    <2>1. AuthInv' /\ UNCHANGED mode
      BY <1>1, AnswersKeep DEF ServerAnswers
    <2>2. Busy(Init_)' => Busy(Init_)
      BY <1>1, AnswersAre, RefreshersAre DEF AuthInv, AuthTypes, Busy, ServerAnswers
    <2> QED BY <1>1, <2>1, <2>2, AgentRests
  <1>2. CASE ServerRefuses(r)
    <2> DEFINE a == [NoAttempt EXCEPT !.is = "fatal"]
    <2>1. a \in Attempts /\ a.is = "fatal"
      BY DEF NoAttempt, Attempts
    <2>2. /\ attempt' = [attempt EXCEPT ![r] = a] /\ attempt[r].is = "sent"
          /\ UNCHANGED <<mode, issued, expired, token, ready, destroyed, failed, held, chain, tracked,
                         call, agent>>
      BY <1>2 DEF ServerRefuses
    <2> HIDE DEF a
    <2>3. AttemptsGoOn /\ token \in Nat /\ issued \in Nat
      BY <2>1, <2>2, OneAttemptGoesOn DEF AuthInv, AuthTypes
    <2>4. AuthInv'
      BY <2>2, <2>3, CallsUnchanged, OnlyAttempts
    <2>5. Busy(Init_)' => Busy(Init_)
      BY <2>1, <2>2, RefreshersAre DEF AuthInv, AuthTypes, Busy
    <2> QED BY <2>2, <2>4, <2>5, AgentRests
  <1> QED BY <1>1, <1>2 DEF Answer

LEMMA OutcomeKeeps ==
  ASSUME Inv, NEW r \in Refreshers, Outcome(r)
  PROVE  Inv'
  <1> USE DEF Inv
  <1>1. CASE Consuming /\ Settles(r)
    <2>1. AuthInv'
      BY <1>1, LogsInAgainKeeps, SucceedsKeeps, SharedFailsKeeps, ProactiveFailsKeeps
         DEF Settles, Consuming
    <2>2. UNCHANGED <<mode, agent>> /\ mode # "agent"
      BY <1>1 DEF Consuming, Settles, LogsInAgain, Succeeds, SharedFails, ProactiveFails
    <2> QED BY <2>1, <2>2, ConsumersKeepAgent
  <1>2. CASE Providing /\ AgentSettles(r)
    <2>1. mode = "agent" /\ agent.at # "exited"
      BY <1>2 DEF Providing, Running
    <2>2. CASE LogsInAgain(r) /\ UNCHANGED agent
      <3>1. AuthInv' /\ UNCHANGED mode
        BY <2>2, LogsInAgainKeeps DEF LogsInAgain
      <3>2. Busy(Init_)' => Busy(Init_)
        BY <2>2, RefreshersAre DEF LogsInAgain, AuthInv, AuthTypes, Busy
      <3> QED BY <2>2, <3>1, <3>2, AgentRests
    <2>3. CASE r = Init_ /\ Connected
      <3>1. AuthInv'
        <4>1. r \in {Init_, Reactive} /\ r = Init_ /\ (Connected \/ ConnectFails)
          BY <2>3
        <4> QED BY <2>1, <4>1, AgentSettlesKeeps
      <3> QED BY <2>1, <2>3, <3>1, ConnectedKeepsAgent DEF AuthInv
    <2>4. CASE r = Init_ /\ ConnectFails
      <3>1. AuthInv' /\ ~Busy(Init_)'
        <4>1. r \in {Init_, Reactive} /\ r = Init_ /\ (Connected \/ ConnectFails)
          BY <2>4
        <4>2. AuthInv' /\ ~Busy(r)'
          BY <2>1, <4>1, AgentSettlesKeeps
        <4> QED BY <4>1, <4>2 DEF Busy
      <3>2. PICK at \in {"waiting", "down"} :
              agent' = [agent EXCEPT !.at = at] /\ (at = "waiting" => ~agent.stopped)
        BY <2>4 DEF ConnectFails
      <3>3. agent.at = "connect sent" /\ UNCHANGED mode
        BY <2>1, <2>4 DEF ConnectFails, AgentInv, ConnectFirst, Busy
      <3> QED BY <2>1, <3>1, <3>2, <3>3, StageChanges
    <2>5. CASE r = Reactive /\ (Refreshed \/ RefreshFails)
      <3>1. AuthInv' /\ (~Busy(Init_) => ~Busy(Init_)')
        BY <2>1, <2>5, AgentSettlesKeeps
      <3>2. UNCHANGED <<agent, mode>>
        BY <2>5 DEF Refreshed, RefreshFails
      <3> QED BY <3>1, <3>2, AgentRests
    <2>6. CASE Fatal(r)
      <3>1. AuthInv' /\ (~Busy(Init_) => ~Busy(Init_)')
        BY <2>1, <2>6, FatalKeeps
      <3>2. UNCHANGED mode /\ (agent' = [agent EXCEPT !.at = "exited"] \/ UNCHANGED agent)
        BY <2>6 DEF Fatal
      <3>3. CASE agent' = [agent EXCEPT !.at = "exited"]
        BY <2>1, <3>1, <3>2, <3>3, StageChanges
      <3> QED BY <3>1, <3>2, <3>3, AgentRests
    <2> QED BY <1>2, <2>2, <2>3, <2>4, <2>5, <2>6 DEF AgentSettles
  <1> QED BY <1>1, <1>2 DEF Outcome

LEMMA CallsKeepBoth ==
  ASSUME Inv, NEW c \in Calls, Step(c) \/ (CallStarts(c) /\ UNCHANGED agent)
  PROVE  Inv'
  <1> USE DEF Inv
  <1>1. (CallStarts(c) \/ CallSteps(c)) /\ UNCHANGED agent
    BY DEF Step
  <1>2. AuthInv'
    BY <1>1, CallsKeep
  <1>3. UNCHANGED <<mode, destroyed>>
    BY <1>1 DEF CallSteps, CallStarts, CallPasses, CallAnswered
  <1>4. Starts
    <2>1. AuthTypes /\ CallsSound
      BY DEF AuthInv
    <2>2. CASE CallStarts(c)
      BY <2>1, <2>2, CallStartsIs
    <2>3. CASE CallPasses(c)
      BY <1>3, <2>1, <2>3, PassesIs DEF CallPasses, Endings
    <2>4. CASE CallAnswered(c)
      BY <2>1, <2>4, CallAnsweredIs
    <2> QED BY <1>1, <2>2, <2>3, <2>4 DEF CallSteps
  <1> QED BY <1>1, <1>2, <1>3, <1>4, InitIsNotMade, AgentRests

LEMMA ConnectKeeps ==
  ASSUME Inv, mode = "agent", ConnectAgent
  PROVE  Inv'
  <1> USE DEF Inv
  <1>1. /\ attempt' = [attempt EXCEPT ![Init_] = Sending("login")]
        /\ agent' = [agent EXCEPT !.at = "connect sent"] /\ agent.at \in {"connecting", "waiting"}
        /\ UNCHANGED <<mode, issued, expired, token, ready, destroyed, failed, held, chain, tracked,
                       call>>
    BY DEF ConnectAgent
  <1>2. AttemptsGoOn /\ token \in Nat /\ issued \in Nat
    BY <1>1, RefreshersAre, SendingIs, OneAttemptGoesOn DEF AuthInv, AuthTypes
  <1>3. AuthInv'
    BY <1>1, <1>2, CallsUnchanged, OnlyAttempts
  <1> QED BY <1>1, <1>3, StageChanges

LEMMA AuthUnchanged == AuthInv /\ UNCHANGED vars => AuthInv'
  <1> SUFFICES ASSUME AuthInv, UNCHANGED vars
               PROVE  AuthInv'
    OBVIOUS
  <1>1. UNCHANGED <<mode, issued, expired, token, ready, destroyed, failed, held, attempt, chain,
                    tracked, call>>
    BY DEF vars
  <1>2. AttemptsGoOn /\ issued \in Nat /\ token \in Nat
    BY <1>1 DEF AuthInv, AuthTypes, ModesApart, AttemptsGoOn, Busy
  <1> QED BY <1>1, <1>2, CallsUnchanged, OnlyAttempts

LEMMA NextKeeps == Inv /\ [Next]_all => Inv'
  <1> SUFFICES ASSUME Inv, [Next]_all
               PROVE  Inv'
    OBVIOUS
  <1> USE DEF Inv
  <1>1. CASE \E r \in Refreshers : Answer(r) \/ Outcome(r)
    BY <1>1, AnswerKeeps, OutcomeKeeps
  <1>2. CASE \E c \in Calls : Step(c) \/ (Running /\ CallStarts(c) /\ UNCHANGED agent)
    BY <1>2, CallsKeepBoth
  <1>3. CASE Consuming /\ (Destroy \/ \E c \in Chains : TimerFires(c))
    <2>1. AuthInv' /\ UNCHANGED <<mode, agent>> /\ mode # "agent"
      BY <1>3, DestroyKeeps, TimerFiresKeeps DEF Consuming, Destroy, TimerFires
    <2> QED BY <2>1, ConsumersKeepAgent
  <1>4. CASE (HoldEnds \/ TokensExpire) /\ UNCHANGED agent
    <2>1. AuthInv' /\ UNCHANGED <<mode, agent, attempt>>
      BY <1>4, HoldEndsKeeps DEF HoldEnds, TokensExpire
    <2> QED BY <2>1, AgentRests DEF Busy
  <1>5. CASE Providing /\ ConnectAgent
    BY <1>5, ConnectKeeps DEF Providing
  <1>6. CASE Providing /\ (AccessDenied \/ Stop \/ Ban)
    <2>1. AuthInv'
      BY <1>6, AuthUnchanged DEF AccessDenied, Stop, Ban
    <2> QED BY <1>6, <2>1, DeniedKeepsAgent, StopKeepsAgent, BanKeepsAgent DEF Providing, Running
  <1>7. CASE Providing /\ \E env \in Environments, given \in BOOLEAN : SwitchEnvironment(env, given)
    <2>1. AuthInv'
      BY <1>7, AuthUnchanged DEF SwitchEnvironment
    <2> QED BY <1>7, <2>1, SwitchKeepsAgent DEF Providing, Running
  <1>8. CASE UNCHANGED all
    <2>1. AuthInv' /\ UNCHANGED <<agent, mode, attempt>>
      BY <1>8, AuthUnchanged DEF all, vars
    <2> QED BY <2>1, AgentRests DEF Busy
  <1> QED BY <1>1, <1>2, <1>3, <1>4, <1>5, <1>6, <1>7, <1>8 DEF Next

LEMMA InitInv == Init => Inv
  <1> SUFFICES ASSUME Init
               PROVE  Inv
    OBVIOUS
  <1>1. AuthInit
    BY DEF Init
  <1>2. \A c \in Calls : LET op == Operations[mode][c] IN
          op \in Todos /\ op # <<>> /\ OneSubmit(op)
    <2>1. ASSUME NEW c \in Calls
          PROVE  LET op == Operations[mode][c] IN op \in Todos /\ op # <<>> /\ OneSubmit(op)
      <3> DEFINE op == Operations[mode][c]
      <3>1. /\ op \in Seq(Requests) \ {<<>>}
            /\ \A i, j \in DOMAIN op : op[i].is = "submit" /\ op[j].is = "submit" => i = j
        BY <1>1, OperationsAssumption DEF AuthInit
      <3> HIDE DEF op
      <3>2. op \in Todos
        BY <3>1, MoreThanIn DEF Todos
      <3> QED BY <3>1, <3>2 DEF OneSubmit, op
    <2> QED BY <2>1
  <1>3. call \in [Calls -> CallRecords] /\ \A c \in Calls : call[c].at = "idle" /\ CallSound(call[c])
    <2>1. ASSUME NEW c \in Calls
          PROVE  call[c] \in CallRecords /\ call[c].at = "idle" /\ CallSound(call[c])
      <3> DEFINE op == Operations[mode][c]
      <3>1. op \in Todos /\ op # <<>> /\ OneSubmit(op)
        BY <1>2
      <3>2. call[c] = [at |-> "idle", with |-> 0, todo |-> op, made |-> 0, lost |-> FALSE]
        BY <1>1 DEF AuthInit
      <3> HIDE DEF op
      <3>3. /\ call[c].at = "idle" /\ call[c].todo = op /\ call[c].made = 0 /\ call[c].lost = FALSE
            /\ call[c] \in CallRecords
        BY <3>1, <3>2 DEF CallRecords
      <3> QED BY <3>1, <3>3 DEF CallSound, MadeAtMost
    <2> QED BY <1>1, <2>1 DEF AuthInit
  <1>4. AuthTypes
    BY <1>1, <1>3, NoAttemptIs, NoChainIs DEF AuthInit, AuthTypes
  <1>5. RoomToSchedule /\ ModesApart /\ StaysAwake
    BY <1>1, NoAttemptIs, NoChainIs, ChainsAssumption
       DEF AuthInit, RoomToSchedule, Free, ModesApart, StaysAwake
  <1>6. AuthInv
    BY <1>3, <1>4, <1>5 DEF AuthInv, CallsSound
  <1>7. AgentInv
    <2>1. ~Busy(Init_)
      BY <1>1, RefreshersAre, NoAttemptIs DEF AuthInit, Busy
    <2>2. NoAgent \in AgentRecords
      BY DEF NoAgent, AgentRecords
    <2>3. CASE mode = "agent"
      <3>1. PICK env \in Environments, owned \in BOOLEAN :
              agent = [NoAgent EXCEPT !.at = "connecting",
                                      !.clients = <<Client(env, TRUE, "none", owned)>>]
        BY <2>3 DEF Init
      <3> DEFINE k == Client(env, TRUE, "none", owned)
      <3>2. k \in ClientRecords /\ k.listens = TRUE /\ k.subscribed = FALSE /\ k.alive = TRUE
        BY DEF Client, ClientRecords
      <3>3. agent = [NoAgent EXCEPT !.at = "connecting", !.clients = <<k>>]
        BY <3>1
      <3> HIDE DEF k
      <3>4. /\ agent \in AgentRecords /\ agent.at = "connecting" /\ agent.clients = <<k>>
            /\ agent.stopped = FALSE /\ agent.denied = FALSE
        <4>1. <<k>> \in Seq(ClientRecords)
          BY <3>2
        <4>2. ASSUME NEW cs \in Seq(ClientRecords), NEW a,
                     a = [NoAgent EXCEPT !.at = "connecting", !.clients = cs]
              PROVE  /\ a \in AgentRecords /\ a.at = "connecting" /\ a.clients = cs
                     /\ a.stopped = FALSE /\ a.denied = FALSE
          BY <4>2 DEF NoAgent, AgentRecords
        <4> QED BY <3>3, <4>1, <4>2
      <3>5. Last = 1 /\ Current = k /\ agent.clients # <<>>
        BY <3>4 DEF Last, Current
      <3>6. AgentTypes /\ ConnectFirst
        BY <2>1, <3>2, <3>4, <3>5 DEF AgentTypes, ConnectFirst
      <3>7. \A i \in 1..Last - 1 : ~agent.clients[i].listens /\ ~agent.clients[i].subscribed
        BY <3>5
      <3>8. OneEar
        BY <3>2, <3>4, <3>5, <3>7 DEF OneEar
      <3> QED BY <3>6, <3>8 DEF AgentInv
    <2>4. CASE mode # "agent"
      <3>1. agent = NoAgent
        BY <2>4 DEF Init
      <3> QED BY <2>2, <2>4, <3>1 DEF AgentInv, AgentTypes, ConnectFirst, OneEar
    <2> QED BY <2>3, <2>4
  <1> QED BY <1>6, <1>7 DEF Inv

\* The invariant of the connection and of the credentials.
THEOREM InvHolds == FairSpec => []Inv
  <1>1. Init => Inv
    BY InitInv
  <1>2. Inv /\ [Next]_all => Inv'
    BY NextKeeps
  <1> QED BY <1>1, <1>2, PTL DEF FairSpec

\* (StaysAwake) However its refreshes overlap, an instance that got its first token has
\* a refresh scheduled or under way, or an error on record.
THEOREM NeverAsleep == FairSpec => []StaysAwake
  <1>1. Inv => StaysAwake
    BY DEF Inv, AuthInv
  <1> QED BY <1>1, InvHolds, PTL

\* (CallersAreToldTheTruth) What a call tells its caller, for operations of any length.
THEOREM TruthIsTold == FairSpec => []CallersAreToldTheTruth
  <1>1. Inv => CallersAreToldTheTruth
    <2> SUFFICES ASSUME Inv, NEW c \in Calls
                 PROVE  /\ call[c].at = "null" => destroyed \/ Is(c, "card again")
                        /\ call[c].made <= IF call[c].lost THEN 2 ELSE 1
      BY DEF CallersAreToldTheTruth
    <2>1. call[c] \in CallRecords /\ CallSound(call[c])
      BY DEF Inv, AuthInv, AuthTypes, CallsSound
    <2>2. call[c].made \in Nat /\ call[c].lost \in BOOLEAN
          /\ call[c].made <= MadeAtMost(call[c].lost, Submits(call[c].todo))
      BY <2>1 DEF CallSound, CallRecords
    <2>3. call[c].at = "null" => destroyed \/ Is(c, "card again")
      BY DEF Inv, AuthInv, CallsSound
    <2>4. call[c].made <= IF call[c].lost THEN 2 ELSE 1
      BY <2>2 DEF MadeAtMost
    <2> QED BY <2>3, <2>4
  <1> QED BY <1>1, InvHolds, PTL

\* (OneEar) The agent hears the control channel through one client, however often the
\* backend switches its environment.
THEOREM HearsThroughOne == FairSpec => []OneEar
  <1>1. Inv => OneEar
    BY DEF Inv, AgentInv
  <1> QED BY <1>1, InvHolds, PTL

-----------------------------------------------------------------------------
(* What no step sends.                                                       *)

HeldBack ==
  /\ held => \A r \in Refreshers : attempt'[r].is = "sent" =>
       attempt[r].is = "sent" /\ attempt'[r].kind = attempt[r].kind
  /\ destroyed => \A r \in Refreshers \ {Init_} : ~Busy(r) => attempt'[r].is = "none"

LEMMA RestsHeldBack == UNCHANGED attempt => HeldBack
  BY DEF HeldBack, Busy

\* An attempt that begins looks at the hold, and at whether the credentials are destroyed.
LEMMA BeginsHeldBack ==
  ASSUME AuthInv, NEW r \in Refreshers, NEW kind \in {"refresh", "login"},
         attempt' = [attempt EXCEPT ![r] = Sending(kind)],
         destroyed => r = Init_ \/ Busy(r)
  PROVE  HeldBack
  <1>1. held => Sending(kind).is = "held"
    BY SendingIs DEF AuthInv, ModesApart
  <1> QED BY <1>1, SendingIs DEF HeldBack, AuthInv, AuthTypes, Busy

LEMMA EndsHeldBack ==
  ASSUME AuthInv, NEW r \in Refreshers, NEW a, attempt' = [attempt EXCEPT ![r] = a],
         a.is # "sent", ~Busy(r) => a.is = "none"
  PROVE  HeldBack
  BY DEF HeldBack, AuthInv, AuthTypes, Busy

LEMMA CallHeldBack ==
  ASSUME AuthInv, NEW c \in Calls, CallStarts(c) \/ CallSteps(c)
  PROVE  HeldBack
  <1>1. AuthTypes /\ CallsSound
    BY DEF AuthInv
  <1>2. Starts
    <2>2. CASE CallStarts(c)
      BY <1>1, <2>2, CallStartsIs
    <2>3. CASE CallPasses(c)
      BY <1>1, <2>3, PassesIs DEF CallPasses, Endings
    <2>4. CASE CallAnswered(c)
      BY <1>1, <2>4, CallAnsweredIs
    <2> QED BY <2>2, <2>3, <2>4 DEF CallSteps
  <1>3. ASSUME NEW r \in {Init_, Reactive}, NEW kind \in {"refresh", "login"},
               r = Reactive => ~destroyed, attempt' = [attempt EXCEPT ![r] = Sending(kind)]
        PROVE  HeldBack
    BY <1>3, RefreshersAre, BeginsHeldBack
  <1> QED BY <1>2, <1>3, RestsHeldBack DEF Starts

LEMMA StepHeldBack ==
  ASSUME Inv, Next
  PROVE  HeldBack
  <1> USE DEF Inv
  <1>1. ASSUME NEW r \in Refreshers, Answer(r)
        PROVE  HeldBack
    <2>1. CASE ServerAnswers(r)
      <3>1. attempt[r].is = "sent"
        BY <2>1 DEF ServerAnswers
      <3> QED BY <2>1, <3>1, AnswersAre, EndsHeldBack DEF Busy
    <2>2. CASE ServerRefuses(r)
      <3> DEFINE a == [NoAttempt EXCEPT !.is = "fatal"]
      <3>1. a.is = "fatal"
        BY DEF NoAttempt
      <3>2. attempt' = [attempt EXCEPT ![r] = a] /\ attempt[r].is = "sent"
        BY <2>2 DEF ServerRefuses
      <3> HIDE DEF a
      <3> QED BY <3>1, <3>2, EndsHeldBack DEF Busy
    <2> QED BY <1>1, <2>1, <2>2 DEF Answer
  <1>2. ASSUME NEW r \in Refreshers, Outcome(r)
        PROVE  HeldBack
    <2>1. CASE LogsInAgain(r)
      <3>1. attempt' = [attempt EXCEPT ![r] = Sending("login")] /\ Busy(r)
        BY <2>1 DEF LogsInAgain, Busy
      <3> QED BY <3>1, BeginsHeldBack
    <2>2. CASE Finish(r)
      BY <2>2, NoAttemptIs, EndsHeldBack DEF Finish
    <2> QED BY <1>2, <2>1, <2>2 DEF Outcome, Settles, Succeeds, SharedFails, ProactiveFails,
              AgentSettles, Connected, ConnectFails, Refreshed, RefreshFails, Fatal
  <1>3. ASSUME NEW c \in Calls, Step(c) \/ CallStarts(c)
        PROVE  HeldBack
    BY <1>3, CallHeldBack DEF Step
  <1>4. ASSUME NEW c \in Chains, TimerFires(c)
        PROVE  HeldBack
    <2>1. UNCHANGED attempt \/ (~destroyed /\ attempt' = [attempt EXCEPT ![c] = Sending(Kind)])
      BY <1>4 DEF TimerFires
    <2> QED BY <2>1, KindIs, RefreshersAre, RestsHeldBack, BeginsHeldBack
  <1>5. CASE ConnectAgent
    BY <1>5, RefreshersAre, BeginsHeldBack DEF ConnectAgent
  <1>6. CASE Destroy \/ HoldEnds \/ TokensExpire \/ AccessDenied \/ Stop \/ Ban
             \/ \E env \in Environments, given \in BOOLEAN : SwitchEnvironment(env, given)
    BY <1>6, RestsHeldBack
       DEF Destroy, HoldEnds, TokensExpire, AccessDenied, Stop, Ban, SwitchEnvironment, vars
  <1> QED BY <1>1, <1>2, <1>3, <1>4, <1>5, <1>6 DEF Next

\* (RequestsHeldBack) A hold in force keeps every refresher from sending, and no refresh
\* starts once the credentials are destroyed.
THEOREM NothingIsSentMeanwhile == FairSpec => RequestsHeldBack
  <1>1. Inv /\ [Next]_all => [HeldBack]_vars
    BY StepHeldBack DEF all
  <1>2. RequestsHeldBack <=> [][HeldBack]_vars
    BY DEF RequestsHeldBack, HeldBack
  <1> QED BY <1>1, <1>2, InvHolds, PTL DEF FairSpec
=============================================================================
