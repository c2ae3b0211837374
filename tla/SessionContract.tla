--------------------------- MODULE SessionContract ---------------------------
(***************************************************************************)
(* What a session promises of its exchanges, whatever the channel loses,   *)
(* repeats or reorders: an exchange sent settles exactly once, and when    *)
(* the session has ended none is left waiting.                             *)
(***************************************************************************)
CONSTANT Exchanges

VARIABLES
    ended,      \* the session has reached its terminal state
    status      \* of each exchange

vars == <<ended, status>>

Statuses == {"unsent", "pending", "settled"}

Pending == {x \in Exchanges : status[x] = "pending"}

Init ==
    /\ ended = FALSE
    /\ status = [x \in Exchanges |-> "unsent"]

\* A new exchange, only while the session lasts.
Send(x) ==
    /\ ~ended
    /\ status[x] = "unsent"
    /\ status' = [status EXCEPT ![x] = "pending"]
    /\ UNCHANGED ended

\* Outcomes become known, of several exchanges at once after a recovery.
Settle(S) ==
    /\ S # {} /\ S \subseteq Pending
    /\ status' = [x \in Exchanges |-> IF x \in S THEN "settled" ELSE status[x]]
    /\ UNCHANGED ended

\* The session ends and settles every exchange still pending.
End ==
    /\ ~ended
    /\ ended' = TRUE
    /\ status' = [x \in Exchanges |-> IF status[x] = "pending" THEN "settled" ELSE status[x]]

Next ==
    \/ \E x \in Exchanges : Send(x)
    \/ \E S \in SUBSET Exchanges : Settle(S)
    \/ End

Spec == Init /\ [][Next]_vars

=============================================================================
