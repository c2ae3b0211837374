------------------------- MODULE MCConsumerReceiver -------------------------
(* TLC instances of ConsumerReceiver: providers' logs that bring the        *)
(* recovery paths into play.                                                *)
EXTENDS ConsumerReceiver

CONSTANTS e1, e2

Ready == [kind |-> "ready", x |-> "none", st |-> "none"]
Inline(x) == [kind |-> "inline", x |-> x, st |-> "none"]
File(x) == [kind |-> "file", x |-> x, st |-> "none"]
Done(x) == [kind |-> "outcome", x |-> x, st |-> "completed"]
Closed == [kind |-> "closed", x |-> "none", st |-> "none"]
Failed == [kind |-> "failed", x |-> "none", st |-> "none"]

OneExchange == {e1}
TwoExchanges == {e1, e2}

\* A session that closes behind an exchange with its file and its outcome, and one
\* that fails behind an inline artifact, which no record names.
EndingLogs == {<<File(e1), Done(e1), Closed>>, <<Ready, Inline(e1), Failed>>}

\* Two exchanges: one settles by its message; the other's outcome is recorded
\* and never published, so it may have to wait for the inline artifact.
PairLogs == {<<Done(e2), Inline(e1)>>}
=============================================================================
