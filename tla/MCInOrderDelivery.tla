------------------------- MODULE MCInOrderDelivery --------------------------
(* TLC instance of InOrderDelivery: one sender, a handful of messages that  *)
(* arrive in any order, any number of times, live or from history.          *)
EXTENDS InOrderDelivery

=============================================================================
