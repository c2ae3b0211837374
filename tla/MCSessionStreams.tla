--------------------------- MODULE MCSessionStreams ---------------------------
(* TLC instance of SessionStreams.                                           *)
EXTENDS SessionStreams
=============================================================================
