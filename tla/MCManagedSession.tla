--------------------------- MODULE MCManagedSession ---------------------------
(* TLC instance of ManagedSession.                                           *)
EXTENDS ManagedSession
=============================================================================
