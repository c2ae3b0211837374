-------------------------- MODULE MCProviderSession --------------------------
(* The TLC instance of ProviderSession.                                      *)
EXTENDS ProviderSession

CONSTANTS e1, e2, e3
=============================================================================
