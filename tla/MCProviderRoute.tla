---------------------------- MODULE MCProviderRoute ----------------------------
(* TLC instance of ProviderRoute.                                            *)
EXTENDS ProviderRoute
=============================================================================
