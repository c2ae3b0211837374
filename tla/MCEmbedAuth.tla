---------------------------- MODULE MCEmbedAuth ----------------------------
EXTENDS EmbedAuth, TLC
=============================================================================
