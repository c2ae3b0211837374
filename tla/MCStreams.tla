------------------------------ MODULE MCStreams ------------------------------
(* TLC instances of Streams.                                                 *)
EXTENDS Streams

\* Chunks of both kinds, the binary one first in a bundle or behind another.
MixedInput == <<"text", "binary", "text">>

\* A byte stream that ends with its marker, and an event stream without one.
BothFormats == {<<"bytes", "dedicated">>, <<"events", "shared">>}
=============================================================================
