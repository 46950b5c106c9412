-------------------------- MODULE MCChannelRequests --------------------------
(* Two channels of one connection, interchangeable.                          *)
EXTENDS ChannelRequests, TLC

CONSTANTS c1, c2, v1, v2

Interchangeable == Permutations(Channels) \cup Permutations(Values)
==============================================================================
