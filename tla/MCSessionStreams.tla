--------------------------- MODULE MCSessionStreams ---------------------------
(* A session with its input and one output stream: stdout and stderr are     *)
(* copied by the same function, each to a stream of its own.  Two chunks are *)
(* what it takes for a recording to fall behind by more than the chunk in a  *)
(* copier's hand.                                                            *)
EXTENDS SessionStreams

MCOutputs == {"stdout"}
MCChunks == [s \in Streams |-> 2]
BothOutputs == {"stdout", "stderr"}
OneChunk == [s \in Streams |-> 1]
==============================================================================
