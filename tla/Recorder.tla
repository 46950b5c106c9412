------------------------------ MODULE Recorder ------------------------------
(***************************************************************************)
(* What a Recorder (recording.go:21-25) promises to the copiers that share *)
(* it, whatever locks, files and failures are behind it: its calls are     *)
(* atomic.  A call that returns no error has put its chunk behind all that *)
(* are recorded already, if the recorder is open; otherwise the chunk is   *)
(* dropped.  A call that returns an error is the last one of its stream.   *)
(* RecordingFile implements it.                                            *)
(***************************************************************************)
EXTENDS Naturals

CONSTANT Streams

VARIABLES
  state,     \* new, open, disabled, closed
  returned,  \* how many calls of each stream returned no error
  recorded,  \* which of them have their chunk in the recording
  before,    \* the order of the recording: pairs of calls
  ended      \* the streams that got an error

vars == <<state, returned, recorded, before, ended>>

Init ==
  /\ state = "new"
  /\ returned = [s \in Streams |-> 0]
  /\ recorded = {}
  /\ before = {}
  /\ ended = {}

Create ==
  /\ state = "new"
  /\ state' \in {"open", "disabled"}
  /\ UNCHANGED <<returned, recorded, before, ended>>

Returns(s) ==
  /\ s \notin ended
  /\ returned' = [returned EXCEPT ![s] = @ + 1]
  /\ UNCHANGED <<state, ended>>

Record(s) ==
  LET call == <<s, returned[s] + 1>> IN
  /\ state = "open"
  /\ Returns(s)
  /\ recorded' = recorded \cup {call}
  /\ before' = before \cup (recorded \X {call})

Drop(s) ==
  /\ state \in {"disabled", "closed"}
  /\ Returns(s)
  /\ UNCHANGED <<recorded, before>>

Fail(s) ==
  /\ state = "open"
  /\ s \notin ended
  /\ ended' = ended \cup {s}
  /\ UNCHANGED <<state, returned, recorded, before>>

Close ==
  /\ state = "open"
  /\ state' = "closed"
  /\ UNCHANGED <<returned, recorded, before, ended>>

Next == Create \/ Close \/ \E s \in Streams : Record(s) \/ Drop(s) \/ Fail(s)

Spec == Init /\ [][Next]_vars
=============================================================================
