---------------------------- MODULE RecordingFile ----------------------------
(***************************************************************************)
(* One recording file (recording.go:98-245): the copiers of a session call *)
(* Write and WriteInput of its recorder, concurrently with each other and  *)
(* with Close, while writes to the file may fail in part or altogether.    *)
(*                                                                         *)
(* The file is the sequence of the pieces that the write calls put there,  *)
(* so a crash leaves exactly what a state of this module shows.            *)
(***************************************************************************)
EXTENDS Naturals, Sequences, FiniteSets

CONSTANTS
  Streams,      \* the copiers that write to the recorder
  None,         \* nobody holds the mutex
  MaxChunks,    \* bound: chunks that a copier records
  MaxTime,      \* bound: the clock
  MaxFailures   \* bound: write calls that fail before the last one

ASSUME StreamsAssumption == None \notin Streams /\ "close" \notin Streams
ASSUME NoneAssumption == None # "close"
ASSUME BoundsAssumption == {MaxChunks, MaxTime, MaxFailures} \subseteq Nat

VARIABLES
  format,    \* "asciinema" or "script"
  recorder,  \* "new", or what the constructor returned: enabled, disabled
  open,      \* the recorder's file is not nil
  file,      \* the pieces in the file
  mutex,     \* who holds the recorder's mutex
  closer,    \* Close: not called, under way, returned
  writer,    \* the copiers
  stamp,     \* the elapsed time in the frame that a copier writes
  acked,     \* how many calls of a copier returned no error
  clock,
  failures   \* number of write calls that failed

vars == <<format, recorder, open, file, mutex, closer, writer, stamp, acked, clock, failures>>

\* A header, a trailer and a newline; what a write that failed half-way left;
\* and a frame, or in a script a bare chunk, with its stream and number.  What
\* the chunk says is left out, and with it what json.Marshal makes of the bytes
\* that are no UTF-8 (it puts U+FFFD in their place).
Header == [kind |-> "header"]
Trailer == [kind |-> "trailer"]
Newline == [kind |-> "newline"]
Torn == [kind |-> "torn"]

\* Mutant: the time is left out.
FrameUntimed(s, t) == [kind |-> "frame", by |-> s, no |-> acked[s] + 1]

Frame(s, t) == [kind |-> "frame", by |-> s, no |-> acked[s] + 1, time |-> t]

Frames == [kind : {"frame"}, by : Streams, no : Nat, time : Nat]
Pieces == {Header, Trailer, Newline, Torn} \cup Frames

TypeOK ==
  /\ format \in {"asciinema", "script"}
  /\ recorder \in {"new", "enabled", "disabled"}
  /\ open \in BOOLEAN
  /\ file \in Seq(Pieces)
  /\ mutex \in Streams \cup {"close", None}
  /\ closer \in {"idle", "closing", "closed"}
  /\ writer \in [Streams -> {"ready", "checking", "frame", "newline", "stopped"}]
  /\ stamp \in [Streams -> Nat]
  /\ acked \in [Streams -> Nat]
  /\ clock \in Nat
  /\ failures \in Nat

Init ==
  /\ format \in {"asciinema", "script"}
  /\ recorder = "new"
  /\ open = FALSE
  /\ file = <<>>
  /\ mutex = None
  /\ closer = "idle"
  /\ writer = [s \in Streams |-> "ready"]
  /\ stamp = [s \in Streams |-> 0]
  /\ acked = [s \in Streams |-> 0]
  /\ clock = 0
  /\ failures = 0

\* What a write call may do to f: all, part, or nothing of the piece.  A
\* newline is one byte.
Whole(f, piece) == [file |-> Append(f, piece), failed |-> 0]
Failed(f, piece) ==
  {[file |-> f, failed |-> 1]} \cup
  IF piece = Newline THEN {} ELSE {[file |-> Append(f, Torn), failed |-> 1]}

Outcomes(f, piece) ==
  {Whole(f, piece)} \cup IF failures < MaxFailures THEN Failed(f, piece) ELSE {}

------------------------------------------------------------------------------
(* NewAsciinemaRecorder and NewScriptRecorder *)

\* The file cannot be created: the recorder is disabled, and that is no error.
CreateFails ==
  /\ recorder = "new"
  /\ recorder' = "disabled"
  /\ UNCHANGED <<format, open, file, mutex, closer, writer, stamp, acked, clock, failures>>

\* Errors in writing the header are ignored.
CreateAsciinema ==
  /\ recorder = "new" /\ format = "asciinema"
  /\ recorder' = "enabled" /\ open' = TRUE
  /\ \E head \in Outcomes(<<>>, Header) : \E end \in Outcomes(head.file, Newline) :
       /\ file' = end.file
       /\ failures' = failures + head.failed + end.failed
  /\ UNCHANGED <<format, mutex, closer, writer, stamp, acked, clock>>

CreateScript ==
  /\ recorder = "new" /\ format = "script"
  /\ recorder' = "enabled" /\ open' = TRUE
  /\ \E head \in Outcomes(<<>>, Header) :
       /\ file' = head.file
       /\ failures' = failures + head.failed
  /\ UNCHANGED <<format, mutex, closer, writer, stamp, acked, clock>>

------------------------------------------------------------------------------
(* Write and WriteInput *)

\* Mutant: the mutex is not taken.
LockNothing(s) ==
  /\ recorder # "new" /\ writer[s] = "ready" /\ acked[s] < MaxChunks
  /\ writer' = [writer EXCEPT ![s] = "checking"]
  /\ UNCHANGED <<format, recorder, open, file, mutex, closer, stamp, acked, clock, failures>>

Lock(s) ==
  /\ recorder # "new" /\ writer[s] = "ready" /\ acked[s] < MaxChunks
  /\ mutex = None
  /\ mutex' = s
  /\ writer' = [writer EXCEPT ![s] = "checking"]
  /\ UNCHANGED <<format, recorder, open, file, closer, stamp, acked, clock, failures>>

\* The call returns, without an error or with one; that one ends io.Copy.
Return(s, failed) ==
  /\ mutex' = IF mutex = s THEN None ELSE mutex
  /\ writer' = [writer EXCEPT ![s] = IF failed = 0 THEN "ready" ELSE "stopped"]
  /\ acked' = IF failed = 0 THEN [acked EXCEPT ![s] = @ + 1] ELSE acked
  /\ failures' = failures + failed

\* A recorder that is disabled or closed drops the chunk.
Drop(s) ==
  /\ writer[s] = "checking"
  /\ ~(recorder = "enabled" /\ open)
  /\ Return(s, 0)
  /\ UNCHANGED <<format, recorder, open, file, closer, stamp, clock>>

\* time.Since(startTime), in the asciinema format.
Stamp(s) ==
  /\ writer[s] = "checking"
  /\ recorder = "enabled" /\ open
  /\ writer' = [writer EXCEPT ![s] = "frame"]
  /\ stamp' = [stamp EXCEPT ![s] = IF format = "asciinema" THEN clock ELSE 0]
  /\ UNCHANGED <<format, recorder, open, file, mutex, closer, acked, clock, failures>>

\* Mutant: the error of the frame's write is ignored, as that of the header's.
WriteFrameUnchecked(s) ==
  /\ writer[s] = "frame" /\ format = "asciinema"
  /\ \E out \in Outcomes(file, Frame(s, stamp[s])) :
       /\ file' = out.file
       /\ failures' = failures + out.failed
  /\ writer' = [writer EXCEPT ![s] = "newline"]
  /\ UNCHANGED <<format, recorder, open, mutex, closer, stamp, acked, clock>>

\* In the asciinema format a newline follows.
WriteFrame(s) ==
  /\ writer[s] = "frame" /\ format = "asciinema"
  /\ \/ /\ file' = Whole(file, Frame(s, stamp[s])).file
        /\ writer' = [writer EXCEPT ![s] = "newline"]
        /\ UNCHANGED <<mutex, acked, failures>>
     \/ /\ failures < MaxFailures
        /\ \E out \in Failed(file, Frame(s, stamp[s])) :
             file' = out.file /\ Return(s, out.failed)
  /\ UNCHANGED <<format, recorder, open, closer, stamp, clock>>

WriteNewline(s) ==
  /\ writer[s] = "newline"
  /\ \E out \in Outcomes(file, Newline) : file' = out.file /\ Return(s, out.failed)
  /\ UNCHANGED <<format, recorder, open, closer, stamp, clock>>

WriteChunk(s) ==
  /\ writer[s] = "frame" /\ format = "script"
  /\ \E out \in Outcomes(file, Frame(s, stamp[s])) : file' = out.file /\ Return(s, out.failed)
  /\ UNCHANGED <<format, recorder, open, closer, stamp, clock>>

------------------------------------------------------------------------------
(* Close *)

\* Mutant: the mutex is not taken.
CloseUnlocked ==
  /\ recorder # "new" /\ closer = "idle"
  /\ closer' = "closing"
  /\ UNCHANGED <<format, recorder, open, file, mutex, writer, stamp, acked, clock, failures>>

Close ==
  /\ recorder # "new" /\ closer = "idle"
  /\ mutex = None
  /\ mutex' = "close"
  /\ closer' = "closing"
  /\ UNCHANGED <<format, recorder, open, file, writer, stamp, acked, clock, failures>>

\* A script that was opened gets its trailer; an error is ignored.
CloseFile ==
  /\ closer = "closing"
  /\ closer' = "closed"
  /\ open' = FALSE
  /\ mutex' = IF mutex = "close" THEN None ELSE mutex
  /\ \E out \in IF open /\ format = "script" THEN Outcomes(file, Trailer)
                ELSE {[file |-> file, failed |-> 0]} :
       /\ file' = out.file
       /\ failures' = failures + out.failed
  /\ UNCHANGED <<format, recorder, writer, stamp, acked, clock>>

------------------------------------------------------------------------------
Tick ==
  /\ clock < MaxTime
  /\ clock' = clock + 1
  /\ UNCHANGED <<format, recorder, open, file, mutex, closer, writer, stamp, acked, failures>>

\* The recorder is closed and its copiers have nothing more to record.
Idle ==
  /\ closer = "closed"
  /\ \A s \in Streams : writer[s] = "stopped" \/ (writer[s] = "ready" /\ acked[s] = MaxChunks)
  /\ UNCHANGED vars

Record(s) ==
  \/ Lock(s) \/ Drop(s) \/ Stamp(s)
  \/ WriteFrame(s) \/ WriteNewline(s) \/ WriteChunk(s)

Next ==
  \/ CreateFails \/ CreateAsciinema \/ CreateScript
  \/ \E s \in Streams : Record(s)
  \/ Close \/ CloseFile
  \/ Tick \/ Idle

Spec == Init /\ [][Next]_vars

------------------------------------------------------------------------------
(* Properties *)

\* Positions of the frames of the file, and of the n-th chunk of s.
FramesAt == {i \in DOMAIN file : file[i].kind = "frame"}
PlacesOf(s, n) == {i \in FramesAt : file[i].by = s /\ file[i].no = n}

\* A line of an asciinema recording that a player can parse.
Legible(i) ==
  /\ i > 1 => file[i - 1] = Newline
  /\ i < Len(file) => file[i + 1] = Newline

\* The frames that Write acknowledged and that no player can read.
Damaged == {i \in FramesAt : file[i].no <= acked[file[i].by] /\ ~Legible(i)}

\* A player can follow the recording: the frames of all streams are there in
\* the order of their times, input and output interleaved as they were
\* (recording.go:149-165, 169-185).
TimesMonotonic ==
  \A i, j \in FramesAt : i < j => file[i].time <= file[j].time

\* A write that fails spoils at most one frame besides its own, although the
\* frame and its newline are two writes and other copiers go on recording
\* (recording.go:159-165).
DamageBounded ==
  format = "asciinema" => Cardinality(Damaged) <= failures

\* While its recorder is open, what a copier was told is recorded is in the
\* file, as one frame, once, and in the order of the stream, whatever failed meanwhile
\* (recording.go:148-214).
AcknowledgedKept ==
  recorder = "enabled" /\ open => \A s \in Streams :
    /\ \A n \in 1 .. acked[s] : Cardinality(PlacesOf(s, n)) = 1
    /\ \A i, j \in FramesAt :
         file[i].by = s /\ file[j].by = s /\ i < j => file[i].no < file[j].no

\* Nothing follows a transcript's trailer: no copier writes to a file that Close
\* has finished, and the trailer is never put inside a recording
\* (recording.go:229-245).
TrailerLast ==
  \A i \in DOMAIN file : file[i] = Trailer => i = Len(file)

\* The frames of calls that returned no error.
KeptAt == {i \in FramesAt : file[i].no <= acked[file[i].by]}
Call(i) == <<file[i].by, file[i].no>>
Recorded == {Call(i) : i \in KeptAt}
InOrder == {p \in KeptAt \X KeptAt : p[1] < p[2]}
Before == {<<Call(p[1]), Call(p[2])>> : p \in InOrder}
Stopped == {s \in Streams : writer[s] = "stopped"}

State ==
  IF recorder # "enabled" THEN recorder ELSE IF open THEN "open" ELSE "closed"

Promised == INSTANCE Recorder WITH
  state <- State, returned <- acked, recorded <- Recorded,
  before <- Before, ended <- Stopped

\* RecordingFile implements Recorder: although a frame and its newline are two
\* writes, either of which may fail, each call has its effect in one step and
\* nobody's chunk is lost, doubled or moved by another's (recording.go:148-245).
Atomic == Promised!Spec
==============================================================================
