-------------------------- MODULE RecordingFileProofs --------------------------
(***************************************************************************)
(* Theorems about RecordingFile, for any number of copiers and of chunks,  *)
(* and however many writes fail.                                           *)
(***************************************************************************)
EXTENDS RecordingFile, FiniteSetTheorems, SequenceTheorems, TLAPS

------------------------------------------------------------------------------
(* What the actions do to the file *)

Marks == {Header, Trailer, Newline, Torn}

(* A mark is no frame.                                                       *)
LEMMA FramesAndMarks ==
  /\ \A e \in Marks : e \in Pieces /\ e.kind # "frame"
  /\ \A e \in Frames : e \in Pieces /\ e.kind = "frame" /\ e \notin Marks
  /\ Header.kind = "header" /\ Trailer.kind = "trailer"
  /\ Newline.kind = "newline" /\ Torn.kind = "torn"
BY DEF Marks, Pieces, Frames, Header, Trailer, Newline, Torn

(* A write call leaves the file alone or appends one piece.                  *)
LEMMA OutcomeShape ==
  ASSUME NEW f, NEW e, NEW out \in Outcomes(f, e)
  PROVE  \/ out = Whole(f, e)
         \/ /\ out \in Failed(f, e)
            /\ out.file \in {f, Append(f, Torn)} /\ out.failed = 1
BY DEF Outcomes, Whole, Failed

(* A write that fails leaves the file as it was or with a torn piece.        *)
LEMMA FailedShape ==
  ASSUME NEW f, NEW e, NEW out \in Failed(f, e)
  PROVE  out.file \in {f, Append(f, Torn)} /\ out.failed = 1
BY DEF Failed

(* A write that does not fail puts the whole piece at the end.               *)
LEMMA WholeShape ==
  ASSUME NEW f, NEW e
  PROVE  Whole(f, e).file = Append(f, e) /\ Whole(f, e).failed = 0
BY DEF Whole

(* So the pieces of the file come from any set that has the one written and  *)
(* the torn ones.                                                            *)
LEMMA OutcomePieces ==
  ASSUME NEW S, Torn \in S, NEW f \in Seq(S), NEW e \in S, NEW out \in Outcomes(f, e)
  PROVE  out.file \in Seq(S) /\ out.failed \in {0, 1}
<1>1. Append(f, e) \in Seq(S) /\ Append(f, Torn) \in Seq(S)
  OBVIOUS
<1> QED
  BY <1>1, OutcomeShape, WholeShape

(* What a write of a piece leaves is a file of pieces again.                 *)
LEMMA OutcomeType ==
  ASSUME NEW f \in Seq(Pieces), NEW e \in Pieces, NEW out \in Outcomes(f, e)
  PROVE  out.file \in Seq(Pieces) /\ out.failed \in {0, 1}
BY OutcomePieces DEF Pieces

------------------------------------------------------------------------------
(* Types *)

(* The frame of a writer is numbered and timed as the writer is.             *)
LEMMA FrameType ==
  ASSUME TypeOK, NEW s \in Streams
  PROVE  /\ Frame(s, stamp[s]) \in Frames
         /\ Frame(s, stamp[s]).by = s
         /\ Frame(s, stamp[s]).no = acked[s] + 1
         /\ Frame(s, stamp[s]).time = stamp[s]
BY DEF TypeOK, Frame, Frames

(* A call that returns keeps the types of all it touches.                    *)
LEMMA ReturnType ==
  ASSUME TypeOK, NEW s \in Streams, NEW failed \in {0, 1}, Return(s, failed)
  PROVE  /\ mutex' \in Streams \cup {"close", None}
         /\ writer' \in [Streams -> {"ready", "checking", "frame", "newline", "stopped"}]
         /\ acked' \in [Streams -> Nat]
         /\ failures' \in Nat
BY DEF TypeOK, Return

(* Every reachable state is well typed; above all, the file is a sequence of *)
(* pieces with all their fields.                                             *)
THEOREM TypeCorrect == Spec => []TypeOK
<1>1. Init => TypeOK
  <2> SUFFICES ASSUME Init PROVE TypeOK
    OBVIOUS
  <2>1. file \in Seq(Pieces)
    BY DEF Init
  <2>2. open \in BOOLEAN
    BY DEF Init
  <2>3. writer \in [Streams -> {"ready", "checking", "frame", "newline", "stopped"}]
    BY DEF Init
  <2>4. stamp \in [Streams -> Nat] /\ acked \in [Streams -> Nat]
    BY DEF Init
  <2>5. /\ format \in {"asciinema", "script"} /\ recorder = "new"
        /\ mutex = None /\ closer = "idle" /\ clock = 0 /\ failures = 0
    BY DEF Init
  <2> HIDE DEF Init
  <2> QED
    BY <2>1, <2>2, <2>3, <2>4, <2>5 DEF TypeOK
<1>2. TypeOK /\ [Next]_vars => TypeOK'
  <2> SUFFICES ASSUME TypeOK, [Next]_vars PROVE TypeOK'
    OBVIOUS
  <2>0. CASE UNCHANGED vars
    BY <2>0 DEF vars, TypeOK
  <2>1. CASE CreateFails
    BY <2>1 DEF CreateFails, TypeOK
  <2>2. CASE CreateAsciinema
    <3>1. PICK head \in Outcomes(<<>>, Header) : \E end \in Outcomes(head.file, Newline) :
            file' = end.file /\ failures' = failures + head.failed + end.failed
      BY <2>2 DEF CreateAsciinema
    <3>2. PICK end \in Outcomes(head.file, Newline) :
            file' = end.file /\ failures' = failures + head.failed + end.failed
      BY <3>1
    <3>3. <<>> \in Seq(Pieces) /\ Header \in Pieces /\ Newline \in Pieces
      BY DEF Pieces
    <3>4. head.file \in Seq(Pieces) /\ head.failed \in {0, 1}
      BY <3>3, OutcomeType
    <3>5. end.file \in Seq(Pieces) /\ end.failed \in {0, 1}
      BY <3>3, <3>4, OutcomeType
    <3> QED
      BY <2>2, <3>2, <3>4, <3>5 DEF CreateAsciinema, TypeOK
  <2>3. CASE CreateScript
    <3>1. PICK head \in Outcomes(<<>>, Header) :
            file' = head.file /\ failures' = failures + head.failed
      BY <2>3 DEF CreateScript
    <3>2. <<>> \in Seq(Pieces) /\ Header \in Pieces
      BY DEF Pieces
    <3>3. head.file \in Seq(Pieces) /\ head.failed \in {0, 1}
      BY <3>2, OutcomeType
    <3> QED
      BY <2>3, <3>1, <3>3 DEF CreateScript, TypeOK
  <2>4. ASSUME NEW s \in Streams, Lock(s) PROVE TypeOK'
    BY <2>4 DEF Lock, TypeOK
  <2>5. ASSUME NEW s \in Streams, Drop(s) PROVE TypeOK'
    <3>1. Return(s, 0)
      BY <2>5 DEF Drop
    <3> QED
      BY <2>5, <3>1, ReturnType DEF Drop, TypeOK
  <2>6. ASSUME NEW s \in Streams, Stamp(s) PROVE TypeOK'
    BY <2>6 DEF Stamp, TypeOK
  <2>7. ASSUME NEW s \in Streams, WriteFrame(s) PROVE TypeOK'
    <3>1. Frame(s, stamp[s]) \in Pieces
      BY FrameType, FramesAndMarks
    <3>2. Append(file, Frame(s, stamp[s])) \in Seq(Pieces) /\ Append(file, Torn) \in Seq(Pieces)
      BY <3>1, FramesAndMarks DEF TypeOK, Marks
    <3>3. CASE /\ file' = Whole(file, Frame(s, stamp[s])).file
               /\ writer' = [writer EXCEPT ![s] = "newline"]
               /\ UNCHANGED <<mutex, acked, failures>>
      BY <2>7, <3>2, <3>3, WholeShape DEF WriteFrame, TypeOK
    <3>4. ASSUME NEW out \in Failed(file, Frame(s, stamp[s])),
                 file' = out.file, Return(s, out.failed)
          PROVE  TypeOK'
      <4>1. out.failed \in {0, 1} /\ file' \in Seq(Pieces)
        BY <3>2, <3>4, FailedShape DEF TypeOK
      <4> QED
        BY <2>7, <3>4, <4>1, ReturnType DEF WriteFrame, TypeOK
    <3> QED
      BY <2>7, <3>3, <3>4 DEF WriteFrame
  <2>8. ASSUME NEW s \in Streams, WriteNewline(s) PROVE TypeOK'
    <3>1. PICK out \in Outcomes(file, Newline) : file' = out.file /\ Return(s, out.failed)
      BY <2>8 DEF WriteNewline
    <3>2. out.failed \in {0, 1} /\ file' \in Seq(Pieces)
      BY <3>1, OutcomeType, FramesAndMarks DEF TypeOK, Marks
    <3> QED
      BY <2>8, <3>1, <3>2, ReturnType DEF WriteNewline, TypeOK
  <2>9. ASSUME NEW s \in Streams, WriteChunk(s) PROVE TypeOK'
    <3>1. PICK out \in Outcomes(file, Frame(s, stamp[s])) :
            file' = out.file /\ Return(s, out.failed)
      BY <2>9 DEF WriteChunk
    <3>2. out.failed \in {0, 1} /\ file' \in Seq(Pieces)
      BY <3>1, OutcomeType, FrameType, FramesAndMarks DEF TypeOK
    <3> QED
      BY <2>9, <3>1, <3>2, ReturnType DEF WriteChunk, TypeOK
  <2>10. CASE Close
    BY <2>10 DEF Close, TypeOK
  <2>11. CASE CloseFile
    <3>1. PICK out \in IF open /\ format = "script" THEN Outcomes(file, Trailer)
                       ELSE {[file |-> file, failed |-> 0]} :
            file' = out.file /\ failures' = failures + out.failed
      BY <2>11 DEF CloseFile
    <3>2. out.failed \in {0, 1} /\ file' \in Seq(Pieces)
      <4>1. CASE open /\ format = "script"
        BY <3>1, <4>1, OutcomeType, FramesAndMarks DEF TypeOK, Marks
      <4>2. CASE ~(open /\ format = "script")
        BY <3>1, <4>2 DEF TypeOK
      <4> QED
        BY <4>1, <4>2
    <3>3. failures' \in Nat
      BY <3>1, <3>2 DEF TypeOK
    <3>4. mutex' \in Streams \cup {"close", None}
      BY <2>11 DEF CloseFile, TypeOK
    <3>5. /\ closer' = "closed" /\ open' = FALSE
          /\ UNCHANGED <<format, recorder, writer, stamp, acked, clock>>
      BY <2>11 DEF CloseFile
    <3> HIDE <2>11
    <3> QED
      BY <3>2, <3>3, <3>4, <3>5 DEF TypeOK
  <2>12. CASE Tick
    BY <2>12, BoundsAssumption DEF Tick, TypeOK
  <2> QED
    BY <2>0, <2>1, <2>2, <2>3, <2>4, <2>5, <2>6, <2>7, <2>8, <2>9, <2>10, <2>11, <2>12
       DEF Next, Record, Idle
<1> QED
  BY <1>1, <1>2, PTL DEF Spec

------------------------------------------------------------------------------
(* The mutex *)

\* Whoever is inside Write, WriteInput or Close holds the mutex; who writes does
\* so to an open file; and nothing happens to a recorder before it is created.
Guarded ==
  /\ \A s \in Streams : writer[s] \in {"checking", "frame", "newline"} => mutex = s
  /\ closer = "closing" => mutex = "close"
  /\ \A s \in Streams : writer[s] \in {"frame", "newline"} => recorder = "enabled" /\ open
  /\ open => recorder = "enabled" /\ closer # "closed"
  /\ recorder = "new" => /\ file = <<>> /\ closer = "idle"
                         /\ \A s \in Streams : writer[s] = "ready" /\ acked[s] = 0


(* Every action keeps to the mutex.                                          *)
LEMMA GuardedStep ==
  ASSUME TypeOK, Guarded, [Next]_vars
  PROVE  Guarded'
<1>0. CASE UNCHANGED vars
  BY <1>0 DEF vars, Guarded
<1>1. CASE CreateFails
  BY <1>1 DEF CreateFails, Guarded
<1>2. CASE CreateAsciinema
  <2>1. /\ recorder = "new" /\ recorder' = "enabled" /\ open' = TRUE
        /\ UNCHANGED <<format, mutex, closer, writer, stamp, acked, clock>>
    BY <1>2 DEF CreateAsciinema
  <2> QED
    BY <2>1 DEF Guarded
<1>3. CASE CreateScript
  <2>1. /\ recorder = "new" /\ recorder' = "enabled" /\ open' = TRUE
        /\ UNCHANGED <<format, mutex, closer, writer, stamp, acked, clock>>
    BY <1>3 DEF CreateScript
  <2> QED
    BY <2>1 DEF Guarded
<1>4. ASSUME NEW s \in Streams, Lock(s) PROVE Guarded'
  BY <1>4, StreamsAssumption, NoneAssumption DEF Lock, Guarded, TypeOK
<1>5. ASSUME NEW s \in Streams, NEW failed, mutex = s, recorder # "new", Return(s, failed),
             UNCHANGED <<recorder, open, closer>>
      PROVE  Guarded'
  BY <1>5, StreamsAssumption DEF Return, Guarded, TypeOK
<1>6. ASSUME NEW s \in Streams, Drop(s) PROVE Guarded'
  <2>1. writer[s] = "checking" /\ Return(s, 0) /\ UNCHANGED <<recorder, open, closer>>
    BY <1>6 DEF Drop
  <2>2. mutex = s /\ recorder # "new"
    BY <2>1 DEF Guarded
  <2> QED
    BY <1>5, <2>1, <2>2
<1>7. ASSUME NEW s \in Streams, Stamp(s) PROVE Guarded'
  BY <1>7 DEF Stamp, Guarded, TypeOK
<1>8. ASSUME NEW s \in Streams, WriteFrame(s) PROVE Guarded'
  <2>1. writer[s] = "frame" /\ mutex = s /\ recorder = "enabled" /\ open
        /\ UNCHANGED <<recorder, open, closer>>
    BY <1>8 DEF WriteFrame, Guarded
  <2>2. CASE /\ writer' = [writer EXCEPT ![s] = "newline"]
             /\ UNCHANGED <<mutex, acked, failures>>
    BY <2>1, <2>2 DEF Guarded, TypeOK
  <2>3. ASSUME NEW failed, Return(s, failed) PROVE Guarded'
    BY <1>5, <2>1, <2>3
  <2> QED
    BY <1>8, <2>2, <2>3 DEF WriteFrame
<1>9. ASSUME NEW s \in Streams, WriteNewline(s) PROVE Guarded'
  <2>1. /\ writer[s] = "newline" /\ UNCHANGED <<recorder, open, closer>>
        /\ \E failed : Return(s, failed)
    BY <1>9 DEF WriteNewline
  <2>2. mutex = s /\ recorder # "new"
    BY <2>1 DEF Guarded
  <2> QED
    BY <1>5, <2>1, <2>2
<1>10. ASSUME NEW s \in Streams, WriteChunk(s) PROVE Guarded'
  <2>1. /\ writer[s] = "frame" /\ UNCHANGED <<recorder, open, closer>>
        /\ \E failed : Return(s, failed)
    BY <1>10 DEF WriteChunk
  <2>2. mutex = s /\ recorder # "new"
    BY <2>1 DEF Guarded
  <2> QED
    BY <1>5, <2>1, <2>2
<1>11. CASE Close
  BY <1>11, StreamsAssumption, NoneAssumption DEF Close, Guarded, TypeOK
<1>12. CASE CloseFile
  <2>1. /\ closer = "closing" /\ closer' = "closed" /\ open' = FALSE
        /\ mutex' = IF mutex = "close" THEN None ELSE mutex
        /\ UNCHANGED <<recorder, writer, acked>>
    BY <1>12 DEF CloseFile
  <2>2. mutex = "close" /\ recorder # "new"
    BY <2>1 DEF Guarded
  <2>3. \A s \in Streams : writer[s] \notin {"checking", "frame", "newline"}
    BY <2>2, StreamsAssumption DEF Guarded
  <2> QED
    BY <2>1, <2>2, <2>3 DEF Guarded
<1>13. CASE Tick
  BY <1>13 DEF Tick, Guarded
<1> QED
  BY <1>0, <1>1, <1>2, <1>3, <1>4, <1>6, <1>7, <1>8, <1>9, <1>10, <1>11, <1>12, <1>13
     DEF Next, Record, Idle

(* No two of the recorder's methods are ever inside at once, and none writes *)
(* to a file that is not open (recording.go:148-245).                        *)
THEOREM MutexHeld == Spec => []Guarded
<1>1. Init => Guarded
  BY DEF Init, Guarded
<1>2. TypeOK /\ Guarded /\ [Next]_vars => Guarded'
  BY GuardedStep
<1> QED
  BY <1>1, <1>2, TypeCorrect, PTL DEF Spec

------------------------------------------------------------------------------
(* What the actions do to the frames *)

SameFrames ==
  /\ FramesAt' = FramesAt
  /\ \A i \in FramesAt : file'[i] = file[i]

AddsFrame(e) ==
  /\ FramesAt' = FramesAt \cup {Len(file) + 1}
  /\ \A i \in FramesAt : file'[i] = file[i]
  /\ file'[Len(file) + 1] = e

(* A frame of the file has all its fields, and its place is a number.        *)
LEMMA FramesWhole ==
  ASSUME TypeOK
  PROVE  /\ Len(file) \in Nat
         /\ \A i \in FramesAt : i \in 1 .. Len(file) /\ file[i] \in Frames
<1>1. Len(file) \in Nat /\ DOMAIN file = 1 .. Len(file) /\ \A i \in DOMAIN file : file[i] \in Pieces
  BY DEF TypeOK
<1>2. ASSUME NEW i \in FramesAt PROVE i \in DOMAIN file /\ file[i].kind = "frame"
  BY DEF FramesAt
<1> QED
  BY <1>1, <1>2 DEF Pieces, Header, Trailer, Newline, Torn

(* What appending to the file does, place by place.                          *)
LEMMA AppendFacts ==
  ASSUME TypeOK, NEW e \in Pieces, file' = Append(file, e)
  PROVE  /\ Len(file) \in Nat /\ Len(file') = Len(file) + 1
         /\ DOMAIN file = 1 .. Len(file) /\ DOMAIN file' = 1 .. Len(file) + 1
         /\ \A i \in DOMAIN file : file'[i] = file[i]
         /\ file'[Len(file) + 1] = e
BY DEF TypeOK

(* Headers, trailers, newlines and torn pieces are no frames.                *)
LEMMA MarkAppended ==
  ASSUME TypeOK, NEW e \in Marks, file' = Append(file, e)
  PROVE  SameFrames
<1>1. e \in Pieces /\ e.kind # "frame"
  BY FramesAndMarks
<1>2. /\ Len(file) \in Nat
      /\ DOMAIN file = 1 .. Len(file) /\ DOMAIN file' = 1 .. Len(file) + 1
      /\ \A i \in DOMAIN file : file'[i] = file[i]
      /\ file'[Len(file) + 1] = e
  BY <1>1, AppendFacts
<1> QED
  BY <1>1, <1>2 DEF SameFrames, FramesAt

(* A whole frame is added at the end.                                        *)
LEMMA FrameAppended ==
  ASSUME TypeOK, NEW e \in Frames, file' = Append(file, e)
  PROVE  AddsFrame(e)
<1>1. e \in Pieces /\ e.kind = "frame"
  BY FramesAndMarks
<1>2. /\ Len(file) \in Nat
      /\ DOMAIN file = 1 .. Len(file) /\ DOMAIN file' = 1 .. Len(file) + 1
      /\ \A i \in DOMAIN file : file'[i] = file[i]
      /\ file'[Len(file) + 1] = e
  BY <1>1, AppendFacts
<1> QED
  BY <1>1, <1>2 DEF AddsFrame, FramesAt

(* A step that leaves the file alone leaves its frames alone.                *)
LEMMA FileKept ==
  ASSUME file' = file
  PROVE  SameFrames
BY DEF SameFrames, FramesAt

(* A failing write adds no frame, whatever it was to write.                  *)
LEMMA FailureKeepsFrames ==
  ASSUME TypeOK, NEW e, NEW out \in Failed(file, e), file' = out.file
  PROVE  SameFrames /\ out.failed = 1
BY FailedShape, MarkAppended, FileKept DEF Marks

(* Nor does a write of anything but a frame.                                 *)
LEMMA MarkKeepsFrames ==
  ASSUME TypeOK, NEW e \in Marks, NEW out \in Outcomes(file, e), file' = out.file
  PROVE  SameFrames
BY OutcomeShape, WholeShape, MarkAppended, FileKept DEF Marks

(* The header is no frame, whatever of it was written.                       *)
LEMMA CreationPieces ==
  ASSUME CreateAsciinema \/ CreateScript
  PROVE  file' \in Seq({Header, Newline, Torn})
<1> DEFINE S == {Header, Newline, Torn}
<1>1. <<>> \in Seq(S) /\ Header \in S /\ Newline \in S /\ Torn \in S
  OBVIOUS
<1> HIDE DEF S
<1>2. \A f \in Seq(S), e \in S : \A out \in Outcomes(f, e) : out.file \in Seq(S)
  BY <1>1, OutcomePieces
<1>3. CASE CreateAsciinema
  <2>1. \E head \in Outcomes(<<>>, Header) : \E end \in Outcomes(head.file, Newline) :
          file' = end.file
    BY <1>3 DEF CreateAsciinema
  <2> QED
    BY <1>1, <1>2, <2>1 DEF S
<1>4. CASE CreateScript
  <2>1. \E head \in Outcomes(<<>>, Header) : file' = head.file
    BY <1>4 DEF CreateScript
  <2> QED
    BY <1>1, <1>2, <2>1 DEF S
<1> QED
  BY <1>3, <1>4

(* A file that was just created has no frames.                               *)
LEMMA CreationKeepsFrames ==
  ASSUME Guarded, CreateAsciinema \/ CreateScript
  PROVE  SameFrames /\ FramesAt = {}
<1>1. file = <<>>
  BY DEF Guarded, CreateAsciinema, CreateScript
<1>2. FramesAt = {}
  BY <1>1 DEF FramesAt
<1>3. \A i \in DOMAIN file' : file'[i].kind # "frame"
  <2>1. \A i \in DOMAIN file' : file'[i] \in {Header, Newline, Torn}
    BY CreationPieces
  <2> QED
    BY <2>1, FramesAndMarks DEF Marks
<1>4. FramesAt' = {}
  BY <1>3 DEF FramesAt
<1> QED
  BY <1>2, <1>4 DEF SameFrames

(* A write of a frame either adds it or leaves the frames as they are.       *)
LEMMA FrameWritten ==
  ASSUME TypeOK, NEW s \in Streams, WriteFrame(s) \/ WriteChunk(s)
  PROVE  \/ /\ AddsFrame(Frame(s, stamp[s]))
            /\ \/ /\ WriteFrame(s) /\ writer' = [writer EXCEPT ![s] = "newline"]
                  /\ UNCHANGED acked
               \/ WriteChunk(s) /\ Return(s, 0)
         \/ SameFrames /\ Return(s, 1)
<1>1. Frame(s, stamp[s]) \in Frames
  BY FrameType
<1>2. CASE WriteFrame(s)
  <2>1. CASE /\ file' = Whole(file, Frame(s, stamp[s])).file
             /\ writer' = [writer EXCEPT ![s] = "newline"]
             /\ UNCHANGED <<mutex, acked, failures>>
    BY <1>1, <1>2, <2>1, WholeShape, FrameAppended
  <2>2. CASE \E out \in Failed(file, Frame(s, stamp[s])) :
               file' = out.file /\ Return(s, out.failed)
    BY <2>2, FailureKeepsFrames
  <2> QED
    BY <1>2, <2>1, <2>2 DEF WriteFrame
<1>3. CASE WriteChunk(s)
  <2>1. PICK out \in Outcomes(file, Frame(s, stamp[s])) :
          file' = out.file /\ Return(s, out.failed)
    BY <1>3 DEF WriteChunk
  <2>2. CASE out = Whole(file, Frame(s, stamp[s]))
    BY <1>1, <1>3, <2>1, <2>2, WholeShape, FrameAppended
  <2>3. CASE out \in Failed(file, Frame(s, stamp[s]))
    BY <2>1, <2>3, FailureKeepsFrames
  <2> QED
    BY <2>2, <2>3, OutcomeShape
<1> QED
  BY <1>2, <1>3

------------------------------------------------------------------------------
(* Times *)

\* No frame is later than the clock, nor than the frame being written.
Timed ==
  /\ \A i \in FramesAt : file[i].time <= clock
  /\ \A s \in Streams : stamp[s] <= clock
  /\ \A s \in Streams : writer[s] = "frame" => \A i \in FramesAt : file[i].time <= stamp[s]
  /\ format = "script" => \A i \in FramesAt : file[i].time = 0
  /\ format = "script" => \A s \in Streams : stamp[s] = 0

(* A step that adds no frame and reads no clock keeps the times in order.    *)
LEMMA TimedKept ==
  ASSUME TypeOK, TypeOK', Timed, SameFrames, clock <= clock', UNCHANGED <<format, stamp>>,
         \A s \in Streams : writer'[s] = "frame" => writer[s] = "frame"
  PROVE  Timed'
<1>1. \A i \in FramesAt : file[i].time \in Nat
  BY FramesWhole DEF Frames
<1>2. \A i \in FramesAt' : i \in FramesAt /\ file'[i].time = file[i].time
  BY DEF SameFrames
<1>3. clock \in Nat /\ clock' \in Nat /\ stamp \in [Streams -> Nat]
  BY DEF TypeOK
<1> QED
  BY <1>1, <1>2, <1>3 DEF Timed

(* A call that returns is over, and is nobody else's.                        *)
LEMMA ReturnWrites ==
  ASSUME TypeOK, NEW s \in Streams, NEW failed, Return(s, failed)
  PROVE  /\ writer'[s] \in {"ready", "stopped"}
         /\ \A r \in Streams \ {s} : writer'[r] = writer[r]
BY DEF Return, TypeOK

(* Every step keeps Timed.                                                   *)
LEMMA TimedStep ==
  ASSUME TypeOK, TypeOK', Guarded, Timed, [Next]_vars
  PROVE  Timed'
<1> clock \in Nat
  BY DEF TypeOK
<1>0. CASE UNCHANGED vars
  BY <1>0, FileKept, TimedKept DEF vars
<1>1. CASE CreateFails
  BY <1>1, FileKept, TimedKept DEF CreateFails
<1>2. CASE CreateAsciinema
  BY <1>2, CreationKeepsFrames, TimedKept DEF CreateAsciinema
<1>3. CASE CreateScript
  BY <1>3, CreationKeepsFrames, TimedKept DEF CreateScript
<1>4. ASSUME NEW s \in Streams, Lock(s) PROVE Timed'
  BY <1>4, FileKept, TimedKept DEF Lock, TypeOK
<1>5. ASSUME NEW s \in Streams, NEW failed, SameFrames, Return(s, failed),
             UNCHANGED <<format, stamp, clock>>
      PROVE  Timed'
  BY <1>5, ReturnWrites, TimedKept
<1>6. ASSUME NEW s \in Streams, Drop(s) PROVE Timed'
  BY <1>5, <1>6, FileKept DEF Drop
<1>7. ASSUME NEW s \in Streams, Stamp(s) PROVE Timed'
  <2>1. SameFrames /\ UNCHANGED <<format, clock, file>>
    BY <1>7, FileKept DEF Stamp
  <2>2. /\ writer' = [writer EXCEPT ![s] = "frame"]
        /\ stamp' = [stamp EXCEPT ![s] = IF format = "asciinema" THEN clock ELSE 0]
    BY <1>7 DEF Stamp
  <2>3. stamp \in [Streams -> Nat] /\ writer \in [Streams -> {"ready", "checking", "frame", "newline", "stopped"}]
    BY DEF TypeOK
  <2>4. format \in {"asciinema", "script"}
    BY DEF TypeOK
  <2>5. \A i \in FramesAt' : i \in FramesAt /\ file'[i].time = file[i].time
    BY <2>1 DEF SameFrames
  <2>6. \A i \in FramesAt : file[i].time \in Nat /\ file[i].time <= stamp'[s]
    BY <2>2, <2>3, <2>4, FramesWhole DEF Timed, Frames
  <2>7. \A r \in Streams : stamp'[r] <= clock /\ (format = "script" => stamp'[r] = 0)
    BY <2>2, <2>3, <2>4 DEF Timed
  <2>8. \A r \in Streams : writer'[r] = "frame" => \A i \in FramesAt : file[i].time <= stamp'[r]
    BY <2>2, <2>3, <2>6 DEF Timed
  <2> QED
    BY <2>1, <2>5, <2>7, <2>8 DEF Timed
<1>8. ASSUME NEW s \in Streams, WriteFrame(s) \/ WriteChunk(s) PROVE Timed'
  <2>1. /\ writer[s] = "frame" /\ UNCHANGED <<format, stamp, clock>>
        /\ stamp[s] \in Nat
    BY <1>8 DEF WriteFrame, WriteChunk, TypeOK
  <2>2. CASE SameFrames /\ Return(s, 1)
    BY <1>5, <2>1, <2>2
  <2>3. CASE /\ AddsFrame(Frame(s, stamp[s]))
             /\ writer' = [writer EXCEPT ![s] = "newline"] \/ Return(s, 0)
    <3>1. writer'[s] # "frame" /\ \A r \in Streams \ {s} : writer'[r] = writer[r]
      BY <2>3, ReturnWrites DEF TypeOK
    <3>2. \A r \in Streams : writer'[r] # "frame"
      BY <2>1, <3>1 DEF Guarded
    <3>3. \A i \in FramesAt' : \/ i \in FramesAt /\ file'[i].time = file[i].time
                              \/ file'[i].time = stamp[s]
      BY <2>3, FrameType DEF AddsFrame
    <3> QED
      BY <2>1, <3>2, <3>3 DEF Timed
  <2> QED
    BY <1>8, <2>2, <2>3, FrameWritten
<1>9. ASSUME NEW s \in Streams, WriteNewline(s) PROVE Timed'
  <2>1. PICK out \in Outcomes(file, Newline) : file' = out.file /\ Return(s, out.failed)
    BY <1>9 DEF WriteNewline
  <2>2. SameFrames
    BY <2>1, MarkKeepsFrames DEF Marks
  <2> QED
    BY <1>5, <1>9, <2>1, <2>2 DEF WriteNewline
<1>10. CASE Close
  BY <1>10, FileKept, TimedKept DEF Close
<1>11. CASE CloseFile
  <2>1. SameFrames
    <3>1. PICK out \in IF open /\ format = "script" THEN Outcomes(file, Trailer)
                       ELSE {[file |-> file, failed |-> 0]} : file' = out.file
      BY <1>11 DEF CloseFile
    <3>2. CASE open /\ format = "script"
      BY <3>1, <3>2, MarkKeepsFrames DEF Marks
    <3>3. CASE ~(open /\ format = "script")
      BY <3>1, <3>3, FileKept
    <3> QED
      BY <3>2, <3>3
  <2> QED
    BY <1>11, <2>1, TimedKept DEF CloseFile
<1>12. CASE Tick
  <2>1. SameFrames /\ clock' = clock + 1 /\ UNCHANGED <<format, writer, stamp>>
    BY <1>12, FileKept DEF Tick
  <2>2. clock <= clock'
    BY <2>1
  <2> QED
    BY <2>1, <2>2, TimedKept
<1> QED
  BY <1>0, <1>1, <1>2, <1>3, <1>4, <1>6, <1>7, <1>8, <1>9, <1>10, <1>11, <1>12
     DEF Next, Record, Idle

(* A step leaves the frames as they are, or a writer adds its own.           *)
LEMMA FramesStep ==
  ASSUME TypeOK, Guarded, [Next]_vars
  PROVE  \/ SameFrames
         \/ \E s \in Streams : writer[s] = "frame" /\ AddsFrame(Frame(s, stamp[s]))
<1>1. CASE file' = file
  BY <1>1, FileKept
<1>2. CASE CreateAsciinema \/ CreateScript
  BY <1>2, CreationKeepsFrames
<1>3. ASSUME NEW s \in Streams, WriteFrame(s) \/ WriteChunk(s)
      PROVE  SameFrames \/ (writer[s] = "frame" /\ AddsFrame(Frame(s, stamp[s])))
  BY <1>3, FrameWritten DEF WriteFrame, WriteChunk
<1>4. ASSUME NEW s \in Streams, WriteNewline(s) PROVE SameFrames
  BY <1>4, MarkKeepsFrames DEF WriteNewline, Marks
<1>5. CASE CloseFile
  <2>1. PICK out \in IF open /\ format = "script" THEN Outcomes(file, Trailer)
                     ELSE {[file |-> file, failed |-> 0]} : file' = out.file
    BY <1>5 DEF CloseFile
  <2>2. CASE open /\ format = "script"
    BY <2>1, <2>2, MarkKeepsFrames DEF Marks
  <2>3. CASE ~(open /\ format = "script")
    BY <2>1, <2>3, FileKept
  <2> QED
    BY <2>2, <2>3
<1>6. CASE \/ UNCHANGED vars \/ CreateFails \/ Close \/ Tick
           \/ \E s \in Streams : Lock(s) \/ Drop(s) \/ Stamp(s)
  BY <1>1, <1>6 DEF vars, CreateFails, Close, Tick, Lock, Drop, Stamp
<1> QED
  BY <1>2, <1>3, <1>4, <1>5, <1>6 DEF Next, Record, Idle

(* A player can follow every recording, for any number of copiers and of     *)
(* chunks: the mutex is held from the reading of the clock to the writing of *)
(* the frame, so that no frame is earlier than one before it                 *)
(* (recording.go:148-166).                                                   *)
THEOREM TimesInOrder == Spec => []TimesMonotonic
<1>1. Init => Timed /\ TimesMonotonic
  BY DEF Init, Timed, TimesMonotonic, FramesAt
<1>2. TypeOK /\ TypeOK' /\ Guarded /\ Timed /\ [Next]_vars => Timed'
  BY TimedStep
<1>3. TypeOK /\ Guarded /\ Timed /\ TimesMonotonic /\ [Next]_vars => TimesMonotonic'
  <2> SUFFICES ASSUME TypeOK, Guarded, Timed, TimesMonotonic, [Next]_vars PROVE TimesMonotonic'
    OBVIOUS
  <2>1. CASE SameFrames
    BY <2>1 DEF SameFrames, TimesMonotonic
  <2>2. ASSUME NEW s \in Streams, writer[s] = "frame", AddsFrame(Frame(s, stamp[s]))
        PROVE  TimesMonotonic'
    <3>1. /\ FramesAt' = FramesAt \cup {Len(file) + 1}
          /\ \A i \in FramesAt : i \in 1 .. Len(file) /\ file'[i] = file[i]
          /\ Len(file) \in Nat
      BY <2>2, FramesWhole DEF AddsFrame
    <3>2. file'[Len(file) + 1].time = stamp[s] /\ stamp[s] \in Nat
      BY <2>2, FrameType DEF AddsFrame, TypeOK
    <3>3. \A i \in FramesAt : file[i].time <= stamp[s]
      BY <2>2 DEF Timed
    <3> QED
      BY <3>1, <3>2, <3>3 DEF TimesMonotonic
  <2> QED
    BY <2>1, <2>2, FramesStep
<1> QED
  BY <1>1, <1>2, <1>3, TypeCorrect, MutexHeld, PTL DEF Spec

------------------------------------------------------------------------------
(* The trailer *)

\* A trailer is last, and only a closed file has one.
Ended ==
  \A i \in DOMAIN file : file[i] = Trailer => i = Len(file) /\ closer = "closed"

(* A piece put at the end of a file that is not closed.                      *)
LEMMA EndedAppend ==
  ASSUME TypeOK, Ended, closer # "closed", NEW e \in Pieces, file' = Append(file, e),
         e = Trailer => closer' = "closed"
  PROVE  Ended'
<1>1. \A i \in DOMAIN file : file[i] # Trailer
  BY DEF Ended
<1> QED
  BY <1>1, AppendFacts DEF Ended

(* A recorder that is closed stays closed.                                   *)
LEMMA EndedKept ==
  ASSUME Ended, file' = file, closer = "closed" => closer' = "closed"
  PROVE  Ended'
BY DEF Ended

(* Every step keeps Ended: Close alone writes the trailer, and closes.       *)
LEMMA EndedStep ==
  ASSUME TypeOK, Guarded, Ended, [Next]_vars
  PROVE  Ended'
<1> Torn \in Pieces /\ Torn # Trailer /\ Newline \in Pieces /\ Newline # Trailer /\ Trailer \in Pieces
  BY DEF Pieces, Torn, Trailer, Newline
<1>1. CASE \/ UNCHANGED vars \/ CreateFails \/ Tick
           \/ \E s \in Streams : Lock(s) \/ Drop(s) \/ Stamp(s)
  BY <1>1, EndedKept DEF vars, CreateFails, Tick, Lock, Drop, Stamp
<1>2. CASE Close
  BY <1>2, EndedKept DEF Close
<1>3. CASE CreateAsciinema \/ CreateScript
  <2>1. \A i \in DOMAIN file' : file'[i] \in {Header, Newline, Torn}
    BY <1>3, CreationPieces
  <2> QED
    BY <2>1 DEF Ended, Header, Newline, Torn, Trailer
<1>4. ASSUME NEW s \in Streams, WriteFrame(s) \/ WriteChunk(s) PROVE Ended'
  <2>1. closer' = closer /\ closer # "closed"
    BY <1>4 DEF WriteFrame, WriteChunk, Guarded
  <2>2. Frame(s, stamp[s]) \in Pieces /\ Frame(s, stamp[s]) # Trailer
    BY FrameType, FramesAndMarks DEF Marks
  <2>3. \/ file' = file
        \/ file' = Append(file, Torn)
        \/ file' = Append(file, Frame(s, stamp[s]))
    BY <1>4, OutcomeShape, FailedShape, WholeShape DEF WriteFrame, WriteChunk
  <2> QED
    BY <2>1, <2>2, <2>3, EndedAppend, EndedKept
<1>5. ASSUME NEW s \in Streams, WriteNewline(s) PROVE Ended'
  <2>1. closer' = closer /\ closer # "closed"
    BY <1>5 DEF WriteNewline, Guarded
  <2>2. file' \in {file, Append(file, Torn), Append(file, Newline)}
    BY <1>5, OutcomeShape, WholeShape DEF WriteNewline
  <2> QED
    BY <2>1, <2>2, EndedAppend, EndedKept
<1>6. CASE CloseFile
  <2>1. closer = "closing" /\ closer' = "closed"
    BY <1>6 DEF CloseFile
  <2>2. PICK out \in IF open /\ format = "script" THEN Outcomes(file, Trailer)
                     ELSE {[file |-> file, failed |-> 0]} : file' = out.file
    BY <1>6 DEF CloseFile
  <2>3. file' \in {file, Append(file, Torn), Append(file, Trailer)}
    <3>1. CASE open /\ format = "script"
      BY <2>2, <3>1, OutcomeShape, WholeShape
    <3>2. CASE ~(open /\ format = "script")
      BY <2>2, <3>2
    <3> QED
      BY <3>1, <3>2
  <2> QED
    BY <2>1, <2>3, EndedAppend, EndedKept
<1> QED
  BY <1>1, <1>2, <1>3, <1>4, <1>5, <1>6 DEF Next, Record, Idle

(* Nothing follows a transcript's trailer: Close waits for the mutex, and a  *)
(* copier that gets it afterwards finds the recorder closed                  *)
(* (recording.go:190-198, 229-245).                                          *)
THEOREM TrailerIsLast == Spec => []TrailerLast
<1>1. Init => Ended
  BY DEF Init, Ended
<1>2. TypeOK /\ Guarded /\ Ended /\ [Next]_vars => Ended'
  BY EndedStep
<1>3. Ended => TrailerLast
  BY DEF Ended, TrailerLast
<1> QED
  BY <1>1, <1>2, <1>3, TypeCorrect, MutexHeld, PTL DEF Spec

------------------------------------------------------------------------------
(* What is acknowledged *)

\* The frames of a stream are its chunks, in order, up to the one under way.
NumberedFor(s) ==
  /\ \A i \in FramesAt : file[i].by = s =>
       /\ file[i].no \in 1 .. acked[s] + 1
       /\ file[i].no = acked[s] + 1 => writer[s] \in {"newline", "stopped"}
  /\ \A i, j \in FramesAt :
       file[i].by = s /\ file[j].by = s /\ i < j => file[i].no < file[j].no
  /\ recorder = "enabled" /\ open =>
       \A n \in 1 .. acked[s] : \E i \in FramesAt : file[i].by = s /\ file[i].no = n
  /\ writer[s] = "newline" => \E i \in FramesAt : file[i].by = s /\ file[i].no = acked[s] + 1

Numbered == \A s \in Streams : NumberedFor(s)

\* A recorder that drops chunks stays that way.
StaysShut == recorder' = "enabled" /\ open' => recorder = "enabled" /\ open

(* A stream that a step does not concern keeps its frames and its count.     *)
LEMMA NumberedKept ==
  ASSUME TypeOK, NEW s \in Streams, NumberedFor(s), SameFrames, StaysShut \/ acked[s] = 0,
         acked'[s] = acked[s],
         writer[s] \in {"newline", "stopped"} => writer'[s] \in {"newline", "stopped"},
         writer'[s] = "newline" => writer[s] = "newline"
  PROVE  NumberedFor(s)'
<1>1. \A i \in FramesAt : file'[i] = file[i]
  BY DEF SameFrames
<1>2. FramesAt' = FramesAt
  BY DEF SameFrames
<1>3. acked[s] \in Nat
  BY DEF TypeOK
<1> QED
  BY <1>1, <1>2, <1>3 DEF NumberedFor, StaysShut

(* A call of Write or WriteInput that returns without having added a frame.  *)
LEMMA NumberedReturn ==
  ASSUME TypeOK, Guarded, Numbered, SameFrames, UNCHANGED <<recorder, open>>,
         NEW s \in Streams, NEW failed \in {0, 1}, Return(s, failed),
         writer[s] \in {"checking", "frame", "newline"},
         failed = 0 => writer[s] = "newline" \/ ~(recorder = "enabled" /\ open),
         failed = 0 => writer[s] # "frame"
  PROVE  Numbered'
<1>1. StaysShut
  BY DEF StaysShut
<1>2. ASSUME NEW r \in Streams, r # s PROVE NumberedFor(r)'
  <2>1. acked'[r] = acked[r] /\ writer'[r] = writer[r]
    BY <1>2 DEF Return, TypeOK
  <2> QED
    BY <1>1, <2>1, NumberedKept DEF Numbered
<1>3. CASE failed = 1
  <2>1. acked'[s] = acked[s] /\ writer'[s] = "stopped"
    BY <1>3 DEF Return, TypeOK
  <2>2. NumberedFor(s)'
    BY <1>1, <2>1, NumberedKept DEF Numbered
  <2> QED
    BY <1>2, <2>2 DEF Numbered
<1>4. CASE failed = 0
  <2>1. acked'[s] = acked[s] + 1 /\ writer'[s] = "ready" /\ acked[s] \in Nat
    BY <1>4 DEF Return, TypeOK
  <2>2. FramesAt' = FramesAt /\ \A i \in FramesAt : file'[i] = file[i]
    BY DEF SameFrames
  <2>3. NumberedFor(s)
    BY DEF Numbered
  <2>4. \A i \in FramesAt : file[i].by = s => file[i].no \in 1 .. acked[s] + 1
    BY <2>3 DEF NumberedFor
  <2>5. writer[s] = "newline" \/ ~(recorder' = "enabled" /\ open')
    BY <1>4
  <2>6. ASSUME recorder' = "enabled" /\ open', NEW n \in 1 .. acked[s] + 1
        PROVE  \E i \in FramesAt : file[i].by = s /\ file[i].no = n
    <3>1. CASE n = acked[s] + 1
      BY <2>3, <2>5, <2>6, <3>1 DEF NumberedFor
    <3>2. CASE n \in 1 .. acked[s]
      BY <2>3, <2>6, <3>2 DEF NumberedFor
    <3> QED
      BY <2>1, <3>1, <3>2
  <2>7. NumberedFor(s)'
    BY <2>1, <2>2, <2>3, <2>4, <2>6 DEF NumberedFor
  <2> QED
    BY <1>2, <2>7 DEF Numbered
<1> QED
  BY <1>3, <1>4

(* A writer's frame is its next chunk.                                       *)
LEMMA NumberedAdded ==
  ASSUME TypeOK, Numbered, UNCHANGED <<recorder, open>>,
         NEW s \in Streams, writer[s] = "frame", AddsFrame(Frame(s, stamp[s])),
         \/ writer' = [writer EXCEPT ![s] = "newline"] /\ UNCHANGED acked
         \/ Return(s, 0)
  PROVE  Numbered'
<1> DEFINE last == Len(file) + 1
<1>1. /\ FramesAt' = FramesAt \cup {last}
      /\ \A i \in FramesAt : i \in Nat /\ i < last /\ file'[i] = file[i]
      /\ last \in Nat /\ last \notin FramesAt
  BY FramesWhole DEF AddsFrame
<1>2. file'[last].by = s /\ file'[last].no = acked[s] + 1
  BY FrameType DEF AddsFrame
<1> HIDE DEF last
<1>3. ASSUME NEW r \in Streams, r # s PROVE NumberedFor(r)'
  <2>1. acked'[r] = acked[r] /\ writer'[r] = writer[r] /\ acked[r] \in Nat
    BY <1>3 DEF Return, TypeOK
  <2>2. NumberedFor(r)
    BY DEF Numbered
  <2>3. \A i \in FramesAt' : file'[i].by = r => i \in FramesAt /\ file'[i] = file[i]
    BY <1>1, <1>2, <1>3
  <2> QED
    BY <1>1, <2>1, <2>2, <2>3 DEF NumberedFor
<1>4. NumberedFor(s)'
  <2>1. acked[s] \in Nat /\ NumberedFor(s)
    BY DEF TypeOK, Numbered
  <2>2. \A i \in FramesAt : file[i].by = s => file[i].no \in 1 .. acked[s]
    BY <2>1 DEF NumberedFor
  <2>3. \A i \in FramesAt' : file'[i].by = s => file'[i].no \in 1 .. acked[s] + 1
    BY <1>1, <1>2, <2>1, <2>2
  <2>4. \A i, j \in FramesAt' :
          file'[i].by = s /\ file'[j].by = s /\ i < j => file'[i].no < file'[j].no
    <3> SUFFICES ASSUME NEW i \in FramesAt', NEW j \in FramesAt',
                        file'[i].by = s, file'[j].by = s, i < j
                 PROVE  file'[i].no < file'[j].no
      OBVIOUS
    <3>1. i \in FramesAt
      BY <1>1
    <3>2. CASE j \in FramesAt
      BY <1>1, <2>1, <3>1, <3>2 DEF NumberedFor
    <3>3. CASE j = last
      BY <1>1, <1>2, <2>1, <2>2, <3>1, <3>3
    <3> QED
      BY <1>1, <3>2, <3>3
  <2>5. recorder' = "enabled" /\ open' =>
          \A n \in 1 .. acked[s] + 1 : \E i \in FramesAt' : file'[i].by = s /\ file'[i].no = n
    <3> SUFFICES ASSUME recorder = "enabled" /\ open, NEW n \in 1 .. acked[s] + 1
                 PROVE  \E i \in FramesAt' : file'[i].by = s /\ file'[i].no = n
      OBVIOUS
    <3>1. CASE n = acked[s] + 1
      BY <1>1, <1>2, <3>1
    <3>2. CASE n \in 1 .. acked[s]
      BY <1>1, <2>1, <3>2 DEF NumberedFor
    <3> QED
      BY <2>1, <3>1, <3>2
  <2>6. CASE writer' = [writer EXCEPT ![s] = "newline"] /\ UNCHANGED acked
    <3>1. writer'[s] = "newline" /\ acked'[s] = acked[s]
      BY <2>6 DEF TypeOK
    <3> QED
      BY <1>1, <1>2, <2>1, <2>3, <2>4, <2>5, <3>1 DEF NumberedFor
  <2>7. CASE Return(s, 0)
    <3>1. writer'[s] = "ready" /\ acked'[s] = acked[s] + 1
      BY <2>7 DEF Return, TypeOK
    <3> QED
      BY <2>1, <2>3, <2>4, <2>5, <3>1 DEF NumberedFor
  <2> QED
    BY <2>6, <2>7
<1> QED
  BY <1>3, <1>4 DEF Numbered

(* Every step keeps Numbered.                                                *)
LEMMA NumberedStep ==
  ASSUME TypeOK, Guarded, Numbered, [Next]_vars
  PROVE  Numbered'
<1>1. ASSUME SameFrames, UNCHANGED acked,
             StaysShut \/ \A s \in Streams : acked[s] = 0,
             \A s \in Streams : writer'[s] = writer[s] \/ {writer[s], writer'[s]} \cap {"newline", "stopped"} = {}
      PROVE  Numbered'
  BY <1>1, NumberedKept DEF Numbered
<1>2. CASE UNCHANGED vars \/ CreateFails \/ Close \/ Tick
  BY <1>1, <1>2, FileKept DEF vars, CreateFails, Close, Tick, StaysShut
<1>3. CASE CreateAsciinema \/ CreateScript
  <2>1. SameFrames
    BY <1>3, CreationKeepsFrames
  <2>2. recorder = "new" /\ UNCHANGED <<writer, acked>>
    BY <1>3 DEF CreateAsciinema, CreateScript
  <2>3. \A s \in Streams : acked[s] = 0
    BY <2>2 DEF Guarded
  <2> QED
    BY <1>1, <2>1, <2>2, <2>3
<1>4. ASSUME NEW s \in Streams, Lock(s) \/ Stamp(s) PROVE Numbered'
  <2>1. /\ UNCHANGED <<file, acked, recorder, open>>
        /\ \/ writer[s] = "ready" /\ writer' = [writer EXCEPT ![s] = "checking"]
           \/ writer[s] = "checking" /\ writer' = [writer EXCEPT ![s] = "frame"]
    BY <1>4 DEF Lock, Stamp
  <2>2. \A r \in Streams : writer'[r] = writer[r] \/ {writer[r], writer'[r]} \cap {"newline", "stopped"} = {}
    BY <2>1 DEF TypeOK
  <2> QED
    BY <1>1, <2>1, <2>2, FileKept DEF StaysShut
<1>5. ASSUME NEW s \in Streams, Drop(s) PROVE Numbered'
  BY <1>5, FileKept, NumberedReturn DEF Drop
<1>6. ASSUME NEW s \in Streams, WriteFrame(s) \/ WriteChunk(s) PROVE Numbered'
  <2>1. writer[s] = "frame" /\ UNCHANGED <<recorder, open>>
    BY <1>6 DEF WriteFrame, WriteChunk
  <2>2. CASE SameFrames /\ Return(s, 1)
    BY <2>1, <2>2, NumberedReturn
  <2>3. CASE /\ AddsFrame(Frame(s, stamp[s]))
             /\ \/ writer' = [writer EXCEPT ![s] = "newline"] /\ UNCHANGED acked
                \/ Return(s, 0)
    BY <2>1, <2>3, NumberedAdded
  <2> QED
    BY <1>6, <2>2, <2>3, FrameWritten
<1>7. ASSUME NEW s \in Streams, WriteNewline(s) PROVE Numbered'
  <2>1. PICK out \in Outcomes(file, Newline) : file' = out.file /\ Return(s, out.failed)
    BY <1>7 DEF WriteNewline
  <2>2. writer[s] = "newline" /\ UNCHANGED <<recorder, open>>
    BY <1>7 DEF WriteNewline
  <2>3. SameFrames /\ out.failed \in {0, 1}
    BY <2>1, MarkKeepsFrames, OutcomeShape, WholeShape DEF Marks
  <2> QED
    BY <2>1, <2>2, <2>3, NumberedReturn
<1>8. CASE CloseFile
  <2>1. closer = "closing" /\ open' = FALSE /\ UNCHANGED <<writer, acked, recorder>>
    BY <1>8 DEF CloseFile
  <2>2. \A s \in Streams : writer[s] # "frame"
    BY <2>1, StreamsAssumption DEF Guarded
  <2>3. SameFrames
    BY <2>2, FramesStep
  <2> QED
    BY <1>1, <2>1, <2>3 DEF StaysShut
<1> QED
  BY <1>2, <1>3, <1>4, <1>5, <1>6, <1>7, <1>8 DEF Next, Record, Idle

(* The numbering is what AcknowledgedKept asks for.                          *)
LEMMA NumberedKeeps ==
  ASSUME TypeOK, Numbered
  PROVE  AcknowledgedKept
<1> SUFFICES ASSUME recorder = "enabled" /\ open, NEW s \in Streams
             PROVE  /\ \A n \in 1 .. acked[s] : Cardinality(PlacesOf(s, n)) = 1
                    /\ \A i, j \in FramesAt :
                         file[i].by = s /\ file[j].by = s /\ i < j => file[i].no < file[j].no
  BY DEF AcknowledgedKept
<1>1. NumberedFor(s)
  BY DEF Numbered
<1>2. ASSUME NEW n \in 1 .. acked[s] PROVE Cardinality(PlacesOf(s, n)) = 1
  <2>1. PICK i \in FramesAt : file[i].by = s /\ file[i].no = n
    BY <1>1, <1>2 DEF NumberedFor
  <2>2. ASSUME NEW j \in FramesAt, file[j].by = s, file[j].no = n PROVE j = i
    <3>1. i \in Nat /\ j \in Nat /\ file[i].no \in Nat
      BY FramesWhole DEF Frames
    <3>2. ~(i < j) /\ ~(j < i)
      BY <1>1, <2>1, <2>2, <3>1 DEF NumberedFor
    <3> QED
      BY <3>1, <3>2
  <2>3. PlacesOf(s, n) = {i}
    BY <2>1, <2>2 DEF PlacesOf
  <2> QED
    BY <2>3, FS_Singleton
<1> QED
  BY <1>1, <1>2 DEF NumberedFor

(* What a copier was told is recorded is in the file while its recorder is   *)
(* open, once and in order, however many writes fail: a write that fails     *)
(* ends its copier before another chunk of the stream can get the number     *)
(* (recording.go:148-214, server.go:876-883).                                *)
THEOREM AcknowledgedIsKept == Spec => []AcknowledgedKept
<1>1. Init => Numbered
  BY DEF Init, Numbered, NumberedFor, FramesAt
<1>2. TypeOK /\ Guarded /\ Numbered /\ [Next]_vars => Numbered'
  BY NumberedStep
<1>3. TypeOK /\ Numbered => AcknowledgedKept
  BY NumberedKeeps
<1> QED
  BY <1>1, <1>2, <1>3, TypeCorrect, MutexHeld, PTL DEF Spec

------------------------------------------------------------------------------
(* What a failing write spoils *)

\* Frames that do not begin a line.
Spoilt == {i \in FramesAt : i > 1 /\ file[i - 1] # Newline}

\* The next frame will not begin a line.
Ragged ==
  /\ file # <<>> /\ file[Len(file)] # Newline
  /\ \A s \in Streams : writer[s] # "newline"

\* Every frame that does not begin a line, and the one that is going to, is the
\* work of a failure of its own.
Tally ==
  format = "asciinema" => Cardinality(Spoilt) + (IF Ragged THEN 1 ELSE 0) <= failures

\* What is acknowledged ends its line; what waits for its newline comes last.
FollowedFor(s) ==
  /\ \A i \in FramesAt : file[i].by = s /\ file[i].no <= acked[s] =>
       i < Len(file) /\ file[i + 1] = Newline
  /\ writer[s] = "newline" => Len(file) \in FramesAt /\ file[Len(file)].by = s

Followed == format = "asciinema" => \A s \in Streams : FollowedFor(s)

(* The spoilt frames are places of the file, so they can be counted.         *)
LEMMA SpoiltFinite ==
  ASSUME TypeOK
  PROVE  IsFiniteSet(Spoilt) /\ Cardinality(Spoilt) \in Nat
<1>1. Spoilt \subseteq 1 .. Len(file) /\ Len(file) \in Nat
  BY FramesWhole DEF Spoilt
<1>2. IsFiniteSet(1 .. Len(file))
  BY <1>1, FS_Interval
<1> QED
  BY <1>1, <1>2, FS_Subset, FS_CardinalityType

(* The file stays, or gets a mark: no frame is spoilt.                       *)
LEMMA SpoiltKept ==
  ASSUME TypeOK, file' = file \/ \E e \in Marks : file' = Append(file, e)
  PROVE  Spoilt' = Spoilt
<1>1. CASE file' = file
  BY <1>1 DEF Spoilt, FramesAt
<1>2. ASSUME NEW e \in Marks, file' = Append(file, e) PROVE Spoilt' = Spoilt
  <2>1. e \in Pieces
    BY FramesAndMarks
  <2>2. FramesAt' = FramesAt
    BY <1>2, MarkAppended DEF SameFrames
  <2>3. \A i \in FramesAt : i \in 1 .. Len(file)
    BY FramesWhole
  <2>4. \A i \in 1 .. Len(file) : file'[i] = file[i]
    BY <1>2, <2>1, AppendFacts
  <2>5. Len(file) \in Nat
    BY FramesWhole
  <2>6. \A i \in FramesAt : i > 1 => file'[i - 1] = file[i - 1]
    BY <2>3, <2>4, <2>5
  <2> QED
    BY <2>2, <2>6 DEF Spoilt
<1> QED
  BY <1>1, <1>2

(* A frame spoils itself if the last line has not ended, and no other frame. *)
LEMMA SpoiltAdded ==
  ASSUME TypeOK, NEW e \in Frames, file' = Append(file, e)
  PROVE  \/ Spoilt' = Spoilt
         \/ /\ file # <<>> /\ file[Len(file)] # Newline
            /\ Spoilt' = Spoilt \cup {Len(file) + 1} /\ Len(file) + 1 \notin Spoilt
<1> DEFINE last == Len(file)
<1>1. e \in Pieces
  BY FramesAndMarks
<1>2. last \in Nat /\ \A i \in 1 .. last : file'[i] = file[i]
  BY <1>1, AppendFacts
<1>3. FramesAt' = FramesAt \cup {last + 1}
  BY FrameAppended DEF AddsFrame
<1>4. \A i \in FramesAt : i \in 1 .. last
  BY FramesWhole
<1>5. \A i \in FramesAt : i > 1 => file'[i - 1] = file[i - 1]
  BY <1>2, <1>4
<1>6. CASE last = 0
  <2>1. FramesAt = {} /\ ~(1 > 1) /\ FramesAt' = {1}
    BY <1>3, <1>4, <1>6
  <2> QED
    BY <2>1 DEF Spoilt
<1>7. CASE last # 0
  <2>1. file # <<>> /\ file'[last + 1 - 1] = file[last] /\ last + 1 > 1 /\ last + 1 \notin FramesAt
    BY <1>2, <1>4, <1>7 DEF TypeOK
  <2>2. Spoilt' = {i \in FramesAt : i > 1 /\ file[i - 1] # Newline}
                    \cup {i \in {last + 1} : file[last] # Newline}
    <3>1. Spoilt' = {i \in FramesAt' : i > 1 /\ file'[i - 1] # Newline}
      BY DEF Spoilt, Newline
    <3>2. {i \in FramesAt' : i > 1 /\ file'[i - 1] # Newline}
            = {i \in FramesAt : i > 1 /\ file'[i - 1] # Newline}
              \cup {i \in {last + 1} : i > 1 /\ file'[i - 1] # Newline}
      BY <1>3
    <3>3. {i \in {last + 1} : i > 1 /\ file'[i - 1] # Newline}
            = {i \in {last + 1} : file[last] # Newline}
      BY <2>1
    <3>4. {i \in FramesAt : i > 1 /\ file'[i - 1] # Newline}
            = {i \in FramesAt : i > 1 /\ file[i - 1] # Newline}
      BY <1>5
    <3> QED
      BY <3>1, <3>2, <3>3, <3>4
  <2>3. CASE file[last] = Newline
    BY <2>2, <2>3 DEF Spoilt
  <2>4. CASE file[last] # Newline
    BY <2>1, <2>2, <2>4 DEF Spoilt
  <2> QED
    BY <2>3, <2>4
<1> QED
  BY <1>6, <1>7

(* A write that fails puts no frame in the file.                             *)
LEMMA FailureSpoils ==
  ASSUME TypeOK, NEW e, NEW out \in Failed(file, e), file' = out.file
  PROVE  file' = file \/ \E m \in Marks : file' = Append(file, m)
BY FailedShape DEF Marks

\* Nobody comes to wait for a newline, and nobody stops waiting.
SameWaiting == \A s \in Streams : writer'[s] = "newline" <=> writer[s] = "newline"

(* The count stands when neither file nor failures nor waiting changes.      *)
LEMMA TallyKept ==
  ASSUME Tally, UNCHANGED <<format, file, failures>>, SameWaiting
  PROVE  Tally'
<1>1. Spoilt' = Spoilt
  BY DEF Spoilt, FramesAt
<1>2. Ragged' <=> Ragged
  BY DEF Ragged, SameWaiting
<1> QED
  BY <1>1, <1>2 DEF Tally

(* A failure pays for one ragged line.                                       *)
LEMMA TallyFails ==
  ASSUME TypeOK, Tally, format' = format, failures' = failures + 1,
         file' = file \/ \E e \in Marks : file' = Append(file, e)
  PROVE  Tally'
<1>1. Spoilt' = Spoilt /\ Cardinality(Spoilt) \in Nat /\ failures \in Nat
  BY SpoiltKept, SpoiltFinite DEF TypeOK
<1> QED
  BY <1>1 DEF Tally

(* One writer is inside at a time.                                           *)
LEMMA OneWriter ==
  ASSUME Guarded, NEW s \in Streams, writer[s] \in {"checking", "frame", "newline"}
  PROVE  /\ \A r \in Streams : r # s => writer[r] # "newline"
         /\ mutex = s /\ closer # "closing" /\ recorder # "new"
BY StreamsAssumption DEF Guarded

(* The header's line: if it does not end, a write has failed.                *)
LEMMA TallyCreated ==
  ASSUME TypeOK, TypeOK', Guarded, CreateAsciinema
  PROVE  Tally'
<1>1. PICK head \in Outcomes(<<>>, Header) : \E end \in Outcomes(head.file, Newline) :
        file' = end.file /\ failures' = failures + head.failed + end.failed
  BY DEF CreateAsciinema
<1>2. PICK end \in Outcomes(head.file, Newline) :
        file' = end.file /\ failures' = failures + head.failed + end.failed
  BY <1>1
<1>3. <<>> \in Seq(Pieces) /\ Header \in Pieces /\ Newline \in Pieces
  BY DEF Pieces
<1>4. head.file \in Seq(Pieces) /\ head.failed \in {0, 1} /\ end.failed \in {0, 1}
  BY <1>3, OutcomeType
<1>5. Spoilt' = {}
  <2>1. FramesAt' = {}
    BY CreationKeepsFrames DEF SameFrames
  <2> QED
    BY <2>1 DEF Spoilt
<1>6. Ragged' => end.failed = 1
  <2>1. CASE end = Whole(head.file, Newline)
    <3>1. file' = Append(head.file, Newline)
      BY <1>2, <2>1, WholeShape
    <3>2. file'[Len(file')] = Newline
      BY <1>3, <1>4, <3>1
    <3> QED
      BY <3>2 DEF Ragged, Newline
  <2>2. CASE end.failed = 1
    BY <2>2
  <2> QED
    BY <2>1, <2>2, OutcomeShape
<1>7. Cardinality(Spoilt') = 0
  BY <1>5, FS_EmptySet
<1>8. failures \in Nat /\ failures' = failures + head.failed + end.failed
  BY <1>2 DEF TypeOK
<1>9. Cardinality(Spoilt') + (IF Ragged' THEN 1 ELSE 0) <= failures'
  BY <1>4, <1>6, <1>7, <1>8
<1> QED
  BY <1>9 DEF Tally

(* A write of a frame either fails, or spoils the frame only if the line     *)
(* before it is ragged, which it then is no longer.                          *)
LEMMA TallyFrame ==
  ASSUME TypeOK, Guarded, Tally, NEW s \in Streams, WriteFrame(s)
  PROVE  Tally'
<1>1. format = "asciinema" /\ writer[s] = "frame" /\ UNCHANGED format
  BY DEF WriteFrame
<1>2. CASE /\ file' = Whole(file, Frame(s, stamp[s])).file
           /\ writer' = [writer EXCEPT ![s] = "newline"]
           /\ UNCHANGED <<mutex, acked, failures>>
  <2>1. Frame(s, stamp[s]) \in Frames
    BY FrameType
  <2>2. file' = Append(file, Frame(s, stamp[s]))
    BY <1>2, WholeShape
  <2>3. ~Ragged'
    BY <1>2 DEF Ragged, TypeOK
  <2>4. \A r \in Streams : writer[r] # "newline"
    BY <1>1, OneWriter
  <2>5. IsFiniteSet(Spoilt) /\ Cardinality(Spoilt) \in Nat /\ failures \in Nat
    BY SpoiltFinite DEF TypeOK
  <2>6. CASE Spoilt' = Spoilt
    BY <1>1, <1>2, <2>3, <2>5, <2>6 DEF Tally
  <2>7. CASE /\ file # <<>> /\ file[Len(file)] # Newline
             /\ Spoilt' = Spoilt \cup {Len(file) + 1} /\ Len(file) + 1 \notin Spoilt
    <3>1. Ragged
      BY <2>4, <2>7 DEF Ragged
    <3>2. Cardinality(Spoilt') = Cardinality(Spoilt) + 1
      BY <2>5, <2>7, FS_AddElement
    <3> QED
      BY <1>1, <1>2, <2>3, <2>5, <3>1, <3>2 DEF Tally
  <2> QED
    BY <2>1, <2>2, <2>6, <2>7, SpoiltAdded
<1>3. ASSUME NEW out \in Failed(file, Frame(s, stamp[s])), file' = out.file,
             Return(s, out.failed)
      PROVE  Tally'
  <2>1. failures' = failures + 1
    BY <1>3, FailedShape DEF Return
  <2> QED
    BY <1>1, <1>3, <2>1, FailureSpoils, TallyFails
<1> QED
  BY <1>2, <1>3 DEF WriteFrame

(* A newline ends its line, or its write fails and leaves it ragged.         *)
LEMMA TallyNewline ==
  ASSUME TypeOK, Tally, NEW s \in Streams, WriteNewline(s)
  PROVE  Tally'
<1>1. UNCHANGED format
  BY DEF WriteNewline
<1>2. PICK out \in Outcomes(file, Newline) : file' = out.file /\ Return(s, out.failed)
  BY DEF WriteNewline
<1>3. CASE out = Whole(file, Newline)
  <2>1. file' = Append(file, Newline) /\ out.failed = 0
    BY <1>2, <1>3, WholeShape
  <2>2. failures' = failures
    BY <1>2, <2>1 DEF Return, TypeOK
  <2>3. Newline \in Marks /\ Newline \in Pieces
    BY FramesAndMarks DEF Marks
  <2>4. Spoilt' = Spoilt
    BY <2>1, <2>3, SpoiltKept
  <2>5. file'[Len(file')] = Newline
    BY <2>1, <2>3, AppendFacts
  <2>6. ~Ragged'
    BY <2>5 DEF Ragged, Newline
  <2>7. Cardinality(Spoilt) \in Nat /\ failures \in Nat
    BY SpoiltFinite DEF TypeOK
  <2> QED
    BY <1>1, <2>2, <2>4, <2>6, <2>7 DEF Tally
<1>4. CASE out \in Failed(file, Newline)
  <2>1. failures' = failures + 1
    BY <1>2, <1>4, FailedShape DEF Return
  <2> QED
    BY <1>1, <1>2, <1>4, <2>1, FailureSpoils, TallyFails
<1> QED
  BY <1>3, <1>4, OutcomeShape

(* Every step keeps Tally.                                                   *)
LEMMA TallyStep ==
  ASSUME TypeOK, TypeOK', Guarded, Tally, [Next]_vars
  PROVE  Tally'
<1>1. CASE UNCHANGED vars \/ CreateFails \/ Close \/ Tick
  BY <1>1, TallyKept DEF vars, CreateFails, Close, Tick, SameWaiting
<1>2. CASE CreateScript
  BY <1>2 DEF CreateScript, Tally
<1>3. ASSUME NEW s \in Streams, Lock(s) \/ Stamp(s) PROVE Tally'
  BY <1>3, TallyKept DEF Lock, Stamp, SameWaiting, TypeOK
<1>4. ASSUME NEW s \in Streams, Drop(s) PROVE Tally'
  <2>1. UNCHANGED <<format, file, failures>> /\ writer[s] = "checking" /\ Return(s, 0)
    BY <1>4 DEF Drop, Return, TypeOK
  <2>2. SameWaiting
    BY <2>1, ReturnWrites DEF SameWaiting
  <2> QED
    BY <2>1, <2>2, TallyKept
<1>5. ASSUME NEW s \in Streams, WriteChunk(s) PROVE Tally'
  BY <1>5 DEF WriteChunk, Tally
<1>6. CASE CloseFile
  <2>1. CASE format = "asciinema"
    <3>1. UNCHANGED <<format, file, writer>> /\ failures' = failures + 0
      BY <1>6, <2>1 DEF CloseFile
    <3> QED
      BY <3>1, TallyKept DEF SameWaiting, TypeOK
  <2>2. CASE format # "asciinema"
    BY <1>6, <2>2 DEF CloseFile, Tally
  <2> QED
    BY <2>1, <2>2
<1> QED
  BY <1>1, <1>2, <1>3, <1>4, <1>5, <1>6, TallyCreated, TallyFrame, TallyNewline
     DEF Next, Record, Idle

(* A stream keeps what it has if its frames stay, at places that are         *)
(* followed by what followed them.                                           *)
LEMMA FollowedKept ==
  ASSUME TypeOK, NEW s \in Streams, FollowedFor(s),
         file' = file \/ \E e \in Pieces : file' = Append(file, e),
         acked'[s] = acked[s], writer'[s] # "newline",
         \A i \in FramesAt' : file'[i].by = s /\ file'[i].no <= acked[s] => i \in FramesAt
  PROVE  FollowedFor(s)'
<1>1. CASE file' = file
  BY <1>1 DEF FollowedFor, FramesAt
<1>2. ASSUME NEW e \in Pieces, file' = Append(file, e) PROVE FollowedFor(s)'
  <2>1. /\ Len(file) \in Nat /\ Len(file') = Len(file) + 1
        /\ \A i \in 1 .. Len(file) : file'[i] = file[i]
    BY <1>2, AppendFacts
  <2>2. ASSUME NEW i \in FramesAt', file'[i].by = s, file'[i].no <= acked[s]
        PROVE  i < Len(file') /\ file'[i + 1] = Newline
    <3>1. i \in FramesAt /\ i \in 1 .. Len(file)
      BY <2>2, FramesWhole
    <3>2. file[i].by = s /\ file[i].no <= acked[s]
      BY <2>1, <2>2, <3>1
    <3>3. i < Len(file) /\ file[i + 1] = Newline
      BY <3>1, <3>2 DEF FollowedFor
    <3> QED
      BY <2>1, <3>1, <3>3
  <2> QED
    BY <2>2 DEF FollowedFor, Newline
<1> QED
  BY <1>1, <1>2

(* An unfinished frame is followed by nothing but its own newline.           *)
LEMMA FollowedFrame ==
  ASSUME TypeOK, Guarded, Followed, NEW s \in Streams, WriteFrame(s)
  PROVE  Followed'
<1>1. format = "asciinema" /\ writer[s] = "frame" /\ UNCHANGED format
  BY DEF WriteFrame
<1>2. \A r \in Streams : FollowedFor(r)
  BY <1>1 DEF Followed
<1>3. \A r \in Streams : r # s => writer[r] # "newline"
  BY <1>1, OneWriter
<1>4. CASE /\ file' = Whole(file, Frame(s, stamp[s])).file
           /\ writer' = [writer EXCEPT ![s] = "newline"]
           /\ UNCHANGED <<mutex, acked, failures>>
  <2> DEFINE last == Len(file) + 1
  <2>1. /\ Frame(s, stamp[s]) \in Frames /\ Frame(s, stamp[s]) \in Pieces
        /\ file' = Append(file, Frame(s, stamp[s]))
    BY <1>4, FrameType, FramesAndMarks, WholeShape
  <2>2. /\ FramesAt' = FramesAt \cup {last} /\ file'[last] = Frame(s, stamp[s])
        /\ file'[last].by = s /\ file'[last].no = acked[s] + 1
    BY <2>1, FrameAppended, FrameType DEF AddsFrame
  <2>3. Len(file) \in Nat /\ Len(file') = last /\ \A i \in 1 .. Len(file) : file'[i] = file[i]
    BY <2>1, AppendFacts
  <2>4. ASSUME NEW r \in Streams, NEW i \in FramesAt', file'[i].by = r, file'[i].no <= acked[r]
        PROVE  i < Len(file') /\ file'[i + 1] = Newline
    <3>1. i # last
      <4>1. acked[s] \in Nat
        BY DEF TypeOK
      <4> QED
        BY <2>2, <2>4, <4>1
    <3>2. i \in FramesAt /\ i \in 1 .. Len(file)
      BY <2>2, <3>1, FramesWhole
    <3>3. i < Len(file) /\ file[i + 1] = Newline
      BY <1>2, <2>3, <2>4, <3>2 DEF FollowedFor
    <3> QED
      BY <2>3, <3>2, <3>3
  <2>5. \A r \in Streams : writer'[r] = "newline" => r = s
    BY <1>3, <1>4 DEF TypeOK
  <2>6. \A r \in Streams : FollowedFor(r)'
    BY <1>4, <2>2, <2>3, <2>4, <2>5 DEF FollowedFor, Newline
  <2> QED
    BY <2>6 DEF Followed
<1>5. ASSUME NEW out \in Failed(file, Frame(s, stamp[s])), file' = out.file,
             Return(s, out.failed)
      PROVE  Followed'
  <2>1. out.failed = 1 /\ SameFrames /\ \/ file' = file
                                        \/ \E e \in Marks : file' = Append(file, e)
    BY <1>5, FailureSpoils, FailureKeepsFrames
  <2>2. acked' = acked /\ \A r \in Streams : writer'[r] # "newline"
    <3>1. writer'[s] # "newline" /\ \A r \in Streams \ {s} : writer'[r] = writer[r]
      BY <1>5, ReturnWrites
    <3>2. acked' = acked
      BY <1>5, <2>1 DEF Return
    <3> QED
      BY <1>3, <3>1, <3>2
  <2>3. \A i \in FramesAt' : i \in FramesAt
    BY <2>1 DEF SameFrames
  <2>4. \A r \in Streams : FollowedFor(r)'
    BY <1>2, <2>1, <2>2, <2>3, FollowedKept, FramesAndMarks
  <2> QED
    BY <2>4 DEF Followed
<1> QED
  BY <1>4, <1>5 DEF WriteFrame

(* The newline that acknowledges a frame is the one that ends its line.      *)
LEMMA FollowedNewline ==
  ASSUME TypeOK, Guarded, Numbered, Followed, NEW s \in Streams, WriteNewline(s)
  PROVE  Followed'
<1> SUFFICES ASSUME format' = "asciinema" PROVE \A r \in Streams : FollowedFor(r)'
  BY DEF Followed
<1>1. format = "asciinema" /\ writer[s] = "newline"
  BY DEF WriteNewline
<1>2. \A r \in Streams : FollowedFor(r)
  BY <1>1 DEF Followed
<1>3. \A r \in Streams : r # s => writer[r] # "newline"
  BY <1>1, OneWriter
<1>4. PICK out \in Outcomes(file, Newline) : file' = out.file /\ Return(s, out.failed)
  BY DEF WriteNewline
<1>5. Newline \in Marks /\ Newline \in Pieces
  BY FramesAndMarks DEF Marks
<1>6. SameFrames
  BY <1>4, <1>5, MarkKeepsFrames
<1>7. \A r \in Streams : writer'[r] # "newline" /\ (r # s => acked'[r] = acked[r])
  BY <1>3, <1>4, ReturnWrites DEF Return, TypeOK
<1>8. FramesAt' = FramesAt /\ \A i \in FramesAt : file'[i] = file[i]
  BY <1>6 DEF SameFrames
<1>9. file' = file \/ \E e \in Pieces : file' = Append(file, e)
  BY <1>4, <1>5, OutcomeShape, WholeShape, FramesAndMarks DEF Marks
<1>10. ASSUME NEW r \in Streams, acked'[r] = acked[r] PROVE FollowedFor(r)'
  BY <1>2, <1>7, <1>8, <1>9, <1>10, FollowedKept
<1>11. CASE out = Whole(file, Newline)
  <2>1. file' = Append(file, Newline) /\ Return(s, 0)
    BY <1>4, <1>11, WholeShape
  <2>2. /\ Len(file) \in Nat /\ Len(file') = Len(file) + 1
        /\ file'[Len(file) + 1] = Newline
        /\ \A i \in 1 .. Len(file) : file'[i] = file[i]
    BY <1>5, <2>1, AppendFacts
  <2>3. acked'[s] = acked[s] + 1 /\ acked[s] \in Nat
    BY <2>1 DEF Return, TypeOK
  <2>4. ASSUME NEW i \in FramesAt, file[i].by = s
        PROVE  i < Len(file') /\ file'[i + 1] = Newline
    <3>1. i \in 1 .. Len(file)
      BY FramesWhole
    <3>2. NumberedFor(s) /\ FollowedFor(s)
      BY <1>2 DEF Numbered
    <3>3. Len(file) \in FramesAt /\ file[Len(file)].by = s
      BY <1>1, <3>2 DEF FollowedFor
    <3>4. CASE i = Len(file)
      BY <2>2, <3>4
    <3>5. CASE i < Len(file)
      <4>1. file[i].no < file[Len(file)].no /\ file[Len(file)].no \in 1 .. acked[s] + 1
            /\ file[i].no \in 1 .. acked[s] + 1
        BY <2>4, <3>2, <3>3, <3>5 DEF NumberedFor
      <4>2. file[i].no <= acked[s]
        BY <2>3, <4>1
      <4>3. file[i + 1] = Newline
        BY <2>4, <3>2, <4>2 DEF FollowedFor
      <4> QED
        BY <2>2, <3>1, <3>5, <4>3
    <3> QED
      BY <2>2, <3>1, <3>4, <3>5
  <2>5. FollowedFor(s)'
    BY <1>7, <1>8, <2>4 DEF FollowedFor, Newline
  <2> QED
    BY <1>7, <1>10, <2>5
<1>12. CASE out \in Failed(file, Newline)
  <2>1. acked'[s] = acked[s]
    BY <1>4, <1>12, FailedShape DEF Return
  <2> QED
    BY <1>7, <1>10, <2>1
<1> QED
  BY <1>4, <1>11, <1>12, OutcomeShape

(* Every step keeps Followed.                                                *)
LEMMA FollowedStep ==
  ASSUME TypeOK, Guarded, Numbered, Followed, [Next]_vars
  PROVE  Followed'
<1>1. ASSUME UNCHANGED <<format, file, acked>>, SameWaiting PROVE Followed'
  BY <1>1 DEF Followed, FollowedFor, FramesAt, SameWaiting, Newline
<1>2. CASE UNCHANGED vars \/ CreateFails \/ Close \/ Tick
  BY <1>1, <1>2 DEF vars, CreateFails, Close, Tick, SameWaiting
<1>3. CASE CreateAsciinema \/ CreateScript
  <2>1. FramesAt' = {}
    BY <1>3, CreationKeepsFrames DEF SameFrames
  <2>2. \A s \in Streams : writer'[s] = "ready"
    BY <1>3 DEF CreateAsciinema, CreateScript, Guarded
  <2> QED
    BY <2>1, <2>2 DEF Followed, FollowedFor
<1>4. ASSUME NEW s \in Streams, Lock(s) \/ Stamp(s) PROVE Followed'
  BY <1>1, <1>4 DEF Lock, Stamp, SameWaiting, TypeOK
<1>5. ASSUME NEW s \in Streams, Drop(s) PROVE Followed'
  <2> SUFFICES ASSUME format' = "asciinema", NEW r \in Streams PROVE FollowedFor(r)'
    BY DEF Followed
  <2>1. /\ UNCHANGED <<format, file>> /\ writer[s] = "checking" /\ Return(s, 0)
        /\ FramesAt' = FramesAt
    BY <1>5 DEF Drop, FramesAt
  <2>2. FollowedFor(r) /\ NumberedFor(s)
    BY <2>1 DEF Followed, Numbered
  <2>3. \A t \in Streams : writer'[t] = "newline" => writer[t] = "newline" /\ t # s
    BY <2>1, ReturnWrites
  <2>4. CASE r # s
    <3>1. acked'[r] = acked[r]
      BY <2>1, <2>4 DEF Return, TypeOK
    <3> QED
      BY <2>1, <2>2, <2>3, <3>1 DEF FollowedFor, Newline
  <2>5. CASE r = s
    <3>1. acked'[s] = acked[s] + 1 /\ acked[s] \in Nat
      BY <2>1 DEF Return, TypeOK
    <3>2. \A i \in FramesAt : file[i].by = s => file[i].no \in Nat /\ file[i].no <= acked[s]
      BY <2>1, <2>2, <3>1 DEF NumberedFor
    <3> QED
      BY <2>1, <2>2, <2>3, <2>5, <3>1, <3>2 DEF FollowedFor, Newline
  <2> QED
    BY <2>4, <2>5
<1>6. ASSUME NEW s \in Streams, WriteChunk(s) PROVE Followed'
  BY <1>6 DEF WriteChunk, Followed
<1>7. CASE CloseFile
  <2>1. CASE format = "asciinema"
    BY <1>1, <1>7, <2>1 DEF CloseFile, SameWaiting
  <2>2. CASE format # "asciinema"
    BY <1>7, <2>2 DEF CloseFile, Followed
  <2> QED
    BY <2>1, <2>2
<1> QED
  BY <1>2, <1>3, <1>4, <1>5, <1>6, <1>7, FollowedFrame, FollowedNewline DEF Next, Record, Idle

(* A write that fails spoils at most one frame besides its own: the frame    *)
(* that then begins in the middle of a line; that frame's newline begins the *)
(* next line (recording.go:159-165).                                         *)
THEOREM DamageIsBounded == Spec => []DamageBounded
<1>1. Init => Tally /\ Followed
  <2> SUFFICES ASSUME Init PROVE Tally /\ Followed
    OBVIOUS
  <2>1. file = <<>> /\ failures = 0 /\ \A s \in Streams : writer[s] = "ready"
    BY DEF Init
  <2>2. FramesAt = {} /\ ~Ragged
    BY <2>1 DEF FramesAt, Ragged
  <2>3. Spoilt = {}
    BY <2>2 DEF Spoilt
  <2>4. Cardinality(Spoilt) = 0
    BY <2>3, FS_EmptySet
  <2> QED
    BY <2>1, <2>2, <2>4 DEF Tally, Followed, FollowedFor
<1>2. TypeOK /\ TypeOK' /\ Guarded /\ Tally /\ [Next]_vars => Tally'
  BY TallyStep
<1>3. TypeOK /\ Guarded /\ Numbered /\ Followed /\ [Next]_vars => Followed'
  BY FollowedStep
<1>4. TypeOK /\ Tally /\ Followed => DamageBounded
  <2> SUFFICES ASSUME TypeOK, Tally, Followed, format = "asciinema"
               PROVE  Cardinality(Damaged) <= failures
    BY DEF DamageBounded
  <2>1. Damaged \subseteq Spoilt
    <3> SUFFICES ASSUME NEW i \in Damaged PROVE i \in Spoilt
      OBVIOUS
    <3>1. i \in FramesAt /\ file[i].no <= acked[file[i].by] /\ ~Legible(i)
      BY DEF Damaged
    <3>2. file[i].by \in Streams
      BY <3>1, FramesWhole DEF Frames
    <3>3. i < Len(file) /\ file[i + 1] = Newline
      BY <3>1, <3>2 DEF Followed, FollowedFor
    <3> QED
      BY <3>1, <3>3 DEF Legible, Spoilt
  <2>2. IsFiniteSet(Spoilt) /\ Cardinality(Spoilt) \in Nat
    BY SpoiltFinite
  <2>3. Cardinality(Damaged) <= Cardinality(Spoilt) /\ Cardinality(Damaged) \in Nat
    BY <2>1, <2>2, FS_Subset, FS_CardinalityType
  <2>4. Cardinality(Spoilt) <= failures /\ failures \in Nat
    BY <2>2 DEF Tally, TypeOK
  <2> QED
    BY <2>2, <2>3, <2>4
<1>5. Init => Numbered
  BY DEF Init, Numbered, NumberedFor, FramesAt
<1>6. TypeOK /\ Guarded /\ Numbered /\ [Next]_vars => Numbered'
  BY NumberedStep
<1> QED
  BY <1>1, <1>2, <1>3, <1>4, <1>5, <1>6, TypeCorrect, MutexHeld, PTL DEF Spec

------------------------------------------------------------------------------
(* The refinement *)

(* Only lines are ended with a newline.                                      *)
LineFormat == \A s \in Streams : writer[s] = "newline" => format = "asciinema"

(* Every step keeps LineFormat: the format is checked before the newline.    *)
LEMMA LineFormatStep ==
  ASSUME TypeOK, LineFormat, [Next]_vars
  PROVE  LineFormat'
<1> USE DEF LineFormat
<1>1. CASE UNCHANGED vars \/ CreateFails \/ Close \/ Tick \/ CloseFile
  BY <1>1 DEF vars, CreateFails, Close, Tick, CloseFile
<1>2. CASE CreateAsciinema \/ CreateScript
  BY <1>2 DEF CreateAsciinema, CreateScript
<1>3. ASSUME NEW s \in Streams, Lock(s) \/ Stamp(s) PROVE LineFormat'
  BY <1>3 DEF Lock, Stamp, TypeOK
<1>4. ASSUME NEW s \in Streams, NEW failed, Return(s, failed), UNCHANGED format
      PROVE  LineFormat'
  BY <1>4, ReturnWrites
<1>5. ASSUME NEW s \in Streams, Drop(s) \/ WriteNewline(s) \/ WriteChunk(s)
      PROVE  LineFormat'
  BY <1>4, <1>5 DEF Drop, WriteNewline, WriteChunk
<1>6. ASSUME NEW s \in Streams, WriteFrame(s) PROVE LineFormat'
  <2>1. format = "asciinema" /\ UNCHANGED format
    BY <1>6 DEF WriteFrame
  <2> QED
    BY <2>1
<1> QED
  BY <1>1, <1>2, <1>3, <1>5, <1>6 DEF Next, Record, Idle

(* A step that changes neither frames nor what is acknowledged.              *)
LEMMA RecordedKept ==
  ASSUME TypeOK, FramesAt \subseteq FramesAt', \A i \in FramesAt : file'[i] = file[i],
         KeptAt' = KeptAt
  PROVE  UNCHANGED <<Recorded, Before>>
<1>1. \A i \in KeptAt : i \in FramesAt /\ file'[i] = file[i]
  BY DEF KeptAt
<1>2. \A i \in KeptAt : Call(i)' = Call(i)
  BY <1>1 DEF Call
<1>3. Recorded' = Recorded
  BY <1>2 DEF Recorded
<1>4. InOrder' = InOrder
  BY DEF InOrder
<1>5. \A p \in InOrder : p[1] \in KeptAt /\ p[2] \in KeptAt
  BY DEF InOrder
<1>6. Before' = Before
  BY <1>2, <1>4, <1>5 DEF Before
<1> QED
  BY <1>3, <1>6

(* A frame that comes to be kept comes after all that are.                   *)
LEMMA RecordedGrows ==
  ASSUME TypeOK, NEW last \in Nat, NEW call, \A i \in KeptAt : file'[i] = file[i],
         KeptAt' = KeptAt \cup {last}, \A i \in KeptAt : i < last,
         call = <<file'[last].by, file'[last].no>>
  PROVE  /\ Recorded' = Recorded \cup {call}
         /\ Before' = Before \cup (Recorded \X {call})
<1>1. \A i \in KeptAt : Call(i)' = Call(i) /\ i \in Nat
  BY FramesWhole DEF Call, KeptAt
<1>2. Call(last)' = call
  BY DEF Call
<1>3. Recorded' = Recorded \cup {call}
  BY <1>1, <1>2 DEF Recorded
<1>4. InOrder' = InOrder \cup (KeptAt \X {last})
  <2>1. ASSUME NEW i \in KeptAt', NEW j \in KeptAt', i < j
        PROVE  <<i, j>> \in InOrder \/ (i \in KeptAt /\ j = last)
    <3>1. i # last
      BY <1>1, <2>1
    <3> QED
      BY <2>1, <3>1 DEF InOrder
  <2>2. ASSUME NEW p \in InOrder' PROVE p \in InOrder \cup (KeptAt \X {last})
    <3>1. p \in KeptAt' \X KeptAt' /\ p[1] < p[2]
      BY DEF InOrder
    <3>2. p = <<p[1], p[2]>>
      BY <3>1
    <3> QED
      BY <2>1, <3>1, <3>2
  <2>3. InOrder \subseteq InOrder'
    BY DEF InOrder
  <2>4. KeptAt \X {last} \subseteq InOrder'
    BY DEF InOrder
  <2> QED
    BY <2>2, <2>3, <2>4
<1>5. Before' = Before \cup (Recorded \X {call})
  <2> DEFINE Pair(p) == <<Call(p[1]), Call(p[2])>>
             New == {<<Call(i), call>> : i \in KeptAt}
  <2>1. \A p \in InOrder : Pair(p)' = Pair(p)
    BY <1>1 DEF InOrder
  <2>2. \A i \in KeptAt : Pair(<<i, last>>)' = <<Call(i), call>>
    BY <1>1, <1>2
  <2>3. Before = {Pair(p) : p \in InOrder} /\ Before' = {Pair(p)' : p \in InOrder'}
    BY DEF Before
  <2> HIDE DEF Pair
  <2>4. Before' = Before \cup New
    <3>1. \A e \in Before : e \in Before'
      BY <1>4, <2>1, <2>3
    <3>2. \A e \in New : e \in Before'
      BY <1>4, <2>2, <2>3
    <3>3. \A e \in Before' : e \in Before \/ e \in New
      BY <1>4, <2>1, <2>2, <2>3
    <3> QED
      BY <3>1, <3>2, <3>3
  <2>5. New = Recorded \X {call}
    BY DEF Recorded
  <2> QED
    BY <2>4, <2>5
<1> QED
  BY <1>3, <1>5

(* What a frame's number says of it: the frame that its writer has not been  *)
(* told of yet is not kept.                                                  *)
LEMMA KeptSame ==
  ASSUME TypeOK, SameFrames, UNCHANGED acked
  PROVE  KeptAt' = KeptAt
BY DEF SameFrames, KeptAt

(* A frame that is not yet acknowledged is not among the kept ones.          *)
LEMMA KeptSoFar ==
  ASSUME TypeOK, NEW s \in Streams, AddsFrame(Frame(s, stamp[s])), UNCHANGED acked
  PROVE  KeptAt' = KeptAt
<1>1. acked[s] \in Nat /\ Len(file) + 1 \notin FramesAt
  BY FramesWhole DEF TypeOK
<1>2. /\ FramesAt' = FramesAt \cup {Len(file) + 1}
      /\ \A i \in FramesAt : file'[i] = file[i]
      /\ file'[Len(file) + 1].by = s /\ file'[Len(file) + 1].no = acked[s] + 1
  BY FrameType DEF AddsFrame
<1>3. ~(file'[Len(file) + 1].no <= acked'[s])
  BY <1>1, <1>2
<1> QED
  BY <1>1, <1>2, <1>3 DEF KeptAt

(* A call of a stream that has no frame under way is not in the file.        *)
LEMMA KeptDropped ==
  ASSUME TypeOK, Numbered, SameFrames, NEW s \in Streams, Return(s, 0), writer[s] = "checking"
  PROVE  KeptAt' = KeptAt
<1>1. /\ acked'[s] = acked[s] + 1 /\ acked[s] \in Nat
      /\ \A r \in Streams \ {s} : acked'[r] = acked[r]
  BY DEF Return, TypeOK
<1>2. \A i \in FramesAt : file[i].by = s => file[i].no \in 1 .. acked[s]
  BY <1>1 DEF Numbered, NumberedFor
<1>3. ASSUME NEW i \in FramesAt
      PROVE  file[i].no <= acked'[file[i].by] <=> file[i].no <= acked[file[i].by]
  <2>1. file[i].by \in Streams
    BY FramesWhole DEF Frames
  <2> QED
    BY <1>1, <1>2, <2>1
<1> QED
  BY <1>3 DEF SameFrames, KeptAt

(* A call that returns without an error keeps its frame, which is the last.  *)
LEMMA KeptGrows ==
  ASSUME TypeOK, Numbered, NEW s \in Streams, Return(s, 0), NEW last \in FramesAt',
         FramesAt \subseteq FramesAt', \A i \in FramesAt : file'[i] = file[i],
         \A i \in FramesAt' : i = last \/ (i \in FramesAt /\ i < last),
         file'[last].by = s, file'[last].no = acked[s] + 1,
         last \in FramesAt \/ writer[s] = "frame"
  PROVE  /\ KeptAt' = KeptAt \cup {last}
         /\ \A i \in KeptAt : i < last
<1>1. /\ acked'[s] = acked[s] + 1 /\ acked[s] \in Nat
      /\ \A r \in Streams \ {s} : acked'[r] = acked[r]
  BY DEF Return, TypeOK
<1>2. last \in KeptAt'
  BY <1>1 DEF KeptAt
<1>3. last \notin KeptAt
  BY <1>1 DEF KeptAt
<1>4. ASSUME NEW i \in FramesAt, i # last
      PROVE  file[i].no <= acked'[file[i].by] <=> file[i].no <= acked[file[i].by]
  <2>1. i \in Nat /\ i < last /\ file[i].by \in Streams /\ file[i].no \in Nat
    BY <1>4, FramesWhole DEF Frames
  <2>2. CASE file[i].by # s
    BY <1>1, <2>1, <2>2
  <2>3. CASE file[i].by = s
    <3>1. file[i].no # acked[s] + 1
      <4>1. CASE last \in FramesAt
        BY <2>1, <2>3, <4>1, <1>1 DEF Numbered, NumberedFor
      <4>2. CASE last \notin FramesAt
        <5>1. ASSUME file[i].no = acked[s] + 1 PROVE writer[s] \in {"newline", "stopped"}
          BY <2>3, <5>1 DEF Numbered, NumberedFor
        <5> QED
          BY <4>2, <5>1
      <4> QED
        BY <4>1, <4>2
    <3> QED
      BY <1>1, <2>1, <2>3, <3>1
  <2> QED
    BY <2>2, <2>3
<1> QED
  BY <1>2, <1>3, <1>4 DEF KeptAt

(* What a copier does when it is told the result, and nobody else.           *)
LEMMA StoppedReturn ==
  ASSUME TypeOK, NEW s \in Streams, writer[s] # "stopped"
  PROVE  /\ s \notin Stopped
         /\ Return(s, 0) => Stopped' = Stopped /\ acked' = [acked EXCEPT ![s] = @ + 1]
         /\ Return(s, 1) => Stopped' = Stopped \cup {s} /\ acked' = acked
BY DEF Return, Stopped, TypeOK

(* A step that none of the mapped state sees is a stutter of Recorder.       *)
LEMMA RefinesStutter ==
  ASSUME UNCHANGED <<State, acked, Recorded, Before, Stopped>>
  PROVE  UNCHANGED Promised!vars
BY DEF Promised!vars

(* A step inside a call, or one that is no copier's.                         *)
LEMMA RefinesQuiet ==
  ASSUME TypeOK, SameFrames, UNCHANGED <<recorder, open, acked>>,
         \A s \in Streams : writer'[s] = "stopped" <=> writer[s] = "stopped"
  PROVE  UNCHANGED Promised!vars
<1>1. UNCHANGED <<Recorded, Before>>
  BY KeptSame, RecordedKept DEF SameFrames
<1>2. Stopped' = Stopped
  BY DEF Stopped
<1>3. State' = State
  BY DEF State
<1> QED
  BY <1>1, <1>2, <1>3, RefinesStutter

(* A call that fails keeps nothing and is the stream's last.                 *)
LEMMA RefinesFail ==
  ASSUME TypeOK, Guarded, SameFrames, NEW s \in Streams, Return(s, 1),
         writer[s] \in {"frame", "newline"}, UNCHANGED <<recorder, open>>
  PROVE  Promised!Fail(s)
<1>1. s \notin Stopped /\ Stopped' = Stopped \cup {s} /\ acked' = acked
  BY StoppedReturn
<1>2. UNCHANGED <<Recorded, Before>>
  BY <1>1, KeptSame, RecordedKept DEF SameFrames
<1>3. State = "open" /\ State' = State
  BY DEF State, Guarded
<1> QED
  BY <1>1, <1>2, <1>3 DEF Promised!Fail

(* A call that returns without an error has put its chunk behind the others. *)
LEMMA RefinesRecord ==
  ASSUME TypeOK, Guarded, Numbered, NEW s \in Streams, Return(s, 0),
         UNCHANGED <<recorder, open>>, writer[s] \in {"frame", "newline"},
         NEW last \in FramesAt',
         FramesAt \subseteq FramesAt', \A i \in FramesAt : file'[i] = file[i],
         \A i \in FramesAt' : i = last \/ (i \in FramesAt /\ i < last),
         file'[last].by = s, file'[last].no = acked[s] + 1,
         last \in FramesAt \/ writer[s] = "frame", last \in Nat
  PROVE  Promised!Record(s)
<1> DEFINE call == <<s, acked[s] + 1>>
<1>1. KeptAt' = KeptAt \cup {last} /\ \A i \in KeptAt : i < last
  BY KeptGrows
<1>2. \A i \in KeptAt : file'[i] = file[i]
  BY DEF KeptAt
<1>3. /\ Recorded' = Recorded \cup {call}
      /\ Before' = Before \cup (Recorded \X {call})
  BY <1>1, <1>2, RecordedGrows
<1>4. /\ s \notin Stopped /\ Stopped' = Stopped
      /\ acked' = [acked EXCEPT ![s] = @ + 1]
  BY StoppedReturn
<1>5. State = "open" /\ State' = State
  BY DEF State, Guarded
<1> QED
  BY <1>3, <1>4, <1>5 DEF Promised!Record, Promised!Returns

(* Every step of the file is a step of the promise, or invisible to it.      *)
LEMMA RefinesStep ==
  ASSUME TypeOK, TypeOK', Guarded, Numbered, Followed, LineFormat, [Next]_vars
  PROVE  [Promised!Next]_Promised!vars
<1>1. CASE UNCHANGED vars \/ Close \/ Tick
  BY <1>1, FileKept, RefinesQuiet DEF vars, Close, Tick
<1>2. CASE CreateFails \/ CreateAsciinema \/ CreateScript
  <2>1. /\ recorder = "new" /\ UNCHANGED <<writer, acked>>
        /\ \/ recorder' = "disabled"
           \/ recorder' = "enabled" /\ open'
    BY <1>2 DEF CreateFails, CreateAsciinema, CreateScript
  <2>2. SameFrames
    BY <1>2, FileKept, CreationKeepsFrames DEF CreateFails
  <2>3. UNCHANGED <<Recorded, Before>>
    BY <2>1, <2>2, KeptSame, RecordedKept DEF SameFrames
  <2>4. State = "new" /\ State' \in {"open", "disabled"} /\ Stopped' = Stopped
    BY <2>1 DEF State, Stopped
  <2>5. Promised!Create
    BY <2>1, <2>3, <2>4 DEF Promised!Create
  <2> QED
    BY <2>5 DEF Promised!Next
<1>3. ASSUME NEW s \in Streams, Lock(s) \/ Stamp(s)
      PROVE  UNCHANGED Promised!vars
  <2>1. /\ UNCHANGED <<file, recorder, open, acked>>
        /\ \/ writer[s] = "ready" /\ writer' = [writer EXCEPT ![s] = "checking"]
           \/ writer[s] = "checking" /\ writer' = [writer EXCEPT ![s] = "frame"]
    BY <1>3 DEF Lock, Stamp
  <2>2. \A r \in Streams : writer'[r] = "stopped" <=> writer[r] = "stopped"
    BY <2>1 DEF TypeOK
  <2> QED
    BY <2>1, <2>2, FileKept, RefinesQuiet
<1>4. ASSUME NEW s \in Streams, Drop(s) PROVE Promised!Drop(s)
  <2>1. /\ writer[s] = "checking" /\ Return(s, 0) /\ ~(recorder = "enabled" /\ open)
        /\ UNCHANGED <<recorder, open, file>>
    BY <1>4 DEF Drop
  <2>2. UNCHANGED <<Recorded, Before>>
    BY <2>1, FileKept, KeptDropped, RecordedKept DEF SameFrames
  <2>3. recorder # "new"
    BY <2>1 DEF Guarded
  <2>4. State \in {"disabled", "closed"} /\ State' = State
    BY <2>1, <2>3 DEF State, TypeOK
  <2>5. /\ s \notin Stopped /\ Stopped' = Stopped
        /\ acked' = [acked EXCEPT ![s] = @ + 1]
    BY <2>1, StoppedReturn
  <2> QED
    BY <2>2, <2>4, <2>5 DEF Promised!Drop, Promised!Returns
<1>5. ASSUME NEW s \in Streams, WriteFrame(s) \/ WriteChunk(s)
      PROVE  Promised!Record(s) \/ Promised!Fail(s) \/ UNCHANGED Promised!vars
  <2>1. writer[s] = "frame" /\ UNCHANGED <<recorder, open>>
    BY <1>5 DEF WriteFrame, WriteChunk
  <2>2. CASE SameFrames /\ Return(s, 1)
    BY <2>1, <2>2, RefinesFail
  <2>3. CASE AddsFrame(Frame(s, stamp[s])) /\ Return(s, 0)
    <3> DEFINE last == Len(file) + 1
    <3>1. /\ last \in FramesAt' /\ last \in Nat
          /\ FramesAt \subseteq FramesAt' /\ \A i \in FramesAt : file'[i] = file[i]
          /\ \A i \in FramesAt' : i = last \/ (i \in FramesAt /\ i < last)
      BY <2>3, FramesWhole DEF AddsFrame
    <3>2. file'[last].by = s /\ file'[last].no = acked[s] + 1
      BY <2>3, FrameType DEF AddsFrame
    <3> HIDE DEF last
    <3> QED
      BY <2>1, <2>3, <3>1, <3>2, RefinesRecord
  <2>4. CASE /\ AddsFrame(Frame(s, stamp[s])) /\ UNCHANGED acked
             /\ writer' = [writer EXCEPT ![s] = "newline"]
    <3>1. UNCHANGED <<Recorded, Before>>
      BY <2>4, KeptSoFar, RecordedKept DEF AddsFrame
    <3>2. Stopped' = Stopped
      BY <2>1, <2>4 DEF Stopped, TypeOK
    <3>3. State' = State
      BY <2>1 DEF State
    <3> QED
      BY <2>4, <3>1, <3>2, <3>3, RefinesStutter
  <2> QED
    BY <1>5, <2>2, <2>3, <2>4, FrameWritten
<1>6. ASSUME NEW s \in Streams, WriteNewline(s)
      PROVE  Promised!Record(s) \/ Promised!Fail(s)
  <2>1. PICK out \in Outcomes(file, Newline) : file' = out.file /\ Return(s, out.failed)
    BY <1>6 DEF WriteNewline
  <2>2. writer[s] = "newline" /\ UNCHANGED <<recorder, open>>
    BY <1>6 DEF WriteNewline
  <2>3. SameFrames /\ out.failed \in {0, 1}
    BY <2>1, MarkKeepsFrames, OutcomeShape, WholeShape DEF Marks
  <2>4. CASE out.failed = 1
    BY <2>1, <2>2, <2>3, <2>4, RefinesFail
  <2>5. CASE out.failed = 0
    <3> DEFINE last == Len(file)
    <3>1. last \in FramesAt /\ file[last].by = s /\ last \in Nat
      BY <2>2, FramesWhole DEF LineFormat, Followed, FollowedFor
    <3>2. \A i \in FramesAt : i = last \/ i < last
      BY FramesWhole
    <3> HIDE DEF last
    <3>3. file[last].no = acked[s] + 1
      <4>1. NumberedFor(s) /\ acked[s] \in Nat
        BY DEF Numbered, TypeOK
      <4>2. PICK i \in FramesAt : file[i].by = s /\ file[i].no = acked[s] + 1
        BY <2>2, <4>1 DEF NumberedFor
      <4>3. file[last].no \in 1 .. acked[s] + 1
        BY <3>1, <4>1 DEF NumberedFor
      <4>4. i < last => file[i].no < file[last].no
        BY <3>1, <4>1, <4>2 DEF NumberedFor
      <4> QED
        BY <3>2, <4>1, <4>2, <4>3, <4>4
    <3>4. /\ last \in FramesAt' /\ FramesAt \subseteq FramesAt'
          /\ \A i \in FramesAt : file'[i] = file[i]
          /\ \A i \in FramesAt' : i = last \/ (i \in FramesAt /\ i < last)
          /\ file'[last].by = s /\ file'[last].no = acked[s] + 1
      BY <2>3, <3>1, <3>2, <3>3 DEF SameFrames
    <3>5. Return(s, 0)
      BY <2>1, <2>5
    <3> QED
      BY <2>2, <3>1, <3>4, <3>5, RefinesRecord
  <2> QED
    BY <2>3, <2>4, <2>5
<1>7. CASE CloseFile
  <2>1. closer = "closing" /\ open' = FALSE /\ UNCHANGED <<writer, acked, recorder>>
    BY <1>7 DEF CloseFile
  <2>2. \A s \in Streams : writer[s] # "frame"
    BY <2>1, StreamsAssumption DEF Guarded
  <2>3. SameFrames
    BY <2>2, FramesStep
  <2>4. UNCHANGED <<Recorded, Before>> /\ Stopped' = Stopped
    BY <2>1, <2>3, KeptSame, RecordedKept DEF SameFrames, Stopped
  <2>5. CASE State = "open"
    <3>1. State' = "closed"
      BY <2>1, <2>5 DEF State, TypeOK
    <3>2. Promised!Close
      BY <2>1, <2>4, <2>5, <3>1 DEF Promised!Close
    <3> QED
      BY <3>2 DEF Promised!Next
  <2>6. CASE State # "open"
    <3>1. State' = State
      BY <2>1, <2>6 DEF State
    <3> QED
      BY <2>1, <2>4, <3>1, RefinesStutter
  <2> QED
    BY <2>5, <2>6
<1> QED
  BY <1>1, <1>2, <1>3, <1>4, <1>5, <1>6, <1>7 DEF Next, Record, Idle, Promised!Next

(* To the copiers the calls of a recorder are atomic: however a frame, its   *)
(* newline and their failures interleave with other copiers, what is         *)
(* acknowledged is appended in one step, and the mutex keeps everybody       *)
(* else's chunks where they are (recording.go:148-245).                      *)
THEOREM CallsAreAtomic == Spec => Atomic
<1>1. Init => Promised!Init
  <2> SUFFICES ASSUME Init PROVE Promised!Init
    OBVIOUS
  <2>1. FramesAt = {} /\ recorder = "new" /\ acked = [s \in Streams |-> 0]
    BY DEF Init, FramesAt
  <2>2. KeptAt = {}
    BY <2>1 DEF KeptAt
  <2>3. Recorded = {} /\ Before = {}
    BY <2>2 DEF Recorded, Before, InOrder
  <2>4. Stopped = {} /\ State = "new"
    BY <2>1 DEF Init, Stopped, State
  <2> QED
    BY <2>1, <2>3, <2>4 DEF Promised!Init
<1>2. Init => Followed /\ LineFormat /\ Numbered
  BY DEF Init, Followed, FollowedFor, LineFormat, Numbered, NumberedFor, FramesAt
<1>3. TypeOK /\ Guarded /\ Numbered /\ Followed /\ [Next]_vars => Numbered' /\ Followed'
  BY NumberedStep, FollowedStep
<1>4. TypeOK /\ LineFormat /\ [Next]_vars => LineFormat'
  BY LineFormatStep
<1>5. /\ TypeOK /\ TypeOK' /\ Guarded /\ Numbered /\ Followed /\ LineFormat /\ [Next]_vars
      => [Promised!Next]_Promised!vars
  BY RefinesStep
<1> QED
  BY <1>1, <1>2, <1>3, <1>4, <1>5, TypeCorrect, MutexHeld, PTL DEF Spec, Atomic, Promised!Spec
==============================================================================
