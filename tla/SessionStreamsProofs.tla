------------------------- MODULE SessionStreamsProofs -------------------------
(***************************************************************************)
(* Theorems about SessionStreams, for any number of output streams and of  *)
(* chunks on each.  They need no fairness.                                 *)
(***************************************************************************)
EXTENDS SessionStreams, TLAPS

LEMMA StdinStream == "stdin" \in Streams /\ Outputs \subseteq Streams
BY DEF Streams

Copiers == {"spawned", "reading", "writing", "recording", "closing", "stopped"}

------------------------------------------------------------------------------
(* Types *)

LEMMA GotoType ==
  ASSUME copier \in [Streams -> Copiers], NEW s \in Streams, NEW from, NEW to \in Copiers,
         CopierGoto(s, from, to)
  PROVE  /\ copier' \in [Streams -> Copiers]
         /\ copier[s] = from /\ copier'[s] = to
         /\ \A r \in Streams \ {s} : copier'[r] = copier[r]
BY DEF CopierGoto

LEMMA IncrType ==
  ASSUME NEW f \in [Streams -> Nat], NEW s \in Streams
  PROVE  /\ Incr(f, s) \in [Streams -> Nat]
         /\ Incr(f, s)[s] = f[s] + 1
         /\ \A r \in Streams \ {s} : Incr(f, s)[r] = f[r]
BY DEF Incr

LEMMA EndedType ==
  ASSUME NEW s \in Streams
  PROVE  Ended(s) \in Copiers /\ Ended(s) \in {"closing", "stopped"}
BY DEF Ended, Copiers

(* The chunk in a copier's hand: read, and not yet given to the destination. *)
InHand(s) ==
  /\ copier[s] \in {"spawned", "reading", "recording"} => shown[s] = read[s]
  /\ copier[s] = "writing" => read[s] = shown[s] + 1

TypeInv == TypeOK /\ \A s \in Streams : InHand(s)

LEMMA TypesInit == Init => TypeInv
<1> SUFFICES ASSUME Init PROVE TypeInv
  OBVIOUS
<1>1. copier \in [Streams -> Copiers] /\ uses \in [Streams -> Recorders] /\ published \in Recorders
  BY DEF Init, Copiers, Recorders
<1>2. /\ sent \in [Streams -> Nat] /\ read \in [Streams -> Nat]
      /\ shown \in [Streams -> Nat] /\ kept \in [Streams -> Nat]
      /\ \A s \in Streams : sent[s] = 0 /\ read[s] = 0 /\ shown[s] = 0 /\ copier[s] = "spawned"
  BY DEF Init
<1>3. \A s \in Streams : shown[s] <= read[s] /\ read[s] <= sent[s] /\ sent[s] <= Chunks[s]
  BY <1>2, ChunksAssumption
<1>4. {alone, hung, clientEOF, targetEOF, attached} \subseteq BOOLEAN
  BY Zenon DEF Init
<1>5. main = "start" /\ recorder \in {"recording", "disabled"} /\ client = "open" /\ target = "starting"
  BY DEF Init
<1>6. TypeOK
  BY <1>1, <1>2, <1>3, <1>4, <1>5 DEF TypeOK, Copiers
<1> QED
  BY <1>2, <1>6 DEF TypeInv, InHand

(* What a copier does to its own stream, and that it leaves the others alone.*)
LEMMA CopierTypes ==
  ASSUME TypeInv, NEW s \in Streams, CopierStep(s)
  PROVE  /\ copier' \in [Streams -> Copiers] /\ uses' \in [Streams -> Recorders]
         /\ read' \in [Streams -> Nat] /\ shown' \in [Streams -> Nat] /\ kept' \in [Streams -> Nat]
         /\ UNCHANGED <<main, sent, recorder, alone, published, client, hung, clientEOF, target, attached>>
         /\ targetEOF' \in BOOLEAN
         /\ shown'[s] <= read'[s] /\ read'[s] <= sent[s] /\ InHand(s)'
         /\ \A r \in Streams \ {s} :
              /\ copier'[r] = copier[r] /\ uses'[r] = uses[r]
              /\ read'[r] = read[r] /\ shown'[r] = shown[r] /\ kept'[r] = kept[r]
<1> USE DEF counts, copierVars, clientVars, targetVars, shared
<1>0. /\ copier \in [Streams -> Copiers] /\ uses \in [Streams -> Recorders]
      /\ read \in [Streams -> Nat] /\ shown \in [Streams -> Nat] /\ kept \in [Streams -> Nat]
      /\ shown[s] <= read[s] /\ read[s] <= sent[s] /\ InHand(s) /\ sent[s] \in Nat
      /\ published \in Recorders
  BY DEF TypeInv, TypeOK, Copiers
<1>t. targetEOF \in BOOLEAN
  BY Zenon DEF TypeInv, TypeOK
<1>1. CASE CopierStarts(s)
  BY <1>0, <1>t, <1>1, GotoType DEF CopierStarts, InHand, Copiers
<1>2. CASE ReadChunk(s)
  <2>1. /\ copier[s] = "reading" /\ copier'[s] = "writing" /\ read'[s] = read[s] + 1
        /\ copier' \in [Streams -> Copiers] /\ read' \in [Streams -> Nat]
        /\ \A r \in Streams \ {s} : copier'[r] = copier[r] /\ read'[r] = read[r]
        /\ read[s] < sent[s] /\ UNCHANGED <<uses, shown, kept, targetEOF>>
    BY <1>0, <1>2, GotoType, IncrType DEF ReadChunk, Copiers
  <2> QED
    BY <1>0, <1>t, <1>2, <2>1 DEF ReadChunk, InHand
<1>3. CASE ReadEOF(s) \/ WriteFails(s) \/ RecordFails(s)
  <2>1. /\ copier'[s] \in {"closing", "stopped"} /\ copier' \in [Streams -> Copiers]
        /\ \A r \in Streams \ {s} : copier'[r] = copier[r]
        /\ UNCHANGED <<uses, read, shown, kept, targetEOF>>
    BY <1>0, <1>3, GotoType, EndedType DEF ReadEOF, WriteFails, RecordFails, Copiers
  <2> QED
    BY <1>0, <1>t, <1>3, <2>1 DEF ReadEOF, WriteFails, RecordFails, InHand
<1>4. CASE WriteChunk(s)
  <2>1. /\ copier[s] = "writing" /\ copier'[s] = "recording" /\ shown'[s] = shown[s] + 1
        /\ copier' \in [Streams -> Copiers] /\ shown' \in [Streams -> Nat]
        /\ \A r \in Streams \ {s} : copier'[r] = copier[r] /\ shown'[r] = shown[r]
        /\ UNCHANGED <<uses, read, kept, targetEOF>>
    BY <1>0, <1>4, GotoType, IncrType DEF WriteChunk, Copiers
  <2> QED
    BY <1>0, <1>t, <1>4, <2>1 DEF WriteChunk, InHand
<1>5. CASE RecordChunk(s)
  <2>1. /\ copier[s] = "recording" /\ copier'[s] = "reading" /\ copier' \in [Streams -> Copiers]
        /\ \A r \in Streams \ {s} : copier'[r] = copier[r] /\ kept'[r] = kept[r]
        /\ kept' \in [Streams -> Nat] /\ UNCHANGED <<uses, read, shown, targetEOF>>
    BY <1>0, <1>5, GotoType, IncrType DEF RecordChunk, Copiers
  <2> QED
    BY <1>0, <1>t, <1>5, <2>1 DEF RecordChunk, InHand
<1>6. CASE s = "stdin" /\ CloseStdin
  <2>1. /\ copier'[s] = "stopped" /\ copier' \in [Streams -> Copiers] /\ targetEOF' = TRUE
        /\ \A r \in Streams \ {s} : copier'[r] = copier[r]
        /\ UNCHANGED <<uses, read, shown, kept>>
    BY <1>0, <1>6, GotoType DEF CloseStdin, Copiers
  <2> QED
    BY <1>0, <1>6, <2>1 DEF CloseStdin, InHand
<1> QED
  BY <1>1, <1>2, <1>3, <1>4, <1>5, <1>6 DEF CopierStep, CopierRuns

LEMMA TypesStep ==
  ASSUME TypeInv, [Next]_vars
  PROVE  TypeInv'
<1> USE DEF counts, copierVars, clientVars, targetVars, shared
<1>0. TypeOK /\ \A s \in Streams : InHand(s)
  BY DEF TypeInv
<1>b. {alone, hung, clientEOF, targetEOF, attached} \subseteq BOOLEAN
  BY <1>0 DEF TypeOK
<1>1. CASE UNCHANGED vars \/ Finished
  BY <1>0, <1>1 DEF vars, Finished, TypeInv, TypeOK, InHand
<1>2. CASE MainStep
  <2>1. UNCHANGED <<copier, counts, uses, alone, hung, clientEOF, targetEOF>>
    BY <1>2 DEF MainStep, StartRemote, StartRefused, WaitReturns, SendExitStatus,
                CloseClient, Unpublish, CloseRecorder, CloseTarget, ReportFailure
  <2>2. /\ main' \in {"start", "wait", "tell", "close", "unpublish", "recorder",
                       "session", "report", "done"}
        /\ recorder' \in {"recording", "disabled", "failing", "closed"}
        /\ client' \in {"open", "closed"}
        /\ target' \in {"starting", "running", "refused", "exited"}
        /\ published' \in Recorders /\ attached' \in BOOLEAN
    BY <1>0, <1>2 DEF TypeOK, MainStep, MainGoto, StartRemote, StartRefused, WaitReturns,
                SendExitStatus, CloseClient, Unpublish, CloseRecorder, CloseTarget, ReportFailure,
                Recorders
  <2> QED
    BY <1>0, <1>b, <2>1, <2>2 DEF TypeInv, TypeOK, InHand
<1>3. ASSUME NEW s \in Streams, CopierStep(s) PROVE TypeInv'
  <2>1. \A r \in Streams :
          /\ shown'[r] <= read'[r] /\ read'[r] <= sent'[r] /\ sent'[r] <= Chunks[r]
          /\ InHand(r)'
    BY <1>0, <1>3, CopierTypes DEF TypeOK, InHand
  <2> QED
    BY <1>0, <1>b, <1>3, <2>1, CopierTypes DEF TypeInv, TypeOK, Copiers
<1>4. ASSUME NEW s \in Streams, sent[s] < Chunks[s], sent' = Incr(sent, s),
             UNCHANGED <<main, copierVars, read, shown, kept, recorder, shared, clientVars, targetVars>>
      PROVE  TypeInv'
  <2>1. /\ sent' \in [Streams -> Nat] /\ sent'[s] = sent[s] + 1
        /\ \A r \in Streams \ {s} : sent'[r] = sent[r]
    BY <1>0, <1>4, IncrType DEF TypeOK
  <2>2. \A r \in Streams : read'[r] <= sent'[r] /\ sent'[r] <= Chunks[r]
    BY <1>0, <1>4, <2>1, ChunksAssumption DEF TypeOK
  <2> QED
    BY <1>0, <1>4, <2>1, <2>2 DEF TypeInv, TypeOK, InHand
<1>5. CASE ClientSends \/ \E s \in Outputs : TargetSends(s)
  BY <1>4, <1>5, StdinStream DEF ClientSends, TargetSends
<1>6. CASE ClientEnds \/ ClientHangsUp \/ DiskFails \/ TargetExits \/ OtherSession
  <2>1. UNCHANGED <<main, copier, counts, uses, alone, client, targetEOF, attached>>
    BY <1>6 DEF ClientEnds, ClientHangsUp, DiskFails, TargetExits, OtherSession
  <2>2. /\ recorder' \in {"recording", "disabled", "failing", "closed"}
        /\ target' \in {"starting", "running", "refused", "exited"}
        /\ published' \in Recorders /\ {hung', clientEOF'} \subseteq BOOLEAN
    BY <1>0, <1>6 DEF TypeOK, ClientEnds, ClientHangsUp, DiskFails, TargetExits, OtherSession,
                      Recorders
  <2> QED
    BY <1>0, <1>b, <2>1, <2>2 DEF TypeInv, TypeOK, InHand
<1> QED
  BY <1>1, <1>2, <1>3, <1>5, <1>6 DEF Next, Environment

LEMMA TypesHold == Spec => []TypeInv
  BY TypesInit, TypesStep, PTL DEF Spec

(* Every reachable state is well typed, and no chunk is shown that was not   *)
(* read, nor read that was not sent.                                         *)
THEOREM TypeCorrect == Spec => []TypeOK
<1>1. TypeInv => TypeOK
  BY DEF TypeInv
<1> QED
  BY <1>1, TypesHold, PTL

------------------------------------------------------------------------------
(* The session goroutine *)

\* Where the session goroutine is tells what it has done.
Stages ==
  /\ main = "start" <=> target = "starting"
  /\ main = "wait" => target # "refused"
  /\ main \in {"tell", "close"} => target = "exited"
  /\ main = "report" => target = "refused"
  /\ main \in {"unpublish", "recorder", "session", "done"} =>
       target = "refused" \/ (target = "exited" /\ client = "closed")
  /\ alone /\ main \in {"start", "wait", "tell", "close", "unpublish"} => published = "own"
  /\ attached \/ main \in {"report", "done"}
  /\ recorder = "closed" => main \in {"session", "report", "done"}

(* What the session goroutine and the two ends leave alone.                  *)
LEMMA MainLeaves ==
  ASSUME MainStep
  PROVE  UNCHANGED <<copier, uses, sent, read, shown, kept, hung, clientEOF, targetEOF>>
BY DEF MainStep, StartRemote, StartRefused, WaitReturns, SendExitStatus, CloseClient, Unpublish,
       CloseRecorder, CloseTarget, ReportFailure, counts, copierVars, clientVars, targetVars

LEMMA EnvironmentLeaves ==
  ASSUME Environment
  PROVE  /\ UNCHANGED <<main, copier, uses, read, shown, kept, alone, client, targetEOF, attached>>
         /\ alone => published' = published
         /\ recorder' = recorder \/ (recorder = "recording" /\ recorder' = "failing")
         /\ target' = target \/ (target = "running" /\ target' = "exited")
BY DEF Environment, ClientSends, TargetSends, ClientEnds, ClientHangsUp, DiskFails, TargetExits,
       OtherSession, counts, copierVars, clientVars, targetVars, shared

LEMMA StagesStep ==
  ASSUME TypeInv, Stages, [Next]_vars
  PROVE  Stages'
<1> USE DEF counts, copierVars, clientVars, targetVars, shared
<1>1. CASE UNCHANGED vars \/ Finished
  BY <1>1 DEF vars, Finished, Stages
<1>2. CASE MainStep
  <2> USE DEF Stages, TypeInv, TypeOK, MainGoto
  <2>1. CASE StartRemote \/ StartRefused
    BY <2>1 DEF StartRemote, StartRefused
  <2>2. CASE WaitReturns \/ SendExitStatus \/ CloseClient
    BY <2>2 DEF WaitReturns, SendExitStatus, CloseClient
  <2>3. CASE Unpublish
    BY <2>3 DEF Unpublish
  <2>4. CASE CloseRecorder
    BY <2>4 DEF CloseRecorder
  <2>5. CASE CloseTarget
    BY <2>5 DEF CloseTarget
  <2>6. CASE ReportFailure
    BY <2>6 DEF ReportFailure
  <2> QED
    BY <1>2, <2>1, <2>2, <2>3, <2>4, <2>5, <2>6 DEF MainStep
<1>3. ASSUME NEW s \in Streams, CopierStep(s) PROVE Stages'
  BY <1>3, CopierTypes DEF Stages
<1>4. CASE Environment
  BY <1>4, EnvironmentLeaves DEF Stages
<1> QED
  BY <1>1, <1>2, <1>3, <1>4 DEF Next

(* The teardown runs in the order of the code: the client's channel is       *)
(* closed before the recorder, the recorder before the target                *)
(* (server.go:576-582 and the deferred calls of proxySession).               *)
THEOREM TeardownInOrder == Spec => []Stages
<1>1. Init => Stages
  BY DEF Init, Stages
<1>2. TypeInv /\ Stages /\ [Next]_vars => Stages'
  BY StagesStep
<1> QED
  BY <1>1, <1>2, TypesHold, PTL DEF Spec

------------------------------------------------------------------------------
(* The recording *)

\* The chunk in the hand of a copier that records for its session is the one
\* that the recording lacks, until the recorder is closed.  In a session alone on
\* its connection another copier has shown nothing.
Lagging(s) ==
  /\ kept[s] <= shown[s]
  /\ copier[s] = "spawned" => shown[s] = kept[s]
  /\ copier[s] = "recording" => kept[s] + 1 <= shown[s]
  /\ uses[s] = "own" => shown[s] <= kept[s] + 1
  /\ uses[s] = "own" /\ copier[s] \in {"spawned", "reading", "writing"} =>
       recorder = "closed" \/ shown[s] = kept[s]
  /\ alone /\ uses[s] # "own" =>
       shown[s] = kept[s] /\ (copier[s] = "spawned" \/ published # "own")

LagInv == target # "refused" /\ recorder # "disabled" => \A s \in Streams : Lagging(s)

LEMMA LagStep ==
  ASSUME TypeInv, Stages, LagInv, [Next]_vars
  PROVE  LagInv'
<1> SUFFICES ASSUME target' # "refused", recorder' # "disabled", NEW r \in Streams
             PROVE  Lagging(r)'
  BY DEF LagInv
<1> USE DEF Lagging
<1>0. kept[r] \in Nat /\ shown[r] \in Nat /\ uses[r] \in Recorders /\ copier[r] \in Copiers
  BY DEF TypeInv, TypeOK, Copiers
<1>1. CASE UNCHANGED vars \/ Finished
  BY <1>1 DEF vars, Finished, counts, copierVars, clientVars, targetVars, shared, LagInv
<1>2. CASE MainStep
  <2>1. UNCHANGED <<copier, uses, shown, kept>>
    BY <1>2, MainLeaves
  <2>2. /\ target # "refused" /\ recorder # "disabled" /\ alone' = alone
        /\ recorder = "closed" => recorder' = "closed"
        /\ published' = "own" => published = "own"
    BY <1>2 DEF MainStep, MainGoto, StartRemote, StartRefused, WaitReturns, SendExitStatus, CloseClient,
       Unpublish, CloseRecorder, CloseTarget, ReportFailure, clientVars, targetVars, shared, Stages
  <2>3. Lagging(r)
    BY <2>2 DEF LagInv
  <2> QED
    BY <2>1, <2>2, <2>3
<1>3. ASSUME NEW s \in Streams, CopierStep(s) PROVE Lagging(r)'
  <2>1. UNCHANGED <<main, sent, recorder, alone, published, client, hung, clientEOF, target, attached>>
    BY <1>3, CopierTypes
  <2>2. Lagging(r)
    BY <2>1 DEF LagInv
  <2>3. CASE r # s
    <3>1. UNCHANGED <<copier[r], uses[r], shown[r], kept[r]>>
      BY <1>3, <2>3, CopierTypes
    <3> QED
      BY <2>1, <2>2, <3>1
  <2>4. CASE r = s
    <3> USE <2>4 DEF TypeInv, TypeOK, CopierGoto, counts, copierVars, clientVars, targetVars
    <3>1. CASE CopierStarts(s)
      <4>1. copier'[r] = "reading" /\ copier[r] = "spawned" /\ UNCHANGED <<shown, kept>>
        BY <3>1 DEF CopierStarts
      <4>2. uses'[r] = published
        BY <3>1 DEF CopierStarts
      <4> QED
        BY <1>0, <2>1, <2>2, <4>1, <4>2
    <3>2. CASE ReadChunk(s)
      BY <2>1, <2>2, <3>2 DEF ReadChunk
    <3>3. CASE ReadEOF(s) \/ WriteFails(s) \/ RecordFails(s) \/ (s = "stdin" /\ CloseStdin)
      <4>1. copier'[r] \in {"closing", "stopped"} /\ copier[r] # "spawned" /\ UNCHANGED <<uses, shown, kept>>
        BY <3>3, EndedType DEF ReadEOF, WriteFails, RecordFails, CloseStdin
      <4> QED
        BY <2>1, <2>2, <4>1
    <3>4. CASE WriteChunk(s)
      <4>1. /\ copier[r] = "writing" /\ copier'[r] = "recording" /\ UNCHANGED <<uses, kept>>
            /\ shown'[r] = shown[r] + 1 /\ Writable(s)
        BY <3>4, IncrType DEF WriteChunk
      <4>2. main \notin {"unpublish", "recorder", "session", "report", "done"}
        BY <2>1, <4>1 DEF Stages, Writable
      <4>4. recorder # "closed" /\ (alone => published = "own")
        BY <4>2, <1>0 DEF Stages, TypeInv, TypeOK
      <4> QED
        BY <1>0, <2>1, <2>2, <4>1, <4>4
    <3>5. CASE RecordChunk(s)
      <4>1. /\ copier[r] = "recording" /\ copier'[r] = "reading" /\ UNCHANGED <<uses, shown>>
            /\ kept' = IF uses[s] = "own" /\ recorder \in {"recording", "failing"}
                       THEN Incr(kept, s) ELSE kept
        BY <3>5 DEF RecordChunk
      <4>2. kept[r] + 1 <= shown[r]
        BY <2>2, <4>1
      <4>3. CASE uses[r] = "own" /\ recorder \in {"recording", "failing"}
        <5>1. kept'[r] = kept[r] + 1
          BY <4>1, <4>3, IncrType
        <5> QED
          BY <1>0, <2>1, <2>2, <4>1, <4>2, <4>3, <5>1
      <4>4. CASE uses[r] = "own" /\ recorder = "closed"
        BY <1>0, <2>1, <2>2, <4>1, <4>2, <4>4
      <4>5. CASE uses[r] # "own"
        BY <1>0, <2>1, <2>2, <4>1, <4>2, <4>5
      <4>6. recorder \in {"recording", "failing", "closed"}
        BY <2>1
      <4> QED
        BY <4>3, <4>4, <4>5, <4>6
    <3> QED
      BY <1>3, <3>1, <3>2, <3>3, <3>4, <3>5 DEF CopierStep, CopierRuns
  <2> QED
    BY <2>3, <2>4
<1>4. CASE Environment
  <2>1. /\ UNCHANGED <<copier, uses, shown, kept, alone>>
        /\ target # "refused" /\ recorder # "disabled"
        /\ recorder = "closed" => recorder' = "closed"
        /\ alone => published' = published
    BY <1>4, EnvironmentLeaves
  <2> QED
    BY <2>1 DEF LagInv
<1> QED
  BY <1>1, <1>2, <1>3, <1>4 DEF Next

(* However many chunks and output streams: the recording of a session that   *)
(* started never runs ahead of what was shown, and lacks at most one chunk   *)
(* of each stream, whenever the disk fails or the session is torn down,      *)
(* unless another session took the recorder from under the stream's copier   *)
(* before it first ran (server.go:576-582, 860-909).                         *)
THEOREM RecordingKeepsUp == Spec => []AuditLag
<1>1. Init => LagInv
  BY DEF Init, LagInv, Lagging
<1>2. TypeInv /\ Stages /\ LagInv /\ [Next]_vars => LagInv'
  BY LagStep
<1>3. TypeInv /\ LagInv => AuditLag
  BY DEF TypeInv, TypeOK, LagInv, Lagging, AuditLag
<1> QED
  BY <1>1, <1>2, <1>3, TypesHold, TeardownInOrder, PTL DEF Spec

==============================================================================
