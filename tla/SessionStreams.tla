--------------------------- MODULE SessionStreams ---------------------------
(***************************************************************************)
(* The data path of one proxied session (server.go:562-583, 825-909,       *)
(* recording.go): three copier goroutines move chunks between the client's *)
(* channel and the target's and into the recorder, while the session       *)
(* goroutine starts the remote command, waits for it and tears everything  *)
(* down without waiting for the copiers.  The recorder reaches a copier    *)
(* through the SessionState of the connection, which other sessions of the *)
(* connection set and clear as well.                                       *)
(*                                                                         *)
(* A stream is FIFO and its chunks are never told apart, so a stream is    *)
(* its counts: how many chunks its source sent, the copier read, the       *)
(* destination was given, and this session's recording kept.               *)
(***************************************************************************)
EXTENDS Integers

CONSTANTS
  Outputs,  \* the target's output streams: stdout, stderr
  Chunks    \* bound: how many chunks the source of each stream sends

ASSUME OutputsAssumption == "stdin" \notin Outputs

Streams == Outputs \cup {"stdin"}

ASSUME ChunksAssumption == Chunks \in [Streams -> Nat]

VARIABLES
  main,       \* the session goroutine, from "go copySession..." to its end
  copier,     \* the copier goroutines
  uses,       \* the recorder in the copier's hands: its session's own, another's, none
  sent, read, shown, kept,  \* the chunks of each stream
  recorder,   \* recording, disabled (its file could not be created),
              \* failing (a write can be an error), closed
  alone,      \* the connection has no other session
  published,  \* SessionState.Recorder: this session's own recorder, another's, nil
  client,     \* the client's channel: open, or closed by the proxy
  hung,       \* the client has closed its channel or is lost
  clientEOF,  \* the client sends no more input
  target,     \* the remote command
  targetEOF,  \* the target was told that there is no more input
  attached    \* the target session is not closed by the proxy

counts == <<sent, read, shown, kept>>
shared == <<alone, published>>
copierVars == <<copier, uses>>
clientVars == <<client, hung, clientEOF>>
targetVars == <<target, targetEOF, attached>>
vars == <<main, copierVars, counts, recorder, shared, clientVars, targetVars>>

Recorders == {"own", "other", "nil"}

TypeOK ==
  /\ main \in {"start", "wait", "tell", "close", "unpublish", "recorder",
               "session", "report", "done"}
  /\ copier \in [Streams -> {"spawned", "reading", "writing", "recording",
                             "closing", "stopped"}]
  /\ uses \in [Streams -> Recorders]
  /\ sent \in [Streams -> Nat]
  /\ read \in [Streams -> Nat]
  /\ shown \in [Streams -> Nat]
  /\ kept \in [Streams -> Nat]
  /\ \A s \in Streams :
       shown[s] <= read[s] /\ read[s] <= sent[s] /\ sent[s] <= Chunks[s]
  /\ recorder \in {"recording", "disabled", "failing", "closed"}
  /\ client \in {"open", "closed"}
  /\ target \in {"starting", "running", "refused", "exited"}
  /\ published \in Recorders
  /\ {alone, hung, clientEOF, targetEOF, attached} \subseteq BOOLEAN

Init ==
  /\ main = "start"
  /\ copier = [s \in Streams |-> "spawned"]
  /\ uses = [s \in Streams |-> "nil"]
  /\ sent = [s \in Streams |-> 0]
  /\ read = [s \in Streams |-> 0]
  /\ shown = [s \in Streams |-> 0]
  /\ kept = [s \in Streams |-> 0]
  /\ recorder \in {"recording", "disabled"}
  /\ alone \in BOOLEAN
  /\ published \in IF alone THEN {"own"} ELSE Recorders
  /\ client = "open"
  /\ hung = FALSE
  /\ clientEOF = FALSE
  /\ target = "starting"
  /\ targetEOF = FALSE
  /\ attached = TRUE

Incr(f, s) == [f EXCEPT ![s] = @ + 1]

CopierGoto(s, from, to) == /\ copier[s] = from
                           /\ copier' = [copier EXCEPT ![s] = to]

\* Where a copier goes when io.Copy returns: stdin's defers dst.Close().
Ended(s) == IF s = "stdin" THEN "closing" ELSE "stopped"

------------------------------------------------------------------------------
(* The client and the target *)

ClientSends ==
  /\ ~clientEOF /\ ~hung
  /\ sent["stdin"] < Chunks["stdin"]
  /\ sent' = Incr(sent, "stdin")
  /\ UNCHANGED <<main, copierVars, read, shown, kept, recorder, shared, clientVars, targetVars>>

ClientEnds ==
  /\ ~clientEOF
  /\ clientEOF' = TRUE
  /\ UNCHANGED <<main, copierVars, counts, recorder, shared, client, hung, targetVars>>

ClientHangsUp ==
  /\ ~hung
  /\ hung' = TRUE
  /\ UNCHANGED <<main, copierVars, counts, recorder, shared, client, clientEOF, targetVars>>

TargetSends(s) ==
  /\ target = "running"
  /\ sent[s] < Chunks[s]
  /\ sent' = Incr(sent, s)
  /\ UNCHANGED <<main, copierVars, read, shown, kept, recorder, shared, clientVars, targetVars>>

\* All it sent has arrived, with its exit status and the close of its channel.
TargetExits ==
  /\ target = "running"
  /\ target' = "exited"
  /\ UNCHANGED <<main, copierVars, counts, recorder, shared, clientVars, targetEOF, attached>>

\* Another session of the connection publishes its recorder, or ends and
\* clears the pointer, whoever's it is.
OtherSession ==
  /\ ~alone
  /\ published' \in {"other", "nil"}
  /\ UNCHANGED <<main, copierVars, counts, recorder, alone, clientVars, targetVars>>

------------------------------------------------------------------------------
(* The copiers: copySessionInput, copySessionOutput, the recorder writers *)

\* The goroutine runs for the first time and reads SessionState.Recorder.
CopierStarts(s) ==
  /\ CopierGoto(s, "spawned", "reading")
  /\ uses' = [uses EXCEPT ![s] = published]
  /\ UNCHANGED <<main, counts, recorder, shared, clientVars, targetVars>>

ReadChunk(s) ==
  /\ CopierGoto(s, "reading", "writing")
  /\ read[s] < sent[s]
  /\ read' = Incr(read, s)
  /\ UNCHANGED <<main, uses, sent, shown, kept, recorder, shared, clientVars, targetVars>>

\* Nothing more will come from the stream's source.
SourceEnded(s) == IF s = "stdin" THEN clientEOF \/ hung
                  ELSE target = "exited" \/ ~attached

ReadEOF(s) ==
  /\ SourceEnded(s)
  /\ read[s] = sent[s]
  /\ CopierGoto(s, "reading", Ended(s))
  /\ UNCHANGED <<main, uses, counts, recorder, shared, clientVars, targetVars>>

\* A chunk written to the stream's destination can still reach it.
Writable(s) == IF s = "stdin" THEN target # "exited" /\ attached
               ELSE client = "open" /\ ~hung

\* io.MultiWriter writes to the destination first and then to the recorder.
WriteChunk(s) ==
  /\ Writable(s)
  /\ CopierGoto(s, "writing", "recording")
  /\ shown' = Incr(shown, s)
  /\ UNCHANGED <<main, uses, sent, read, kept, recorder, shared, clientVars, targetVars>>

WriteFails(s) ==
  /\ ~Writable(s)
  /\ CopierGoto(s, "writing", Ended(s))
  /\ UNCHANGED <<main, uses, counts, recorder, shared, clientVars, targetVars>>

\* A nil, disabled or closed recorder accepts the chunk and drops it; another
\* session's may keep it, but not for this session.
RecordChunk(s) ==
  /\ CopierGoto(s, "recording", "reading")
  /\ kept' = IF uses[s] = "own" /\ recorder \in {"recording", "failing"} THEN Incr(kept, s) ELSE kept
  /\ UNCHANGED <<main, uses, sent, read, shown, recorder, shared, clientVars, targetVars>>

\* From now on a write to the recording file can fail, and the next one succeed.
DiskFails ==
  /\ recorder = "recording"
  /\ recorder' = "failing"
  /\ UNCHANGED <<main, copierVars, counts, shared, clientVars, targetVars>>

RecorderFailing(s) == \/ uses[s] = "own" /\ recorder = "failing"
                      \/ uses[s] = "other"

\* Mutant: the chunk that could not be recorded is tried again as a whole.
RecordFailsAgain(s) ==
  /\ RecorderFailing(s)
  /\ CopierGoto(s, "recording", "writing")
  /\ UNCHANGED <<main, uses, counts, recorder, shared, clientVars, targetVars>>

\* An error of the recorder ends the copying of the stream.
RecordFails(s) ==
  /\ RecorderFailing(s)
  /\ CopierGoto(s, "recording", Ended(s))
  /\ UNCHANGED <<main, uses, counts, recorder, shared, clientVars, targetVars>>

CloseStdin ==
  /\ CopierGoto("stdin", "closing", "stopped")
  /\ targetEOF' = TRUE
  /\ UNCHANGED <<main, uses, counts, recorder, shared, clientVars, target, attached>>

------------------------------------------------------------------------------
(* The session goroutine: proxySession, finalizeRemoteSession, its defers *)

MainGoto(from, to) == main = from /\ main' = to

StartRemote ==
  /\ MainGoto("start", "wait")
  /\ target' = "running"
  /\ UNCHANGED <<copierVars, counts, recorder, shared, clientVars, targetEOF, attached>>

StartRefused ==
  /\ MainGoto("start", "unpublish")
  /\ target' = "refused"
  /\ UNCHANGED <<copierVars, counts, recorder, shared, clientVars, targetEOF, attached>>

\* Mutant: Wait also waits for the output to be copied.
WaitReturnsAfterCopy ==
  /\ MainGoto("wait", "tell")
  /\ target = "exited"
  /\ \A s \in Outputs : copier[s] = "stopped"
  /\ UNCHANGED <<copierVars, counts, recorder, shared, clientVars, targetVars>>

\* session.Wait returns once the target's channel is closed; nobody waits for
\* the copiers.
WaitReturns ==
  /\ MainGoto("wait", "tell")
  /\ target = "exited"
  /\ UNCHANGED <<copierVars, counts, recorder, shared, clientVars, targetVars>>

SendExitStatus ==
  /\ MainGoto("tell", "close")
  /\ UNCHANGED <<copierVars, counts, recorder, shared, clientVars, targetVars>>

\* Mutant: the channel is left open until the handler returns.
CloseClientLater ==
  /\ MainGoto("close", "unpublish")
  /\ UNCHANGED <<copierVars, counts, recorder, shared, clientVars, targetVars>>

CloseClient ==
  /\ MainGoto("close", "unpublish")
  /\ client' = "closed"
  /\ UNCHANGED <<copierVars, counts, recorder, shared, hung, clientEOF, targetVars>>

Unpublish ==
  /\ MainGoto("unpublish", "recorder")
  /\ published' = "nil"
  /\ UNCHANGED <<copierVars, counts, recorder, alone, clientVars, targetVars>>

CloseRecorder ==
  /\ MainGoto("recorder", "session")
  /\ recorder' = IF recorder = "disabled" THEN "disabled" ELSE "closed"
  /\ UNCHANGED <<copierVars, counts, shared, clientVars, targetVars>>

\* Mutant: the target is not closed.
CloseTargetNever ==
  /\ MainGoto("session", IF target = "refused" THEN "report" ELSE "done")
  /\ UNCHANGED <<copierVars, counts, recorder, shared, clientVars, targetVars>>

\* targetSession.Close and targetClient.Close.
CloseTarget ==
  /\ MainGoto("session", IF target = "refused" THEN "report" ELSE "done")
  /\ attached' = FALSE
  /\ UNCHANGED <<copierVars, counts, recorder, shared, clientVars, target, targetEOF>>

\* The handler tells the client of the failure and closes its channel.
ReportFailure ==
  /\ MainGoto("report", "done")
  /\ client' = "closed"
  /\ UNCHANGED <<copierVars, counts, recorder, shared, hung, clientEOF, targetVars>>

------------------------------------------------------------------------------
MainStep ==
  \/ StartRemote \/ StartRefused \/ WaitReturns \/ SendExitStatus \/ CloseClient
  \/ Unpublish \/ CloseRecorder \/ CloseTarget \/ ReportFailure

CopierRuns(s) ==
  \/ CopierStarts(s) \/ ReadChunk(s) \/ ReadEOF(s) \/ WriteFails(s)
  \/ RecordChunk(s) \/ RecordFails(s) \/ (s = "stdin" /\ CloseStdin)

CopierStep(s) == WriteChunk(s) \/ CopierRuns(s)

Environment ==
  \/ ClientSends \/ ClientEnds \/ ClientHangsUp \/ DiskFails \/ TargetExits
  \/ OtherSession
  \/ \E s \in Outputs : TargetSends(s)

Finished ==
  /\ main = "done" /\ hung
  /\ \A s \in Streams : copier[s] = "stopped"
  /\ UNCHANGED vars

Next == MainStep \/ (\E s \in Streams : CopierStep(s)) \/ Environment \/ Finished

\* The goroutines run; but a write may block for as long as its destination
\* does not read, so nothing is assumed of it.  Telling and closing need no room
\* in a window, but they too assume that the client's TCP connection is not stalled.
Fairness == WF_vars(MainStep) /\ \A s \in Streams : WF_vars(CopierRuns(s))

Spec == Init /\ [][Next]_vars /\ Fairness

------------------------------------------------------------------------------
(* Properties *)

\* The recording of a session that started, if its file could be created, never
\* runs ahead of what the client saw or the target was given, and falls behind by
\* at most the chunk a copier has in hand: a copier stops, or can forward nothing
\* more, before the recorder rejects or drops a second chunk (server.go:864, 878;
\* the order of finalizeRemoteSession and the defers).  A stream falls further
\* behind only on a connection with another session, which had replaced or cleared
\* the recorder before the stream's goroutine first ran (server.go:863, 877).
AuditLag ==
  target # "refused" /\ recorder # "disabled" =>
    \A s \in Streams :
      /\ kept[s] <= shown[s]
      /\ shown[s] > kept[s] + 1 => ~alone /\ uses[s] # "own"

\* The session goroutine never waits for a copier, so it ends once the target
\* has, whatever the client does with its output (server.go:576, 582).
SessionEnds == target = "exited" ~> main = "done"

\* No copier outlives a session whose client is gone (server.go:566-568).
CopiersStop == (main = "done" /\ hung) ~> \A s \in Streams : copier[s] = "stopped"

\* When the proxy closes the client's channel after the exit status, the client
\* has been given all the output of the command.
OutputComplete ==
  client = "closed" /\ ~hung /\ recorder # "failing" /\ target = "exited"
    => \A s \in Outputs : shown[s] = sent[s]
==============================================================================
