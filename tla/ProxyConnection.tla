--------------------------- MODULE ProxyConnection ---------------------------
(***************************************************************************)
(* The control of internal/server/server.go: SSH connections of clients,   *)
(* their session channels, and for every channel the goroutine that        *)
(* admits the session, connects it to a target, runs it and releases it.   *)
(*                                                                         *)
(* All channels of a connection share ONE SessionState (server.go:121).    *)
(* That sharing is the heart of this module: the pointers TargetClient,    *)
(* TargetSession and Recorder, the SSOVerified flag, the agent and the     *)
(* LC_SSH_SERVER variable are per connection, while everything a session   *)
(* acquires and releases belongs to one channel.                           *)
(***************************************************************************)
EXTENDS Integers, FiniteSets

CONSTANTS
  Conns,      \* TCP connections accepted by main.go
  Channels,   \* session channels clients may open
  ConnOf,     \* the connection a channel is opened on
  Streams,    \* the copier goroutines of a session (stdin, stdout, stderr)
  None,       \* a nil pointer
  Configs     \* the configurations the proxy may be started with

ASSUME ConnAssumption == ConnOf \in [Channels -> Conns]
ASSUME NoneAssumption == None \notin Channels \cup {"unspawned", "spawned"}
ASSUME NameAssumption == Channels \cap {"unspawned", "spawned"} = {}
ASSUME ConfigAssumption ==
  Configs \subseteq [sso : BOOLEAN, enforce : BOOLEAN,
                     direct : BOOLEAN, static : BOOLEAN]

VARIABLES
  conf,      \* the configuration, fixed for the life of the process
  conn,      \* connection state
  agent,     \* SessionState.AgentRequested or AgentClient set
  verified,  \* SessionState.SSOVerified
  env,       \* LC_SSH_SERVER is in SessionState.EnvVars
  handle,    \* SessionState's TargetClient, TargetSession, Recorder: whose?
  chan,      \* the client's session channel and the loop over its requests
  kind,      \* what the channel was asked to run
  pc,        \* the session goroutine
  open,      \* target resources the session goroutine holds open
  outcome,   \* what the handler will record
  exits,     \* exit statuses sent to the client
  approval,  \* the answer the session's own device flow got
  captured,  \* the recorder a copier goroutine picked up when it started
  metrics    \* the Prometheus collector

connVars == <<conn, agent, verified, env>>
chanVars == <<chan, exits>>
sessVars == <<kind, pc, open, outcome, approval>>
vars == <<conf, connVars, handle, chanVars, sessVars, captured, metrics>>

Handles == {"client", "session", "recorder"}
Results == {"success", "failure", "rejected"}
Counters == Results \cup {"opened", "active", "handshakeFailures", "pending",
                          "ssoSuccess", "ssoFailure", "ssoErrors"}
PCs == {"none", "start", "sso", "route", "dial", "signed", "setup", "streaming",
        "running", "unwind", "close", "released", "report", "done"}

\* Where the session goroutine holds something of a target.
Held == {"setup", "streaming", "running", "unwind", "close"}

TypeOK ==
  /\ conf \in Configs
  /\ conn \in [Conns -> {"accepted", "refused", "serving", "gone", "closed"}]
  /\ agent \in [Conns -> BOOLEAN]
  /\ verified \in [Conns -> BOOLEAN]
  /\ env \in [Conns -> BOOLEAN]
  /\ handle \in [Conns -> [Handles -> Channels \cup {None}]]
  /\ chan \in [Channels -> {"unopened", "open", "closing", "hungup",
                            "drained", "exited"}]
  /\ kind \in [Channels -> {"none", "shell", "exec"}]
  /\ pc \in [Channels -> PCs]
  /\ open \in [Channels -> SUBSET Handles]
  /\ outcome \in [Channels -> Results \cup {"none"}]
  /\ exits \in [Channels -> Nat]
  /\ approval \in [Channels -> {"none", "user", "other", "failed"}]
  /\ captured \in [Channels -> [Streams -> Channels \cup
                                           {None, "unspawned", "spawned"}]]
  /\ metrics \in [Counters -> Int]

Init ==
  /\ conf \in Configs
  /\ conn = [k \in Conns |-> "accepted"]
  /\ agent = [k \in Conns |-> FALSE]
  /\ verified = [k \in Conns |-> FALSE]
  /\ env = [k \in Conns |-> FALSE]
  /\ handle = [k \in Conns |-> [h \in Handles |-> None]]
  /\ chan = [c \in Channels |-> "unopened"]
  /\ kind = [c \in Channels |-> "none"]
  /\ pc = [c \in Channels |-> "none"]
  /\ open = [c \in Channels |-> {}]
  /\ outcome = [c \in Channels |-> "none"]
  /\ exits = [c \in Channels |-> 0]
  /\ approval = [c \in Channels |-> "none"]
  /\ captured = [c \in Channels |-> [s \in Streams |-> "unspawned"]]
  /\ metrics = [m \in Counters |-> 0]

------------------------------------------------------------------------------
(* Helpers *)

\* The metrics after each counter of up went up by one, each of down down.
Counted(up, down) ==
  [m \in Counters |-> IF m \in up THEN metrics[m] + 1
                      ELSE IF m \in down THEN metrics[m] - 1
                      ELSE metrics[m]]

\* The session goroutine of c goes from one point of its code to the next.
Goto(c, from, to) == /\ pc[c] = from
                     /\ pc' = [pc EXCEPT ![c] = to]

\* The session fails with result r: control is back in the handler.
Fails(c, from, r) == /\ Goto(c, from, "report")
                     /\ outcome' = [outcome EXCEPT ![c] = r]

\* Mutant: the exit status is sent without a look at the channel.
TellAlways(c) ==
  /\ exits' = [exits EXCEPT ![c] = @ + 1]
  /\ chan' = [chan EXCEPT ![c] = IF @ = "open" THEN "closing" ELSE @]

\* sendExitStatus and closeClientSession: both do nothing on a channel that
\* either side has closed.
Tell(c) ==
  /\ exits' = [exits EXCEPT ![c] = IF chan[c] = "open" THEN @ + 1 ELSE @]
  /\ chan' = [chan EXCEPT ![c] = IF @ = "open" THEN "closing" ELSE @]

\* The request loop of c still runs: requests may yet arrive or lie buffered.
Listening(c) == chan[c] \in {"open", "closing", "hungup"}

\* Somebody still reads requests that change the SessionState of k.
Attended(k) == \/ conn[k] \in {"serving", "gone"}
               \/ \E c \in Channels : ConnOf[c] = k /\ Listening(c)

\* MatchesSSHUser decides only if sso.enforce_ssh_user_match is set.
Acceptable(who) == who = "user" \/ (who = "other" /\ ~conf.enforce)

\* c's own device flow was confirmed by an acceptable identity.
Admissible(c) == Acceptable(approval[c])

------------------------------------------------------------------------------
(* Connections: HandleConnection and handleGlobalRequests *)

HandshakeFails(k) ==
  /\ conn[k] = "accepted"
  /\ conn' = [conn EXCEPT ![k] = "refused"]
  /\ metrics' = Counted({"handshakeFailures"}, {})
  /\ UNCHANGED <<conf, agent, verified, env, handle, chanVars, sessVars, captured>>

HandshakeSucceeds(k) ==
  /\ conn[k] = "accepted"
  /\ conn' = [conn EXCEPT ![k] = "serving"]
  /\ metrics' = Counted({"opened", "active"}, {})
  /\ UNCHANGED <<conf, agent, verified, env, handle, chanVars, sessVars, captured>>

\* The client's connection is lost: every channel on it ends at once.
Disconnect(k) ==
  /\ conn[k] = "serving"
  /\ conn' = [conn EXCEPT ![k] = "gone"]
  /\ chan' = [c \in Channels |->
                IF ConnOf[c] = k /\ chan[c] \in {"open", "closing"}
                THEN "hungup" ELSE chan[c]]
  /\ UNCHANGED <<conf, agent, verified, env, handle, exits, sessVars, captured, metrics>>

\* HandleConnection leaves its channel loop and returns; sessions may run on.
ConnectionReturns(k) ==
  /\ conn[k] = "gone"
  /\ conn' = [conn EXCEPT ![k] = "closed"]
  /\ metrics' = Counted({}, {"active"})
  /\ UNCHANGED <<conf, agent, verified, env, handle, chanVars, sessVars, captured>>

\* auth-agent-req, global or on a channel, or an agent channel of the client.
RequestAgent(k) ==
  /\ Attended(k)
  /\ agent' = [agent EXCEPT ![k] = TRUE]
  /\ UNCHANGED <<conf, conn, verified, env, handle, chanVars, sessVars, captured, metrics>>

\* A well-formed LC_SSH_SERVER, global or on any channel at any time; static
\* routing ignores it, and a malformed one changes nothing.
ReceiveEnv(k) ==
  /\ Attended(k)
  /\ ~conf.static
  /\ env' = [env EXCEPT ![k] = TRUE]
  /\ UNCHANGED <<conf, conn, agent, verified, handle, chanVars, sessVars, captured, metrics>>

OpenChannel(c) ==
  /\ conn[ConnOf[c]] = "serving"
  /\ chan[c] = "unopened"
  /\ chan' = [chan EXCEPT ![c] = "open"]
  /\ UNCHANGED <<conf, connVars, handle, exits, sessVars, captured, metrics>>

------------------------------------------------------------------------------
(* Channels: handleChannel *)

PeerCloses(c) ==
  /\ chan[c] \in {"open", "closing"}
  /\ chan' = [chan EXCEPT ![c] = "hungup"]
  /\ UNCHANGED <<conf, connVars, handle, exits, sessVars, captured, metrics>>

\* Mutant: a subsystem request starts a session.
BeginSubsystem(c, k) ==
  /\ Listening(c)
  /\ Goto(c, "none", "start")
  /\ kind' = [kind EXCEPT ![c] = "subsystem"]
  /\ UNCHANGED <<conf, connVars, handle, chanVars, open, outcome, approval, captured, metrics>>

\* shell or exec; sessionStarted refuses a second one.
BeginSession(c, k) ==
  /\ Listening(c)
  /\ Goto(c, "none", "start")
  /\ kind' = [kind EXCEPT ![c] = k]
  /\ UNCHANGED <<conf, connVars, handle, chanVars, open, outcome, approval, captured, metrics>>

\* The last buffered request has been handled.
RequestsEnd(c) ==
  /\ chan[c] = "hungup"
  /\ chan' = [chan EXCEPT ![c] = "drained"]
  /\ UNCHANGED <<conf, connVars, handle, exits, sessVars, captured, metrics>>

\* Mutant: the handler waits also where there is nothing to wait for.
SessionDoneAlways(c) == pc[c] = "done"

\* if sessionDone != nil { <-sessionDone }
SessionDone(c) == pc[c] = "none" \/ pc[c] = "done"

HandlerReturns(c) ==
  /\ chan[c] = "drained"
  /\ SessionDone(c)
  /\ chan' = [chan EXCEPT ![c] = "exited"]
  /\ UNCHANGED <<conf, connVars, handle, exits, sessVars, captured, metrics>>

------------------------------------------------------------------------------
(* Admission: handleShellProxy, handleExecProxy, ensureSSOAuthentication *)

DirectAllowed(c) == kind[c] = "exec" => conf.direct

\* Mutant: direct commands are let through without a second factor.
NeedsSSOForShell(c) == conf.sso /\ ~verified[ConnOf[c]] /\ kind[c] = "shell"

NeedsSSO(c) == conf.sso /\ ~verified[ConnOf[c]]

RejectDirect(c) ==
  /\ ~DirectAllowed(c)
  /\ Goto(c, "start", "done")
  /\ outcome' = [outcome EXCEPT ![c] = "rejected"]
  /\ metrics' = Counted({"rejected"}, {})
  /\ Tell(c)
  /\ UNCHANGED <<conf, connVars, handle, kind, open, approval, captured>>

SkipSSO(c) ==
  /\ DirectAllowed(c)
  /\ ~NeedsSSO(c)
  /\ Goto(c, "start", "route")
  /\ UNCHANGED <<conf, connVars, handle, chanVars, kind, open, outcome, approval, captured, metrics>>

BeginSSO(c) ==
  /\ DirectAllowed(c)
  /\ NeedsSSO(c)
  /\ Goto(c, "start", "sso")
  /\ metrics' = Counted({"pending"}, {})
  /\ UNCHANGED <<conf, connVars, handle, chanVars, kind, open, outcome, approval, captured>>

\* The device flow ends with the identity who confirming: does it match?
AcceptSSO(c, who) ==
  /\ Acceptable(who)
  /\ Goto(c, "sso", "route")
  /\ approval' = [approval EXCEPT ![c] = who]
  /\ verified' = [verified EXCEPT ![ConnOf[c]] = TRUE]
  /\ metrics' = Counted({"ssoSuccess"}, {"pending"})
  /\ UNCHANGED <<conf, conn, agent, env, handle, chanVars, kind, open, outcome, captured>>

\* Mutant: the failure leaves the session counted as pending.
RejectSSOPending(c, who) ==
  /\ ~Acceptable(who)
  /\ Fails(c, "sso", "failure")
  /\ approval' = [approval EXCEPT ![c] = who]
  /\ metrics' = Counted({"ssoFailure", "ssoErrors"}, {})
  /\ UNCHANGED <<conf, connVars, handle, chanVars, kind, open, captured>>

\* Another identity confirmed, or the flow failed: timeout, refusal, a failing
\* request.  A lost client does not end the flow.
RejectSSO(c, who) ==
  /\ ~Acceptable(who)
  /\ Fails(c, "sso", "failure")
  /\ approval' = [approval EXCEPT ![c] = who]
  /\ metrics' = Counted({"ssoFailure", "ssoErrors"}, {"pending"})
  /\ UNCHANGED <<conf, connVars, handle, chanVars, kind, open, captured>>

------------------------------------------------------------------------------
(* The proxied session: proxySession *)

\* Static targets, LC_SSH_SERVER, or a command that names a host.
ResolveTarget(c) ==
  /\ conf.static \/ env[ConnOf[c]] \/ kind[c] = "exec"
  /\ Goto(c, "route", "dial")
  /\ UNCHANGED <<conf, connVars, handle, chanVars, kind, open, outcome, approval, captured, metrics>>

NoTarget(c) ==
  /\ ~conf.static /\ ~env[ConnOf[c]]
  /\ Fails(c, "route", "failure")
  /\ UNCHANGED <<conf, connVars, handle, chanVars, kind, open, approval, captured, metrics>>

\* Mutant: the resource is not published.
AcquireSilently(c, h) ==
  /\ open' = [open EXCEPT ![c] = @ \cup {h}]
  /\ handle' = handle

\* The session goroutine acquires h and publishes it in the SessionState.
Acquire(c, h) ==
  /\ open' = [open EXCEPT ![c] = @ \cup {h}]
  /\ handle' = [handle EXCEPT ![ConnOf[c]][h] = c]

\* Authenticating to a target needs the client's agent, so the client.
AgentSigns(c) ==
  /\ agent[ConnOf[c]] /\ conn[ConnOf[c]] = "serving"
  /\ Goto(c, "dial", "signed")
  /\ UNCHANGED <<conf, connVars, handle, chanVars, kind, open, outcome, approval, captured, metrics>>

\* The target refuses nevertheless, or is lost: the next one is tried.
TargetFails(c) ==
  /\ Goto(c, "signed", "dial")
  /\ UNCHANGED <<conf, connVars, handle, chanVars, kind, open, outcome, approval, captured, metrics>>

\* The target accepts; by now the client may have left.
Connect(c) ==
  /\ Goto(c, "signed", "setup")
  /\ Acquire(c, "client")
  /\ UNCHANGED <<conf, connVars, chanVars, kind, outcome, approval, captured, metrics>>

\* No target could be connected to, after all retries.
ConnectFails(c) ==
  /\ Fails(c, "dial", "failure")
  /\ UNCHANGED <<conf, connVars, handle, chanVars, kind, open, approval, captured, metrics>>

OpenTargetSession(c) ==
  /\ pc[c] = "setup"
  /\ open[c] = {"client"}
  /\ Acquire(c, "session")
  /\ UNCHANGED <<conf, connVars, chanVars, kind, pc, outcome, approval, captured, metrics>>

CreateRecorder(c) ==
  /\ pc[c] = "setup"
  /\ open[c] = {"client", "session"}
  /\ Acquire(c, "recorder")
  /\ UNCHANGED <<conf, connVars, chanVars, kind, pc, outcome, approval, captured, metrics>>

\* Pipes, environment and PTY are in place: the copiers are started.
SpawnStreams(c) ==
  /\ Goto(c, "setup", "streaming")
  /\ open[c] = Handles
  /\ captured' = [captured EXCEPT ![c] = [s \in Streams |-> "spawned"]]
  /\ UNCHANGED <<conf, connVars, handle, chanVars, kind, open, outcome, approval, metrics>>

\* A copier goroutine starts to run: it reads the shared Recorder pointer.
CaptureRecorder(c, s) ==
  /\ captured[c][s] = "spawned"
  /\ captured' = [captured EXCEPT ![c][s] = handle[ConnOf[c]]["recorder"]]
  /\ UNCHANGED <<conf, connVars, handle, chanVars, sessVars, metrics>>

StartRemote(c) ==
  /\ Goto(c, "streaming", "running")
  /\ UNCHANGED <<conf, connVars, handle, chanVars, kind, open, outcome, approval, captured, metrics>>

\* NewSession, the recorder, a pipe, the PTY, Shell or Start returns an error.
SetupFails(c) ==
  /\ pc[c] \in {"setup", "streaming"}
  /\ pc' = [pc EXCEPT ![c] = "unwind"]
  /\ outcome' = [outcome EXCEPT ![c] = "failure"]
  /\ UNCHANGED <<conf, connVars, handle, chanVars, kind, open, approval, captured, metrics>>

\* Mutant: the client is not told.
RemoteEndsSilently(c, r) ==
  /\ Goto(c, "running", "unwind")
  /\ outcome' = [outcome EXCEPT ![c] = r]
  /\ UNCHANGED <<conf, connVars, handle, chanVars, kind, open, approval, captured, metrics>>

\* Wait returns: the command exited, or (failure) the target was lost.
RemoteEnds(c, r) ==
  /\ Goto(c, "running", "unwind")
  /\ outcome' = [outcome EXCEPT ![c] = r]
  /\ Tell(c)
  /\ UNCHANGED <<conf, connVars, handle, kind, open, approval, captured, metrics>>

\* Deferred calls run last in, first out.
Innermost(c) == IF "recorder" \in open[c] THEN "recorder"
                ELSE IF "session" \in open[c] THEN "session" ELSE "client"

\* Mutant: the pointer is not cleared.
UnpublishNothing(c) ==
  /\ Goto(c, "unwind", "close")
  /\ UNCHANGED <<conf, connVars, handle, chanVars, kind, open, outcome, approval, captured, metrics>>

\* Every deferred release first clears the shared pointer, whoever set it...
Unpublish(c) ==
  /\ Goto(c, "unwind", "close")
  /\ handle' = [handle EXCEPT ![ConnOf[c]][Innermost(c)] = None]
  /\ UNCHANGED <<conf, connVars, chanVars, kind, open, outcome, approval, captured, metrics>>

\* Mutant: only the innermost resource is released.
ReleaseInnermost(c) ==
  /\ open' = [open EXCEPT ![c] = @ \ {Innermost(c)}]
  /\ Goto(c, "close", "released")
  /\ UNCHANGED <<conf, connVars, handle, chanVars, kind, outcome, approval, captured, metrics>>

\* ...and then closes the resource.
Release(c) ==
  /\ open' = [open EXCEPT ![c] = @ \ {Innermost(c)}]
  /\ Goto(c, "close", IF open[c] = {Innermost(c)} THEN "released" ELSE "unwind")
  /\ UNCHANGED <<conf, connVars, handle, chanVars, kind, outcome, approval, captured, metrics>>

\* The handler records the result and, on an error, tells the client if the
\* channel is still open.
Report(c) ==
  /\ pc[c] \in {"released", "report"}
  /\ pc' = [pc EXCEPT ![c] = "done"]
  /\ metrics' = Counted({outcome[c]}, {})
  /\ IF outcome[c] = "failure" THEN Tell(c) ELSE UNCHANGED chanVars
  /\ UNCHANGED <<conf, connVars, handle, kind, open, outcome, approval, captured>>

------------------------------------------------------------------------------
ConnStep(k) ==
  \/ HandshakeFails(k) \/ HandshakeSucceeds(k) \/ Disconnect(k)
  \/ ConnectionReturns(k) \/ RequestAgent(k) \/ ReceiveEnv(k)

ChannelStep(c) ==
  \/ OpenChannel(c) \/ PeerCloses(c) \/ RequestsEnd(c) \/ HandlerReturns(c)
  \/ \E k \in {"shell", "exec"} : BeginSession(c, k)

AdmissionStep(c) ==
  \/ RejectDirect(c) \/ SkipSSO(c) \/ BeginSSO(c)
  \/ \E who \in {"user", "other", "failed"} : AcceptSSO(c, who) \/ RejectSSO(c, who)

SetupStep(c) ==
  \/ ResolveTarget(c) \/ NoTarget(c) \/ AgentSigns(c) \/ TargetFails(c)
  \/ Connect(c) \/ ConnectFails(c)
  \/ OpenTargetSession(c) \/ CreateRecorder(c) \/ SpawnStreams(c)
  \/ StartRemote(c) \/ SetupFails(c)
  \/ \E s \in Streams : CaptureRecorder(c, s)

EndStep(c) ==
  \/ \E r \in {"success", "failure"} : RemoteEnds(c, r)
  \/ Unpublish(c) \/ Release(c) \/ Report(c)

\* Nothing is left to do; the process waits for connections.
Idle ==
  /\ \A k \in Conns : conn[k] \in {"refused", "closed"}
  /\ \A c \in Channels : chan[c] \in {"unopened", "exited"}
  /\ UNCHANGED vars

Next ==
  \/ \E k \in Conns : ConnStep(k)
  \/ \E c \in Channels : \/ ChannelStep(c) \/ AdmissionStep(c)
                         \/ SetupStep(c) \/ EndStep(c)
  \/ Idle

\* Goroutines that wait for nobody outside the process keep running.
Fairness ==
  \A c \in Channels : WF_vars(RequestsEnd(c) \/ HandlerReturns(c)) 
                   /\ WF_vars(Unpublish(c) \/ Release(c) \/ Report(c))

Spec == Init /\ [][Next]_vars /\ Fairness

------------------------------------------------------------------------------
(* Properties *)

\* A session that holds target resources was admitted: direct commands are
\* allowed if it is one; if SSO is required, the device flow of some session
\* on this connection was confirmed by an acceptable identity, and its own,
\* if it had to run one, was not refused (server.go:340-419, 482-583).
AdmissionPolicy ==
  \A c \in Channels : open[c] # {} =>
    /\ DirectAllowed(c)
    /\ conf.sso => /\ \E d \in Channels : ConnOf[d] = ConnOf[c] /\ Admissible(d)
                   /\ approval[c] # "none" => Admissible(c)

\* A pointer in the SessionState never outlives what it points to: its owner
\* still holds the resource open, however the sessions sharing it overlap
\* (server.go:492-533, each defer clears the pointer before closing).
HandlesLive ==
  \A c \in Channels, k \in Conns, h \in Handles : handle[k][h] = c =>
    /\ ConnOf[c] = k
    /\ h \in open[c]
    /\ ~(pc[c] = "close" /\ h = Innermost(c))

\* The client gets exactly one exit status before its channel is closed by
\* the proxy, never two, whichever of finalizeRemoteSession and the handlers
\* comes to send it; and a session that is over leaves no channel open
\* (server.go:333, 346, 363, 831-848).
ExitStatusOnce ==
  \A c \in Channels :
    /\ exits[c] <= 1
    /\ chan[c] = "closing" => exits[c] = 1
    /\ pc[c] = "done" => chan[c] # "open"
    /\ pc[c] \in {"none", "start", "sso", "route", "dial", "signed",
                 "setup", "streaming", "running"} => exits[c] = 0

\* A session that is over holds nothing, and no pointer leads to it; one that
\* runs holds all three resources (the defers of server.go:495-533).
NothingLeaks ==
  \A c \in Channels :
    /\ pc[c] \in {"released", "report", "done"} =>
         open[c] = {} /\ \A h \in Handles : handle[ConnOf[c]][h] # c
    /\ pc[c] \in {"streaming", "running"} => open[c] = Handles

\* Every counter equals what it counts and every gauge what it measures, on
\* every path through the handlers (metrics.go:97-161 and its callers).
MetricsBalance ==
  LET Count(S) == Cardinality(S)
  IN
  /\ metrics["active"] = Count({k \in Conns : conn[k] \in {"serving", "gone"}})
  /\ metrics["opened"] =
       Count({k \in Conns : conn[k] \in {"serving", "gone", "closed"}})
  /\ metrics["pending"] = Count({c \in Channels : pc[c] = "sso"})
  /\ \A r \in Results :
       metrics[r] = Count({c \in Channels : pc[c] = "done" /\ outcome[c] = r})
  /\ metrics["ssoSuccess"] = Count({c \in Channels : Admissible(c)})
  /\ metrics["ssoFailure"] = metrics["ssoErrors"]
  /\ metrics["ssoFailure"] + metrics["ssoSuccess"] =
       Count({c \in Channels : approval[c] # "none"})

\* A copier records into the recorder of its own session; it records into none
\* only if it comes to run when the session is already over (server.go:863, 877).
OwnRecorder ==
  \A c \in Channels, s \in Streams :
    \/ captured[c][s] \in {c, "unspawned", "spawned"}
    \/ captured[c][s] = None /\ pc[c] \notin {"streaming", "running"}

\* When the requests on a channel are over, its handler returns: at once if
\* it ran no session (it must not wait for a sessionDone that was never made),
\* otherwise as soon as the session has ended (server.go:315).
HandlersReturn ==
  \A c \in Channels :
    (chan[c] = "drained" /\ pc[c] \in {"none", "unwind", "close", "released", "report", "done"})
      ~> chan[c] = "exited"

\* What a session at point p of its code looks like from outside.
Phase(p) == IF p = "none" THEN "idle"
            ELSE IF p \in Held THEN "proxied"
            ELSE IF p = "released" THEN "released"
            ELSE IF p = "done" THEN "ended"
            ELSE "pending"

Bastion == INSTANCE BastionSession WITH
  confirmed <- {k \in Conns : conf.sso => verified[k]},
  phase <- [c \in Channels |-> Phase(pc[c])],
  present <- {c \in Channels : chan[c] \in {"unopened", "open", "closing"}},
  told <- exits

\* ProxyConnection implements BastionSession: no session reaches a target on an
\* unconfirmed connection, and none ends without having told its client, if it
\* is still there, one exit status (server.go:320-368, 482-583, 825-858).
Promise == Bastion!Spec
==============================================================================
