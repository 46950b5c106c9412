----------------------- MODULE ProxyConnectionProofs -----------------------
(***************************************************************************)
(* Theorems about ProxyConnection, for every set of connections, channels, *)
(* copiers and configurations, and every assignment of channels to         *)
(* connections.                                                            *)
(***************************************************************************)
EXTENDS ProxyConnection, FiniteSetTheorems, TLAPS

(* Counting keeps every counter an integer, whatever is counted.             *)
LEMMA CountedType ==
  ASSUME metrics \in [Counters -> Int], NEW up, NEW down
  PROVE  Counted(up, down) \in [Counters -> Int]
BY DEF Counted

(* Telling the client touches nothing but the channel and its count of exit  *)
(* statuses: one more and a closed channel if it was open, else nothing.     *)
LEMMA TellEffect ==
  ASSUME TypeOK, NEW c \in Channels, Tell(c)
  PROVE  /\ chan' = [chan EXCEPT ![c] = IF chan[c] = "open" THEN "closing" ELSE chan[c]]
         /\ exits' = [exits EXCEPT ![c] = IF chan[c] = "open" THEN exits[c] + 1
                                         ELSE exits[c]]
         /\ chan' \in [Channels -> {"unopened", "open", "closing", "hungup",
                                    "drained", "exited"}]
         /\ exits' \in [Channels -> Nat]
BY DEF Tell, TypeOK

(* Every variable keeps the type it is declared with: all handlers assign    *)
(* only states the tables of TypeOK list.                                    *)
THEOREM TypeCorrect == Spec => []TypeOK
<1>1. Init => TypeOK
  BY ConfigAssumption DEF Init, TypeOK, PCs, Counters, Handles, Results
<1>2. TypeOK /\ [Next]_vars => TypeOK'
  <2> SUFFICES ASSUME TypeOK, [Next]_vars PROVE TypeOK'
    OBVIOUS
  <2> USE ConnAssumption, ConfigAssumption
  <2>1. ASSUME NEW k \in Conns, ConnStep(k) PROVE TypeOK'
    <3>1. CASE HandshakeFails(k)
      BY <3>1 DEF TypeOK, HandshakeFails, Counted, chanVars, sessVars
    <3>2. CASE HandshakeSucceeds(k)
      BY <3>2 DEF TypeOK, HandshakeSucceeds, Counted, chanVars, sessVars
    <3>3. CASE Disconnect(k)
      BY <3>3 DEF TypeOK, Disconnect, sessVars
    <3>4. CASE ConnectionReturns(k)
      BY <3>4 DEF TypeOK, ConnectionReturns, Counted, chanVars, sessVars
    <3>5. CASE RequestAgent(k)
      BY <3>5 DEF TypeOK, RequestAgent, chanVars, sessVars
    <3>6. CASE ReceiveEnv(k)
      BY <3>6 DEF TypeOK, ReceiveEnv, chanVars, sessVars
    <3> QED
      BY <2>1, <3>1, <3>2, <3>3, <3>4, <3>5, <3>6 DEF ConnStep
  <2>2. ASSUME NEW c \in Channels, ChannelStep(c) PROVE TypeOK'
    <3>1. CASE OpenChannel(c)
      BY <3>1 DEF TypeOK, OpenChannel, connVars, sessVars
    <3>2. CASE PeerCloses(c)
      BY <3>2 DEF TypeOK, PeerCloses, connVars, sessVars
    <3>3. CASE RequestsEnd(c)
      BY <3>3 DEF TypeOK, RequestsEnd, connVars, sessVars
    <3>4. CASE HandlerReturns(c)
      BY <3>4 DEF TypeOK, HandlerReturns, connVars, sessVars
    <3>5. ASSUME NEW k \in {"shell", "exec"}, BeginSession(c, k) PROVE TypeOK'
      BY <3>5 DEF TypeOK, BeginSession, Goto, PCs, connVars, chanVars
    <3> QED
      BY <2>2, <3>1, <3>2, <3>3, <3>4, <3>5 DEF ChannelStep
  <2>3. ASSUME NEW c \in Channels, AdmissionStep(c) PROVE TypeOK'
    <3>1. CASE RejectDirect(c)
      BY <3>1, TellEffect, CountedType DEF TypeOK, RejectDirect, Goto, PCs, Results,
                                           connVars
    <3>2. CASE SkipSSO(c)
      BY <3>2 DEF TypeOK, SkipSSO, Goto, PCs, connVars, chanVars
    <3>3. CASE BeginSSO(c)
      BY <3>3 DEF TypeOK, BeginSSO, Goto, Counted, PCs, connVars, chanVars
    <3>4. ASSUME NEW who \in {"user", "other", "failed"}, AcceptSSO(c, who)
          PROVE  TypeOK'
      BY <3>4, CountedType DEF TypeOK, AcceptSSO, Goto, PCs, chanVars
    <3>5. ASSUME NEW who \in {"user", "other", "failed"}, RejectSSO(c, who)
          PROVE  TypeOK'
      BY <3>5, CountedType DEF TypeOK, RejectSSO, Fails, Goto, PCs, Results, connVars,
                               chanVars
    <3> QED
      BY <2>3, <3>1, <3>2, <3>3, <3>4, <3>5 DEF AdmissionStep
  <2>4. ASSUME NEW c \in Channels, SetupStep(c) PROVE TypeOK'
    <3>1. CASE ResolveTarget(c) \/ AgentSigns(c) \/ TargetFails(c)
      BY <3>1 DEF TypeOK, ResolveTarget, AgentSigns, TargetFails, Goto, PCs, connVars,
                  chanVars
    <3>2. CASE NoTarget(c)
      BY <3>2 DEF TypeOK, NoTarget, Fails, Goto, PCs, Results, connVars, chanVars
    <3>3. CASE Connect(c)
      BY <3>3 DEF TypeOK, Connect, Goto, Acquire, PCs, Handles, connVars, chanVars
    <3>4. CASE ConnectFails(c)
      BY <3>4 DEF TypeOK, ConnectFails, Fails, Goto, PCs, Results, connVars, chanVars
    <3>5. CASE OpenTargetSession(c)
      BY <3>5 DEF TypeOK, OpenTargetSession, Acquire, Handles, connVars, chanVars
    <3>6. CASE CreateRecorder(c)
      BY <3>6 DEF TypeOK, CreateRecorder, Acquire, Handles, connVars, chanVars
    <3>7. CASE SpawnStreams(c)
      BY <3>7 DEF TypeOK, SpawnStreams, Goto, PCs, connVars, chanVars
    <3>8. CASE StartRemote(c)
      BY <3>8 DEF TypeOK, StartRemote, Goto, PCs, connVars, chanVars
    <3>9. CASE SetupFails(c)
      BY <3>9 DEF TypeOK, SetupFails, PCs, Results, connVars, chanVars
    <3>10. ASSUME NEW s \in Streams, CaptureRecorder(c, s) PROVE TypeOK'
      BY <3>10 DEF TypeOK, CaptureRecorder, Handles, connVars, chanVars, sessVars
    <3> QED
      BY <2>4, <3>1, <3>2, <3>3, <3>4, <3>5, <3>6, <3>7, <3>8, <3>9, <3>10 DEF SetupStep
  <2>5. ASSUME NEW c \in Channels, EndStep(c) PROVE TypeOK'
    <3>1. ASSUME NEW r \in {"success", "failure"}, RemoteEnds(c, r) PROVE TypeOK'
      BY <3>1, TellEffect DEF TypeOK, RemoteEnds, Goto, PCs, Results, connVars
    <3>2. CASE Unpublish(c)
      BY <3>2 DEF TypeOK, Unpublish, Goto, Innermost, PCs, Handles, connVars, chanVars
    <3>3. CASE Release(c)
      BY <3>3 DEF TypeOK, Release, Goto, PCs, connVars, chanVars
    <3>4. CASE Report(c)
      <4>1. CASE outcome[c] = "failure"
        BY <3>4, <4>1, TellEffect, CountedType DEF TypeOK, Report, PCs, connVars
      <4>2. CASE outcome[c] # "failure"
        BY <3>4, <4>2, CountedType DEF TypeOK, Report, PCs, connVars, chanVars
      <4> QED
        BY <4>1, <4>2
    <3> QED
      BY <2>5, <3>1, <3>2, <3>3, <3>4 DEF EndStep
  <2>6. CASE UNCHANGED vars
    BY <2>6 DEF TypeOK, vars, connVars, chanVars, sessVars
  <2> QED
    BY <2>1, <2>2, <2>3, <2>4, <2>5, <2>6 DEF Next, Idle
<1> QED
  BY <1>1, <1>2, PTL DEF Spec

-----------------------------------------------------------------------------
(* The inductive invariants *)

\* Resources are acquired client first, recorder last, and released backwards.
Towers == {{"client"}, {"client", "session"}, Handles}

Shape ==
  \A c \in Channels :
    /\ pc[c] \notin Held => open[c] = {}
    /\ pc[c] \in Held => open[c] \in Towers
    /\ pc[c] \in {"streaming", "running"} => open[c] = Handles

\* What admission has established by the time a session is past it.
Admitted ==
  /\ \A k \in Conns : verified[k] =>
       \E d \in Channels : ConnOf[d] = k /\ Admissible(d)
  /\ \A c \in Channels :
       /\ pc[c] \in {"none", "start", "sso"} => approval[c] = "none"
       /\ pc[c] = "sso" => DirectAllowed(c)
       /\ pc[c] \in Held \cup {"route", "dial", "signed"} =>
            /\ DirectAllowed(c)
            /\ conf.sso => /\ verified[ConnOf[c]]
                           /\ approval[c] # "none" => Admissible(c)

\* An exit status is sent with the proxy's close of a channel, and only then.
Exits ==
  \A c \in Channels :
    /\ exits[c] \in {0, 1}
    /\ chan[c] \in {"unopened", "open"} => exits[c] = 0
    /\ chan[c] = "closing" => exits[c] = 1
    /\ pc[c] \notin {"unwind", "close", "released", "done"} => exits[c] = 0
    /\ outcome[c] # "none" <=> pc[c] \in {"unwind", "close", "released", "report", "done"}
    /\ outcome[c] \in {"success", "rejected"} => chan[c] # "open"
    /\ pc[c] = "done" => chan[c] # "open"
    /\ pc[c] # "none" => chan[c] # "unopened"


-----------------------------------------------------------------------------
(* What the steps of connections and channels leave alone *)

(* A connection's steps touch no session; a channel they touch is hung up.   *)
LEMMA ConnFrame ==
  ASSUME TypeOK, NEW k \in Conns, ConnStep(k)
  PROVE  /\ UNCHANGED <<conf, verified, handle, exits, sessVars, captured>>
         /\ \A c \in Channels :
              \/ chan'[c] = chan[c]
              \/ chan[c] \in {"open", "closing"} /\ chan'[c] = "hungup"
<1>1. CASE HandshakeFails(k)
  BY <1>1 DEF HandshakeFails, chanVars
<1>2. CASE HandshakeSucceeds(k)
  BY <1>2 DEF HandshakeSucceeds, chanVars
<1>3. CASE Disconnect(k)
  BY <1>3 DEF Disconnect, TypeOK
<1>4. CASE ConnectionReturns(k)
  BY <1>4 DEF ConnectionReturns, chanVars
<1>5. CASE RequestAgent(k)
  BY <1>5 DEF RequestAgent, chanVars
<1>6. CASE ReceiveEnv(k)
  BY <1>6 DEF ReceiveEnv, chanVars
<1> QED
  BY <1>1, <1>2, <1>3, <1>4, <1>5, <1>6 DEF ConnStep

(* Every other step is of one channel d and leaves the session, the channel  *)
(* and the copiers of any other channel alone.                               *)
LEMMA ChannelFrame ==
  ASSUME TypeOK, NEW d \in Channels,
         ChannelStep(d) \/ AdmissionStep(d) \/ SetupStep(d) \/ EndStep(d),
         NEW c \in Channels, c # d
  PROVE  UNCHANGED <<conf, chan[c], exits[c], kind[c], pc[c], open[c],
                     outcome[c], approval[c], captured[c]>>
<1> USE DEF TypeOK, connVars, chanVars, sessVars
<1>1. CASE ChannelStep(d)
  BY <1>1 DEF ChannelStep, OpenChannel, PeerCloses, RequestsEnd, HandlerReturns,
              BeginSession, Goto
<1>2. CASE AdmissionStep(d)
  BY <1>2 DEF AdmissionStep, RejectDirect, SkipSSO, BeginSSO, AcceptSSO, RejectSSO,
              Goto, Fails, Tell
<1>3. CASE SetupStep(d)
  BY <1>3 DEF SetupStep, ResolveTarget, AgentSigns, TargetFails, NoTarget, Connect,
              ConnectFails,
              OpenTargetSession, CreateRecorder, SpawnStreams, StartRemote, SetupFails,
              CaptureRecorder, Acquire, Goto, Fails
<1>4. CASE EndStep(d)
  BY <1>4 DEF EndStep, RemoteEnds, Unpublish, Release, Report, Goto, Tell
<1> QED
  BY <1>1, <1>2, <1>3, <1>4

-----------------------------------------------------------------------------
(* What a session holds is a tower of resources, complete while it runs and  *)
(* gone once it is over.                                                     *)
THEOREM ShapeCorrect == Spec => []Shape
<1>1. Init => Shape
  BY DEF Init, Shape, Held
<1>2. TypeOK /\ Shape /\ [Next]_vars => Shape'
  <2> SUFFICES ASSUME TypeOK, Shape, [Next]_vars PROVE Shape'
    OBVIOUS
  <2>1. ASSUME NEW k \in Conns, ConnStep(k) PROVE Shape'
    BY <2>1, ConnFrame DEF Shape, sessVars
  <2>2. ASSUME NEW d \in Channels,
               ChannelStep(d) \/ AdmissionStep(d) \/ SetupStep(d) \/ EndStep(d),
               /\ pc'[d] \notin Held => open'[d] = {}
               /\ pc'[d] \in Held => open'[d] \in Towers
               /\ pc'[d] \in {"streaming", "running"} => open'[d] = Handles
        PROVE  Shape'
    BY <2>2, ChannelFrame DEF Shape
  <2> USE DEF TypeOK, Shape, Held
  <2>3. ASSUME NEW d \in Channels, ChannelStep(d) PROVE Shape'
    <3>1. open' = open /\ (pc'[d] = pc[d] \/ (pc[d] = "none" /\ pc'[d] = "start"))
      <4>1. CASE \E k \in {"shell", "exec"} : BeginSession(d, k)
        <5>1. PICK k \in {"shell", "exec"} : BeginSession(d, k)
          BY <4>1
        <5> QED
          BY <5>1 DEF BeginSession, Goto
      <4>2. CASE OpenChannel(d) \/ PeerCloses(d) \/ RequestsEnd(d) \/ HandlerReturns(d)
        BY <4>2 DEF OpenChannel, PeerCloses, RequestsEnd, HandlerReturns, sessVars
      <4> QED
        BY <2>3, <4>1, <4>2 DEF ChannelStep
    <3> QED
      BY <2>2, <2>3, <3>1
  <2>4. ASSUME NEW d \in Channels, AdmissionStep(d) PROVE Shape'
    <3>1. open' = open /\ pc[d] \in {"start", "sso"}
                       /\ pc'[d] \in {"sso", "route", "report", "done"}
      BY <2>4 DEF AdmissionStep, RejectDirect, SkipSSO, BeginSSO, AcceptSSO, RejectSSO,
                  Goto, Fails
    <3> QED
      BY <2>2, <2>4, <3>1
  <2>5. ASSUME NEW d \in Channels, SetupStep(d) PROVE Shape'
    <3>1. CASE \/ ResolveTarget(d) \/ AgentSigns(d) \/ TargetFails(d) \/ NoTarget(d)
               \/ ConnectFails(d)
      <4>1. open' = open /\ pc[d] \in {"route", "dial", "signed"}
                        /\ pc'[d] \in {"dial", "signed", "report"}
        BY <3>1 DEF ResolveTarget, AgentSigns, TargetFails, NoTarget, ConnectFails,
                    Goto, Fails
      <4> QED
        BY <2>2, <2>5, <4>1
    <3>2. CASE Connect(d)
      <4>1. open'[d] = {"client"} /\ pc'[d] = "setup"
        BY <3>2 DEF Connect, Acquire, Goto
      <4> QED
        BY <2>2, <2>5, <4>1 DEF Towers
    <3>3. CASE OpenTargetSession(d)
      <4>1. open'[d] = {"client", "session"} /\ pc'[d] = "setup"
        BY <3>3 DEF OpenTargetSession, Acquire
      <4> QED
        BY <2>2, <2>5, <4>1 DEF Towers
    <3>4. CASE CreateRecorder(d)
      <4>1. open'[d] = Handles /\ pc'[d] = "setup"
        BY <3>4 DEF CreateRecorder, Acquire, Handles
      <4> QED
        BY <2>2, <2>5, <4>1 DEF Towers
    <3>5. CASE SpawnStreams(d) \/ StartRemote(d)
      <4>1. open' = open /\ open[d] = Handles /\ pc'[d] \in {"streaming", "running"}
        BY <3>5 DEF SpawnStreams, StartRemote, Goto
      <4> QED
        BY <2>2, <2>5, <4>1 DEF Towers
    <3>6. CASE SetupFails(d)
      <4>1. open' = open /\ pc[d] \in Held /\ pc'[d] = "unwind"
        BY <3>6 DEF SetupFails
      <4> QED
        BY <2>2, <2>5, <4>1
    <3>7. ASSUME NEW s \in Streams, CaptureRecorder(d, s) PROVE Shape'
      BY <3>7 DEF CaptureRecorder, sessVars
    <3> QED
      BY <2>5, <3>1, <3>2, <3>3, <3>4, <3>5, <3>6, <3>7 DEF SetupStep
  <2>6. ASSUME NEW d \in Channels, EndStep(d) PROVE Shape'
    <3>1. ASSUME NEW r \in {"success", "failure"}, RemoteEnds(d, r) PROVE Shape'
      <4>1. open' = open /\ pc[d] \in Held /\ pc'[d] = "unwind"
        BY <3>1 DEF RemoteEnds, Goto
      <4> QED
        BY <2>2, <2>6, <4>1
    <3>2. CASE Unpublish(d)
      <4>1. open' = open /\ pc[d] \in Held /\ pc'[d] = "close"
        BY <3>2 DEF Unpublish, Goto
      <4> QED
        BY <2>2, <2>6, <4>1
    <3>3. CASE Release(d)
      <4>1. open[d] \in Towers
        BY <3>3 DEF Release, Goto
      <4>2. open'[d] = open[d] \ {Innermost(d)}
        BY <3>3 DEF Release
      <4>3. pc'[d] = IF open[d] = {Innermost(d)} THEN "released" ELSE "unwind"
        BY <3>3 DEF Release, Goto
      <4>4. CASE open[d] = {"client"}
        <5>1. Innermost(d) = "client"
          BY <4>4 DEF Innermost
        <5> QED
          BY <2>2, <2>6, <4>2, <4>3, <4>4, <5>1
      <4>5. CASE open[d] = {"client", "session"}
        <5>1. Innermost(d) = "session" /\ open'[d] = {"client"}
          BY <4>2, <4>5 DEF Innermost
        <5>2. pc'[d] = "unwind"
          BY <4>3, <4>5, <5>1
        <5> QED
          BY <2>2, <2>6, <5>1, <5>2 DEF Towers
      <4>6. CASE open[d] = Handles
        <5>1. Innermost(d) = "recorder" /\ open'[d] = {"client", "session"}
          BY <4>2, <4>6 DEF Innermost, Handles
        <5>2. pc'[d] = "unwind"
          BY <4>3, <4>6, <5>1 DEF Handles
        <5> QED
          BY <2>2, <2>6, <5>1, <5>2 DEF Towers
      <4> QED
        BY <4>1, <4>4, <4>5, <4>6 DEF Towers
    <3>4. CASE Report(d)
      <4>1. open' = open /\ pc[d] \in {"released", "report"} /\ pc'[d] = "done"
        BY <3>4 DEF Report
      <4> QED
        BY <2>2, <2>6, <4>1
    <3> QED
      BY <2>6, <3>1, <3>2, <3>3, <3>4 DEF EndStep
  <2>7. CASE UNCHANGED vars
    BY <2>7 DEF vars, sessVars
  <2> QED
    BY <2>1, <2>3, <2>4, <2>5, <2>6, <2>7 DEF Next, Idle
<1> QED
  BY <1>1, <1>2, TypeCorrect, PTL DEF Spec


-----------------------------------------------------------------------------
(* A pointer of the SessionState never outlives the resource it points to,   *)
(* although every session of the connection overwrites and clears it: each   *)
(* deferred release clears the pointer before it closes (server.go:495-533). *)
THEOREM PointersLive == Spec => []HandlesLive
<1>1. Init => HandlesLive
  BY NoneAssumption DEF Init, HandlesLive
<1>2. TypeOK /\ TypeOK' /\ HandlesLive /\ [Next]_vars => HandlesLive'
  <2> SUFFICES ASSUME TypeOK, TypeOK', HandlesLive, [Next]_vars,
                      NEW c \in Channels, NEW k \in Conns, NEW h \in Handles,
                      handle'[k][h] = c
               PROVE  /\ ConnOf[c] = k
                      /\ h \in open'[c]
                      /\ ~(pc'[c] = "close" /\ h = Innermost(c)')
    BY DEF HandlesLive
  <2> DEFINE Live == /\ ConnOf[c] = k
                     /\ h \in open[c]
                     /\ ~(pc[c] = "close" /\ h = Innermost(c))
  <2>1. handle[k][h] = c => Live
    BY DEF HandlesLive
  <2> HIDE DEF Live
  \* A step that leaves the pointer and the session of c alone.
  <2>2. ASSUME handle'[k][h] = handle[k][h], open'[c] = open[c],
               pc'[c] = "close" => pc[c] = "close"
        PROVE  Live'
    BY <2>1, <2>2 DEF Live, Innermost
  <2>3. ASSUME NEW i \in Conns, ConnStep(i) PROVE Live'
    BY <2>2, <2>3, ConnFrame DEF sessVars
  \* A session's own step that leaves pointers and resources alone.
  <2>4. ASSUME NEW d \in Channels,
               ChannelStep(d) \/ AdmissionStep(d) \/ SetupStep(d) \/ EndStep(d),
               handle' = handle, open' = open, pc'[d] = "close" => pc[d] = "close"
        PROVE  Live'
    BY <2>2, <2>4, ChannelFrame
  <2>5. ASSUME NEW d \in Channels, ChannelStep(d) PROVE Live'
    <3>1. CASE OpenChannel(d) \/ PeerCloses(d) \/ RequestsEnd(d) \/ HandlerReturns(d)
      BY <2>4, <2>5, <3>1 DEF OpenChannel, PeerCloses, RequestsEnd, HandlerReturns, sessVars
    <3>2. ASSUME NEW r \in {"shell", "exec"}, BeginSession(d, r) PROVE Live'
      BY <2>4, <2>5, <3>2 DEF BeginSession, Goto, TypeOK
    <3> QED
      BY <2>5, <3>1, <3>2 DEF ChannelStep
  <2>6. ASSUME NEW d \in Channels, AdmissionStep(d) PROVE Live'
    <3>1. handle' = handle /\ open' = open /\ pc'[d] # "close"
      BY <2>6 DEF AdmissionStep, RejectDirect, SkipSSO, BeginSSO, AcceptSSO, RejectSSO,
                  Goto, Fails, TypeOK
    <3> QED
      BY <2>4, <2>6, <3>1
  <2>7. ASSUME NEW d \in Channels, NEW g \in Handles, SetupStep(d), Acquire(d, g),
               pc'[d] = "setup"
        PROVE  Live'
    <3>1. handle'[k][h] = IF k = ConnOf[d] /\ h = g THEN d ELSE handle[k][h]
      BY <2>7 DEF Acquire, TypeOK
    <3>2. CASE c # d
      BY <2>2, <2>7, <3>1, <3>2, ChannelFrame
    <3>3. CASE c = d
      <4>1. ConnOf[c] = k /\ (h = g \/ h \in open[c])
        BY <2>1, <3>1, <3>3 DEF Live
      <4>2. h \in open'[c]
        BY <2>7, <3>3, <4>1 DEF Acquire, TypeOK
      <4> QED
        BY <2>7, <3>3, <4>1, <4>2 DEF Live
    <3> QED
      BY <3>2, <3>3
  <2>8. ASSUME NEW d \in Channels, SetupStep(d) PROVE Live'
    <3>1. CASE Connect(d)
      BY <2>7, <2>8, <3>1 DEF Connect, Goto, Handles, TypeOK
    <3>2. CASE OpenTargetSession(d)
      BY <2>7, <2>8, <3>2 DEF OpenTargetSession, Handles
    <3>3. CASE CreateRecorder(d)
      BY <2>7, <2>8, <3>3 DEF CreateRecorder, Handles
    <3>4. CASE \/ ResolveTarget(d) \/ AgentSigns(d) \/ TargetFails(d) \/ NoTarget(d)
               \/ ConnectFails(d) \/ SpawnStreams(d)
               \/ StartRemote(d) \/ SetupFails(d)
      <4>1. handle' = handle /\ open' = open /\ pc'[d] # "close"
        BY <3>4 DEF ResolveTarget, AgentSigns, TargetFails, NoTarget, ConnectFails,
                    SpawnStreams, StartRemote,
                    SetupFails, Goto, Fails, TypeOK
      <4> QED
        BY <2>4, <2>8, <4>1
    <3>5. ASSUME NEW s \in Streams, CaptureRecorder(d, s) PROVE Live'
      BY <2>4, <2>8, <3>5 DEF CaptureRecorder, sessVars
    <3> QED
      BY <2>8, <3>1, <3>2, <3>3, <3>4, <3>5 DEF SetupStep
  <2>9. ASSUME NEW d \in Channels, EndStep(d) PROVE Live'
    <3>1. ASSUME NEW r \in {"success", "failure"}, RemoteEnds(d, r) PROVE Live'
      BY <2>4, <2>9, <3>1 DEF RemoteEnds, Goto, TypeOK
    <3>2. CASE Report(d)
      BY <2>4, <2>9, <3>2 DEF Report, TypeOK
    <3>3. CASE Unpublish(d)
      <4>1. handle[k][h] = c /\ ~(k = ConnOf[d] /\ h = Innermost(d))
        BY <3>3, ConnAssumption, NoneAssumption DEF Unpublish, TypeOK
      <4>2. open' = open /\ (c # d => pc'[c] = pc[c])
        BY <2>9, <3>3, ChannelFrame DEF Unpublish
      <4> QED
        BY <2>1, <4>1, <4>2 DEF Live, Innermost
    <3>4. CASE Release(d)
      <4>1. handle' = handle /\ pc[d] = "close" /\ pc'[d] # "close"
                             /\ open'[d] = open[d] \ {Innermost(d)}
        BY <3>4 DEF Release, Goto, TypeOK
      <4>2. CASE c = d
        BY <2>1, <4>1, <4>2 DEF Live
      <4>3. CASE c # d
        BY <2>2, <2>9, <4>1, <4>3, ChannelFrame
      <4> QED
        BY <4>2, <4>3
    <3> QED
      BY <2>9, <3>1, <3>2, <3>3, <3>4 DEF EndStep
  <2>10. CASE UNCHANGED vars
    BY <2>2, <2>10 DEF vars, sessVars, Live
  <2> QED
    BY <2>3, <2>5, <2>6, <2>8, <2>9, <2>10 DEF Next, Idle, Live
<1> QED
  BY <1>1, <1>2, TypeCorrect, PTL DEF Spec

(* When a session is over it holds nothing and no pointer leads to it; while *)
(* it runs it holds everything.                                              *)
THEOREM SessionsRelease == Spec => []NothingLeaks
<1>1. TypeOK /\ Shape /\ HandlesLive => NothingLeaks
  <2> SUFFICES ASSUME TypeOK, Shape, HandlesLive, NEW c \in Channels
               PROVE  /\ pc[c] \in {"released", "report", "done"} =>
                           /\ open[c] = {}
                           /\ \A h \in Handles : handle[ConnOf[c]][h] # c
                      /\ pc[c] \in {"streaming", "running"} => open[c] = Handles
    BY DEF NothingLeaks
  <2>1. pc[c] \in {"released", "report", "done"} => open[c] = {}
    BY DEF Shape, Held
  <2>2. ASSUME NEW h \in Handles, handle[ConnOf[c]][h] = c PROVE open[c] # {}
    BY <2>2, ConnAssumption DEF HandlesLive
  <2> QED
    BY <2>1, <2>2 DEF Shape
<1> QED
  BY <1>1, TypeCorrect, ShapeCorrect, PointersLive, PTL


-----------------------------------------------------------------------------
(* Only admitted sessions are past admission.                                *)
LEMMA AdmissionHolds == Spec => []Admitted
<1>1. Init => Admitted
  BY DEF Init, Admitted, Held
<1>2. TypeOK /\ TypeOK' /\ Admitted /\ [Next]_vars => Admitted'
  <2> SUFFICES ASSUME TypeOK, TypeOK', Admitted, [Next]_vars PROVE Admitted'
    OBVIOUS
  <2> DEFINE Past(c) == /\ pc[c] \in {"none", "start", "sso"} => approval[c] = "none"
                        /\ pc[c] = "sso" => DirectAllowed(c)
                        /\ pc[c] \in Held \cup {"route", "dial", "signed"} =>
                             /\ DirectAllowed(c)
                             /\ conf.sso => /\ verified[ConnOf[c]]
                                            /\ approval[c] # "none" => Admissible(c)
             Vouched(k) == verified[k] =>
                             \E d \in Channels : ConnOf[d] = k /\ Admissible(d)
  <2>1. (\A c \in Channels : Past(c)) /\ (\A k \in Conns : Vouched(k))
    BY DEF Admitted
  <2>2. (\A c \in Channels : Past(c)') /\ (\A k \in Conns : Vouched(k)') => Admitted'
    BY DEF Admitted
  <2> HIDE DEF Past, Vouched
  \* The flag is never cleared and a confirmation never withdrawn.
  <2>3. ASSUME NEW d \in Channels, Past(d)', UNCHANGED conf,
               ChannelStep(d) \/ AdmissionStep(d) \/ SetupStep(d) \/ EndStep(d),
               \/ verified' = verified
               \/ /\ verified' = [verified EXCEPT ![ConnOf[d]] = TRUE]
                  /\ Admissible(d)',
               approval'[d] = approval[d] \/ approval[d] = "none"
        PROVE  Admitted'
    <3>1. ASSUME NEW c \in Channels PROVE Past(c)'
      <4>1. verified[ConnOf[c]] => verified'[ConnOf[c]]
        BY <2>3, ConnAssumption DEF TypeOK
      <4>2. CASE c # d
        BY <2>1, <2>3, <4>1, <4>2, ChannelFrame
           DEF Past, DirectAllowed, Admissible, Acceptable
      <4> QED
        BY <2>3, <4>2
    <3>2. ASSUME NEW k \in Conns PROVE Vouched(k)'
      <4>1. ASSUME NEW c \in Channels, Admissible(c) PROVE Admissible(c)'
        <5>1. CASE c = d
          BY <2>3, <4>1, <5>1 DEF Admissible, Acceptable
        <5>2. CASE c # d
          BY <2>3, <4>1, <5>2, ChannelFrame DEF Admissible, Acceptable
        <5> QED
          BY <5>1, <5>2
      <4>2. CASE verified[k]
        BY <2>1, <4>1, <4>2 DEF Vouched
      <4>3. CASE ~verified[k]
        BY <2>3, <4>3, ConnAssumption DEF Vouched, TypeOK
      <4> QED
        BY <4>2, <4>3
    <3> QED
      BY <2>2, <3>1, <3>2
  <2>4. ASSUME NEW k \in Conns, ConnStep(k) PROVE Admitted'
    BY <2>4, ConnFrame DEF Admitted, Admissible, Acceptable, DirectAllowed, sessVars
  <2>5. ASSUME NEW d \in Channels, ChannelStep(d) PROVE Admitted'
    <3>1. CASE OpenChannel(d) \/ PeerCloses(d) \/ RequestsEnd(d) \/ HandlerReturns(d)
      <4>1. UNCHANGED <<conf, verified, sessVars>>
        BY <3>1 DEF OpenChannel, PeerCloses, RequestsEnd, HandlerReturns, connVars
      <4> QED
        BY <4>1 DEF Admitted, Admissible, Acceptable, DirectAllowed, sessVars
    <3>2. ASSUME NEW r \in {"shell", "exec"}, BeginSession(d, r) PROVE Admitted'
      <4>1. /\ UNCHANGED <<conf, verified, approval>>
            /\ pc[d] = "none" /\ pc'[d] = "start"
        BY <3>2 DEF BeginSession, Goto, TypeOK, connVars
      <4>2. Past(d)'
        BY <2>1, <4>1 DEF Past, Held
      <4> QED
        BY <2>3, <2>5, <4>1, <4>2
    <3> QED
      BY <2>5, <3>1, <3>2 DEF ChannelStep
  <2>6. ASSUME NEW d \in Channels, AdmissionStep(d) PROVE Admitted'
    <3>1. CASE RejectDirect(d)
      <4>1. UNCHANGED <<conf, verified, approval>> /\ pc'[d] = "done"
        BY <3>1 DEF RejectDirect, Goto, TypeOK, connVars
      <4> QED
        BY <2>3, <2>6, <4>1 DEF Past, Held
    <3>2. CASE SkipSSO(d)
      <4>1. /\ UNCHANGED <<conf, verified, approval, kind>>
            /\ pc[d] = "start" /\ pc'[d] = "route"
            /\ DirectAllowed(d) /\ (conf.sso => verified[ConnOf[d]])
        BY <3>2 DEF SkipSSO, Goto, TypeOK, connVars, NeedsSSO
      <4>2. Past(d)'
        BY <2>1, <4>1 DEF Past, DirectAllowed
      <4> QED
        BY <2>3, <2>6, <4>1, <4>2
    <3>3. CASE BeginSSO(d)
      <4>1. /\ UNCHANGED <<conf, verified, approval, kind>> /\ DirectAllowed(d)
            /\ pc[d] = "start" /\ pc'[d] = "sso"
        BY <3>3 DEF BeginSSO, Goto, TypeOK, connVars
      <4>2. Past(d)'
        BY <2>1, <4>1 DEF Past, Held, DirectAllowed
      <4> QED
        BY <2>3, <2>6, <4>1, <4>2
    <3>4. ASSUME NEW who \in {"user", "other", "failed"}, AcceptSSO(d, who)
          PROVE  Admitted'
      <4>1. /\ UNCHANGED <<conf, kind>> /\ pc[d] = "sso" /\ pc'[d] = "route"
            /\ approval'[d] = who /\ Acceptable(who)
            /\ verified' = [verified EXCEPT ![ConnOf[d]] = TRUE]
        BY <3>4 DEF AcceptSSO, Goto, TypeOK
      <4>2. approval[d] = "none" /\ Admissible(d)'
        BY <2>1, <4>1 DEF Past, Admissible, Acceptable
      <4>3. DirectAllowed(d)' /\ verified'[ConnOf[d]]
        <5>1. DirectAllowed(d)
          BY <2>1, <4>1 DEF Past
        <5> QED
          BY <4>1, <5>1, ConnAssumption DEF DirectAllowed, TypeOK
      <4>4. Past(d)'
        BY <4>1, <4>2, <4>3 DEF Past
      <4> QED
        BY <2>3, <2>6, <4>1, <4>2, <4>4
    <3>5. ASSUME NEW who \in {"user", "other", "failed"}, RejectSSO(d, who)
          PROVE  Admitted'
      <4>1. UNCHANGED <<conf, verified>> /\ pc[d] = "sso" /\ pc'[d] = "report"
        BY <3>5 DEF RejectSSO, Fails, Goto, TypeOK, connVars
      <4>2. approval[d] = "none" /\ Past(d)'
        BY <2>1, <4>1 DEF Past, Held
      <4> QED
        BY <2>3, <2>6, <4>1, <4>2
    <3> QED
      BY <2>6, <3>1, <3>2, <3>3, <3>4, <3>5 DEF AdmissionStep
  \* From here on the session only moves on among the points past admission.
  <2>7. ASSUME NEW d \in Channels, SetupStep(d) \/ EndStep(d),
               UNCHANGED <<conf, verified, approval, kind>>,
               pc'[d] = pc[d] \/ /\ pc[d] \in Held \cup {"route", "dial", "signed"}
                                 /\ pc'[d] \in Held \cup {"dial", "signed", "released", "report"}
                              \/ pc'[d] = "done"
        PROVE  Admitted'
    <3>1. Past(d)'
      BY <2>1, <2>7 DEF Past, DirectAllowed, Admissible, Acceptable, Held
    <3> QED
      BY <2>3, <2>7, <3>1
  <2>8. ASSUME NEW d \in Channels, SetupStep(d) PROVE Admitted'
    <3>1. CASE \/ ResolveTarget(d) \/ AgentSigns(d) \/ TargetFails(d) \/ NoTarget(d)
               \/ ConnectFails(d) \/ Connect(d)
               \/ SpawnStreams(d) \/ StartRemote(d) \/ SetupFails(d)
      <4>1. /\ UNCHANGED <<conf, verified, approval, kind>>
            /\ pc[d] \in Held \cup {"route", "dial", "signed"}
            /\ pc'[d] \in Held \cup {"dial", "signed", "released", "report"}
        BY <3>1 DEF ResolveTarget, AgentSigns, TargetFails, NoTarget, Connect,
                    ConnectFails, SpawnStreams,
                    StartRemote, SetupFails, Goto, Fails, TypeOK, connVars, Held
      <4> QED
        BY <2>7, <2>8, <4>1
    <3>2. CASE OpenTargetSession(d) \/ CreateRecorder(d)
      BY <2>7, <2>8, <3>2 DEF OpenTargetSession, CreateRecorder, connVars
    <3>3. ASSUME NEW s \in Streams, CaptureRecorder(d, s) PROVE Admitted'
      BY <2>7, <2>8, <3>3 DEF CaptureRecorder, connVars, sessVars
    <3> QED
      BY <2>8, <3>1, <3>2, <3>3 DEF SetupStep
  <2>9. ASSUME NEW d \in Channels, EndStep(d) PROVE Admitted'
    <3>1. CASE \/ Unpublish(d) \/ Release(d)
               \/ \E r \in {"success", "failure"} : RemoteEnds(d, r)
      <4>1. /\ UNCHANGED <<conf, verified, approval, kind>>
            /\ pc[d] \in Held /\ pc'[d] \in Held \cup {"released"}
        BY <3>1 DEF Unpublish, Release, RemoteEnds, Goto, TypeOK, connVars, Held
      <4> QED
        BY <2>7, <2>9, <4>1
    <3>2. CASE Report(d)
      BY <2>7, <2>9, <3>2 DEF Report, TypeOK, connVars
    <3> QED
      BY <2>9, <3>1, <3>2 DEF EndStep
  <2>10. CASE UNCHANGED vars
    BY <2>10 DEF Admitted, Admissible, Acceptable, DirectAllowed, vars, connVars, sessVars
  <2> QED
    BY <2>4, <2>5, <2>6, <2>8, <2>9, <2>10 DEF Next, Idle
<1> QED
  BY <1>1, <1>2, TypeCorrect, PTL DEF Spec

(* No session ever holds anything of a target without having been admitted,  *)
(* even when another session of its connection ran the device flow.          *)
THEOREM AdmissionCorrect == Spec => []AdmissionPolicy
<1>1. Shape /\ Admitted => AdmissionPolicy
  <2> SUFFICES ASSUME Shape, Admitted, NEW c \in Channels, open[c] # {}
               PROVE  /\ DirectAllowed(c)
                      /\ conf.sso =>
                           /\ \E d \in Channels : ConnOf[d] = ConnOf[c] /\ Admissible(d)
                           /\ approval[c] # "none" => Admissible(c)
    BY DEF AdmissionPolicy
  <2>1. pc[c] \in Held
    BY DEF Shape
  <2>2. DirectAllowed(c) /\ (conf.sso => /\ verified[ConnOf[c]]
                                         /\ approval[c] # "none" => Admissible(c))
    BY <2>1 DEF Admitted
  <2>3. ConnOf[c] \in Conns
    BY ConnAssumption
  <2> QED
    BY <2>2, <2>3 DEF Admitted
<1> QED
  BY <1>1, ShapeCorrect, AdmissionHolds, PTL


-----------------------------------------------------------------------------
(* An exit status goes with the proxy's close of the channel.                *)
LEMMA ExitsHold == Spec => []Exits
<1>1. Init => Exits
  BY DEF Init, Exits
<1>2. TypeOK /\ TypeOK' /\ Exits /\ [Next]_vars => Exits'
  <2> SUFFICES ASSUME TypeOK, TypeOK', Exits, [Next]_vars, NEW c \in Channels
               PROVE  (/\ exits[c] \in {0, 1}
                       /\ chan[c] \in {"unopened", "open"} => exits[c] = 0
                       /\ chan[c] = "closing" => exits[c] = 1
                       /\ pc[c] \notin {"unwind", "close", "released", "done"} => exits[c] = 0
                       /\ outcome[c] # "none" <=>
                            pc[c] \in {"unwind", "close", "released", "report", "done"}
                       /\ outcome[c] \in {"success", "rejected"} => chan[c] # "open"
                       /\ pc[c] = "done" => chan[c] # "open"
                       /\ pc[c] # "none" => chan[c] # "unopened")'
    BY DEF Exits
  <2> DEFINE Told ==
        /\ exits[c] \in {0, 1}
        /\ chan[c] \in {"unopened", "open"} => exits[c] = 0
        /\ chan[c] = "closing" => exits[c] = 1
        /\ pc[c] \notin {"unwind", "close", "released", "done"} => exits[c] = 0
        /\ outcome[c] # "none" <=> pc[c] \in {"unwind", "close", "released", "report", "done"}
        /\ outcome[c] \in {"success", "rejected"} => chan[c] # "open"
        /\ pc[c] = "done" => chan[c] # "open"
        /\ pc[c] # "none" => chan[c] # "unopened"
  <2>1. Told
    BY DEF Exits
  <2>2. ASSUME NEW k \in Conns, ConnStep(k) PROVE Told'
    BY <2>1, <2>2, ConnFrame DEF sessVars
  <2>3. ASSUME NEW d \in Channels,
               ChannelStep(d) \/ AdmissionStep(d) \/ SetupStep(d) \/ EndStep(d), d # c
        PROVE  Told'
    BY <2>1, <2>3, ChannelFrame
  \* The steps of c itself.
  <2>4. CASE ChannelStep(c)
    <3>1. CASE OpenChannel(c) \/ PeerCloses(c) \/ RequestsEnd(c) \/ HandlerReturns(c)
      <4>1. /\ UNCHANGED <<exits, pc, outcome>>
            /\ \/ chan[c] = "unopened" /\ chan'[c] = "open"
               \/ chan'[c] \in {"hungup", "drained", "exited"}
        BY <3>1 DEF OpenChannel, PeerCloses, RequestsEnd, HandlerReturns, sessVars, TypeOK
      <4>2. chan'[c] = "open" => pc[c] = "none"
        BY <2>1, <4>1
      <4> QED
        BY <2>1, <4>1, <4>2
    <3>2. ASSUME NEW r \in {"shell", "exec"}, BeginSession(c, r) PROVE Told'
      <4>1. /\ UNCHANGED <<exits, chan, outcome>> /\ Listening(c)
            /\ pc[c] = "none" /\ pc'[c] = "start"
        BY <3>2 DEF BeginSession, Goto, TypeOK, chanVars
      <4> QED
        BY <2>1, <4>1 DEF Listening
    <3> QED
      BY <2>4, <3>1, <3>2 DEF ChannelStep
  \* Steps that do not tell the client anything.
  <2>5. ASSUME UNCHANGED chanVars, pc[c] # "none", pc'[c] # "done",
               \/ /\ outcome' = outcome
                  /\ pc[c] = pc'[c] \/ pc'[c] \in {"sso", "route", "dial", "signed", "setup",
                                                   "streaming", "running"}
                  /\ pc[c] \notin {"unwind", "close", "released", "report", "done"}
               \/ /\ outcome'[c] = "failure"
                  /\ pc[c] \notin {"unwind", "close", "released", "report", "done"}
                  /\ pc'[c] \in {"report", "unwind"}
               \/ /\ outcome' = outcome
                  /\ pc[c] \in {"unwind", "close"}
                  /\ pc'[c] \in {"unwind", "close", "released"}
        PROVE  Told'
    BY <2>1, <2>5 DEF chanVars
  \* Steps that send the exit status and close the channel, if it is open.
  <2>6. ASSUME Tell(c), pc[c] # "none", pc[c] # "done", outcome'[c] # "none",
               \/ pc[c] \in {"start", "running"} /\ pc'[c] \in {"unwind", "done"}
               \/ pc[c] \in {"released", "report"} /\ pc'[c] = "done"
        PROVE  Told'
    <3>1. /\ chan'[c] = IF chan[c] = "open" THEN "closing" ELSE chan[c]
          /\ exits'[c] = IF chan[c] = "open" THEN exits[c] + 1 ELSE exits[c]
      BY <2>6 DEF Tell, TypeOK
    <3> QED
      BY <2>1, <2>6, <3>1
  <2>7. CASE AdmissionStep(c)
    <3>1. CASE RejectDirect(c)
      BY <2>6, <3>1 DEF RejectDirect, Goto, TypeOK
    <3>2. CASE SkipSSO(c)
      BY <2>5, <3>2 DEF SkipSSO, Goto, TypeOK
    <3>3. CASE BeginSSO(c)
      BY <2>5, <3>3 DEF BeginSSO, Goto, TypeOK
    <3>4. ASSUME NEW who \in {"user", "other", "failed"}, AcceptSSO(c, who) PROVE Told'
      BY <2>5, <3>4 DEF AcceptSSO, Goto, TypeOK
    <3>5. ASSUME NEW who \in {"user", "other", "failed"}, RejectSSO(c, who) PROVE Told'
      BY <2>5, <3>5 DEF RejectSSO, Fails, Goto, TypeOK
    <3> QED
      BY <2>7, <3>1, <3>2, <3>3, <3>4, <3>5 DEF AdmissionStep
  <2>8. CASE SetupStep(c)
    <3>1. CASE \/ ResolveTarget(c) \/ AgentSigns(c) \/ TargetFails(c) \/ Connect(c)
               \/ SpawnStreams(c) \/ StartRemote(c)
      BY <2>5, <3>1 DEF ResolveTarget, AgentSigns, TargetFails, Connect, SpawnStreams,
                        StartRemote, Goto, TypeOK
    <3>2. CASE NoTarget(c) \/ ConnectFails(c)
      BY <2>5, <3>2 DEF NoTarget, ConnectFails, Fails, Goto, TypeOK
    <3>3. CASE SetupFails(c)
      BY <2>5, <3>3 DEF SetupFails, TypeOK
    <3>4. CASE OpenTargetSession(c) \/ CreateRecorder(c)
      BY <2>5, <3>4 DEF OpenTargetSession, CreateRecorder
    <3>5. ASSUME NEW s \in Streams, CaptureRecorder(c, s) PROVE Told'
      BY <2>1, <3>5 DEF CaptureRecorder, chanVars, sessVars
    <3> QED
      BY <2>8, <3>1, <3>2, <3>3, <3>4, <3>5 DEF SetupStep
  <2>9. CASE EndStep(c)
    <3>1. ASSUME NEW r \in {"success", "failure"}, RemoteEnds(c, r) PROVE Told'
      BY <2>6, <3>1 DEF RemoteEnds, Goto, TypeOK
    <3>2. CASE Unpublish(c)
      BY <2>5, <3>2 DEF Unpublish, Goto, TypeOK
    <3>3. CASE Release(c)
      BY <2>5, <3>3 DEF Release, Goto, TypeOK
    <3>4. CASE Report(c)
      <4>1. /\ pc[c] \in {"released", "report"} /\ pc'[c] = "done" /\ outcome' = outcome
            /\ outcome[c] # "none"
        BY <2>1, <3>4 DEF Report, TypeOK
      <4>2. CASE outcome[c] = "failure"
        BY <2>6, <3>4, <4>1, <4>2 DEF Report
      <4>3. CASE outcome[c] # "failure"
        <5>1. outcome[c] \in {"success", "rejected"} /\ UNCHANGED <<chan, exits>>
          BY <3>4, <4>1, <4>3 DEF Report, chanVars, TypeOK, Results
        <5>2. pc[c] = "report" => exits'[c] = 0
          BY <2>1, <5>1
        <5> QED
          BY <2>1, <4>1, <5>1, <5>2
      <4> QED
        BY <4>2, <4>3
    <3> QED
      BY <2>9, <3>1, <3>2, <3>3, <3>4 DEF EndStep
  <2>10. CASE UNCHANGED vars
    BY <2>1, <2>10 DEF vars, chanVars, sessVars
  <2> QED
    BY <2>2, <2>3, <2>4, <2>7, <2>8, <2>9, <2>10 DEF Next, Idle
<1> QED
  BY <1>1, <1>2, TypeCorrect, PTL DEF Spec

(* The client never gets two exit statuses, and never a close without one,   *)
(* whichever of the three places that send them a session passes.            *)
THEOREM ExitStatusCorrect == Spec => []ExitStatusOnce
<1>1. TypeOK /\ Exits => ExitStatusOnce
  BY DEF TypeOK, Exits, ExitStatusOnce
<1> QED
  BY <1>1, TypeCorrect, ExitsHold, PTL


-----------------------------------------------------------------------------
(* Sessions that do not share a connection do not disturb each other         *)

(* Every connection carries one session only.                                *)
Unshared == \A c, d \in Channels : ConnOf[c] = ConnOf[d] => c = d

(* While a session runs, the SessionState points to what it holds.  Two      *)
(* sessions of one connection break it: one replaces or clears the other's.  *)
PointersInPlace ==
  \A c \in Channels : pc[c] \in {"setup", "streaming", "running"} =>
    \A h \in open[c] : handle[ConnOf[c]][h] = c

(* With one session per connection it holds (server.go:496, 505, 530).       *)
LEMMA PointersIsolated ==
  ASSUME Unshared
  PROVE  Spec => []PointersInPlace
<1>1. Init => PointersInPlace
  BY DEF Init, PointersInPlace
<1>2. TypeOK /\ TypeOK' /\ Shape /\ PointersInPlace /\ [Next]_vars => PointersInPlace'
  <2> SUFFICES ASSUME TypeOK, TypeOK', Shape, PointersInPlace, [Next]_vars,
                      NEW c \in Channels, pc'[c] \in {"setup", "streaming", "running"},
                      NEW h \in open'[c]
               PROVE  handle'[ConnOf[c]][h] = c
    BY DEF PointersInPlace
  <2> DEFINE InPlace == pc[c] \in {"setup", "streaming", "running"} =>
                          \A g \in open[c] : handle[ConnOf[c]][g] = c
             Goal == handle'[ConnOf[c]][h] = c
  <2>1. InPlace /\ ConnOf[c] \in Conns
    BY ConnAssumption DEF PointersInPlace
  <2>2. ASSUME pc[c] \in {"setup", "streaming", "running"}, open'[c] = open[c],
               handle'[ConnOf[c]] = handle[ConnOf[c]]
        PROVE  Goal
    BY <2>1, <2>2
  <2>3. ASSUME NEW k \in Conns, ConnStep(k) PROVE Goal
    BY <2>2, <2>3, ConnFrame DEF sessVars
  <2>4. ASSUME NEW d \in Channels,
               ChannelStep(d) \/ AdmissionStep(d) \/ SetupStep(d) \/ EndStep(d), d # c
        PROVE  Goal
    <3>1. ConnOf[d] # ConnOf[c] /\ ConnOf[d] \in Conns
      BY <2>4, Unshared, ConnAssumption DEF Unshared
    <3>2. handle'[ConnOf[c]] = handle[ConnOf[c]]
      <4>1. CASE ChannelStep(d) \/ AdmissionStep(d)
        BY <4>1 DEF ChannelStep, AdmissionStep, OpenChannel, PeerCloses, RequestsEnd,
                    HandlerReturns, BeginSession, RejectDirect, SkipSSO, BeginSSO,
                    AcceptSSO, RejectSSO
      <4>2. ASSUME NEW g, NEW x, handle' = [handle EXCEPT ![ConnOf[d]][g] = x]
            PROVE  handle'[ConnOf[c]] = handle[ConnOf[c]]
        BY <2>1, <3>1, <4>2 DEF TypeOK
      <4>3. CASE SetupStep(d)
        <5>1. CASE Connect(d) \/ OpenTargetSession(d) \/ CreateRecorder(d)
          <6>1. \E g : Acquire(d, g)
            BY <5>1 DEF Connect, OpenTargetSession, CreateRecorder
          <6> QED
            BY <4>2, <6>1 DEF Acquire
        <5>2. CASE ~(Connect(d) \/ OpenTargetSession(d) \/ CreateRecorder(d))
          BY <4>3, <5>2 DEF SetupStep, ResolveTarget, AgentSigns, TargetFails, NoTarget,
                            ConnectFails, SpawnStreams,
                            StartRemote, SetupFails, CaptureRecorder
        <5> QED
          BY <5>1, <5>2
      <4>4. CASE EndStep(d)
        <5>1. CASE Unpublish(d)
          BY <4>2, <5>1 DEF Unpublish
        <5>2. CASE ~Unpublish(d)
          BY <4>4, <5>2 DEF EndStep, RemoteEnds, Release, Report
        <5> QED
          BY <5>1, <5>2
      <4> QED
        BY <2>4, <4>1, <4>3, <4>4
    <3> QED
      BY <2>2, <2>4, <3>2, ChannelFrame
  \* c's own steps: only those that keep or acquire resources end in the set.
  <2>5. CASE ChannelStep(c)
    <3>1. CASE OpenChannel(c) \/ PeerCloses(c) \/ RequestsEnd(c) \/ HandlerReturns(c)
      BY <2>2, <3>1 DEF OpenChannel, PeerCloses, RequestsEnd, HandlerReturns, sessVars
    <3>2. ASSUME NEW r \in {"shell", "exec"}, BeginSession(c, r) PROVE Goal
      BY <3>2 DEF BeginSession, Goto, TypeOK
    <3> QED
      BY <2>5, <3>1, <3>2 DEF ChannelStep
  <2>6. CASE AdmissionStep(c)
    BY <2>6 DEF AdmissionStep, RejectDirect, SkipSSO, BeginSSO, AcceptSSO, RejectSSO,
                Goto, Fails, TypeOK
  <2>7. CASE SetupStep(c)
    <3>1. ASSUME NEW g \in Handles, Acquire(c, g), pc[c] = "setup" \/ open[c] = {}
          PROVE  Goal
      <4>1. h = g \/ h \in open[c]
        BY <3>1 DEF Acquire, TypeOK
      <4>2. handle'[ConnOf[c]][h] = IF h = g THEN c ELSE handle[ConnOf[c]][h]
        BY <2>1, <3>1, <4>1 DEF Acquire, TypeOK
      <4> QED
        BY <2>1, <3>1, <4>1, <4>2
    <3>2. CASE Connect(c)
      BY <3>1, <3>2 DEF Connect, Goto, Handles, Shape, Held
    <3>3. CASE OpenTargetSession(c) \/ CreateRecorder(c)
      BY <3>1, <3>3 DEF OpenTargetSession, CreateRecorder, Handles
    <3>4. CASE SpawnStreams(c) \/ StartRemote(c)
      BY <2>2, <3>4 DEF SpawnStreams, StartRemote, Goto
    <3>5. CASE \/ ResolveTarget(c) \/ AgentSigns(c) \/ TargetFails(c) \/ NoTarget(c)
               \/ ConnectFails(c) \/ SetupFails(c)
      BY <3>5 DEF ResolveTarget, AgentSigns, TargetFails, NoTarget, ConnectFails,
                  SetupFails, Goto, Fails, TypeOK
    <3>6. ASSUME NEW s \in Streams, CaptureRecorder(c, s) PROVE Goal
      BY <2>2, <3>6 DEF CaptureRecorder, sessVars
    <3> QED
      BY <2>7, <3>2, <3>3, <3>4, <3>5, <3>6 DEF SetupStep
  <2>8. CASE EndStep(c)
    BY <2>8 DEF EndStep, RemoteEnds, Unpublish, Release, Report, Goto, TypeOK
  <2>9. CASE UNCHANGED vars
    BY <2>2, <2>9 DEF vars, sessVars
  <2> QED
    BY <2>3, <2>4, <2>5, <2>6, <2>7, <2>8, <2>9 DEF Next, Idle
<1> QED
  BY <1>1, <1>2, TypeCorrect, ShapeCorrect, PTL DEF Spec

(* With one session per connection, a copier records into the recorder of    *)
(* its own session, and into none only once that is over (server.go:863, 877).*)
THEOREM RecordersIsolated ==
  ASSUME Unshared
  PROVE  Spec => []OwnRecorder
<1>1. Init => OwnRecorder
  BY DEF Init, OwnRecorder
<1>2. TypeOK /\ HandlesLive /\ NothingLeaks /\ PointersInPlace /\ OwnRecorder
        /\ [Next]_vars => OwnRecorder'
  <2> SUFFICES ASSUME TypeOK, HandlesLive, NothingLeaks, PointersInPlace, OwnRecorder,
                      [Next]_vars, NEW c \in Channels, NEW s \in Streams
               PROVE  \/ captured'[c][s] \in {c, "unspawned", "spawned"}
                      \/ captured'[c][s] = None /\ pc'[c] \notin {"streaming", "running"}
    BY DEF OwnRecorder
  <2> DEFINE Runs == pc[c] \in {"streaming", "running"}
             Own == \/ captured[c][s] \in {c, "unspawned", "spawned"}
                    \/ captured[c][s] = None /\ ~Runs
  <2>1. Own
    BY DEF OwnRecorder
  <2>2. ASSUME captured' = captured, Runs' => Runs PROVE Own'
    BY <2>1, <2>2
  <2>3. ASSUME NEW k \in Conns, ConnStep(k) PROVE Own'
    BY <2>2, <2>3, ConnFrame DEF sessVars
  <2>4. ASSUME NEW d \in Channels,
               ChannelStep(d) \/ AdmissionStep(d) \/ SetupStep(d) \/ EndStep(d), d # c
        PROVE  Own'
    BY <2>1, <2>4, ChannelFrame
  <2>5. CASE ChannelStep(c)
    BY <2>2, <2>5 DEF ChannelStep, OpenChannel, PeerCloses, RequestsEnd, HandlerReturns,
                      BeginSession, Goto, sessVars, TypeOK
  <2>6. CASE AdmissionStep(c)
    BY <2>2, <2>6 DEF AdmissionStep, RejectDirect, SkipSSO, BeginSSO, AcceptSSO, RejectSSO,
                      Goto, Fails, TypeOK
  <2>7. CASE SetupStep(c)
    <3>1. CASE \/ ResolveTarget(c) \/ AgentSigns(c) \/ TargetFails(c) \/ NoTarget(c)
               \/ Connect(c) \/ ConnectFails(c)
               \/ OpenTargetSession(c) \/ CreateRecorder(c) \/ StartRemote(c) \/ SetupFails(c)
      BY <2>2, <3>1 DEF ResolveTarget, AgentSigns, TargetFails, NoTarget, Connect,
                        ConnectFails, OpenTargetSession,
                        CreateRecorder, StartRemote, SetupFails, Goto, Fails, TypeOK
    <3>2. CASE SpawnStreams(c)
      BY <3>2 DEF SpawnStreams, TypeOK
    <3>3. ASSUME NEW t \in Streams, CaptureRecorder(c, t) PROVE Own'
      <4> DEFINE d == handle[ConnOf[c]]["recorder"]
      <4>1. d \in Channels \cup {None} /\ ConnOf[c] \in Conns
        BY ConnAssumption DEF TypeOK, Handles
      <4>2. d \in Channels => ConnOf[d] = ConnOf[c]
        BY <4>1 DEF HandlesLive, Handles
      <4>3. d \in {c, None}
        BY <4>1, <4>2, Unshared DEF Unshared
      <4>4. Runs => d = c
        BY DEF NothingLeaks, PointersInPlace, Handles
      <4>5. captured'[c][s] \in {captured[c][s], d} /\ pc' = pc
        BY <3>3 DEF CaptureRecorder, TypeOK, sessVars
      <4> QED
        BY <2>1, <4>3, <4>4, <4>5
    <3> QED
      BY <2>7, <3>1, <3>2, <3>3 DEF SetupStep
  <2>8. CASE EndStep(c)
    BY <2>2, <2>8 DEF EndStep, RemoteEnds, Unpublish, Release, Report, Goto, TypeOK
  <2>9. CASE UNCHANGED vars
    BY <2>2, <2>9 DEF vars, sessVars
  <2> QED
    BY <2>3, <2>4, <2>5, <2>6, <2>7, <2>8, <2>9 DEF Next, Idle
<1> QED
  BY <1>1, <1>2, TypeCorrect, PointersLive, SessionsRelease, PointersIsolated, PTL DEF Spec

-----------------------------------------------------------------------------
(* ProxyConnection implements BastionSession                                 *)

(* A step that tells the client tells it what BastionSession promises.       *)
LEMMA TellRefines ==
  ASSUME TypeOK, Exits, NEW c \in Channels, Tell(c), pc[c] # "none"
  PROVE  /\ Bastion!TellOnce(c)
         /\ UNCHANGED {d \in Channels : chan[d] \in {"unopened", "open", "closing"}}
<1> DEFINE present == {d \in Channels : chan[d] \in {"unopened", "open", "closing"}}
<1>1. exits' = [exits EXCEPT ![c] = IF c \in present THEN 1 ELSE exits[c]]
  <2>1. exits' = [exits EXCEPT ![c] = IF chan[c] = "open" THEN exits[c] + 1 ELSE exits[c]]
    BY DEF Tell
  <2>2. c \in present <=> chan[c] \in {"open", "closing"}
    BY DEF Exits
  <2>3. /\ chan[c] = "open" => exits[c] + 1 = 1
        /\ chan[c] = "closing" => exits[c] = 1
    BY DEF Exits
  <2> QED
    BY <2>1, <2>2, <2>3
<1>2. present' = present
  BY DEF Tell, TypeOK
<1> QED
  BY <1>1, <1>2 DEF Bastion!TellOnce


(* Every behaviour of the proxy is one BastionSession allows: a session is   *)
(* proxied only on a confirmed connection, and tells its client exactly one  *)
(* exit status before it ends, if the client is still there.                 *)
THEOREM KeepsPromise == Spec => Promise
<1> DEFINE confirmed == {k \in Conns : conf.sso => verified[k]}
           phases == [c \in Channels |-> Phase(pc[c])]
           present == {c \in Channels : chan[c] \in {"unopened", "open", "closing"}}
<1>1. Init => Bastion!Init
  <2> SUFFICES ASSUME Init PROVE Bastion!Init
    OBVIOUS
  <2>1. confirmed \in {{}, Conns}
    BY ConfigAssumption DEF Init
  <2>2. phases = [c \in Channels |-> "idle"] /\ present = Channels
    BY DEF Init, Phase
  <2> QED
    BY <2>1, <2>2 DEF Init, Bastion!Init
<1>2. TypeOK /\ TypeOK' /\ Admitted /\ Exits /\ [Next]_vars
        => [Bastion!Next]_(Bastion!vars)
  <2> SUFFICES ASSUME TypeOK, TypeOK', Admitted, Exits, [Next]_vars
               PROVE  [Bastion!Next]_(Bastion!vars)
    OBVIOUS
  <2> USE DEF TypeOK
  \* Steps the client cannot tell from nothing.
  <2>1. ASSUME UNCHANGED <<conf, verified, exits>>, phases' = phases, present' = present
        PROVE  UNCHANGED Bastion!vars
    BY <2>1 DEF Bastion!vars
  <2>2. ASSUME NEW S \in SUBSET Channels, UNCHANGED <<conf, verified, exits>>,
               phases' = phases,
               present' = present \ S
        PROVE  Bastion!Next
    <3>1. confirmed' = confirmed /\ exits' = exits
      BY <2>2
    <3>2. Bastion!HangUp(S)
      BY <2>2, <3>1 DEF Bastion!HangUp
    <3> QED
      BY <3>2 DEF Bastion!Next
  \* What an unchanged or moved program counter makes of the phase.
  <2>3. pc' = pc => phases' = phases
    BY DEF Phase
  <2>4. ASSUME NEW c \in Channels, NEW p \in PCs, pc' = [pc EXCEPT ![c] = p]
        PROVE  phases' = [phases EXCEPT ![c] = Phase(p)]
    BY <2>4
  <2>5. UNCHANGED chanVars => exits' = exits /\ present' = present
    BY DEF chanVars
  <2>6. ASSUME NEW k \in Conns, ConnStep(k) PROVE Bastion!Next
    <3> DEFINE S == {c \in Channels : chan'[c] # chan[c]}
    <3>1. UNCHANGED <<conf, verified, exits>> /\ phases' = phases
      BY <2>3, <2>6, ConnFrame DEF sessVars
    <3>2. present' = present \ S
      BY <2>6, ConnFrame
    <3> QED
      BY <2>2, <3>1, <3>2
  <2>7. ASSUME NEW c \in Channels, ChannelStep(c) PROVE [Bastion!Next]_(Bastion!vars)
    <3>1. CASE OpenChannel(c) \/ RequestsEnd(c) \/ HandlerReturns(c)
      <4>1. UNCHANGED <<conf, verified, exits>> /\ phases' = phases
        BY <2>3, <3>1 DEF OpenChannel, RequestsEnd, HandlerReturns, connVars, sessVars
      <4>2. present' = present
        BY <3>1 DEF OpenChannel, RequestsEnd, HandlerReturns
      <4> QED
        BY <2>1, <4>1, <4>2
    <3>2. CASE PeerCloses(c)
      <4>1. UNCHANGED <<conf, verified, exits>> /\ phases' = phases
        BY <2>3, <3>2 DEF PeerCloses, connVars, sessVars
      <4>2. present' = present \ {c}
        <5>1. \A d \in Channels : chan'[d] = IF d = c THEN "hungup" ELSE chan[d]
          BY <3>2 DEF PeerCloses
        <5>2. \A d \in Channels : d \in present' <=> (d \in present /\ d # c)
          BY <5>1
        <5>3. present \subseteq Channels /\ present' \subseteq Channels
          OBVIOUS
        <5> HIDE DEF present
        <5> QED
          BY <5>2, <5>3
      <4>3. {c} \in SUBSET Channels
        OBVIOUS
      <4> HIDE DEF present, phases
      <4> QED
        BY <2>2, <4>1, <4>2, <4>3
    <3>3. ASSUME NEW r \in {"shell", "exec"}, BeginSession(c, r) PROVE Bastion!Next
      <4>1. /\ UNCHANGED <<conf, verified, chanVars>> /\ pc[c] = "none"
            /\ pc' = [pc EXCEPT ![c] = "start"]
        BY <3>3 DEF BeginSession, Goto, connVars
      <4>2. phases[c] = "idle" /\ phases' = [phases EXCEPT ![c] = "pending"]
        BY <2>4, <4>1 DEF PCs, Held, Phase
      <4>3. Bastion!Request(c)
        BY <2>5, <4>1, <4>2 DEF Bastion!Request, Bastion!Move
      <4> QED
        BY <4>3 DEF Bastion!Next
    <3> QED
      BY <2>7, <3>1, <3>2, <3>3 DEF ChannelStep
  \* Steps between two points of the same phase.
  <2>8. ASSUME NEW c \in Channels, UNCHANGED <<conf, verified, chanVars>>, NEW p \in PCs,
               pc' = [pc EXCEPT ![c] = p],
               \/ pc[c] \in Held /\ p \in Held
               \/ /\ pc[c] \in {"start", "sso", "route", "dial", "signed", "report"}
                  /\ p \in {"start", "sso", "route", "dial", "signed", "report"}
        PROVE  UNCHANGED Bastion!vars
    <3>1. phases' = phases
      BY <2>4, <2>8 DEF Held, Phase
    <3> QED
      BY <2>1, <2>5, <2>8, <3>1
  \* Steps that end a session.
  <2>9. ASSUME NEW c \in Channels, UNCHANGED <<conf, verified>>, Bastion!TellOnce(c),
               present' = present, pc[c] \in {"start", "released", "report"},
               pc' = [pc EXCEPT ![c] = "done"]
        PROVE  Bastion!Next
    <3>1. phases[c] \in {"pending", "released"} /\ phases' = [phases EXCEPT ![c] = "ended"]
      BY <2>4, <2>9 DEF PCs, Held, Phase
    <3>2. Bastion!End(c)
      BY <2>9, <3>1 DEF Bastion!End, Bastion!Move
    <3> QED
      BY <3>2 DEF Bastion!Next
  <2>10. ASSUME NEW c \in Channels, AdmissionStep(c)
         PROVE  [Bastion!Next]_(Bastion!vars)
    <3>1. CASE RejectDirect(c)
      <4>1. UNCHANGED <<conf, verified>> /\ Tell(c) /\ pc[c] = "start"
                                         /\ pc' = [pc EXCEPT ![c] = "done"]
        BY <3>1 DEF RejectDirect, Goto, connVars
      <4> QED
        BY <2>9, <4>1, TellRefines
    <3>2. CASE SkipSSO(c)
      BY <2>8, <3>2 DEF SkipSSO, Goto, PCs, connVars
    <3>3. CASE BeginSSO(c)
      BY <2>8, <3>3 DEF BeginSSO, Goto, PCs, connVars
    <3>4. ASSUME NEW who \in {"user", "other", "failed"}, AcceptSSO(c, who)
          PROVE  Bastion!Next
      <4>1. /\ UNCHANGED <<conf, chanVars>> /\ pc[c] = "sso"
            /\ pc' = [pc EXCEPT ![c] = "route"]
            /\ verified' = [verified EXCEPT ![ConnOf[c]] = TRUE]
        BY <3>4 DEF AcceptSSO, Goto
      <4>2. phases[c] = "pending" /\ phases' = phases
        <5>1. phases[c] = "pending" /\ phases' = [phases EXCEPT ![c] = "pending"]
          BY <2>4, <4>1 DEF PCs, Held, Phase
        <5>2. phases = [d \in Channels |-> phases[d]]
          OBVIOUS
        <5> HIDE DEF phases
        <5> QED
          BY <5>1, <5>2
      <4>3. confirmed' = confirmed \cup {ConnOf[c]}
        BY <4>1, ConnAssumption
      <4>4. Bastion!Confirm(c)
        BY <2>5, <4>1, <4>2, <4>3 DEF Bastion!Confirm
      <4> QED
        BY <4>4 DEF Bastion!Next
    <3>5. ASSUME NEW who \in {"user", "other", "failed"}, RejectSSO(c, who)
          PROVE  UNCHANGED Bastion!vars
      BY <2>8, <3>5 DEF RejectSSO, Fails, Goto, PCs, connVars
    <3> QED
      BY <2>10, <3>1, <3>2, <3>3, <3>4, <3>5 DEF AdmissionStep
  <2>11. ASSUME NEW c \in Channels, SetupStep(c) PROVE [Bastion!Next]_(Bastion!vars)
    <3>1. CASE Connect(c)
      <4>1. /\ UNCHANGED <<conf, verified, chanVars>> /\ pc[c] = "signed"
            /\ pc' = [pc EXCEPT ![c] = "setup"]
        BY <3>1 DEF Connect, Goto, connVars
      <4>2. phases[c] = "pending" /\ phases' = [phases EXCEPT ![c] = "proxied"]
        BY <2>4, <4>1 DEF PCs, Held, Phase
      <4>3. ConnOf[c] \in confirmed
        BY <4>1, ConnAssumption DEF Admitted
      <4>4. confirmed' = confirmed
        BY <4>1
      <4>5. Bastion!Proxy(c)
        BY <2>5, <4>1, <4>2, <4>3, <4>4 DEF Bastion!Proxy, Bastion!Move
      <4> QED
        BY <4>5 DEF Bastion!Next
    <3>2. CASE \/ ResolveTarget(c) \/ AgentSigns(c) \/ TargetFails(c)
               \/ SpawnStreams(c) \/ StartRemote(c)
      BY <2>8, <3>2 DEF ResolveTarget, AgentSigns, TargetFails, SpawnStreams,
                        StartRemote, Goto, PCs, Held, connVars
    <3>3. CASE NoTarget(c) \/ ConnectFails(c)
      BY <2>8, <3>3 DEF NoTarget, ConnectFails, Fails, Goto, PCs, connVars
    <3>4. CASE SetupFails(c)
      BY <2>8, <3>4 DEF SetupFails, PCs, Held, connVars
    <3>5. ASSUME \/ OpenTargetSession(c) \/ CreateRecorder(c)
                 \/ \E s \in Streams : CaptureRecorder(c, s)
          PROVE  UNCHANGED Bastion!vars
      <4>1. UNCHANGED <<conf, verified, chanVars, pc>>
        BY <3>5 DEF OpenTargetSession, CreateRecorder, CaptureRecorder, connVars, sessVars
      <4> QED
        BY <2>1, <2>3, <2>5, <4>1
    <3> QED
      BY <2>11, <3>1, <3>2, <3>3, <3>4, <3>5 DEF SetupStep
  <2>12. ASSUME NEW c \in Channels, EndStep(c) PROVE [Bastion!Next]_(Bastion!vars)
    <3>1. ASSUME NEW r \in {"success", "failure"}, RemoteEnds(c, r) PROVE Bastion!Next
      <4>1. /\ UNCHANGED <<conf, verified>> /\ Tell(c) /\ pc[c] = "running"
            /\ pc' = [pc EXCEPT ![c] = "unwind"]
        BY <3>1 DEF RemoteEnds, Goto, connVars
      <4>2. phases[c] = "proxied" /\ phases' = phases
        <5>1. phases[c] = "proxied" /\ phases' = [phases EXCEPT ![c] = "proxied"]
          BY <2>4, <4>1 DEF PCs, Held, Phase
        <5>2. phases = [d \in Channels |-> phases[d]]
          OBVIOUS
        <5> HIDE DEF phases
        <5> QED
          BY <5>1, <5>2
      <4>3. Bastion!TellOnce(c) /\ present' = present
        BY <4>1, TellRefines
      <4>4. Bastion!Finish(c)
        BY <4>1, <4>2, <4>3 DEF Bastion!Finish
      <4> QED
        BY <4>4 DEF Bastion!Next
    <3>2. CASE Unpublish(c)
      BY <2>8, <3>2 DEF Unpublish, Goto, PCs, Held, connVars
    <3>3. CASE Release(c)
      <4>1. /\ UNCHANGED <<conf, verified, chanVars>> /\ pc[c] = "close"
            /\ \E p \in {"released", "unwind"} : pc' = [pc EXCEPT ![c] = p]
        BY <3>3 DEF Release, Goto, connVars
      <4>2. CASE pc' = [pc EXCEPT ![c] = "unwind"]
        BY <2>8, <4>1, <4>2 DEF PCs, Held
      <4>3. CASE pc' = [pc EXCEPT ![c] = "released"]
        <5>1. phases[c] = "proxied" /\ phases' = [phases EXCEPT ![c] = "released"]
          BY <2>4, <4>1, <4>3 DEF PCs, Held, Phase
        <5>2. Bastion!LetGo(c)
          BY <2>5, <4>1, <5>1 DEF Bastion!LetGo, Bastion!Move
        <5> QED
          BY <5>2 DEF Bastion!Next
      <4> QED
        BY <4>1, <4>2, <4>3
    <3>4. CASE Report(c)
      <4>1. /\ UNCHANGED <<conf, verified>> /\ pc[c] \in {"released", "report"}
            /\ pc' = [pc EXCEPT ![c] = "done"] /\ UNCHANGED outcome
        BY <3>4 DEF Report, connVars
      <4>2. CASE outcome[c] = "failure"
        BY <2>9, <3>4, <4>1, <4>2, TellRefines DEF Report
      <4>3. CASE outcome[c] # "failure"
        <5>1. UNCHANGED chanVars /\ outcome[c] \in {"success", "rejected"}
          BY <3>4, <4>1, <4>3 DEF Report, Results, Exits
        <5>2. chan[c] \notin {"unopened", "open"} /\ (chan[c] = "closing" => exits[c] = 1)
          BY <4>1, <5>1 DEF Exits
        <5>3. exits' = [exits EXCEPT ![c] = IF c \in present THEN 1 ELSE exits[c]]
          BY <5>1, <5>2 DEF chanVars
        <5>4. Bastion!TellOnce(c)
          BY <5>3 DEF Bastion!TellOnce
        <5> QED
          BY <2>5, <2>9, <4>1, <5>1, <5>4
      <4> QED
        BY <4>2, <4>3
    <3> QED
      BY <2>12, <3>1, <3>2, <3>3, <3>4 DEF EndStep
  <2>13. CASE UNCHANGED vars
    BY <2>1, <2>3, <2>5, <2>13 DEF vars, connVars, sessVars
  <2> QED
    BY <2>6, <2>7, <2>10, <2>11, <2>12, <2>13 DEF Next, Idle
<1> QED
  BY <1>1, <1>2, TypeCorrect, AdmissionHolds, ExitsHold, PTL
     DEF Spec, Promise, Bastion!Spec

-----------------------------------------------------------------------------
(* The metrics *)

\* n is how many elements the finite set S has.
Counts(n, S) == IsFiniteSet(S) /\ n = Cardinality(S)

(* A count follows a set that an element joins or leaves.                    *)
LEMMA CountGrows ==
  ASSUME NEW n, NEW S, NEW T, NEW x, Counts(n, S), x \notin S, T = S \cup {x}
  PROVE  Counts(n + 1, T)
BY FS_AddElement DEF Counts

(* The same for an element that leaves.                                      *)
LEMMA CountShrinks ==
  ASSUME NEW n, NEW S, NEW T, NEW x, Counts(n, S), x \in S, T = S \ {x}
  PROVE  Counts(n - 1, T)
BY FS_RemoveElement DEF Counts

\* What the metrics count.
Live == {k \in Conns : conn[k] \in {"serving", "gone"}}
Served == {k \in Conns : conn[k] \in {"serving", "gone", "closed"}}
Confirming == {c \in Channels : pc[c] = "sso"}
Over(r) == {c \in Channels : pc[c] = "done" /\ outcome[c] = r}
Confirmed == {c \in Channels : Admissible(c)}
Answered == {c \in Channels : approval[c] # "none"}

ConnsCounted == Counts(metrics["active"], Live) /\ Counts(metrics["opened"], Served)

ResultsCounted == \A r \in Results : Counts(metrics[r], Over(r))

FlowsCounted ==
  /\ Counts(metrics["pending"], Confirming)
  /\ Counts(metrics["ssoSuccess"], Confirmed)
  /\ metrics["ssoFailure"] = metrics["ssoErrors"]
  /\ Counts(metrics["ssoFailure"] + metrics["ssoSuccess"], Answered)

Balanced == ConnsCounted /\ ResultsCounted /\ FlowsCounted

\* The counters that each of the three parts is about.
FlowCounters == {"pending", "ssoSuccess", "ssoFailure", "ssoErrors"}

Same(names) == \A m \in names : metrics'[m] = metrics[m]

(* Every counter is counted up or down, or keeps its value.                  *)
LEMMA CountedSame ==
  ASSUME NEW up, NEW down, metrics' = Counted(up, down),
         NEW names \in SUBSET Counters, names \cap (up \cup down) = {}
  PROVE  Same(names)
BY DEF Counted, Same

(* The counters that a step names change by one.                             *)
LEMMA CountedUpDown ==
  ASSUME NEW up, NEW down, metrics' = Counted(up, down), NEW m \in Counters
  PROVE  /\ m \in up => metrics'[m] = metrics[m] + 1
         /\ m \in down \ up => metrics'[m] = metrics[m] - 1
BY DEF Counted

(* Each part stands as long as nobody changes what it counts.                *)
LEMMA ConnsKept ==
  ASSUME ConnsCounted, UNCHANGED conn, Same({"active", "opened"})
  PROVE  ConnsCounted'
BY DEF ConnsCounted, Live, Served, Same, Counts

LEMMA ResultsKept ==
  ASSUME ResultsCounted, Same(Results),
         \A c \in Channels : /\ pc'[c] = "done" <=> pc[c] = "done"
                             /\ pc[c] = "done" => outcome'[c] = outcome[c]
  PROVE  ResultsCounted'
<1> SUFFICES ASSUME NEW r \in Results PROVE Counts(metrics[r], Over(r))'
  BY DEF ResultsCounted
<1>1. Over(r)' = Over(r)
  BY DEF Over
<1>2. metrics'[r] = metrics[r]
  BY DEF Same
<1> QED
  BY <1>1, <1>2 DEF ResultsCounted, Counts

(* The same for the flows, while approvals and settings stand.               *)
LEMMA FlowsKept ==
  ASSUME FlowsCounted, Same(FlowCounters), UNCHANGED <<conf, approval>>,
         \A c \in Channels : pc'[c] = "sso" <=> pc[c] = "sso"
  PROVE  FlowsCounted'
<1>1. Confirming' = Confirming
  BY DEF Confirming
<1>2. Confirmed' = Confirmed /\ Answered' = Answered
  BY DEF Confirmed, Answered, Admissible, Acceptable
<1> QED
  BY <1>1, <1>2 DEF FlowsCounted, FlowCounters, Same, Counts

(* A session that is over is counted under its result.                       *)
LEMMA ResultAdded ==
  ASSUME TypeOK, ResultsCounted, NEW c \in Channels, NEW r \in Results,
         pc[c] # "done", pc' = [pc EXCEPT ![c] = "done"], outcome'[c] = r,
         \A d \in Channels : d # c => outcome'[d] = outcome[d],
         metrics' = Counted({r}, {})
  PROVE  ResultsCounted'
<1> SUFFICES ASSUME NEW q \in Results PROVE Counts(metrics[q], Over(q))'
  BY DEF ResultsCounted
<1>0. Counts(metrics[q], Over(q)) /\ q \in Counters
  BY DEF ResultsCounted, Counters
<1>1. pc'[c] = "done" /\ \A d \in Channels : d # c => pc'[d] = pc[d]
  BY DEF TypeOK
<1>2. CASE q = r
  <2>1. c \notin Over(q) /\ Over(q)' = Over(q) \cup {c}
    BY <1>1, <1>2 DEF Over
  <2>2. metrics'[q] = metrics[q] + 1
    BY <1>0, <1>2, CountedUpDown
  <2>3. Counts(metrics[q] + 1, Over(q)')
    BY <1>0, <2>1, CountGrows
  <2> QED
    BY <2>2, <2>3 DEF Counts
<1>3. CASE q # r
  <2>1. Over(q)' = Over(q)
    BY <1>1, <1>3 DEF Over
  <2>2. metrics'[q] = metrics[q]
    BY <1>0, <1>3 DEF Counted
  <2> QED
    BY <1>0, <2>1, <2>2 DEF Counts
<1> QED
  BY <1>2, <1>3

(* A handshake counts the connection as active and as opened, the return of  *)
(* its handler as no longer active.                                          *)
LEMMA ConnsStep ==
  ASSUME TypeOK, ConnsCounted, NEW k \in Conns, ConnStep(k)
  PROVE  ConnsCounted' /\ Same(Results) /\ Same(FlowCounters)
<1> DEFINE Others == Results \cup FlowCounters
<1>0. /\ Others \subseteq Counters
      /\ Others \cap ({"handshakeFailures"} \cup {}) = {}
      /\ Others \cap ({"opened", "active"} \cup {}) = {}
      /\ Others \cap ({} \cup {"active"}) = {}
  BY DEF Results, FlowCounters, Counters
<1>1. Same(Others) => Same(Results) /\ Same(FlowCounters)
  BY DEF Same
<1> HIDE DEF Others
<1>2. CASE HandshakeFails(k)
  <2>1. /\ conn[k] = "accepted" /\ conn' = [conn EXCEPT ![k] = "refused"]
        /\ metrics' = Counted({"handshakeFailures"}, {})
    BY <1>2 DEF HandshakeFails
  <2>2. Live' = Live /\ Served' = Served
    BY <2>1 DEF Live, Served, TypeOK
  <2>3. metrics'["active"] = metrics["active"] /\ metrics'["opened"] = metrics["opened"]
    BY <2>1 DEF Counted, Counters
  <2>4. Same(Others)
    BY <1>0, <2>1, CountedSame
  <2> QED
    BY <1>1, <2>2, <2>3, <2>4 DEF ConnsCounted, Counts
<1>3. CASE HandshakeSucceeds(k)
  <2>1. /\ conn[k] = "accepted" /\ conn' = [conn EXCEPT ![k] = "serving"]
        /\ metrics' = Counted({"opened", "active"}, {})
    BY <1>3 DEF HandshakeSucceeds
  <2>2. /\ k \notin Live /\ Live' = Live \cup {k}
        /\ k \notin Served /\ Served' = Served \cup {k}
    BY <2>1 DEF Live, Served, TypeOK
  <2>3. /\ metrics'["active"] = metrics["active"] + 1
        /\ metrics'["opened"] = metrics["opened"] + 1
    BY <2>1, CountedUpDown DEF Counters
  <2>4. Counts(metrics["active"] + 1, Live') /\ Counts(metrics["opened"] + 1, Served')
    BY <2>2, CountGrows DEF ConnsCounted
  <2>5. Same(Others)
    BY <1>0, <2>1, CountedSame
  <2> QED
    BY <1>1, <2>3, <2>4, <2>5 DEF ConnsCounted, Counts
<1>4. CASE ConnectionReturns(k)
  <2>1. /\ conn[k] = "gone" /\ conn' = [conn EXCEPT ![k] = "closed"]
        /\ metrics' = Counted({}, {"active"})
    BY <1>4 DEF ConnectionReturns
  <2>2. k \in Live /\ Live' = Live \ {k} /\ Served' = Served
    BY <2>1 DEF Live, Served, TypeOK
  <2>3. /\ metrics'["active"] = metrics["active"] - 1
        /\ metrics'["opened"] = metrics["opened"]
    BY <2>1 DEF Counted, Counters
  <2>4. Counts(metrics["active"] - 1, Live')
    BY <2>2, CountShrinks DEF ConnsCounted
  <2>5. Same(Others)
    BY <1>0, <2>1, CountedSame
  <2> QED
    BY <1>1, <2>2, <2>3, <2>4, <2>5 DEF ConnsCounted, Counts
<1>5. CASE Disconnect(k)
  <2>1. /\ conn[k] = "serving" /\ conn' = [conn EXCEPT ![k] = "gone"]
        /\ UNCHANGED metrics
    BY <1>5 DEF Disconnect
  <2>2. Live' = Live /\ Served' = Served
    BY <2>1 DEF Live, Served, TypeOK
  <2> QED
    BY <2>1, <2>2 DEF ConnsCounted, Counts, Same
<1>6. CASE RequestAgent(k) \/ ReceiveEnv(k)
  <2>1. UNCHANGED <<conn, metrics>>
    BY <1>6 DEF RequestAgent, ReceiveEnv
  <2>2. Same(Results) /\ Same(FlowCounters) /\ Same({"active", "opened"})
    BY <2>1 DEF Same
  <2> QED
    BY <2>1, <2>2, ConnsKept
<1> QED
  BY <1>2, <1>3, <1>4, <1>5, <1>6 DEF ConnStep

(* A rejected command is counted, and whoever needs a second factor is       *)
(* pending until the device flow has an answer.                              *)
LEMMA AdmissionCounted ==
  ASSUME TypeOK, Admitted, Balanced, NEW c \in Channels, AdmissionStep(c)
  PROVE  Balanced'
<1>0. ConnsCounted /\ ResultsCounted /\ FlowsCounted
  BY DEF Balanced
<1>1. UNCHANGED <<conf, conn>>
  BY DEF AdmissionStep, RejectDirect, SkipSSO, BeginSSO, AcceptSSO, RejectSSO, connVars
<1>2. pc[c] \in {"start", "sso"} /\ approval[c] = "none"
  BY DEF AdmissionStep, RejectDirect, SkipSSO, BeginSSO, AcceptSSO, RejectSSO, Goto, Fails,
         Admitted
<1>3. CASE RejectDirect(c)
  <2>1. /\ pc' = [pc EXCEPT ![c] = "done"] /\ outcome' = [outcome EXCEPT ![c] = "rejected"]
        /\ metrics' = Counted({"rejected"}, {}) /\ UNCHANGED approval /\ pc[c] = "start"
    BY <1>3 DEF RejectDirect, Goto
  <2>2. ResultsCounted'
    BY <1>0, <2>1, ResultAdded DEF Results, TypeOK
  <2>3. Same({"active", "opened"}) /\ Same(FlowCounters)
    BY <2>1, CountedSame DEF FlowCounters, Counters
  <2>4. \A d \in Channels : pc'[d] = "sso" <=> pc[d] = "sso"
    BY <2>1 DEF TypeOK
  <2>5. FlowsCounted'
    BY <1>0, <1>1, <2>1, <2>3, <2>4, FlowsKept
  <2>6. ConnsCounted'
    BY <1>0, <1>1, <2>3, ConnsKept
  <2> QED
    BY <2>2, <2>5, <2>6 DEF Balanced
<1>4. CASE SkipSSO(c)
  <2>1. /\ pc' = [pc EXCEPT ![c] = "route"] /\ pc[c] = "start"
        /\ UNCHANGED <<outcome, metrics, approval>>
    BY <1>4 DEF SkipSSO, Goto
  <2>2. Same({"active", "opened"}) /\ Same(FlowCounters) /\ Same(Results)
    BY <2>1 DEF Same
  <2>3. \A d \in Channels : /\ pc'[d] = "sso" <=> pc[d] = "sso"
                            /\ pc'[d] = "done" <=> pc[d] = "done"
                            /\ outcome'[d] = outcome[d]
    BY <2>1 DEF TypeOK
  <2>4. ResultsCounted'
    BY <1>0, <2>2, <2>3, ResultsKept
  <2>5. FlowsCounted'
    BY <1>0, <1>1, <2>1, <2>2, <2>3, FlowsKept
  <2>6. ConnsCounted'
    BY <1>0, <1>1, <2>2, ConnsKept
  <2> QED
    BY <2>4, <2>5, <2>6 DEF Balanced
<1>5. CASE BeginSSO(c)
  <2>1. /\ pc' = [pc EXCEPT ![c] = "sso"] /\ pc[c] = "start"
        /\ metrics' = Counted({"pending"}, {})
        /\ UNCHANGED <<outcome, approval>>
    BY <1>5 DEF BeginSSO, Goto
  <2>2. Same({"active", "opened"}) /\ Same({"ssoSuccess", "ssoFailure", "ssoErrors"})
        /\ Same(Results)
    BY <2>1, CountedSame DEF Counters, Results
  <2>3. \A d \in Channels : /\ pc'[d] = "done" <=> pc[d] = "done"
                            /\ outcome'[d] = outcome[d]
    BY <2>1 DEF TypeOK
  <2>4. ResultsCounted'
    BY <1>0, <2>2, <2>3, ResultsKept
  <2>5. ConnsCounted'
    BY <1>0, <1>1, <2>2, ConnsKept
  <2>6. c \notin Confirming /\ Confirming' = Confirming \cup {c}
    BY <2>1 DEF Confirming, TypeOK
  <2>7. Counts(metrics["pending"] + 1, Confirming')
    BY <1>0, <2>6, CountGrows DEF FlowsCounted
  <2>8. metrics'["pending"] = metrics["pending"] + 1
    BY <2>1, CountedUpDown DEF Counters
  <2>9. Confirmed' = Confirmed /\ Answered' = Answered
    BY <1>1, <2>1 DEF Confirmed, Answered, Admissible, Acceptable
  <2>10. FlowsCounted'
    BY <1>0, <2>2, <2>7, <2>8, <2>9 DEF FlowsCounted, Same, Counts
  <2> QED
    BY <2>4, <2>5, <2>10 DEF Balanced
<1>6. ASSUME NEW who \in {"user", "other", "failed"}, NEW to \in {"route", "report"},
             NEW up, {"active", "opened", "pending"} \cup Results \subseteq Counters \ up,
             pc[c] = "sso", pc' = [pc EXCEPT ![c] = to],
             approval' = [approval EXCEPT ![c] = who],
             metrics' = Counted(up, {"pending"}),
             \/ /\ Acceptable(who) /\ up = {"ssoSuccess"} /\ outcome' = outcome
             \/ /\ ~Acceptable(who) /\ up = {"ssoFailure", "ssoErrors"}
                /\ outcome' = [outcome EXCEPT ![c] = "failure"]
      PROVE  Balanced'
  <2>1. Same({"active", "opened"}) /\ Same(Results)
    BY <1>6, CountedSame DEF Results
  <2>2. \A d \in Channels : /\ pc'[d] = "done" <=> pc[d] = "done"
                            /\ pc[d] = "done" => outcome'[d] = outcome[d]
    BY <1>6 DEF TypeOK
  <2>3. ResultsCounted'
    BY <1>0, <2>1, <2>2, ResultsKept
  <2>4. ConnsCounted'
    BY <1>0, <1>1, <2>1, ConnsKept
  <2>5. c \in Confirming /\ Confirming' = Confirming \ {c}
    BY <1>6 DEF Confirming, TypeOK
  <2>6. Counts(metrics["pending"] - 1, Confirming')
    BY <1>0, <2>5, CountShrinks DEF FlowsCounted
  <2>7. metrics'["pending"] = metrics["pending"] - 1
    BY <1>6, CountedUpDown DEF Counters
  <2>8. c \notin Answered /\ Answered' = Answered \cup {c}
    BY <1>2, <1>6 DEF Answered, TypeOK
  <2>9. Counts(metrics["ssoFailure"] + metrics["ssoSuccess"] + 1, Answered')
    BY <1>0, <2>8, CountGrows DEF FlowsCounted
  <2>10. \A x : Acceptable(x)' <=> Acceptable(x)
    BY <1>1 DEF Acceptable
  <2>11. CASE Acceptable(who) /\ up = {"ssoSuccess"}
    <3>1. c \notin Confirmed /\ Confirmed' = Confirmed \cup {c}
      BY <1>1, <1>2, <1>6, <2>11 DEF Confirmed, Admissible, Acceptable, TypeOK
    <3>2. Counts(metrics["ssoSuccess"] + 1, Confirmed')
      BY <1>0, <3>1, CountGrows DEF FlowsCounted
    <3>3. /\ metrics'["ssoSuccess"] = metrics["ssoSuccess"] + 1
          /\ metrics'["ssoFailure"] = metrics["ssoFailure"]
          /\ metrics'["ssoErrors"] = metrics["ssoErrors"]
      BY <1>6, <2>11 DEF Counted, Counters
    <3>4. metrics'["ssoFailure"] + metrics'["ssoSuccess"]
            = metrics["ssoFailure"] + metrics["ssoSuccess"] + 1
      BY <3>3 DEF TypeOK, Counters
    <3>5. FlowsCounted'
      BY <1>0, <2>6, <2>7, <2>9, <3>2, <3>3, <3>4 DEF FlowsCounted, Counts
    <3> QED
      BY <2>3, <2>4, <3>5 DEF Balanced
  <2>12. CASE ~Acceptable(who) /\ up = {"ssoFailure", "ssoErrors"}
    <3>1. Confirmed' = Confirmed
      BY <1>1, <1>2, <1>6, <2>12 DEF Confirmed, Admissible, Acceptable, TypeOK
    <3>2. /\ metrics'["ssoSuccess"] = metrics["ssoSuccess"]
          /\ metrics'["ssoFailure"] = metrics["ssoFailure"] + 1
          /\ metrics'["ssoErrors"] = metrics["ssoErrors"] + 1
      BY <1>6, <2>12 DEF Counted, Counters
    <3>3. metrics'["ssoFailure"] + metrics'["ssoSuccess"]
            = metrics["ssoFailure"] + metrics["ssoSuccess"] + 1
      BY <3>2 DEF TypeOK, Counters
    <3>4. FlowsCounted'
      BY <1>0, <2>6, <2>7, <2>9, <3>1, <3>2, <3>3 DEF FlowsCounted, Counts
    <3> QED
      BY <2>3, <2>4, <3>4 DEF Balanced
  <2> QED
    BY <1>6, <2>11, <2>12
<1>7. {"active", "opened", "pending"} \cup Results
        \subseteq (Counters \ {"ssoSuccess"}) \cap (Counters \ {"ssoFailure", "ssoErrors"})
  BY DEF Counters, Results
<1>8. ASSUME NEW who \in {"user", "other", "failed"}, AcceptSSO(c, who) PROVE Balanced'
  <2>1. /\ pc[c] = "sso" /\ pc' = [pc EXCEPT ![c] = "route"]
        /\ approval' = [approval EXCEPT ![c] = who]
        /\ metrics' = Counted({"ssoSuccess"}, {"pending"})
        /\ Acceptable(who) /\ outcome' = outcome
    BY <1>8 DEF AcceptSSO, Goto
  <2> QED
    BY <1>6, <1>7, <2>1
<1>9. ASSUME NEW who \in {"user", "other", "failed"}, RejectSSO(c, who) PROVE Balanced'
  <2>1. /\ pc[c] = "sso" /\ pc' = [pc EXCEPT ![c] = "report"]
        /\ approval' = [approval EXCEPT ![c] = who]
        /\ metrics' = Counted({"ssoFailure", "ssoErrors"}, {"pending"})
        /\ ~Acceptable(who) /\ outcome' = [outcome EXCEPT ![c] = "failure"]
    BY <1>9 DEF RejectSSO, Fails, Goto
  <2> QED
    BY <1>6, <1>7, <2>1
<1> QED
  BY <1>3, <1>4, <1>5, <1>8, <1>9 DEF AdmissionStep

(* No other step before the last one counts anything.                        *)
LEMMA OthersUncounted ==
  ASSUME TypeOK, Balanced, NEW c \in Channels,
         ChannelStep(c) \/ SetupStep(c) \/ (EndStep(c) /\ ~Report(c))
  PROVE  Balanced'
<1> DEFINE Running == {"none", "start", "route", "dial", "signed", "setup", "streaming",
                       "running",
                       "unwind", "close", "released", "report"}
<1>1. UNCHANGED <<conf, conn, approval, metrics>>
  BY DEF ChannelStep, OpenChannel, PeerCloses, RequestsEnd, HandlerReturns, BeginSession,
         SetupStep, ResolveTarget, AgentSigns, TargetFails, NoTarget, Connect,
         ConnectFails, OpenTargetSession,
         CreateRecorder, SpawnStreams, StartRemote, SetupFails, CaptureRecorder,
         EndStep, RemoteEnds, Unpublish, Release, connVars, sessVars
<1>2. UNCHANGED <<pc, outcome>> \/ (pc[c] \in Running /\ pc'[c] \in Running)
  BY DEF ChannelStep, OpenChannel, PeerCloses, RequestsEnd, HandlerReturns, BeginSession,
         SetupStep, ResolveTarget, AgentSigns, TargetFails, NoTarget, Connect,
         ConnectFails, OpenTargetSession,
         CreateRecorder, SpawnStreams, StartRemote, SetupFails, CaptureRecorder,
         EndStep, RemoteEnds, Unpublish, Release, sessVars, Goto, Fails, TypeOK
<1>3. \A d \in Channels : d # c => pc'[d] = pc[d] /\ outcome'[d] = outcome[d]
  BY ChannelFrame
<1>4. \A d \in Channels : /\ pc'[d] = "sso" <=> pc[d] = "sso"
                          /\ pc'[d] = "done" <=> pc[d] = "done"
                          /\ pc[d] = "done" => outcome'[d] = outcome[d]
  BY <1>2, <1>3
<1>5. Same({"active", "opened"}) /\ Same(FlowCounters) /\ Same(Results)
  BY <1>1 DEF Same
<1>6. ConnsCounted'
  BY <1>1, <1>5, ConnsKept DEF Balanced
<1>7. ResultsCounted'
  BY <1>4, <1>5, ResultsKept DEF Balanced
<1>8. FlowsCounted'
  BY <1>1, <1>4, <1>5, FlowsKept DEF Balanced
<1> QED
  BY <1>6, <1>7, <1>8 DEF Balanced

(* The handlers count the result that the session has by then.               *)
LEMMA ReportCounted ==
  ASSUME TypeOK, Exits, Balanced, NEW c \in Channels, Report(c)
  PROVE  Balanced'
<1>1. /\ pc[c] \in {"released", "report"} /\ pc' = [pc EXCEPT ![c] = "done"]
      /\ metrics' = Counted({outcome[c]}, {}) /\ UNCHANGED <<conf, conn, outcome, approval>>
  BY DEF Report, connVars
<1>2. outcome[c] \in Results
  BY <1>1 DEF Exits, TypeOK
<1>3. ResultsCounted'
  BY <1>1, <1>2, ResultAdded DEF Balanced
<1>4. Same({"active", "opened"}) /\ Same(FlowCounters)
  BY <1>1, <1>2, CountedSame DEF FlowCounters, Counters, Results
<1>5. \A d \in Channels : pc'[d] = "sso" <=> pc[d] = "sso"
  BY <1>1 DEF TypeOK
<1>6. ConnsCounted' /\ FlowsCounted'
  BY <1>1, <1>4, <1>5, ConnsKept, FlowsKept DEF Balanced
<1> QED
  BY <1>3, <1>6 DEF Balanced

(* Every gauge goes down as often as up, every session that ends is counted  *)
(* under one result, and every answer of a device flow as a success or as a  *)
(* failure, on whichever path (metrics.go:97-161 and its callers).           *)
THEOREM MetricsBalanced == Spec => []MetricsBalance
<1>1. Init => Balanced
  <2> SUFFICES ASSUME Init PROVE Balanced
    OBVIOUS
  <2>1. Counts(0, {})
    BY FS_EmptySet DEF Counts
  <2>2. Live = {} /\ Served = {} /\ Confirming = {}
    BY DEF Init, Live, Served, Confirming
  <2>3. Confirmed = {} /\ Answered = {}
    BY DEF Init, Confirmed, Answered, Admissible, Acceptable
  <2>4. \A r \in Results : Over(r) = {}
    BY DEF Init, Over
  <2>5. \A m \in Counters : metrics[m] = 0
    BY DEF Init
  <2>6. metrics["ssoFailure"] + metrics["ssoSuccess"] = 0
    BY <2>5 DEF Counters
  <2> QED
    BY <2>1, <2>2, <2>3, <2>4, <2>5, <2>6
       DEF Balanced, ConnsCounted, ResultsCounted, FlowsCounted, Counters
<1>2. TypeOK /\ Admitted /\ Exits /\ Balanced /\ [Next]_vars => Balanced'
  <2> SUFFICES ASSUME TypeOK, Admitted, Exits, Balanced, [Next]_vars PROVE Balanced'
    OBVIOUS
  <2>1. ASSUME NEW k \in Conns, ConnStep(k) PROVE Balanced'
    <3>1. ConnsCounted' /\ Same(Results) /\ Same(FlowCounters)
      BY <2>1, ConnsStep DEF Balanced
    <3>2. UNCHANGED <<conf, pc, outcome, approval>>
      BY <2>1, ConnFrame DEF sessVars
    <3>3. ResultsCounted'
      BY <3>1, <3>2, ResultsKept DEF Balanced
    <3>4. FlowsCounted'
      BY <3>1, <3>2, FlowsKept DEF Balanced
    <3> QED
      BY <3>1, <3>3, <3>4 DEF Balanced
  <2>2. ASSUME NEW c \in Channels,
               ChannelStep(c) \/ AdmissionStep(c) \/ SetupStep(c) \/ EndStep(c)
        PROVE  Balanced'
    BY <2>2, AdmissionCounted, OthersUncounted, ReportCounted
  <2>3. CASE UNCHANGED vars
    <3>1. UNCHANGED <<conf, conn, pc, outcome, approval, metrics>>
      BY <2>3 DEF vars, connVars, sessVars
    <3>2. Same({"active", "opened"}) /\ Same(FlowCounters) /\ Same(Results)
      BY <3>1 DEF Same
    <3>3. ConnsCounted' /\ ResultsCounted' /\ FlowsCounted'
      BY <3>1, <3>2, ConnsKept, ResultsKept, FlowsKept DEF Balanced
    <3> QED
      BY <3>3 DEF Balanced
  <2> QED
    BY <2>1, <2>2, <2>3 DEF Next, Idle
<1>3. Balanced => MetricsBalance
  BY DEF Balanced, ConnsCounted, ResultsCounted, FlowsCounted, Counts, MetricsBalance,
         Live, Served, Confirming, Over, Confirmed, Answered
<1> QED
  BY <1>1, <1>2, <1>3, TypeCorrect, AdmissionHolds, ExitsHold, PTL DEF Spec

=============================================================================
