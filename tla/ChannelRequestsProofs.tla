------------------------- MODULE ChannelRequestsProofs -------------------------
(***************************************************************************)
(* Theorems about ChannelRequests, for any number of channels, requests,   *)
(* values and sizes.                                                       *)
(***************************************************************************)
EXTENDS ChannelRequests, SequenceTheorems, TLAPS

------------------------------------------------------------------------------
(* Types *)

Seen == [term : BOOLEAN, size : Sizes]
Remote == [env : Values \cup {None}, size : Nat \cup {None}]

LEMMA SizesAreNumbers ==
  /\ Sizes \subseteq Nat /\ 0 \in Sizes /\ Default \in Nat
  /\ \A z \in Sizes : Shown(z) \in Nat /\ Shown(z) # None /\ z # None
BY SizesAssumption, NoneAssumption DEF Default, Shown

LEMMA HandleEnvType ==
  ASSUME TypeOK, NEW d, NEW n \in Names, NEW v \in Values \cup {None}, HandleEnv(d, n, v)
  PROVE  /\ env' \in [Names -> Values \cup {None}]
         /\ fresh' \in [Channels -> [Names -> SUBSET Values]]
         /\ UNCHANGED <<term, size, published, loop, local, phase, seen, target, remote, granted, missed>>
<1>1. CASE Stores(n, v) /\ SetEnvVar(n, v) /\ Offered(d, n, v)
           /\ UNCHANGED <<term, size, published, loop, local, session, granted, missed>>
  <2>1. v \in Values
    BY <1>1 DEF Stores
  <2>2. env' \in [Names -> Values \cup {None}]
    BY <1>1, <2>1 DEF SetEnvVar, TypeOK
  <2>3. ASSUME NEW c \in Channels PROVE fresh'[c] \in [Names -> SUBSET Values]
    BY <1>1, <2>1 DEF Offered, TypeOK
  <2>4. fresh' \in [Channels -> [Names -> SUBSET Values]]
    BY <1>1, <2>3 DEF Offered
  <2> QED
    BY <1>1, <2>2, <2>4 DEF session
<1>2. CASE UNCHANGED <<state, loop, local, session, history>>
  BY <1>2 DEF state, session, history, TypeOK
<1> QED
  BY <1>1, <1>2 DEF HandleEnv

(* Every reachable state is well typed.                                      *)
THEOREM TypeCorrect == Spec => []TypeOK
<1>1. Init => TypeOK
  <2> SUFFICES ASSUME Init PROVE TypeOK
    OBVIOUS
  <2>1. /\ env \in [Names -> Values \cup {None}] /\ size \in Sizes /\ published = None
        /\ loop \in [Channels -> {"reading", "resized"}] /\ local \in [Channels -> Sizes]
        /\ phase \in [Channels -> Phases] /\ target \in [Channels -> Values \cup {None}]
        /\ fresh \in [Channels -> [Names -> SUBSET Values]]
        /\ active = {} /\ handled = 0
    BY SizesAssumption DEF Init, Phases
  <2>2. term \in BOOLEAN
    BY DEF Init
  <2>3. seen \in [Channels -> Seen]
    BY SizesAssumption DEF Init, Seen
  <2>4. remote \in [Channels -> Remote]
    BY DEF Init, Remote
  <2>5. granted \in [Channels -> SUBSET BOOLEAN] /\ missed \in [Channels -> BOOLEAN]
    BY DEF Init
  <2> QED
    BY <2>1, <2>2, <2>3, <2>4, <2>5, BoundAssumption DEF TypeOK, Seen, Remote
<1>2. TypeOK /\ [Next]_vars => TypeOK'
  <2> SUFFICES ASSUME TypeOK, [Next]_vars PROVE TypeOK'
    OBVIOUS
  <2> USE DEF state, session, history, answers
  <2>0. CASE UNCHANGED vars \/ Idle
    BY <2>0 DEF vars, Idle, TypeOK
  <2>a. ASSUME NEW c \in Channels, NEW type, NEW given, Answered(c, type, given)
        PROVE  active' \subseteq Channels /\ handled' \in 0 .. MaxRequests
    BY <2>a, BoundAssumption DEF Answered, TypeOK
  <2>1. ASSUME NEW c \in Channels, NEW n \in Names, NEW v \in Values \cup {None}, ReceiveEnv(c, n, v)
        PROVE  TypeOK'
    <3>1. HandleEnv(c, n, v) /\ Answered(c, "env", <<Accepts(n, v), TRUE>>)
      BY <2>1 DEF ReceiveEnv
    <3> QED
      BY <2>a, <3>1, HandleEnvType DEF TypeOK
  <2>2. ASSUME NEW n \in Names, NEW v \in Values \cup {None}, ReceiveGlobalEnv(n, v)
        PROVE  TypeOK'
    <3>1. HandleEnv(None, n, v) /\ active' = active /\ handled' \in 0 .. MaxRequests
      BY <2>2, BoundAssumption DEF ReceiveGlobalEnv, TypeOK
    <3> QED
      BY <3>1, HandleEnvType DEF TypeOK
  <2>3. ASSUME NEW c \in Channels, NEW named \in BOOLEAN, NEW z \in Sizes, ReceivePty(c, named, z)
        PROVE  TypeOK'
    <3>1. term' \in BOOLEAN
      BY <2>3 DEF ReceivePty
    <3>2. granted' \in [Channels -> SUBSET BOOLEAN]
      <4>1. ASSUME NEW d \in Channels
            PROVE  (IF HasReadTerminal(d) THEN granted[d]
                    ELSE IF d = c /\ phase[d] = "none" THEN {named}
                    ELSE granted[d] \cup {named}) \in SUBSET BOOLEAN
        BY DEF TypeOK
      <4> QED
        BY <2>3, <4>1 DEF ReceivePty, Granted
    <3>3. missed' \in [Channels -> BOOLEAN]
      BY <2>3 DEF ReceivePty, TypeOK
    <3>4. active' \subseteq Channels /\ handled' \in 0 .. MaxRequests
      BY <2>3, <2>a DEF ReceivePty
    <3>5. size' \in Sizes /\ local' \in [Channels -> Sizes]
      BY <2>3 DEF ReceivePty, TypeOK
    <3>6. UNCHANGED <<env, published, loop, session, fresh>>
      BY <2>3 DEF ReceivePty
    <3> QED
      BY <3>1, <3>2, <3>3, <3>4, <3>5, <3>6 DEF TypeOK
  <2>4. ASSUME NEW c \in Channels, NEW z \in Sizes \cup {None}, ReceiveResize(c, z) PROVE TypeOK'
    <3>1. WindowSize(c, z) \in Sizes
      BY DEF WindowSize, TypeOK
    <3>2. active' \subseteq Channels /\ handled' \in 0 .. MaxRequests
      BY <2>4, <2>a DEF ReceiveResize
    <3> QED
      BY <2>4, <3>1, <3>2 DEF ReceiveResize, TypeOK
  <2>5. ASSUME NEW c \in Channels, Forward(c) PROVE TypeOK'
    <3>1. missed' \in [Channels -> BOOLEAN]
      BY <2>5 DEF Forward, TypeOK
    <3>2. ASSUME NEW d \in Channels PROVE remote'[d] \in Remote
      <4>1. remote[d] \in Remote /\ local[c] \in Nat
        BY SizesAssumption DEF TypeOK, Remote
      <4>2. [remote[d] EXCEPT !.size = local[c]] \in Remote
        BY <4>1 DEF Remote
      <4> QED
        BY <2>5, <4>1, <4>2 DEF Forward
    <3>3. remote' \in [Channels -> Remote]
      BY <2>5, <3>2 DEF Forward
    <3> QED
      BY <2>5, <3>1, <3>3 DEF Forward, TypeOK, Remote
  <2>6. ASSUME NEW c \in Channels, ReceiveShell(c) PROVE TypeOK'
    <3>1. active' \subseteq Channels /\ handled' \in 0 .. MaxRequests
      BY <2>6, <2>a DEF ReceiveShell
    <3> QED
      BY <2>6, <3>1 DEF ReceiveShell, TypeOK, Phases
  <2>7. ASSUME NEW c \in Channels, NEW type, ReceiveUnsupported(c, type) PROVE TypeOK'
    <3>1. active' \subseteq Channels /\ handled' \in 0 .. MaxRequests
      BY <2>7, <2>a DEF ReceiveUnsupported
    <3> QED
      BY <2>7, <3>1 DEF ReceiveUnsupported, TypeOK
  <2>8. ASSUME NEW c \in Channels, Route(c) PROVE TypeOK'
    BY <2>8 DEF Route, TypeOK, Phases, Names
  <2>9. ASSUME NEW c \in Channels, Publish(c) \/ End(c) PROVE TypeOK'
    BY <2>9 DEF Publish, End, TypeOK, Phases
  <2>10. ASSUME NEW c \in Channels, ApplyEnv(c) PROVE TypeOK'
    BY <2>10 DEF ApplyEnv, TypeOK, Phases, Names
  <2>11. ASSUME NEW c \in Channels, ReadPTY(c) PROVE TypeOK'
    <3>1. [term |-> term, size |-> size] \in Seen
      BY DEF TypeOK, Seen
    <3>2. seen' \in [Channels -> Seen]
      BY <2>11, <3>1 DEF ReadPTY, TypeOK, Seen
    <3> QED
      BY <2>11, <3>2 DEF ReadPTY, TypeOK, Phases, Seen
  <2>12. ASSUME NEW c \in Channels, StartShell(c) PROVE TypeOK'
    <3>1. Shown(seen[c].size) \in Nat
      BY SizesAreNumbers DEF TypeOK
    <3>2. remote[c] \in Remote
      BY DEF TypeOK, Remote
    <3>3. remote' = [remote EXCEPT ![c].size = IF seen[c].term THEN Shown(seen[c].size) ELSE @]
      BY <2>12 DEF StartShell
    <3>4. remote' \in [Channels -> Remote]
      BY <3>1, <3>2, <3>3 DEF TypeOK, Remote
    <3>5. phase' \in [Channels -> Phases]
      BY <2>12 DEF StartShell, TypeOK, Phases
    <3> QED
      BY <2>12, <3>4, <3>5 DEF StartShell, TypeOK, Remote
  <2> QED
    BY <2>0, <2>1, <2>2, <2>3, <2>4, <2>5, <2>6, <2>7, <2>8, <2>9, <2>10, <2>11, <2>12
       DEF Next, Request, Session
<1> QED
  BY <1>1, <1>2, PTL DEF Spec

------------------------------------------------------------------------------
(* Variables *)

\* A session that has yet to read a variable will find a value that it may.
Pending ==
  \A c \in Channels, n \in Names : ~HasRead(c, n) =>
    IF env[n] = None THEN fresh[c][n] = {} ELSE env[n] \in fresh[c][n]

\* What a session has read: its target and its variable.
ReadRight ==
  \A c \in Channels :
    /\ phase[c] \in {"none", "route"} => target[c] = None
    /\ target[c] # None => target[c] \in fresh[c]["LC_SSH_SERVER"]
    /\ phase[c] \notin {"none", "route"} /\ target[c] = None => Static \/ fresh[c]["LC_SSH_SERVER"] = {}
    /\ phase[c] \in {"pty", "request", "running"} =>
         IF fresh[c]["LANG"] = {} THEN remote[c].env = None
         ELSE remote[c].env \in fresh[c]["LANG"]

(* Whether a session has read a variable depends on where it is.             *)
LEMMA HasReadAt ==
  ASSUME NEW c \in Channels
  PROVE  /\ HasRead(c, "LC_SSH_SERVER") <=> phase[c] \notin {"none", "route"}
         /\ HasRead(c, "LANG") <=> phase[c] \notin {"none", "route", "dial", "env"}
BY DEF HasRead

\* The steps that concern no variable.
KeepsVariables ==
  /\ UNCHANGED <<env, fresh, target>>
  /\ \A c \in Channels :
       /\ remote'[c].env = remote[c].env
       /\ \/ phase'[c] = phase[c]
          \/ phase[c] = "none" /\ phase'[c] = "route"
          \/ phase[c] = "dial" /\ phase'[c] = "env"
          \/ phase[c] = "pty" /\ phase'[c] = "request"
          \/ phase[c] = "request" /\ phase'[c] = "running"
          \/ phase[c] \notin {"none", "route", "over"} /\ phase'[c] = "over"

LEMMA KeepsVariablesWhen ==
  ASSUME TypeOK, NEW c \in Channels, NEW named, NEW z, NEW type,
         \/ ReceivePty(c, named, z) \/ ReceiveResize(c, z) \/ Forward(c)
         \/ ReceiveShell(c) \/ ReceiveUnsupported(c, type)
         \/ Publish(c) \/ ReadPTY(c) \/ StartShell(c) \/ End(c)
  PROVE  KeepsVariables
<1> USE DEF state, session, history
<1>1. CASE ReceivePty(c, named, z) \/ ReceiveResize(c, z) \/ ReceiveUnsupported(c, type)
  BY <1>1 DEF ReceivePty, ReceiveResize, ReceiveUnsupported, KeepsVariables
<1>2. CASE Forward(c)
  <2>1. ASSUME NEW d \in Channels PROVE remote'[d].env = remote[d].env
    BY <1>2 DEF Forward, TypeOK
  <2> QED
    BY <1>2, <2>1 DEF Forward, KeepsVariables
<1>3. CASE ReceiveShell(c)
  BY <1>3 DEF ReceiveShell, KeepsVariables, TypeOK
<1>4. CASE Publish(c) \/ ReadPTY(c) \/ End(c)
  BY <1>4 DEF Publish, ReadPTY, End, KeepsVariables, TypeOK
<1>5. CASE StartShell(c)
  <2>1. ASSUME NEW d \in Channels PROVE remote'[d].env = remote[d].env
    BY <1>5 DEF StartShell, TypeOK
  <2> QED
    BY <1>5, <2>1 DEF StartShell, KeepsVariables, TypeOK
<1> QED
  BY <1>1, <1>2, <1>3, <1>4, <1>5

LEMMA VariablesStep ==
  ASSUME TypeOK, Pending, ReadRight, [Next]_vars
  PROVE  Pending' /\ ReadRight'
<1> USE DEF Names
<1>1. CASE KeepsVariables
  <2>1. \A c \in Channels, n \in Names : HasRead(c, n) => HasRead(c, n)'
    BY <1>1 DEF KeepsVariables, HasRead
  <2>2. Pending'
    BY <1>1, <2>1 DEF KeepsVariables, Pending
  <2>3. ReadRight'
    <3> SUFFICES ASSUME NEW c \in Channels
                 PROVE  /\ phase'[c] \in {"none", "route"} => target'[c] = None
                        /\ target'[c] # None => target'[c] \in fresh'[c]["LC_SSH_SERVER"]
                        /\ phase'[c] \notin {"none", "route"} /\ target'[c] = None =>
                             Static \/ fresh'[c]["LC_SSH_SERVER"] = {}
                        /\ phase'[c] \in {"pty", "request", "running"} =>
                             IF fresh'[c]["LANG"] = {} THEN remote'[c].env = None
                             ELSE remote'[c].env \in fresh'[c]["LANG"]
      BY DEF ReadRight
    <3> QED
      BY <1>1 DEF KeepsVariables, ReadRight
  <2> QED
    BY <2>2, <2>3
<1>2. CASE UNCHANGED vars \/ Idle
  BY <1>1, <1>2 DEF vars, Idle, state, session, history, KeepsVariables
<1>3. ASSUME NEW d, NEW n \in Names, NEW v \in Values \cup {None}, HandleEnv(d, n, v)
      PROVE  Pending' /\ ReadRight'
  <2>1. CASE UNCHANGED <<state, loop, local, session, history>>
    BY <1>1, <2>1 DEF state, session, history, KeepsVariables
  <2>2. CASE Stores(n, v) /\ SetEnvVar(n, v) /\ Offered(d, n, v)
             /\ UNCHANGED <<term, size, published, loop, local, session, granted, missed>>
    <3>1. UNCHANGED <<phase, target, remote>> /\ v # None
      BY <2>2 DEF session, Stores
    <3>2. \A c \in Channels, m \in Names : HasRead(c, m)' <=> HasRead(c, m)
      BY <3>1 DEF HasRead
    <3>3. \A m \in Names : env'[m] = IF m = n THEN v ELSE env[m]
      BY <2>2 DEF SetEnvVar, TypeOK
    <3>4. ASSUME NEW c \in Channels, NEW m \in Names
          PROVE  IF HasRead(c, n) \/ m # n THEN fresh'[c][m] = fresh[c][m] ELSE v \in fresh'[c][m]
      BY <2>2 DEF Offered, TypeOK
    <3>5. Pending'
      BY <3>1, <3>2, <3>3, <3>4 DEF Pending
    <3>6. ASSUME NEW c \in Channels, NEW m \in Names, HasRead(c, m)
          PROVE  fresh'[c][m] = fresh[c][m]
      BY <3>4, <3>6
    <3>7. ReadRight'
      BY <3>1, <3>6, HasReadAt DEF ReadRight
    <3> QED
      BY <3>5, <3>7
  <2> QED
    BY <1>3, <2>1, <2>2 DEF HandleEnv
<1>4. ASSUME NEW c \in Channels, Route(c) PROVE Pending' /\ ReadRight'
  <2>1. /\ phase[c] = "route" /\ UNCHANGED <<env, fresh, remote>>
        /\ phase' = [phase EXCEPT ![c] = IF Static \/ env["LC_SSH_SERVER"] # None THEN "dial" ELSE "over"]
        /\ target' = [target EXCEPT ![c] = env["LC_SSH_SERVER"]]
    BY <1>4 DEF Route, state, history
  <2>2. /\ target'[c] = env["LC_SSH_SERVER"] /\ phase'[c] \in {"dial", "over"}
        /\ \A d \in Channels \ {c} : target'[d] = target[d] /\ phase'[d] = phase[d]
    BY <2>1 DEF TypeOK
  <2>3. IF env["LC_SSH_SERVER"] = None THEN fresh[c]["LC_SSH_SERVER"] = {}
        ELSE env["LC_SSH_SERVER"] \in fresh[c]["LC_SSH_SERVER"]
    BY <2>1, HasReadAt DEF Pending
  <2>4. Pending'
    BY <2>1, <2>2 DEF Pending, HasRead
  <2>5. ReadRight'
    BY <2>1, <2>2, <2>3 DEF ReadRight
  <2> QED
    BY <2>4, <2>5
<1>5. ASSUME NEW c \in Channels, ApplyEnv(c) PROVE Pending' /\ ReadRight'
  <2>1. /\ phase[c] = "env" /\ UNCHANGED <<env, fresh, target>>
        /\ phase' = [phase EXCEPT ![c] = "pty"]
        /\ remote' = [remote EXCEPT ![c].env = env["LANG"]]
    BY <1>5 DEF ApplyEnv, state, history
  <2>2. /\ phase'[c] = "pty" /\ remote'[c].env = env["LANG"]
        /\ \A d \in Channels \ {c} : remote'[d] = remote[d] /\ phase'[d] = phase[d]
    BY <2>1 DEF TypeOK
  <2>3. IF env["LANG"] = None THEN fresh[c]["LANG"] = {} ELSE env["LANG"] \in fresh[c]["LANG"]
    BY <2>1, HasReadAt DEF Pending
  <2>4. Pending'
    BY <2>1, <2>2 DEF Pending, HasRead
  <2>5. ReadRight'
    BY <2>1, <2>2, <2>3 DEF ReadRight
  <2> QED
    BY <2>4, <2>5
<1>6. ASSUME NEW c \in Channels, Request(c) \/ Session(c) PROVE Pending' /\ ReadRight'
  <2>1. CASE \E n \in Names, v \in Values \cup {None} : ReceiveEnv(c, n, v)
    BY <1>3, <2>1 DEF ReceiveEnv
  <2> QED
    BY <1>1, <1>4, <1>5, <1>6, <2>1, KeepsVariablesWhen DEF Request, Session
<1>7. CASE \E n \in Names, v \in Values \cup {None} : ReceiveGlobalEnv(n, v)
  BY <1>3, <1>7 DEF ReceiveGlobalEnv
<1> QED
  BY <1>2, <1>6, <1>7 DEF Next

(* However many channels share the variables: a session goes to a server     *)
(* that its client had not replaced, and passes on a value it had not        *)
(* replaced (server.go:469-475, 547, 594).                                   *)
THEOREM VariablesAreFresh == Spec => []VariablesFresh
<1>1. Init => Pending /\ ReadRight
  BY DEF Init, Pending, ReadRight
<1>2. TypeOK /\ (Pending /\ ReadRight) /\ [Next]_vars => (Pending /\ ReadRight)'
  BY VariablesStep
<1>3. ReadRight => VariablesFresh
  BY DEF ReadRight, VariablesFresh, RouteFresh, EnvFresh
<1> QED
  BY <1>1, <1>2, <1>3, TypeCorrect, PTL DEF Spec

------------------------------------------------------------------------------
(* The terminal *)

\* What the requests that count for c say of a terminal.
Honoured(c, has) == IF granted[c] = {} THEN has = FALSE ELSE has \in granted[c]

\* That is first the SessionState's terminal, then what the session has read of
\* it, and then what the target has, which has none before.
Kept(c) ==
  /\ phase[c] \in {"none", "route", "dial", "env", "pty"} => Honoured(c, term)
  /\ phase[c] = "request" => Honoured(c, seen[c].term)
  /\ phase[c] = "running" => Honoured(c, remote[c].size # None)
  /\ phase[c] \notin {"running", "over"} => remote[c].size = None

TerminalKept == \A c \in Channels : Kept(c)

LEMMA HandleEnvLeaves ==
  ASSUME NEW d, NEW n, NEW v, HandleEnv(d, n, v)
  PROVE  UNCHANGED <<term, size, published, loop, local, session, granted, missed>>
BY DEF HandleEnv, state, history

\* What does not touch the terminal, the phase, or what the target has of c.
LEMMA KeptUntouched ==
  ASSUME NEW c \in Channels, Kept(c), term' = term, granted'[c] = granted[c],
         seen'[c] = seen[c], phase'[c] = phase[c],
         (remote'[c].size # None) = (remote[c].size # None)
  PROVE  Kept(c)'
BY DEF Kept, Honoured

\* A request counts for those that have yet to read the terminal.
LEMMA PtyKept ==
  ASSUME TypeOK, NEW d \in Channels, NEW named \in BOOLEAN, NEW z \in Sizes,
         ReceivePty(d, named, z), NEW c \in Channels, Kept(c)
  PROVE  Kept(c)'
<1>1. term' = named /\ UNCHANGED <<phase, seen, remote>>
  BY DEF ReceivePty, session
<1>2. CASE HasReadTerminal(c)
  <2>1. granted'[c] = granted[c]
    BY <1>2 DEF ReceivePty, Granted
  <2> QED
    BY <1>1, <1>2, <2>1 DEF Kept, Honoured, HasReadTerminal
<1>3. CASE ~HasReadTerminal(c)
  <2>1. named \in granted'[c]
    BY <1>3 DEF ReceivePty, Granted
  <2> QED
    BY <1>1, <1>3, <2>1 DEF Kept, Honoured, HasReadTerminal
<1> QED
  BY <1>2, <1>3

\* A step of the session of c hands the terminal on.
LEMMA SessionKept ==
  ASSUME TypeOK, NEW c \in Channels, Session(c), Kept(c)
  PROVE  Kept(c)'
<1> USE DEF state, history, session
<1>1. CASE Route(c) \/ Publish(c) \/ ApplyEnv(c)
  <2>1. /\ UNCHANGED <<term, granted>>
        /\ phase[c] \in {"route", "dial", "env"}
        /\ phase'[c] \in {"dial", "env", "pty", "over"}
        /\ remote'[c].size = remote[c].size
    BY <1>1 DEF Route, Publish, ApplyEnv, TypeOK
  <2> QED
    BY <2>1 DEF Kept, Honoured
<1>2. CASE End(c)
  <2>1. phase'[c] = "over"
    BY <1>2 DEF End, TypeOK
  <2> QED
    BY <2>1 DEF Kept
<1>3. CASE ReadPTY(c)
  <2>1. /\ UNCHANGED <<granted, remote>> /\ phase[c] = "pty" /\ phase'[c] = "request"
        /\ seen'[c].term = term
    BY <1>3 DEF ReadPTY, TypeOK
  <2> QED
    BY <2>1 DEF Kept, Honoured
<1>4. CASE StartShell(c)
  <2>1. /\ UNCHANGED granted /\ phase[c] = "request" /\ phase'[c] = "running"
        /\ remote'[c].size = IF seen[c].term THEN Shown(seen[c].size) ELSE remote[c].size
    BY <1>4 DEF StartShell, TypeOK
  <2>2. seen[c].term \in BOOLEAN /\ Shown(seen[c].size) # None
    BY SizesAreNumbers DEF TypeOK
  <2>3. remote[c].size = None
    BY <2>1 DEF Kept
  <2>4. (remote'[c].size # None) = seen[c].term
    BY <2>1, <2>2, <2>3
  <2> QED
    BY <2>1, <2>4 DEF Kept, Honoured
<1> QED
  BY <1>1, <1>2, <1>3, <1>4 DEF Session

LEMMA TerminalStep ==
  ASSUME TypeOK, TerminalKept, [Next]_vars, NEW c \in Channels
  PROVE  Kept(c)'
<1> USE DEF state, session, history
<1>0. Kept(c)
  BY DEF TerminalKept
<1>1. CASE UNCHANGED vars \/ Idle
  BY <1>0, <1>1, KeptUntouched DEF vars, Idle
<1>2. ASSUME NEW d, NEW n, NEW v, HandleEnv(d, n, v) PROVE Kept(c)'
  BY <1>0, <1>2, HandleEnvLeaves, KeptUntouched
<1>3. ASSUME NEW d \in Channels, NEW named \in BOOLEAN, NEW z \in Sizes, ReceivePty(d, named, z)
      PROVE  Kept(c)'
  BY <1>0, <1>3, PtyKept
<1>4. ASSUME NEW d \in Channels, NEW z, ReceiveResize(d, z) PROVE Kept(c)'
  BY <1>0, <1>4, KeptUntouched DEF ReceiveResize
<1>5. ASSUME NEW d \in Channels, Forward(d) PROVE Kept(c)'
  <2>1. UNCHANGED <<term, granted, seen, phase>>
    BY <1>5 DEF Forward
  <2>2. (remote'[c].size # None) = (remote[c].size # None)
    <3>1. local[d] # None /\ remote[c] \in Remote
      BY SizesAreNumbers DEF TypeOK, Remote
    <3>2. [remote[c] EXCEPT !.size = local[d]].size = local[d]
      BY <3>1 DEF Remote
    <3>3. remote'[c] = IF c = published /\ remote[c].size # None
                       THEN [remote[c] EXCEPT !.size = local[d]] ELSE remote[c]
      BY <1>5 DEF Forward
    <3> QED
      BY <3>1, <3>2, <3>3
  <2> QED
    BY <1>0, <2>1, <2>2, KeptUntouched
<1>6. ASSUME NEW d \in Channels, ReceiveShell(d) PROVE Kept(c)'
  <2>1. /\ UNCHANGED <<term, granted, seen, remote>>
        /\ phase'[c] = phase[c] \/ (phase[c] = "none" /\ phase'[c] = "route")
    BY <1>6 DEF ReceiveShell, TypeOK
  <2> QED
    BY <1>0, <2>1 DEF Kept, Honoured
<1>7. ASSUME NEW d \in Channels, NEW type, ReceiveUnsupported(d, type) PROVE Kept(c)'
  BY <1>0, <1>7, KeptUntouched DEF ReceiveUnsupported
<1>8. ASSUME NEW d \in Channels, Session(d) PROVE Kept(c)'
  <2>1. CASE d = c
    BY <1>0, <1>8, <2>1, SessionKept
  <2>2. CASE d # c
    <3>1. /\ UNCHANGED <<term, granted>> /\ seen'[c] = seen[c] /\ phase'[c] = phase[c]
          /\ remote'[c] = remote[c]
      BY <1>8, <2>2 DEF Session, Route, Publish, ApplyEnv, ReadPTY, StartShell, End, TypeOK
    <3> QED
      BY <1>0, <3>1, KeptUntouched
  <2> QED
    BY <2>1, <2>2
<1> QED
  BY <1>1, <1>2, <1>3, <1>4, <1>5, <1>6, <1>7, <1>8
     DEF Next, Request, ReceiveEnv, ReceiveGlobalEnv

(* The shell runs on a terminal if and only if a pty-req of its channel that *)
(* the channel had not replaced before the shell, or a later one of any      *)
(* channel, says so (server.go:280-288, 549-560).                            *)
THEOREM TerminalIsGranted == Spec => []TerminalGranted
<1>1. Init => TerminalKept
  <2> SUFFICES ASSUME Init, NEW c \in Channels PROVE Kept(c)
    BY DEF TerminalKept
  <2>1. term = FALSE /\ granted[c] = {} /\ phase[c] = "none"
    BY DEF Init
  <2>2. remote[c].size = None
    BY DEF Init
  <2> QED
    BY <2>1, <2>2 DEF Kept, Honoured
<1>2. TypeOK /\ TerminalKept /\ [Next]_vars => TerminalKept'
  <2> SUFFICES ASSUME TypeOK, TerminalKept, [Next]_vars, NEW c \in Channels PROVE Kept(c)'
    BY DEF TerminalKept
  <2> QED
    BY TerminalStep
<1>3. TerminalKept => TerminalGranted
  BY DEF TerminalKept, Kept, Honoured, TerminalGranted
<1> QED
  BY <1>1, <1>2, <1>3, TypeCorrect, PTL DEF Spec

------------------------------------------------------------------------------
(* The size *)

\* While only c has sent requests, its loop's size is that of the SessionState,
\* and its session's, unless a change is under way or was missed.
SizeFor(c) ==
  /\ size = local[c]
  /\ published \in {None, c}
  /\ \A d \in Channels \ {c} : phase[d] = "none" /\ loop[d] = "reading"
  /\ phase[c] \in {"env", "pty", "request", "running"} => published = c
  /\ phase[c] = "request" /\ loop[c] = "reading" => seen[c].size = local[c] \/ missed[c]
  /\ phase[c] \in {"none", "route", "dial", "env", "pty", "request"} => remote[c].size = None
  /\ phase[c] = "running" /\ loop[c] = "reading" /\ remote[c].size # None =>
       remote[c].size \in {local[c], Shown(local[c])} \/ missed[c]

SizeFollows == \A c \in Channels : active \subseteq {c} => SizeFor(c)

LEMMA AnsweredActive ==
  ASSUME NEW c \in Channels, NEW d \in Channels, NEW type, NEW given,
         Answered(d, type, given), active' \subseteq {c}
  PROVE  active \subseteq {c} /\ d = c
BY DEF Answered

LEMMA SizeStep ==
  ASSUME TypeOK, SizeFollows, [Next]_vars
  PROVE  SizeFollows'
<1> SUFFICES ASSUME NEW c \in Channels, active' \subseteq {c} PROVE SizeFor(c)'
  BY DEF SizeFollows
<1> USE DEF state, session, history, answers
<1>0. ASSUME SizeFor(c), UNCHANGED <<size, published, loop, local, phase, seen, remote, missed>>
      PROVE  SizeFor(c)'
  BY <1>0 DEF SizeFor
<1>1. CASE UNCHANGED vars \/ Idle
  BY <1>0, <1>1 DEF vars, Idle, SizeFollows
<1>2. ASSUME NEW n, NEW v, ReceiveGlobalEnv(n, v) PROVE SizeFor(c)'
  BY <1>0, <1>2, HandleEnvLeaves DEF ReceiveGlobalEnv, SizeFollows
<1>3. ASSUME NEW d \in Channels, NEW n, NEW v, ReceiveEnv(d, n, v) PROVE SizeFor(c)'
  BY <1>0, <1>3, HandleEnvLeaves, AnsweredActive DEF ReceiveEnv, SizeFollows
<1>4. ASSUME NEW d \in Channels, NEW named \in BOOLEAN, NEW z \in Sizes, ReceivePty(d, named, z)
      PROVE  SizeFor(c)'
  <2>1. d = c /\ SizeFor(c)
    BY <1>4, AnsweredActive DEF ReceivePty, SizeFollows
  <2>2. /\ UNCHANGED <<published, loop, phase, seen, remote>>
        /\ size' = z /\ local'[c] = z
    BY <1>4, <2>1 DEF ReceivePty, TypeOK
  <2>3. phase[c] \in {"request", "running"} => missed'[c] = TRUE
    BY <1>4, <2>1 DEF ReceivePty, TypeOK
  <2> QED
    BY <2>1, <2>2, <2>3 DEF SizeFor
<1>5. ASSUME NEW d \in Channels, NEW z \in Sizes \cup {None}, ReceiveResize(d, z) PROVE SizeFor(c)'
  <2>1. d = c /\ SizeFor(c)
    BY <1>5, AnsweredActive DEF ReceiveResize, SizeFollows
  <2>2. /\ UNCHANGED <<published, phase, seen, remote>>
        /\ size' = WindowSize(c, z) /\ local'[c] = WindowSize(c, z) /\ loop'[c] = "resized"
        /\ \A r \in Channels \ {c} : loop'[r] = loop[r]
    BY <1>5, <2>1 DEF ReceiveResize, TypeOK
  <2> QED
    BY <2>1, <2>2 DEF SizeFor
<1>6. ASSUME NEW d \in Channels, Forward(d) PROVE SizeFor(c)'
  <2>1. SizeFor(c) /\ loop[d] = "resized"
    BY <1>6 DEF Forward, SizeFollows
  <2>2. d = c
    BY <2>1 DEF SizeFor
  <2>3. /\ UNCHANGED <<size, published, local, phase, seen>>
        /\ \A r \in Channels \ {c} : loop'[r] = loop[r]
        /\ remote'[c] = IF c = published /\ remote[c].size # None
                        THEN [remote[c] EXCEPT !.size = local[c]] ELSE remote[c]
    BY <1>6, <2>2 DEF Forward, TypeOK
  <2>4. phase[c] = "request" => seen[c].size = local[c] \/ missed'[c] = TRUE
    BY <1>6, <2>2 DEF Forward, TypeOK
  <2>5. phase[c] = "running" /\ remote'[c].size # None => remote'[c].size = local[c]
    <3> SUFFICES ASSUME phase[c] = "running", remote'[c].size # None
                 PROVE  remote'[c].size = local[c]
      OBVIOUS
    <3>1. published = c /\ remote[c].size # None
      BY <2>1, <2>3 DEF SizeFor
    <3>2. remote'[c] = [remote[c] EXCEPT !.size = local[c]] /\ remote[c] \in Remote
      BY <2>3, <3>1 DEF TypeOK, Remote
    <3> QED
      BY <3>2 DEF Remote
  <2> QED
    BY <2>1, <2>3, <2>4, <2>5 DEF SizeFor
<1>7. ASSUME NEW d \in Channels, ReceiveShell(d) PROVE SizeFor(c)'
  <2>1. d = c /\ SizeFor(c)
    BY <1>7, AnsweredActive DEF ReceiveShell, SizeFollows
  <2>2. /\ UNCHANGED <<size, published, loop, local, seen, remote, missed>>
        /\ phase'[c] = phase[c] \/ (phase[c] = "none" /\ phase'[c] = "route")
        /\ \A r \in Channels \ {c} : phase'[r] = phase[r]
    BY <1>7, <2>1 DEF ReceiveShell, TypeOK
  <2> QED
    BY <2>1, <2>2 DEF SizeFor
<1>8. ASSUME NEW d \in Channels, NEW type, ReceiveUnsupported(d, type) PROVE SizeFor(c)'
  BY <1>0, <1>8, AnsweredActive DEF ReceiveUnsupported, SizeFollows
<1>9. ASSUME NEW d \in Channels, Session(d) PROVE SizeFor(c)'
  <2>1. SizeFor(c) /\ UNCHANGED <<size, loop, local, missed>>
    BY <1>9 DEF Session, Route, Publish, ApplyEnv, ReadPTY, StartShell, End, SizeFollows
  <2>2. phase[d] # "none"
    BY <1>9 DEF Session, Route, Publish, ApplyEnv, ReadPTY, StartShell, End
  <2>3. d = c
    BY <2>1, <2>2 DEF SizeFor
  <2>4. \A r \in Channels \ {c} : phase'[r] = phase[r]
    BY <1>9, <2>3 DEF Session, Route, Publish, ApplyEnv, ReadPTY, StartShell, End, TypeOK
  <2>5. CASE Route(c)
    <3>1. /\ phase[c] = "route" /\ phase'[c] \in {"dial", "over"}
          /\ UNCHANGED <<published, seen, remote>>
      BY <2>5 DEF Route, TypeOK
    <3> QED
      BY <2>1, <2>4, <3>1 DEF SizeFor
  <2>6. CASE Publish(c)
    <3>1. phase[c] = "dial" /\ phase'[c] = "env" /\ published' = c /\ UNCHANGED remote
      BY <2>6 DEF Publish, TypeOK
    <3> QED
      BY <2>1, <2>4, <3>1 DEF SizeFor
  <2>7. CASE ApplyEnv(c)
    <3>1. /\ phase[c] = "env" /\ phase'[c] = "pty" /\ UNCHANGED published
          /\ remote' = [remote EXCEPT ![c].env = env["LANG"]]
      BY <2>7 DEF ApplyEnv, TypeOK
    <3>2. remote'[c].size = remote[c].size
      BY <3>1 DEF TypeOK
    <3> QED
      BY <2>1, <2>4, <3>1, <3>2 DEF SizeFor
  <2>8. CASE ReadPTY(c)
    <3>1. /\ phase[c] = "pty" /\ phase'[c] = "request" /\ UNCHANGED published
          /\ seen'[c].size = size /\ UNCHANGED remote
      BY <2>8 DEF ReadPTY, TypeOK
    <3> QED
      BY <2>1, <2>4, <3>1 DEF SizeFor
  <2>9. CASE StartShell(c)
    <3>1. /\ phase[c] = "request" /\ phase'[c] = "running" /\ UNCHANGED published
          /\ remote' = [remote EXCEPT ![c].size = IF seen[c].term THEN Shown(seen[c].size) ELSE @]
      BY <2>9 DEF StartShell, TypeOK
    <3>2. remote'[c].size = IF seen[c].term THEN Shown(seen[c].size) ELSE remote[c].size
      BY <3>1 DEF TypeOK
    <3>3. ~seen[c].term => remote[c].size = None
      BY <2>1, <3>1 DEF SizeFor
    <3> QED
      BY <2>1, <2>4, <3>1, <3>2, <3>3 DEF SizeFor
  <2>10. CASE End(c)
    <3>1. phase'[c] = "over" /\ published' \in {published, None}
      BY <2>10 DEF End, TypeOK
    <3> QED
      BY <2>1, <2>4, <3>1 DEF SizeFor
  <2> QED
    BY <1>9, <2>3, <2>5, <2>6, <2>7, <2>8, <2>9, <2>10 DEF Session
<1> QED
  BY <1>1, <1>2, <1>3, <1>4, <1>5, <1>6, <1>7, <1>8, <1>9 DEF Next, Request

(* While its client uses one channel, a running shell has the size that the  *)
(* client gave it last, or the change fell between PTY() and RequestPty      *)
(* (server.go:290-302, 549, 557).                                            *)
THEOREM SizeIsCurrent == Spec => []StaleOnlyByRace
<1>1. Init => SizeFollows
  BY DEF Init, SizeFollows, SizeFor
<1>2. TypeOK /\ SizeFollows /\ [Next]_vars => SizeFollows'
  BY SizeStep
<1>3. SizeFollows => StaleOnlyByRace
  BY DEF SizeFollows, SizeFor, StaleOnlyByRace, Alone
<1> QED
  BY <1>1, <1>2, <1>3, TypeCorrect, PTL DEF Spec
------------------------------------------------------------------------------
(* Replies *)

\* No request among the first i wanted a reply to a variable.
NoEnv(requests, i) == \A j \in 1 .. i : requests[j] # "env"

(* The replies of a channel are one for each request up to its first env     *)
(* request, and among those no subsystem was accepted.                       *)
InStep(requests, given) ==
  /\ requests \in Seq(Wants)
  /\ given \in Seq(BOOLEAN)
  /\ NoEnv(requests, Len(requests)) => Len(given) = Len(requests)
  /\ \A i \in 1 .. Len(requests) :
       requests[i] = "subsystem" /\ NoEnv(requests, i) => i \in 1 .. Len(given) /\ ~given[i]

RepliesInStep ==
  /\ wanted \in [Channels -> Seq(Wants)]
  /\ replies \in [Channels -> Seq(BOOLEAN)]
  /\ \A c \in Channels : InStep(wanted[c], replies[c])

(* A request that is answered once keeps the replies in step.                *)
LEMMA OneReply ==
  ASSUME NEW requests, NEW given, InStep(requests, given),
         NEW type \in Wants, type # "env",
         NEW yes \in BOOLEAN, type = "subsystem" => ~yes
  PROVE  InStep(Append(requests, type), given \o <<yes>>)
<1> DEFINE more == Append(requests, type)
           all == Append(given, yes)
<1>1. given \o <<yes>> = all
  BY AppendIsConcat DEF InStep
<1>2. /\ more \in Seq(Wants) /\ Len(more) = Len(requests) + 1
      /\ \A i \in 1 .. Len(requests) : more[i] = requests[i]
      /\ more[Len(requests) + 1] = type /\ Len(requests) \in Nat
  BY DEF InStep
<1>3. /\ all \in Seq(BOOLEAN) /\ Len(all) = Len(given) + 1
      /\ \A i \in 1 .. Len(given) : all[i] = given[i]
      /\ all[Len(given) + 1] = yes /\ Len(given) \in Nat
  BY DEF InStep
<1> HIDE DEF more, all
<1>4. ASSUME NEW i \in 1 .. Len(requests) + 1, NoEnv(more, i) PROVE NoEnv(requests, i - 1)
  BY <1>2, <1>4 DEF NoEnv
<1>5. NoEnv(more, Len(more)) => Len(all) = Len(more)
  BY <1>2, <1>3, <1>4 DEF InStep
<1>6. ASSUME NEW i \in 1 .. Len(more), more[i] = "subsystem", NoEnv(more, i)
      PROVE  i \in 1 .. Len(all) /\ ~all[i]
  <2>1. CASE i \in 1 .. Len(requests)
    <3>1. NoEnv(requests, i) /\ requests[i] = "subsystem"
      BY <1>2, <1>6, <2>1 DEF NoEnv
    <3> QED
      BY <1>3, <2>1, <3>1 DEF InStep
  <2>2. CASE i = Len(requests) + 1
    <3>1. Len(given) = Len(requests)
      BY <1>2, <1>4, <1>6, <2>2 DEF InStep
    <3> QED
      BY <1>2, <1>3, <1>6, <2>2, <3>1
  <2> QED
    BY <1>2, <2>1, <2>2
<1> QED
  BY <1>1, <1>2, <1>3, <1>5, <1>6 DEF InStep, more

(* After an env request nothing is claimed, but what came before stays.      *)
LEMMA TwoReplies ==
  ASSUME NEW requests, NEW given, InStep(requests, given), "env" \in Wants,
         NEW yes \in BOOLEAN, NEW again \in BOOLEAN
  PROVE  InStep(Append(requests, "env"), given \o <<yes, again>>)
<1> DEFINE more == Append(requests, "env")
           all == given \o <<yes, again>>
<1>1. /\ more \in Seq(Wants) /\ Len(more) = Len(requests) + 1
      /\ \A i \in 1 .. Len(requests) : more[i] = requests[i]
      /\ more[Len(requests) + 1] = "env" /\ Len(requests) \in Nat
  BY DEF InStep
<1>2. <<yes, again>> \in Seq(BOOLEAN) /\ Len(<<yes, again>>) = 2 /\ Len(given) \in Nat
  BY DEF InStep
<1>3. /\ all \in Seq(BOOLEAN) /\ Len(all) = Len(given) + 2
      /\ \A i \in 1 .. Len(given) : all[i] = given[i]
  BY <1>2, ConcatProperties DEF InStep
<1> HIDE DEF more, all
<1>4. ~NoEnv(more, Len(more))
  BY <1>1 DEF NoEnv
<1>5. ASSUME NEW i \in 1 .. Len(more), more[i] = "subsystem", NoEnv(more, i)
      PROVE  i \in 1 .. Len(all) /\ ~all[i]
  <2>1. i \in 1 .. Len(requests)
    BY <1>1, <1>5
  <2>2. NoEnv(requests, i) /\ requests[i] = "subsystem"
    BY <1>1, <1>5, <2>1 DEF NoEnv
  <2> QED
    BY <1>3, <2>1, <2>2 DEF InStep
<1> QED
  BY <1>1, <1>3, <1>4, <1>5 DEF InStep, more, all

(* So it is for the channel whose request is answered, and for the others.   *)
LEMMA AnsweredInStep ==
  ASSUME RepliesInStep, NEW c \in Channels, NEW type, NEW given, Answered(c, type, given),
         type \in Wants => InStep(Append(wanted[c], type), replies[c] \o given)
  PROVE  RepliesInStep'
<1>1. CASE type \in Wants
  <2>1. /\ wanted' = [wanted EXCEPT ![c] = Append(wanted[c], type)]
        /\ replies' = [replies EXCEPT ![c] = replies[c] \o given]
    BY <1>1 DEF Answered
  <2>2. Append(wanted[c], type) \in Seq(Wants) /\ replies[c] \o given \in Seq(BOOLEAN)
    BY <1>1 DEF InStep
  <2> QED
    BY <1>1, <2>1, <2>2 DEF RepliesInStep
<1>2. CASE type \notin Wants
  <2>1. wanted' = wanted /\ replies' = replies
    BY <1>2 DEF Answered, RepliesInStep
  <2> QED
    BY <2>1 DEF RepliesInStep
<1> QED
  BY <1>1, <1>2

(* Every step keeps RepliesInStep: env requests alone are answered twice.    *)
LEMMA RepliesStep ==
  ASSUME RepliesInStep, [Next]_vars
  PROVE  RepliesInStep'
<1>1. ASSUME UNCHANGED <<wanted, replies>> PROVE RepliesInStep'
  BY <1>1 DEF RepliesInStep
<1>2. ASSUME NEW c \in Channels, Request(c) PROVE RepliesInStep'
  <2>1. InStep(wanted[c], replies[c])
    BY DEF RepliesInStep
  <2>2. ASSUME NEW type, NEW yes \in BOOLEAN, Answered(c, type, <<yes>>),
               type # "env", type = "subsystem" => ~yes
        PROVE  RepliesInStep'
    BY <2>1, <2>2, OneReply, AnsweredInStep
  <2>3. ASSUME NEW n \in Names, NEW v \in Values \cup {None}, ReceiveEnv(c, n, v)
        PROVE  RepliesInStep'
    <3>1. Answered(c, "env", <<Accepts(n, v), TRUE>>) /\ Accepts(n, v) \in BOOLEAN
      BY <2>3 DEF ReceiveEnv, Accepts
    <3> QED
      BY <2>1, <3>1, TwoReplies, AnsweredInStep
  <2>4. ASSUME NEW named \in BOOLEAN, NEW z \in Sizes, ReceivePty(c, named, z)
        PROVE  RepliesInStep'
    BY <2>2, <2>4 DEF ReceivePty
  <2>5. ASSUME NEW z \in Sizes \cup {None}, ReceiveResize(c, z) PROVE RepliesInStep'
    BY <2>2, <2>5 DEF ReceiveResize
  <2>6. CASE Forward(c)
    BY <1>1, <2>6 DEF Forward, answers
  <2>7. CASE ReceiveShell(c)
    <3>1. Answered(c, "shell", <<phase[c] = "none">>) /\ (phase[c] = "none") \in BOOLEAN
      BY <2>7 DEF ReceiveShell
    <3> QED
      BY <2>2, <3>1
  <2>8. ASSUME NEW type \in {"subsystem", "pty-req"}, ReceiveUnsupported(c, type)
        PROVE  RepliesInStep'
    BY <2>2, <2>8 DEF ReceiveUnsupported
  <2> QED
    BY <1>2, <2>3, <2>4, <2>5, <2>6, <2>7, <2>8 DEF Request
<1>3. ASSUME NEW c \in Channels, Session(c) PROVE RepliesInStep'
  BY <1>1, <1>3 DEF Session, Route, Publish, ApplyEnv, ReadPTY, StartShell, End, answers
<1>4. ASSUME NEW n \in Names, NEW v \in Values \cup {None}, ReceiveGlobalEnv(n, v)
      PROVE  RepliesInStep'
  BY <1>1, <1>4 DEF ReceiveGlobalEnv
<1>5. CASE Idle \/ UNCHANGED vars
  BY <1>1, <1>5 DEF Idle, vars, answers
<1> QED
  BY <1>2, <1>3, <1>4, <1>5 DEF Next

(* Up to the first env request of a channel that wants a reply, every reply  *)
(* answers its own request, however sessions and channels interleave         *)
(* (server.go:240-241, 315).                                                 *)
THEOREM OnlyEnvIsAnsweredTwice == Spec => []RepliesInStep
<1>1. Init => RepliesInStep
  BY DEF Init, RepliesInStep, InStep
<1>2. RepliesInStep /\ [Next]_vars => RepliesInStep'
  BY RepliesStep
<1> QED
  BY <1>1, <1>2, PTL DEF Spec

(* A client that wants no replies to its variables is never told that a      *)
(* subsystem it asked for was accepted: the second answer to an env request  *)
(* is the only cause of what run "replies" shows (server.go:240-241, 305).   *)
THEOREM UnsupportedIsRejected ==
  ASSUME "env" \notin Wants
  PROVE  Spec => []UnsupportedRejected
<1>1. RepliesInStep => UnsupportedRejected
  <2> SUFFICES ASSUME RepliesInStep, NEW c \in Channels, NEW i \in DOMAIN wanted[c],
                      wanted[c][i] = "subsystem"
               PROVE  ~replies[c][i]
    BY DEF UnsupportedRejected
  <2>1. InStep(wanted[c], replies[c]) /\ i \in 1 .. Len(wanted[c])
    BY DEF RepliesInStep, InStep
  <2>2. NoEnv(wanted[c], i)
    BY <2>1 DEF NoEnv, InStep
  <2> QED
    BY <2>1, <2>2 DEF InStep
<1> QED
  BY <1>1, OnlyEnvIsAnsweredTwice, PTL
==============================================================================
