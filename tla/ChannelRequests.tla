--------------------------- MODULE ChannelRequests ---------------------------
(***************************************************************************)
(* The requests that the channels of ONE connection send to handleChannel  *)
(* (server.go:229-318), what they change in the SessionState the channels  *)
(* share (types.go), and how each session goroutine reads it: the server   *)
(* named by LC_SSH_SERVER, the variables for the target, the terminal.     *)
(*                                                                         *)
(* ProxyConnection models the life of channels and sessions; this module   *)
(* models the values, and only those steps of a session that read them.    *)
(***************************************************************************)
EXTENDS Naturals, Sequences

CONSTANTS
  Channels,    \* session channels of the connection
  Values,      \* values of environment variables; each is a valid target too
  Sizes,       \* terminal sizes, 0 for the size nobody has set
  Wants,       \* the types of request to which the client wants replies
  Static,      \* static routing: LC_SSH_SERVER is ignored
  None,        \* no value, a nil pointer, or a payload that does not parse
  MaxRequests  \* bound: requests handled

ASSUME NoneAssumption == None \notin Values \cup Nat \cup Channels
ASSUME SizesAssumption == Sizes \subseteq Nat /\ 0 \in Sizes
ASSUME BoundAssumption == MaxRequests \in Nat /\ Static \in BOOLEAN

VARIABLES
  env,        \* SessionState.EnvVars
  term,       \* SessionState.PtyTerm is not empty
  size,       \* SessionState.PtyCols and PtyRows
  published,  \* SessionState.TargetSession: whose?
  loop,       \* the request loop: "reading", or "resized" within window-change
  local,      \* its variables cols and rows
  phase,      \* the session goroutine
  seen,       \* what PTY() returned to it
  target,     \* the server it connects to
  remote,     \* what the target session was given: a variable, a terminal
  fresh,      \* history: the values a session may still have to honour
  granted,    \* history: the answers to pty-req a session may still have to honour
  missed,     \* history: a size came after PTY(), before RequestPty
  active,     \* history: the channels that have sent a request
  wanted,     \* history: the requests of a channel that wanted replies
  replies,    \* history: the replies on a channel
  handled     \* number of requests handled

state == <<env, term, size, published>>
session == <<phase, seen, target, remote>>
history == <<fresh, granted, missed>>
answers == <<active, wanted, replies, handled>>
vars == <<state, loop, local, session, history, answers>>

\* LC_SSH_SERVER and a variable that is passed on to the target.
Names == {"LC_SSH_SERVER", "LANG"}

\* Points of proxySession: before the target is chosen, before the session is
\* published, before the variables and then the terminal are read, and then
\* requested.
Phases == {"none", "route", "dial", "env", "pty", "request", "running", "over"}

TypeOK ==
  /\ env \in [Names -> Values \cup {None}]
  /\ term \in BOOLEAN
  /\ size \in Sizes
  /\ published \in Channels \cup {None}
  /\ loop \in [Channels -> {"reading", "resized"}]
  /\ local \in [Channels -> Sizes]
  /\ phase \in [Channels -> Phases]
  /\ seen \in [Channels -> [term : BOOLEAN, size : Sizes]]
  /\ target \in [Channels -> Values \cup {None}]
  /\ remote \in [Channels -> [env : Values \cup {None}, size : Nat \cup {None}]]
  /\ fresh \in [Channels -> [Names -> SUBSET Values]]
  /\ granted \in [Channels -> SUBSET BOOLEAN]
  /\ missed \in [Channels -> BOOLEAN]
  /\ active \subseteq Channels
  /\ handled \in 0 .. MaxRequests

Init ==
  /\ env = [n \in Names |-> None]
  /\ term = FALSE
  /\ size = 0
  /\ published = None
  /\ loop = [c \in Channels |-> "reading"]
  /\ local = [c \in Channels |-> 0]
  /\ phase = [c \in Channels |-> "none"]
  /\ seen = [c \in Channels |-> [term |-> FALSE, size |-> 0]]
  /\ target = [c \in Channels |-> None]
  /\ remote = [c \in Channels |-> [env |-> None, size |-> None]]
  /\ fresh = [c \in Channels |-> [n \in Names |-> {}]]
  /\ granted = [c \in Channels |-> {}]
  /\ missed = [c \in Channels |-> FALSE]
  /\ active = {}
  /\ wanted = [c \in Channels |-> <<>>]
  /\ replies = [c \in Channels |-> <<>>]
  /\ handled = 0

------------------------------------------------------------------------------
(* Environment variables *)

\* The session of c has read the variable n.
HasRead(c, n) ==
  phase[c] \notin {"none", "route"} \cup (IF n = "LANG" THEN {"dial", "env"} ELSE {})

\* History: v was accepted for n from channel d (or from no channel).  A value
\* that a channel sends before its shell replaces those before it; any value
\* that comes while the session has yet to read the variable may be read too.
Offered(d, n, v) ==
  fresh' = [c \in Channels |->
    IF HasRead(c, n) THEN fresh[c]
    ELSE [fresh[c] EXCEPT ![n] = IF c = d /\ phase[c] = "none" THEN {v} ELSE @ \cup {v}]]

\* Mutant: the first value of a variable is kept.
SetEnvVarOnce(n, v) == env' = [env EXCEPT ![n] = IF @ = None THEN v ELSE @]

SetEnvVar(n, v) == env' = [env EXCEPT ![n] = v]

\* handleEnvRequest: a payload that does not parse is refused, and so is an
\* LC_SSH_SERVER that does not resolve; with static routing it is ignored.
Stores(n, v) == v # None /\ ~(n = "LC_SSH_SERVER" /\ Static)
Accepts(n, v) == v # None \/ (n = "LC_SSH_SERVER" /\ Static)

HandleEnv(d, n, v) ==
  \/ /\ Stores(n, v)
     /\ SetEnvVar(n, v)
     /\ Offered(d, n, v)
     /\ UNCHANGED <<term, size, published, loop, local, session, granted, missed>>
  \/ /\ ~Stores(n, v)
     /\ UNCHANGED <<state, loop, local, session, history>>

------------------------------------------------------------------------------
(* The request loop of a channel *)

\* One request more is handled, one of a type that got these replies; nothing
\* is sent if the client wants none.
Answered(c, type, given) ==
  /\ handled < MaxRequests
  /\ handled' = handled + 1
  /\ active' = active \cup {c}
  /\ wanted' = [wanted EXCEPT ![c] = IF type \in Wants THEN Append(@, type) ELSE @]
  /\ replies' = [replies EXCEPT ![c] = IF type \in Wants THEN @ \o given ELSE @]

\* handleEnvRequest has replied already when the loop replies once more.
ReceiveEnv(c, n, v) ==
  /\ loop[c] = "reading"
  /\ HandleEnv(c, n, v)
  /\ Answered(c, "env", <<Accepts(n, v), TRUE>>)

\* handleGlobalRequests takes variables too, and replies once.
ReceiveGlobalEnv(n, v) ==
  /\ HandleEnv(None, n, v)
  /\ handled < MaxRequests /\ handled' = handled + 1
  /\ UNCHANGED <<active, wanted, replies>>

\* The session of c has read the terminal.
HasReadTerminal(c) == phase[c] \in {"request", "running", "over"}

\* History: a terminal was granted to d, or, without a name, taken from it.  What
\* a channel asks for before its shell replaces what it asked for before; any
\* request that comes while the session has yet to read the terminal may count.
Granted(d, named) ==
  granted' = [c \in Channels |->
    IF HasReadTerminal(c) THEN granted[c]
    ELSE IF c = d /\ phase[c] = "none" THEN {named}
    ELSE granted[c] \cup {named}]

\* Mutant: only the loop's own variables take the terminal.
ReceivePtyForLoop(c, named, z) ==
  /\ loop[c] = "reading"
  /\ local' = [local EXCEPT ![c] = z]
  /\ Granted(c, named)
  /\ Answered(c, "pty-req", <<TRUE>>)
  /\ UNCHANGED <<state, loop, session, fresh, missed>>

\* SetPTY, and the loop's own variables; the terminal's name may be empty.
ReceivePty(c, named, z) ==
  /\ loop[c] = "reading"
  /\ term' = named
  /\ size' = z
  /\ local' = [local EXCEPT ![c] = z]
  /\ Granted(c, named)
  /\ missed' = [missed EXCEPT ![c] = @ \/ phase[c] \in {"request", "running"}]
  /\ Answered(c, "pty-req", <<TRUE>>)
  /\ UNCHANGED <<env, published, loop, session, fresh>>

\* Mutant: the size is for the target alone, the SessionState keeps the old.
ReceiveResizeForTarget(c, z) ==
  /\ loop[c] = "reading"
  /\ local' = [local EXCEPT ![c] = IF z = None THEN @ ELSE z]
  /\ loop' = [loop EXCEPT ![c] = "resized"]
  /\ Answered(c, "window-change", <<TRUE>>)
  /\ UNCHANGED <<state, session, history>>

\* Mutant: a payload is not checked before it is read.
ReceiveResizeUnchecked(c, z) ==
  /\ loop[c] = "reading"
  /\ local' = [local EXCEPT ![c] = z]
  /\ size' = z
  /\ loop' = [loop EXCEPT ![c] = "resized"]
  /\ Answered(c, "window-change", <<TRUE>>)
  /\ UNCHANGED <<env, term, published, session, history>>

\* parseWindowChange: a short payload leaves the variables as they are.
WindowSize(c, z) == IF z = None THEN local[c] ELSE z

ReceiveResize(c, z) ==
  /\ loop[c] = "reading"
  /\ local' = [local EXCEPT ![c] = WindowSize(c, z)]
  /\ size' = WindowSize(c, z)
  /\ loop' = [loop EXCEPT ![c] = "resized"]
  /\ Answered(c, "window-change", <<TRUE>>)
  /\ UNCHANGED <<env, term, published, session, history>>

\* ... and then the size goes to whatever TargetSession is published; a target
\* that has granted no terminal ignores it.
Forward(c) ==
  /\ loop[c] = "resized"
  /\ loop' = [loop EXCEPT ![c] = "reading"]
  /\ remote' = [d \in Channels |->
       IF d = published /\ remote[d].size # None
       THEN [remote[d] EXCEPT !.size = local[c]] ELSE remote[d]]
  /\ missed' = [missed EXCEPT ![c] = phase[c] # "running" /\
       (@ \/ (phase[c] = "request" /\ seen[c].size # local[c]))]
  /\ UNCHANGED <<state, local, phase, seen, target, fresh, granted, answers>>

\* "shell"; "exec" starts the session in the same way.
ReceiveShell(c) ==
  /\ loop[c] = "reading"
  /\ Answered(c, "shell", <<phase[c] = "none">>)
  /\ phase' = [phase EXCEPT ![c] = IF @ = "none" THEN "route" ELSE @]
  /\ UNCHANGED <<state, loop, local, seen, target, remote, history>>

\* A subsystem, a request of another type, or a terminal that does not parse.
ReceiveUnsupported(c, type) ==
  /\ loop[c] = "reading"
  /\ Answered(c, type, <<FALSE>>)
  /\ UNCHANGED <<state, loop, local, session, history>>

------------------------------------------------------------------------------
(* The session goroutine: proxySession *)

\* resolveTargetCandidates: static servers, or the one in LC_SSH_SERVER.
Route(c) ==
  /\ phase[c] = "route"
  /\ phase' = [phase EXCEPT ![c] = IF Static \/ env["LC_SSH_SERVER"] # None
                                   THEN "dial" ELSE "over"]
  /\ target' = [target EXCEPT ![c] = env["LC_SSH_SERVER"]]
  /\ UNCHANGED <<state, loop, local, seen, remote, history, answers>>

\* The target is reached and SetTargetSession publishes its session.
Publish(c) ==
  /\ phase[c] = "dial"
  /\ phase' = [phase EXCEPT ![c] = "env"]
  /\ published' = c
  /\ UNCHANGED <<env, term, size, loop, local, seen, target, remote, history, answers>>

\* applySessionEnv(EnvVarsSnapshot()): all variables but LC_SSH_SERVER.
ApplyEnv(c) ==
  /\ phase[c] = "env"
  /\ phase' = [phase EXCEPT ![c] = "pty"]
  /\ remote' = [remote EXCEPT ![c].env = env["LANG"]]
  /\ UNCHANGED <<state, loop, local, seen, target, history, answers>>

ReadPTY(c) ==
  /\ phase[c] = "pty"
  /\ phase' = [phase EXCEPT ![c] = "request"]
  /\ seen' = [seen EXCEPT ![c] = [term |-> term, size |-> size]]
  /\ UNCHANGED <<state, loop, local, target, remote, history, answers>>

\* Columns and rows that nobody has set become 80 and 24.
Default == 8024
Shown(z) == IF z = 0 THEN Default ELSE z

\* RequestPty if there is a terminal, then Shell.
StartShell(c) ==
  /\ phase[c] = "request"
  /\ phase' = [phase EXCEPT ![c] = "running"]
  /\ remote' = [remote EXCEPT ![c].size = IF seen[c].term THEN Shown(seen[c].size) ELSE @]
  /\ UNCHANGED <<state, loop, local, seen, target, history, answers>>

\* Any step fails or the remote shell ends; the pointer is cleared if it was set.
End(c) ==
  /\ phase[c] \in {"dial", "env", "pty", "request", "running"}
  /\ phase' = [phase EXCEPT ![c] = "over"]
  /\ published' = IF phase[c] = "dial" THEN published ELSE None
  /\ UNCHANGED <<env, term, size, loop, local, seen, target, remote, history, answers>>

Request(c) ==
  \/ \E n \in Names, v \in Values \cup {None} : ReceiveEnv(c, n, v)
  \/ \E named \in BOOLEAN, z \in Sizes : ReceivePty(c, named, z)
  \/ \E z \in Sizes \cup {None} : ReceiveResize(c, z)
  \/ Forward(c)
  \/ ReceiveShell(c)
  \/ \E type \in {"subsystem", "pty-req"} : ReceiveUnsupported(c, type)

Session(c) ==
  \/ Route(c) \/ Publish(c) \/ ApplyEnv(c) \/ ReadPTY(c) \/ StartShell(c) \/ End(c)

\* The client asks for nothing more and every session is over.
Idle ==
  /\ handled = MaxRequests
  /\ \A c \in Channels : loop[c] = "reading" /\ phase[c] \in {"none", "over"}
  /\ UNCHANGED vars

Next ==
  \/ \E c \in Channels : Request(c) \/ Session(c)
  \/ \E n \in Names, v \in Values \cup {None} : ReceiveGlobalEnv(n, v)
  \/ Idle

Spec == Init /\ [][Next]_vars

------------------------------------------------------------------------------
(* Properties *)

\* A session goes to a server that its client named, and fails for want of a
\* server only if nobody had named one.
RouteFresh ==
  ~Static => \A c \in Channels :
    /\ target[c] # None => target[c] \in fresh[c]["LC_SSH_SERVER"]
    /\ phase[c] = "over" /\ target[c] = None => fresh[c]["LC_SSH_SERVER"] = {}

\* The target is given a variable if one was accepted.
EnvFresh ==
  \A c \in Channels : phase[c] \in {"pty", "request", "running"} =>
    IF fresh[c]["LANG"] = {} THEN remote[c].env = None
    ELSE remote[c].env \in fresh[c]["LANG"]

\* However requests and sessions of the connection interleave, no session goes to
\* a server, or passes on the value of a variable, that its client had already
\* replaced by another on this channel when it asked for the shell; and nothing
\* that was accepted before is lost (server.go:240, 469-477, 547, 594).
VariablesFresh == RouteFresh /\ EnvFresh

\* No other channel of the connection has sent a request.
Alone(c) == active = {c}

\* However requests and sessions of the connection interleave, the shell runs on
\* a terminal if and only if a request that its channel had not itself replaced
\* when it asked for the shell says so: without any pty-req there is none, and a
\* terminal granted to the channel before the shell is lost only through a later
\* pty-req, be it another channel's (server.go:280-288, 549-560).
TerminalGranted ==
  \A c \in Channels : phase[c] = "running" =>
    IF granted[c] = {} THEN remote[c].size = None
    ELSE (remote[c].size # None) \in granted[c]

\* Without other channels, the target's terminal has the size the client gave
\* it last: no resize is lost or overtaken before, during or after the set-up
\* of the session, save one that falls between PTY() and RequestPty, and the
\* next resize makes good for that one (server.go:290-302, 549, 557).
StaleOnlyByRace ==
  \A c \in Channels :
    phase[c] = "running" /\ loop[c] = "reading" /\ Alone(c) /\ remote[c].size # None
      => remote[c].size \in {local[c], Shown(local[c])} \/ missed[c]

\* What a client makes of the replies on a channel: the first answers its first
\* request, and so on.  No client is told that a subsystem it asked for was
\* accepted (server.go:305, IMPLEMENTATION.md:237).
UnsupportedRejected ==
  \A c \in Channels : \A i \in DOMAIN wanted[c] :
    wanted[c][i] = "subsystem" /\ i \in DOMAIN replies[c] => ~replies[c][i]
==============================================================================
