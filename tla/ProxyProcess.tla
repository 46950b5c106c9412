---------------------------- MODULE ProxyProcess -----------------------------
(***************************************************************************)
(* Processes of the proxy on one host (main.go, hostkey.go): each start of *)
(* the program loads the configuration, loads or generates the host key,   *)
(* takes its ports and serves, until it fails or is killed.  A restart is  *)
(* another element of Procs.  What they share is the file of the host key  *)
(* and the ports.                                                          *)
(***************************************************************************)
EXTENDS StartupConfig, ClientAuth

CONSTANTS
  Procs,   \* starts of the program
  None,    \* nobody
  Lines,   \* pem.Encode writes the key line by line, and so many
  Inputs   \* the configurations, environments and files to start with

ASSUME ProcsAssumption == None \notin Procs
ASSUME MissingAssumption == Missing \notin Seq(Procs)
ASSUME LinesAssumption == Lines \in Nat \ {0}
ASSUME InputsAssumption ==
  Inputs \subseteq [raw : RawConfigs(Files), env : STRING, lines : Files, client : Keys]

VARIABLES
  input,       \* an element of Inputs
  keyFile,     \* Missing, or whose key each line of the host key file is from
  pc,
  next,        \* the line that a process writes next
  key,         \* the process whose key this process has
  port,        \* who listens on the port for metrics and that for SSH
  generators,  \* history: the processes that began to write a key
  admitted     \* history: what became of the client's key

vars == <<input, keyFile, pc, next, key, port, generators, admitted>>

Ports == {"metrics", "ssh"}

\* The input is one of Inputs and no step changes it.
TypeOK ==
  /\ keyFile = Missing \/ keyFile \in Seq(Procs)
  /\ pc \in [Procs -> {"new", "stat", "read", "generate", "write", "metrics",
                       "listen", "serving", "exited"}]
  /\ next \in [Procs -> 1 .. Lines]
  /\ key \in [Procs -> Procs \cup {None}]
  /\ port \in [Ports -> Procs \cup {None}]
  /\ generators \subseteq Procs
  /\ admitted \in {"unknown", "yes", "no"}

Init ==
  /\ input \in Inputs
  /\ keyFile = Missing
  /\ pc = [p \in Procs |-> "new"]
  /\ next = [p \in Procs |-> 1]
  /\ key = [p \in Procs |-> None]
  /\ port = [x \in Ports |-> None]
  /\ generators = {}
  /\ admitted = "unknown"

Config == Load(input.raw, input.env)
TrustedCAs == TrustedCACerts(Config.cas)

Goto(p, from, to) == pc[p] = from /\ pc' = [pc EXCEPT ![p] = to]

\* log.Fatal, or the process is killed: its ports are free again.
Exit(p) ==
  /\ pc' = [pc EXCEPT ![p] = "exited"]
  /\ port' = [x \in Ports |-> IF port[x] = p THEN None ELSE port[x]]

Crash(p) ==
  /\ pc[p] \notin {"new", "exited"}
  /\ Exit(p)
  /\ UNCHANGED <<input, keyFile, next, key, generators, admitted>>

------------------------------------------------------------------------------
(* Configuration *)

\* main looks at the files of CAs once the configuration is read.
Starts(in) ==
  /\ Loads(in.raw, in.env)
  /\ LoadsTrustedCACerts(Load(in.raw, in.env).cas)
  /\ LoadsTrustedCACerts(Load(in.raw, in.env).hostCAs)

LoadConfig(p) ==
  /\ Starts(input)
  /\ Goto(p, "new", "stat")
  /\ UNCHANGED <<input, keyFile, next, key, port, generators, admitted>>

LoadFails(p) ==
  /\ ~Starts(input)
  /\ Goto(p, "new", "exited")
  /\ UNCHANGED <<input, keyFile, next, key, port, generators, admitted>>

------------------------------------------------------------------------------
(* LoadOrGenerateHostKey *)

\* The whole key of q: a file in which lines of two keys are mixed, or that
\* ends early, does not parse.
WholeKey(q) == keyFile = [i \in 1 .. Lines |-> q]

\* os.Stat
FindKey(p) ==
  /\ keyFile # Missing
  /\ Goto(p, "stat", "read")
  /\ UNCHANGED <<input, keyFile, next, key, port, generators, admitted>>

FindNoKey(p) ==
  /\ keyFile = Missing
  /\ Goto(p, "stat", "generate")
  /\ UNCHANGED <<input, keyFile, next, key, port, generators, admitted>>

ReadKey(p) ==
  /\ Goto(p, "read", "metrics")
  /\ \E q \in Procs : WholeKey(q) /\ key' = [key EXCEPT ![p] = q]
  /\ UNCHANGED <<input, keyFile, next, port, generators, admitted>>

ReadFails(p) ==
  /\ Goto(p, "read", "exited")
  /\ \A q \in Procs : ~WholeKey(q)
  /\ UNCHANGED <<input, keyFile, next, key, port, generators, admitted>>

\* os.OpenFile with O_CREATE: what the file holds already stays.
OpenKeyFile(p) ==
  /\ keyFile' = IF keyFile = Missing THEN <<>> ELSE keyFile
  /\ generators' = generators \cup {p}
  /\ Goto(p, "generate", "write")
  /\ UNCHANGED <<input, next, key, port, admitted>>

\* Mutant: the end of the key is missed.
WriteLineBeyond(p) ==
  /\ Goto(p, "write", IF next[p] <= Lines THEN "write" ELSE "metrics")
  /\ keyFile' = [i \in 1 .. Len(keyFile) \cup {next[p]} |->
                   IF i = next[p] THEN p ELSE keyFile[i]]
  /\ next' = [next EXCEPT ![p] = @ + 1]
  /\ key' = IF next[p] < Lines THEN key ELSE [key EXCEPT ![p] = p]
  /\ UNCHANGED <<input, port, generators, admitted>>

\* Each process writes at its own offset, over what another may have written.
WriteLine(p) ==
  /\ Goto(p, "write", IF next[p] < Lines THEN "write" ELSE "metrics")
  /\ keyFile' = [i \in 1 .. Len(keyFile) \cup {next[p]} |->
                   IF i = next[p] THEN p ELSE keyFile[i]]
  /\ next' = [next EXCEPT ![p] = IF @ < Lines THEN @ + 1 ELSE @]
  /\ key' = IF next[p] < Lines THEN key ELSE [key EXCEPT ![p] = p]
  /\ UNCHANGED <<input, port, generators, admitted>>

\* Mutant: an error of pem.Encode goes unnoticed.
GenerateUnchecked(p) ==
  /\ Goto(p, "write", "metrics")
  /\ key' = [key EXCEPT ![p] = p]
  /\ UNCHANGED <<input, keyFile, next, port, generators, admitted>>

\* The file cannot be opened or written.
GenerateFails(p) ==
  /\ pc[p] \in {"generate", "write"}
  /\ Exit(p)
  /\ UNCHANGED <<input, keyFile, next, key, generators, admitted>>

------------------------------------------------------------------------------
(* Listeners and clients *)

\* net.Listen on a port that another process has is fatal.
ServeMetrics(p) ==
  /\ Config.metrics => port["metrics"] = None
  /\ Goto(p, "metrics", "listen")
  /\ port' = IF Config.metrics THEN [port EXCEPT !["metrics"] = p] ELSE port
  /\ UNCHANGED <<input, keyFile, next, key, generators, admitted>>

Serve(p) ==
  /\ port["ssh"] = None
  /\ Goto(p, "listen", "serving")
  /\ port' = [port EXCEPT !["ssh"] = p]
  /\ UNCHANGED <<input, keyFile, next, key, generators, admitted>>

PortTaken(p) ==
  /\ \/ pc[p] = "metrics" /\ Config.metrics /\ port["metrics"] # None
     \/ pc[p] = "listen" /\ port["ssh"] # None
  /\ Exit(p)
  /\ UNCHANGED <<input, keyFile, next, key, generators, admitted>>

\* The PublicKeyCallback of HandleConnection.
Authenticate(p) ==
  /\ pc[p] = "serving"
  /\ admitted' = IF IsAuthorizedClientKeyWithCA(input.client, input.lines,
                                                TrustedCAs, Config.autoAccept)
                 THEN "yes" ELSE "no"
  /\ UNCHANGED <<input, keyFile, pc, next, key, port, generators>>

\* Every start of the program is over.
Idle == (\A p \in Procs : pc[p] = "exited") /\ UNCHANGED vars

Next ==
  \/ \E p \in Procs :
       \/ LoadConfig(p) \/ LoadFails(p) \/ Crash(p)
       \/ FindKey(p) \/ FindNoKey(p) \/ ReadKey(p) \/ ReadFails(p)
       \/ OpenKeyFile(p) \/ WriteLine(p) \/ GenerateFails(p)
       \/ ServeMetrics(p) \/ Serve(p) \/ PortTaken(p) \/ Authenticate(p)
  \/ Idle

Spec == Init /\ [][Next]_vars

------------------------------------------------------------------------------
(* Properties *)

\* No process has a host key that the next start would not find: the key that
\* it serves is in the file, whole, whatever crashed and whoever restarted in
\* between, unless two processes found no file and both wrote one
\* (hostkey.go:17-61).
KeyPersists ==
  \/ \E p, q \in generators : p # q
  \/ \A p \in Procs : key[p] # None => WholeKey(key[p])

\* A process that serves gives its sessions settings they can work with, and
\* those that the file and the environment ask for, however the old and the
\* new places of a setting, defaults and the width of durations combine
\* (config.go:107-234, server.go:121-176, main.go:92-112).
LoadedUsable ==
  \A p \in Procs : pc[p] = "serving" =>
    /\ TimeoutsAsAsked(input.raw, SessionSettings(Config))
    /\ RoutingUsable(input.raw, SessionSettings(Config))

\* A client is let in if the files vouch for its key, whatever junk is in them;
\* and if they do not, only with a certificate that is not genuine and yet names
\* a trusted CA and has not lapsed: nothing compares more of a certificate, and
\* with a CA unknown or a certificate lapsed no other way is left
\* (security.go:24-74).
AuthMatchesReference ==
  admitted # "unknown" =>
    (admitted = "yes" <=>
       \/ Welcome(input.client, input.lines, TrustedCAs, Config.autoAccept)
       \/ /\ IsCertificate(input.client) /\ ~input.client.genuine
          /\ NamesTrustedCA(input.client, TrustedCAs))
==============================================================================
