---------------------------- MODULE StartupConfig ----------------------------
(***************************************************************************)
(* The configuration as pure functions: what appconfig.Load makes of the   *)
(* JSON file and the environment (config.go), and what HandleConnection    *)
(* makes of the result for a session (server.go:121-176).                  *)
(*                                                                         *)
(* A raw configuration is a record of what the file says; Absent stands    *)
(* for a field it does not have.  Texts are "blank" or one of a few cases. *)
(***************************************************************************)
EXTENDS Integers, Sequences

CONSTANTS
  Absent,
  Defaults,  \* the default time-outs in seconds
  Second,    \* a second in the units of time.Duration
  MaxInt     \* the largest time.Duration

Timeouts == {"connect", "auth", "poll", "request"}

ASSUME AbsentAssumption == Absent \notin Int
ASSUME DefaultsAssumption == Defaults \in [Timeouts -> Nat \ {0}]
ASSUME SecondAssumption == Second \in Nat \ {0}
ASSUME MaxIntAssumption ==
  MaxInt \in Nat /\ \A t \in Timeouts : Defaults[t] * Second <= MaxInt

Setting(values) == {Absent} \cup values

\* What the file can say: every field has its type in Config.  A file of CAs,
\* for clients or for targets, stands in "cas" and "hostCAs" for its path.
RawConfigs(files) ==
  [listen : STRING, key : STRING, level : STRING, authorizedKeys : STRING,
   autoAccept : Setting(BOOLEAN), format : STRING,
   retries : Setting(Int), oldRetries : Int,
   seconds : [Timeouts -> Setting(Int)], oldConnect : Int,
   metrics : BOOLEAN, path : STRING, provider : STRING,
   static : BOOLEAN, mode : STRING, servers : Seq(STRING), cas : Seq(files),
   hostCAs : Seq(files)]

Given(value, default) == IF value = Absent THEN default ELSE value

\* An environment variable that is not blank decides, even with nonsense.
EnvBool(value, default) == IF value = "blank" THEN default ELSE value = "true"

NormalizeFormat(format) == IF format = "blank" THEN "asciinema" ELSE format

NormalizeRoutingMode(mode) ==
  CASE mode = "blank" -> "failover"
    [] mode = "roundrobin" -> "round_robin"
    [] OTHER -> mode

\* Mutant: the old place of a setting wins over the new one.
LegacyAlways(value, legacy, default) == IF legacy > 0 THEN legacy ELSE Given(value, default)

\* applyLegacyRoutingFallbacks: the place within static_routing counts only if
\* the file lacks the setting itself.
WithLegacy(value, legacy, default) ==
  IF value = Absent /\ legacy > 0 THEN legacy ELSE Given(value, default)

Positive(value, default) == IF value <= 0 THEN default ELSE value

\* The configuration once it is read, before it is validated.
Parsed(raw, env) ==
  [listen |-> raw.listen,
   key |-> raw.key,
   level |-> raw.level,
   authorizedKeys |-> raw.authorizedKeys,
   autoAccept |-> Given(raw.autoAccept, EnvBool(env, TRUE)),
   format |-> NormalizeFormat(raw.format),
   retries |-> WithLegacy(raw.retries, raw.oldRetries, 0),
   seconds |-> [t \in Timeouts |->
      IF t = "connect" THEN WithLegacy(raw.seconds[t], raw.oldConnect, Defaults[t])
      ELSE Given(raw.seconds[t], Defaults[t])],
   metrics |-> raw.metrics,
   path |-> raw.path,
   provider |-> raw.provider,
   static |-> raw.static,
   mode |-> NormalizeRoutingMode(raw.mode),
   servers |-> raw.servers,
   cas |-> raw.cas,
   hostCAs |-> raw.hostCAs]

\* Validate fails, or ...
Invalid(c) ==
  \/ c.listen = "blank"
  \/ c.key = "blank"
  \/ c.level \notin {"blank", "error", "info", "debug"}
  \/ ~c.autoAccept /\ c.authorizedKeys = "blank"
  \/ c.format \notin {"asciinema", "script"}
  \/ c.retries < 0
  \/ c.provider \notin {"blank", "keycloak"}
  \/ c.mode \notin {"failover", "round_robin"}
  \/ \E i \in DOMAIN c.servers : c.servers[i] # "host:port"
  \/ c.static /\ c.servers = <<>>

\* ... puts defaults in place of what is blank or not positive.
Validated(c) ==
  [c EXCEPT !.level = IF @ = "blank" THEN "info" ELSE @,
            !.seconds = [t \in Timeouts |-> Positive(c.seconds[t], Defaults[t])],
            !.path = IF @ = "blank" THEN "/metrics" ELSE "/path",
            !.provider = "keycloak"]

Loads(raw, env) == ~Invalid(Parsed(raw, env))
Load(raw, env) == Validated(Parsed(raw, env))

\* int64 arithmetic wraps around.
Wrapped(n) == ((n + MaxInt + 1) % (2 * MaxInt + 2)) - MaxInt - 1

\* time.Duration(seconds) * time.Second, and the default if that is not positive.
Duration(seconds, t) == Positive(Wrapped(seconds * Second), Defaults[t] * Second)

\* The settings in the SessionState of a connection.
SessionSettings(c) ==
  [timeout |-> [t \in Timeouts |-> Duration(c.seconds[t], t)],
   retries |-> IF c.retries < 0 THEN 0 ELSE c.retries,
   static |-> c.static,
   mode |-> NormalizeRoutingMode(c.mode),
   servers |-> c.servers,
   format |-> NormalizeFormat(c.format)]

------------------------------------------------------------------------------
\* The reference: what a raw setting asks for.
Asked(value, legacy, default) ==
  IF value # Absent THEN value ELSE IF legacy > 0 THEN legacy ELSE default

AskedSeconds(raw, t) ==
  Asked(raw.seconds[t], IF t = "connect" THEN raw.oldConnect ELSE 0, Defaults[t])

\* Every time-out of a session is positive; and it is the one that was asked
\* for, if that is positive and can be represented at all.
TimeoutsAsAsked(raw, s) ==
  \A t \in Timeouts : LET n == AskedSeconds(raw, t) IN
    /\ s.timeout[t] > 0
    /\ n > 0 /\ n * Second <= MaxInt => s.timeout[t] = n * Second
    /\ n <= 0 => s.timeout[t] = Defaults[t] * Second

\* What the routing of a session (TargetRouting) and its recorder rely on.
RoutingUsable(raw, s) ==
  /\ s.retries = Asked(raw.retries, raw.oldRetries, 0) /\ s.retries >= 0
  /\ s.static => s.servers # <<>> /\ \A i \in DOMAIN s.servers : s.servers[i] = "host:port"
  /\ s.mode \in {"failover", "round_robin"}
  /\ s.format \in {"asciinema", "script"}
==============================================================================
