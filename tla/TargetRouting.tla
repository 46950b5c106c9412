--------------------------- MODULE TargetRouting ---------------------------
(***************************************************************************)
(* How sessions find a target (server.go:585-670, client.go:32-62): the    *)
(* list of candidates, rotated by a process-wide counter in round-robin    *)
(* mode, and the rounds of attempts over that list, while targets come and *)
(* go, and so do the agents of the clients, which every attempt needs.     *)
(* Sessions of the whole process run concurrently.                         *)
(*                                                                         *)
(* A target is its place in the list of configured servers.                *)
(***************************************************************************)
EXTENDS Integers, Sequences

CONSTANTS
  Sessions,   \* goroutines that may look for a target at the same time
  N,          \* how many servers are configured
  Rounds,     \* 1 + ConnectRetries
  Resolves,   \* the targets whose address is valid for a session's user
  Accepts,    \* the targets that accept the key of the session's agent
  Agents,     \* what the session's agent may do when it is asked
  MaxInt,     \* the largest value of Go's int
  MaxStarts   \* bound: sessions that take a turn from the counter

ASSUME NAssumption == N \in Nat \ {0}
ASSUME RoundsAssumption == Rounds \in Nat \ {0}
ASSUME AddressAssumption == Resolves \in [Sessions -> SUBSET (1 .. N)]
ASSUME AcceptsAssumption == Accepts \in [Sessions -> SUBSET (1 .. N)]
ASSUME AgentsAssumption ==
  Agents \in [Sessions -> SUBSET {"answers", "fails", "silent"}]
ASSUME IntAssumption == MaxInt \in Nat /\ MaxStarts \in Nat

Targets == 1 .. N

VARIABLES
  mode,     \* the routing configuration
  counter,  \* staticRouteCounter, a uint64
  health,   \* of each target; a mute one accepts TCP and then says nothing
  agent,    \* what the agent of each session does now
  pc,       \* of each session
  order,    \* the candidates of the session, in the order they are tried
  round, next,  \* the nested loops of connectToFirstAvailableTarget
  tries,    \* history: attempts of the session at each target
  starts    \* history: turns that began at each target

search == <<pc, order, round, next, tries>>
world == <<health, agent>>
vars == <<mode, counter, world, search, starts>>

TypeOK ==
  /\ mode \in {"dynamic", "failover", "round_robin"}
  /\ counter \in Nat
  /\ health \in [Targets -> {"up", "down", "mute"}]
  /\ agent \in [Sessions -> {"answers", "fails", "silent"}]
  /\ \A s \in Sessions : agent[s] \in Agents[s]
  /\ pc \in [Sessions -> {"idle", "dialing", "connected", "failed"}]
  /\ order \in [Sessions -> Seq(Targets)]
  /\ round \in [Sessions -> 0 .. Rounds - 1]
  /\ next \in [Sessions -> Nat \ {0}]
  /\ tries \in [Sessions -> [Targets -> Nat]]
  /\ starts \in [Targets -> Nat]

Init ==
  /\ mode \in {"dynamic", "failover", "round_robin"}
  /\ counter = 0
  /\ health \in [Targets -> {"up", "down", "mute"}]
  /\ agent \in [Sessions -> {"answers", "fails", "silent"}]
  /\ \A s \in Sessions : agent[s] \in Agents[s]
  /\ pc = [s \in Sessions |-> "idle"]
  /\ order = [s \in Sessions |-> <<>>]
  /\ round = [s \in Sessions |-> 0]
  /\ next = [s \in Sessions |-> 1]
  /\ tries = [s \in Sessions |-> [t \in Targets |-> 0]]
  /\ starts = [t \in Targets |-> 0]

------------------------------------------------------------------------------
(* resolveTargetCandidates and orderedStaticTargets *)

\* int(n) of a uint64, and Go's %, which has the sign of its first operand.
AsInt(n) == IF n <= MaxInt THEN n ELSE n - 2 * (MaxInt + 1)
Remainder(a, b) == IF a >= 0 THEN a % b ELSE -((-a) % b)

\* Where the session that finds the counter at n starts, counted from 0.
Start(n) == Remainder(AsInt(n), N)

Configured == [i \in Targets |-> i]

\* Mutant: the servers ahead of the start are left out.
RotatedTail(start) == SubSeq(Configured, start + 1, N)

\* append(ordered[start:], ordered[:start]...)
Rotated(start) ==
  SubSeq(Configured, start + 1, N) \o SubSeq(Configured, 1, start)

\* Only a list of two or more servers is rotated and takes a turn.
Rotates == mode = "round_robin" /\ N > 1

Search(s, candidates) ==
  /\ pc[s] = "idle"
  /\ pc' = [pc EXCEPT ![s] = "dialing"]
  /\ order' = [order EXCEPT ![s] = candidates]
  /\ round' = [round EXCEPT ![s] = 0]
  /\ next' = [next EXCEPT ![s] = 1]
  /\ tries' = [tries EXCEPT ![s] = [t \in Targets |-> 0]]
  /\ UNCHANGED <<mode, world>>

\* The target named by LC_SSH_SERVER or the command.
SearchNamed(s, t) ==
  /\ mode = "dynamic"
  /\ Search(s, <<t>>)
  /\ UNCHANGED <<counter, starts>>

SearchInOrder(s) ==
  /\ mode # "dynamic"
  /\ ~Rotates
  /\ Search(s, Configured)
  /\ UNCHANGED <<counter, starts>>

\* Mutant: the turn is looked at and not taken.
SearchWithoutTurn(s) ==
  /\ Rotates
  /\ counter < MaxStarts
  /\ Search(s, Rotated(Start(counter)))
  /\ starts' = [starts EXCEPT ![Start(counter) + 1] = @ + 1]
  /\ UNCHANGED counter

\* atomic.AddUint64: no two sessions get the same turn.
SearchInTurn(s) ==
  /\ Rotates
  /\ counter < MaxStarts
  /\ Search(s, Rotated(Start(counter)))
  /\ counter' = (counter + 1) % (2 * (MaxInt + 1))
  /\ starts' = [starts EXCEPT ![Start(counter) + 1] = @ + 1]

------------------------------------------------------------------------------
(* connectToFirstAvailableTarget and ConnectToTarget *)

Target(s) == order[s][next[s]]

Welcome(s, t) == t \in Resolves[s] \cap Accepts[s]

\* How an attempt ends.  An address that does not resolve is not dialled.  The
\* agent is asked for its key before the target is dialled, and to sign after:
\* an agent that fails fails the attempt.  A silent agent and a mute target let
\* it never end: nothing bounds the one, and the timeout is for TCP only.
Asked(s) == Target(s) \in Resolves[s]
Answers(s) ==
  agent[s] = "answers" /\ health[Target(s)] = "up" /\ Welcome(s, Target(s))
Refuses(s) ==
  \/ ~Asked(s)
  \/ agent[s] = "fails"
  \/ agent[s] = "answers" /\ health[Target(s)] = "down"
  \/ agent[s] = "answers" /\ health[Target(s)] = "up" /\ Target(s) \notin Accepts[s]

Attempted(s) == tries' = [tries EXCEPT ![s][Target(s)] = @ + 1]

Connect(s) ==
  /\ pc[s] = "dialing"
  /\ Answers(s)
  /\ Attempted(s)
  /\ pc' = [pc EXCEPT ![s] = "connected"]
  /\ UNCHANGED <<mode, counter, world, order, round, next, starts>>

Fails(s) ==
  /\ pc[s] = "dialing"
  /\ Refuses(s)
  /\ Attempted(s)
  /\ UNCHANGED <<mode, counter, world, order, starts>>

LastCandidate(s) == next[s] = Len(order[s])
LastRound(s) == round[s] + 1 = Rounds

NextTarget(s) ==
  /\ Fails(s)
  /\ ~LastCandidate(s)
  /\ next' = [next EXCEPT ![s] = @ + 1]
  /\ UNCHANGED <<pc, round>>

\* Mutants: a round begins at index 0, or at the last candidate.
NextRoundFromZero(s) ==
  /\ Fails(s)
  /\ LastCandidate(s)
  /\ ~LastRound(s)
  /\ round' = [round EXCEPT ![s] = @ + 1]
  /\ next' = [next EXCEPT ![s] = 0]
  /\ UNCHANGED pc
NextRoundAtLast(s) ==
  /\ Fails(s)
  /\ LastCandidate(s)
  /\ ~LastRound(s)
  /\ round' = [round EXCEPT ![s] = @ + 1]
  /\ UNCHANGED <<pc, next>>

NextRound(s) ==
  /\ Fails(s)
  /\ LastCandidate(s)
  /\ ~LastRound(s)
  /\ round' = [round EXCEPT ![s] = @ + 1]
  /\ next' = [next EXCEPT ![s] = 1]
  /\ UNCHANGED pc

\* Mutant: the search ends at the first candidate that fails.
GiveUpAtOnce(s) ==
  /\ Fails(s)
  /\ pc' = [pc EXCEPT ![s] = "failed"]
  /\ UNCHANGED <<round, next>>

GiveUp(s) ==
  /\ Fails(s)
  /\ LastCandidate(s)
  /\ LastRound(s)
  /\ pc' = [pc EXCEPT ![s] = "failed"]
  /\ UNCHANGED <<round, next>>

\* The session is over; its client may come again.
End(s) ==
  /\ pc[s] \in {"connected", "failed"}
  /\ pc' = [pc EXCEPT ![s] = "idle"]
  /\ UNCHANGED <<mode, counter, world, order, round, next, tries, starts>>

\* Targets crash, hang, and come back.
Turns(t, h) ==
  /\ health[t] # h
  /\ health' = [health EXCEPT ![t] = h]
  /\ UNCHANGED <<mode, counter, agent, search, starts>>

\* The client's agent, or the connection to it, fails, hangs, and comes back.
AgentTurns(s, a) ==
  /\ a \in Agents[s] \ {agent[s]}
  /\ agent' = [agent EXCEPT ![s] = a]
  /\ UNCHANGED <<mode, counter, health, search, starts>>

------------------------------------------------------------------------------
Dial(s) == Connect(s) \/ NextTarget(s) \/ NextRound(s) \/ GiveUp(s)

Begin(s) ==
  SearchInOrder(s) \/ SearchInTurn(s) \/ \E t \in Targets : SearchNamed(s, t)

Next ==
  \/ \E s \in Sessions : Begin(s) \/ Dial(s) \/ End(s)
  \/ \E t \in Targets, h \in {"up", "down", "mute"} : Turns(t, h)
  \/ \E s \in Sessions, a \in {"answers", "fails", "silent"} : AgentTurns(s, a)

\* An attempt that agent and target answer or refuse comes to its end.
Spec == Init /\ [][Next]_vars /\ \A s \in Sessions : WF_vars(Dial(s))

------------------------------------------------------------------------------
(* Properties *)

\* A session gives up only after as many attempts as there are rounds at every
\* one of its candidates, wherever the rotation began: with static routing
\* that is every configured server (server.go:637-667).
ExhaustedOnFailure ==
  \A s \in Sessions : pc[s] = "failed" =>
    \E t \in Targets : \A u \in Targets :
      mode # "dynamic" \/ u = t => tries[s][u] = Rounds

\* A session is connected to the first candidate that answered: each candidate
\* ahead of it was tried, and failed, in this round too, and none behind it was
\* (server.go:640-667).
FirstAvailable ==
  \A s \in Sessions : pc[s] = "connected" =>
    \A i \in DOMAIN order[s] :
      tries[s][order[s][i]] = IF i <= next[s] THEN round[s] + 1 ELSE round[s]

\* Round robin spreads the sessions: whatever their interleaving, no server is
\* the first choice of two more sessions than another (server.go:619-621).
BalancedStarts ==
  mode = "round_robin" => \A t, u \in Targets : starts[t] <= starts[u] + 1

\* While a target stays up, accepts the session and is one of its candidates,
\* no target is mute and the session's agent answers, the session gets connected,
\* whatever happens to the other targets (README.md's failover, server.go:637-667).
ServedWhileUp ==
  \A s \in Sessions, t \in Targets :
    [](/\ Welcome(s, t) /\ health[t] = "up" /\ \A u \in Targets : health[u] # "mute"
       /\ agent[s] = "answers")
      => ((pc[s] = "dialing" /\ \E i \in DOMAIN order[s] : order[s][i] = t)
            ~> pc[s] = "connected")

\* An attempt ends within the configured timeout, also when the target does not
\* respond: once the targets stay as they are and all agents answer, every search
\* comes to an end.
SearchEnds ==
  /\ <>[][health' = health]_health
  /\ <>[](\A s \in Sessions : agent[s] = "answers")
    => \A s \in Sessions : pc[s] = "dialing" ~> pc[s] # "dialing"
==============================================================================
