------------------------ MODULE TargetRoutingProofs ------------------------
(***************************************************************************)
(* Theorems about TargetRouting, for any number of sessions, servers and   *)
(* retries, and whatever targets and agents do.                            *)
(***************************************************************************)
EXTENDS TargetRouting, SequenceTheorems, TLAPS

(* The process ends before the counter has passed every non-negative int:    *)
(* Go's int has 63 bits for them.                                            *)
FewTurns == MaxStarts <= MaxInt + 1

------------------------------------------------------------------------------
(* The arithmetic of turns *)

(* Division with remainder.                                                  *)
LEMMA Division ==
  ASSUME NEW n \in Nat, NEW d \in Nat \ {0}
  PROVE  /\ n % d \in 0 .. d - 1
         /\ n \div d \in Nat
         /\ n = d * (n \div d) + (n % d)
OBVIOUS

(* The remainder is the only one.                                            *)
LEMMA OneRemainder ==
  ASSUME NEW d \in Nat \ {0}, NEW p \in Int, NEW q \in Int,
         NEW r \in 0 .. d - 1, NEW m \in 0 .. d - 1,
         d * p + r = d * q + m
  PROVE  r = m
<1>1. CASE p = q
  BY <1>1
<1>2. CASE p - q >= 1
  <2>1. d * (p - q) >= d
    BY <1>2
  <2>2. d * (p - q) = m - r
    OBVIOUS
  <2> QED
    BY <2>1, <2>2
<1>3. CASE q - p >= 1
  <2>1. d * (q - p) >= d
    BY <1>3
  <2>2. d * (q - p) = r - m
    OBVIOUS
  <2> QED
    BY <2>1, <2>2
<1> QED
  BY <1>1, <1>2, <1>3

(* What is below the divisor is its own remainder.                           *)
LEMMA Unreduced ==
  ASSUME NEW d \in Nat \ {0}, NEW n \in 0 .. d - 1
  PROVE  n = n % d
<1> DEFINE q == n \div d
           m == n % d
<1>1. n \in Nat /\ q \in Int /\ m \in 0 .. d - 1 /\ n = d * q + m
  BY Division
<1> HIDE DEF q, m
<1>2. d * 0 + n = d * q + m
  BY <1>1
<1>3. n = m
  BY <1>1, <1>2, OneRemainder, 0 \in Int
<1> QED
  BY <1>3 DEF m

(* The turn after the last server's is the first server's, any other turn is *)
(* followed by that of the next server.                                      *)
LEMMA NextTurn ==
  ASSUME NEW n \in Nat, NEW d \in Nat \ {0}
  PROVE  (n + 1) % d = IF n % d = d - 1 THEN 0 ELSE (n % d) + 1
<1> DEFINE q == n \div d
           r == n % d
           p == (n + 1) \div d
           m == (n + 1) % d
<1>1. q \in Nat /\ r \in 0 .. d - 1 /\ n = d * q + r
  BY Division
<1>2. p \in Nat /\ m \in 0 .. d - 1 /\ n + 1 = d * p + m
  BY Division, n + 1 \in Nat
<1> HIDE DEF q, r, p, m
<1>3. CASE r = d - 1
  <2>1. d * (q + 1) + 0 = d * p + m
    BY <1>1, <1>2, <1>3
  <2>2. m = 0
    BY <2>1, <1>1, <1>2, OneRemainder
  <2> QED
    BY <2>2, <1>3 DEF m, r
<1>4. CASE r # d - 1
  <2>1. d * q + (r + 1) = d * p + m
    BY <1>1, <1>2
  <2>2. m = r + 1
    BY <2>1, <1>1, <1>2, <1>4, OneRemainder
  <2> QED
    BY <2>2, <1>4 DEF m, r
<1> QED
  BY <1>3, <1>4 DEF r

(* As long as the counter is a non-negative int, the conversion keeps it, and *)
(* the start is its remainder.                                               *)
LEMMA StartOfTurn ==
  ASSUME NEW n \in Nat, n <= MaxInt
  PROVE  Start(n) = n % N /\ Start(n) \in 0 .. N - 1
<1>1. AsInt(n) = n
  BY DEF AsInt
<1>2. Start(n) = n % N
  BY <1>1 DEF Start, Remainder
<1> QED
  BY <1>2, Division, NAssumption

------------------------------------------------------------------------------
(* The lists of candidates *)

(* The configured list names each server at its place.                       *)
LEMMA ConfiguredList ==
  /\ Configured \in Seq(Targets)
  /\ Len(Configured) = N
  /\ \A i \in Targets : Configured[i] = i
BY NAssumption DEF Configured, Targets

(* A rotation is a list of all servers that begins after the first start of  *)
(* them and comes to those at its end.                                       *)
LEMMA RotatedList ==
  ASSUME NEW start \in 0 .. N - 1
  PROVE  /\ Rotated(start) \in Seq(Targets)
         /\ Len(Rotated(start)) = N
         /\ \A i \in 1 .. N : Rotated(start)[i] =
              IF i <= N - start THEN start + i ELSE start + i - N
<1> DEFINE head == SubSeq(Configured, start + 1, N)
           tail == SubSeq(Configured, 1, start)
<1>1. start \in Nat /\ N \in Nat /\ start < N
  BY NAssumption
<1>2. /\ head \in Seq(Targets)
      /\ Len(head) = N - start
      /\ \A i \in 1 .. N - start : head[i] = start + i
  <2>1. \A i \in start + 1 .. N : Configured[i] \in Targets
    BY <1>1, ConfiguredList DEF Targets
  <2>2. /\ head \in Seq(Targets)
        /\ Len(head) = N - start
        /\ \A i \in 1 .. N - (start + 1) + 1 : head[i] = Configured[start + 1 + i - 1]
    BY <1>1, <2>1, SubSeqProperties
  <2> QED
    BY <1>1, <2>2, ConfiguredList DEF Targets
<1>3. /\ tail \in Seq(Targets)
      /\ Len(tail) = start
      /\ \A i \in 1 .. start : tail[i] = i
  <2>1. \A i \in 1 .. start : Configured[i] \in Targets
    BY <1>1, ConfiguredList DEF Targets
  <2>2. /\ tail \in Seq(Targets)
        /\ Len(tail) = start
        /\ \A i \in 1 .. start - 1 + 1 : tail[i] = Configured[1 + i - 1]
    BY <1>1, <2>1, SubSeqProperties
  <2> QED
    BY <1>1, <2>2, ConfiguredList DEF Targets
<1> HIDE DEF head, tail
<1>4. /\ head \o tail \in Seq(Targets)
      /\ Len(head \o tail) = Len(head) + Len(tail)
      /\ \A i \in 1 .. Len(head) + Len(tail) :
           (head \o tail)[i] = IF i <= Len(head) THEN head[i] ELSE tail[i - Len(head)]
  BY <1>2, <1>3, ConcatProperties
<1>5. Rotated(start) = head \o tail
  BY DEF Rotated, head, tail
<1>6. Len(head) + Len(tail) = N
  BY <1>1, <1>2, <1>3
<1>7. ASSUME NEW i \in 1 .. N
      PROVE  Rotated(start)[i] = IF i <= N - start THEN start + i ELSE start + i - N
  <2>1. Rotated(start)[i] = IF i <= N - start THEN head[i] ELSE tail[i - (N - start)]
    BY <1>2, <1>4, <1>5, <1>6
  <2>2. CASE i <= N - start
    BY <1>1, <1>2, <2>1, <2>2
  <2>3. CASE ~(i <= N - start)
    <3>1. i - (N - start) \in 1 .. start
      BY <1>1, <2>3
    <3>2. tail[i - (N - start)] = i - (N - start)
      BY <1>3, <3>1
    <3> QED
      BY <1>1, <2>1, <2>3, <3>2
  <2> QED
    BY <2>2, <2>3
<1>8. Rotated(start) \in Seq(Targets) /\ Len(Rotated(start)) = N
  BY <1>4, <1>5, <1>6
<1> QED
  BY <1>7, <1>8

(* What the search relies on: no candidate comes twice, and outside dynamic  *)
(* routing every server is a candidate.                                      *)
Candidates(list) ==
  /\ list \in Seq(Targets)
  /\ Len(list) >= 1
  /\ \A i, j \in 1 .. Len(list) : list[i] = list[j] => i = j
  /\ mode # "dynamic" => \A t \in Targets : \E i \in 1 .. Len(list) : list[i] = t

LEMMA NamedCandidates ==
  ASSUME NEW t \in Targets, mode = "dynamic"
  PROVE  Candidates(<<t>>)
BY DEF Candidates

LEMMA ConfiguredCandidates == Candidates(Configured)
BY ConfiguredList, NAssumption DEF Candidates, Targets

(* The rotated list is a permutation of the configured one.                  *)
LEMMA RotatedCandidates ==
  ASSUME NEW start \in 0 .. N - 1
  PROVE  Candidates(Rotated(start))
<1>1. start \in Nat /\ N \in Nat /\ start < N /\ N >= 1
  BY NAssumption
<1> DEFINE list == Rotated(start)
<1>2. /\ list \in Seq(Targets) /\ Len(list) = N
      /\ \A i \in 1 .. N : list[i] = IF i <= N - start THEN start + i ELSE start + i - N
  BY RotatedList
<1> HIDE DEF list
<1>3. \A i, j \in 1 .. N : list[i] = list[j] => i = j
  BY <1>1, <1>2
<1>4. ASSUME NEW t \in Targets
      PROVE  \E i \in 1 .. N : list[i] = t
  <2>1. CASE t > start
    <3>1. t - start \in 1 .. N /\ t - start <= N - start
      BY <1>1, <2>1 DEF Targets
    <3>2. list[t - start] = start + (t - start)
      BY <1>2, <3>1
    <3> QED
      BY <1>1, <3>1, <3>2 DEF Targets
  <2>2. CASE t <= start
    <3>1. t - start + N \in 1 .. N /\ ~(t - start + N <= N - start)
      BY <1>1, <2>2 DEF Targets
    <3>2. list[t - start + N] = start + (t - start + N) - N
      BY <1>2, <3>1
    <3> QED
      BY <1>1, <3>1, <3>2 DEF Targets
  <2> QED
    BY <1>1, <2>1, <2>2 DEF Targets
<1> QED
  BY <1>1, <1>2, <1>3, <1>4 DEF Candidates, list

------------------------------------------------------------------------------
(* Types *)

(* Counting one attempt more, of whatever, keeps a table of counts.          *)
LEMMA OneMore ==
  ASSUME NEW f \in [Targets -> Nat], NEW x
  PROVE  [f EXCEPT ![x] = f[x] + 1] \in [Targets -> Nat]
<1>1. CASE x \in Targets
  BY <1>1
<1>2. CASE x \notin Targets
  BY <1>2
<1> QED
  BY <1>1, <1>2

(* Beginning a search with a list of servers keeps the types.                *)
LEMMA SearchType ==
  ASSUME TypeOK, NEW s \in Sessions, NEW list \in Seq(Targets), Search(s, list),
         counter' \in Nat, starts' \in [Targets -> Nat]
  PROVE  TypeOK'
BY RoundsAssumption DEF TypeOK, Search, world

(* Every variable keeps the type it is declared with; in particular a list   *)
(* of candidates holds configured servers only, and rounds are never more    *)
(* than configured.                                                          *)
THEOREM TypeCorrect ==
  ASSUME FewTurns
  PROVE  Spec => []TypeOK
<1>1. Init => TypeOK
  BY RoundsAssumption, EmptySeq DEF Init, TypeOK
<1>2. TypeOK /\ [Next]_vars => TypeOK'
  <2> SUFFICES ASSUME TypeOK, [Next]_vars PROVE TypeOK'
    OBVIOUS
  <2> USE NAssumption, RoundsAssumption, IntAssumption
  <2>1. ASSUME NEW s \in Sessions, NEW t \in Targets, SearchNamed(s, t)
        PROVE  TypeOK'
    <3>1. <<t>> \in Seq(Targets)
      OBVIOUS
    <3>2. counter' \in Nat /\ starts' \in [Targets -> Nat]
      BY <2>1 DEF TypeOK, SearchNamed
    <3> QED
      BY <2>1, <3>1, <3>2, SearchType DEF SearchNamed
  <2>2. ASSUME NEW s \in Sessions, SearchInOrder(s) PROVE TypeOK'
    <3>1. counter' \in Nat /\ starts' \in [Targets -> Nat]
      BY <2>2 DEF TypeOK, SearchInOrder
    <3> QED
      BY <2>2, <3>1, SearchType, ConfiguredList DEF SearchInOrder
  <2>3. ASSUME NEW s \in Sessions, SearchInTurn(s) PROVE TypeOK'
    <3>1. Start(counter) \in 0 .. N - 1
      BY <2>3, StartOfTurn DEF TypeOK, SearchInTurn, FewTurns
    <3>2. Rotated(Start(counter)) \in Seq(Targets)
      BY <3>1, RotatedList
    <3>3. counter' \in Nat
      <4> DEFINE width == 2 * (MaxInt + 1)
      <4>1. width \in Nat \ {0} /\ counter + 1 \in Nat
        BY DEF TypeOK
      <4>2. counter' = (counter + 1) % width
        BY <2>3 DEF SearchInTurn
      <4> HIDE DEF width
      <4> QED
        BY <4>1, <4>2, Division
    <3>4. starts' \in [Targets -> Nat]
      <4>1. PICK f : f = Start(counter) + 1 /\ f \in Targets
        BY <3>1 DEF Targets
      <4>2. starts' = [starts EXCEPT ![f] = starts[f] + 1]
        BY <2>3, <4>1 DEF SearchInTurn
      <4> QED
        BY <4>1, <4>2 DEF TypeOK
    <3> QED
      BY <2>3, <3>2, <3>3, <3>4, SearchType DEF SearchInTurn
  <2>4. ASSUME NEW s \in Sessions, Dial(s) PROVE TypeOK'
    <3>1. ASSUME Attempted(s) PROVE tries' \in [Sessions -> [Targets -> Nat]]
      <4>1. tries[s] \in [Targets -> Nat]
        BY DEF TypeOK
      <4>2. [tries[s] EXCEPT ![Target(s)] = tries[s][Target(s)] + 1] \in [Targets -> Nat]
        BY <4>1, OneMore
      <4>3. tries' = [tries EXCEPT ![s] = [tries[s] EXCEPT ![Target(s)] = tries[s][Target(s)] + 1]]
        BY <3>1 DEF Attempted
      <4> QED
        BY <4>2, <4>3 DEF TypeOK
    <3>2. CASE Connect(s)
      BY <3>1, <3>2 DEF TypeOK, Connect, world
    <3>3. CASE NextTarget(s)
      BY <3>1, <3>3 DEF TypeOK, NextTarget, Fails, world
    <3>4. CASE NextRound(s)
      <4>1. /\ round[s] + 1 \in 0 .. Rounds - 1
            /\ round' = [round EXCEPT ![s] = round[s] + 1]
        BY <3>4 DEF TypeOK, NextRound, LastRound
      <4>2. round' \in [Sessions -> 0 .. Rounds - 1]
        BY <4>1 DEF TypeOK
      <4> QED
        BY <3>1, <3>4, <4>2 DEF TypeOK, NextRound, Fails, world
    <3>5. CASE GiveUp(s)
      BY <3>1, <3>5 DEF TypeOK, GiveUp, Fails, world
    <3> QED
      BY <2>4, <3>2, <3>3, <3>4, <3>5 DEF Dial
  <2>5. ASSUME NEW s \in Sessions, End(s) PROVE TypeOK'
    BY <2>5 DEF TypeOK, End, world
  <2>6. ASSUME NEW t \in Targets, NEW h \in {"up", "down", "mute"}, Turns(t, h)
        PROVE  TypeOK'
    BY <2>6 DEF TypeOK, Turns, search
  <2>7. ASSUME NEW s \in Sessions, NEW a \in {"answers", "fails", "silent"}, AgentTurns(s, a)
        PROVE  TypeOK'
    BY <2>7 DEF TypeOK, AgentTurns, search
  <2>8. CASE UNCHANGED vars
    BY <2>8 DEF TypeOK, vars, search, world
  <2> QED
    BY <2>1, <2>2, <2>3, <2>4, <2>5, <2>6, <2>7, <2>8 DEF Next, Begin
<1> QED
  BY <1>1, <1>2, PTL DEF Spec

------------------------------------------------------------------------------
(* The search *)

(* Where a search stands: the candidates ahead of the current one failed in  *)
(* this round, the others only in the rounds before.                         *)
Progress(s) ==
  /\ pc[s] = "dialing" => \A i \in 1 .. Len(order[s]) :
       tries[s][order[s][i]] = IF i < next[s] THEN round[s] + 1 ELSE round[s]
  /\ pc[s] = "connected" => \A i \in 1 .. Len(order[s]) :
       tries[s][order[s][i]] = IF i <= next[s] THEN round[s] + 1 ELSE round[s]
  /\ pc[s] = "failed" => \A i \in 1 .. Len(order[s]) :
       tries[s][order[s][i]] = Rounds

Searching(s) ==
  pc[s] # "idle" =>
    /\ Candidates(order[s])
    /\ next[s] \in 1 .. Len(order[s])
    /\ Progress(s)

(* The inductive invariant of both properties of a search.                   *)
Searches == \A s \in Sessions : Searching(s)

(* A search that begins has tried nothing.                                   *)
LEMMA SearchBegins ==
  ASSUME TypeOK, NEW s \in Sessions, NEW list, Candidates(list), Search(s, list)
  PROVE  Searching(s)'
<1>1. /\ pc'[s] = "dialing" /\ order'[s] = list /\ round'[s] = 0 /\ next'[s] = 1
      /\ tries'[s] = [t \in Targets |-> 0]
      /\ mode' = mode
  BY DEF Search, TypeOK
<1>2. \A i \in 1 .. Len(list) : list[i] \in Targets
  BY ElementOfSeq DEF Candidates
<1>3. Candidates(list)'
  BY <1>1 DEF Candidates
<1>4. 1 \in 1 .. Len(list)
  BY LenProperties DEF Candidates
<1> QED
  BY <1>1, <1>2, <1>3, <1>4 DEF Searching, Progress, Candidates

(* An attempt counts for the current candidate and no other.                 *)
LEMMA AttemptCounts ==
  ASSUME TypeOK, NEW s \in Sessions, Searching(s), pc[s] = "dialing", Attempted(s)
  PROVE  \A i \in 1 .. Len(order[s]) :
           tries'[s][order[s][i]] = IF i <= next[s] THEN round[s] + 1 ELSE round[s]
<1>1. /\ order[s] \in Seq(Targets)
      /\ next[s] \in 1 .. Len(order[s])
      /\ tries[s] \in [Targets -> Nat]
      /\ round[s] \in Nat
      /\ Len(order[s]) \in Nat
  BY LenProperties DEF TypeOK, Searching
<1>2. \A i \in 1 .. Len(order[s]) : order[s][i] \in Targets
  BY <1>1, ElementOfSeq
<1>3. tries'[s] = [tries[s] EXCEPT ![Target(s)] = tries[s][Target(s)] + 1]
  BY DEF Attempted, TypeOK
<1> SUFFICES ASSUME NEW i \in 1 .. Len(order[s])
             PROVE  tries'[s][order[s][i]] = IF i <= next[s] THEN round[s] + 1 ELSE round[s]
  OBVIOUS
<1>4. tries[s][order[s][i]] = IF i < next[s] THEN round[s] + 1 ELSE round[s]
  BY DEF Searching, Progress
<1>5. CASE i = next[s]
  BY <1>1, <1>2, <1>3, <1>4, <1>5 DEF Target
<1>6. CASE i # next[s]
  <2>1. order[s][i] # Target(s)
    BY <1>1, <1>6 DEF Searching, Candidates, Target
  <2>2. tries'[s][order[s][i]] = tries[s][order[s][i]]
    BY <1>1, <1>2, <1>3, <2>1
  <2> QED
    BY <1>1, <1>4, <1>6, <2>2
<1> QED
  BY <1>5, <1>6

(* Every end of an attempt leaves the search where the loops say.            *)
LEMMA DialProgress ==
  ASSUME TypeOK, NEW s \in Sessions, Searching(s), Dial(s)
  PROVE  Searching(s)'
<1>1. /\ pc[s] = "dialing" /\ Attempted(s)
      /\ order' = order /\ mode' = mode
  BY DEF Dial, Connect, NextTarget, NextRound, GiveUp, Fails
<1>2. /\ Candidates(order[s])
      /\ next[s] \in 1 .. Len(order[s])
      /\ round[s] \in 0 .. Rounds - 1
      /\ Len(order[s]) \in Nat
  BY <1>1, LenProperties DEF Searching, TypeOK
<1>3. Candidates(order[s])'
  BY <1>1, <1>2 DEF Candidates
<1>4. \A i \in 1 .. Len(order[s]) :
        tries'[s][order[s][i]] = IF i <= next[s] THEN round[s] + 1 ELSE round[s]
  BY <1>1, AttemptCounts
<1>5. CASE Connect(s)
  <2>1. pc'[s] = "connected" /\ next' = next /\ round' = round
    BY <1>5 DEF Connect, TypeOK
  <2> QED
    BY <1>1, <1>2, <1>3, <1>4, <2>1 DEF Searching, Progress
<1>6. CASE NextTarget(s)
  <2>1. /\ pc' = pc /\ next'[s] = next[s] + 1 /\ round' = round
        /\ next[s] # Len(order[s])
    BY <1>6 DEF NextTarget, Fails, LastCandidate, TypeOK
  <2> QED
    BY <1>1, <1>2, <1>3, <1>4, <2>1 DEF Searching, Progress
<1>7. CASE NextRound(s)
  <2>1. /\ pc' = pc /\ next'[s] = 1 /\ round'[s] = round[s] + 1
        /\ next[s] = Len(order[s])
    BY <1>7 DEF NextRound, Fails, LastCandidate, TypeOK
  <2> QED
    BY <1>1, <1>2, <1>3, <1>4, <2>1 DEF Searching, Progress
<1>8. CASE GiveUp(s)
  <2>1. /\ pc'[s] = "failed" /\ next' = next /\ round[s] + 1 = Rounds
        /\ next[s] = Len(order[s])
    BY <1>8 DEF GiveUp, Fails, LastCandidate, LastRound, TypeOK
  <2> QED
    BY <1>1, <1>2, <1>3, <1>4, <2>1 DEF Searching, Progress
<1> QED
  BY <1>5, <1>6, <1>7, <1>8 DEF Dial

(* A session's search is its own: nothing else disturbs it.                  *)
LEMMA SearchUndisturbed ==
  ASSUME NEW s \in Sessions, Searching(s), mode' = mode,
         pc'[s] = pc[s] \/ pc'[s] = "idle",
         order'[s] = order[s], round'[s] = round[s], next'[s] = next[s],
         tries'[s] = tries[s]
  PROVE  Searching(s)'
BY DEF Searching, Progress, Candidates

(* What a session does to its search leaves the others as they are.          *)
LEMMA OthersUndisturbed ==
  ASSUME TypeOK, Searches, NEW s \in Sessions, Begin(s) \/ Dial(s) \/ End(s),
         NEW u \in Sessions, u # s
  PROVE  Searching(u)'
<1>1. /\ mode' = mode
      /\ pc'[u] = pc[u] /\ order'[u] = order[u] /\ round'[u] = round[u]
      /\ next'[u] = next[u] /\ tries'[u] = tries[u]
  <2>1. CASE Begin(s)
    BY <2>1 DEF Begin, SearchInOrder, SearchInTurn, SearchNamed, Search, TypeOK
  <2>2. CASE Dial(s)
    <3>1. Attempted(s) => tries'[u] = tries[u]
      BY DEF Attempted, TypeOK
    <3> QED
      BY <2>2, <3>1 DEF Dial, Connect, NextTarget, NextRound, GiveUp, Fails, TypeOK
  <2>3. CASE End(s)
    BY <2>3 DEF End, TypeOK
  <2> QED
    BY <2>1, <2>2, <2>3
<1> QED
  BY <1>1, SearchUndisturbed DEF Searches

(* The invariant of the searches, for every interleaving of them with each   *)
(* other and with targets that come and go.                                  *)
LEMMA SearchesHold ==
  ASSUME FewTurns
  PROVE  Spec => []Searches
<1>1. Init => Searches
  BY DEF Init, Searches, Searching
<1>2. TypeOK /\ Searches /\ [Next]_vars => Searches'
  <2> SUFFICES ASSUME TypeOK, Searches, [Next]_vars PROVE Searches'
    OBVIOUS
  <2>1. ASSUME NEW s \in Sessions, Begin(s) PROVE Searching(s)'
    <3>1. CASE SearchInOrder(s)
      BY <3>1, ConfiguredCandidates, SearchBegins DEF SearchInOrder
    <3>2. CASE SearchInTurn(s)
      <4>1. Start(counter) \in 0 .. N - 1
        BY <3>2, StartOfTurn, IntAssumption DEF TypeOK, SearchInTurn, FewTurns
      <4> QED
        BY <3>2, <4>1, RotatedCandidates, SearchBegins DEF SearchInTurn
    <3>3. ASSUME NEW t \in Targets, SearchNamed(s, t) PROVE Searching(s)'
      BY <3>3, NamedCandidates, SearchBegins DEF SearchNamed
    <3> QED
      BY <2>1, <3>1, <3>2, <3>3 DEF Begin
  <2>2. ASSUME NEW s \in Sessions, Dial(s) PROVE Searching(s)'
    BY <2>2, DialProgress DEF Searches
  <2>3. ASSUME NEW s \in Sessions, End(s) PROVE Searching(s)'
    BY <2>3, SearchUndisturbed DEF End, Searches, TypeOK
  <2>4. ASSUME NEW s \in Sessions, Begin(s) \/ Dial(s) \/ End(s) PROVE Searches'
    BY <2>1, <2>2, <2>3, <2>4, OthersUndisturbed DEF Searches
  <2>5. ASSUME NEW t \in Targets, NEW h \in {"up", "down", "mute"}, Turns(t, h)
        PROVE  Searches'
    BY <2>5, SearchUndisturbed DEF Turns, search, Searches
  <2>6. ASSUME NEW s \in Sessions, NEW a \in {"answers", "fails", "silent"}, AgentTurns(s, a)
        PROVE  Searches'
    BY <2>6, SearchUndisturbed DEF AgentTurns, search, Searches
  <2>7. CASE UNCHANGED vars
    BY <2>7, SearchUndisturbed DEF vars, search, Searches
  <2> QED
    BY <2>4, <2>5, <2>6, <2>7 DEF Next
<1> QED
  BY <1>1, <1>2, TypeCorrect, PTL DEF Spec

(* A session is connected to the first candidate that answered: those ahead  *)
(* of it failed in this round, those behind it were not tried in it.         *)
THEOREM FirstAvailableServes ==
  ASSUME FewTurns
  PROVE  Spec => []FirstAvailable
<1>1. TypeOK /\ Searches => FirstAvailable
  <2> SUFFICES ASSUME TypeOK, Searches, NEW s \in Sessions, pc[s] = "connected",
                      NEW i \in DOMAIN order[s]
               PROVE  tries[s][order[s][i]]
                        = IF i <= next[s] THEN round[s] + 1 ELSE round[s]
    BY DEF FirstAvailable
  <2>1. i \in 1 .. Len(order[s])
    BY LenProperties DEF TypeOK
  <2>2. Searching(s)
    BY DEF Searches
  <2> QED
    BY <2>1, <2>2 DEF Searching, Progress
<1> QED
  BY <1>1, TypeCorrect, SearchesHold, PTL

(* A session fails only after every round over every candidate, which is     *)
(* every configured server if the routing is static.                         *)
THEOREM FailureIsExhaustive ==
  ASSUME FewTurns
  PROVE  Spec => []ExhaustedOnFailure
<1>1. TypeOK /\ Searches => ExhaustedOnFailure
  <2> SUFFICES ASSUME TypeOK, Searches, NEW s \in Sessions, pc[s] = "failed"
               PROVE  \E t \in Targets : \A u \in Targets :
                        mode # "dynamic" \/ u = t => tries[s][u] = Rounds
    BY DEF ExhaustedOnFailure
  <2>1. /\ Candidates(order[s])
        /\ \A i \in 1 .. Len(order[s]) : tries[s][order[s][i]] = Rounds
    BY DEF Searches, Searching, Progress
  <2>2. 1 \in 1 .. Len(order[s]) /\ order[s][1] \in Targets
    BY <2>1, LenProperties, ElementOfSeq DEF Candidates
  <2>3. CASE mode = "dynamic"
    BY <2>1, <2>2, <2>3
  <2>4. CASE mode # "dynamic"
    <3>1. \A u \in Targets : tries[s][u] = Rounds
      BY <2>1, <2>4 DEF Candidates
    <3> QED
      BY <2>2, <3>1
  <2> QED
    BY <2>3, <2>4
<1> QED
  BY <1>1, TypeCorrect, SearchesHold, PTL

------------------------------------------------------------------------------
(* Round robin *)

(* While sessions take turns, the counter is their number; the servers ahead *)
(* of the next start were the first choice once more than the others.        *)
Spread == \E q \in Nat : \A t \in Targets :
  starts[t] = IF t - 1 < counter % N THEN q + 1 ELSE q

Turned == counter <= MaxStarts /\ Spread

LEMMA TurnTaken ==
  ASSUME FewTurns, TypeOK, Turned, NEW s \in Sessions, SearchInTurn(s)
  PROVE  Turned'
<1>1. counter \in Nat /\ counter < MaxStarts /\ counter <= MaxInt
  BY IntAssumption DEF TypeOK, SearchInTurn, FewTurns
<1>2. counter' = counter + 1
  <2> DEFINE width == 2 * (MaxInt + 1)
  <2>1. width \in Nat \ {0} /\ counter + 1 \in 0 .. width - 1
    BY <1>1, IntAssumption
  <2>2. counter' = (counter + 1) % width
    BY DEF SearchInTurn
  <2> HIDE DEF width
  <2>3. counter + 1 = (counter + 1) % width
    BY <2>1, Unreduced
  <2> QED
    BY <2>2, <2>3
<1> DEFINE r == counter % N
<1>3. r \in 0 .. N - 1 /\ N \in Nat /\ N >= 1 /\ r + 1 \in Targets
  BY <1>1, Division, NAssumption DEF Targets
<1>4. counter' % N = IF r = N - 1 THEN 0 ELSE r + 1
  BY <1>1, <1>2, NextTurn, NAssumption
<1>5. starts' = [starts EXCEPT ![r + 1] = starts[r + 1] + 1]
  BY <1>1, StartOfTurn DEF SearchInTurn
<1> HIDE DEF r
<1>6. PICK q \in Nat : \A t \in Targets : starts[t] = IF t - 1 < r THEN q + 1 ELSE q
  BY DEF Turned, Spread, r
<1>7. \A t \in Targets : starts'[t] = IF t - 1 < r + 1 THEN q + 1 ELSE q
  BY <1>3, <1>5, <1>6 DEF TypeOK, Targets
<1>8. CASE r = N - 1
  <2>1. \A t \in Targets : starts'[t] = IF t - 1 < 0 THEN q + 1 + 1 ELSE q + 1
    BY <1>3, <1>7, <1>8 DEF Targets
  <2> QED
    BY <1>1, <1>2, <1>4, <1>8, <2>1, q + 1 \in Nat, IntAssumption DEF Turned, Spread
<1>9. CASE r # N - 1
  BY <1>1, <1>2, <1>4, <1>7, <1>9, IntAssumption DEF Turned, Spread
<1> QED
  BY <1>8, <1>9

(* No server is the first choice of two more sessions than another.          *)
THEOREM TurnsBalanced ==
  ASSUME FewTurns
  PROVE  Spec => []BalancedStarts
<1>1. Init => Turned
  <2> SUFFICES ASSUME Init PROVE Turned
    OBVIOUS
  <2>1. counter = 0 /\ starts = [t \in Targets |-> 0]
    BY DEF Init
  <2>2. counter <= MaxStarts
    BY <2>1, IntAssumption
  <2>3. counter % N = 0
    <3>1. 0 % N = 0
      BY NAssumption
    <3> QED
      BY <2>1, <3>1
  <2>4. ASSUME NEW t \in Targets
        PROVE  starts[t] = IF t - 1 < counter % N THEN 0 + 1 ELSE 0
    <3>1. t \in Nat /\ ~(t - 1 < 0)
      BY DEF Targets
    <3>2. starts[t] = 0
      BY <2>1
    <3> QED
      BY <2>3, <3>1, <3>2
  <2>5. Spread
    <3>1. 0 \in Nat
      OBVIOUS
    <3> QED
      BY <2>4, <3>1 DEF Spread
  <2> QED
    BY <2>2, <2>5 DEF Turned
<1>2. TypeOK /\ Turned /\ [Next]_vars => Turned'
  <2> SUFFICES ASSUME TypeOK, Turned, [Next]_vars PROVE Turned'
    OBVIOUS
  <2>1. ASSUME NEW s \in Sessions, SearchInTurn(s) PROVE Turned'
    BY <2>1, TurnTaken
  <2>2. ASSUME UNCHANGED <<counter, starts>> PROVE Turned'
    BY <2>2 DEF Turned, Spread
  <2>3. ASSUME NEW s \in Sessions, Begin(s) \/ Dial(s) \/ End(s), ~SearchInTurn(s)
        PROVE  UNCHANGED <<counter, starts>>
    BY <2>3 DEF Begin, SearchInOrder, SearchNamed, Dial, Connect, NextTarget,
                NextRound, GiveUp, Fails, End
  <2>4. ASSUME NEW t \in Targets, NEW h \in {"up", "down", "mute"}, Turns(t, h)
        PROVE  UNCHANGED <<counter, starts>>
    BY <2>4 DEF Turns
  <2>5. ASSUME NEW s \in Sessions, NEW a \in {"answers", "fails", "silent"}, AgentTurns(s, a)
        PROVE  UNCHANGED <<counter, starts>>
    BY <2>5 DEF AgentTurns
  <2>6. CASE UNCHANGED vars
    BY <2>2, <2>6 DEF vars
  <2> QED
    BY <2>1, <2>2, <2>3, <2>4, <2>5, <2>6 DEF Next
<1>3. Turned => BalancedStarts
  BY DEF Turned, Spread, BalancedStarts
<1> QED
  BY <1>1, <1>2, <1>3, TypeCorrect, PTL DEF Spec
==============================================================================
