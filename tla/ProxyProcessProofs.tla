-------------------------- MODULE ProxyProcessProofs --------------------------
(***************************************************************************)
(* Theorems about ProxyProcess, for any number of starts of the program,   *)
(* any length of the key, any inputs, and crashes at any point.            *)
(***************************************************************************)
EXTENDS ProxyProcess, StartupProofs, SequenceTheorems, TLAPS

(* A file that has been opened is a sequence of lines, and no writer's       *)
(* offset is past its end: each starts with the first line.                  *)
WritesInReach ==
  \A p \in Procs :
    /\ pc[p] \in {"new", "stat", "generate"} => next[p] = 1
    /\ pc[p] = "write" => keyFile \in Seq(Procs) /\ next[p] <= Len(keyFile) + 1

TInv == TypeOK /\ WritesInReach

(* A line written at an offset in reach leaves a sequence of lines.          *)
LEMMA LineWritten ==
  ASSUME NEW file \in Seq(Procs), NEW p \in Procs,
         NEW n \in Nat \ {0}, n <= Len(file) + 1
  PROVE  LET new == [i \in 1 .. Len(file) \cup {n} |-> IF i = n THEN p ELSE file[i]]
         IN  /\ new \in Seq(Procs)
             /\ Len(file) <= Len(new)
             /\ n <= Len(new)
<1> DEFINE new == [i \in 1 .. Len(file) \cup {n} |-> IF i = n THEN p ELSE file[i]]
           m == IF n <= Len(file) THEN Len(file) ELSE n
<1>1. /\ Len(file) \in Nat
      /\ \A i \in 1 .. Len(file) : file[i] \in Procs
  OBVIOUS
<1>2. m \in Nat /\ Len(file) <= m /\ n <= m /\ 1 .. Len(file) \cup {n} = 1 .. m
  BY <1>1
<1>3. new \in [1 .. m -> Procs]
  BY <1>1, <1>2
<1> HIDE DEF new, m
<1>4. new \in Seq(Procs) /\ Len(new) = m
  BY <1>2, <1>3
<1> QED
  BY <1>2, <1>4 DEF new

(* Types and offsets are right in every reachable state.                     *)
LEMMA TypesInductive == Spec => []TInv
<1>1. Init => TInv
  <2> SUFFICES ASSUME Init PROVE TInv
    OBVIOUS
  <2>1. TypeOK
    BY LinesAssumption DEF Init, TypeOK, Ports
  <2>2. WritesInReach
    BY DEF Init, WritesInReach
  <2> QED
    BY <2>1, <2>2 DEF TInv
<1>2. TInv /\ [Next]_vars => TInv'
  <2> SUFFICES ASSUME TInv, [Next]_vars PROVE TInv'
    OBVIOUS
  <2> USE DEF TInv
  <2>0. CASE UNCHANGED vars
    BY <2>0 DEF vars, TypeOK, WritesInReach
  <2>1. ASSUME NEW p \in Procs,
               \/ LoadConfig(p) \/ LoadFails(p)
               \/ FindKey(p) \/ FindNoKey(p) \/ ReadFails(p)
        PROVE  TInv'
    <3>1. /\ \/ \E to \in {"exited", "read"} : pc' = [pc EXCEPT ![p] = to]
             \/ /\ pc[p] \in {"new", "stat"}
                /\ \E to \in {"stat", "generate"} : pc' = [pc EXCEPT ![p] = to]
          /\ UNCHANGED <<keyFile, next, key, port, generators, admitted>>
      BY <2>1 DEF LoadConfig, LoadFails, FindKey, FindNoKey, ReadFails, Goto
    <3>2. TypeOK'
      BY <3>1 DEF TypeOK
    <3>3. WritesInReach'
      BY <3>1 DEF TypeOK, WritesInReach
    <3> QED
      BY <3>2, <3>3
  <2>2. ASSUME NEW p \in Procs, Crash(p) \/ GenerateFails(p) \/ PortTaken(p)
        PROVE  TInv'
    <3>1. /\ pc' = [pc EXCEPT ![p] = "exited"]
          /\ port' = [x \in Ports |-> IF port[x] = p THEN None ELSE port[x]]
          /\ UNCHANGED <<keyFile, next, key, generators, admitted>>
      BY <2>2 DEF Crash, GenerateFails, PortTaken, Exit
    <3>2. TypeOK'
      BY <3>1 DEF TypeOK
    <3>3. WritesInReach'
      BY <3>1 DEF TypeOK, WritesInReach
    <3> QED
      BY <3>2, <3>3
  <2>3. ASSUME NEW p \in Procs, ReadKey(p)
        PROVE  TInv'
    <3>1. PICK q \in Procs : key' = [key EXCEPT ![p] = q]
      BY <2>3 DEF ReadKey
    <3>2. /\ pc' = [pc EXCEPT ![p] = "metrics"]
          /\ UNCHANGED <<keyFile, next, port, generators, admitted>>
      BY <2>3 DEF ReadKey, Goto
    <3>3. TypeOK'
      BY <3>1, <3>2 DEF TypeOK
    <3>4. WritesInReach'
      BY <3>2 DEF TypeOK, WritesInReach
    <3> QED
      BY <3>3, <3>4
  <2>4. ASSUME NEW p \in Procs, OpenKeyFile(p)
        PROVE  TInv'
    <3>1. /\ pc' = [pc EXCEPT ![p] = "write"]
          /\ keyFile' = IF keyFile = Missing THEN <<>> ELSE keyFile
          /\ generators' = generators \cup {p}
          /\ UNCHANGED <<next, key, port, admitted>>
      BY <2>4 DEF OpenKeyFile, Goto
    <3>2. keyFile' \in Seq(Procs)
      BY <3>1 DEF TypeOK
    <3>3. TypeOK'
      BY <3>1, <3>2 DEF TypeOK
    <3>4. ASSUME NEW q \in Procs, pc'[q] = "write"
          PROVE  next'[q] <= Len(keyFile') + 1
      <4>1. CASE q = p
        <5>1. next'[q] = 1
          BY <4>1, <3>1, <2>4 DEF OpenKeyFile, Goto, WritesInReach
        <5> QED
          BY <5>1, <3>2
      <4>2. CASE q # p
        <5>1. pc[q] = "write"
          BY <4>2, <3>1, <3>4 DEF TypeOK
        <5>2. keyFile \in Seq(Procs) /\ next[q] <= Len(keyFile) + 1
          BY <5>1 DEF WritesInReach
        <5>3. keyFile' = keyFile
          BY <5>2, <3>1, MissingAssumption
        <5> QED
          BY <5>2, <5>3, <3>1
      <4> QED
        BY <4>1, <4>2
    <3>5. \A q \in Procs : pc'[q] \in {"new", "stat", "generate"} => next'[q] = 1
      BY <3>1 DEF TypeOK, WritesInReach
    <3> QED
      BY <3>2, <3>3, <3>4, <3>5 DEF WritesInReach
  <2>5. ASSUME NEW p \in Procs, WriteLine(p)
        PROVE  TInv'
    <3> DEFINE to == IF next[p] < Lines THEN "write" ELSE "metrics"
    <3>1. /\ pc[p] = "write"
          /\ pc' = [pc EXCEPT ![p] = to]
          /\ keyFile' = [i \in 1 .. Len(keyFile) \cup {next[p]} |->
                           IF i = next[p] THEN p ELSE keyFile[i]]
          /\ next' = [next EXCEPT ![p] = IF next[p] < Lines THEN next[p] + 1 ELSE next[p]]
          /\ key' = IF next[p] < Lines THEN key ELSE [key EXCEPT ![p] = p]
          /\ UNCHANGED <<port, generators, admitted>>
      BY <2>5 DEF WriteLine, Goto
    <3>2. /\ keyFile \in Seq(Procs) /\ next[p] <= Len(keyFile) + 1
          /\ next[p] \in Nat \ {0}
      BY <3>1, LinesAssumption DEF TypeOK, WritesInReach
    <3>3. /\ keyFile' \in Seq(Procs)
          /\ Len(keyFile) <= Len(keyFile')
          /\ next[p] <= Len(keyFile')
      BY <3>1, <3>2, LineWritten
    <3>4. next' \in [Procs -> 1 .. Lines]
      BY <3>1, LinesAssumption DEF TypeOK
    <3>5. TypeOK'
      BY <3>1, <3>3, <3>4 DEF TypeOK
    <3>6. ASSUME NEW q \in Procs, pc'[q] = "write"
          PROVE  next'[q] <= Len(keyFile') + 1
      <4>1. next[q] \in Nat /\ Len(keyFile) \in Nat /\ Len(keyFile') \in Nat
        BY <3>2, <3>3, LinesAssumption DEF TypeOK
      <4>2. CASE q = p
        <5>1. next'[q] <= next[p] + 1
          BY <4>1, <4>2, <3>1 DEF TypeOK
        <5> QED
          BY <5>1, <4>1, <4>2, <3>3, <3>4, LinesAssumption
      <4>3. CASE q # p
        <5>1. pc[q] = "write" /\ next'[q] = next[q]
          BY <4>3, <3>1, <3>6 DEF TypeOK
        <5>2. next[q] <= Len(keyFile) + 1
          BY <5>1 DEF WritesInReach
        <5> QED
          BY <5>1, <5>2, <4>1, <3>3
      <4> QED
        BY <4>2, <4>3
    <3>7. \A q \in Procs : pc'[q] \in {"new", "stat", "generate"} => next'[q] = 1
      BY <3>1 DEF TypeOK, WritesInReach
    <3> QED
      BY <3>3, <3>5, <3>6, <3>7 DEF WritesInReach
  <2>6. ASSUME NEW p \in Procs, ServeMetrics(p) \/ Serve(p)
        PROVE  TInv'
    <3>1. /\ \E to \in {"listen", "serving"} : pc' = [pc EXCEPT ![p] = to]
          /\ \/ \E x \in Ports : port' = [port EXCEPT ![x] = p]
             \/ port' = port
          /\ UNCHANGED <<keyFile, next, key, generators, admitted>>
      BY <2>6 DEF ServeMetrics, Serve, Goto, Ports
    <3>2. TypeOK'
      BY <3>1 DEF TypeOK
    <3>3. WritesInReach'
      BY <3>1 DEF TypeOK, WritesInReach
    <3> QED
      BY <3>2, <3>3
  <2>7. ASSUME NEW p \in Procs, Authenticate(p)
        PROVE  TInv'
    <3>1. /\ admitted' \in {"yes", "no"}
          /\ UNCHANGED <<keyFile, pc, next, key, port, generators>>
      BY <2>7 DEF Authenticate
    <3>2. TypeOK'
      BY <3>1 DEF TypeOK
    <3>3. WritesInReach'
      BY <3>1 DEF WritesInReach
    <3> QED
      BY <3>2, <3>3
  <2> QED
    BY <2>0, <2>1, <2>2, <2>3, <2>4, <2>5, <2>6, <2>7 DEF Next, Idle
<1> QED
  BY <1>1, <1>2, PTL DEF Spec

(* Every reachable state is well typed: above all, the file of the host key  *)
(* never has a gap, however many processes write into it.                    *)
THEOREM TypeCorrect == Spec => []TypeOK
<1>1. TInv => TypeOK
  BY DEF TInv
<1> QED
  BY <1>1, TypesInductive, PTL

------------------------------------------------------------------------------
(* The key persists *)

(* At most one process has begun to write a key.                             *)
Sole == \A p, q \in generators : p = q

(* How many lines of its key a generator has written.                        *)
Done(p) == IF key[p] = None THEN next[p] - 1 ELSE Lines

(* Who has got where in LoadOrGenerateHostKey.                               *)
Progress ==
  \A p \in Procs :
    /\ pc[p] \in {"new", "stat", "read", "generate"} =>
         p \notin generators /\ key[p] = None /\ next[p] = 1
    /\ pc[p] = "write" => p \in generators /\ key[p] = None

(* Nobody has a key, nor looks for one in the file, before one is written.   *)
KeysHaveAWriter ==
  /\ generators = {} => keyFile = Missing
  /\ \A p \in Procs : key[p] # None \/ pc[p] = "read" => generators # {}

(* What a process alone has written is what the file holds.                  *)
SoleWrites ==
  Sole => \A p \in generators : keyFile = [i \in 1 .. Done(p) |-> p]

(* A key that a process has is in the file.                                  *)
SoleKeys ==
  Sole => \A p \in Procs : key[p] # None => WholeKey(key[p])

KInv == Progress /\ KeysHaveAWriter /\ SoleWrites /\ SoleKeys

(* The four parts are inductive together.                                    *)
LEMMA KeysInductive == Spec => []KInv
<1>1. Init => KInv
  BY DEF Init, KInv, Progress, KeysHaveAWriter, SoleWrites, SoleKeys
<1>2. TypeOK /\ KInv /\ [Next]_vars => KInv'
  <2> SUFFICES ASSUME TypeOK, KInv, [Next]_vars PROVE KInv'
    OBVIOUS
  <2> USE DEF KInv
  <2>a. ASSUME UNCHANGED <<keyFile, next, key, generators>>, Progress',
               \A p \in Procs : pc'[p] = "read" => generators # {}
        PROVE  KInv'
    <3>1. SoleWrites'
      BY <2>a DEF SoleWrites, Sole, Done
    <3>2. SoleKeys'
      BY <2>a DEF SoleKeys, Sole, WholeKey
    <3>3. KeysHaveAWriter'
      BY <2>a DEF KeysHaveAWriter
    <3> QED
      BY <2>a, <3>1, <3>2, <3>3
  <2>0. CASE UNCHANGED vars
    <3>1. Progress' /\ \A p \in Procs : pc'[p] = "read" => generators # {}
      BY <2>0 DEF vars, Progress, KeysHaveAWriter
    <3> QED
      BY <2>0, <2>a, <3>1 DEF vars
  <2>1. ASSUME NEW p \in Procs,
               \/ LoadConfig(p) \/ LoadFails(p) \/ Crash(p) \/ FindNoKey(p)
               \/ ReadFails(p) \/ GenerateFails(p)
               \/ ServeMetrics(p) \/ Serve(p) \/ PortTaken(p) \/ Authenticate(p)
        PROVE  KInv'
    <3>1. /\ UNCHANGED <<keyFile, next, key, generators>>
          /\ \/ pc' = pc
             \/ \E to \in {"exited", "listen", "serving"} : pc' = [pc EXCEPT ![p] = to]
             \/ /\ pc[p] \in {"new", "stat"}
                /\ \E to \in {"stat", "generate"} : pc' = [pc EXCEPT ![p] = to]
      BY <2>1 DEF LoadConfig, LoadFails, Crash, FindNoKey, ReadFails, GenerateFails,
                  ServeMetrics, Serve, PortTaken, Authenticate, Goto, Exit
    <3>2. Progress'
      BY <3>1 DEF Progress, TypeOK
    <3>3. \A q \in Procs : pc'[q] = "read" => generators # {}
      BY <3>1 DEF KeysHaveAWriter, TypeOK
    <3> QED
      BY <2>a, <3>1, <3>2, <3>3
  <2>2. ASSUME NEW p \in Procs, FindKey(p)
        PROVE  KInv'
    <3>1. /\ UNCHANGED <<keyFile, next, key, generators>>
          /\ keyFile # Missing
          /\ pc[p] = "stat" /\ pc' = [pc EXCEPT ![p] = "read"]
      BY <2>2 DEF FindKey, Goto
    <3>2. Progress'
      BY <3>1 DEF Progress, TypeOK
    <3>3. \A q \in Procs : pc'[q] = "read" => generators # {}
      BY <3>1 DEF KeysHaveAWriter, TypeOK
    <3> QED
      BY <2>a, <3>1, <3>2, <3>3
  <2>3. ASSUME NEW p \in Procs, ReadKey(p)
        PROVE  KInv'
    <3>1. PICK q \in Procs : WholeKey(q) /\ key' = [key EXCEPT ![p] = q]
      BY <2>3 DEF ReadKey
    <3>2. /\ pc[p] = "read" /\ pc' = [pc EXCEPT ![p] = "metrics"]
          /\ UNCHANGED <<keyFile, next, generators>>
      BY <2>3 DEF ReadKey, Goto
    <3>3. Progress'
      BY <3>1, <3>2 DEF Progress, TypeOK
    <3>4. KeysHaveAWriter'
      BY <3>1, <3>2 DEF KeysHaveAWriter, TypeOK
    <3>5. SoleWrites'
      <4>1. p \notin generators
        BY <3>2 DEF Progress
      <4>2. \A g \in generators : Done(g)' = Done(g)
        BY <4>1, <3>1, <3>2 DEF Done, TypeOK
      <4> QED
        BY <4>2, <3>2 DEF SoleWrites, Sole
    <3>6. SoleKeys'
      <4>1. \A r \in Procs : key'[r] = IF r = p THEN q ELSE key[r]
        BY <3>1 DEF TypeOK
      <4> QED
        BY <4>1, <3>1, <3>2 DEF SoleKeys, Sole, WholeKey
    <3> QED
      BY <3>3, <3>4, <3>5, <3>6
  <2>4. ASSUME NEW p \in Procs, OpenKeyFile(p)
        PROVE  KInv'
    <3>1. /\ pc[p] = "generate" /\ pc' = [pc EXCEPT ![p] = "write"]
          /\ keyFile' = IF keyFile = Missing THEN <<>> ELSE keyFile
          /\ generators' = generators \cup {p}
          /\ UNCHANGED <<next, key>>
      BY <2>4 DEF OpenKeyFile, Goto
    <3>2. p \notin generators /\ key[p] = None /\ next[p] = 1
      BY <3>1 DEF Progress
    <3>3. Progress'
      BY <3>1, <3>2 DEF Progress, TypeOK
    <3>4. KeysHaveAWriter'
      BY <3>1 DEF KeysHaveAWriter, TypeOK
    <3>5. CASE generators = {}
      <4>1. keyFile' = <<>> /\ generators' = {p} /\ \A q \in Procs : key[q] = None
        BY <3>1, <3>5 DEF KeysHaveAWriter
      <4>2. Done(p)' = 0
        BY <3>1, <3>2 DEF Done
      <4>3. [i \in 1 .. 0 |-> p] = <<>>
        OBVIOUS
      <4>4. SoleWrites'
        BY <4>1, <4>2, <4>3 DEF SoleWrites
      <4>5. SoleKeys'
        BY <4>1, <3>1 DEF SoleKeys
      <4> QED
        BY <3>3, <3>4, <4>4, <4>5
    <3>6. CASE generators # {}
      <4>1. ~Sole'
        BY <3>1, <3>2, <3>6 DEF Sole
      <4>2. SoleWrites' /\ SoleKeys'
        BY <4>1 DEF SoleWrites, SoleKeys
      <4> QED
        BY <3>3, <3>4, <4>2
    <3> QED
      BY <3>5, <3>6
  <2>5. ASSUME NEW p \in Procs, WriteLine(p)
        PROVE  KInv'
    <3> DEFINE to == IF next[p] < Lines THEN "write" ELSE "metrics"
    <3>1. /\ pc[p] = "write"
          /\ pc' = [pc EXCEPT ![p] = to]
          /\ keyFile' = [i \in 1 .. Len(keyFile) \cup {next[p]} |->
                           IF i = next[p] THEN p ELSE keyFile[i]]
          /\ next' = [next EXCEPT ![p] = IF next[p] < Lines THEN next[p] + 1 ELSE next[p]]
          /\ key' = IF next[p] < Lines THEN key ELSE [key EXCEPT ![p] = p]
          /\ UNCHANGED generators
      BY <2>5 DEF WriteLine, Goto
    <3>2. p \in generators /\ key[p] = None /\ next[p] \in 1 .. Lines
      BY <3>1 DEF Progress, TypeOK
    <3>3. Progress'
      BY <3>1, <3>2 DEF Progress, TypeOK
    <3>4. KeysHaveAWriter'
      BY <3>1, <3>2 DEF KeysHaveAWriter, TypeOK
    <3>5. CASE Sole
      <4>1. generators = {p}
        BY <3>2, <3>5 DEF Sole
      <4>2. keyFile = [i \in 1 .. next[p] - 1 |-> p]
        BY <3>2, <3>5 DEF SoleWrites, Done
      <4>3. Len(keyFile) = next[p] - 1
        <5>1. next[p] - 1 \in Nat
          BY <3>2, LinesAssumption
        <5> QED
          BY <4>2, <5>1
      <4>4. keyFile' = [i \in 1 .. next[p] |-> p]
        <5>1. 1 .. Len(keyFile) \cup {next[p]} = 1 .. next[p]
          BY <4>3, <3>2, LinesAssumption
        <5>2. \A i \in 1 .. next[p] : i # next[p] => keyFile[i] = p
          BY <4>2, <3>2, LinesAssumption
        <5> QED
          BY <3>1, <5>1, <5>2
      <4>5. Done(p)' = next[p]
        <5>1. CASE next[p] < Lines
          <6>1. key'[p] = None /\ next'[p] = next[p] + 1
            BY <5>1, <3>1, <3>2 DEF TypeOK
          <6> QED
            BY <6>1, <3>2, LinesAssumption DEF Done
        <5>2. CASE ~(next[p] < Lines)
          <6>1. key'[p] = p /\ p # None
            BY <5>2, <3>1, ProcsAssumption DEF TypeOK
          <6>2. next[p] = Lines
            BY <5>2, <3>2, LinesAssumption
          <6> QED
            BY <6>1, <6>2 DEF Done
        <5> QED
          BY <5>1, <5>2
      <4>6. SoleWrites'
        BY <3>1, <4>1, <4>4, <4>5 DEF SoleWrites
      <4>7. \A q \in Procs : key[q] = None
        <5>1. ASSUME NEW q \in Procs, key[q] # None
              PROVE  FALSE
          <6>1. keyFile = [i \in 1 .. Lines |-> key[q]]
            BY <5>1, <3>5 DEF SoleKeys, WholeKey
          <6>2. 1 .. Lines = 1 .. next[p] - 1
            BY <6>1, <4>2
          <6>3. Lines \in 1 .. Lines /\ Lines \notin 1 .. next[p] - 1
            BY <3>2, LinesAssumption
          <6> QED
            BY <6>2, <6>3
        <5> QED
          BY <5>1
      <4>8. SoleKeys'
        <5>1. ASSUME NEW q \in Procs, key'[q] # None
              PROVE  q = p /\ key'[q] = p /\ next[p] = Lines
          <6>1. next[p] = Lines
            BY <5>1, <4>7, <3>1, <3>2, LinesAssumption
          <6> QED
            BY <6>1, <5>1, <4>7, <3>1, <3>2, LinesAssumption DEF TypeOK
        <5> QED
          BY <5>1, <4>4 DEF SoleKeys, WholeKey
      <4> QED
        BY <3>3, <3>4, <4>6, <4>8
    <3>6. CASE ~Sole
      <4>1. SoleWrites' /\ SoleKeys'
        BY <3>1, <3>6 DEF SoleWrites, SoleKeys, Sole
      <4> QED
        BY <3>3, <3>4, <4>1
    <3> QED
      BY <3>5, <3>6
  <2> QED
    BY <2>0, <2>1, <2>2, <2>3, <2>4, <2>5 DEF Next, Idle
<1> QED
  BY <1>1, <1>2, TypeCorrect, PTL DEF Spec

(* Whatever crashes and restarts, the key that a process serves is the one   *)
(* that every later start finds, unless two processes wrote one each.        *)
THEOREM KeySurvives == Spec => []KeyPersists
<1>1. KInv => KeyPersists
  BY DEF KInv, SoleKeys, Sole, KeyPersists
<1> QED
  BY <1>1, KeysInductive, PTL

------------------------------------------------------------------------------
(* Configuration and clients *)

(* Nobody gets past the start without a configuration that loads.            *)
Started ==
  /\ input \in Inputs
  /\ \A p \in Procs : pc[p] \notin {"new", "exited"} => Loads(input.raw, input.env)

(* What an input is made of.                                                 *)
LEMMA InputsTyped ==
  ASSUME NEW in \in Inputs
  PROVE  in.raw \in RawConfigs(Files) /\ in.lines \in Files /\ in.client \in Keys
<1> HIDE DEF RawConfigs, Files
<1> QED
  BY InputsAssumption

(* The configuration stays what it was when it was loaded.                  *)
LEMMA StartedInductive == Spec => []Started
<1>1. Init => Started
  BY DEF Init, Started
<1>2. TypeOK /\ Started /\ [Next]_vars => Started'
  <2> SUFFICES ASSUME TypeOK, Started, [Next]_vars PROVE Started'
    OBVIOUS
  <2>0. CASE UNCHANGED vars
    BY <2>0 DEF vars, Started
  <2>1. ASSUME NEW p \in Procs, LoadConfig(p) PROVE Started'
    <3>1. Loads(input.raw, input.env) /\ input' = input
      BY <2>1 DEF LoadConfig, Starts
    <3> QED
      BY <3>1 DEF Started
  <2>2. ASSUME NEW p \in Procs,
               \/ LoadFails(p) \/ Crash(p) \/ FindKey(p) \/ FindNoKey(p)
               \/ ReadKey(p) \/ ReadFails(p) \/ OpenKeyFile(p) \/ WriteLine(p)
               \/ GenerateFails(p) \/ ServeMetrics(p) \/ Serve(p) \/ PortTaken(p)
               \/ Authenticate(p)
        PROVE  Started'
    <3>1. /\ input' = input
          /\ \/ pc' = pc
             \/ \E to : pc' = [pc EXCEPT ![p] = to]
                        /\ (to = "exited" \/ pc[p] \notin {"new", "exited"})
      BY <2>2 DEF LoadFails, Crash, FindKey, FindNoKey, ReadKey, ReadFails, OpenKeyFile,
                  WriteLine, GenerateFails, ServeMetrics, Serve, PortTaken, Authenticate,
                  Goto, Exit
    <3>2. ASSUME NEW q \in Procs, pc'[q] \notin {"new", "exited"}
          PROVE  \E r \in Procs : pc[r] \notin {"new", "exited"}
      BY <3>1, <3>2 DEF TypeOK
    <3> QED
      BY <3>1, <3>2 DEF Started
  <2> QED
    BY <2>0, <2>1, <2>2 DEF Next, Idle
<1> QED
  BY <1>1, <1>2, TypeCorrect, PTL DEF Spec

(* Whatever the file and the environment say, a process that serves gives    *)
(* its sessions positive time-outs, those asked for if they can be           *)
(* represented, and a routing and a format that the session can use.         *)
THEOREM ServesWhatIsAsked == Spec => []LoadedUsable
<1>1. Started => LoadedUsable
  <2> SUFFICES ASSUME Started, NEW p \in Procs, pc[p] = "serving"
               PROVE  LET s == SessionSettings(Config)
                      IN  TimeoutsAsAsked(input.raw, s) /\ RoutingUsable(input.raw, s)
    BY DEF LoadedUsable
  <2>1. input \in Inputs /\ Loads(input.raw, input.env)
    BY DEF Started
  <2>2. input.raw \in RawConfigs(Files)
    BY <2>1, InputsTyped
  <2> QED
    BY <2>1, <2>2, SettingsAreUsable DEF Config
<1> QED
  BY <1>1, StartedInductive, PTL

(* The last decision about the client is the one the files call for.         *)
Decided ==
  /\ input \in Inputs
  /\ AuthMatchesReference

(* Whatever the files of keys and CAs hold, a client is let in exactly if    *)
(* they vouch for its key or it presents a certificate that is not genuine   *)
(* but names a trusted CA and has not lapsed (security.go:24-74).            *)
THEOREM AdmitsWhomFilesVouchFor == Spec => []AuthMatchesReference
<1> DEFINE welcome == \/ Welcome(input.client, input.lines, TrustedCAs, Config.autoAccept)
                     \/ /\ IsCertificate(input.client) /\ ~input.client.genuine
                        /\ NamesTrustedCA(input.client, TrustedCAs)
<1>1. Init => Decided
  BY DEF Init, Decided, AuthMatchesReference
<1>2. Decided /\ [Next]_vars => Decided'
  <2> SUFFICES ASSUME Decided, [Next]_vars PROVE Decided'
    OBVIOUS
  <2>1. ASSUME UNCHANGED <<input, admitted>> PROVE Decided'
    BY <2>1 DEF Decided, AuthMatchesReference, TrustedCAs, Config
  <2>2. ASSUME NEW p \in Procs, Authenticate(p) PROVE Decided'
    <3>1. /\ input' = input /\ input \in Inputs
          /\ admitted' = IF IsAuthorizedClientKeyWithCA(input.client, input.lines,
                                                        TrustedCAs, Config.autoAccept)
                         THEN "yes" ELSE "no"
      BY <2>2 DEF Authenticate, Decided
    <3>2. IsAuthorizedClientKeyWithCA(input.client, input.lines, TrustedCAs, Config.autoAccept)
            <=> welcome
      BY <3>1, InputsTyped, AuthorizedIsWelcome
    <3>3. admitted' = "yes" <=> welcome
      BY <3>1, <3>2
    <3>4. welcome' <=> welcome
      BY <3>1 DEF TrustedCAs, Config
    <3> HIDE DEF welcome
    <3>5. AuthMatchesReference'
      BY <3>3, <3>4 DEF AuthMatchesReference, welcome
    <3> QED
      BY <3>1, <3>5 DEF Decided
  <2>3. CASE UNCHANGED vars
    BY <2>1, <2>3 DEF vars
  <2>4. ASSUME NEW p \in Procs,
               \/ LoadConfig(p) \/ LoadFails(p) \/ Crash(p) \/ FindKey(p) \/ FindNoKey(p)
               \/ ReadKey(p) \/ ReadFails(p) \/ OpenKeyFile(p) \/ WriteLine(p)
               \/ GenerateFails(p) \/ ServeMetrics(p) \/ Serve(p) \/ PortTaken(p)
        PROVE  Decided'
    <3>1. UNCHANGED <<input, admitted>>
      BY <2>4 DEF LoadConfig, LoadFails, Crash, FindKey, FindNoKey, ReadKey, ReadFails,
                  OpenKeyFile, WriteLine, GenerateFails, ServeMetrics, Serve, PortTaken
    <3> QED
      BY <2>1, <3>1
  <2> QED
    BY <2>2, <2>3, <2>4 DEF Next, Idle
<1>3. Decided => AuthMatchesReference
  BY DEF Decided
<1> QED
  BY <1>1, <1>2, <1>3, PTL DEF Spec
==============================================================================
