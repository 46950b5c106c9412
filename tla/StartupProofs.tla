---------------------------- MODULE StartupProofs ----------------------------
(***************************************************************************)
(* Facts about the pure functions of a start: that the loop over an        *)
(* authorized_keys file finds exactly the keys in it, and that a           *)
(* configuration that loads gives its sessions settings they can use.      *)
(*                                                                         *)
(* The loop is a recursive function.  What it computes for every file is   *)
(* proved without the library's induction theorems: of two functions that  *)
(* satisfy its equation, consider the place nearest to the end of the file *)
(* at which they differ.                                                   *)
(***************************************************************************)
EXTENDS StartupConfig, ClientAuth, WellFoundedInduction, TLAPS

(* A set of numbers has a least one.                                         *)
LEMMA LeastNumber ==
  ASSUME NEW S, S \subseteq Nat, S # {}
  PROVE  \E n \in S : \A m \in S : n <= m
<1> DEFINE R == {ss \in Nat \X Nat : ss[1] < ss[2]}
<1>1. IsWellFoundedOn(R, Nat)
  BY NatLessThanWellFounded DEF OpToRel
<1> HIDE DEF R
<1>2. PICK n \in S : \A m \in S : ~(<<m, n>> \in R)
  BY <1>1, WFMin
<1>3. \A m \in Nat : m < n => <<m, n>> \in R
  BY DEF R
<1>4. ASSUME NEW m \in S PROVE n <= m
  <2>1. m \in Nat /\ n \in Nat /\ <<m, n>> \notin R
    BY <1>2
  <2> QED
    BY <1>3, <2>1
<1> QED
  BY <1>4

(* A set of numbers up to a bound has a greatest one.                        *)
LEMMA GreatestNumber ==
  ASSUME NEW n \in Nat, NEW S, S \subseteq 0 .. n, S # {}
  PROVE  \E m \in S : \A k \in S : k <= m
<1> DEFINE T == {n - k : k \in S}
<1>1. T \subseteq Nat /\ T # {}
  <2>1. \A k \in S : n - k \in Nat
    OBVIOUS
  <2> QED
    BY <2>1
<1> HIDE DEF T
<1>2. PICK t \in T : \A u \in T : t <= u
  BY <1>1, LeastNumber
<1>3. PICK m \in S : t = n - m
  BY DEF T
<1>4. ASSUME NEW k \in S PROVE k <= m
  <2>1. n - k \in T
    BY DEF T
  <2>2. n - m <= n - k
    BY <2>1, <1>2, <1>3
  <2>3. k \in Nat /\ m \in Nat
    OBVIOUS
  <2> QED
    BY <2>2, <2>3
<1> QED
  BY <1>4

------------------------------------------------------------------------------
(* The scan of an authorized_keys file *)

(* The first key at or after a place is at or after it, with junk before it. *)
LEMMA NextKey ==
  ASSUME NEW lines \in Seq(Keys \cup {Junk}),
         NEW i \in 1 .. Len(lines) + 1, KeysFrom(lines, i) # {}
  PROVE  LET j == Min(KeysFrom(lines, i)) IN
           /\ j \in i .. Len(lines)
           /\ lines[j] # Junk
           /\ \A k \in i .. j - 1 : lines[k] = Junk
<1> DEFINE S == KeysFrom(lines, i)
           j == Min(S)
<1>1. S \subseteq Nat
  BY DEF KeysFrom
<1>2. \E n \in S : \A m \in S : n <= m
  BY <1>1, LeastNumber
<1>3. j \in S /\ \A m \in S : j <= m
  BY <1>2 DEF Min
<1>4. j \in i .. Len(lines) /\ lines[j] # Junk
  BY <1>3 DEF KeysFrom
<1> HIDE DEF j
<1>5. ASSUME NEW k \in i .. j - 1, lines[k] # Junk PROVE FALSE
  <2>1. k \in S
    BY <1>4, <1>5 DEF KeysFrom
  <2> QED
    BY <1>3, <1>4, <2>1
<1>6. \A k \in i .. j - 1 : lines[k] = Junk
  BY <1>5
<1> QED
  BY <1>4, <1>6 DEF j

(* The equation of the loop: a key follows, and it is the one or the rest of *)
(* the file has it.                                                          *)
Looks(key, lines, scan, i) ==
  /\ KeysFrom(lines, i) # {}
  /\ LET j == Min(KeysFrom(lines, i)) IN lines[j] = key \/ scan[j + 1]

Held(key, lines) == [i \in 1 .. Len(lines) + 1 |-> \E k \in i .. Len(lines) : lines[k] = key]

(* That a line from here on is the key satisfies the equation ...            *)
LEMMA HeldLooks ==
  ASSUME NEW key \in Keys, NEW lines \in Seq(Keys \cup {Junk}),
         NEW i \in 1 .. Len(lines) + 1
  PROVE  Held(key, lines)[i] <=> Looks(key, lines, Held(key, lines), i)
<1> DEFINE S == KeysFrom(lines, i)
           j == Min(S)
           held(k) == \E m \in k .. Len(lines) : lines[m] = key
<1>0. Len(lines) \in Nat /\ key # Junk
  BY KeysAssumption
<1>1. CASE S = {}
  <2>1. ~held(i)
    BY <1>0, <1>1 DEF KeysFrom
  <2> QED
    BY <2>1, <1>1 DEF Looks, Held
<1>2. CASE S # {}
  <2>1. j \in i .. Len(lines) /\ \A k \in i .. j - 1 : lines[k] = Junk
    BY <1>2, NextKey
  <2> HIDE DEF j
  <2>2. held(i) <=> lines[j] = key \/ held(j + 1)
    <3>1. ASSUME NEW m \in i .. Len(lines), lines[m] = key
          PROVE  m = j \/ m \in j + 1 .. Len(lines)
      BY <3>1, <2>1, <1>0
    <3>2. \A m \in j + 1 .. Len(lines) : m \in i .. Len(lines)
      BY <2>1
    <3> QED
      BY <3>1, <3>2, <2>1
  <2>3. i \in 1 .. Len(lines) + 1 /\ j + 1 \in 1 .. Len(lines) + 1
    BY <2>1, <1>0
  <2> HIDE DEF S
  <2>4. /\ Held(key, lines)[i] <=> held(i)
        /\ Held(key, lines)[j + 1] <=> held(j + 1)
    BY <2>3 DEF Held
  <2> QED
    BY <2>2, <2>4, <1>2 DEF Looks, S, j
<1> QED
  BY <1>1, <1>2

(* ... and nothing else does.                                                *)
LEMMA ScanIsHeld ==
  ASSUME NEW key \in Keys, NEW lines \in Seq(Keys \cup {Junk}), NEW scan,
         scan = [i \in 1 .. Len(lines) + 1 |-> Looks(key, lines, scan, i)]
  PROVE  scan = Held(key, lines)
<1> DEFINE n == Len(lines) + 1
           held == Held(key, lines)
           differ == {i \in 1 .. n : scan[i] # held[i]}
<1>0. n \in Nat /\ Len(lines) \in Nat
  OBVIOUS
<1>1. ASSUME differ # {} PROVE FALSE
  <2>1. differ \subseteq 0 .. n
    BY <1>0
  <2>2. PICK i \in differ : \A k \in differ : k <= i
    BY <1>0, <1>1, <2>1, GreatestNumber
  <2>3. i \in 1 .. n
    OBVIOUS
  <2>4. scan[i] = Looks(key, lines, scan, i)
    BY <2>3
  <2>5. Looks(key, lines, scan, i) <=> Looks(key, lines, held, i)
    <3>1. CASE KeysFrom(lines, i) = {}
      BY <3>1 DEF Looks
    <3>2. CASE KeysFrom(lines, i) # {}
      <4> DEFINE j == Min(KeysFrom(lines, i))
      <4>1. j \in i .. Len(lines)
        BY <2>3, <3>2, NextKey
      <4> HIDE DEF j
      <4>2. j + 1 \in 1 .. n /\ j + 1 > i
        BY <4>1, <2>3
      <4>3. scan[j + 1] = held[j + 1]
        BY <4>2, <2>2, <2>3
      <4> QED
        BY <4>3 DEF Looks, j
    <3> QED
      BY <3>1, <3>2
  <2>6. held[i] = Looks(key, lines, held, i)
    <3>1. held[i] <=> Looks(key, lines, held, i)
      BY <2>3, HeldLooks
    <3>2. held[i] \in BOOLEAN
      BY <2>3 DEF Held
    <3>3. Looks(key, lines, held, i) \in BOOLEAN
      BY DEF Looks
    <3> QED
      BY <3>1, <3>2, <3>3
  <2>7. Looks(key, lines, scan, i) = Looks(key, lines, held, i)
    <3>1. /\ Looks(key, lines, scan, i) \in BOOLEAN
          /\ Looks(key, lines, held, i) \in BOOLEAN
      BY DEF Looks
    <3> QED
      BY <3>1, <2>5
  <2>8. scan[i] # held[i]
    BY <2>2
  <2> HIDE DEF held
  <2> QED
    BY <2>4, <2>6, <2>7, <2>8
<1>2. \A i \in 1 .. n : scan[i] = held[i]
  BY <1>1
<1> QED
  BY <1>2 DEF Held

(* The loop of isAuthorizedClientKey finds a key exactly if a line of the    *)
(* file is that key, whatever junk is around it.                             *)
LEMMA ScanFinds ==
  ASSUME NEW key \in Keys, NEW lines \in Seq(Keys \cup {Junk})
  PROVE  Scan(key, lines) <=> key \in ToSet(lines)
<1> DEFINE P(scan) == scan = [i \in 1 .. Len(lines) + 1 |-> Looks(key, lines, scan, i)]
           held == Held(key, lines)
           scan == CHOOSE f : P(f)
<1>1. P(held)
  <2>1. \A i \in 1 .. Len(lines) + 1 : held[i] = Looks(key, lines, held, i)
    <3> TAKE i \in 1 .. Len(lines) + 1
    <3>1. held[i] <=> Looks(key, lines, held, i)
      BY HeldLooks
    <3>2. held[i] \in BOOLEAN
      BY DEF Held
    <3>3. Looks(key, lines, held, i) \in BOOLEAN
      BY DEF Looks
    <3> QED
      BY <3>1, <3>2, <3>3
  <2> QED
    BY <2>1 DEF Held
<1> HIDE DEF P
<1>2. P(scan)
  BY <1>1
<1>3. scan = held
  BY <1>2, ScanIsHeld DEF P
<1>4. Scan(key, lines) = scan[1]
  BY DEF Scan, P, Looks
<1>5. 1 \in 1 .. Len(lines) + 1
  OBVIOUS
<1>6. held[1] <=> key \in ToSet(lines)
  BY <1>5 DEF Held, ToSet
<1> QED
  BY <1>3, <1>4, <1>6

(* Who is let in is whom the files vouch for, or who names a trusted CA.     *)
LEMMA AuthorizedIsWelcome ==
  ASSUME NEW key \in Keys, NEW lines \in Files, NEW trusted, NEW autoAccept
  PROVE  IsAuthorizedClientKeyWithCA(key, lines, trusted, autoAccept)
           <=> \/ Welcome(key, lines, trusted, autoAccept)
               \/ /\ IsCertificate(key) /\ ~key.genuine
                  /\ NamesTrustedCA(key, trusted)
<1>1. IsAuthorizedClientKey(key, lines) <=> lines # Missing /\ key \in ToSet(lines)
  <2>1. CASE lines = Missing
    BY <2>1 DEF IsAuthorizedClientKey
  <2>2. CASE lines # Missing
    <3>1. lines \in Seq(Keys \cup {Junk})
      BY <2>2 DEF Files
    <3> QED
      BY <2>2, <3>1, ScanFinds DEF IsAuthorizedClientKey
  <2> QED
    BY <2>1, <2>2
<1>2. key.until # "past" <=> key.until \in {"never", "later"}
  BY KeysAssumption
<1>3. NamesTrustedCA(key, trusted)
        <=> \E ca \in trusted : key.by = ca /\ key.until \in {"never", "later"}
  BY <1>2 DEF NamesTrustedCA
<1>4. NamesTrustedCA(key, trusted) => trusted # {}
  BY DEF NamesTrustedCA
<1> HIDE DEF Files
<1> QED
  BY <1>1, <1>3, <1>4 DEF IsAuthorizedClientKeyWithCA, Welcome

------------------------------------------------------------------------------
(* The settings of a session *)

(* A number is the only one congruent to it within its width.                *)
LEMMA WrappedFits ==
  ASSUME NEW n \in 0 .. MaxInt
  PROVE  Wrapped(n) = n
<1> DEFINE d == 2 * MaxInt + 2
           m == n + MaxInt + 1
<1>1. d \in Nat \ {0} /\ m \in 0 .. d - 1
  BY MaxIntAssumption
<1> HIDE DEF d, m
<1>2. m % d = m
  BY <1>1
<1>3. n = m - MaxInt - 1
  BY MaxIntAssumption DEF m
<1> QED
  BY <1>2, <1>3 DEF Wrapped, d, m

(* Whatever is multiplied, the product has a value.                          *)
LEMMA WrappedIsInt ==
  ASSUME NEW n \in Int
  PROVE  Wrapped(n) \in Int
<1> DEFINE d == 2 * MaxInt + 2
           m == n + MaxInt + 1
<1>1. d \in Nat \ {0} /\ m \in Int
  BY MaxIntAssumption
<1> HIDE DEF d, m
<1>2. m % d \in Int
  BY <1>1
<1> HIDE DEF Wrapped
<1>3. Wrapped(n) = (m % d) - MaxInt - 1
  BY DEF Wrapped, d, m
<1> QED
  BY <1>2, <1>3, MaxIntAssumption

(* A default time-out is positive and can be represented.                    *)
LEMMA DefaultsFit ==
  ASSUME NEW t \in Timeouts
  PROVE  /\ Defaults[t] \in Nat \ {0}
         /\ Defaults[t] * Second \in 1 .. MaxInt
<1>1. Defaults[t] \in Nat \ {0} /\ Second \in Nat \ {0}
  BY DefaultsAssumption, SecondAssumption
<1>2. Defaults[t] * Second \in Nat /\ Defaults[t] * Second > 0
  BY <1>1
<1> QED
  BY <1>1, <1>2, MaxIntAssumption

(* A duration is positive whatever it is made of, and exact if it fits.      *)
LEMMA DurationIsUsable ==
  ASSUME NEW t \in Timeouts, NEW n \in Int, n > 0
  PROVE  /\ Duration(n, t) > 0
         /\ n * Second <= MaxInt => Duration(n, t) = n * Second
<1>1. Second \in Nat \ {0} /\ n * Second \in Int /\ n * Second > 0
  BY SecondAssumption
<1>2. Wrapped(n * Second) \in Int
  BY <1>1, WrappedIsInt
<1>3. Duration(n, t) > 0
  BY <1>2, DefaultsFit DEF Duration, Positive
<1>4. ASSUME n * Second <= MaxInt
      PROVE  Duration(n, t) = n * Second
  <2>1. Wrapped(n * Second) = n * Second
    BY <1>1, <1>4, WrappedFits, MaxIntAssumption
  <2> QED
    BY <1>1, <2>1 DEF Duration, Positive
<1> QED
  BY <1>3, <1>4

(* A configuration that loads gives its sessions the time-outs it asks for,  *)
(* defaults in place of what is not positive, and servers that are there.    *)
LEMMA SettingsAreUsable ==
  ASSUME NEW files, NEW raw \in RawConfigs(files), NEW env, Loads(raw, env)
  PROVE  LET s == SessionSettings(Load(raw, env))
         IN  TimeoutsAsAsked(raw, s) /\ RoutingUsable(raw, s)
<1> DEFINE c == Parsed(raw, env)
           s == SessionSettings(Load(raw, env))
<1>1. /\ raw.retries \in {Absent} \cup Int /\ raw.oldRetries \in Int
      /\ raw.seconds \in [Timeouts -> {Absent} \cup Int] /\ raw.oldConnect \in Int
  BY DEF RawConfigs, Setting
<1>2. /\ c.seconds = [t \in Timeouts |-> AskedSeconds(raw, t)]
      /\ c.retries = Asked(raw.retries, raw.oldRetries, 0)
  <2>1. c.retries = Asked(raw.retries, raw.oldRetries, 0)
    BY DEF Parsed, WithLegacy, Given, Asked
  <2>2. \A t \in Timeouts : c.seconds[t] = AskedSeconds(raw, t)
    BY DEF Parsed, WithLegacy, Given, Asked, AskedSeconds
  <2>3. c.seconds = [t \in Timeouts |-> c.seconds[t]]
    BY DEF Parsed
  <2> QED
    BY <2>1, <2>2, <2>3
<1>3. /\ s.timeout = [t \in Timeouts |->
            Duration(Positive(c.seconds[t], Defaults[t]), t)]
      /\ s.retries = IF c.retries < 0 THEN 0 ELSE c.retries
      /\ s.static = c.static
      /\ s.mode = NormalizeRoutingMode(c.mode)
      /\ s.servers = c.servers
      /\ s.format = NormalizeFormat(c.format)
  BY DEF SessionSettings, Load, Validated, Parsed
<1>4. /\ ~(c.retries < 0)
      /\ c.format \in {"asciinema", "script"}
      /\ c.mode \in {"failover", "round_robin"}
      /\ \A i \in DOMAIN c.servers : c.servers[i] = "host:port"
      /\ c.static => c.servers # <<>>
  BY DEF Loads, Invalid
<1> HIDE DEF c, s
<1>5. ASSUME NEW t \in Timeouts
      PROVE  LET n == AskedSeconds(raw, t) IN
               /\ s.timeout[t] > 0
               /\ n > 0 /\ n * Second <= MaxInt => s.timeout[t] = n * Second
               /\ n <= 0 => s.timeout[t] = Defaults[t] * Second
  <2> DEFINE n == AskedSeconds(raw, t)
             m == Positive(n, Defaults[t])
  <2>1. n \in Int
    <3>1. raw.seconds[t] \in {Absent} \cup Int /\ Defaults[t] \in Int
      BY <1>1, DefaultsFit
    <3> QED
      BY <1>1, <3>1 DEF AskedSeconds, Asked
  <2>2. s.timeout[t] = Duration(m, t)
    BY <1>2, <1>3
  <2> HIDE DEF n
  <2>3. m \in Int /\ m > 0
    BY <2>1, DefaultsFit DEF Positive
  <2>4. n > 0 => m = n
    BY <2>1 DEF Positive
  <2>5. n <= 0 => m = Defaults[t]
    BY DEF Positive
  <2> HIDE DEF m
  <2>6. /\ Duration(m, t) > 0
        /\ m * Second <= MaxInt => Duration(m, t) = m * Second
    BY <2>3, DurationIsUsable
  <2>7. n <= 0 => Duration(m, t) = Defaults[t] * Second
    BY <2>5, <2>6, DefaultsFit, MaxIntAssumption
  <2> QED
    BY <2>2, <2>4, <2>6, <2>7 DEF n
<1>6. TimeoutsAsAsked(raw, s)
  BY <1>5 DEF TimeoutsAsAsked
<1>7. RoutingUsable(raw, s)
  <2>1. c.retries \in Int
    BY <1>1, <1>2 DEF Asked
  <2>2. s.retries = Asked(raw.retries, raw.oldRetries, 0) /\ s.retries >= 0
    BY <1>2, <1>3, <1>4, <2>1
  <2>3. s.static => s.servers # <<>> /\ \A i \in DOMAIN s.servers : s.servers[i] = "host:port"
    BY <1>3, <1>4
  <2>4. s.mode \in {"failover", "round_robin"}
    BY <1>3, <1>4 DEF NormalizeRoutingMode
  <2>5. s.format \in {"asciinema", "script"}
    BY <1>3, <1>4 DEF NormalizeFormat
  <2> QED
    BY <2>2, <2>3, <2>4, <2>5 DEF RoutingUsable
<1> QED
  BY <1>6, <1>7 DEF s
==============================================================================
