-------------------------- MODULE DeviceFlowProofs --------------------------
(***************************************************************************)
(* Theorems about DeviceFlow, for every time-out and interval, and for     *)
(* every behaviour of the provider, its user and the network.              *)
(***************************************************************************)
EXTENDS DeviceFlow, TLAPS

(* Every variable keeps the type it is declared with: instants are counted   *)
(* from the beginning, and a flow waits for nothing but what it knows of.    *)
THEOREM TypeCorrect == Spec => []TypeOK
<1> USE TimeAssumption
<1>1. Init => TypeOK
  <2> SUFFICES ASSUME Init PROVE TypeOK
    OBVIOUS
  <2>1. /\ {now, sentAt, interval, timer, toldAt, polls, slowdowns, tokenAt, approvedAt}
             \subseteq Nat
        /\ suggested \in Suggested
    BY DEF Init
  <2>2. excused \in BOOLEAN
    BY Zenon DEF Init
  <2> QED
    BY <2>1, <2>2, Zenon DEF Init, TypeOK, Requests
<1>2. TypeOK /\ [Next]_vars => TypeOK'
  <2> SUFFICES ASSUME TypeOK, [Next]_vars PROVE TypeOK'
    OBVIOUS
  <2> USE DEF timing, history
  <2>1. CASE Timers
    <3>1. CASE Poll
      BY <3>1 DEF TypeOK, Poll, Sends, Requests, provider
    <3>2. CASE TimeOut \/ RequestTimesOut
      BY <3>2 DEF TypeOK, TimeOut, RequestTimesOut, Ends, provider
    <3> QED
      BY <2>1, <3>1, <3>2 DEF Timers
  <2>2. CASE Receive
    <3>1. CASE ReceiveDiscovery \/ ReceiveDeviceCode \/ ReceiveToken
      BY <3>1 DEF TypeOK, ReceiveDiscovery, ReceiveDeviceCode, ReceiveToken, AcceptsToken,
                  Sends, Requests, Writes, provider
    <3>2. ASSUME NEW answer \in {"pending", "slow_down"}, NEW wait \in Nat,
                 PollAgain(answer, wait)
          PROVE  TypeOK'
      BY <3>2 DEF TypeOK, PollAgain, WaitsFor, provider
    <3>3. CASE ReceivePending
      BY <3>2, <3>3 DEF TypeOK, ReceivePending
    <3>4. CASE ReceiveSlowDown
      BY <3>2, <3>4 DEF TypeOK, ReceiveSlowDown
    <3>5. CASE ReceiveRefusal \/ RequestBreaks
      BY <3>5 DEF TypeOK, ReceiveRefusal, RequestBreaks, Ends, provider
    <3> QED
      BY <2>2, <3>1, <3>3, <3>4, <3>5 DEF Receive
  <2>3. CASE ClientReads
    <3>1. CASE Prompted
      <4>1. LargerOf(PollInterval, suggested) \in Nat
        BY DEF TypeOK, LargerOf
      <4> QED
        BY <3>1, <4>1 DEF TypeOK, Prompted, WaitsFor, provider
    <3>2. CASE Confirmed
      BY <3>2 DEF TypeOK, Confirmed, Ends, provider
    <3> QED
      BY <2>3, <3>1, <3>2 DEF ClientReads
  <2>4. CASE World
    BY <2>4 DEF TypeOK, World, ServeSetup, ServeToken, Reply, Decide, Expire, flow
  <2>5. CASE Tick
    BY <2>5 DEF TypeOK, Tick, flow, provider
  <2>6. CASE UNCHANGED vars
    BY <2>6 DEF TypeOK, vars, flow, provider
  <2> QED
    BY <2>1, <2>2, <2>3, <2>4, <2>5, <2>6 DEF Next, Over
<1> QED
  BY <1>1, <1>2, PTL DEF Spec

-----------------------------------------------------------------------------
(* Confirmation *)

(* No request is under way after the deadline, and no poll is sent after it: *)
(* only a write to the client can hold the flow longer, and what it waits    *)
(* for then is not yet due.                                                  *)
InTime ==
  /\ stage \in Requests => now <= AuthTimeout
  /\ stage = "wait" => now <= AuthTimeout \/ now < timer

(* A token is on its way only when the code was exchanged for it, and a flow *)
(* that accepted one did so in time.                                         *)
Confirmation ==
  /\ approvedAt <= now
  /\ stage = "token" /\ reply = "ok" => code = "spent"
  /\ result = "confirmed" => stage = "done"
  /\ stage = "confirm" \/ result = "confirmed" =>
       code = "spent" /\ approvedAt <= tokenAt /\ tokenAt <= AuthTimeout

(* No session is confirmed unless its user approved the code, it was         *)
(* exchanged, and the deadline was met, however late the client reads.       *)
THEOREM ConfirmationInTime == Spec => []ConfirmedInTime
<1> USE TimeAssumption
<1>1. Init => InTime /\ Confirmation
  BY DEF Init, InTime, Confirmation, Requests
<1>2. TypeOK /\ InTime /\ [Next]_vars => InTime'
  <2> SUFFICES ASSUME TypeOK, InTime, [Next]_vars PROVE InTime'
    OBVIOUS
  <2> USE DEF timing, history
  <2>1. CASE Tick
    <3>1. stage \in Requests \cup {"wait"} => now < AuthTimeout
      BY <2>1 DEF Tick, TimerDue, RequestOver, TypeOK, Requests
    <3> QED
      BY <2>1, <3>1 DEF Tick, InTime, TypeOK, Requests, flow
  <2>2. CASE Prompted
    <3>1. PollInterval \in Nat \ {0} /\ suggested \in Nat
      BY DEF TypeOK
    <3>2. LargerOf(PollInterval, suggested) \in Nat \ {0}
      BY <3>1 DEF LargerOf
    <3> QED
      BY <2>2, <3>2 DEF Prompted, WaitsFor, InTime, TypeOK, Requests
  <2>3. CASE Timers \/ Confirmed
    BY <2>3 DEF InTime, TypeOK, Timers, Poll, TimeOut, RequestTimesOut, Confirmed, Sends, Ends,
                Requests
  <2>4. CASE Receive
    BY <2>4 DEF InTime, TypeOK, Receive, ReceiveDiscovery, ReceiveDeviceCode, ReceivePending,
                ReceiveSlowDown, PollAgain, WaitsFor, ReceiveToken, AcceptsToken, ReceiveRefusal,
                RequestBreaks, Sends, Ends, Requests
  <2>5. CASE World \/ UNCHANGED vars
    <3>1. UNCHANGED <<now, stage, timer>>
      BY <2>5 DEF World, ServeSetup, ServeToken, Reply, Decide, Expire, vars, flow
    <3> QED
      BY <3>1 DEF InTime
  <2> QED
    BY <2>1, <2>2, <2>3, <2>4, <2>5 DEF Next, ClientReads, Over
<1>3. TypeOK /\ InTime /\ Confirmation /\ [Next]_vars => Confirmation'
  <2> SUFFICES ASSUME TypeOK, InTime, Confirmation, [Next]_vars
               PROVE  Confirmation'
    OBVIOUS
  <2> USE DEF timing, history
  <2>1. CASE Timers
    BY <2>1 DEF Confirmation, TypeOK, Timers, Poll, TimeOut, RequestTimesOut, Sends, Ends,
                Requests, provider
  <2>2. CASE Receive
    <3>1. CASE ReceiveDiscovery \/ ReceiveDeviceCode \/ ReceivePending \/ ReceiveSlowDown
      BY <3>1 DEF Confirmation, TypeOK, ReceiveDiscovery, ReceiveDeviceCode, ReceivePending,
                  ReceiveSlowDown, PollAgain, Sends, WaitsFor, provider
    <3>2. CASE ReceiveToken
      BY <3>2 DEF Confirmation, InTime, TypeOK, Requests, ReceiveToken, AcceptsToken, provider
    <3>3. CASE ReceiveRefusal \/ RequestBreaks
      BY <3>3 DEF Confirmation, Requests, ReceiveRefusal, RequestBreaks, Ends, provider
    <3> QED
      BY <2>2, <3>1, <3>2, <3>3 DEF Receive
  <2>3. CASE ClientReads
    BY <2>3 DEF Confirmation, ClientReads, Prompted, WaitsFor, Confirmed, Ends, provider
  <2>4. CASE World
    <3>1. ASSUME NEW r, ServeSetup(r) PROVE Confirmation'
      BY <3>1 DEF Confirmation, ServeSetup, Reply
    <3>2. ASSUME NEW r, ServeToken(r) PROVE Confirmation'
      BY <3>2 DEF Confirmation, ServeToken, Reply
    <3>3. ASSUME NEW d, Decide(d) PROVE Confirmation'
      <4>1. /\ stage # "done" /\ code = "pending" /\ approvedAt' = now
            /\ UNCHANGED <<now, stage, reply, result, tokenAt>>
        BY <3>3 DEF Decide, flow
      <4> QED
        BY <4>1 DEF Confirmation, TypeOK
    <3>4. CASE Expire
      BY <3>4 DEF Confirmation, Expire, flow, Answers
    <3> QED
      BY <2>4, <3>1, <3>2, <3>3, <3>4 DEF World
  <2>5. CASE Tick
    BY <2>5 DEF Confirmation, TypeOK, Tick, flow, provider
  <2>6. CASE UNCHANGED vars
    BY <2>6 DEF Confirmation, vars, flow, provider
  <2> QED
    BY <2>1, <2>2, <2>3, <2>4, <2>5, <2>6 DEF Next, Over
<1>4. Confirmation => ConfirmedInTime
  BY DEF Confirmation, ConfirmedInTime
<1> QED
  BY <1>1, <1>2, <1>3, <1>4, TypeCorrect, PTL DEF Spec

-----------------------------------------------------------------------------
(* The load on the provider *)

(* Products grow with their factors.                                         *)
LEMMA MoreOfMore ==
  ASSUME NEW n \in Nat, NEW a \in Nat, NEW b \in Nat, a <= b
  PROVE  n * a <= n * b
<1>1. n * (b - a) = n * b - n * a
  OBVIOUS
<1>2. n * (b - a) >= 0
  OBVIOUS
<1>3. n * a \in Nat /\ n * b \in Nat
  OBVIOUS
<1> QED
  BY <1>1, <1>2, <1>3

LEMMA OneMore ==
  ASSUME NEW n \in Nat, NEW a \in Nat
  PROVE  (n + 1) * a = n * a + a /\ n * a \in Nat
  OBVIOUS

(* What all polls and slow_downs so far have put between the prompt and the  *)
(* poll that is out or the timer that is set.                                *)
Load ==
  /\ stage \in {"discover", "authorize", "prompt"} => polls = 0 /\ slowdowns = 0
  /\ stage \in {"wait", "token"} => interval >= PollInterval /\ interval >= suggested
  /\ stage = "wait" =>
       timer >= toldAt + polls * interval + interval + slowdowns * SlowDownBy
  /\ stage = "token" =>
       sentAt <= now /\ sentAt >= toldAt + polls * interval + slowdowns * SlowDownBy

LEMMA LoadHolds == Spec => []Load
<1> USE TimeAssumption
<1>1. Init => Load
  BY DEF Init, Load
<1>2. TypeOK /\ Load /\ [Next]_vars => Load'
  <2> SUFFICES ASSUME TypeOK, Load, [Next]_vars PROVE Load'
    OBVIOUS
  <2> USE DEF timing, history
  <2>1. CASE Poll
    <3>1. /\ stage = "wait" /\ now >= timer /\ stage' = "token" /\ sentAt' = now
          /\ polls' = polls + 1
          /\ UNCHANGED <<now, interval, suggested, toldAt, slowdowns>>
      BY <2>1 DEF Poll, Sends
    <3>2. (polls + 1) * interval = polls * interval + interval /\ polls * interval \in Nat
      BY OneMore DEF TypeOK
    <3>3. slowdowns * SlowDownBy \in Nat
      BY OneMore DEF TypeOK
    <3>4. now >= toldAt + (polls + 1) * interval + slowdowns * SlowDownBy
      BY <3>1, <3>2, <3>3 DEF Load, TypeOK
    <3> QED
      BY <3>1, <3>4 DEF Load, TypeOK
  <2>2. CASE Prompted
    <3>1. /\ LargerOf(PollInterval, suggested) \in Nat
          /\ LargerOf(PollInterval, suggested) >= PollInterval
          /\ LargerOf(PollInterval, suggested) >= suggested
      BY DEF LargerOf, TypeOK
    <3>2. /\ stage = "prompt" /\ stage' = "wait"
          /\ interval' = LargerOf(PollInterval, suggested)
          /\ timer' = now + interval' /\ toldAt' = now
          /\ UNCHANGED <<polls, slowdowns, suggested>>
      BY <2>2 DEF Prompted, WaitsFor
    <3>3. polls' * interval' = 0 /\ slowdowns' * SlowDownBy = 0
      BY <3>1, <3>2 DEF Load
    <3> QED
      BY <3>1, <3>2, <3>3 DEF Load, TypeOK
  <2>3. ASSUME NEW answer \in {"pending", "slow_down"}, NEW more \in {0, SlowDownBy},
               answer = "slow_down" => more = SlowDownBy,
               PollAgain(answer, interval + more)
        PROVE  Load'
    <3>1. /\ stage = "token" /\ stage' = "wait" /\ timer' = now + (interval + more)
          /\ slowdowns' = slowdowns + (IF answer = "slow_down" THEN 1 ELSE 0)
          /\ UNCHANGED <<interval, suggested, toldAt, polls>>
      BY <2>3 DEF PollAgain, WaitsFor
    <3>2. (slowdowns + 1) * SlowDownBy = slowdowns * SlowDownBy + SlowDownBy
          /\ slowdowns * SlowDownBy \in Nat
      BY OneMore DEF TypeOK
    <3>3. polls * interval \in Nat
      BY OneMore DEF TypeOK
    <3>4. slowdowns' * SlowDownBy <= slowdowns * SlowDownBy + more
      BY <2>3, <3>1, <3>2 DEF TypeOK
    <3>5. slowdowns' * SlowDownBy \in Nat
      BY <3>1, OneMore DEF TypeOK
    <3>6. now >= toldAt + polls * interval + slowdowns * SlowDownBy
      BY <3>1, <3>2, <3>3 DEF Load, TypeOK
    <3>7. timer' >= toldAt + polls * interval + interval + slowdowns' * SlowDownBy
      BY <3>1, <3>2, <3>3, <3>4, <3>5, <3>6 DEF TypeOK
    <3> QED
      BY <3>1, <3>7 DEF Load
  <2>4. CASE ReceivePending
    <3>1. PollAgain("pending", interval + 0)
      BY <2>4 DEF ReceivePending, TypeOK
    <3> QED
      BY <2>3, <3>1
  <2>5. CASE ReceiveSlowDown
    BY <2>3, <2>5 DEF ReceiveSlowDown
  <2>6. CASE \/ TimeOut \/ RequestTimesOut \/ ReceiveRefusal \/ RequestBreaks \/ Confirmed
             \/ ReceiveToken \/ ReceiveDiscovery \/ ReceiveDeviceCode
    BY <2>6 DEF Load, TimeOut, RequestTimesOut, ReceiveRefusal, RequestBreaks, Confirmed,
                ReceiveToken, AcceptsToken, ReceiveDiscovery, ReceiveDeviceCode, Sends, Ends
  <2>7. CASE World \/ Tick \/ UNCHANGED vars
    <3>1. /\ UNCHANGED <<stage, sentAt, interval, suggested, timer, toldAt, polls, slowdowns>>
          /\ now' >= now /\ now' \in Nat
      BY <2>7 DEF World, ServeSetup, ServeToken, Reply, Decide, Expire, Tick, vars, flow, TypeOK
    <3> QED
      BY <3>1 DEF Load, TypeOK
  <2> QED
    BY <2>1, <2>2, <2>4, <2>5, <2>6, <2>7 DEF Next, Timers, Receive, ClientReads, Over
<1> QED
  BY <1>1, <1>2, TypeCorrect, PTL DEF Spec

(* Whatever it answers and when, the provider gets no more polls than the    *)
(* interval it asked for allows, and fewer by what each slow_down adds.      *)
THEOREM ProviderSpared == Spec => []LoadBounded
<1>1. TypeOK /\ Load => LoadBounded
  <2> SUFFICES ASSUME TypeOK, Load, stage = "token", NEW i \in {PollInterval, suggested}
               PROVE  sentAt >= toldAt + polls * i + slowdowns * SlowDownBy
    BY DEF LoadBounded
  <2> USE TimeAssumption
  <2>1. i \in Nat /\ i <= interval
    BY DEF Load, TypeOK
  <2>2. polls * i <= polls * interval
    BY <2>1, MoreOfMore DEF TypeOK
  <2>3. polls * i \in Nat /\ polls * interval \in Nat /\ slowdowns * SlowDownBy \in Nat
    BY <2>1, OneMore DEF TypeOK
  <2> QED
    BY <2>2, <2>3 DEF Load, TypeOK
<1> QED
  BY <1>1, TypeCorrect, LoadHolds, PTL

-----------------------------------------------------------------------------
(* No approval is lost *)

(* What time and the code say of each other: no request outlives its timeout, *)
(* no wait its timer, and which answers can be on their way.                 *)
Course ==
  /\ result = "failed" => stage = "done"
  /\ stage \in Requests => sentAt <= now /\ now <= sentAt + RequestTimeout
  /\ stage = "wait" => now <= timer /\ timer <= now + interval + SlowDownBy
  /\ stage = "discover" \/ (stage = "authorize" /\ reply # "ok") => code = "none"
  /\ stage = "authorize" => code # "spent"
  /\ stage = "authorize" /\ reply = "ok" => code # "none"
  /\ stage \in {"prompt", "wait"} => code \notin {"none", "spent"}
  /\ stage = "token" => code # "none"
  /\ stage = "token" /\ reply \in {"none", "pending", "slow_down"} => code # "spent"
  /\ stage = "token" /\ reply = "refused" => code \in {"denied", "expired"}

(* When, at the latest, a poll follows an approval and the prompt.           *)
Latest == LargerOf(approvedAt, toldAt) + RequestTimeout + interval + SlowDownBy

(* Where the flow stands after an approval that nothing has failed.          *)
Pending ==
  /\ stage = "authorize" => sentAt <= approvedAt
  /\ stage = "wait" => timer <= Latest
  /\ stage = "token" /\ reply \in {"none", "ok"} => sentAt <= Latest
  /\ stage = "token" /\ reply \in {"pending", "slow_down"} => sentAt <= approvedAt
  /\ result = "failed" => Latest + RequestTimeout >= AuthTimeout

Heard == code \in {"approved", "spent"} /\ excused = FALSE => Pending

LEMMA CourseHolds == Spec => []Course
<1> USE TimeAssumption
<1>1. Init => Course
  BY DEF Init, Course, Requests
<1>2. TypeOK /\ Course /\ [Next]_vars => Course'
  <2> SUFFICES ASSUME TypeOK, Course, [Next]_vars PROVE Course'
    OBVIOUS
  <2> USE DEF timing, history
  <2>1. CASE Timers
    BY <2>1 DEF Course, TypeOK, Timers, Poll, TimeOut, RequestTimesOut, Sends, Ends,
                Requests, provider
  <2>2. CASE Receive
    <3>1. CASE ReceiveDiscovery \/ ReceiveDeviceCode
      BY <3>1 DEF Course, TypeOK, ReceiveDiscovery, ReceiveDeviceCode, Sends, Requests, provider
    <3>2. ASSUME NEW answer \in {"pending", "slow_down"},
                 NEW wait \in {interval, interval + SlowDownBy}, PollAgain(answer, wait)
          PROVE  Course'
      BY <3>2 DEF Course, TypeOK, PollAgain, WaitsFor, Requests, provider
    <3>3. CASE ReceivePending
      BY <3>2, <3>3 DEF ReceivePending
    <3>4. CASE ReceiveSlowDown
      BY <3>2, <3>4 DEF ReceiveSlowDown
    <3>5. CASE ReceiveToken \/ ReceiveRefusal \/ RequestBreaks
      BY <3>5 DEF Course, ReceiveToken, AcceptsToken, ReceiveRefusal, RequestBreaks, Ends,
                  Requests, provider
    <3> QED
      BY <2>2, <3>1, <3>3, <3>4, <3>5 DEF Receive
  <2>3. CASE ClientReads
    <3>1. CASE Prompted
      <4>1. interval' \in Nat /\ timer' = now + interval' /\ stage' = "wait" /\ stage = "prompt"
            /\ UNCHANGED <<now, sentAt, reply, code, result>>
        BY <3>1 DEF Prompted, WaitsFor, LargerOf, TypeOK, provider
      <4> QED
        BY <4>1 DEF Course, TypeOK, Requests
    <3>2. CASE Confirmed
      BY <3>2 DEF Course, Confirmed, Ends, Requests, provider
    <3> QED
      BY <2>3, <3>1, <3>2 DEF ClientReads
  <2>4. CASE World
    <3>1. ASSUME NEW r \in {"ok", "refused"}, ServeSetup(r) PROVE Course'
      BY <3>1 DEF Course, ServeSetup, Reply, Requests
    <3>2. ASSUME NEW r \in {"ok", "pending", "slow_down", "refused"}, ServeToken(r)
          PROVE  Course'
      <4>1. /\ code = "pending" => r \in {"pending", "slow_down"}
            /\ code = "approved" => r \in {"ok", "slow_down"}
            /\ code \notin {"pending", "approved"} => r = "refused"
        BY <3>2 DEF ServeToken, Answers
      <4>2. /\ stage = "token" /\ reply = "none" /\ reply' = r
            /\ code' = IF r = "ok" THEN "spent" ELSE code
            /\ UNCHANGED <<now, stage, sentAt, timer, interval, result>>
        BY <3>2 DEF ServeToken, Reply
      <4> QED
        BY <4>1, <4>2 DEF Course, TypeOK, Requests
    <3>3. ASSUME NEW d \in {"approved", "denied"}, Decide(d) PROVE Course'
      BY <3>3 DEF Course, Decide, Requests, flow
    <3>4. CASE Expire
      BY <3>4 DEF Course, Expire, Requests, flow
    <3> QED
      BY <2>4, <3>1, <3>2, <3>3, <3>4 DEF World
  <2>5. CASE Tick
    <3>1. /\ stage \in Requests => ~(now >= sentAt + RequestTimeout)
          /\ stage = "wait" => ~(now >= timer)
      BY <2>5 DEF Tick, TimerDue, RequestOver
    <3> QED
      BY <2>5, <3>1 DEF Course, TypeOK, Tick, Requests, flow, provider
  <2>6. CASE UNCHANGED vars
    BY <2>6 DEF Course, vars, flow, provider, Requests
  <2> QED
    BY <2>1, <2>2, <2>3, <2>4, <2>5, <2>6 DEF Next, Over
<1> QED
  BY <1>1, <1>2, TypeCorrect, PTL DEF Spec

(* Where a flow has got to only moves what is due later.                     *)
LEMMA LatestAfterApproval ==
  ASSUME TypeOK
  PROVE  Latest \in Nat /\ Latest >= approvedAt + RequestTimeout + interval + SlowDownBy
  BY TimeAssumption DEF Latest, LargerOf, TypeOK

(* A request that is given up at the deadline was sent soon after the        *)
(* approval, if it was sent after it at all.                                 *)
LEMMA RequestTooLate ==
  ASSUME TypeOK, Course, Heard, code' \in {"approved", "spent"}, excused = FALSE,
         stage \in Requests, now >= AuthTimeout, stage' = "done", result' = "failed",
         UNCHANGED <<now, code, approvedAt, toldAt, interval>>
  PROVE  Pending'
<1> USE TimeAssumption
<1>1. Pending
  BY DEF Heard
<1>2. sentAt <= Latest /\ Latest \in Nat
  BY <1>1, LatestAfterApproval DEF Pending, Course, TypeOK, Requests
<1>3. Latest + RequestTimeout >= AuthTimeout
  BY <1>2 DEF Course, TypeOK
<1>4. Latest' = Latest
  BY DEF Latest, LargerOf
<1> QED
  BY <1>3, <1>4 DEF Pending, Requests

(* Once its user has approved, a flow only fails because a request failed it *)
(* or because the deadline came before one poll more could be answered.      *)
THEOREM NoApprovalLost == Spec => []ApprovalCounts
<1> USE TimeAssumption
<1>1. Init => Heard
  BY DEF Init, Heard
<1>2. TypeOK /\ Course /\ Heard /\ [Next]_vars => Heard'
  <2> SUFFICES ASSUME TypeOK, Course, Heard, [Next]_vars,
                      code' \in {"approved", "spent"}, excused' = FALSE
               PROVE  Pending'
    BY Zenon DEF Heard
  <2> USE DEF timing, history
  <2>0. Latest \in Nat /\ Latest >= approvedAt + RequestTimeout + interval + SlowDownBy
    BY LatestAfterApproval
  <2>1. CASE Timers
    <3>1. CASE Poll
      <4>1. stage = "wait" /\ stage' = "token" /\ sentAt' = now /\ reply' = "none"
            /\ UNCHANGED <<code, excused, approvedAt, toldAt, interval, result>>
        BY <3>1 DEF Poll, Sends, provider
      <4>2. Latest' = Latest
        BY <4>1 DEF Latest, LargerOf
      <4> QED
        BY <2>0, <4>1, <4>2 DEF Heard, Pending, Course, TypeOK
    <3>2. CASE TimeOut
      <4>1. stage = "wait" /\ now >= AuthTimeout /\ stage' = "done" /\ result' = "failed"
            /\ UNCHANGED <<now, code, excused, approvedAt, toldAt, interval>>
        BY <3>2 DEF TimeOut, Ends, provider
      <4>2. Latest' = Latest
        BY <4>1 DEF Latest, LargerOf
      <4>3. Latest + RequestTimeout >= AuthTimeout
        BY <2>0, <4>1 DEF Heard, Pending, Course, TypeOK
      <4> QED
        BY <4>1, <4>2, <4>3 DEF Pending
    <3>3. CASE RequestTimesOut
      <4>1. stage' = "done" /\ result' = "failed"
            /\ UNCHANGED <<now, code, approvedAt, toldAt, interval>>
        BY <3>3 DEF RequestTimesOut, Ends, provider
      <4>2. stage \in Requests /\ excused' = (excused \/ now < AuthTimeout)
        BY <3>3 DEF RequestTimesOut
      <4>3. excused = FALSE /\ ~(now < AuthTimeout)
        BY <4>2, Zenon DEF TypeOK
      <4>4. now >= AuthTimeout
        BY <4>3 DEF TypeOK
      <4> QED
        BY <4>1, <4>2, <4>3, <4>4, RequestTooLate
    <3> QED
      BY <2>1, <3>1, <3>2, <3>3 DEF Timers
  <2>2. CASE Receive
    <3>1. CASE ReceiveDiscovery
      BY <3>1 DEF ReceiveDiscovery, Course, provider
    <3>2. CASE ReceiveDeviceCode
      <4>1. stage' = "prompt" /\ stage = "authorize" /\ result' = result
        BY <3>2 DEF ReceiveDeviceCode
      <4> QED
        BY <4>1 DEF Pending, Course
    <3>3. ASSUME NEW answer \in {"pending", "slow_down"},
                 NEW wait \in {interval, interval + SlowDownBy}, PollAgain(answer, wait)
          PROVE  Pending'
      <4>1. /\ stage = "token" /\ reply = answer /\ stage' = "wait"
            /\ timer' = now + wait
            /\ UNCHANGED <<now, code, excused, approvedAt, toldAt, interval, result>>
        BY <3>3 DEF PollAgain, WaitsFor, provider
      <4>2. Latest' = Latest
        BY <4>1 DEF Latest, LargerOf
      <4>3. timer' <= Latest
        BY <2>0, <4>1 DEF Heard, Pending, Course, TypeOK, Requests
      <4> QED
        BY <4>1, <4>2, <4>3 DEF Pending, Course
    <3>4. CASE ReceivePending
      BY <3>3, <3>4 DEF ReceivePending
    <3>5. CASE ReceiveSlowDown
      BY <3>3, <3>5 DEF ReceiveSlowDown
    <3>6. CASE ReceiveToken
      <4>1. stage = "token" /\ stage' = "confirm" /\ result' = result
        BY <3>6 DEF ReceiveToken, AcceptsToken
      <4> QED
        BY <4>1 DEF Pending, Course
    <3>7. CASE ReceiveRefusal
      <4>1. stage \in Requests /\ reply = "refused" /\ code' = code
        BY <3>7 DEF ReceiveRefusal, provider
      <4> QED
        BY <4>1 DEF Course, Requests
    <3>8. CASE RequestBreaks
      <4>1. stage' = "done" /\ result' = "failed"
            /\ UNCHANGED <<now, code, approvedAt, toldAt, interval>>
        BY <3>8 DEF RequestBreaks, Ends, provider
      <4>2. stage \in Requests /\ excused' = (excused \/ now < AuthTimeout)
        BY <3>8 DEF RequestBreaks
      <4>3. excused = FALSE /\ ~(now < AuthTimeout)
        BY <4>2, Zenon DEF TypeOK
      <4>4. now >= AuthTimeout
        BY <4>3 DEF TypeOK
      <4> QED
        BY <4>1, <4>2, <4>3, <4>4, RequestTooLate
    <3> QED
      BY <2>2, <3>1, <3>2, <3>4, <3>5, <3>6, <3>7, <3>8 DEF Receive
  <2>3. CASE ClientReads
    <3>1. CASE Prompted
      <4>1. /\ stage = "prompt" /\ stage' = "wait" /\ result' = result
            /\ interval' \in Nat /\ timer' = now + interval' /\ toldAt' = now
            /\ approvedAt' = approvedAt
        BY <3>1 DEF Prompted, WaitsFor, LargerOf, TypeOK, provider
      <4>2. timer' <= Latest'
        BY <4>1 DEF Latest, LargerOf, TypeOK
      <4> QED
        BY <4>1, <4>2 DEF Pending, Course
    <3>2. CASE Confirmed
      BY <3>2 DEF Confirmed, Ends, Pending
    <3> QED
      BY <2>3, <3>1, <3>2 DEF ClientReads
  <2>4. CASE World
    <3>1. ASSUME NEW r \in {"ok", "refused"}, ServeSetup(r) PROVE Pending'
      <4>1. /\ stage \in {"discover", "authorize"} /\ reply = "none"
            /\ code' = IF stage = "authorize" /\ r = "ok" THEN "pending" ELSE code
        BY <3>1 DEF ServeSetup, Reply
      <4> QED
        BY <4>1 DEF Course
    <3>2. ASSUME NEW r \in {"ok", "pending", "slow_down", "refused"}, ServeToken(r)
          PROVE  Pending'
      <4>1. /\ code = "pending" => r \in {"pending", "slow_down"}
            /\ code = "approved" => r \in {"ok", "slow_down"}
            /\ code \notin {"pending", "approved"} => r = "refused"
        BY <3>2 DEF ServeToken, Answers
      <4>2. /\ stage = "token" /\ reply = "none" /\ reply' = r
            /\ code' = IF r = "ok" THEN "spent" ELSE code
            /\ UNCHANGED <<stage, sentAt, approvedAt, toldAt, interval, result>>
        BY <3>2 DEF ServeToken, Reply
      <4>3. excused = FALSE /\ ~(r = "slow_down" /\ code = "approved")
        BY <3>2 DEF ServeToken, TypeOK
      <4>4. code = "approved" /\ r = "ok"
        BY <4>1, <4>2, <4>3 DEF Course
      <4> QED
        BY <4>2, <4>3, <4>4 DEF Heard, Pending, Latest, LargerOf
    <3>3. ASSUME NEW d \in {"approved", "denied"}, Decide(d) PROVE Pending'
      <4>1. /\ stage # "done" /\ code = "pending" /\ approvedAt' = now
            /\ UNCHANGED <<stage, sentAt, reply, timer, toldAt, interval, result>>
        BY <3>3 DEF Decide, flow
      <4>2. Latest' \in Nat /\ Latest' >= now + RequestTimeout + interval + SlowDownBy
        BY <4>1 DEF Latest, LargerOf, TypeOK
      <4> QED
        BY <4>1, <4>2 DEF Pending, Course, TypeOK, Requests
    <3>4. CASE Expire
      BY <3>4 DEF Expire
    <3> QED
      BY <2>4, <3>1, <3>2, <3>3, <3>4 DEF World
  <2>5. CASE Tick \/ UNCHANGED vars
    <3>1. UNCHANGED <<flow, provider, excused>>
      BY <2>5 DEF Tick, vars
    <3> QED
      BY <3>1 DEF Heard, Pending, Latest, LargerOf, flow, provider
  <2> QED
    BY <2>1, <2>2, <2>3, <2>4, <2>5 DEF Next, Over
<1>3. TypeOK /\ Heard => ApprovalCounts
  <2>1. TypeOK /\ ~excused => excused = FALSE
    BY Zenon DEF TypeOK
  <2>2. TypeOK /\ Heard /\ result = "failed" /\ code \in {"approved", "spent"} /\ ~excused
          => LargerOf(approvedAt, toldAt) + RequestTimeout + interval + SlowDownBy + RequestTimeout
               >= AuthTimeout
    BY <2>1 DEF Heard, Pending, Latest
  <2> QED
    BY <2>2 DEF ApprovalCounts
<1> QED
  BY <1>1, <1>2, <1>3, TypeCorrect, CourseHolds, PTL DEF Spec
=============================================================================
