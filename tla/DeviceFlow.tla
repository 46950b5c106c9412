----------------------------- MODULE DeviceFlow -----------------------------
(***************************************************************************)
(* One SSO confirmation: AuthenticateDeviceFlow and pollForToken of        *)
(* internal/sso/sso.go, against an identity provider, its user and a       *)
(* network that may each be slow or fail.  What becomes of the answer,     *)
(* and how sessions of one connection share it, is in ProxyConnection.     *)
(*                                                                         *)
(* Time passes in ticks.  A goroutine whose timer is due runs before the   *)
(* next tick; the network, the provider and the user take any time, and so *)
(* does the client: what the flow tells it is written to its SSH channel,  *)
(* under no timer and no context, and waits until the client reads.        *)
(***************************************************************************)
EXTENDS Integers

CONSTANTS
  AuthTimeout, PollInterval, RequestTimeout,  \* sso.Config, in ticks
  SlowDownBy,  \* 5 seconds, in ticks
  Suggested,   \* intervals the provider may ask for; 0 for none
  MaxTime      \* bound: the clock stops here

ASSUME TimeAssumption ==
  /\ {AuthTimeout, PollInterval, RequestTimeout} \subseteq Nat \ {0}
  /\ {SlowDownBy, MaxTime} \subseteq Nat /\ AuthTimeout < MaxTime
  /\ Suggested \subseteq Nat

VARIABLES
  now,       \* since the flow began
  stage,     \* the goroutine: its request, its wait to poll, or its write to the client
  sentAt,    \* when the latest request was sent
  reply,     \* the provider's answer to it, on its way
  interval,  \* pollInterval
  suggested, \* the interval the provider asked for
  timer,     \* when time.After(wait) fires
  result,
  code,      \* the device code, at the provider
  toldAt,    \* history: when the link had been written to the client
  polls,     \* history: how many polls were sent
  slowdowns, \* history: how many of them were answered by slow_down
  tokenAt,   \* history: when the token was received
  approvedAt, \* history: when the user approved
  excused    \* history: the provider or the network failed the flow

timing == <<interval, suggested, timer>>
history == <<toldAt, polls, slowdowns, tokenAt>>
flow == <<stage, sentAt, reply, timing, result, history>>
provider == <<code, approvedAt>>
vars == <<now, flow, provider, excused>>

Requests == {"discover", "authorize", "token"}
Writes == {"prompt", "confirm"}

TypeOK ==
  /\ {now, sentAt, interval, timer, toldAt, polls, slowdowns, tokenAt, approvedAt} \subseteq Nat
  /\ stage \in Requests \cup Writes \cup {"wait", "done"}
  /\ reply \in {"none", "ok", "pending", "slow_down", "refused"}
  /\ suggested \in Suggested
  /\ result \in {"none", "confirmed", "failed"}
  /\ code \in {"none", "pending", "approved", "denied", "expired", "spent"}
  /\ excused \in BOOLEAN

Init ==
  /\ now = 0
  /\ stage = "discover"
  /\ sentAt = 0
  /\ reply = "none"
  /\ interval = PollInterval
  /\ suggested \in Suggested
  /\ timer = 0
  /\ result = "none"
  /\ code = "none"
  /\ toldAt = 0
  /\ polls = 0
  /\ slowdowns = 0
  /\ tokenAt = 0
  /\ approvedAt = 0
  /\ excused = FALSE

------------------------------------------------------------------------------
(* The goroutine *)

Sends(r) == /\ stage' = r
            /\ sentAt' = now
            /\ reply' = "none"

Ends(r) == /\ stage' = "done"
           /\ result' = r

\* Mutant: the timer is set to a span instead of an instant.
WaitsForSpan(wait) == stage' = "wait" /\ timer' = wait - now

WaitsFor(wait) == /\ stage' = "wait"
                  /\ timer' = now + wait

\* Mutant: the request has no timeout and does not carry the context.
RequestNeverOver == FALSE

\* http.Client.Timeout and the context of the request, whichever comes first.
RequestOver == now >= sentAt + RequestTimeout \/ now >= AuthTimeout

LargerOf(a, b) == IF a >= b THEN a ELSE b

ReceiveDiscovery ==
  /\ stage = "discover" /\ reply = "ok"
  /\ Sends("authorize")
  /\ UNCHANGED <<now, timing, result, history, provider, excused>>

ReceiveDeviceCode ==
  /\ stage = "authorize" /\ reply = "ok"
  /\ stage' = "prompt"
  /\ UNCHANGED <<now, sentAt, reply, timing, result, history, provider, excused>>

\* The client has read the link, or its channel is gone and the error ignored:
\* only now does the flow begin to wait.
Prompted ==
  /\ stage = "prompt"
  /\ interval' = LargerOf(PollInterval, suggested)
  /\ WaitsFor(interval')
  /\ toldAt' = now
  /\ UNCHANGED <<now, sentAt, reply, suggested, result, polls, slowdowns, tokenAt, provider, excused>>

\* The select of pollForToken: when the timer and the context are both done,
\* either branch may be taken.
Poll ==
  /\ stage = "wait" /\ now >= timer
  /\ Sends("token")
  /\ polls' = polls + 1
  /\ UNCHANGED <<now, timing, result, toldAt, slowdowns, tokenAt, provider, excused>>

TimeOut ==
  /\ stage = "wait" /\ now >= AuthTimeout
  /\ Ends("failed")
  /\ UNCHANGED <<now, sentAt, reply, timing, history, provider, excused>>

PollAgain(answer, wait) ==
  /\ stage = "token" /\ reply = answer
  /\ WaitsFor(wait)
  /\ slowdowns' = slowdowns + (IF answer = "slow_down" THEN 1 ELSE 0)
  /\ UNCHANGED <<now, sentAt, reply, interval, suggested, result, toldAt, polls, tokenAt,
                 provider, excused>>

ReceivePending ==
  PollAgain("pending", interval)

\* Mutants: slow_down is handled like authorization_pending, or like an error.
ReceiveSlowDownAsPending == PollAgain("slow_down", interval)
ReceiveSlowDownAsError ==
  /\ stage = "token" /\ reply = "slow_down"
  /\ Ends("failed")
  /\ UNCHANGED <<now, sentAt, reply, timing, history, provider, excused>>

ReceiveSlowDown ==
  PollAgain("slow_down", interval + SlowDownBy)

AcceptsToken ==
  /\ stage' = "confirm"
  /\ tokenAt' = now
  /\ UNCHANGED <<now, sentAt, reply, timing, result, toldAt, polls, slowdowns, provider, excused>>

\* Mutant: the status of the answer is not looked at.
ReceiveAnyAnswer ==
  /\ stage = "token" /\ reply \in {"ok", "pending"}
  /\ AcceptsToken

ReceiveToken ==
  /\ stage = "token" /\ reply = "ok"
  /\ AcceptsToken

\* The client has read that it is confirmed, or its channel is gone.
Confirmed ==
  /\ stage = "confirm"
  /\ Ends("confirmed")
  /\ UNCHANGED <<now, sentAt, reply, timing, history, provider, excused>>

\* expired_token, access_denied or any other error of the provider.
ReceiveRefusal ==
  /\ stage \in Requests /\ reply = "refused"
  /\ Ends("failed")
  /\ UNCHANGED <<now, sentAt, reply, timing, history, provider, excused>>

\* The request takes too long: the flow fails, without another attempt.
RequestTimesOut ==
  /\ stage \in Requests /\ RequestOver
  /\ Ends("failed")
  /\ excused' = (excused \/ now < AuthTimeout)
  /\ UNCHANGED <<now, sentAt, reply, timing, history, provider>>

\* The connection breaks, or the answer cannot be decoded.
RequestBreaks ==
  /\ stage \in Requests
  /\ Ends("failed")
  /\ excused' = (excused \/ now < AuthTimeout)
  /\ UNCHANGED <<now, sentAt, reply, timing, history, provider>>

------------------------------------------------------------------------------
(* The identity provider, its user, the client, and time *)

\* The answers the provider may give to a token request.
Answers == CASE code = "pending" -> {"pending", "slow_down"}
             [] code = "approved" -> {"ok", "slow_down"}
             [] OTHER -> {"refused"}

\* A request whose context is done is never sent.
Reply(r) ==
  /\ reply = "none"
  /\ sentAt < AuthTimeout
  /\ reply' = r
  /\ UNCHANGED <<now, stage, sentAt, timing, result, history, approvedAt>>

ServeSetup(r) ==
  /\ stage \in {"discover", "authorize"}
  /\ Reply(r)
  /\ code' = IF stage = "authorize" /\ r = "ok" THEN "pending" ELSE code
  /\ UNCHANGED excused

ServeToken(r) ==
  /\ stage = "token" /\ r \in Answers
  /\ Reply(r)
  /\ code' = IF r = "ok" THEN "spent" ELSE code
  /\ excused' = (excused \/ (r = "slow_down" /\ code = "approved"))

Decide(d) ==
  /\ stage # "done" /\ code = "pending"
  /\ code' = d
  /\ approvedAt' = now
  /\ UNCHANGED <<now, flow, excused>>

Expire ==
  /\ stage # "done" /\ code \in {"pending", "approved"}
  /\ code' = "expired"
  /\ excused' = (excused \/ code = "approved")
  /\ UNCHANGED <<now, flow, approvedAt>>

TimerDue == \/ stage = "wait" /\ (now >= timer \/ now >= AuthTimeout)
            \/ stage \in Requests /\ RequestOver

Tick ==
  /\ stage # "done" /\ ~TimerDue
  /\ now < MaxTime
  /\ now' = now + 1
  /\ UNCHANGED <<flow, provider, excused>>

------------------------------------------------------------------------------
Timers == Poll \/ TimeOut \/ RequestTimesOut

Receive ==
  \/ ReceiveDiscovery \/ ReceiveDeviceCode \/ ReceivePending \/ ReceiveSlowDown
  \/ ReceiveToken \/ ReceiveRefusal \/ RequestBreaks

ClientReads == Prompted \/ Confirmed

World ==
  \/ \E r \in {"ok", "refused"} : ServeSetup(r)
  \/ \E r \in {"ok", "pending", "slow_down", "refused"} : ServeToken(r)
  \/ \E d \in {"approved", "denied"} : Decide(d)
  \/ Expire

Over == stage = "done" /\ UNCHANGED vars

Next == Timers \/ Receive \/ ClientReads \/ World \/ Tick \/ Over

\* Time passes and due timers fire; nobody outside the process is trusted to
\* answer or to read.
Spec == Init /\ [][Next]_vars /\ WF_vars(Timers) /\ WF_vars(Tick)

------------------------------------------------------------------------------
(* Properties *)

\* The flow confirms a session only if its user approved it and the device code
\* was exchanged once, all of that before the timeout (sso.go:151, 304, 335-343):
\* the token may not be accepted late even if the prompt or a reply was delayed.
ConfirmedInTime ==
  stage = "confirm" \/ result = "confirmed" =>
    code = "spent" /\ approvedAt <= tokenAt /\ tokenAt <= AuthTimeout

\* What the provider is spared over the whole flow: each poll comes no earlier
\* than one interval for it and for every poll before it, the configured interval
\* and the one the provider asked for, and each slow_down so far delays it by as
\* much again as the code adds (sso.go:177-183, 305-310, 350-355).  The code goes
\* back to the old interval after the next answer: a slow_down counts once.
LoadBounded ==
  stage = "token" =>
    \A i \in {PollInterval, suggested} : sentAt >= toldAt + polls * i + slowdowns * SlowDownBy

\* A user who approves, and whose client has read the link, while there is time
\* for the poll in flight, the longest wait and one more poll is let in, unless a
\* request fails on the way: neither the waits nor the races of the select lose an
\* approval (sso.go:305-363).
ApprovalCounts ==
  result = "failed" /\ code \in {"approved", "spent"} /\ ~excused =>
    LargerOf(approvedAt, toldAt) + RequestTimeout + interval + SlowDownBy + RequestTimeout
      >= AuthTimeout

\* Every flow comes to an end, even if nobody ever answers (sso.go:151), with one
\* exception: a client that never reads what it is told holds the flow for ever,
\* whatever the timeout (sso.go:163-175, 189-192).
FlowEnds == <>(stage = "done") \/ <>[](stage \in Writes)
==============================================================================
