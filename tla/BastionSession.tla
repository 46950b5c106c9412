--------------------------- MODULE BastionSession ---------------------------
(***************************************************************************)
(* What the proxy promises to the clients of one or more connections,      *)
(* without saying how: no session reaches a target unless its connection   *)
(* is confirmed, and every session that ends while its client is there has *)
(* told the client one exit status.  ProxyConnection implements it.        *)
(***************************************************************************)
EXTENDS Integers

CONSTANTS Conns, Channels, ConnOf

VARIABLES
  confirmed,  \* the connections whose sessions may reach a target
  phase,      \* of each session
  present,    \* the sessions whose client still has the channel
  told        \* how many exit statuses the client was sent

vars == <<confirmed, phase, present, told>>

Init ==
  /\ confirmed \in {{}, Conns}
  /\ phase = [c \in Channels |-> "idle"]
  /\ present = Channels
  /\ told = [c \in Channels |-> 0]

Move(c, from, to) == /\ phase[c] = from
                     /\ phase' = [phase EXCEPT ![c] = to]

\* The client is told, if it is there and has not been told before.
TellOnce(c) ==
  told' = [told EXCEPT ![c] = IF c \in present THEN 1 ELSE @]

HangUp(S) ==
  /\ present' = present \ S
  /\ UNCHANGED <<confirmed, phase, told>>

Request(c) ==
  /\ Move(c, "idle", "pending")
  /\ UNCHANGED <<confirmed, present, told>>

Confirm(c) ==
  /\ phase[c] = "pending"
  /\ confirmed' = confirmed \cup {ConnOf[c]}
  /\ UNCHANGED <<phase, present, told>>

Proxy(c) ==
  /\ ConnOf[c] \in confirmed
  /\ Move(c, "pending", "proxied")
  /\ UNCHANGED <<confirmed, present, told>>

\* The remote command is over while the target is still held.
Finish(c) ==
  /\ phase[c] = "proxied"
  /\ TellOnce(c)
  /\ UNCHANGED <<confirmed, phase, present>>

LetGo(c) ==
  /\ Move(c, "proxied", "released")
  /\ UNCHANGED <<confirmed, present, told>>

\* Nothing more happens to a session that has ended.
End(c) ==
  /\ \E from \in {"pending", "released"} : Move(c, from, "ended")
  /\ TellOnce(c)
  /\ UNCHANGED <<confirmed, present>>

Next ==
  \/ \E S \in SUBSET Channels : HangUp(S)
  \/ \E c \in Channels : \/ Request(c) \/ Confirm(c) \/ Proxy(c)
                         \/ Finish(c) \/ LetGo(c) \/ End(c)

Spec == Init /\ [][Next]_vars
==============================================================================
