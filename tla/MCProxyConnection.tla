-------------------------- MODULE MCProxyConnection --------------------------
(* Small instances of ProxyConnection: which channel is on which connection, *)
(* and the configurations worth telling apart.                               *)
EXTENDS ProxyConnection, TLC

CONSTANTS k1, k2, c1, c2

\* Two sessions multiplexed on one connection, and one session per connection.
OneConnection == [c \in Channels |-> k1]
OwnConnections == [c \in Channels |-> IF c = c1 THEN k1 ELSE k2]

Config(s, e, d, r) == [sso |-> s, enforce |-> e, direct |-> d, static |-> r]

\* With a second factor; the other switches are on in one and off in the other.
TwoConfigs == {Config(TRUE, TRUE, FALSE, FALSE), Config(TRUE, FALSE, TRUE, TRUE)}
\* No second factor, direct commands, static routing.
OneConfig == {Config(FALSE, FALSE, TRUE, TRUE)}
AllConfigs == {Config(s, e, d, r) : s, e, d, r \in BOOLEAN}

ChannelSymmetry == Permutations(Channels)
==============================================================================
