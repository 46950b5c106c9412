\* Two sessions that share one connection and so one SessionState.
CONSTANTS
  k1 = k1
  k2 = k2
  c1 = c1
  c2 = c2
  Conns = {k1}
  Channels = {c1, c2}
  Streams = {}
  None = None
  ConnOf <- OneConnection
  Configs <- TwoConfigs
SPECIFICATION Spec
SYMMETRY ChannelSymmetry
INVARIANTS
  TypeOK
  AdmissionPolicy
  HandlesLive
  ExitStatusOnce
  NothingLeaks
  MetricsBalance
PROPERTIES
  Promise
