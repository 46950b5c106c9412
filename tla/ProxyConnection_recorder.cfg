\* Two sessions that share one connection and so one SessionState.
CONSTANTS
  k1 = k1
  k2 = k2
  c1 = c1
  c2 = c2
  Conns = {k1}
  Channels = {c1, c2}
  Streams = {"stdout"}
  None = None
  ConnOf <- OneConnection
  Configs <- OneConfig
SPECIFICATION Spec
SYMMETRY ChannelSymmetry
INVARIANT OwnRecorder
