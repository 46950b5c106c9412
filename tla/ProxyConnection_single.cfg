\* One session on one connection, all configurations, all three copiers.
CONSTANTS
  k1 = k1
  k2 = k2
  c1 = c1
  c2 = c2
  Conns = {k1}
  Channels = {c1}
  Streams = {"stdin", "stdout", "stderr"}
  None = None
  ConnOf <- OneConnection
  Configs <- AllConfigs
SPECIFICATION Spec
INVARIANTS
  OwnRecorder
PROPERTIES
  HandlersReturn
