\* One channel of a client that wants a reply to the requests named in Wants.
CONSTANTS
  c1 = c1
  c2 = c2
  v1 = v1
  v2 = v2
  Channels = {c1}
  Values = {v1, v2}
  Sizes = {0, 1}
  Wants = {"env", "pty-req", "shell", "subsystem"}
  Static = FALSE
  None = None
  MaxRequests = 2
SPECIFICATION Spec
SYMMETRY Interchangeable
INVARIANTS
  UnsupportedRejected
