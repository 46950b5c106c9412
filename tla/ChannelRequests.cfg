\* Two channels that want no replies; every request may come at any time.
CONSTANTS
  c1 = c1
  c2 = c2
  v1 = v1
  v2 = v2
  Channels = {c1, c2}
  Values = {v1, v2}
  Sizes = {0, 1, 2}
  Wants = {}
  Static = FALSE
  None = None
  MaxRequests = 5
SPECIFICATION Spec
SYMMETRY Interchangeable
INVARIANTS
  TypeOK
  VariablesFresh
  TerminalGranted
  StaleOnlyByRace
