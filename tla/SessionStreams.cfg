\* Two copiers; input and output of two chunks; with and without other sessions.
CONSTANTS
  Outputs <- MCOutputs
  Chunks <- MCChunks
SPECIFICATION Spec
INVARIANTS
  TypeOK
  AuditLag
PROPERTIES
  SessionEnds
  CopiersStop
