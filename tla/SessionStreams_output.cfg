\* A session whose command writes one chunk and exits.
CONSTANTS
  Outputs <- BothOutputs
  Chunks <- OneChunk
SPECIFICATION Spec
INVARIANT OutputComplete
