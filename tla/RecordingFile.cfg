\* The three copiers of a session with two chunks each; about two failing writes.
CONSTANTS
  Streams = {"stdin", "stdout", "stderr"}
  None = None
  MaxChunks = 2
  MaxTime = 1
  MaxFailures = 2
SPECIFICATION Spec
INVARIANTS
  TypeOK
  TimesMonotonic
  DamageBounded
  AcknowledgedKept
PROPERTY Atomic
