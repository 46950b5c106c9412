\* Time for a few polls; providers that ask for less, as much and more.
CONSTANTS
  AuthTimeout = 12
  PollInterval = 2
  RequestTimeout = 2
  SlowDownBy = 1
  Suggested = {0, 3}
  MaxTime = 15
SPECIFICATION Spec
INVARIANTS
  TypeOK
  ConfirmedInTime
  LoadBounded
  ApprovalCounts
PROPERTIES
  FlowEnds
