\* Two sessions at a time, three servers, one retry, ints of three bits.
CONSTANTS
  s1 = s1
  s2 = s2
  Sessions = {s1, s2}
  N = 3
  Rounds = 2
  Resolves <- MCResolves
  Accepts <- MCAccepts
  Agents <- MCAgents
  MaxInt = 3
  MaxStarts = 4
SPECIFICATION Spec
INVARIANTS
  TypeOK
  ExhaustedOnFailure
  FirstAvailable
  BalancedStarts
PROPERTIES
  ServedWhileUp
