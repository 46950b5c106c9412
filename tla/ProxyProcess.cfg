\* Every input with every interleaving of three starts.
CONSTANTS
  p1 = p1
  p2 = p2
  p3 = p3
  Procs = {p1, p2, p3}
  None = None
  Missing = Missing
  Junk = Junk
  NoCA = NoCA
  Absent = Absent
  Lines = 2
  Defaults <- MCDefaults
  Second <- MCSecond
  MaxInt <- MCMaxInt
  Keys <- MCKeys
  Inputs <- MCInputs
SPECIFICATION Spec
SYMMETRY Restarts
INVARIANTS
  TypeOK
  KeyPersists
  LoadedUsable
  
