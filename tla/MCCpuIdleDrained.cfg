SPECIFICATION Spec
CONSTANTS
  p1 = p1
  p2 = p2
  o1 = o1
  r1 = r1
  r2 = r2
  NoProc = NoProc
  Procs <- MCProcs
  Ops <- MCOneOp
  Requests <- MCOneRequest
  Desired <- MCOneEntry
  MaxFaults = 1
  MaxBoots = 1
SYMMETRY Symmetry
INVARIANTS
  RefusesRestorationUntilDrained
