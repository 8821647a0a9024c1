SPECIFICATION Spec
CONSTANTS
  p1 = p1
  p2 = p2
  o1 = o1
  r1 = r1
  r2 = r2
  NoProc = NoProc
  Procs <- MCProcs
  Ops <- MCOneOp
  Requests <- MCTwoRequests
  Desired <- MCDesired
  MaxFaults = 2
  MaxBoots = 2
SYMMETRY Symmetry
INVARIANTS
  PolicyIsJournaled
  RestoreWaitsForGuardian
  WorkloadRunsUnderPolicy
  RepliesAgree
PROPERTIES
  JournalIsAppendOnly
