SPECIFICATION Spec
CONSTANTS
  c1 = c1
  c2 = c2
  Callers <- MCOneCaller
  Machines <- MCIntel
  StoreAttempts = 3
  RequiredObservations = 2
  SafetyTicks = 2
  MaxBaseline = 3
  MaxClock = 3
INVARIANTS
  VerdictIsEvidence
  TimerIsNoEvidence
