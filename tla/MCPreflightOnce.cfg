SPECIFICATION FairSpec
CONSTANTS
  c1 = c1
  c2 = c2
  Callers <- MCTwoCallers
  Machines <- MCMachines
  StoreAttempts = 1
  RequiredObservations = 1
  SafetyTicks = 1
  MaxBaseline = 2
  MaxClock = 2
INVARIANTS
  OneVerdict
PROPERTIES
  PreflightReturns
