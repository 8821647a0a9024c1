SPECIFICATION StoreWakeSpec
CONSTANTS
  Values <- MCValues
  SpinIterations = 2
INVARIANTS
  NoLostWake
  AtMostOneBlock
PROPERTIES
  StoreEndsWait
  ImplementsContract
  KeepsContractPromises
