SPECIFICATION Spec
CONSTANTS
  MaxEdits = 2
  MaxFaults = 2
  Packages <- MCPackages
  Root = "bench"
  Resolutions <- MCResolutions
CHECK_DEADLOCK FALSE
INVARIANTS
  StatusMeansDrained
  NoCargoLeftBehind
  ReceiptNamesHead
  ReceiptIsTracked
PROPERTIES
  OrphanedCargoIsDrained
  BuildReturns
