SPECIFICATION Spec
CONSTANTS
  MaxEdits = 1
  MaxFaults = 0
  Packages <- MCPackages
  Root = "bench"
  Resolutions <- MCResolutions
CHECK_DEADLOCK FALSE
INVARIANT
  ValidatedIsHead
