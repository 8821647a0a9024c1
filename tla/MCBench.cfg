SPECIFICATION BenchSpec
CONSTANTS
  MaxEvents = 2
  MaxSamples = 2
  Repetitions = 2
  Plans <- MCPlans
  Previous = Previous
INVARIANTS
  SampleMatchesEvent
  PublishedIsComplete
  FailedRunKeepsResult
  MeasuredAlone
PROPERTIES
  SuccessIsDurable
  BenchEnds
CHECK_DEADLOCK FALSE
