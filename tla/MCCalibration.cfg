SPECIFICATION TimerSpec
CONSTANTS
  cpu1 = cpu1
  cpu2 = cpu2
  Offsets <- MCOffsets
  Rates <- MCRates
  NanosPerSecond = 10
  Interval = 2
  Samples = 3
  Attempts = 4
  SafetyTimeout = 3
  U32Max = 6
  U64Max = 2000
  MaxNow = 5
  Timeouts <- MCTimeouts
CHECK_DEADLOCK FALSE
INVARIANTS
  TimerNeverFast
  NeverOversleeps
  TimerIsArmed
