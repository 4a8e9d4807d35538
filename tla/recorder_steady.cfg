\* Steady operation with a crash and a restart, no termination signal.
CONSTANTS
  s1 = s1
  s2 = s2
  NONE = NONE
  SourceOrder <- OneSource
  MaxSeq = 1
  MaxBuffer = 2
  BackoffInitial = 1
  BackoffMax = 2
  MaxSamples = 3
  MaxCrashes = 1
  MaxRestarts = 1
  MaxSignals = 0
SPECIFICATION Spec
INVARIANT TypeOK
