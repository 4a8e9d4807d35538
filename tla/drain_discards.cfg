\* Does a flush deliver what it drains to the log, as the spec promises?
CONSTANTS
  s1 = s1
  s2 = s2
  NONE = NONE
  SourceOrder <- OneSource
  MaxSeq = 1
  MaxBuffer = 2
  BackoffInitial = 1
  BackoffMax = 1
  MaxSamples = 3
  MaxCrashes = 0
  MaxRestarts = 0
  MaxSignals = 0
SPECIFICATION Spec
PROPERTY Refinement
