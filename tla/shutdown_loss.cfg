\* Clean shutdown: does run()'s final flush keep every buffered sample?
CONSTANTS
  s1 = s1
  s2 = s2
  NONE = NONE
  SourceOrder <- OneSource
  MaxSeq = 0
  MaxBuffer = 2
  BackoffInitial = 1
  BackoffMax = 1
  MaxSamples = 3
  MaxCrashes = 0
  MaxRestarts = 0
  MaxSignals = 1
SPECIFICATION Spec
INVARIANT ShutdownKeepsBuffered
