\* Both sources, overflow at a bound below 10 (where `or 1` decides the
\* drop count), a signal, a crash and a restart.
CONSTANTS
  s1 = s1
  s2 = s2
  NONE = NONE
  SourceOrder <- TwoSources
  MaxSeq = 0
  MaxBuffer = 2
  BackoffInitial = 1
  BackoffMax = 1
  MaxSamples = 3
  MaxCrashes = 1
  MaxRestarts = 1
  MaxSignals = 1
SPECIFICATION Spec
INVARIANT BufferBound
INVARIANT EvictsOldest
