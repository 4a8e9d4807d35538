\* The first recorder: log order and the joined clean shutdown.
CONSTANTS
  s1 = s1
  s2 = s2
  NONE = NONE
  SourceOrder <- TwoSources
  MaxSeq = 2
  MaxSamples = 4
SPECIFICATION Spec
INVARIANT TypeOK
INVARIANT LogOrder
INVARIANT ExitLeavesNothingBuffered
INVARIANT MissingCountExact
