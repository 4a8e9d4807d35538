\* The first recorder: does the unlocked flush lose appended samples?
CONSTANTS
  s1 = s1
  s2 = s2
  NONE = NONE
  SourceOrder <- TwoSources
  MaxSeq = 1
  MaxSamples = 3
SPECIFICATION Spec
INVARIANT NoLostSample
