\* Up to three rows of two machines, timestamps 0..3 over two days of two
\* seconds, MAX_GAP_SECONDS = 1.
CONSTANTS
  m1 = m1
  m2 = m2
  NONE = NONE
  MachineOrder <- TwoMachines
  MaxTime = 3
  MaxRows = 3
  MaxGap = 1
  NumCols = 1
  DayLen = 2
SPECIFICATION Spec
INVARIANT TypeOK
INVARIANT GroupsAreMaximalRuns
INVARIANT SplitOnlyUndercounts
