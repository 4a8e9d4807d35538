\* Two machines whose frames both have five rows; up to six user inputs
\* (Play/Pause, Reset, select box).  The app idles once no rerun is
\* pending and the inputs are used up.
CONSTANTS
  m1 = m1
  m2 = m2
  Machines <- TwoMachines
  FirstMachine = m1
  RowCount <- EqualFrames
  MaxInputs = 6
SPECIFICATION FairSpec
INVARIANT TypeOK
PROPERTY PlaybackEnds
CHECK_DEADLOCK FALSE
