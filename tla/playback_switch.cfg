\* Two machines whose frames have four and two rows.
CONSTANTS
  m1 = m1
  m2 = m2
  Machines <- TwoMachines
  FirstMachine = m1
  RowCount <- UnequalFrames
  MaxInputs = 4
SPECIFICATION Spec
INVARIANT IndexInRange
