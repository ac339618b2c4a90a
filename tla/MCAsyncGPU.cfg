CONSTANTS
  MaxOps = 5  MaxMarks = 3
SPECIFICATION FairSpec
INVARIANTS
  DirectIsExclusive
  MarksInOrder
PROPERTIES
  ProgramOrder
  UpdatesApplied
CHECK_DEADLOCK FALSE
