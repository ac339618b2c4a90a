CONSTANTS
  MAX_COUNT = 3
  U16 = 4
  GEN_LIMIT = 4
  Object = {th, pr}
  NoObject = none
  Thread = th
  Process = pr
SPECIFICATION Spec
INVARIANTS
  FreeListComplete
  StaleHandlesInvalid
