CONSTANTS
  QueueCapacity = 2  PayloadCapacity = 4  Alignment = 1
  PayloadSizes = {2, 3}  MaxCommands = 3
SPECIFICATION FairSpec
PROPERTY CallsReturn
CHECK_DEADLOCK FALSE
