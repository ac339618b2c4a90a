CONSTANTS
  QueueCapacity = 2  PayloadCapacity = 6  Alignment = 2
  PayloadSizes = {0, 3}  MaxCommands = 4
SPECIFICATION FairSpec
INVARIANTS
  FencesAreDone
  NoLostNotification
PROPERTIES
  ImplementsStream
  CommandsHandled
  CallsReturn
CHECK_DEADLOCK FALSE
