CONSTANTS
  NUM_QUEUES = 4
  Thread = {t1, t2, t3}
  NoThread = NoThread
SPECIFICATION Spec
INVARIANT NoNullLevel
PROPERTY ImplementsFIFO
