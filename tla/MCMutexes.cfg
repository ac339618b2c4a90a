CONSTANTS
  t1 = t1  t2 = t2  t3 = t3  ev = ev  pulse = pulse  tm = tm  sem = sem
  mx = mx  my = my  pr = pr  pr2 = pr2  NoThread = NoThread
  Thread = {t1,t2,t3}
  Event = {}  Timer = {}  Semaphore = {}  Mutex = {mx,my}
  Process = {pr,pr2}  OwnerOf <- TwoProcesses  Kills <- FirstKills
  NumCores = 2  CoreOf <- TwoCores  WithoutTLS = {}
  ThreadPrioLowest = 1  Priorities = {1}
  InitialThreads = {t1,t3}  InitialPriority <- Staggered
  ResetType <- Resets  IntMax = 1  InitialCount <- None  MaxCount <- One
  WaitLists <- MutexLists  ReleaseCounts = {}  Timeouts = {"finite"}
  MaxLockCount = 1
SPECIFICATION SilentSpec
INVARIANTS
  ReadyQueueExact
  PriorityIsBest
  WaitersAreWaiting
  MutexOwned
  PriorityInherited
PROPERTIES
  HighestPriorityRuns
  SettledWaits
