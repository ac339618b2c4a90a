CONSTANTS
  t1 = t1  t2 = t2  t3 = t3  ev = ev  pulse = pulse  tm = tm  sem = sem
  mx = mx  my = my  pr = pr  pr2 = pr2  NoThread = NoThread
  Thread = {t1,t2,t3}
  Event = {ev,pulse}  Timer = {}  Semaphore = {sem}  Mutex = {}
  Process = {pr}  OwnerOf <- OneProcess  Kills <- NoKills
  NumCores = 2  CoreOf <- TwoCores  WithoutTLS = {}
  ThreadPrioLowest = 1  Priorities = {1}
  InitialThreads = {t1}  InitialPriority <- AtOne
  ResetType <- Resets  IntMax = 2  InitialCount <- None  MaxCount <- One
  WaitLists <- SignalLists  ReleaseCounts <- Releases  Timeouts = {"zero", "finite"}
  MaxLockCount = 1
SPECIFICATION Spec
INVARIANTS
  WaitListsAgree
  NoLostWakeup
  CurrentThreads
