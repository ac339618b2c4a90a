CONSTANTS
  t1 = t1  t2 = t2  t3 = t3  ev = ev  pulse = pulse  tm = tm  sem = sem
  mx = mx  my = my  pr = pr  pr2 = pr2  NoThread = NoThread
  Thread = {t1,t2}
  Event = {pulse}  Timer = {tm}  Semaphore = {}  Mutex = {}
  Process = {pr}  OwnerOf <- OneProcess  Kills <- FirstKills
  NumCores = 1  CoreOf <- OneCore  WithoutTLS = {t2}
  ThreadPrioLowest = 1  Priorities = {0,1}
  InitialThreads = {t1}  InitialPriority <- AtOne
  ResetType <- Resets  IntMax = 1  InitialCount <- None  MaxCount <- One
  WaitLists <- TimerLists  ReleaseCounts = {}  Timeouts = {"zero", "finite", "forever"}
  MaxLockCount = 1
SPECIFICATION FairSpec
INVARIANTS
  NoStaleWakeup
  OneTimerEvent
PROPERTIES
  KernelCallsFinish
  TimeoutsFire
