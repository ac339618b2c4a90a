CONSTANTS
  c1 = c1  c2 = c2  sv = sv  guest = guest  hle = hle  None = None
  Thread = {c1, c2, sv}  Priority <- Priorities  Server = {sv}
  Session = {1, 2}  Port = {guest, hle}  HlePort = {hle}  max_sessions <- MaxSessions
  Address = {0, 4}  SignalCounts = {1, 2}
  KillStates = {"Ready", "Running", "WaitArb", "WaitIPC", "WaitSynchAny"}
SPECIFICATION FairSpec
INVARIANTS
  SessionsCounted
  RequestsTracked
  NoIdleServer
  ArbiterConsistent
PROPERTY AsyncReturns
CHECK_DEADLOCK FALSE
