SPECIFICATION Spec
CONSTANTS
  Conn = {c1, c2}
  NoConn = noconn
  FirstFd = 1
  OPEN_MAX = 3
  DFL_OPEN_MAX_FILES = 4
  MAX_WORKER_THREAD = 2
  MAX_EVENT_QUEUE = 8
  MAX_CLIENT_BUF = 2
  MqMax = 1
  StaleMq <- MCStaleMq
  ArgvPort = {0}
  EphemeralPort = {9000}
  SpuriousWakeups = TRUE
  MaxSend = 1
INVARIANT CountsRegistered
INVARIANT PollerAwake
INVARIANT EventsKept
INVARIANT ClosesRightly
\* The process may exit, and clients may stop asking for anything.
CHECK_DEADLOCK FALSE
