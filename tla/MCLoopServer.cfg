SPECIFICATION FairSpec
CONSTANTS
  Program <- MCProgram
  Conn = {c1, c2, c3}
  NoConn = noconn
  fd_listener = 1
  FirstFd = 2
  OPEN_MAX = 4
  MAX_FD_SOCKET = 3
  RecvMax = 1
  MaxSend = 1
INVARIANT WatchedIsOpen
INVARIANT RecvReady
INVARIANT AllServed
PROPERTY EndedIsClosed
\* The server waits for ever when no client does anything.
CHECK_DEADLOCK FALSE
