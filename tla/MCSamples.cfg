SPECIFICATION MCSpec
CONSTANTS
  MutexThreads = 2
  OtherThreads = 3
  Seeds = {0, 1}
  MaxSent = 2
  NUM_AIOCB_ARRAY = 3
  Lengths = {0, 1, 4}
  OldLengths = {2}
  Kid = {"k1", "k2"}
  Client = {"c1", "c2"}
  MaxSaid = 3
  BufLen = 2
  MaxFds = 1
  Caller = {"a", "b"}
  Fds = {"f1", "f2"}
  MaxOctets = 3
  MaxQueued = 3
INVARIANTS
  SectionsKept
  SignalsKept
  
  EchoKept
  TriggersKept
PROPERTY
  SamplesLive
CHECK_DEADLOCK FALSE
