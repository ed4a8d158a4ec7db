SPECIFICATION FairSpec
CONSTANTS
  Fd <- MCFd
  Garbage <- MCGarbage
  MAX_EVENT_QUEUE = 2
  MaxPush = 5
INVARIANT NoUnderflow
INVARIANT NoLostWakeup
INVARIANT PendingStored
INVARIANT FifoUntilWrap
PROPERTY ImplementsFifo
PROPERTY EventuallyPopped
\* Once the scheduler has made its MaxPush calls the worker sleeps for good.
CHECK_DEADLOCK FALSE
