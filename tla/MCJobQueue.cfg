SPECIFICATION FairSpec
CONSTANTS
  B = {b1, b2}
  Item <- MCItem
  NewLine <- MCNewLine
  Buf <- MCBuf
  MAX_Q_SIZE = 2
  Broadcasts = TRUE
  SpuriousWakeups = TRUE
  MaxRead = 3
INVARIANT SleepersSignalled
INVARIANT PhantomsExplained
INVARIANT FifoUnlessOverlapped
PROPERTY Drains
\* Consumers may sleep for ever once nobody writes to the FIFO.
CHECK_DEADLOCK FALSE
