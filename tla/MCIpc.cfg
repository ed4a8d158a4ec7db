SPECIFICATION MCSpec
CONSTANTS
  i1 = i1
  i2 = i2
  Inst = {i1, i2}
  MaxChild = 3
  Receiver = {"one", "any"}
  TypeOf <- TypeOfReceiver
  Files <- SentFiles
  Cap = 2
  User = {"u1", "u2", "u3"}
  MaxTyped = 1
INVARIANT
  MessagesKept
PROPERTIES
  SemaphoreKept
  SegmentsKept
  IpcLive
CHECK_DEADLOCK FALSE
