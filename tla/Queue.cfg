SPECIFICATION LiveSpec
CONSTANTS
  Threads = {t1, t2}
  Values = {v1, v2}
  Ops = {"read", "try_read", "peek", "read_array", "try_read_array", "peek_array", "write", "size"}
  FirstLength = 1
  MaxItems = 2
  NoThread = NoThread
  Zero = Zero
INVARIANTS
  TypeOK
  NoSleeper
PROPERTIES
  ImplementsQueue
  ReadReturns
CHECK_DEADLOCK FALSE
