SPECIFICATION LiveSpec
CONSTANTS
  Threads = {t1, t2}
  Values = {v1, v2}
  Ops = {"read", "try_read", "peek", "read_array", "try_read_array", "write", "try_write", "size"}
  Length = 3
  NoThread = NoThread
  Zero = Zero
INVARIANTS
  TypeOK
PROPERTIES
  ImplementsQueue
  CallsReturn
CHECK_DEADLOCK FALSE
