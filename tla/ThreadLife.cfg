SPECIFICATION LiveSpec
CONSTANTS
  Threads = {main, t1, t2}
  Main = main
  MaxWaiting = 2
  None = None
INVARIANTS
  TypeOK
  CleanedOnce
  InterruptSeen
PROPERTIES
  WaitReturns
CHECK_DEADLOCK FALSE
