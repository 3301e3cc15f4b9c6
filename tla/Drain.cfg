SPECIFICATION LiveSpec
CONSTANTS
  Users = {u1, u2}
  Waiters = {w1}
  Backend = b
  Levels = {0, 1}
  MaxCount = 3
  NoThread = NoThread
INVARIANTS
  SignalComes
PROPERTIES
  DrainReturns
CHECK_DEADLOCK FALSE
