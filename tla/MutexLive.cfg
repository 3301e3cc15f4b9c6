SPECIFICATION LiveSpec
CONSTANTS
  Threads = {t1, t2, t3}
  Keys = {k1, k2, k3}
  Promises = {}
  Ops = {"lock", "shared_lock", "downgrade", "upgrade", "wait", "signal", "destruct_cond"}
  LockTypes = {0}
  Timeouts = {"none"}
  MaxInterrupts = 0
  NoThread = NoThread
  NoKey = NoKey
PROPERTIES
  CallsReturn
CHECK_DEADLOCK FALSE
