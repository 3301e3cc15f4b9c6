SPECIFICATION Spec
CONSTANTS
  Threads = {t1, t2}
  Keys = {k1, k2, k3}
  Promises = {p1}
  Ops = {"lock", "trylock", "shared_lock", "try_shared_lock", "downgrade", "upgrade", "try_upgrade", "future_lock", "future_shared_lock", "wait", "signal", "broadcast", "destruct_mutex", "destruct_cond", "disable_threads"}
  LockTypes = {0, 1}
  Timeouts = {"none", "timed", "expired"}
  MaxInterrupts = 1
  NoThread = NoThread
  NoKey = NoKey
SYMMETRY Symmetry
INVARIANTS
  TypeOK
  QueueOrder
  NumWaiting
  NoLostWakeup
  Exclusion
  NoForgottenFuture
  OrphansExplained
PROPERTIES
  ImplementsReadersWriters
CHECK_DEADLOCK FALSE
