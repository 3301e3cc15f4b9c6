CONSTANTS
  t1 = t1
  t2 = t2
  Threads = {t1, t2}
  Backend = backend
  SuccessCbs = {s1}
  FailureCbs = {f1}
  Ops <- MCOps
  None = None
SPECIFICATION LiveSpec
INVARIANTS TypeOK OutcomeSeen RejectionHeard
PROPERTIES ImplementsSettleOnce Progress
CHECK_DEADLOCK FALSE
