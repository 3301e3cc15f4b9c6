SPECIFICATION LiveSpec
CONSTANTS
  NumJobs = 3
  Handlers = {h1, h2, h3, h4}
  DefaultLimit = 1
  Limits = {1, 2, 3}
  Dispatcher = Dispatcher
  Setter = Setter
  None = None
INVARIANTS
  TypeOK
  JobKept
  ThreadLimit
PROPERTIES
  JobRuns
CHECK_DEADLOCK FALSE
