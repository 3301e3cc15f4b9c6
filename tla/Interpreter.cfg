SPECIFICATION LiveSpec
CONSTANTS
  Threads = {t1, t2}
  Main = t1
  NumIMs = 1
  Ops = {"allow", "allow_uid", "imutex", "compile", "create", "wait"}
  MaxDisabled = 2
  NoThread = NoThread
INVARIANTS
  TypeOK
  OneSwappedIn
  Halted
PROPERTIES
  NobodyHangs
