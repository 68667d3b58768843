CONSTANTS
  Thread = {t1, t2}
  SIG_NUM = 2
  SIGKILL = 1
  NONE = NONE
  MaxStacks = 1
  Installs <- MCInstalls
  t1 = t1
  t2 = t2
SPECIFICATION FairSpec
INVARIANTS
  ResumesInterrupted
  HandlerStacksFreed
PROPERTIES
  PendingIsHandled
