SPECIFICATION Spec
CONSTANTS
  t1 = t1
  t2 = t2
  Threads = {t1, t2}
  None = None
  NoThread = NoThread
  NoScope = NoScope
  Raised = Raised
  MaxCommits = 2
INVARIANTS ForcedFailureIsShared
