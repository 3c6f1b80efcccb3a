SPECIFICATION Spec
CONSTANTS
  MaxChild = 2
  MaxGen = 3
  MaxStarts = 3
  Reports = {"CONTINUE", "ERROR"}
  NoWorker = NoWorker
INVARIANTS ReplacementIsAdmissible
CHECK_DEADLOCK FALSE
