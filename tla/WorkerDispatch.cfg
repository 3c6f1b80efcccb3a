SPECIFICATION Spec
CONSTANTS
  MaxChild = 2
  MaxGen = 3
  MaxStarts = 3
  Reports = {"CONTINUE", "ERROR"}
  NoWorker = NoWorker
INVARIANTS TypeOK AdmissionEarned CurrentWasAdmitted ReplyOnce RunningChildOwnsLineage
PROPERTIES ImplementsLifecycle
CHECK_DEADLOCK FALSE
