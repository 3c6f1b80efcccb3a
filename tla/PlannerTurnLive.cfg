SPECIFICATION FairSpec
CONSTANTS
    Lanes = {l1}
    ReviewInterval = 1
    MaxPrompts = 2
    SharedSlot = TRUE
    MaxDispatch = 2
    MaxHelpers = 0
    MaxRevisions = 1
    MaxGen = 2
PROPERTIES EventsReachPlanner RotationCompletes
CHECK_DEADLOCK FALSE
