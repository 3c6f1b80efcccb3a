SPECIFICATION Spec
CONSTANTS
    Lanes = {l1}
    ReviewInterval = 2
    MaxPrompts = 2
    SharedSlot = FALSE
    MaxDispatch = 3
    MaxHelpers = 1
    MaxRevisions = 1
    MaxGen = 2
PROPERTY ReviewedBeforeContinuing
CHECK_DEADLOCK FALSE
