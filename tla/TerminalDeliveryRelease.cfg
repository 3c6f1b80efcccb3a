SPECIFICATION Spec
CONSTANTS
    TerminalOrder <- MCTerminals
    PlannerOrder <- MCPlanners
    Queries = {}
    Bound = {"c1"}
    Late = {"c2"}
    MaxTroubles = 1
    MaxUserTurns = 1
INVARIANT ReleasedChatsDeleted
CHECK_DEADLOCK FALSE
