SPECIFICATION Spec
CONSTANTS
  j1 = j1
  j2 = j2
  k1 = k1
  fgfile = fgfile
  bgfile = bgfile
  Runners = {j1, j2}
  Peers = {k1}
  Paths = {fgfile, bgfile}
  Touches <- MCTouches
  MaxTries = 2
  MaxNetFaults = 2
  Order <- MCOrder
  LaneOrder <- MCLanes
  MaxParallel = {1, 2}
  Branches = {"b1", "b2"}
  MaxGeneration = 2
  MaxRevision <- MCRevisions
  MaxActions = 2
  MaxEdits = 1
  MaxMishaps = 1
  TerminalOrder <- MCTerminals
  PlannerOrder <- MCPlanners
  Queries = {}
  Bound = {"c1"}
  Late = {"c2"}
  MaxTroubles = 1
  MaxUserTurns = 1
  Ledger <- MCLedger
  Drains = {"d1", "d2"}
  Asked <- MCAsked
  Bridge = "bridge"
  Attempts = 2
  MaxUpsets = 3
INVARIANTS HarnessTypeOK PublishHonest BarrierHeld NeverStuck JoinHonest
  ContinuationHasResult DeliveryHonest DoneIsTrue
PROPERTIES EvidencePinned FencedAdvance TerminalTruthful FinalSticks MessagesEnd RequestsAnswered
CHECK_DEADLOCK FALSE
