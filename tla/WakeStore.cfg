SPECIFICATION Spec
CONSTANTS
  w1 = w1
  w2 = w2
  l1 = l1
  l2 = l2
  r1 = r1
  c1 = c1
  c2 = c2
  Wakes = {w1, w2}
  Clients = {c1, c2}
  Lanes = {l1, l2}
  Retries = {r1}
  LaneOf <- MCLaneOf
  Rank <- MCRank
  RetryOf <- MCRetryOf
  NoFile = NoFile
  Plain = Plain
  AnyLane = AnyLane
  NoOne = NoOne
  MaxFaults = 1
INVARIANTS TypeOK NoWakeLost OneCopy
PROPERTIES ImplementsWakeQueue
