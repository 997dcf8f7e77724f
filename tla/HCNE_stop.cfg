\* What the stop message of split() says; does not hold.
CONSTANTS
  N = 5
  P = 3
  MaxEdges = 5
  Thresholds = {9}
  Graphs <- MCSimple
  Speeds = {1, 2}
  EdgeIds <- MCEdgeIds
  Shares <- MCShares
  CommCost = 1
  VidRange = 64
  NoPart = NoPart
SPECIFICATION Spec
PROPERTIES
  StopMeansNoFreeVertex
