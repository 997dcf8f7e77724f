\* Simple graphs of 5 vertices and 5 edges, no high-degree vertex, 4 partitions.
CONSTANTS
  N = 5
  P = 4
  MaxEdges = 5
  Thresholds = {9}
  Graphs <- MCSimple
  Speeds = {1, 3}
  EdgeIds <- MCEdgeIds
  Shares <- MCShares
  CommCost = 1
  VidRange = 64
  Comms <- MCComms
  NoPart = NoPart
SPECIFICATION CommSpec
INVARIANTS
  NoEdgeLost
  HeapIsFrontier
  BoundaryIsClosed
  CommTermVanishes
  HeapValueDefined
  OvershootOnlyAtCores
  CostsOfCores
