\* split() with both kinds of streaming: multigraphs of 4 vertices and 5 edges.
CONSTANTS
  N = 4
  P = 3
  MaxEdges = 5
  Speeds = {1, 2}
  CostRange = {1, 2}
  Scale = 1
  CommTerms = {3}
  Thresholds = {2}
  Graphs <- MCGraphs
  EdgeIds <- MCEdgeIds
  Shares <- MCShares
  Costs <- MCCosts
  CommCost = 1
  VidRange = 64
  NoPart = NoPart
SPECIFICATION FairSplit
INVARIANTS
  TypeOK
  AllEdgesCounted
  BoundaryIsCovered
  DegreesExact
  LightestHasRoom
  BalanceRecovers
PROPERTIES
  Termination
  PromiseKept
  AfterFirstInRoom
  HcsgKeepsPromise
