SPECIFICATION Spec
CONSTANTS
  FirstCompaction = 2
  Weighted = TRUE
  Configs <- MCConfigs
  Edges <- MCEdges
  Deletions = 1
INVARIANTS CSRInOrder WeightsFollow BitForEveryEdge SkippedIsEmpty LaidOut
PROPERTIES ImplementsEdgeSet
