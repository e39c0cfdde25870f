SPECIFICATION Spec
CONSTANTS
  V <- MCVertices
  Start = 0
  Inf = 100
  Unit = 1024
  Edges <- MCEdges
  Weight <- MCWeight
  Scenarios <- AllScenarios
  Iterations = 5
  Rounds = 2
INVARIANTS  SameRanks
