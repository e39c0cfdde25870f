SPECIFICATION Spec
CONSTANTS
  v1 = v1
  v2 = v2
  e1 = e1
  e2 = e2
  e3 = e3
  None = None
  Vertices = {v1, v2}
  Executors = {e1, e2, e3}
  Neighbors <- MCNeighbors
  Givens <- MCGivens
  Initial = 3
  Reductions = {"min", "sum"}
  UseChanged = TRUE
INVARIANTS NothingLost ChangedMarked
