SPECIFICATION FairSpec
CONSTANTS
  p1 = p1
  p2 = p2
  Providers = {p1, p2}
  Managers <- TwoManagers
  EdgesPerProvider <- TwoAndThree
  BatchSize = 3
  LazyModes = {TRUE, FALSE}
  Deletions = TRUE
  MinEdges = 3
  WriteResults = TRUE
  DataRoom = 1
  ControlRoom = 1
  CountRooms = {1, 2}
INVARIANTS
  PointersValid EdgesConserved WholeBatches
PROPERTIES Terminates
\* the program stops in the end; the liveness property rules out any other stop
CHECK_DEADLOCK FALSE
