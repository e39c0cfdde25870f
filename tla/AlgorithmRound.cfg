SPECIFICATION FairSpec
CONSTANTS
  CountTiles = 3
  CountExecutors = 2
  CountAppliers = 2
  CountChunks = 2
  Batching = 2
  Iterations = 2
  Distributions = {"distributor", "atomics", "static"}
  Lazy = TRUE
  RingRoom = 1
  MaxRuns = 1
  MaxChanges = 1
  Fillings = {{}, {0, 2}, {0, 1, 2}}
INVARIANTS PhasesApart
PROPERTIES KeepsPromise Ends
\* the program stops in the end; the liveness property rules out any other stop
CHECK_DEADLOCK FALSE
