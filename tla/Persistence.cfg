SPECIFICATION FairJobsSpec
CONSTANTS
  Readers <- TwoReaders
  Originals = {0, 1}
  JobCount = 2
  CommandLines <- Lines
  Input <- ThreeEdges
  Managers = {0}
  WriterRoom = 1
  MaxCrashes = 1
INVARIANTS Agreement UniqueUntilCollision InputInsertedOnce ReadFirst FileFollowsStore
PROPERTIES Terminates
\* the process exits or dies, or the readers wait for a job
CHECK_DEADLOCK FALSE
