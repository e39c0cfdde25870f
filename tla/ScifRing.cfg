SPECIFICATION FairSpec
CONSTANTS
  Channels = 2
  Faults = TRUE
  Blockings = {TRUE, FALSE}
  Size = 4
  Sizes = {1, 3}
  Combined <- MasterCombines
  MaxPuts = 3
  MaxGets = 3
INVARIANTS ViewsInOrder CopiesWhole
PROPERTIES ImplementsClaimQueue CallsReturn
CHECK_DEADLOCK FALSE
