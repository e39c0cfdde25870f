SPECIFICATION FairSpec
CONSTANTS
  Align = 64
  Size = 5
  Sizes = {1, 3}
  Direct = FALSE
  IsBlocking = TRUE
  MaxPuts = 4
INVARIANTS InUseIntact NoOverlap
PROPERTIES ImplementsClaimQueue PutReturns EveryElementServed
\* users need not call put or get again
CHECK_DEADLOCK FALSE
