SPECIFICATION Spec
CONSTANTS
  Align = 8
  Size = 4
  Sizes = {1, 2}
  Direct = TRUE
  IsBlocking = TRUE
  MaxPuts = 5
INVARIANTS IInv NoUnderflow
\* users need not call put again
CHECK_DEADLOCK FALSE
