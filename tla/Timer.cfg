CONSTANTS
  Thread = {"a", "b"}
  SLICE = 2
  FIRST = 3
  Timeouts = {0, 1, 3}
  MaxTimeouts = 2
  MEM = 5
  MaxLate = 4
  MaxHandler = 3
  Nested = FALSE
SPECIFICATION FairSpec
INVARIANTS
  Armed
  BlocksConserved
PROPERTY KeepsScheduling
