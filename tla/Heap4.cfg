SPECIFICATION Spec
CONSTANTS
  Unit = 2
  HeapEnd = 13
  MinimumBlock = 2
  Sizes = {0, 1, 3, 4, 7}
  NULL = NULL
INVARIANTS
  HeapInv
  FailsOnlyWithoutGap
PROPERTIES
  KeepsPromise
