SPECIFICATION Spec
CONSTANTS
  Capacity = 7
  MaxElement = 2
  SizeBytes = 1
  Tags = {1, 2}
  Blank = 0
INVARIANTS PeekIsIntact AllocationIsFree
PROPERTY ImplementsFifo
