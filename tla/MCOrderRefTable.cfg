\* A table that may fill up completely: what it holds.
CONSTANTS
  Refs = {r1, r2, r3, r4}
  Vals = {v1, v2}
  None = None
  Free = Free
  Capacity = 4
  MaxLive = 4
  Lanes = 2
  Simd = FALSE
SPECIFICATION Spec
INVARIANTS
  WellFormed
  FindIsExact
PROPERTIES
  ImplementsMap
  EraseReturnsIfRoom
