\* A vector build: what its probe answers.
CONSTANTS
  Refs = {r1, r2, r3, r4}
  Vals = {v1}
  None = None
  Free = Free
  Capacity = 4
  MaxLive = 3
  Lanes = 2
  Simd = TRUE
SPECIFICATION Spec
INVARIANT VectorProbeAgrees
