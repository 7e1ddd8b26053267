\* A ring of two slots whose indices wrap at 8.
CONSTANTS
  Vals = {v1, v2}
  N = 2
  W = 8
SPECIFICATION Spec
INVARIANT RingInv
PROPERTIES
  ImplementsFifo
  RingProgress
