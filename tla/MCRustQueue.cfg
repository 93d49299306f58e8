SPECIFICATION Spec
CONSTANTS
  Producers = {w1, w2}
  CAPACITY = 4
  MaxPush = 5
  Uninit = Uninit
  None = None
INVARIANTS UnsafeIsSound LenExplained
PROPERTIES ImplementsFifo
