SPECIFICATION FairSpec
CONSTANTS
  Producers = {rx1, rx2}
  Capacity = 4
  MaxPush = 6
  Raw = Raw
  MovedFrom = MovedFrom
  None = None
INVARIANTS TypeOK NoSlotRace Lifetimes
PROPERTIES ImplementsFifo LockHolderReturns
CHECK_DEADLOCK FALSE
