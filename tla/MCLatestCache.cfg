SPECIFICATION FairSpec
CONSTANTS
  Topics = {costmap, scan}
  Producers = {rx1, rx2}
  MaxPut = 3
  MaxSlots = 3
  None = None
INVARIANTS TypeOK SlotPointersStable SlotExclusive NoTornFrame
PROPERTIES NewestIsTaken TotalNeverShrinks ImplementsRegister
