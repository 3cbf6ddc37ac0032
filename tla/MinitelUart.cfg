SPECIFICATION Spec
CONSTANTS
  RingSize <- MCRingSize
  FifoDepth <- MCFifoDepth
  MaxRx <- MCMaxRx
INVARIANTS
  LosslessUntilFlush
  DeliveryIsNew
PROPERTIES
  ClaimedSlotStable
  RingDrains
