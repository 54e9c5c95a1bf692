\* Both ends send; three fragments go through two slots; buffers grow and shrink.
SPECIFICATION Spec
CONSTANTS
  TxWindow <- WindowTwo
  RxWindow <- WindowTwo
  DefaultBufferSize = 2
  Drains <- NobodyDrains
  MaxFragments <- SafetyFragments
  MaxMessage = 2
  MaxInFlight = 2
INVARIANTS InOrderDelivery SendBufferIntact AcknowledgedIsHeld NoPacketMisjudged
PROPERTY ImplementsStream
CHECK_DEADLOCK FALSE
