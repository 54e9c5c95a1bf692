\* Messages of a part of a fragment, of exactly one, of one and a half, and of more
\* than the receiver accepts.
SPECIFICATION Spec
CONSTANTS
  FragmentSize = 2
  UnsentBufferSize = 6
  FragmentBufferSize = 5
  MaxSize = 4
  MaxLoopback = 2
  Lengths = {1, 2, 3, 5, 6}
  MaxMessages = 3
  MaxInFlight = 3
INVARIANTS ProcessedAsTransmitted LoopbackLosesNothing
PROPERTY LoopbackInOrder
CHECK_DEADLOCK FALSE
