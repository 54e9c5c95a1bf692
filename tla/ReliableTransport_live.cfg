\* Both applications read all there is, as CL_ReceiveReliableMessages does.
SPECIFICATION FairSpec
CONSTANTS
  TxWindow <- WindowTwo
  RxWindow <- WindowTwo
  DefaultBufferSize = 3
  Drains <- AllDrain
  MaxFragments <- LiveFragments
  MaxMessage = 1
  MaxInFlight = 2
PROPERTY EverythingArrives
CHECK_DEADLOCK FALSE
