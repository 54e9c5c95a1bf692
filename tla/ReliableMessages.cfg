\* Messages of a header only, of a part of a fragment, of exactly one fragment and one
\* byte more, of two and a half, and of more than the reader accepts.
SPECIFICATION FairSpec
CONSTANTS
  FragmentSize = 3
  HeaderSize = 2
  MaxSize = 8
  WindowSize = 2
  Sizes = {0, 1, 2, 5, 7}
  MaxMessages = 3
INVARIANTS ReadAsWritten
PROPERTY EveryMessageExecuted
CHECK_DEADLOCK FALSE
