\* One key of each kind; a queue of two events and two messages besides the lines typed,
\* so that it overflows.
SPECIFICATION FairSpec
CONSTANTS
  MouseButtons = {"mouse1"}
  PadButtons = {"joy1"}
  Directions = {"uparrow"}
  MaxQueued = 2
  MaxMessages = 2
  MaxLines = 2
INVARIANTS DownIsHeld LinesInOrder
PROPERTY KeysComeUp
