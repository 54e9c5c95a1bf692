\* Two fast files: a redirected download of the second one fails after the first is there.
SPECIFICATION Spec
CONSTANTS
  Iwds <- NoIwds
  FFs <- TwoFFs
  Size <- SmallSizes
  SegSize = 2
  StaleTemps <- NoStale
  MaxInFlight = 1
  MaxFaults = 1
  None = "none"
  Nameless = "nameless"
  Url = "url"
INVARIANT LoadsWithAllFiles
CHECK_DEADLOCK FALSE
