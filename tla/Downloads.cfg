\* An .iwd file whose temporary file may be stale, and a fast file; two faults.
SPECIFICATION FairSpec
CONSTANTS
  Iwds <- OneIwd
  FFs <- OneFF
  Size <- Sizes
  SegSize = 2
  StaleTemps <- Stale
  MaxInFlight = 2
  MaxFaults = 2
  None = "none"
  Nameless = "nameless"
  Url = "url"
INVARIANTS InstalledIsGenuine CountedAreInstalled LoadsWithAllFiles
PROPERTY DownloadsEnd
CHECK_DEADLOCK FALSE
