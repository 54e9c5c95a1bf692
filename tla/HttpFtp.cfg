\* A file of four units, over HTTP with one redirection and over FTP; buffers grow twice
\* before what has come is taken.
SPECIFICATION FairSpec
CONSTANTS
  Units = 4
  InitialBuffer = 2
  LargeBuffer = 4
  MaxRedirects = 1
INVARIANT WholeFile
PROPERTIES ImplementsTransfer TransferEnds
CHECK_DEADLOCK FALSE
