\* Two threads that could run the query, one that fetches the configuration.  The masters
\* answer one address more than there is room for, out of order and with a repetition.
SPECIFICATION FairServersSpec
CONSTANTS
  Workers = {query1, query2, config}
  QueryThreads = {query1, query2}
  Main = main
  NoThread = nothread
  Answers <- SmallAnswers
  MaxServers = 2
  MaxPpf = 1
  MaxRequests = 2
  MaxPackets = 1
  OtherCalls = 1
INVARIANTS OneQueryThread FrameFindsEveryServer
PROPERTIES ImplementsSection HandOverIsLive QueryEnds 
