\* Rings of two slots, four commands of the client and three of the server, so that slots
\* are used again, commands of which three are outstanding are overwritten, messages are
\* too far behind and cgame is overtaken; a message that would be the second in its
\* direction is lost.
SPECIFICATION FairSpec
CONSTANTS
  MaxReliableCommands = 2
  ServerOutstanding = 1
  MaxClientCommands = 4
  MaxServerCommands = 3
  MaxInFlight = 1
INVARIANTS CommandsInOrder KeysAgree AcknowledgedIsExecuted
PROPERTY ClientCommandsArrive
CHECK_DEADLOCK FALSE
