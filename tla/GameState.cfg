\* Blocks of three strings that can overflow; rings of 3, so that slots are used again;
\* pieces of one character; one variable and as many strings as it has values.
SPECIFICATION GameSpec
CONSTANTS
  MaxConfigStrings = 3
  Capacity = 9
  Defaults <- SmallDefaults
  Slots = 3
  Characters = {"a", "b", "c", "d", "e"}
  PieceLength = 1
  BigInfoString = 5
  Changes <- SmallChanges
  Maps <- SmallMaps
  MaxCommands = 4
  MaxEntries = 4
  SystemVariable = "name"
  Cheating <- SmallCheating
  Pure <- SmallPure
  ConnectsWith <- SmallConnectsWith
  Names = {"name"}
  Texts <- SmallStrings
  Null <- NullString
  EnumCounts = {0, 1, 2}
  Indices <- SmallIndices
INVARIANTS StringsOwned EnumsInDomain StringsFollowServer ReplayShowsLive SystemInfoInForce
CHECK_DEADLOCK FALSE
