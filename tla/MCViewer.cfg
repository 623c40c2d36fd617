SPECIFICATION Spec
CONSTANTS
  Day = 2
  NoOne = "nobody"
  NoBound = NoBound
  Gap = 2
  MaxMessages = 2
  MaxChars = 4
  Archives <- MCArchives
  MaxBuilds = 2
  MaxStores = 2
  MaxRewrites = 1
  Archive <- Base
  Queries <- MCQueries
  Offset = 1
  Limit = 2
  Around = 1
  MaxCalls = 2
  Tables = {"index", "autre"}
  Blocks = 3
  MaxBlocks = 2
  MaxWorkers = 2
INVARIANTS
  AcceptedIndexHoldsEveryMessage
  CitedMessagesAreRight
  FragmentsPartition
  NoHoleInChannel
  ShownIsAsked
  OpeningEndsOnTheFile
PROPERTY StoreKeptUntilReplaced
CHECK_DEADLOCK FALSE
