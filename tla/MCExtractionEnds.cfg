CONSTANTS
  Channel <- MCChannel
  Size <- MCSizeWithOlder
  Since = 2
  PerPage = 2
  WithFiles <- MCWithFiles
  Concurrency = 2
  FlushEvery = 2
  Faults = {"kill", "api", "io", "lookup", "signal"}
  MaxSessions = 2
SPECIFICATION FairSpec
PROPERTY EverySessionEnds
CHECK_DEADLOCK FALSE
