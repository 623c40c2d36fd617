CONSTANTS
  Channel <- MCChannel
  Size <- MCSize
  Since = 1
  PerPage = 2
  WithFiles <- MCWithFiles
  Concurrency = 2
  FlushEvery = 2
  Faults = {"kill", "api"}
  MaxSessions = 2
SPECIFICATION Spec
INVARIANT RefusalsAreReported
CHECK_DEADLOCK FALSE
