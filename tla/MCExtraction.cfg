CONSTANTS
  Channel <- MCChannel
  Size <- MCSize
  Since = 1
  PerPage = 2
  WithFiles <- MCWithFiles
  Concurrency = 2
  FlushEvery = 2
  Faults <- MCAllFaults
  MaxSessions = 3
SPECIFICATION Spec
INVARIANTS TypeOK PostFilesAreRuns LossNeedsStaleState HealedByResume OneRowPerFile FinalizedIsConsumable
PROPERTIES CompleteIsFrozen DurableProgress
CHECK_DEADLOCK FALSE
