SPECIFICATION Spec
CONSTANTS
  Sources <- MCSources
  Requests <- MCRequests
  MaxRequests = 2
  MaxStops = 1
  Levels = {"comptes", "formes", "noms"}
  Threshold = 1
  Composed <- MCComposed
  MaxPasses = 2
INVARIANTS
  RowsNeverDangle
  OthersUntouched
  CompletedRedactionVerifies
  ErasedWhenDone
  MarkedIsPublishable
  
  ControlAccepts
  RewritingSettles
CHECK_DEADLOCK FALSE
