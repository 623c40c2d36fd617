SPECIFICATION Spec
CONSTANTS
  Sources <- MCSources
  Requests <- MCRemoval
  MaxRequests = 1
  MaxStops = 1
  Levels = {"comptes"}
  Threshold = 1
  Composed <- MCComposed
  MaxPasses = 0
INVARIANT BinariesErased
CHECK_DEADLOCK FALSE
