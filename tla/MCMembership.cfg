SPECIFICATION Spec
CONSTANTS
  Channels <- MCChannels
  Team = "team"
  Archived <- MCArchived
  Readable <- MCReadable
  Standing <- MCStanding
  MaxRuns = 2
  MaxHuman = 1
INVARIANTS
  TracedBeforeRead
  StandingIsKept
  PlanIsReadable
PROPERTY OnlyAcceptedJoins
CHECK_DEADLOCK FALSE
