CONSTANTS
  Task = {t1, t2}
  NoTask = NoTask
  Interval <- MCInterval
  MaxVersion <- MCMaxVersion
  MaxTime <- MCMaxTime
  MaxCrashes <- MCMaxCrashes
SPECIFICATION FairSpec
INVARIANTS TypeOK CleanIsDurable SavedIsDurable
PROPERTIES ThrottleSpacing EveryCallSettles ImplementsRegister
