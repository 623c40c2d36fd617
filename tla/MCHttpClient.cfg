SPECIFICATION FairSpec
CONSTANTS
  r1 = r1
  r2 = r2
  m = m
  Caller <- MCCaller
  Mutating <- MCMutating
  Cost = 2
  Burst = 2
  MaxTimer = 3
  MaxBack = 1
  Delays = {0, 1, 3}
  MaxRetries = 1
  Backoffs = {1}
INVARIANTS ClientTypeOK NeverOverRate EmissionsBounded
PROPERTIES PauseIsForEveryone NoOvertaking EveryCallEnds
