SPECIFICATION FairSpec
CONSTANTS
  Call = {c1, c2}
  Slots = 1
  MaxAttempts = 3
  Budget = 3
  Fallback = 1
  MaxFallback = 2
  Latency = 1
  Hint = {0, 2}
INVARIANTS SlotsBalanced CallBounded SilentAfterCancel
PROPERTIES RetryOnTime EveryCallReturns
