SPECIFICATION FairSpec
CONSTANTS
  a1 = a1
  a2 = a2
  w1 = w1
  w2 = w2
  NoAction = NoAction
  Free = Free
  Actions = {a1}
  Workers = {w1, w2}
  Kind <- OneCompletion
  Fallback <- NoFallback
  ApudVersion = 2
  MaxRetries = 3
  MaxAttempts = 4
  MaxVersion = 1
  MaxStep = 0
  MaxCycle = 0
  MaxLosses = 1
  MaxCrashes = 1
  MaxFaults = 1
  MaxStalls = 1
  MaxRekeys = 0
INVARIANTS IInv AtMostOnce RestartIsSafe DoneIsBacked AdvanceIsBacked
PROPERTIES UncertainKeepsEvidence ImplementsEffectOnce BarrierLiftsOrSpent
CHECK_DEADLOCK FALSE
