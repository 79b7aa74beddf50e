SPECIFICATION Spec
CONSTANTS
  a1 = a1
  a2 = a2
  w1 = w1
  w2 = w2
  NoAction = NoAction
  Free = Free
  Actions = {a1, a2}
  Workers = {w1}
  Kind <- FilingAndReminder
  Fallback <- NoFallback
  ApudVersion = 2
  MaxRetries = 2
  MaxAttempts = 3
  MaxVersion = 2
  MaxStep = 0
  MaxCycle = 0
  MaxLosses = 0
  MaxCrashes = 1
  MaxFaults = 0
  MaxStalls = 1
  MaxRekeys = 1
INVARIANTS DoneIsBacked
PROPERTIES SentAsDecided
CHECK_DEADLOCK FALSE
