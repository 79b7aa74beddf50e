SPECIFICATION Spec
CONSTANTS
  a1 = a1
  a2 = a2
  w1 = w1
  NoAction = NoAction
  Free = Free
  Actions = {a1, a2}
  Workers = {w1}
  Kind <- MediaAndNotice
  Fallback <- NoticeFallback
  ApudVersion = 1
  MaxRetries = 2
  MaxAttempts = 2
  MaxVersion = 1
  MaxStep = 1
  MaxCycle = 2
  MaxLosses = 0
  MaxCrashes = 0
  MaxFaults = 1
  MaxStalls = 0
  MaxRekeys = 0
PROPERTIES OptOutHonoured UncertainKeepsEvidence
CHECK_DEADLOCK FALSE
