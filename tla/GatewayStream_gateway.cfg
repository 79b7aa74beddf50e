SPECIFICATION FairSpec
CONSTANTS
  MaxMessages = 2
  MaxSockets = 0
  MaxRestarts = 1
  MaxFailures = 0
PROPERTY EveryDeliveryLands
CHECK_DEADLOCK FALSE
