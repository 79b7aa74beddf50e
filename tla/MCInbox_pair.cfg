SPECIFICATION Spec
CONSTANTS
  Stories <- All
  MaxRows = 3
  Page = 2
  Hooks = {h1}
  MaxFailures = 0
INVARIANT BurstPairChecked
CHECK_DEADLOCK FALSE
