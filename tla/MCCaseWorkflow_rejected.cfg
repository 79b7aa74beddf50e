SPECIFICATION Spec
CONSTANTS
  d1 = d1
  d2 = d2
  NoDoc = NoDoc
  NoReport = NoReport
  Docs = {d1}
  Reports <- TwoReports
  ApudVersions = {2}
  TextTypes = {}
  TapTypes = {}
  OfficeTypes = {"OPERATOR_ESCALATE"}
  MaxInbox = 1
  MaxDoubt = 1
INVARIANTS EveryTapIsDecided
CHECK_DEADLOCK FALSE
