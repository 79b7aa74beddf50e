SPECIFICATION Spec
CONSTANTS
  d1 = d1
  d2 = d2
  NoDoc = NoDoc
  NoReport = NoReport
  Docs = {d1, d2}
  Reports <- TwoReports
  ApudVersions = {1, 2}
  TextTypes = {}
  TapTypes = {}
  OfficeTypes = {"OPERATOR_ESCALATE", "CLIENT_REVOCATION_DONE"}
  MaxInbox = 0
  MaxDoubt = 1
INVARIANTS CaseInv FiledOnce FiledIsApproved StageIsBacked TableRespectsGates
PROPERTIES StagesInOrder
CHECK_DEADLOCK FALSE
