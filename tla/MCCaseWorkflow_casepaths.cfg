SPECIFICATION Spec
CONSTANTS
  d1 = d1
  d2 = d2
  NoDoc = NoDoc
  NoReport = NoReport
  Docs = {d1}
  Reports <- NoGoodReport
  ApudVersions = {1, 2}
  TextTypes = {"CLIENT_HAS_CERT_PC", "CLIENT_HAS_NO_PC", "CLIENT_REQUESTS_URGENT_PAID"}
  TapTypes = {"CLIENT_CONSENT_GRANTED", "CLIENT_DRAFT_APPROVED", "CLIENT_CONSENT_DENIED"}
  OfficeTypes = {}
  MaxInbox = 1
  MaxDoubt = 1
INVARIANTS SessionIsConsented
PROPERTIES ClosedIsFinal
CHECK_DEADLOCK FALSE
