SPECIFICATION FairSpec
CONSTANTS
  Parts = {
    "inbox", "stream", "followup", "queue", "turn", "certificate",
    "audit", "bridge", "assistance", "record", "avisos", "index",
    "model", "address", "panel"}
  NoDoc = NoDoc
  h1 = h1
  b1 = b1
  b2 = b2
  t1 = t1
  p1 = p1
  p2 = p2
  w1 = w1
  w2 = w2
  c1 = c1
  c2 = c2
INVARIANTS
  CertificateIsKept
  StreamIsSafe
  ContactsDoNotRepeat
  TurnIsSafe
  OnlyTheClientsOwn
  VerdictIsEarned
  BridgeIsSafe
  AssistanceIsSafe
  RecordIsSafe
  PiecesBelongTogether
  NeverGuesses
  PanelIsSafe
PROPERTIES
  NothingStaleIsCommitted
  WordsNeverConsent
  MessagesSettle
  ReplayLands
  FollowUpEnds
  DurableRowsAreServed
  RequestsEnd
  AvisoIsServed
CHECK_DEADLOCK FALSE
