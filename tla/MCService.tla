------------------------------ MODULE MCService ------------------------------
(* The parts of the service around the case and its outbox, each at the     *)
(* small bounds at which its hazards happen.  The parts share no state that *)
(* these modules keep, so a behaviour is of one part, chosen at the start:  *)
(* the variables s1, s2, ... stand for the variables of that part, and      *)
(* every property speaks of its own.                                        *)
EXTENDS Naturals, Sequences

CONSTANTS Parts, NoDoc, h1, b1, b2, t1, p1, p2, w1, w2, c1, c2

VARIABLES part, s1, s2, s3, s4, s5, s6, s7, s8, s9, s10, s11, s12, s13, s14
service == <<part, s1, s2, s3, s4, s5, s6, s7, s8, s9, s10, s11, s12, s13, s14>>

(* A burst, with a tap or STOP inside it, and the pair with an answer; then *)
(* each kind before and behind a text, and the pair in both orders.         *)
Stories ==
  {<<"TEXT", "TEXT", "TEXT">>, <<"TEXT", "TAP", "TEXT">>, <<"CERT_FILE", "PASSWORD">>,
   <<"PASSWORD", "CERT_FILE">>, <<"CERT_FILE", "CERT_FILE">>}
    \cup {<<"TEXT", k>> : k \in {"REPORT", "APUD_PDF", "STOP"}}
    \cup {<<k, "TEXT">> : k \in {"APUD_PDF", "STOP"}} \cup {<<"TEXT", "TEXT", "APUD_PDF">>}

In == INSTANCE Inbox WITH
  Stories <- Stories, MaxRows <- 3, Page <- 2, Hooks <- {h1},
  MaxFailures <- 1, story <- s1, rows <- s2, case <- s3, vault <- s4,
  saved <- s5, unsent <- s6, pass <- s7, hooks <- s8, told <- s9,
  failures <- s10
Str == INSTANCE GatewayStream WITH
  MaxMessages <- 2, MaxSockets <- 1, MaxRestarts <- 1, MaxFailures <- 1,
  sent <- s1, base <- s2, restarts <- s3, stage <- s4, latest <- s5,
  seen <- s6, socket <- s7, abandoned <- s8, chain <- s9, step <- s10,
  cursor <- s11, saved <- s12, inbox <- s13, failures <- s14
Fol == INSTANCE FollowUp WITH
  LastDay <- 33, LastWord <- 3, MaxActs <- 1, MaxLosses <- 1, edition <- s1,
  now <- s2, case <- s3, task <- s4, unread <- s5, owed <- s6, rows <- s7,
  lock <- s8, sent <- s9, writes <- s10, office <- s11, losses <- s12
Que == INSTANCE DispatchQueue WITH
  MaxRetries <- 1, Attempts <- 2, MaxFailures <- 3, MaxOperator <- 1,
  MaxRequests <- 2, effect <- s1, report <- s2, ready <- s3, audit <- s4,
  jobs <- s5, inHand <- s6, tick <- s7, failures <- s8, operator <- s9,
  row <- s10
TrnData == INSTANCE MCTurn WITH
  Inputs <- {}, text <- s1, case <- s2, past <- s3, conf <- s4, step <- s5,
  tries <- s6, reply <- s7, turn <- s8, asked <- s9
Trn == INSTANCE Turn WITH
  Inputs <- TrnData!Everything, text <- s1, case <- s2, past <- s3,
  conf <- s4, step <- s5, tries <- s6, reply <- s7, turn <- s8, asked <- s9
CerData == INSTANCE MCCertCheck WITH
  Uploads <- {}, upload <- s1, step <- s2, left <- s3, last <- s4, seen <- s5,
  case <- s6, records <- s7, answer <- s8
Cer == INSTANCE CertCheck WITH
  Uploads <- CerData!AnyUpload, upload <- s1, step <- s2, left <- s3,
  last <- s4, seen <- s5, case <- s6, records <- s7, answer <- s8
PdfData == INSTANCE MCPdfAudit WITH
  Docs <- {}, MaxTextPages <- 6, doc <- s1, step <- s2, page <- s3,
  reasons <- s4, report <- s5
Pdf == INSTANCE PdfAudit WITH
  Docs <- PdfData!AllDocs, MaxTextPages <- 6, doc <- s1, step <- s2,
  page <- s3, reasons <- s4, report <- s5
BriData == INSTANCE MCEmulator WITH
  Browsers <- {}, Outgoing <- {}, Replies <- {}, Envelopes <- {},
  RecentLimit <- 2, ReplayLimit <- 2, PendingLimit <- 2, MaxActs <- 3,
  MaxEnvelopes <- 1, session <- s1, recent <- s2, pending <- s3,
  counted <- s4, ghosts <- s5, frames <- s6, link <- s7, own <- s8,
  chat <- s9, warned <- s10, posted <- s11, inbox <- s12, sent <- s13,
  acts <- s14
Bri == INSTANCE Emulator WITH
  Browsers <- {b1, b2},
  Outgoing <- {m \in BriData!Messages : m.type \in {"text", ""}},
  Replies <- {r \in BriData!AnyReply : r.type \in {"text", "image"}},
  Envelopes <- BriData!AnyEnvelope, RecentLimit <- 2, ReplayLimit <- 2,
  PendingLimit <- 2, MaxActs <- 3, MaxEnvelopes <- 1, session <- s1,
  recent <- s2, pending <- s3, counted <- s4, ghosts <- s5, frames <- s6,
  link <- s7, own <- s8, chat <- s9, warned <- s10, posted <- s11,
  inbox <- s12, sent <- s13, acts <- s14
Ass == INSTANCE AssistedSession WITH
  MaxFaults <- 2, at <- s1, world <- s2, denied <- s3, watch <- s4,
  abort <- s5, consent <- s6, stored <- s7, parent <- s8, child <- s9,
  toParent <- s10, site <- s11, faults <- s12
Rec == INSTANCE KmaleonRecord WITH
  Page <- 1, MaxStaff <- 1, MaxCalls <- 3, rows <- s1, ids <- s2, late <- s3,
  right <- s4, call <- s5, scan <- s6, churn <- s7, proof <- s8, doubt <- s9,
  asked <- s10, blind <- s11, slipped <- s12, staff <- s13, calls <- s14
Avi == INSTANCE TriggerIntake WITH
  Trigger <- {t1}, Project <- {p1, p2}, Poller <- {w1, w2}, MaxStaff <- 1,
  MaxLosses <- 1, of <- s1, pending <- s2, broken <- s3, card <- s4,
  trig <- s5, case <- s6, poll <- s7, lock <- s8, found <- s9, late <- s10,
  staff <- s11, losses <- s12
Ind == INSTANCE RagIndex WITH
  Package <- {p1, p2}, MaxBuilds <- 2, MaxStarts <- 1, MaxLoads <- 2,
  meta <- s1, vectors <- s2, build <- s3, mine <- s4, load <- s5, index <- s6,
  old <- s7, last <- s8, builds <- s9, starts <- s10, loads <- s11
ModData == INSTANCE MCModelClient WITH
  Answers <- {}, MaxChunk <- 4, streaming <- s1, phase <- s2, tries <- s3,
  meant <- s4, spoilt <- s5, send <- s6, rest <- s7, text <- s8, broken <- s9,
  result <- s10
Mod == INSTANCE ModelClient WITH
  Answers <- ModData!Said, MaxChunk <- 4, streaming <- s1, phase <- s2,
  tries <- s3, meant <- s4, spoilt <- s5, send <- s6, rest <- s7, text <- s8,
  broken <- s9, result <- s10
AdrData == INSTANCE MCAddress WITH
  Readings <- {}, MaxMoves <- 1, file <- s1, record <- s2, version <- s3,
  ask <- s4, moves <- s5
Adr == INSTANCE Address WITH
  Readings <- AdrData!Everything, MaxMoves <- 1, file <- s1, record <- s2,
  version <- s3, ask <- s4, moves <- s5
Pan == INSTANCE Panel WITH
  Case <- {c1, c2}, MaxActs <- 4, file <- s1, locked <- s2, asked <- s3,
  drawn <- s4, open <- s5, busy <- s6, posts <- s7, blind <- s8, acts <- s9
(* Each of the cases a panel starts with, beside one of another stage.      *)
Beside == {<<"consent", "processing">>, <<"audit", "payment">>, <<"escalated", "consent">>}

Null == "unused"
Unused13 == s14 = Null
Unused12 == s13 = Null /\ Unused13
Unused11 == s12 = Null /\ Unused12
Unused10 == s11 = Null /\ Unused11
Unused9 == s10 = Null /\ Unused10
Unused8 == s9 = Null /\ Unused9
Unused7 == s8 = Null /\ Unused8
Unused6 == s7 = Null /\ Unused7
Unused5 == s6 = Null /\ Unused6
Init ==
  /\ part \in Parts
  /\ \/ part = "inbox" /\ In!Init /\ Unused10
     \/ part = "stream" /\ Str!Init
     \/ part = "followup" /\ Fol!Init /\ Unused12
     \/ part = "queue" /\ Que!Init /\ Unused10
     \/ part = "turn" /\ Trn!Init /\ Unused9
     \/ part = "certificate" /\ Cer!Init /\ Unused8
     \/ part = "audit" /\ Pdf!Init /\ Unused5
     \/ part = "bridge" /\ Bri!Init
     \/ part = "assistance" /\ Ass!Init /\ Unused12
     \/ part = "record" /\ Rec!Init
     \/ part = "avisos" /\ Avi!Init /\ Unused12
     \/ part = "index" /\ Ind!Init /\ Unused11
     \/ part = "model" /\ Mod!Init /\ Unused10
     \/ part = "address" /\ Adr!Init /\ Unused5
     \/ part = "panel" /\ Pan!Init /\ <<s1[c1].stage, s1[c2].stage>> \in Beside /\ Unused9
Next ==
  \/ part = "inbox" /\ In!Next /\ UNCHANGED <<part, s11, s12, s13, s14>>
  \/ part = "stream" /\ Str!Next /\ UNCHANGED part
  \/ part = "followup" /\ Fol!Next /\ UNCHANGED <<part, s13, s14>>
  \/ part = "queue" /\ Que!Next /\ UNCHANGED <<part, s11, s12, s13, s14>>
  \/ part = "turn" /\ Trn!Next /\ UNCHANGED <<part, s10, s11, s12, s13, s14>>
  \/ part = "certificate" /\ Cer!Next /\ UNCHANGED <<part, s9, s10, s11, s12, s13, s14>>
  \/ part = "audit" /\ Pdf!Next /\ UNCHANGED <<part, s6, s7, s8, s9, s10, s11, s12, s13, s14>>
  \/ part = "bridge" /\ Bri!Next /\ UNCHANGED part
  \/ part = "assistance" /\ Ass!Next /\ UNCHANGED <<part, s13, s14>>
  \/ part = "record" /\ Rec!Next /\ UNCHANGED part
  \/ part = "avisos" /\ Avi!Next /\ UNCHANGED <<part, s13, s14>>
  \/ part = "index" /\ Ind!Next /\ UNCHANGED <<part, s12, s13, s14>>
  \/ part = "model" /\ Mod!Next /\ UNCHANGED <<part, s11, s12, s13, s14>>
  \/ part = "address" /\ Adr!Next /\ UNCHANGED <<part, s6, s7, s8, s9, s10, s11, s12, s13, s14>>
  \/ part = "panel" /\ Pan!Next /\ UNCHANGED <<part, s10, s11, s12, s13, s14>>
(* The fairness of each part as its module states it.  Only one part lives  *)
(* in a behaviour, so what several parts ask for can stand in one line.     *)
Inbox(step) == part = "inbox" /\ step /\ UNCHANGED <<part, s11, s12, s13, s14>>
Stream(step) == part = "stream" /\ step /\ UNCHANGED part
FollowUp(step) == part = "followup" /\ step /\ UNCHANGED <<part, s13, s14>>
Queue(step) == part = "queue" /\ step /\ UNCHANGED <<part, s11, s12, s13, s14>>
Avisos(step) == part = "avisos" /\ step /\ UNCHANGED <<part, s13, s14>>
Assistance(step) == part = "assistance" /\ step /\ UNCHANGED <<part, s13, s14>>
Model(step) == part = "model" /\ step /\ UNCHANGED <<part, s11, s12, s13, s14>>
Fairness ==
  /\ WF_service(\/ Inbox(In!PassSteps) \/ Stream(Str!Connecting) \/ FollowUp(Fol!DayPasses) \/ Queue(Que!Ticks)
                \/ Avisos(Avi!Polls) \/ Assistance(Ass!Route) \/ Model(Mod!Retrieve))
  /\ WF_service(\/ Inbox(In!QuietPasses) \/ Stream(Str!Delivering) \/ FollowUp(Fol!Scheduler) \/ Queue(Que!TurnRuns)
                \/ Avisos(Avi!Works(w1)) \/ Assistance(Ass!Timers) \/ Model(Mod!Abort))
  /\ WF_service(\/ Inbox(In!RowFallsDue) \/ Stream(Str!Carries) \/ FollowUp(Fol!Executor) \/ Queue(Que!Ages)
                \/ Avisos(Avi!Works(w2)))
  /\ WF_service(FollowUp(Fol!TurnIsRead) \/ Queue(Que!WindowPasses))
  /\ WF_service(\/ Inbox(In!HookPrepares(h1) \/ In!HookIngests(h1)) \/ FollowUp(Fol!ReplyIsSent)
                \/ Queue(Que!AuditRuns(1) \/ Que!FailureIsRecorded(1)))
  /\ WF_service(Queue(Que!AuditRuns(2) \/ Que!FailureIsRecorded(2)))
  /\ \A id \in Que!Ids : WF_service(Queue(Que!Works(id)))
FairSpec == Init /\ [][Next]_service /\ Fairness
-----------------------------------------------------------------------------
(* What was read before a wait is not committed when it no longer holds:    *)
(* a turn only on a case the bot may still answer (inbox), a ready          *)
(* certificate only on the case it was checked for (certificate), an audit  *)
(* not over a committed report (queue), an address not for an older version *)
(* of the case (address).                                                   *)
NothingStaleIsCommitted ==
  [][/\ part = "inbox" => In!DropsAfterStop /\ In!LeavesToPerson
     /\ part = "certificate" => Cer!ClosesAsLoaded
     /\ part = "queue" => Que!AuditStands
     /\ part = "address" => Adr!ShowsFresh]_service
(* inbox: the newest certificate that was read, or one that came after it,  *)
(* is in its slot or in the record.                                         *)
CertificateIsKept == part = "inbox" => In!CertificateIsKept
(* inbox: every message is settled in the end, unless the case is jammed or *)
(* a message of ours stays unsent in front of the texts.                    *)
Jammed == part = "inbox" /\ In!Jammed
Settled == part = "inbox" => In!AllSettled \/ In!Barred
MessagesSettle == (<>[]~Jammed) => <>[]Settled

(* stream: what is behind the saved cursor is committed, in order.          *)
StreamIsSafe == part = "stream" => Str!CursorIsCommitted /\ Str!InOrder
(* stream: without a restart of the gateway every message lands.            *)
Numbered == part = "stream" => Str!Numbered
AllLanded == part = "stream" => Str!AllLanded
ReplayLands == (<>[]Numbered) => <>[]AllLanded

(* No client is contacted too often: no burst of reminders (followup), one  *)
(* first contact, and only for an aviso that waits (avisos).                *)
ContactsDoNotRepeat ==
  /\ part = "followup" => Fol!NoBurst
  /\ part = "avisos" => Avi!OpenedOnce /\ Avi!NoStaleContact
(* followup: every follow-up ends, at the latest with the thirtieth day.    *)
FollowedUp == part = "followup" /\ Fol!FollowedUp
FollowUpEnds == <>[]~FollowedUp

(* queue: no durable row waits for ever.                                    *)
Unserved(kind) == part = "queue" /\ Que!Unserved(kind)
DurableRowsAreServed == \A kind \in Que!Unservable : []<>~Unserved(kind)

(* A request to the sede (assistance) and a question to the model (model)   *)
(* end, whatever hangs.                                                     *)
Answered == (part = "assistance" => Ass!Ended) /\ (part = "model" => Mod!Ended)
RequestsEnd == <>[]Answered

(* turn: no consent in words; what no model may read, and no text unheard.  *)
WordsNeverConsent == [][part = "turn" => Trn!NoConsentInWords]_service
TurnIsSafe == part = "turn" => Trn!GatedTextStaysLocal /\ Trn!TextIsAnswered

(* certificate: a pair is kept exactly if it is the client's own.           *)
OnlyTheClientsOwn == part = "certificate" => Cer!OnlyTheClientsOwn
(* audit: the verdict on a document is what its pages say.                  *)
VerdictIsEarned == part = "audit" => Pdf!VerdictIsEarned /\ Pdf!TyposAreCaught
(* bridge: a demonstration that was reset is gone, nothing is shown twice,  *)
(* and no client writes the bot's own notes.                                *)
BridgeIsSafe == part = "bridge" => Bri!ClearedIsGone /\ Bri!ShownOnce /\ Bri!MarkersAreTheBots
(* assistance: a draft is the consented work of a child that ended well.    *)
AssistanceIsSafe == part = "assistance" => Ass!DraftIsConsented /\ Ass!ReturnedIsClean
(* record: written once, found by whole scans, told when it is there.       *)
RecordIsSafe == part = "record" => Rec!WrittenOnce /\ Rec!ScanIsWhole /\ Rec!NoticeHasDocument
(* avisos: an aviso that stays resolvable is processed for good.           *)
Served == part = "avisos" => Avi!Served(t1)
Resolvable == part = "avisos" => Avi!Resolvable(t1)
AvisoIsServed == <>[]Resolvable => <>[]Served
(* What comes in pieces is used only whole: examples are ranked with the    *)
(* vectors of their own package (index), an answer handed on is all of one  *)
(* call (model).                                                            *)
PiecesBelongTogether ==
  /\ part = "index" => Ind!RankedByOwn
  /\ part = "model" => Mod!AnswerIsWhole
(* address: a district that is shown is not a guess.                        *)
NeverGuesses == part = "address" => Adr!NeverGuesses
(* panel: what is written was decided on the case as it was on screen.      *)
PanelIsSafe == part = "panel" => Pan!DecidedAsDrawn
=============================================================================
