-------------------------- MODULE ServiceDeskProofs --------------------------
(* That the parts of the service at the desks of the bot and of the office  *)
(* keep what their own modules prove of them: the inbox, the turn, the      *)
(* certificate, the queue, the panel, the assisted session, the addresses   *)
(* and the audit of a document; and that none of them commits what it read  *)
(* before a wait when it no longer holds.                                   *)
EXTENDS MCService, TLAPS

OfficeP == INSTANCE OfficeProofs WITH
  Case <- {c1, c2}, MaxActs <- 4,
  file <- s1, locked <- s2, asked <- s3, drawn <- s4, open <- s5, busy <- s6,
  posts <- s7, blind <- s8, acts <- s9,
  MaxFaults <- 2, at <- s1, world <- s2, denied <- s3, watch <- s4,
  abort <- s5, consent <- s6, stored <- s7, parent <- s8, child <- s9,
  toParent <- s10, site <- s11, faults <- s12,
  Readings <- AdrData!Everything, MaxPassed <- 1, catalogue <- s1,
  record <- s2, version <- s3, ask <- s4, passed <- s5,
  Docs <- PdfData!AllDocs, MaxTextPages <- 6, doc <- s1, step <- s2,
  page <- s3, reasons <- s4, report <- s5
InboxP == INSTANCE InboxProofs WITH
  Stories <- Stories, MaxRows <- 3, Page <- 2, Hooks <- {h1},
  MaxFailures <- 1, story <- s1, rows <- s2, case <- s3, vault <- s4,
  saved <- s5, unsent <- s6, pass <- s7, hooks <- s8, told <- s9,
  failures <- s10, Uploads <- CerData!AnyUpload,
  Names <- {"k1", "k2", "ec", "weak", "ca", "client", "other"}, upload <- s1, step <- s2,
  left <- s3, last <- s4, seen <- s5, file <- s6, records <- s7, answer <- s8,
  MaxRetries <- 1, Attempts <- 2, MaxBreaks <- 3, MaxOperator <- 1,
  MaxRequests <- 2, effect <- s1, report <- s2, ready <- s3, audit <- s4,
  jobs <- s5, inHand <- s6, tick <- s7, breaks <- s8, operator <- s9,
  row <- s10, Inputs <- TrnData!Everything, text <- s1, snapshot <- s2,
  past <- s3, conf <- s4, moment <- s5, tries <- s6, reply <- s7, turn <- s8,
  readers <- s9

(* A part is the same under either name.                                    *)
LEMMA SameInbox ==
  /\ In!Init <=> InboxP!Init
  /\ In!Next <=> InboxP!Next
  /\ [In!Next]_(In!vars) <=> [InboxP!Next]_(InboxP!vars)
  BY ZenonT(180) DEF In!Init, InboxP!Init, In!Idle, InboxP!Idle, In!NoSlots, InboxP!NoSlots,
    In!NoHook, InboxP!NoHook, In!Next, InboxP!Next, In!Webhook, InboxP!Webhook, In!HookReads,
    InboxP!HookReads, In!Texts, InboxP!Texts, In!Files, InboxP!Files, In!HookPrepares,
    InboxP!HookPrepares, In!HookIngests, InboxP!HookIngests, In!Conversational,
    InboxP!Conversational, In!Row, InboxP!Row, In!Time, InboxP!Time, In!QuietPasses,
    InboxP!QuietPasses, In!Pending, InboxP!Pending, In!RowFallsDue, InboxP!RowFallsDue,
    In!DeadlinePasses, InboxP!DeadlinePasses, In!PassSteps, InboxP!PassSteps, In!Begin,
    InboxP!Begin, In!ReadFile, InboxP!ReadFile, In!Min, InboxP!Min, In!PairOfFile,
    InboxP!PairOfFile, In!CheckPair, InboxP!CheckPair, In!Found, InboxP!Found, In!SavePair,
    InboxP!SavePair, In!ClearSlots, InboxP!ClearSlots, In!MarkRow, InboxP!MarkRow, In!ListPage,
    InboxP!ListPage, In!Firsts, InboxP!Firsts, In!Cardinality, InboxP!Cardinality, In!Stamp,
    InboxP!Stamp, In!SkipRow, InboxP!SkipRow, In!Cur, InboxP!Cur, In!Next1, InboxP!Next1,
    In!RowNotDue, InboxP!RowNotDue, In!RowAfterEnd, InboxP!RowAfterEnd, In!Over, InboxP!Over,
    In!Closed, InboxP!Closed, In!Settled, InboxP!Settled, In!RowIsDocument, InboxP!RowIsDocument,
    In!LockRow, InboxP!LockRow, In!Burst, InboxP!Burst, In!Follows, InboxP!Follows, In!ReportCloses,
    InboxP!ReportCloses, In!Reports, InboxP!Reports, In!IsText, InboxP!IsText, In!WaitForOurs,
    InboxP!WaitForOurs, In!HeldText, InboxP!HeldText, In!Silent, InboxP!Silent, In!ReadTurn,
    InboxP!ReadTurn, In!Line, InboxP!Line, In!PairOfTurn, InboxP!PairOfTurn, In!Think, InboxP!Think,
    In!Discard, InboxP!Discard, In!Newer, InboxP!Newer, In!CommitTurn, InboxP!CommitTurn, In!After,
    InboxP!After, In!AskPerson, InboxP!AskPerson, In!StaleTap, InboxP!StaleTap, In!CommitTap,
    InboxP!CommitTap, In!RefusedTap, InboxP!RefusedTap, In!PassFails, InboxP!PassFails,
    In!Delivered, InboxP!Delivered, In!Office, InboxP!Office, In!Escalate, InboxP!Escalate,
    In!LockFree, InboxP!LockFree, In!Pause, InboxP!Pause, In!Recover, InboxP!Recover, In!vars,
    InboxP!vars

LEMMA SameInspection ==
  /\ \A p : Cer!InspectMaterial(p) = InboxP!Cer!InspectMaterial(p)
  /\ Cer!File = InboxP!Cer!File
<1>1. Cer!File = InboxP!Cer!File /\ Cer!Leaves = InboxP!Cer!Leaves /\ Cer!RsaKeys = InboxP!Cer!RsaKeys
  BY ZenonT(60) DEF Cer!File, InboxP!Cer!File, Cer!Leaves, InboxP!Cer!Leaves, Cer!RsaKeys,
    InboxP!Cer!RsaKeys
<1>2. \A k : Cer!LeavesOf(k) = InboxP!Cer!LeavesOf(k)
  BY <1>1 DEF Cer!LeavesOf, InboxP!Cer!LeavesOf, Cer!KeyMatches, InboxP!Cer!KeyMatches
<1>3. Cer!PairedKeys = InboxP!Cer!PairedKeys
  BY <1>1, <1>2 DEF Cer!PairedKeys, InboxP!Cer!PairedKeys
<1>4. /\ Cer!Paired <=> InboxP!Cer!Paired
      /\ Cer!TheKey = InboxP!Cer!TheKey /\ Cer!Certificate = InboxP!Cer!Certificate
  <2>1. \A S : Cer!Min(S) = InboxP!Cer!Min(S)
    BY DEF Cer!Min, InboxP!Cer!Min
  <2>2. Cer!Paired <=> InboxP!Cer!Paired
    BY <1>3 DEF Cer!Paired, InboxP!Cer!Paired
  <2>3. Cer!TheKey = InboxP!Cer!TheKey
    BY <1>1, <1>3, <2>1 DEF Cer!TheKey, InboxP!Cer!TheKey
  <2>4. Cer!Certificate = InboxP!Cer!Certificate
    BY <1>1, <1>2, <1>3, <2>1, <2>2 DEF Cer!Certificate, InboxP!Cer!Certificate
  <2> QED BY <2>2, <2>3, <2>4
<1>5. Cer!ArchiveReasons = InboxP!Cer!ArchiveReasons
  BY <1>1, <1>4, Zenon DEF Cer!ArchiveReasons, InboxP!Cer!ArchiveReasons, Cer!Cardinality,
    InboxP!Cer!Cardinality
<1>6. \A c : Cer!CertificateReasons(c) = InboxP!Cer!CertificateReasons(c)
  BY <1>4, Zenon DEF Cer!CertificateReasons, InboxP!Cer!CertificateReasons, Cer!IdentityReasons,
    InboxP!Cer!IdentityReasons, Cer!Cardinality, InboxP!Cer!Cardinality
<1>7. \A p : Cer!ParsePkcs12(p) = InboxP!Cer!ParsePkcs12(p)
  BY <1>1, <1>5, Zenon DEF Cer!ParsePkcs12, InboxP!Cer!ParsePkcs12, Cer!Refused,
    InboxP!Cer!Refused, Cer!Nothing, InboxP!Cer!Nothing
<1> QED
  BY <1>1, <1>4, <1>6, <1>7, Zenon DEF Cer!InspectMaterial, InboxP!Cer!InspectMaterial,
    Cer!Refused, InboxP!Cer!Refused, Cer!Nothing, InboxP!Cer!Nothing

LEMMA SameCheck ==
  /\ Cer!Init <=> InboxP!Cer!Init
  /\ Cer!Next <=> InboxP!Cer!Next
  /\ [Cer!Next]_(Cer!vars) <=> [InboxP!Cer!Next]_(InboxP!Cer!vars)
  BY SameInspection, ZenonT(60) DEF Cer!Init, InboxP!Cer!Init, Cer!Nothing, InboxP!Cer!Nothing,
    Cer!Next, InboxP!Cer!Next, Cer!Read, InboxP!Cer!Read, Cer!Route, InboxP!Cer!Route,
    Cer!SniffAttachment, InboxP!Cer!SniffAttachment, Cer!ReadPdf, InboxP!Cer!ReadPdf,
    Cer!ClassifyPdfText, InboxP!Cer!ClassifyPdfText, Cer!Cardinality, InboxP!Cer!Cardinality,
    Cer!Signals, InboxP!Cer!Signals, Cer!Answer, InboxP!Cer!Answer, Cer!Try, InboxP!Cer!Try,
    Cer!NoneOpens, InboxP!Cer!NoneOpens, Cer!Decide, InboxP!Cer!Decide, Cer!Verdict,
    InboxP!Cer!Verdict, Cer!Usable, InboxP!Cer!Usable, Cer!Keep, InboxP!Cer!Keep, Cer!Load,
    InboxP!Cer!Load, Cer!Closed, InboxP!Cer!Closed, Cer!Inspect, InboxP!Cer!Inspect, Cer!Save,
    InboxP!Cer!Save, Cer!Recheck, InboxP!Cer!Recheck, Cer!Close, InboxP!Cer!Close, Cer!SameVersion,
    InboxP!Cer!SameVersion, Cer!CaseChanges, InboxP!Cer!CaseChanges, Cer!vars, InboxP!Cer!vars

LEMMA SameQueue ==
  /\ Que!Init <=> InboxP!Que!Init
  /\ Que!Next <=> InboxP!Que!Next
  /\ [Que!Next]_(Que!vars) <=> [InboxP!Que!Next]_(InboxP!Que!vars)
  BY ZenonT(60) DEF Que!Init, InboxP!Que!Init, Que!Ids, InboxP!Que!Ids, Que!Windowed,
    InboxP!Que!Windowed, Que!Job, InboxP!Que!Job, Que!Next, InboxP!Que!Next, Que!Ticks,
    InboxP!Que!Ticks, Que!Wake, InboxP!Que!Wake, Que!Aging, InboxP!Que!Aging, Que!At, InboxP!Que!At,
    Que!Steps, InboxP!Que!Steps, Que!EffectIs, InboxP!Que!EffectIs, Que!Reports, InboxP!Que!Reports,
    Que!Matched, InboxP!Que!Matched, Que!AfterReport, InboxP!Que!AfterReport, Que!Inbound,
    InboxP!Que!Inbound, Que!Queues, InboxP!Que!Queues, Que!Added, InboxP!Que!Added, Que!Audits,
    InboxP!Que!Audits, Que!Reconciles, InboxP!Que!Reconciles, Que!Stuck, InboxP!Que!Stuck,
    Que!Effects, InboxP!Que!Effects, Que!EffectJob, InboxP!Que!EffectJob, Que!TickBreaks,
    InboxP!Que!TickBreaks, Que!Breaks, InboxP!Que!Breaks, Que!Time, InboxP!Que!Time, Que!Ages,
    InboxP!Que!Ages, Que!ReportAges, InboxP!Que!ReportAges, Que!WindowPasses,
    InboxP!Que!WindowPasses, Que!Fresh, InboxP!Que!Fresh, Que!Leaves, InboxP!Que!Leaves,
    Que!TurnRuns, InboxP!Que!TurnRuns, Que!Open, InboxP!Que!Open, Que!Works, InboxP!Que!Works,
    Que!Returns, InboxP!Que!Returns, Que!EffectIds, InboxP!Que!EffectIds, Que!Claims,
    InboxP!Que!Claims, Que!Finishes, InboxP!Que!Finishes, Que!Throws, InboxP!Que!Throws, Que!Fails,
    InboxP!Que!Fails, Que!Crashes, InboxP!Que!Crashes, Que!AuditRuns, InboxP!Que!AuditRuns,
    Que!Asked, InboxP!Que!Asked, Que!FailureIsRecorded, InboxP!Que!FailureIsRecorded, Que!Reported,
    InboxP!Que!Reported, Que!MessageComes, InboxP!Que!MessageComes, Que!AuditAsked,
    InboxP!Que!AuditAsked, Que!OperatorRetries, InboxP!Que!OperatorRetries, Que!vars,
    InboxP!Que!vars

LEMMA SamePanel ==
  /\ Pan!Init <=> OfficeP!Init
  /\ Pan!Next <=> OfficeP!Next
  /\ [Pan!Next]_(Pan!vars) <=> [OfficeP!Next]_(OfficeP!vars)
  BY ZenonT(180) DEF Pan!Init, OfficeP!Init, Pan!Case0, OfficeP!Case0, Pan!None, OfficeP!None,
    Pan!Next, OfficeP!Next, Pan!Operator, OfficeP!Operator, Pan!Clicks, OfficeP!Clicks,
    Pan!OpenCase, OfficeP!OpenCase, Pan!Acts, OfficeP!Acts, Pan!server, OfficeP!server, Pan!screen,
    OfficeP!screen, Pan!Closes, OfficeP!Closes, Pan!Offered, OfficeP!Offered, Pan!Forms,
    OfficeP!Forms, Pan!ConsentForm, OfficeP!ConsentForm, Pan!AddressForm, OfficeP!AddressForm,
    Pan!SessionForm, OfficeP!SessionForm, Pan!ReviewForm, OfficeP!ReviewForm, Pan!SubmissionForm,
    OfficeP!SubmissionForm, Pan!PaymentForm, OfficeP!PaymentForm, Pan!RejectForm,
    OfficeP!RejectForm, Pan!RecoverForm, OfficeP!RecoverForm, Pan!Draft, OfficeP!Draft,
    Pan!Unapproved, OfficeP!Unapproved, Pan!Approvals, OfficeP!Approvals, Pan!Submit,
    OfficeP!Submit, Pan!Network, OfficeP!Network, Pan!Read, OfficeP!Read, Pan!RenderDetail,
    OfficeP!RenderDetail, Pan!Handle, OfficeP!Handle, Pan!Current, OfficeP!Current, Pan!Accepts,
    OfficeP!Accepts, Pan!Takes, OfficeP!Takes, Pan!TakesConsent, OfficeP!TakesConsent,
    Pan!TakesAddress, OfficeP!TakesAddress, Pan!TakesSession, OfficeP!TakesSession, Pan!TakesReview,
    OfficeP!TakesReview, Pan!TakesSubmission, OfficeP!TakesSubmission, Pan!TakesPayment,
    OfficeP!TakesPayment, Pan!TakesApproval, OfficeP!TakesApproval, Pan!TakesRejection,
    OfficeP!TakesRejection, Pan!TakesRecovery, OfficeP!TakesRecovery, Pan!Effect, OfficeP!Effect,
    Pan!LeadsTo, OfficeP!LeadsTo,
    Pan!Next1, OfficeP!Next1, Pan!Same, OfficeP!Same, Pan!SessionEnds, OfficeP!SessionEnds,
    Pan!Drafted, OfficeP!Drafted, Pan!Stopped, OfficeP!Stopped, Pan!Answer, OfficeP!Answer,
    Pan!Reload, OfficeP!Reload, Pan!CaseMoves, OfficeP!CaseMoves, Pan!Becomes, OfficeP!Becomes,
    Pan!Moved, OfficeP!Moved, Pan!Sent, OfficeP!Sent, Pan!Audited, OfficeP!Audited, Pan!Stages,
    OfficeP!Stages, Pan!vars, OfficeP!vars

LEMMA SameAssist ==
  /\ Ass!Init <=> OfficeP!Ass!Init
  /\ Ass!Next <=> OfficeP!Ass!Next
  /\ [Ass!Next]_(Ass!vars) <=> [OfficeP!Ass!Next]_(OfficeP!Ass!vars)
  BY ZenonT(180) DEF Ass!Init, OfficeP!Ass!Init, Ass!NoSession, OfficeP!Ass!NoSession, Ass!NoChild,
    OfficeP!Ass!NoChild, Ass!Next, OfficeP!Ass!Next, Ass!Route, OfficeP!Ass!Route, Ass!First,
    OfficeP!Ass!First, Ass!Goes, OfficeP!Ass!Goes, Ass!Reason, OfficeP!Ass!Reason, Ass!record,
    OfficeP!Ass!record, Ass!session, OfficeP!Ass!session, Ass!Starts, OfficeP!Ass!Starts,
    Ass!Signalled, OfficeP!Ass!Signalled, Ass!validateAssistedInput,
    OfficeP!Ass!validateAssistedInput, Ass!Settled, OfficeP!Ass!Settled, Ass!Fork, OfficeP!Ass!Fork,
    Ass!monitor, OfficeP!Ass!monitor, Ass!Returns, OfficeP!Ass!Returns, Ass!Save, OfficeP!Ass!Save,
    Ass!Store, OfficeP!Ass!Store, Ass!Recheck, OfficeP!Ass!Recheck, Ass!Commit, OfficeP!Ass!Commit,
    Ass!Fail, OfficeP!Ass!Fail, Ass!Parent, OfficeP!Ass!Parent, Ass!Hears, OfficeP!Ass!Hears,
    Ass!Running, OfficeP!Ass!Running, Ass!Said, OfficeP!Ass!Said, Ass!Alive, OfficeP!Ass!Alive,
    Ass!Cancel, OfficeP!Ass!Cancel, Ass!Cancelled, OfficeP!Ass!Cancelled, Ass!SeesExit,
    OfficeP!Ass!SeesExit, Ass!Outcome, OfficeP!Ass!Outcome, Ass!Deadline, OfficeP!Ass!Deadline,
    Ass!HardKill, OfficeP!Ass!HardKill, Ass!Reap, OfficeP!Ass!Reap, Ass!Child, OfficeP!Ass!Child,
    Ass!Ready, OfficeP!Ass!Ready, Ass!Says, OfficeP!Ass!Says, Ass!Works, OfficeP!Ass!Works,
    Ass!Load, OfficeP!Ass!Load, Ass!fail, OfficeP!Ass!fail, Ass!WithCertificate,
    OfficeP!Ass!WithCertificate, Ass!Lifetime, OfficeP!Ass!Lifetime, Ass!Launch, OfficeP!Ass!Launch,
    Ass!Identity, OfficeP!Ass!Identity, Ass!Step, OfficeP!Ass!Step, Ass!Fetch, OfficeP!Ass!Fetch,
    Ass!MayFetch, OfficeP!Ass!MayFetch, Ass!Report, OfficeP!Ass!Report, Ass!Exit, OfficeP!Ass!Exit,
    Ass!Ends, OfficeP!Ass!Ends, Ass!PageTurns, OfficeP!Ass!PageTurns, Ass!Looks, OfficeP!Ass!Looks,
    Ass!Trips, OfficeP!Ass!Trips, Ass!Answers, OfficeP!Ass!Answers, Ass!Outside,
    OfficeP!Ass!Outside, Ass!HourPasses, OfficeP!Ass!HourPasses, Ass!Fault, OfficeP!Ass!Fault,
    Ass!Disconnects, OfficeP!Ass!Disconnects, Ass!LockIsLost, OfficeP!Ass!LockIsLost,
    Ass!AnotherWrites, OfficeP!Ass!AnotherWrites, Ass!Withdraws, OfficeP!Ass!Withdraws,
    Ass!NoAnswer, OfficeP!Ass!NoAnswer, Ass!vars, OfficeP!Ass!vars

LEMMA SameAddress ==
  /\ Adr!Init <=> OfficeP!Adr!Init
  /\ Adr!Next <=> OfficeP!Adr!Next
  /\ [Adr!Next]_(Adr!vars) <=> [OfficeP!Adr!Next]_(OfficeP!Adr!vars)
  BY ZenonT(180) DEF Adr!Init, OfficeP!Adr!Init, Adr!Asked, OfficeP!Adr!Asked, Adr!Unresolved,
    OfficeP!Adr!Unresolved, Adr!Next, OfficeP!Adr!Next, Adr!Request, OfficeP!Adr!Request, Adr!Goes,
    OfficeP!Adr!Goes, Adr!GetVerifiedAddress, OfficeP!Adr!GetVerifiedAddress, Adr!To,
    OfficeP!Adr!To, Adr!LoadCatalogue, OfficeP!Adr!LoadCatalogue, Adr!FromCatalog,
    OfficeP!Adr!FromCatalog, Adr!ComunidadOf, OfficeP!Adr!ComunidadOf, Adr!Places,
    OfficeP!Adr!Places, Adr!MunicipalityKeys, OfficeP!Adr!MunicipalityKeys, Adr!Words,
    OfficeP!Adr!Words, Adr!Remark, OfficeP!Adr!Remark, Adr!Bare, OfficeP!Adr!Bare, Adr!Moved,
    OfficeP!Adr!Moved, Adr!Articles, OfficeP!Adr!Articles, Adr!Conflict, OfficeP!Adr!Conflict,
    Adr!Resolve, OfficeP!Adr!Resolve, Adr!Nothing, OfficeP!Adr!Nothing, Adr!ByCode,
    OfficeP!Adr!ByCode, Adr!Unknown, OfficeP!Adr!Unknown, Adr!ByName, OfficeP!Adr!ByName, Adr!Named,
    OfficeP!Adr!Named, Adr!Has, OfficeP!Adr!Has, Adr!Rank, OfficeP!Adr!Rank, Adr!Entry,
    OfficeP!Adr!Entry, Adr!Before, OfficeP!Adr!Before, Adr!Disagree, OfficeP!Adr!Disagree,
    Adr!Check, OfficeP!Adr!Check, Adr!Fresh, OfficeP!Adr!Fresh, Adr!CaseMoves,
    OfficeP!Adr!CaseMoves, Adr!vars, OfficeP!Adr!vars

(* The audit of a document: what its text says, and the whole.              *)
LEMMA SameText ==
  /\ \A t : Pdf!Missing(t) = OfficeP!Pdf!Missing(t) /\ Pdf!Negated(t) = OfficeP!Pdf!Negated(t)
  /\ \A t, n : Pdf!MatchesFullName(t, n) <=> OfficeP!Pdf!MatchesFullName(t, n)
  BY ZenonT(60) DEF Pdf!Missing, OfficeP!Pdf!Missing, Pdf!Negated, OfficeP!Pdf!Negated,
    Pdf!MatchesFullName, OfficeP!Pdf!MatchesFullName, Pdf!RequiredPowers,
    OfficeP!Pdf!RequiredPowers, Pdf!Present, OfficeP!Pdf!Present, Pdf!Mentions,
    OfficeP!Pdf!Mentions, Pdf!MentionsIn, OfficeP!Pdf!MentionsIn, Pdf!At, OfficeP!Pdf!At,
    Pdf!Width, OfficeP!Pdf!Width, Pdf!IsNegatedAt, OfficeP!Pdf!IsNegatedAt, Pdf!NegationWindow,
    OfficeP!Pdf!NegationWindow, Pdf!Window, OfficeP!Pdf!Window, Pdf!Cardinality,
    OfficeP!Pdf!Cardinality

LEMMA SameAudit ==
  /\ Pdf!Init <=> OfficeP!Pdf!Init
  /\ Pdf!Next <=> OfficeP!Pdf!Next
  /\ [Pdf!Next]_(Pdf!vars) <=> [OfficeP!Pdf!Next]_(OfficeP!Pdf!vars)
  BY SameText, ZenonT(60) DEF Pdf!Init, OfficeP!Pdf!Init, Pdf!NoReport, OfficeP!Pdf!NoReport, Pdf!Next,
    OfficeP!Pdf!Next, Pdf!Check, OfficeP!Pdf!Check, Pdf!Unreadable, OfficeP!Pdf!Unreadable,
    Pdf!Open, OfficeP!Pdf!Open, Pdf!FailsWith, OfficeP!Pdf!FailsWith, Pdf!ReadPage,
    OfficeP!Pdf!ReadPage, Pdf!Limit, OfficeP!Pdf!Limit, Pdf!TimesOut, OfficeP!Pdf!TimesOut,
    Pdf!Extracted, OfficeP!Pdf!Extracted, Pdf!ParserReasons, OfficeP!Pdf!ParserReasons, Pdf!When,
    OfficeP!Pdf!When, Pdf!Unknown, OfficeP!Pdf!Unknown, Pdf!Judge, OfficeP!Pdf!Judge,
    Pdf!ContentReasons, OfficeP!Pdf!ContentReasons, Pdf!Status, OfficeP!Pdf!Status,
    Pdf!IdentityMatches, OfficeP!Pdf!IdentityMatches, Pdf!HasAiram, OfficeP!Pdf!HasAiram,
    Pdf!FivePages, OfficeP!Pdf!FivePages, Pdf!RequiredPageCount, OfficeP!Pdf!RequiredPageCount,
    Pdf!Anomalies, OfficeP!Pdf!Anomalies, Pdf!vars, OfficeP!Pdf!vars

LEMMA SameVerdict ==
  /\ Pdf!VerdictIsEarned <=> OfficeP!Pdf!VerdictIsEarned
  /\ Pdf!TyposAreCaught <=> OfficeP!Pdf!TyposAreCaught
<1>1. Pdf!NameIsWhole <=> OfficeP!Pdf!NameIsWhole
  BY SameText, Zenon DEF Pdf!NameIsWhole, OfficeP!Pdf!NameIsWhole, Pdf!Cardinality,
    OfficeP!Pdf!Cardinality
<1>2. Pdf!NegationIsHeard <=> OfficeP!Pdf!NegationIsHeard
  BY SameText, Zenon DEF Pdf!NegationIsHeard, OfficeP!Pdf!NegationIsHeard, Pdf!RequiredPowers,
    OfficeP!Pdf!RequiredPowers, Pdf!MentionsIn, OfficeP!Pdf!MentionsIn, Pdf!At, OfficeP!Pdf!At,
    Pdf!Width, OfficeP!Pdf!Width
<1>3. Pdf!VerdictIsEarned <=> OfficeP!Pdf!VerdictIsEarned
  BY <1>1, <1>2, Zenon DEF Pdf!VerdictIsEarned, OfficeP!Pdf!VerdictIsEarned, Pdf!Unknown,
    OfficeP!Pdf!Unknown
<1>4. Pdf!Places = OfficeP!Pdf!Places
  BY DEF Pdf!Places, OfficeP!Pdf!Places
<1>5. \A n, k : Pdf!Digit(n, k) = OfficeP!Pdf!Digit(n, k)
  BY <1>4 DEF Pdf!Digit, OfficeP!Pdf!Digit
<1>6. \A n : Pdf!Typos(n) = OfficeP!Pdf!Typos(n)
  <2> TAKE n
  <2> DEFINE From(k, d) == n + (d - Pdf!Digit(n, k)) * Pdf!Places[k]
  <2>1. Pdf!Typos(n) = {From(k, d) : k \in 1..8, d \in 0..9} \ {n}
    BY DEF Pdf!Typos
  <2>2. OfficeP!Pdf!Typos(n) = {From(k, d) : k \in 1..8, d \in 0..9} \ {n}
    BY <1>4, <1>5 DEF OfficeP!Pdf!Typos
  <2> QED BY <2>1, <2>2
<1>7. \A n : Pdf!Swaps(n) = OfficeP!Pdf!Swaps(n)
  BY <1>4, <1>5, Zenon DEF Pdf!Swaps, OfficeP!Pdf!Swaps
<1>8. Pdf!TyposAreCaught <=> OfficeP!Pdf!TyposAreCaught
  BY <1>6, <1>7, Zenon DEF Pdf!TyposAreCaught, OfficeP!Pdf!TyposAreCaught, Pdf!ValidDni,
    OfficeP!Pdf!ValidDni, Pdf!CheckLetter, OfficeP!Pdf!CheckLetter
<1> QED BY <1>3, <1>8

LEMMA SameOwner == Cer!OnlyTheClientsOwn <=> InboxP!Cer!OnlyTheClientsOwn
  BY DEF Cer!OnlyTheClientsOwn, InboxP!Cer!OnlyTheClientsOwn, Cer!ClientsOwn,
    InboxP!Cer!ClientsOwn, Cer!File, InboxP!Cer!File, Cer!Cardinality, InboxP!Cer!Cardinality,
    Cer!ToSet, InboxP!Cer!ToSet

LEMMA SameCommitTurn == In!CommitTurn <=> InboxP!CommitTurn
  BY DEF In!CommitTurn, InboxP!CommitTurn, In!Newer, InboxP!Newer, In!Pending, InboxP!Pending,
    In!After, InboxP!After, In!Settled, InboxP!Settled, In!Next1, InboxP!Next1, In!Cur, InboxP!Cur,
    In!Min, InboxP!Min, In!Idle, InboxP!Idle

LEMMA SameGuess == Adr!NeverGuesses <=> OfficeP!Adr!NeverGuesses
  BY DEF Adr!NeverGuesses, OfficeP!Adr!NeverGuesses, Adr!Deciding, OfficeP!Adr!Deciding,
    Adr!MunicipalityKeys, OfficeP!Adr!MunicipalityKeys, Adr!Words, OfficeP!Adr!Words, Adr!Remark,
    OfficeP!Adr!Remark, Adr!Bare, OfficeP!Adr!Bare, Adr!Moved, OfficeP!Adr!Moved, Adr!Articles,
    OfficeP!Adr!Articles, Adr!Named, OfficeP!Adr!Named, Adr!Places, OfficeP!Adr!Places, Adr!Has,
    OfficeP!Adr!Has, Adr!Rank, OfficeP!Adr!Rank, Adr!ComunidadOf, OfficeP!Adr!ComunidadOf,
    Adr!Comunidades, OfficeP!Adr!Comunidades

(* The turn: what the table decides, each of its actions, and the whole.    *)
LEMMA SameDecision ==
  ASSUME NEW e PROVE Trn!Decision(e) = InboxP!Trn!Decision(e)
  BY ZenonT(60) DEF Trn!Decision, InboxP!Trn!Decision, Trn!Transition, InboxP!Trn!Transition,
    Trn!HelpEvents, InboxP!Trn!HelpEvents, Trn!GuidedStates, InboxP!Trn!GuidedStates,
    Trn!GuidedHelp, InboxP!Trn!GuidedHelp, Trn!OfficeTakesOver, InboxP!Trn!OfficeTakesOver,
    Trn!ConsentRequest, InboxP!Trn!ConsentRequest, Trn!Send, InboxP!Trn!Send, Trn!Decide,
    InboxP!Trn!Decide, Trn!Act, InboxP!Trn!Act, Trn!ConsentWithdrawn, InboxP!Trn!ConsentWithdrawn,
    Trn!HelpExhausted, InboxP!Trn!HelpExhausted, Trn!More, InboxP!Trn!More, Trn!HelpCap,
    InboxP!Trn!HelpCap, Trn!Fallback, InboxP!Trn!Fallback, Trn!CopyHelpDue, InboxP!Trn!CopyHelpDue,
    Trn!OrElse, InboxP!Trn!OrElse, Trn!Unanswered, InboxP!Trn!Unanswered, Trn!NoOp, InboxP!Trn!NoOp,
    Trn!NoPatch, InboxP!Trn!NoPatch, Trn!Handler, InboxP!Trn!Handler, Trn!InitialTriage,
    InboxP!Trn!InitialTriage, Trn!AskHasCert, InboxP!Trn!AskHasCert, Trn!TriageAnswer,
    InboxP!Trn!TriageAnswer, Trn!AskDevice, InboxP!Trn!AskDevice, Trn!HasCertificate,
    InboxP!Trn!HasCertificate, Trn!PcTutorial, InboxP!Trn!PcTutorial, Trn!AskHasPc,
    InboxP!Trn!AskHasPc, Trn!OnMobile, InboxP!Trn!OnMobile, Trn!ExportGuide, InboxP!Trn!ExportGuide,
    Trn!AcquisitionLinks, InboxP!Trn!AcquisitionLinks, Trn!CourtFallback, InboxP!Trn!CourtFallback,
    Trn!ApudataPreapproval, InboxP!Trn!ApudataPreapproval, Trn!EscalateTelling,
    InboxP!Trn!EscalateTelling, Trn!MobileTriagePcCheck, InboxP!Trn!MobileTriagePcCheck,
    Trn!MobileExportGuideSent, InboxP!Trn!MobileExportGuideSent, Trn!MobileAssistConsentRequested,
    InboxP!Trn!MobileAssistConsentRequested, Trn!MobileAssistProcessing,
    InboxP!Trn!MobileAssistProcessing, Trn!Hold, InboxP!Trn!Hold, Trn!Sede, InboxP!Trn!Sede,
    Trn!Escalate, InboxP!Trn!Escalate, Trn!EscalateWith, InboxP!Trn!EscalateWith, Trn!DraftStored,
    InboxP!Trn!DraftStored, Trn!ToAudit, InboxP!Trn!ToAudit, Trn!PdfExpected,
    InboxP!Trn!PdfExpected, Trn!AuditingDocument, InboxP!Trn!AuditingDocument, Trn!AuditCompleted,
    InboxP!Trn!AuditCompleted, Trn!HoldWith, InboxP!Trn!HoldWith, Trn!ApprovedDocument,
    InboxP!Trn!ApprovedDocument, Trn!RejectedDocument, InboxP!Trn!RejectedDocument,
    Trn!RevocationGuide, InboxP!Trn!RevocationGuide, Trn!ProvisionalViabilized,
    InboxP!Trn!ProvisionalViabilized, Trn!NoticeMatches, InboxP!Trn!NoticeMatches,
    Trn!RevocationGuideSent, InboxP!Trn!RevocationGuideSent, Trn!WaitingRevocationReissue,
    InboxP!Trn!WaitingRevocationReissue, Trn!CertAcquisitionLinksSent,
    InboxP!Trn!CertAcquisitionLinksSent, Trn!FallbackOptions, InboxP!Trn!FallbackOptions,
    Trn!ResumesDigital, InboxP!Trn!ResumesDigital, Trn!CourtFallbackGuideSent,
    InboxP!Trn!CourtFallbackGuideSent, Trn!ApudataPendingPreapproval,
    InboxP!Trn!ApudataPendingPreapproval, Trn!GateOpen, InboxP!Trn!GateOpen,
    Trn!ApudataWaitingPayment, InboxP!Trn!ApudataWaitingPayment, Trn!ApudataVideoInProgress,
    InboxP!Trn!ApudataVideoInProgress, Trn!KmaleonFiling, InboxP!Trn!KmaleonFiling,
    Trn!HandoffDayana, InboxP!Trn!HandoffDayana, Trn!FinalChain, InboxP!Trn!FinalChain,
    Trn!Completed, InboxP!Trn!Completed, Trn!EscalatedHuman, InboxP!Trn!EscalatedHuman,
    Trn!ResumeRefused, InboxP!Trn!ResumeRefused, Trn!ForbiddenResumeTargets,
    InboxP!Trn!ForbiddenResumeTargets, Trn!Global, InboxP!Trn!Global, Trn!SmallTalk,
    InboxP!Trn!SmallTalk, Trn!ClientEvents, InboxP!Trn!ClientEvents, Trn!Paper, InboxP!Trn!Paper

LEMMA SameGates ==
  ASSUME NEW e, NEW d
  PROVE  Trn!RespectsGates(s2, Trn!Paper, e, d) <=> InboxP!Trn!RespectsGates(s2, InboxP!Trn!Paper, e, d)
  BY ZenonT(60) DEF Trn!RespectsGates, InboxP!Trn!RespectsGates, Trn!Patched, InboxP!Trn!Patched,
    Trn!UploadGate, InboxP!Trn!UploadGate, Trn!NoticeGate, InboxP!Trn!NoticeGate, Trn!FinancialGate,
    InboxP!Trn!FinancialGate, Trn!Act, InboxP!Trn!Act, Trn!ConsentGate, InboxP!Trn!ConsentGate,
    Trn!StateGate, InboxP!Trn!StateGate, Trn!NoOp, InboxP!Trn!NoOp, Trn!Paper, InboxP!Trn!Paper

LEMMA SameBegin == Trn!Begin <=> InboxP!Trn!Begin
  BY ZenonT(60) DEF Trn!Begin, InboxP!Trn!Begin, Trn!DecidedAs, InboxP!Trn!DecidedAs, Trn!Talk,
    InboxP!Trn!Talk, Trn!Event, InboxP!Trn!Event, Trn!CertificateReply, InboxP!Trn!CertificateReply,
    Trn!Say, InboxP!Trn!Say, Trn!BrainReads, InboxP!Trn!BrainReads, Trn!Is, InboxP!Trn!Is, Trn!Some,
    InboxP!Trn!Some, Trn!GatedMarks, InboxP!Trn!GatedMarks, Trn!HardMarks, InboxP!Trn!HardMarks,
    Trn!StopWithQuestion, InboxP!Trn!StopWithQuestion

LEMMA SameDraft == Trn!Draft <=> InboxP!Trn!Draft
  BY ZenonT(60) DEF Trn!Draft, InboxP!Trn!Draft, Trn!Drafts, InboxP!Trn!Drafts, Trn!BrainSteps,
    InboxP!Trn!BrainSteps, Trn!Triage, InboxP!Trn!Triage, Trn!Devices, InboxP!Trn!Devices,
    Trn!Usable, InboxP!Trn!Usable, Trn!AvailableSteps, InboxP!Trn!AvailableSteps,
    Trn!AllowedOptions, InboxP!Trn!AllowedOptions, Trn!Decision, InboxP!Trn!Decision,
    Trn!Transition, InboxP!Trn!Transition, Trn!HelpEvents, InboxP!Trn!HelpEvents, Trn!GuidedStates,
    InboxP!Trn!GuidedStates, Trn!GuidedHelp, InboxP!Trn!GuidedHelp, Trn!OfficeTakesOver,
    InboxP!Trn!OfficeTakesOver, Trn!ConsentRequest, InboxP!Trn!ConsentRequest, Trn!Send,
    InboxP!Trn!Send, Trn!Decide, InboxP!Trn!Decide, Trn!Act, InboxP!Trn!Act, Trn!ConsentWithdrawn,
    InboxP!Trn!ConsentWithdrawn, Trn!HelpExhausted, InboxP!Trn!HelpExhausted, Trn!More,
    InboxP!Trn!More, Trn!HelpCap, InboxP!Trn!HelpCap, Trn!Fallback, InboxP!Trn!Fallback,
    Trn!CopyHelpDue, InboxP!Trn!CopyHelpDue, Trn!OrElse, InboxP!Trn!OrElse, Trn!Unanswered,
    InboxP!Trn!Unanswered, Trn!NoOp, InboxP!Trn!NoOp, Trn!NoPatch, InboxP!Trn!NoPatch, Trn!Handler,
    InboxP!Trn!Handler, Trn!InitialTriage, InboxP!Trn!InitialTriage, Trn!AskHasCert,
    InboxP!Trn!AskHasCert, Trn!TriageAnswer, InboxP!Trn!TriageAnswer, Trn!AskDevice,
    InboxP!Trn!AskDevice, Trn!HasCertificate, InboxP!Trn!HasCertificate, Trn!PcTutorial,
    InboxP!Trn!PcTutorial, Trn!AskHasPc, InboxP!Trn!AskHasPc, Trn!OnMobile, InboxP!Trn!OnMobile,
    Trn!ExportGuide, InboxP!Trn!ExportGuide, Trn!AcquisitionLinks, InboxP!Trn!AcquisitionLinks,
    Trn!CourtFallback, InboxP!Trn!CourtFallback, Trn!ApudataPreapproval,
    InboxP!Trn!ApudataPreapproval, Trn!EscalateTelling, InboxP!Trn!EscalateTelling,
    Trn!MobileTriagePcCheck, InboxP!Trn!MobileTriagePcCheck, Trn!MobileExportGuideSent,
    InboxP!Trn!MobileExportGuideSent, Trn!MobileAssistConsentRequested,
    InboxP!Trn!MobileAssistConsentRequested, Trn!MobileAssistProcessing,
    InboxP!Trn!MobileAssistProcessing, Trn!Hold, InboxP!Trn!Hold, Trn!Sede, InboxP!Trn!Sede,
    Trn!Escalate, InboxP!Trn!Escalate, Trn!EscalateWith, InboxP!Trn!EscalateWith, Trn!DraftStored,
    InboxP!Trn!DraftStored, Trn!ToAudit, InboxP!Trn!ToAudit, Trn!PdfExpected,
    InboxP!Trn!PdfExpected, Trn!AuditingDocument, InboxP!Trn!AuditingDocument, Trn!AuditCompleted,
    InboxP!Trn!AuditCompleted, Trn!HoldWith, InboxP!Trn!HoldWith, Trn!ApprovedDocument,
    InboxP!Trn!ApprovedDocument, Trn!RejectedDocument, InboxP!Trn!RejectedDocument,
    Trn!RevocationGuide, InboxP!Trn!RevocationGuide, Trn!ProvisionalViabilized,
    InboxP!Trn!ProvisionalViabilized, Trn!NoticeMatches, InboxP!Trn!NoticeMatches,
    Trn!RevocationGuideSent, InboxP!Trn!RevocationGuideSent, Trn!WaitingRevocationReissue,
    InboxP!Trn!WaitingRevocationReissue, Trn!CertAcquisitionLinksSent,
    InboxP!Trn!CertAcquisitionLinksSent, Trn!FallbackOptions, InboxP!Trn!FallbackOptions,
    Trn!ResumesDigital, InboxP!Trn!ResumesDigital, Trn!CourtFallbackGuideSent,
    InboxP!Trn!CourtFallbackGuideSent, Trn!ApudataPendingPreapproval,
    InboxP!Trn!ApudataPendingPreapproval, Trn!GateOpen, InboxP!Trn!GateOpen,
    Trn!ApudataWaitingPayment, InboxP!Trn!ApudataWaitingPayment, Trn!ApudataVideoInProgress,
    InboxP!Trn!ApudataVideoInProgress, Trn!KmaleonFiling, InboxP!Trn!KmaleonFiling,
    Trn!HandoffDayana, InboxP!Trn!HandoffDayana, Trn!FinalChain, InboxP!Trn!FinalChain,
    Trn!Completed, InboxP!Trn!Completed, Trn!EscalatedHuman, InboxP!Trn!EscalatedHuman,
    Trn!ResumeRefused, InboxP!Trn!ResumeRefused, Trn!ForbiddenResumeTargets,
    InboxP!Trn!ForbiddenResumeTargets, Trn!Global, InboxP!Trn!Global, Trn!SmallTalk,
    InboxP!Trn!SmallTalk, Trn!ClientEvents, InboxP!Trn!ClientEvents, Trn!Paper, InboxP!Trn!Paper,
    Trn!StepEvent, InboxP!Trn!StepEvent, Trn!TakeOver, InboxP!Trn!TakeOver, Trn!Event,
    InboxP!Trn!Event, Trn!Choice, InboxP!Trn!Choice, Trn!OptionEvent, InboxP!Trn!OptionEvent,
    Trn!Is, InboxP!Trn!Is, Trn!DecidedAs, InboxP!Trn!DecidedAs, Trn!ToTurn, InboxP!Trn!ToTurn,
    Trn!Talk, InboxP!Trn!Talk, Trn!Say, InboxP!Trn!Say, Trn!Facts, InboxP!Trn!Facts,
    Trn!StatedFacts, InboxP!Trn!StatedFacts

LEMMA SameUnreachable == Trn!Unreachable <=> InboxP!Trn!Unreachable
  BY ZenonT(60) DEF Trn!Unreachable, InboxP!Trn!Unreachable

LEMMA SameThreeDrafts == Trn!ThreeDrafts <=> InboxP!Trn!ThreeDrafts
  BY ZenonT(60) DEF Trn!ThreeDrafts, InboxP!Trn!ThreeDrafts, Trn!DecidedAs, InboxP!Trn!DecidedAs,
    Trn!Talk, InboxP!Trn!Talk, Trn!Event, InboxP!Trn!Event, Trn!Say, InboxP!Trn!Say

LEMMA SameAnswerLocally == Trn!AnswerLocally <=> InboxP!Trn!AnswerLocally
  BY ZenonT(60) DEF Trn!AnswerLocally, InboxP!Trn!AnswerLocally, Trn!Is, InboxP!Trn!Is,
    Trn!DecidedAs, InboxP!Trn!DecidedAs, Trn!Denied, InboxP!Trn!Denied, Trn!Event, InboxP!Trn!Event,
    Trn!HandedOver, InboxP!Trn!HandedOver, Trn!LocalReply, InboxP!Trn!LocalReply, Trn!Say,
    InboxP!Trn!Say, Trn!Stopped, InboxP!Trn!Stopped, Trn!RequiresDeterministicHandoff,
    InboxP!Trn!RequiresDeterministicHandoff, Trn!Some, InboxP!Trn!Some, Trn!HardMarks,
    InboxP!Trn!HardMarks, Trn!Greeted, InboxP!Trn!Greeted, Trn!NoReply, InboxP!Trn!NoReply,
    Trn!Opening, InboxP!Trn!Opening, Trn!HasPending, InboxP!Trn!HasPending, Trn!GuidedStates,
    InboxP!Trn!GuidedStates, Trn!SecretAnswer, InboxP!Trn!SecretAnswer, Trn!Delivered,
    InboxP!Trn!Delivered, Trn!PasswordRequested, InboxP!Trn!PasswordRequested, Trn!FirstOf,
    InboxP!Trn!FirstOf, Trn!Applies, InboxP!Trn!Applies, Trn!Helped, InboxP!Trn!Helped, Trn!Ladder,
    InboxP!Trn!Ladder, Trn!EarlyRungs, InboxP!Trn!EarlyRungs, Trn!Rung, InboxP!Trn!Rung, Trn!States,
    InboxP!Trn!States, Trn!Certs, InboxP!Trn!Certs, Trn!Unless, InboxP!Trn!Unless, Trn!When,
    InboxP!Trn!When, Trn!NotYes, InboxP!Trn!NotYes, Trn!ClaimSide, InboxP!Trn!ClaimSide,
    Trn!OutsideTopics, InboxP!Trn!OutsideTopics, Trn!LateRungs, InboxP!Trn!LateRungs, Trn!Acquiring,
    InboxP!Trn!Acquiring, Trn!CopyAnswer, InboxP!Trn!CopyAnswer, Trn!NoTurn, InboxP!Trn!NoTurn,
    Trn!TakeOver, InboxP!Trn!TakeOver

LEMMA SameUnderstand == Trn!Understand <=> InboxP!Trn!Understand
  BY ZenonT(60) DEF Trn!Understand, InboxP!Trn!Understand, Trn!Intents, InboxP!Trn!Intents,
    Trn!SpokenIntents, InboxP!Trn!SpokenIntents, Trn!HandedIntents, InboxP!Trn!HandedIntents,
    Trn!NoReply, InboxP!Trn!NoReply, Trn!ReplyForIntent, InboxP!Trn!ReplyForIntent, Trn!Say,
    InboxP!Trn!Say

LEMMA SameGuide == Trn!Guide <=> InboxP!Trn!Guide
  BY ZenonT(60) DEF Trn!Guide, InboxP!Trn!Guide, Trn!Yields, InboxP!Trn!Yields, Trn!Is,
    InboxP!Trn!Is, Trn!Some, InboxP!Trn!Some, Trn!Say, InboxP!Trn!Say, Trn!Guidance,
    InboxP!Trn!Guidance, Trn!Struggles, InboxP!Trn!Struggles, Trn!GuidedStates,
    InboxP!Trn!GuidedStates, Trn!NoTurn, InboxP!Trn!NoTurn, Trn!Event, InboxP!Trn!Event, Trn!Choice,
    InboxP!Trn!Choice, Trn!OptionEvent, InboxP!Trn!OptionEvent, Trn!DecidedAs, InboxP!Trn!DecidedAs,
    Trn!Reviewed, InboxP!Trn!Reviewed, Trn!FirstOf, InboxP!Trn!FirstOf, Trn!Applies,
    InboxP!Trn!Applies, Trn!Helped, InboxP!Trn!Helped, Trn!NoReply, InboxP!Trn!NoReply,
    Trn!ReviewedLadder, InboxP!Trn!ReviewedLadder, Trn!When, InboxP!Trn!When, Trn!Rung,
    InboxP!Trn!Rung, Trn!States, InboxP!Trn!States, Trn!Certs, InboxP!Trn!Certs, Trn!PowerSteps,
    InboxP!Trn!PowerSteps, Trn!IntakeSteps, InboxP!Trn!IntakeSteps, Trn!Unless, InboxP!Trn!Unless

LEMMA SameClassify == Trn!Classify <=> InboxP!Trn!Classify
  BY ZenonT(60) DEF Trn!Classify, InboxP!Trn!Classify, Trn!RequiresDeterministicHandoff,
    InboxP!Trn!RequiresDeterministicHandoff, Trn!Some, InboxP!Trn!Some, Trn!HardMarks,
    InboxP!Trn!HardMarks, Trn!Is, InboxP!Trn!Is, Trn!FirstOf, InboxP!Trn!FirstOf, Trn!Applies,
    InboxP!Trn!Applies, Trn!Helped, InboxP!Trn!Helped, Trn!NoReply, InboxP!Trn!NoReply,
    Trn!ReviewedLadder, InboxP!Trn!ReviewedLadder, Trn!When, InboxP!Trn!When, Trn!Rung,
    InboxP!Trn!Rung, Trn!States, InboxP!Trn!States, Trn!Certs, InboxP!Trn!Certs, Trn!Say,
    InboxP!Trn!Say, Trn!PowerSteps, InboxP!Trn!PowerSteps, Trn!IntakeSteps, InboxP!Trn!IntakeSteps,
    Trn!Unless, InboxP!Trn!Unless, Trn!Settle, InboxP!Trn!Settle, Trn!DecidedAs,
    InboxP!Trn!DecidedAs, Trn!Choice, InboxP!Trn!Choice, Trn!Event, InboxP!Trn!Event,
    Trn!OptionEvent, InboxP!Trn!OptionEvent, Trn!Unsupported, InboxP!Trn!Unsupported,
    Trn!Classified, InboxP!Trn!Classified, Trn!Because, InboxP!Trn!Because, Trn!YesOption,
    InboxP!Trn!YesOption, Trn!AllowedOptions, InboxP!Trn!AllowedOptions, Trn!Triage,
    InboxP!Trn!Triage, Trn!Devices, InboxP!Trn!Devices, Trn!Chosen, InboxP!Trn!Chosen, Trn!NoOption,
    InboxP!Trn!NoOption, Trn!Cardinality, InboxP!Trn!Cardinality, Trn!Matches, InboxP!Trn!Matches,
    Trn!SecureButtonOnly, InboxP!Trn!SecureButtonOnly, Trn!DeviceEvidence,
    InboxP!Trn!DeviceEvidence, Trn!Options, InboxP!Trn!Options, Trn!Validated, InboxP!Trn!Validated

LEMMA SameRespond == Trn!Respond <=> InboxP!Trn!Respond
  BY ZenonT(60) DEF Trn!Respond, InboxP!Trn!Respond, Trn!Classified, InboxP!Trn!Classified, Trn!Is,
    InboxP!Trn!Is, Trn!Because, InboxP!Trn!Because, Trn!Unsupported, InboxP!Trn!Unsupported,
    Trn!Some, InboxP!Trn!Some, Trn!YesOption, InboxP!Trn!YesOption, Trn!AllowedOptions,
    InboxP!Trn!AllowedOptions, Trn!Triage, InboxP!Trn!Triage, Trn!Devices, InboxP!Trn!Devices,
    Trn!Chosen, InboxP!Trn!Chosen, Trn!NoOption, InboxP!Trn!NoOption, Trn!Cardinality,
    InboxP!Trn!Cardinality, Trn!Matches, InboxP!Trn!Matches, Trn!SecureButtonOnly,
    InboxP!Trn!SecureButtonOnly, Trn!RequiresDeterministicHandoff,
    InboxP!Trn!RequiresDeterministicHandoff, Trn!HardMarks, InboxP!Trn!HardMarks, Trn!Handoff,
    InboxP!Trn!Handoff, Trn!Say, InboxP!Trn!Say, Trn!Reviewed, InboxP!Trn!Reviewed, Trn!FirstOf,
    InboxP!Trn!FirstOf, Trn!Applies, InboxP!Trn!Applies, Trn!Helped, InboxP!Trn!Helped, Trn!NoReply,
    InboxP!Trn!NoReply, Trn!ReviewedLadder, InboxP!Trn!ReviewedLadder, Trn!When, InboxP!Trn!When,
    Trn!Rung, InboxP!Trn!Rung, Trn!States, InboxP!Trn!States, Trn!Certs, InboxP!Trn!Certs,
    Trn!PowerSteps, InboxP!Trn!PowerSteps, Trn!IntakeSteps, InboxP!Trn!IntakeSteps, Trn!Unless,
    InboxP!Trn!Unless, Trn!PendingOr, InboxP!Trn!PendingOr, Trn!HasPending, InboxP!Trn!HasPending,
    Trn!GuidedStates, InboxP!Trn!GuidedStates, Trn!RolloutReply, InboxP!Trn!RolloutReply,
    Trn!LocalSupport, InboxP!Trn!LocalSupport, Trn!Replies, InboxP!Trn!Replies, Trn!Spoken,
    InboxP!Trn!Spoken

LEMMA SameClose == Trn!Close <=> InboxP!Trn!Close
  BY ZenonT(60) DEF Trn!Close, InboxP!Trn!Close, Trn!DecidedAs, InboxP!Trn!DecidedAs, Trn!Talk,
    InboxP!Trn!Talk, Trn!Event, InboxP!Trn!Event, Trn!Is, InboxP!Trn!Is, Trn!Say, InboxP!Trn!Say

LEMMA SameCommit == Trn!Commit <=> InboxP!Trn!Commit
  BY SameDecision, SameGates, ZenonT(60) DEF Trn!Commit, InboxP!Trn!Commit, Trn!Patched,
    InboxP!Trn!Patched

LEMMA SameTurn ==
  /\ Trn!Init <=> InboxP!Trn!Init
  /\ Trn!Next <=> InboxP!Trn!Next
  /\ [Trn!Next]_(Trn!vars) <=> [InboxP!Trn!Next]_(InboxP!Trn!vars)
<1>1. Trn!Init <=> InboxP!Trn!Init
  BY ZenonT(60) DEF Trn!Init, InboxP!Trn!Init, Trn!NoReply, InboxP!Trn!NoReply, Trn!NoTurn,
    InboxP!Trn!NoTurn, Trn!Event, InboxP!Trn!Event
<1>2. Trn!Next <=> InboxP!Trn!Next
  BY SameBegin, SameDraft, SameUnreachable, SameThreeDrafts, SameAnswerLocally, SameUnderstand,
    SameGuide, SameClassify, SameRespond, SameClose, SameCommit DEF Trn!Next, InboxP!Trn!Next
<1>3. (UNCHANGED Trn!vars) <=> (UNCHANGED InboxP!Trn!vars)
  BY DEF Trn!vars, InboxP!Trn!vars
<1> QED BY <1>1, <1>2, <1>3

LEMMA SameTurnSafe ==
  /\ Trn!GatedTextStaysLocal <=> InboxP!Trn!GatedTextStaysLocal
  /\ Trn!TextIsAnswered <=> InboxP!Trn!TextIsAnswered
  /\ Trn!NoConsentInWords <=> InboxP!Trn!NoConsentInWords
<1>1. Trn!GatedTextStaysLocal <=> InboxP!Trn!GatedTextStaysLocal
  BY ZenonT(60) DEF Trn!GatedTextStaysLocal, InboxP!Trn!GatedTextStaysLocal, Trn!Some,
    InboxP!Trn!Some, Trn!GatedMarks, InboxP!Trn!GatedMarks, Trn!Is, InboxP!Trn!Is, Trn!HardMarks,
    InboxP!Trn!HardMarks, Trn!StopWithQuestion, InboxP!Trn!StopWithQuestion
<1>2. Trn!TextIsAnswered <=> InboxP!Trn!TextIsAnswered
  BY SameDecision, ZenonT(60) DEF Trn!TextIsAnswered, InboxP!Trn!TextIsAnswered, Trn!NoOp,
    InboxP!Trn!NoOp, Trn!Act, InboxP!Trn!Act
<1>3. Trn!NoConsentInWords <=> InboxP!Trn!NoConsentInWords
  BY DEF Trn!NoConsentInWords, InboxP!Trn!NoConsentInWords
<1> QED BY <1>1, <1>2, <1>3

(* What the service is instantiated with is what the theorems ask for.      *)
LEMMA TheStories == InboxP!StoriesAreSent
<1>1. \A a, b \in InboxP!Kinds : <<a, b>> \in Seq(InboxP!Kinds)
  OBVIOUS
<1>2. \A a, b, c \in InboxP!Kinds : <<a, b, c>> \in Seq(InboxP!Kinds)
  OBVIOUS
<1>3. {"TEXT", "TAP", "CERT_FILE", "PASSWORD", "REPORT", "APUD_PDF", "STOP"} \subseteq InboxP!Kinds
  BY DEF InboxP!Kinds, InboxP!Texts, InboxP!Files
<1>4. {<<"TEXT", "TEXT", "TEXT">>, <<"TEXT", "TAP", "TEXT">>, <<"TEXT", "TEXT", "APUD_PDF">>}
        \subseteq Seq(InboxP!Kinds)
  BY <1>2, <1>3
<1>5. {<<"CERT_FILE", "PASSWORD">>, <<"PASSWORD", "CERT_FILE">>, <<"CERT_FILE", "CERT_FILE">>}
        \subseteq Seq(InboxP!Kinds)
  BY <1>1, <1>3
<1>6. {<<"TEXT", k>> : k \in {"REPORT", "APUD_PDF", "STOP"}} \subseteq Seq(InboxP!Kinds)
  BY <1>1, <1>3
<1>7. {<<k, "TEXT">> : k \in {"APUD_PDF", "STOP"}} \subseteq Seq(InboxP!Kinds)
  BY <1>1, <1>3
<1>8. Stories \subseteq Seq(InboxP!Kinds)
  BY <1>4, <1>5, <1>6, <1>7, Zenon DEF Stories
<1> QED BY <1>8 DEF InboxP!StoriesAreSent

LEMMA TheCatalogues == OfficeP!Catalogues
<1>1. \A r \in AdrData!Everything : r[1] \in AdrData!Files \/ \E p : r[1] = <<p>>
  BY DEF AdrData!Everything
<1>2. \A f \in AdrData!Files : f = <<>> \/ (\E p : f = <<p>>) \/ (\E p, q : f = <<p, q>>)
  BY DEF AdrData!Files
<1>3. /\ DOMAIN <<>> = 1..0
      /\ \A p, q : DOMAIN <<p>> = 1..1 /\ DOMAIN <<p, q>> = 1..2
  OBVIOUS
<1>4. \A r \in AdrData!Everything : \E n \in {0, 1, 2} : DOMAIN r[1] = 1..n
  BY <1>1, <1>2, <1>3
<1> QED BY <1>4 DEF OfficeP!Catalogues

LEMMA TheSnapshots == InboxP!Snapshots
<1> DEFINE Fair(x) == InboxP!Talkable(x) /\ InboxP!Whole(x)
<1>1. \A s, cert, d, k :
        /\ s \in InboxP!Trn!States \ {"COMPLETED", "ESCALATED_HUMAN"}
        /\ s = "MOBILE_ASSIST_CONSENT_REQUESTED" => cert = "yes"
        => Fair(TrnData!Snapshot(s, cert, d, k))
  <2> TAKE s, cert, d, k
  <2> DEFINE x == TrnData!Snapshot(s, cert, d, k)
  <2>1. x.state = s /\ x.cert = cert /\ InboxP!Whole(x)
    BY DEF TrnData!Snapshot, InboxP!Whole
  <2>2. s = "MOBILE_ASSIST_PROCESSING" => x.consent
    BY DEF TrnData!Snapshot
  <2> QED BY <2>1, <2>2 DEF InboxP!Talkable, InboxP!Hears
<1>2. \A x \in TrnData!Cases : Fair(x)
  BY <1>1 DEF TrnData!Cases, TrnData!Main, InboxP!Trn!States
<1>3. TrnData!Main \subseteq TrnData!Cases
  BY DEF TrnData!Cases
<1>4. \A texts, cases, pasts, confs :
        cases \subseteq TrnData!Cases => \A i \in TrnData!Turns(texts, cases, pasts, confs) : Fair(i.case)
  BY <1>2 DEF TrnData!Turns
<1>5. \A i \in TrnData!Everything : Fair(i.case)
  BY <1>3, <1>4 DEF TrnData!Everything
<1> QED BY <1>5 DEF InboxP!Snapshots

LEMMA TheUploads == InboxP!UploadsAreFiles
<1>1. \A u \in InboxP!CerData!AnyUpload : InboxP!IsUpload(u)
  BY InboxP!UploadsOfTheRuns
<1>2. CerData!AnyUpload = InboxP!CerData!AnyUpload
  BY DEF CerData!AnyUpload, InboxP!CerData!AnyUpload, CerData!Archives, InboxP!CerData!Archives,
    CerData!OtherFiles, InboxP!CerData!OtherFiles, CerData!Sealed, InboxP!CerData!Sealed,
    CerData!Given, InboxP!CerData!Given, CerData!U, InboxP!CerData!U, CerData!Archive,
    InboxP!CerData!Archive, CerData!KeySeqs, InboxP!CerData!KeySeqs, CerData!CertSeqs,
    InboxP!CerData!CertSeqs, CerData!Key, InboxP!CerData!Key, CerData!Certs, InboxP!CerData!Certs,
    CerData!Ca, InboxP!CerData!Ca, CerData!Mine, InboxP!CerData!Mine, CerData!Weak,
    InboxP!CerData!Weak, CerData!Container, InboxP!CerData!Container, CerData!Signals,
    InboxP!CerData!Signals
<1> QED BY <1>1, <1>2 DEF InboxP!UploadsAreFiles

LEMMA TheDocuments == OfficeP!Documents
<1>1. \A d \in OfficeP!PdfData!AllDocs : OfficeP!IsDoc(d)
  BY OfficeP!DocumentsOfTheRuns
<1>2. PdfData!AllDocs = OfficeP!PdfData!AllDocs
  BY SMT DEF PdfData!AllDocs, OfficeP!PdfData!AllDocs, PdfData!Good, OfficeP!PdfData!Good,
    PdfData!GoodText, OfficeP!PdfData!GoodText, PdfData!Texts, OfficeP!PdfData!Texts,
    PdfData!Unknown, OfficeP!PdfData!Unknown
<1> QED BY <1>1, <1>2 DEF OfficeP!Documents, OfficeP!Pdf!RequiredPageCount

(* Whichever part lives, it keeps its inductive invariant.                  *)
Kept ==
  /\ part = "inbox" => InboxP!InboxInv
  /\ part = "certificate" => InboxP!OwnInv
  /\ part = "queue" => InboxP!Requested
  /\ part = "panel" => OfficeP!PanelInv
  /\ part = "assistance" => OfficeP!Ass!SessionInv
  /\ part = "address" => OfficeP!AskInv
  /\ part = "turn" => InboxP!TurnInv
  /\ part = "audit" => OfficeP!PdfInv

LEMMA KeptInit == Init => Kept
<1>1. In!Init => InboxP!InboxInv
  BY TheStories, InboxP!InboxInit, SameInbox
<1>2. Cer!Init => InboxP!OwnInv
  BY TheUploads, InboxP!OwnInit, SameCheck
<1>3. Que!Init => InboxP!Requested
  BY InboxP!RequestedInit, SameQueue
<1>4. Pan!Init => OfficeP!PanelInv
  BY OfficeP!PanelInit, SamePanel
<1>5. Ass!Init => OfficeP!Ass!SessionInv
  BY OfficeP!SessionInit, SameAssist
<1>6. Adr!Init => OfficeP!AskInv
  BY TheCatalogues, OfficeP!AskInit, SameAddress
<1>7. Trn!Init => InboxP!TurnInv
  BY TheSnapshots, InboxP!TurnInit, SameTurn
<1>8. Pdf!Init => OfficeP!PdfInv
  BY TheDocuments, OfficeP!PdfInit, SameAudit
<1>9. Init => /\ part = "inbox" => In!Init
              /\ part = "certificate" => Cer!Init
              /\ part = "queue" => Que!Init
              /\ part = "panel" => Pan!Init
              /\ part = "assistance" => Ass!Init
              /\ part = "address" => Adr!Init
              /\ part = "turn" => Trn!Init
              /\ part = "audit" => Pdf!Init
  BY DEF Init
<1> QED BY <1>1, <1>2, <1>3, <1>4, <1>5, <1>6, <1>7, <1>8, <1>9 DEF Kept

(* A step of the service is a step of the part that lives.                  *)
LEMMA PartSteps ==
  ASSUME [Next]_service
  PROVE  /\ part = "inbox" => [In!Next]_(In!vars)
         /\ part = "certificate" => [Cer!Next]_(Cer!vars)
         /\ part = "queue" => [Que!Next]_(Que!vars)
         /\ part = "panel" => [Pan!Next]_(Pan!vars)
         /\ part = "assistance" => [Ass!Next]_(Ass!vars)
         /\ part = "address" => [Adr!Next]_(Adr!vars)
         /\ part = "turn" => [Trn!Next]_(Trn!vars)
         /\ part = "audit" => [Pdf!Next]_(Pdf!vars)
<1>1. part = "inbox" => [In!Next]_(In!vars)
  BY DEF Next, service, In!vars
<1>2. part = "certificate" => [Cer!Next]_(Cer!vars)
  BY DEF Next, service, Cer!vars
<1>3. part = "queue" => [Que!Next]_(Que!vars)
  BY DEF Next, service, Que!vars
<1>4. part = "panel" => [Pan!Next]_(Pan!vars)
  BY DEF Next, service, Pan!vars
<1>5. part = "assistance" => [Ass!Next]_(Ass!vars)
  BY DEF Next, service, Ass!vars
<1>6. part = "address" => [Adr!Next]_(Adr!vars)
  BY DEF Next, service, Adr!vars
<1>7. part = "turn" => [Trn!Next]_(Trn!vars)
  BY DEF Next, service, Trn!vars
<1>8. part = "audit" => [Pdf!Next]_(Pdf!vars)
  BY DEF Next, service, Pdf!vars
<1> QED BY <1>1, <1>2, <1>3, <1>4, <1>5, <1>6, <1>7, <1>8

LEMMA KeptStep == Kept /\ [Next]_service => Kept'
<1> SUFFICES ASSUME Kept, [Next]_service PROVE Kept'
  OBVIOUS
<1>1. InboxP!InboxInv /\ [In!Next]_(In!vars) => InboxP!InboxInv'
  BY InboxP!InboxStep, SameInbox
<1>2. InboxP!OwnInv /\ [Cer!Next]_(Cer!vars) => InboxP!OwnInv'
  BY InboxP!OwnStep, SameCheck
<1>3. InboxP!Requested /\ [Que!Next]_(Que!vars) => InboxP!Requested'
  BY InboxP!RequestedStep, SameQueue
<1>4. OfficeP!PanelInv /\ [Pan!Next]_(Pan!vars) => OfficeP!PanelInv'
  BY OfficeP!PanelStep, SamePanel
<1>5. OfficeP!Ass!SessionInv /\ [Ass!Next]_(Ass!vars) => OfficeP!Ass!SessionInv'
  BY OfficeP!SessionStep, SameAssist
<1>6. OfficeP!AskInv /\ [Adr!Next]_(Adr!vars) => OfficeP!AskInv'
  BY OfficeP!AskStep, SameAddress
<1>7. InboxP!TurnInv /\ [Trn!Next]_(Trn!vars) => InboxP!TurnInv'
  BY InboxP!TurnStep, SameTurn
<1>8. OfficeP!PdfInv /\ [Pdf!Next]_(Pdf!vars) => OfficeP!PdfInv'
  BY TheDocuments, OfficeP!PdfStep, SameAudit
<1>9. part' = part
  BY DEF Next, service
<1> QED BY <1>1, <1>2, <1>3, <1>4, <1>5, <1>6, <1>7, <1>8, <1>9, PartSteps DEF Kept

(* In the service, the newest certificate that was read is in its slot or   *)
(* in the record, and no pair is confirmed while the record is empty.       *)
THEOREM ServiceInbox == Init /\ [][Next]_service => []CertificateIsKept
<1>1. InboxP!InboxInv => In!CertificateIsKept
  BY DEF InboxP!InboxInv, InboxP!CertificateIsKept, In!CertificateIsKept
<1>2. Kept => CertificateIsKept
  BY <1>1 DEF Kept, CertificateIsKept
<1> QED BY KeptInit, KeptStep, <1>2, PTL

(* What no model may read is read by none, and every text is answered.      *)
THEOREM ServiceTurn == Init /\ [][Next]_service => []TurnIsSafe
<1>1. InboxP!TurnInv => Trn!GatedTextStaysLocal /\ Trn!TextIsAnswered
  BY InboxP!TurnEnough, SameTurnSafe
<1>2. Kept => TurnIsSafe
  BY <1>1 DEF Kept, TurnIsSafe
<1> QED BY KeptInit, KeptStep, <1>2, PTL

(* Words never give what only a button gives.                               *)
THEOREM ServiceWords == Init /\ [][Next]_service => WordsNeverConsent
<1>1. ASSUME Kept, Next, part = "turn" PROVE Trn!NoConsentInWords \/ UNCHANGED Trn!vars
  <2>1. InboxP!TurnInv /\ [Trn!Next]_(Trn!vars)
    BY <1>1, PartSteps DEF Kept
  <2>2. [InboxP!Trn!NoConsentInWords]_(InboxP!Trn!vars)
    BY <2>1, InboxP!TurnStep, SameTurn
  <2> QED BY <2>2, SameTurnSafe DEF Trn!vars, InboxP!Trn!vars
<1>2. ASSUME Kept, Next, part = "turn" PROVE Trn!NoConsentInWords
  <2>1. CASE UNCHANGED Trn!vars
    <3>1. s8.type \in InboxP!Words \cup {"NONE"}
      BY <1>2 DEF Kept, InboxP!TurnInv, InboxP!CaseInv
    <3> QED BY <2>1, <3>1 DEF Trn!NoConsentInWords, Trn!vars, InboxP!Words, InboxP!Buttons
  <2> QED BY <1>1, <1>2, <2>1
<1>3. Kept /\ [Next]_service => [part = "turn" => Trn!NoConsentInWords]_service
  BY <1>2
<1> QED BY KeptInit, KeptStep, <1>3, PTL DEF WordsNeverConsent

(* What the panel of the service decides is written to the case as shown.   *)
THEOREM ServicePanel == Init /\ [][Next]_service => []PanelIsSafe
<1>1. OfficeP!PanelInv => Pan!DecidedAsDrawn
  BY DEF OfficeP!PanelInv, Pan!DecidedAsDrawn
<1>2. Kept => PanelIsSafe
  BY <1>1 DEF Kept, PanelIsSafe
<1> QED BY KeptInit, KeptStep, <1>2, PTL

(* An assisted draft of the service is the consented work of a session that *)
(* nothing cut short.                                                       *)
THEOREM ServiceAssistance == Init /\ [][Next]_service => []AssistanceIsSafe
<1>1. OfficeP!Ass!SessionInv => Ass!DraftIsConsented /\ Ass!ReturnedIsClean
  BY DEF OfficeP!Ass!SessionInv, OfficeP!Ass!RouteLooked, OfficeP!Ass!ReturnedIsClean, Ass!DraftIsConsented,
    Ass!ReturnedIsClean
<1>2. Kept => AssistanceIsSafe
  BY <1>1 DEF Kept, AssistanceIsSafe
<1> QED BY KeptInit, KeptStep, <1>2, PTL

(* A pair is kept, and phase one closed with it, exactly if it is the       *)
(* client's own.                                                            *)
THEOREM ServiceCertificate == Init /\ [][Next]_service => []OnlyTheClientsOwn
<1>1. InboxP!OwnInv => Cer!OnlyTheClientsOwn
  BY SameOwner DEF InboxP!OwnInv
<1>2. Kept => OnlyTheClientsOwn
  BY <1>1 DEF Kept, OnlyTheClientsOwn
<1> QED BY KeptInit, KeptStep, <1>2, PTL

(* A document is called valid only for what its pages say.                  *)
THEOREM ServiceAudit == Init /\ [][Next]_service => []VerdictIsEarned
<1>1. OfficeP!PdfInv => Pdf!VerdictIsEarned /\ Pdf!TyposAreCaught
  BY TheDocuments, OfficeP!PdfGives, SameVerdict
<1>2. Kept => VerdictIsEarned
  BY <1>1 DEF Kept, VerdictIsEarned
<1> QED BY KeptInit, KeptStep, <1>2, PTL

(* A district that the service shows is no guess.                           *)
THEOREM ServiceAddress == Init /\ [][Next]_service => []NeverGuesses
<1>1. OfficeP!AskInv => Adr!NeverGuesses
  BY OfficeP!AskEnough, SameGuess
<1>2. Kept => NeverGuesses
  BY <1>1 DEF Kept, NeverGuesses
<1> QED BY KeptInit, KeptStep, <1>2, PTL

(* What was read before a wait is not committed when it no longer holds:    *)
(* a turn on a case that stopped or that a person took, a certificate on a  *)
(* case that moved, an audit over a report, an address of an older version. *)
THEOREM ServiceCommitsFresh == Init /\ [][Next]_service => NothingStaleIsCommitted
<1>1. ASSUME Kept, Next, part = "inbox" PROVE In!DropsAfterStop /\ In!LeavesToPerson
  <2>1. In!CommitTurn => s3.optOut = FALSE /\ s3.stage # "HELD"
    BY <1>1, InboxP!CommitsOnOpenCase, SameCommitTurn DEF Kept
  <2> QED BY <2>1 DEF In!DropsAfterStop, In!LeavesToPerson
<1>2. ASSUME Kept, Next, part = "certificate" PROVE Cer!ClosesAsLoaded
  <2>1. InboxP!Cer!ClosesAsLoaded
    BY <1>2, InboxP!ClosesOnLoaded, SameCheck DEF Kept, Next, InboxP!OwnInv
  <2> QED BY <2>1 DEF Cer!ClosesAsLoaded, InboxP!Cer!ClosesAsLoaded
<1>3. ASSUME Kept, Next, part = "queue" PROVE Que!AuditStands
  <2>1. InboxP!Que!AuditStands
    BY <1>3, InboxP!AuditStep, SameQueue DEF Kept, Next
  <2> QED BY <2>1 DEF Que!AuditStands, InboxP!Que!AuditStands
<1>4. ASSUME Kept, Next, part = "address" PROVE Adr!ShowsFresh
  <2>1. OfficeP!Adr!ShowsFresh
    BY <1>4, OfficeP!FreshStep, SameAddress DEF Next
  <2> QED BY <2>1 DEF Adr!ShowsFresh, OfficeP!Adr!ShowsFresh
<1>5. Kept /\ [Next]_service =>
        [/\ part = "inbox" => In!DropsAfterStop /\ In!LeavesToPerson
         /\ part = "certificate" => Cer!ClosesAsLoaded
         /\ part = "queue" => Que!AuditStands
         /\ part = "address" => Adr!ShowsFresh]_service
  BY <1>1, <1>2, <1>3, <1>4
<1> QED BY KeptInit, KeptStep, <1>5, PTL DEF NothingStaleIsCommitted
==============================================================================
