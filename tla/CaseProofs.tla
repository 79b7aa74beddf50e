----------------------------- MODULE CaseProofs -----------------------------
(***************************************************************************)
(* The decision table and the safety of the case.                          *)
(*                                                                         *)
(* The decision table keeps to the gates of the engine on every snapshot,  *)
(* for every event: outside ESCALATED_HUMAN and COMPLETED no event makes   *)
(* evaluateNextStep throw.  Most rows of the table are plain (they queue   *)
(* nothing a gate is about) or escalate; the eight others are proved with  *)
(* the state that answers them.  The second half says which decisions may  *)
(* enter, move and leave the filing, which the invariant builds on.        *)
(*                                                                         *)
(* The safety of the case, for every set of files, audit reports, texts,   *)
(* buttons and panel events, and every bound on waiting taps and doubts.   *)
(* The inductive invariant is CaseInv (CaseInvariant).  A step is proved   *)
(* in three parts: what the table may decide (TableClassified), what it    *)
(* does to the case (DecisionMoves), and what it leaves of the uploads     *)
(* (UploadsFollow); only the approval, the attempt and the settling of an  *)
(* upload need an argument of their own.                                   *)
(***************************************************************************)
EXTENDS CaseInvariant, TLAPS

PlainActs == {"NO_OP", "SEND", "CHECK"}
Plain(d) ==
  /\ d.act.kind \in PlainActs
  /\ d.to \notin {"ESCALATED_HUMAN", "COMPLETED"}
  /\ d.act # Act("SEND", "APUDATA_PAYMENT_DETAILS")
Escalates(d) == d.act.kind = "ESCALATE" /\ d.to = "ESCALATED_HUMAN"
Harmless(d) == Plain(d) \/ Escalates(d)
Routine(d) == d = Unanswered \/ Harmless(d)

Going(x) == x.state \in States \ {"ESCALATED_HUMAN", "COMPLETED"}
Gated(x, paper, e, d) == d = Unanswered \/ RespectsGates(x, paper, e, d)

(* A decision that is harmless meets every gate in a state that is going.  *)
LEMMA HarmlessRespects ==
  ASSUME NEW x, NEW paper, NEW e, NEW d, Going(x), Harmless(d)
  PROVE  RespectsGates(x, paper, e, d)
<1>1. CASE Plain(d)
  <2>1. /\ d.act.kind \notin {"UPLOAD", "NOTIFY", "ORDER", "SEDE", "ESCALATE"}
        /\ d.to # "ESCALATED_HUMAN" /\ d.to # "COMPLETED"
    BY <1>1 DEF Plain, PlainActs
  <2>2. d.act # Act("SEND", "APUDATA_PAYMENT_DETAILS")
    BY <1>1 DEF Plain
  <2> QED BY <2>1, <2>2 DEF RespectsGates, UploadGate, NoticeGate, FinancialGate, ConsentGate,
                             StateGate, Going
<1>2. CASE Escalates(d)
  <2>1. d.act.kind = "ESCALATE" /\ d.to = "ESCALATED_HUMAN"
    BY <1>2 DEF Escalates
  <2>2. d.act # Act("SEND", "APUDATA_PAYMENT_DETAILS")
    BY <2>1 DEF Act
  <2> QED BY <2>1, <2>2 DEF RespectsGates, UploadGate, NoticeGate, FinancialGate, ConsentGate,
                             StateGate, Going
<1> QED BY <1>1, <1>2 DEF Harmless

(* ------------------------- the shared transitions --------------------- *)
(* What the constructors of decisions build, whatever patch they carry.    *)
LEMMA Constructors ==
  ASSUME NEW x, Going(x), NEW patch
  PROVE  /\ Harmless(Hold(x)) /\ Harmless(HoldWith(x, patch))
         /\ Harmless(EscalateWith(patch)) /\ Harmless(Escalate)
         /\ Harmless(EscalateTelling(patch))
         /\ \A to, template :
              to \notin {"ESCALATED_HUMAN", "COMPLETED"} /\ template # "APUDATA_PAYMENT_DETAILS"
                => Harmless(Send(to, template, patch))
         /\ \A to : to \notin {"ESCALATED_HUMAN", "COMPLETED"} => Harmless(Decide(to, NoOp, patch))
BY DEF Hold, HoldWith, EscalateWith, Escalate, EscalateTelling, Send, Decide, NoOp, Act,
       Harmless, Plain, PlainActs, Escalates, Going

LEMMA Steps ==
  ASSUME NEW e, NEW patch
  PROVE  /\ Harmless(AskHasCert) /\ Harmless(AskDevice) /\ Harmless(AskHasPc)
         /\ Harmless(ExportGuide) /\ Harmless(PcTutorial) /\ Harmless(AcquisitionLinks)
         /\ Harmless(CourtFallback) /\ Harmless(Fallback(patch)) /\ Harmless(ConsentRequest)
         /\ Harmless(RevocationGuide(patch)) /\ Harmless(ApudataPreapproval(e))
         /\ Harmless(ToAudit(e))
BY DEF AskHasCert, AskDevice, AskHasPc, ExportGuide, PcTutorial, AcquisitionLinks,
       CourtFallback, Fallback, ConsentRequest, RevocationGuide, ApudataPreapproval, ToAudit,
       EscalateTelling, Send, Decide, NoOp, Act, Harmless, Plain, PlainActs, Escalates

LEMMA Helped ==
  ASSUME NEW x, NEW e, Going(x)
  PROVE  Harmless(GuidedHelp(x, e))
BY Constructors, Steps DEF GuidedHelp, Send, Decide, Act, Harmless, Plain, PlainActs, Going

(* ---------------------------- routine handlers ------------------------ *)
LEMMA TriageRoutine ==
  ASSUME NEW x, NEW e, Going(x)
  PROVE  /\ Routine(TriageAnswer(x, e)) /\ Routine(InitialTriage(x, e))
         /\ Routine(MobileTriagePcCheck(x, e)) /\ Routine(MobileExportGuideSent(x, e))
<1>1. Routine(TriageAnswer(x, e))
  BY Steps DEF TriageAnswer, Routine
<1> QED BY <1>1, Steps DEF InitialTriage, MobileTriagePcCheck, MobileExportGuideSent, Routine

LEMMA ConsentRoutine ==
  ASSUME NEW x, NEW e, Going(x)
  PROVE  Routine(MobileAssistConsentRequested(x, e))
<1>1. \A patch : Harmless(Send("MOBILE_ASSIST_PROCESSING", "STEP", patch))
  BY DEF Send, Decide, Act, Harmless, Plain, PlainActs
<1>2. Harmless(Send(x.state, "ASSIST_CONSENT_REQUEST", NoPatch))
  BY DEF Send, Decide, Act, Harmless, Plain, PlainActs, Going
<1> QED BY <1>1, <1>2, Steps DEF MobileAssistConsentRequested, Routine

LEMMA DocumentRoutine ==
  ASSUME NEW x, NEW e, Going(x)
  PROVE  /\ Routine(PdfExpected(x, e)) /\ Routine(CertAcquisitionLinksSent(x, e))
         /\ Routine(FallbackOptions(x, e)) /\ Routine(CourtFallbackGuideSent(x, e))
         /\ Routine(ApudataVideoInProgress(x, e))
BY Steps DEF PdfExpected, CertAcquisitionLinksSent, FallbackOptions, CourtFallbackGuideSent,
             ApudataVideoInProgress, Routine

LEMMA RevocationRoutine ==
  ASSUME NEW x, NEW paper, NEW e, Going(x)
  PROVE  /\ Routine(ProvisionalViabilized(x, paper, e)) /\ Routine(RevocationGuideSent(x, e))
         /\ Routine(WaitingRevocationReissue(x, e))
<1>1. Harmless(Send("WAITING_REVOCATION_REISSUE", "STEP", NoPatch))
  BY DEF Send, Decide, Act, Harmless, Plain, PlainActs
<1>2. Harmless(Escalate) /\ Harmless(EscalateTelling(NoPatch)) /\ Harmless(Hold(x))
  BY Constructors
<1> QED BY <1>1, <1>2, Steps DEF ProvisionalViabilized, RevocationGuideSent,
                                 WaitingRevocationReissue, Routine

LEMMA GlobalHarmless ==
  ASSUME NEW x, NEW e, Going(x)
  PROVE  Harmless(Global(x, e))
<1>1. Harmless(Escalate) /\ Harmless(EscalateTelling(NoPatch)) /\ Harmless(Hold(x))
  BY Constructors
<1>2. Harmless(Send(x.state, "CONVERSATION_REPLY", NoPatch))
  BY DEF Send, Decide, Act, Harmless, Plain, PlainActs, Going
<1>3. Harmless(SmallTalk(x, e))
  BY <1>1, <1>2 DEF SmallTalk
<1> QED BY <1>1, <1>3, Steps DEF Global

(* ------------------------ handlers with a gated row ------------------- *)
(* A patch writes the fields it has.                                       *)
LEMMA PatchedField ==
  ASSUME NEW x, NEW p, NEW f, f \in DOMAIN x, f \in DOMAIN p
  PROVE  Patched(x, p)[f] = p[f]
BY DEF Patched
LEMMA UnpatchedField ==
  ASSUME NEW x, NEW p, NEW f, f \in DOMAIN x, f \notin DOMAIN p
  PROVE  Patched(x, p)[f] = x[f]
BY DEF Patched

Marks == {"state", "consent", "doc", "approved", "reviewed", "gate", "provisional"}
Snapshot(x) == Going(x) /\ Marks \subseteq DOMAIN x

(* A Sede job runs under consent, and the submission after the review.     *)
LEMMA SedeRespects ==
  ASSUME NEW x, NEW paper, NEW e, NEW phase, NEW patch, Snapshot(x),
         x.consent = TRUE, "consent" \notin DOMAIN patch,
         phase = "SUBMISSION" => "reviewed" \in DOMAIN patch /\ patch.reviewed = TRUE
  PROVE  RespectsGates(x, paper, e, Sede(phase, patch))
<1> DEFINE d == Sede(phase, patch)
           y == Patched(x, patch)
<1>1. d.to = "MOBILE_ASSIST_PROCESSING" /\ d.act.kind = "SEDE" /\ d.act.what = phase
      /\ d.patch = patch
  BY DEF Sede, Decide, Act
<1>2. y.consent = TRUE
  BY UnpatchedField DEF Snapshot, Marks
<1>3. phase = "SUBMISSION" => y.reviewed = TRUE
  BY PatchedField DEF Snapshot, Marks
<1>4. d.act # Act("SEND", "APUDATA_PAYMENT_DETAILS")
  BY <1>1 DEF Act
<1> HIDE DEF d, y
<1>5. UploadGate(x, e, d, y) /\ NoticeGate(paper, e, d, y) /\ FinancialGate(e, d, y)
  BY <1>1, <1>4 DEF UploadGate, NoticeGate, FinancialGate
<1>6. ConsentGate(d, y)
  BY <1>1, <1>2, <1>3 DEF ConsentGate
<1>7. StateGate(x, paper, e, d)
  BY <1>1 DEF StateGate, Snapshot, Going
<1>8. y = Patched(x, d.patch)
  BY <1>1 DEF y
<1>9. RespectsGates(x, paper, e, d)
  BY <1>5, <1>6, <1>7, <1>8 DEF RespectsGates
<1> QED BY <1>9 DEF d

LEMMA AssistGated ==
  ASSUME NEW x, NEW paper, NEW e, Snapshot(x)
  PROVE  Gated(x, paper, e, MobileAssistProcessing(x, paper, e)) \/ x.consent \notin BOOLEAN
<1> SUFFICES ASSUME x.consent \in BOOLEAN
             PROVE  Gated(x, paper, e, MobileAssistProcessing(x, paper, e))
  OBVIOUS
<1> Going(x)
  BY DEF Snapshot
<1>1. \A d : Harmless(d) => RespectsGates(x, paper, e, d)
  BY HarmlessRespects
<1>2. /\ Harmless(Hold(x)) /\ Harmless(Escalate)
      /\ \A p : Harmless(EscalateTelling(p))
  BY Constructors
<1>3. /\ Harmless(Send(x.state, "DRAFT_REVIEW_REQUEST", DraftStored(e)))
      /\ Harmless(Decide("WAITING_PDF_SUBMISSION", NoOp, NoPatch))
  BY DEF Send, Decide, Act, NoOp, Harmless, Plain, PlainActs, Going
<1>4. x.consent = TRUE =>
        /\ RespectsGates(x, paper, e, Sede("INSPECT", NoPatch))
        /\ RespectsGates(x, paper, e, Sede("DRAFT", NoPatch))
        /\ RespectsGates(x, paper, e, Sede("SUBMISSION", [reviewed |-> TRUE]))
  <2>1. DOMAIN NoPatch = {}
    BY DEF NoPatch
  <2> QED BY <2>1, SedeRespects
<1>5. CASE x.consent = FALSE
  BY <1>1, <1>2, <1>5, Steps DEF MobileAssistProcessing, Gated
<1>6. CASE x.consent = TRUE
  BY <1>1, <1>2, <1>3, <1>4, <1>6, Steps DEF MobileAssistProcessing, Gated
<1> QED BY <1>5, <1>6

(* An upload is decided on an approval of the selected document only, with *)
(* both marks in the same patch.                                           *)
LEMMA AuditGated ==
  ASSUME NEW x, NEW paper, NEW e, Snapshot(x)
  PROVE  Gated(x, paper, e, AuditingDocument(x, e))
<1> DEFINE d == Decide("KMALEON_FILING", Act("UPLOAD", "NONE"), [approved |-> TRUE, reviewed |-> TRUE])
           y == Patched(x, d.patch)
<1> Going(x)
  BY DEF Snapshot
<1>1. \A f : Harmless(f) => RespectsGates(x, paper, e, f)
  BY HarmlessRespects
<1>2. Harmless(Escalate) /\ Harmless(Hold(x))
      /\ \A p : Harmless(HoldWith(x, p)) /\ Harmless(EscalateWith(p))
  BY Constructors
<1>3. \A p : Harmless(Send("WAITING_PDF_SUBMISSION", "STEP", p)) /\ Harmless(RevocationGuide(p))
  BY Constructors, Steps
<1>4. ASSUME e.type = "OPERATOR_APPROVED_DOCUMENT", x.doc = e.doc
      PROVE  RespectsGates(x, paper, e, d)
  <2>1. d.patch = [approved |-> TRUE, reviewed |-> TRUE]
    BY DEF Decide
  <2>2. y.approved = TRUE /\ y.reviewed = TRUE
    BY <2>1, PatchedField DEF Snapshot, Marks
  <2>3. d.to = "KMALEON_FILING" /\ d.act.kind = "UPLOAD" /\ d.act # Act("SEND", "APUDATA_PAYMENT_DETAILS")
    BY DEF Decide, Act
  <2> HIDE DEF d
  <2>4. UploadGate(x, e, d, y)
    BY <1>4, <2>2, <2>3 DEF UploadGate
  <2>5. /\ NoticeGate(paper, e, d, y) /\ FinancialGate(e, d, y) /\ ConsentGate(d, y)
        /\ StateGate(x, paper, e, d)
    BY <2>3 DEF NoticeGate, FinancialGate, ConsentGate, StateGate, Going
  <2> QED BY <2>4, <2>5 DEF RespectsGates
<1>5. e.type = "OPERATOR_APPROVED_DOCUMENT" => RespectsGates(x, paper, e, ApprovedDocument(x, e))
  BY <1>1, <1>2, <1>4 DEF ApprovedDocument
<1>6. Harmless(AuditCompleted(x, e))
  BY <1>2 DEF AuditCompleted
<1>7. Harmless(RejectedDocument(x, e))
  BY <1>2, <1>3 DEF RejectedDocument
<1> QED BY <1>1, <1>5, <1>6, <1>7, Steps DEF AuditingDocument, Gated

(* The notice to the office follows the verified filing of what is approved.*)
LEMMA FilingGated ==
  ASSUME NEW x, NEW paper, NEW e, Snapshot(x), x.approved \in BOOLEAN
  PROVE  Gated(x, paper, e, KmaleonFiling(x, e))
<1> DEFINE to == IF e.says = "provisional" THEN "PROVISIONAL_VIABILIZED" ELSE "HANDOFF_DAYANA"
           p == [provisional |-> e.says = "provisional"]
           d == Decide(to, Act("NOTIFY", "NONE"), p)
           y == Patched(x, d.patch)
<1> Going(x)
  BY DEF Snapshot
<1>1. \A f : Harmless(f) => RespectsGates(x, paper, e, f)
  BY HarmlessRespects
<1>2. Harmless(Escalate) /\ Harmless(Hold(x))
  BY Constructors
<1>3. ASSUME e.type = "KMALEON_UPLOAD_VERIFIED", x.approved = TRUE
      PROVE  RespectsGates(x, paper, e, d)
  <2>1. d.patch = p /\ DOMAIN p = {"provisional"}
    BY DEF Decide
  <2>2. y.approved = TRUE
    BY <1>3, <2>1, UnpatchedField DEF Snapshot, Marks
  <2>3. /\ d.to \notin {"ESCALATED_HUMAN", "COMPLETED"} /\ d.act.kind = "NOTIFY"
        /\ d.act # Act("SEND", "APUDATA_PAYMENT_DETAILS")
    BY DEF Decide, Act
  <2> HIDE DEF d
  <2>4. NoticeGate(paper, e, d, y)
    BY <1>3, <2>2 DEF NoticeGate
  <2>5. /\ UploadGate(x, e, d, y) /\ FinancialGate(e, d, y) /\ ConsentGate(d, y)
        /\ StateGate(x, paper, e, d)
    BY <2>3 DEF UploadGate, FinancialGate, ConsentGate, StateGate, Going
  <2> QED BY <2>4, <2>5 DEF RespectsGates
<1> QED BY <1>1, <1>2, <1>3 DEF KmaleonFiling, Gated

(* Payment details go out with the approval that opens the gate.           *)
LEMMA PreapprovalGated ==
  ASSUME NEW x, NEW paper, NEW e, Snapshot(x)
  PROVE  Gated(x, paper, e, ApudataPendingPreapproval(x, e))
<1> DEFINE d == Send("APUDATA_WAITING_PAYMENT", "APUDATA_PAYMENT_DETAILS", GateOpen)
           y == Patched(x, d.patch)
<1> Going(x)
  BY DEF Snapshot
<1>1. \A f : Harmless(f) => RespectsGates(x, paper, e, f)
  BY HarmlessRespects
<1>2. Harmless(Escalate)
  BY Constructors
<1>3. y.gate = "open"
  BY PatchedField DEF Snapshot, Marks, Send, Decide, GateOpen
<1>4. d.to = "APUDATA_WAITING_PAYMENT" /\ d.act.kind = "SEND"
  BY DEF Send, Decide, Act
<1> HIDE DEF d
<1>5. FinancialGate(e, d, y)
  BY <1>3, <1>4 DEF FinancialGate
<1>6. /\ UploadGate(x, e, d, y) /\ NoticeGate(paper, e, d, y) /\ ConsentGate(d, y)
      /\ StateGate(x, paper, e, d)
  BY <1>4 DEF UploadGate, NoticeGate, ConsentGate, StateGate, Going
<1>7. RespectsGates(x, paper, e, d)
  BY <1>5, <1>6 DEF RespectsGates
<1> QED BY <1>1, <1>2, <1>7 DEF d, ApudataPendingPreapproval, Gated

(* Only a payment confirmed by a person orders.                            *)
LEMMA PaymentGated ==
  ASSUME NEW x, NEW paper, NEW e, Snapshot(x)
  PROVE  Gated(x, paper, e, ApudataWaitingPayment(x, e))
<1> DEFINE d == Decide(x.state, Act("ORDER", "NONE"), NoPatch)
           y == Patched(x, d.patch)
<1> Going(x)
  BY DEF Snapshot
<1>1. \A f : Harmless(f) => RespectsGates(x, paper, e, f)
  BY HarmlessRespects
<1>2. Harmless(Escalate) /\ \A p : Harmless(HoldWith(x, p))
  BY Constructors
<1>3. Harmless(Send("APUDATA_VIDEO_IN_PROGRESS", "STEP", NoPatch))
  BY Constructors
<1>4. d.to = x.state /\ d.act.kind = "ORDER" /\ d.act # Act("SEND", "APUDATA_PAYMENT_DETAILS")
  BY DEF Decide, Act
<1> HIDE DEF d
<1>5. e.type = "OPERATOR_PAYMENT_CONFIRMED" => RespectsGates(x, paper, e, d)
  BY <1>4 DEF RespectsGates, UploadGate, NoticeGate, FinancialGate, ConsentGate, StateGate, Going
<1> QED BY <1>1, <1>2, <1>3, <1>5 DEF d, ApudataWaitingPayment, Gated

(* A case is completed by a delivered notice about a final filing only.    *)
LEMMA HandoffGated ==
  ASSUME NEW x, NEW paper, NEW e, Snapshot(x), x.state = "HANDOFF_DAYANA"
  PROVE  Gated(x, paper, e, HandoffDayana(x, paper, e))
<1> DEFINE d == Decide("COMPLETED", NoOp, NoPatch)
           y == Patched(x, d.patch)
<1> Going(x)
  BY DEF Snapshot
<1>1. \A f : Harmless(f) => RespectsGates(x, paper, e, f)
  BY HarmlessRespects
<1>2. Harmless(Escalate) /\ Harmless(Send(x.state, "COMPLETION_NOTICE", NoPatch))
  BY Constructors DEF Going
<1>3. /\ d.to = "COMPLETED" /\ d.act = NoOp /\ d.act.kind = "NO_OP"
      /\ d.act # Act("SEND", "APUDATA_PAYMENT_DETAILS")
  BY DEF Decide, NoOp, Act
<1> HIDE DEF d
<1>4. ASSUME e.type = "CLIENT_NOTIFICATION_DELIVERED", FinalChain(x, paper)
      PROVE  RespectsGates(x, paper, e, d)
  <2>1. StateGate(x, paper, e, d)
    BY <1>3, <1>4 DEF StateGate, FinalChain, Going
  <2> QED BY <1>3, <2>1 DEF RespectsGates, UploadGate, NoticeGate, FinancialGate, ConsentGate
<1> QED BY <1>1, <1>2, <1>4 DEF d, HandoffDayana, Gated

(* -------------------------------- the table --------------------------- *)
(* On every snapshot whose state is going, the table decides every event   *)
(* within the gates: assertDecisionContract and assertInvariants never     *)
(* throw on it (decision-engine.ts calls them defense in depth).           *)
THEOREM TableKeepsGates ==
  ASSUME NEW x, NEW paper, NEW e, Snapshot(x), x.consent \in BOOLEAN, x.approved \in BOOLEAN
  PROVE  RespectsGates(x, paper, e, Transition(x, paper, e))
<1> Going(x)
  BY DEF Snapshot
<1>1. \A d : Harmless(d) => RespectsGates(x, paper, e, d)
  BY HarmlessRespects
<1>2. \A d : Routine(d) => Gated(x, paper, e, d)
  BY <1>1 DEF Routine, Gated
<1>3. Gated(x, paper, e, Handler(x, paper, e))
  <2>1. CASE x.state \in {"INITIAL_TRIAGE", "WAITING_CERT_RESPONSE", "MOBILE_TRIAGE_PC_CHECK",
                          "MOBILE_EXPORT_GUIDE_SENT", "MOBILE_ASSIST_CONSENT_REQUESTED"}
    BY <1>2, <2>1, TriageRoutine, ConsentRoutine DEF Handler
  <2>2. CASE x.state \in {"PC_TUTORIAL_SENT", "WAITING_PDF_SUBMISSION",
                          "CERT_ACQUISITION_LINKS_SENT", "FALLBACK_OPTIONS",
                          "COURT_FALLBACK_GUIDE_SENT", "APUDATA_VIDEO_IN_PROGRESS"}
    BY <1>2, <2>2, DocumentRoutine DEF Handler
  <2>3. CASE x.state \in {"PROVISIONAL_VIABILIZED", "REVOCATION_GUIDE_SENT",
                          "WAITING_REVOCATION_REISSUE"}
    BY <1>2, <2>3, RevocationRoutine DEF Handler
  <2>4. CASE x.state \in {"MOBILE_ASSIST_PROCESSING", "AUDITING_DOCUMENT", "KMALEON_FILING"}
    BY <2>4, AssistGated, AuditGated, FilingGated DEF Handler
  <2>5. CASE x.state \in {"APUDATA_PENDING_PREAPPROVAL", "APUDATA_WAITING_PAYMENT",
                          "HANDOFF_DAYANA"}
    BY <2>5, PreapprovalGated, PaymentGated, HandoffGated DEF Handler
  <2> QED BY <2>1, <2>2, <2>3, <2>4, <2>5 DEF Going, States
<1>4. RespectsGates(x, paper, e, Global(x, e))
  BY <1>1, GlobalHarmless
<1>5. RespectsGates(x, paper, e, OrElse(Handler(x, paper, e), Global(x, e)))
  BY <1>3, <1>4 DEF OrElse, Gated, Unanswered, Decide
<1>6. RespectsGates(x, paper, e, GuidedHelp(x, e))
  BY <1>1, Helped
<1> QED BY <1>5, <1>6 DEF Transition

(* Hence every state of the workflow that is well typed is safe from a     *)
(* decision that throws.                                                   *)
THEOREM TypedIsSafe == TypeOK => TableRespectsGates
<1> SUFFICES ASSUME TypeOK, c.state \notin {"ESCALATED_HUMAN", "COMPLETED"}
             PROVE  \A e \in AnyEvent :
                      RespectsGates(c, Paper(c, docs), e, Transition(c, Paper(c, docs), e))
  BY DEF TableRespectsGates
<1>1. Snapshot(c) /\ c.consent \in BOOLEAN /\ c.approved \in BOOLEAN
  BY DEF TypeOK, CaseSet, Snapshot, Going, Marks
<1> QED BY <1>1, TableKeepsGates

(* ----------------- what may enter and leave the filing ----------------- *)
(* A patch of the case: what transition merges into the row, each column   *)
(* with what it may hold.                                                  *)
PatchOK(p) ==
  /\ DOMAIN p \cap {"state", "prev", "optOut", "closed"} = {}
  /\ "paused" \in DOMAIN p => p.paused \in BOOLEAN
  /\ "cert" \in DOMAIN p => p.cert \in {"unknown", "yes", "no"}
  /\ "device" \in DOMAIN p => p.device \in {"unset", "NONE", "PC", "MOBILE"}
  /\ "dHelp" \in DOMAIN p => p.dHelp \in 0..HelpCap
  /\ "cHelp" \in DOMAIN p => p.cHelp \in 0..HelpCap
  /\ "consent" \in DOMAIN p => p.consent \in BOOLEAN
  /\ "doc" \in DOMAIN p => p.doc \in Docs \cup {NoDoc}
  /\ "approved" \in DOMAIN p => p.approved \in BOOLEAN
  /\ "reviewed" \in DOMAIN p => p.reviewed \in BOOLEAN
  /\ "audit" \in DOMAIN p => p.audit \in {"none"} \cup {r.status : r \in Reports}
  /\ "provisional" \in DOMAIN p => p.provisional \in BOOLEAN
  /\ "gate" \in DOMAIN p => p.gate \in {"none", "open", "expired"}

(* Merging a patch leaves a case.                                          *)
LEMMA PatchKeepsCase ==
  ASSUME NEW x \in CaseSet, NEW p, PatchOK(p)
  PROVE  Patched(x, p) \in CaseSet
BY SMTT(30) DEF CaseSet, PatchOK, Patched

ActSet == [kind : Effects \cup {"NO_OP", "ESCALATE", "SEDE"}, what : DocumentWhats \cup PlainWhats]

(* A decision the engine can carry out; one that leaves the filing alone   *)
(* and is about no document; a handler that gives one or none.             *)
Typed(d) == d.to \in States /\ d.act \in ActSet /\ PatchOK(d.patch)
Aside(d) == Typed(d) /\ d.to \notin Stages /\ ~NamesDocument(d.act)
AsideOrNone(d) == d = Unanswered \/ Aside(d)

(* An event carries the document or the finding its handler reads.         *)
EventOK(e) ==
  /\ e.type \in {"CLIENT_PDF_RECEIVED", "SEDE_DRAFT_READY", "OPERATOR_APPROVED_DOCUMENT",
                "KMALEON_UPLOAD_VERIFIED", "DAYANA_NOTIFIED"} => e.doc \in Docs
  /\ e.type = "PDF_AUDIT_COMPLETED" => e.says \in Reports
  /\ e.type = "OPERATOR_RESUME" => e.says \in States

(* The patches of the table, by the column they write.                     *)
LEMMA SmallPatches ==
  /\ PatchOK(NoPatch) /\ PatchOK(HasCertificate) /\ PatchOK(OnMobile) /\ PatchOK(ConsentWithdrawn)
  /\ PatchOK(GateOpen)
  /\ PatchOK([cert |-> "yes", device |-> "PC", dHelp |-> 0, cHelp |-> 0])
  /\ PatchOK([cert |-> "no", device |-> "NONE", dHelp |-> 0, cHelp |-> 0])
  /\ PatchOK([gate |-> "none"])
BY SMTT(30) DEF PatchOK, NoPatch, HasCertificate, OnMobile, ConsentWithdrawn, GateOpen, HelpCap
LEMMA MarkPatches ==
  /\ \A g \in {"open", "expired"} : PatchOK([gate |-> g])
  /\ \A a, b \in BOOLEAN : PatchOK([approved |-> a, reviewed |-> b])
  /\ \A a \in BOOLEAN : PatchOK([approved |-> a]) /\ PatchOK([reviewed |-> a])
                        /\ PatchOK([consent |-> a]) /\ PatchOK([provisional |-> a])
BY SMTT(30) DEF PatchOK
LEMMA DocumentPatches ==
  ASSUME NEW d \in Docs
  PROVE  /\ PatchOK([doc |-> d, approved |-> FALSE, audit |-> "none"])
         /\ PatchOK([doc |-> d, approved |-> FALSE, reviewed |-> FALSE, audit |-> "none"])
BY SMTT(30) DEF PatchOK
LEMMA HelpPatches ==
  ASSUME NEW m \in 0..HelpCap, NEW n \in 0..HelpCap
  PROVE  PatchOK([dHelp |-> m]) /\ PatchOK([dHelp |-> m, cHelp |-> n])
BY SMTT(30) DEF PatchOK
LEMMA AuditPatches ==
  ASSUME NEW r \in Reports
  PROVE  PatchOK([audit |-> r.status, approved |-> FALSE]) /\ PatchOK([audit |-> r.status])
BY SMTT(30) DEF PatchOK

(* The actions of the table that are about no document.                    *)
LEMMA TableActs ==
  /\ NoOp \in ActSet /\ ~NamesDocument(NoOp)
  /\ \A t \in PlainWhats, k \in {"SEND", "ESCALATE", "SEDE", "CHECK", "ORDER"} :
        Act(k, t) \in ActSet /\ ~NamesDocument(Act(k, t))
BY DEF NoOp, Act, ActSet, Effects, NamesDocument, PlainWhats, DocumentWhats

(* What the constructors of decisions build, and the steps made of them.   *)
LEMMA AsideConstructors ==
  ASSUME NEW patch, PatchOK(patch)
  PROVE  /\ Aside(EscalateWith(patch)) /\ Aside(EscalateTelling(patch)) /\ Aside(Escalate)
         /\ \A to \in States \ Stages, t \in PlainWhats :
              Aside(Send(to, t, patch))
         /\ \A to \in States \ Stages : Aside(Decide(to, NoOp, patch))
         /\ \A t \in PlainWhats : Aside(Sede(t, patch))
BY TableActs, SmallPatches
   DEF EscalateWith, EscalateTelling, Escalate, Send, Decide, Sede, Aside, Typed, Stages, States, PlainWhats

LEMMA AsideSteps ==
  ASSUME NEW e, EventOK(e)
  PROVE  /\ Aside(AskHasCert) /\ Aside(AskDevice) /\ Aside(AskHasPc)
         /\ Aside(ExportGuide) /\ Aside(PcTutorial) /\ Aside(AcquisitionLinks)
         /\ Aside(CourtFallback) /\ Aside(ConsentRequest) /\ Aside(ApudataPreapproval(e))
         /\ \A patch : PatchOK(patch) => Aside(Fallback(patch)) /\ Aside(RevocationGuide(patch))
         /\ e.type = "CLIENT_PDF_RECEIVED" => Aside(ToAudit(e))
<1>1. \A to \in States \ Stages, t \in PlainWhats : \A patch :
         PatchOK(patch) => /\ Aside(Send(to, t, patch)) /\ Aside(Decide(to, NoOp, patch))
                           /\ Aside(EscalateTelling(patch))
  BY AsideConstructors
<1>2. /\ Aside(AskHasCert) /\ Aside(AskDevice) /\ Aside(AskHasPc)
      /\ Aside(ExportGuide) /\ Aside(PcTutorial) /\ Aside(AcquisitionLinks)
      /\ Aside(CourtFallback) /\ Aside(ConsentRequest)
      /\ \A patch : PatchOK(patch) => Aside(Fallback(patch)) /\ Aside(RevocationGuide(patch))
  BY <1>1, SmallPatches
     DEF AskHasCert, AskDevice, AskHasPc, ExportGuide, PcTutorial, AcquisitionLinks,
         CourtFallback, Fallback, ConsentRequest, RevocationGuide, States, Stages, PlainWhats
<1>3. Aside(ApudataPreapproval(e))
  <2>1. Aside(Decide("APUDATA_PENDING_PREAPPROVAL", Act("CHECK", "NONE"), [gate |-> "none"]))
    BY TableActs, SmallPatches DEF Decide, Aside, Typed, States, Stages, PlainWhats
  <2> QED BY <2>1, AsideConstructors, SmallPatches DEF ApudataPreapproval
<1>4. e.type = "CLIENT_PDF_RECEIVED" => Aside(ToAudit(e))
  BY <1>1, DocumentPatches DEF ToAudit, EventOK, States, Stages, PlainWhats
<1> QED BY <1>2, <1>3, <1>4

(* Guided help, and the handlers of the states before the filing, leave    *)
(* the filing alone.                                                       *)
LEMMA AsideHelp ==
  ASSUME NEW x \in CaseSet, NEW e, EventOK(e), x.state \in GuidedStates
  PROVE  Aside(GuidedHelp(x, e))
<1>1. More(x.dHelp) \in 0..HelpCap /\ More(x.cHelp) \in 0..HelpCap
  BY DEF CaseSet, More, HelpCap
<1>2. x.state \in States \ Stages
  BY DEF GuidedStates, States, Stages
<1>3. /\ PatchOK([dHelp |-> More(x.dHelp)])
      /\ PatchOK([dHelp |-> More(x.dHelp), cHelp |-> More(x.cHelp)])
  BY <1>1, HelpPatches
<1>4. \A patch : PatchOK(patch) => Aside(Send(x.state, "STEP", patch))
  BY <1>2, AsideConstructors DEF PlainWhats
<1> QED BY <1>3, <1>4, AsideSteps DEF GuidedHelp

LEMMA AsideTriage ==
  ASSUME NEW x, NEW e, EventOK(e)
  PROVE  /\ AsideOrNone(TriageAnswer(x, e)) /\ AsideOrNone(InitialTriage(x, e))
         /\ AsideOrNone(MobileTriagePcCheck(x, e)) /\ AsideOrNone(MobileExportGuideSent(x, e))
<1>1. AsideOrNone(TriageAnswer(x, e))
  BY AsideSteps, SmallPatches DEF TriageAnswer, AsideOrNone
<1> QED BY <1>1, AsideSteps DEF InitialTriage, MobileTriagePcCheck, MobileExportGuideSent, AsideOrNone

LEMMA AsideDocument ==
  ASSUME NEW x, NEW e, EventOK(e)
  PROVE  /\ AsideOrNone(PdfExpected(x, e)) /\ AsideOrNone(CertAcquisitionLinksSent(x, e))
         /\ AsideOrNone(FallbackOptions(x, e)) /\ AsideOrNone(CourtFallbackGuideSent(x, e))
         /\ AsideOrNone(ApudataVideoInProgress(x, e))
BY AsideSteps DEF PdfExpected, CertAcquisitionLinksSent, FallbackOptions, CourtFallbackGuideSent,
             ApudataVideoInProgress, AsideOrNone

LEMMA AsideConsent ==
  ASSUME NEW x, NEW e, EventOK(e), x.state \in States \ Stages
  PROVE  AsideOrNone(MobileAssistConsentRequested(x, e))
<1>1. /\ Aside(Send("MOBILE_ASSIST_PROCESSING", "STEP", [consent |-> TRUE]))
      /\ Aside(Send(x.state, "ASSIST_CONSENT_REQUEST", NoPatch))
  BY AsideConstructors, SmallPatches, MarkPatches DEF PlainWhats, States, Stages
<1> QED BY <1>1, AsideSteps, SmallPatches DEF MobileAssistConsentRequested, AsideOrNone

LEMMA AsideRevocation ==
  ASSUME NEW x, NEW e, EventOK(e), x.state \in States \ Stages
  PROVE  /\ AsideOrNone(RevocationGuideSent(x, e)) /\ AsideOrNone(WaitingRevocationReissue(x, e))
<1>1. Aside(Send("WAITING_REVOCATION_REISSUE", "STEP", NoPatch)) /\ Aside(Hold(x))
      /\ Aside(EscalateTelling(NoPatch))
  BY AsideConstructors, SmallPatches DEF PlainWhats, States, Stages, Hold
<1> QED BY <1>1, AsideSteps DEF RevocationGuideSent, WaitingRevocationReissue, AsideOrNone

LEMMA AsidePartner ==
  ASSUME NEW x, NEW e, EventOK(e), x.state \in States \ Stages
  PROVE  /\ AsideOrNone(ApudataPendingPreapproval(x, e)) /\ AsideOrNone(ApudataWaitingPayment(x, e))
<1>1. /\ Aside(Send("APUDATA_WAITING_PAYMENT", "APUDATA_PAYMENT_DETAILS", GateOpen))
      /\ Aside(Send("APUDATA_VIDEO_IN_PROGRESS", "STEP", NoPatch)) /\ Aside(Escalate)
  BY AsideConstructors, SmallPatches DEF PlainWhats, States, Stages
<1>2. Aside(Decide(x.state, Act("ORDER", "NONE"), NoPatch))
  BY TableActs, SmallPatches DEF Decide, Aside, Typed, PlainWhats
<1>3. \A g \in {"open", "expired"} : Aside(HoldWith(x, [gate |-> g]))
  BY AsideConstructors, MarkPatches DEF HoldWith
<1> QED BY <1>1, <1>2, <1>3 DEF ApudataPendingPreapproval, ApudataWaitingPayment, AsideOrNone

(* The one answer of the assisted step that is about a document: the       *)
(* draft.                                                                  *)
Drafts(x, e, d) ==
  /\ x.state = "MOBILE_ASSIST_PROCESSING" /\ e.type = "SEDE_DRAFT_READY"
  /\ d = Send(x.state, "DRAFT_REVIEW_REQUEST", DraftStored(e))
LEMMA AsideAssist ==
  ASSUME NEW x, NEW paper, NEW e, EventOK(e), x.state = "MOBILE_ASSIST_PROCESSING"
  PROVE  LET d == MobileAssistProcessing(x, paper, e) IN AsideOrNone(d) \/ Drafts(x, e, d)
<1>1. /\ Aside(Sede("INSPECT", NoPatch)) /\ Aside(Sede("DRAFT", NoPatch))
      /\ Aside(Sede("SUBMISSION", [reviewed |-> TRUE]))
      /\ Aside(Escalate) /\ Aside(EscalateTelling(NoPatch)) /\ Aside(EscalateTelling(ConsentWithdrawn))
      /\ Aside(EscalateTelling([reviewed |-> FALSE]))
      /\ Aside(Decide("WAITING_PDF_SUBMISSION", NoOp, NoPatch)) /\ Aside(Hold(x))
  BY AsideConstructors, SmallPatches, MarkPatches DEF PlainWhats, States, Stages, Hold
<1> QED BY <1>1, AsideSteps DEF MobileAssistProcessing, AsideOrNone, Drafts

(* The one decision that uploads: an approval, by the operator, of the     *)
(* document the case points to.                                            *)
Uploads(x, e, d) ==
  /\ x.state = "AUDITING_DOCUMENT" /\ e.type = "OPERATOR_APPROVED_DOCUMENT" /\ x.doc = e.doc
  /\ d = Decide("KMALEON_FILING", Act("UPLOAD", "NONE"), [approved |-> TRUE, reviewed |-> TRUE])
LEMMA AsideAudit ==
  ASSUME NEW x, NEW e, EventOK(e), x.state = "AUDITING_DOCUMENT"
  PROVE  LET d == AuditingDocument(x, e) IN AsideOrNone(d) \/ Uploads(x, e, d)
<1>1. \A p : PatchOK(p) => /\ Aside(HoldWith(x, p)) /\ Aside(EscalateWith(p))
                           /\ Aside(Send("WAITING_PDF_SUBMISSION", "STEP", p))
                           /\ Aside(RevocationGuide(p))
  BY AsideConstructors, AsideSteps DEF PlainWhats, States, Stages, HoldWith
<1>2. Aside(Escalate) /\ Aside(Hold(x))
  BY AsideConstructors, SmallPatches DEF States, Stages, Hold
<1>3. e.type = "PDF_AUDIT_COMPLETED" => Aside(AuditCompleted(x, e))
  BY <1>1, <1>2, AuditPatches DEF AuditCompleted, EventOK
<1>4. Aside(RejectedDocument(x, e))
  BY <1>1, <1>2, MarkPatches DEF RejectedDocument
<1>5. e.type = "OPERATOR_APPROVED_DOCUMENT" =>
        Aside(ApprovedDocument(x, e)) \/ Uploads(x, e, ApprovedDocument(x, e))
  BY <1>1, <1>2, MarkPatches DEF ApprovedDocument, Uploads
<1> QED BY <1>3, <1>4, <1>5, AsideSteps DEF AuditingDocument, AsideOrNone, Uploads

(* The decisions in and into the filing: to stay, to record the verified   *)
(* upload, to tell the client once the office was told, to complete, and   *)
(* to leave.                                                               *)
Stays(x, e, d) ==
  /\ x.state \in Stages /\ d.to = x.state /\ d.patch = NoPatch
  /\ d.act \in ActSet /\ ~NamesDocument(d.act)
  /\ e.type # "CLIENT_PDF_RECEIVED"
  /\ x.state = "KMALEON_FILING" => e.type # "KMALEON_UPLOAD_VERIFIED"
Verified(x, e, d) ==
  /\ x.state = "KMALEON_FILING" /\ e.type = "KMALEON_UPLOAD_VERIFIED"
  /\ x.approved /\ x.doc = e.doc
  /\ d = Decide(IF e.says = "provisional" THEN "PROVISIONAL_VIABILIZED" ELSE "HANDOFF_DAYANA",
                Act("NOTIFY", "NONE"), [provisional |-> e.says = "provisional"])
Notified(x, e, d) ==
  /\ x.state = "HANDOFF_DAYANA" /\ e.type = "DAYANA_NOTIFIED" /\ x.doc = e.doc
  /\ d = Send(x.state, "COMPLETION_NOTICE", NoPatch)
Completes(x, paper, e, d) ==
  /\ x.state = "HANDOFF_DAYANA" /\ e.type = "CLIENT_NOTIFICATION_DELIVERED"
  /\ d = Decide("COMPLETED", NoOp, NoPatch)
Leaves(x, e, d) ==
  /\ Aside(d)
  /\ x.state = "KMALEON_FILING" => d.to = "ESCALATED_HUMAN"
  /\ x.state = "ESCALATED_HUMAN" =>
       d = Hold(x) \/ (e.type = "OPERATOR_RESUME" /\ ~ResumeRefused(x, e) /\ d.to = e.says)
Classified(x, paper, e, d) ==
  \/ Leaves(x, e, d) \/ Stays(x, e, d) \/ Drafts(x, e, d) \/ Uploads(x, e, d)
  \/ Verified(x, e, d) \/ Notified(x, e, d) \/ Completes(x, paper, e, d)

(* In a stage of the filing, holding and answering stay; elsewhere an      *)
(* escalation leaves.                                                      *)
LEMMA StagePlain ==
  ASSUME NEW x, NEW e, x.state \in Stages, e.type # "CLIENT_PDF_RECEIVED",
         x.state = "KMALEON_FILING" => e.type # "KMALEON_UPLOAD_VERIFIED"
  PROVE  Stays(x, e, Hold(x)) /\ Stays(x, e, Send(x.state, "CONVERSATION_REPLY", NoPatch))
BY TableActs DEF Stays, Hold, Send, Decide, PlainWhats

LEMMA EscalationLeaves ==
  ASSUME NEW x, NEW e, NEW patch, PatchOK(patch), x.state # "ESCALATED_HUMAN"
  PROVE  Leaves(x, e, Escalate) /\ Leaves(x, e, EscalateTelling(patch))
BY AsideConstructors DEF Leaves, Escalate, EscalateWith, EscalateTelling, Decide

(* The handlers of the four stages of the filing.                          *)
LEMMA FilingClassified ==
  ASSUME NEW x, NEW paper, NEW e, EventOK(e), x.state = "KMALEON_FILING"
  PROVE  LET d == KmaleonFiling(x, e) IN
         \/ d = Unanswered /\ e.type \notin {"CLIENT_PDF_RECEIVED", "KMALEON_UPLOAD_VERIFIED"}
         \/ Classified(x, paper, e, d)
BY EscalationLeaves, SmallPatches, StagePlain DEF KmaleonFiling, Classified, Stages, Verified

LEMMA ProvisionalClassified ==
  ASSUME NEW x, NEW paper, NEW e, EventOK(e), x.state = "PROVISIONAL_VIABILIZED"
  PROVE  LET d == ProvisionalViabilized(x, paper, e) IN
         \/ d = Unanswered /\ e.type # "CLIENT_PDF_RECEIVED"
         \/ Classified(x, paper, e, d)
<1>1. /\ Aside(Escalate) /\ Aside(RevocationGuide(NoPatch))
      /\ Aside(Send("WAITING_REVOCATION_REISSUE", "STEP", NoPatch))
  BY AsideConstructors, AsideSteps, SmallPatches DEF States, Stages, PlainWhats
<1> QED BY <1>1, AsideSteps DEF ProvisionalViabilized, Classified, Leaves

LEMMA HandoffClassified ==
  ASSUME NEW x, NEW paper, NEW e, EventOK(e), x.state = "HANDOFF_DAYANA"
  PROVE  LET d == HandoffDayana(x, paper, e) IN
         \/ d = Unanswered /\ e.type # "CLIENT_PDF_RECEIVED"
         \/ Classified(x, paper, e, d)
BY EscalationLeaves, SmallPatches DEF HandoffDayana, Classified, Notified, Completes, NoticeMatches

LEMMA CompletedClassified ==
  ASSUME NEW x, NEW paper, NEW e, EventOK(e), x.state = "COMPLETED"
  PROVE  LET d == Completed(x, e) IN
         \/ d = Unanswered /\ e.type = "OPERATOR_ESCALATE"
         \/ Classified(x, paper, e, d)
BY EscalationLeaves, SmallPatches, StagePlain DEF Completed, Classified, Stages

(* A case that a person holds is only left by a resume that is not         *)
(* refused.                                                                *)
LEMMA EscalatedClassified ==
  ASSUME NEW x, NEW paper, NEW e, EventOK(e), x.state = "ESCALATED_HUMAN"
  PROVE  LET d == EscalatedHuman(x, e) IN d # Unanswered /\ Leaves(x, e, d)
<1>1. Aside(Hold(x)) /\ Hold(x).to # "NONE"
  BY AsideConstructors, SmallPatches DEF Hold, States, Stages, Decide
<1>2. ASSUME e.type = "OPERATOR_RESUME", ~ResumeRefused(x, e), NEW p, PatchOK(p)
      PROVE  Aside(Decide(e.says, NoOp, p)) /\ Decide(e.says, NoOp, p).to = e.says /\ e.says # "NONE"
  <2>1. e.says \in States \ Stages /\ e.says # "NONE"
    BY <1>2 DEF EventOK, ResumeRefused, ForbiddenResumeTargets, Stages, States
  <2> QED BY <2>1, <1>2, AsideConstructors DEF Decide
<1>3. PatchOK([approved |-> FALSE, reviewed |-> FALSE]) /\ PatchOK(NoPatch)
  BY SmallPatches, MarkPatches
<1>4. \A d : d.to # "NONE" => d # Unanswered
  BY DEF Unanswered, Decide
<1>5. CASE e.type # "OPERATOR_RESUME" \/ ResumeRefused(x, e)
  <2>1. EscalatedHuman(x, e) = Hold(x)
    BY <1>5 DEF EscalatedHuman
  <2> QED BY <1>1, <1>4, <2>1 DEF Leaves
<1>6. CASE e.type = "OPERATOR_RESUME" /\ ~ResumeRefused(x, e)
  <2>1. PICK p : PatchOK(p) /\ EscalatedHuman(x, e) = Decide(e.says, NoOp, p)
    BY <1>3, <1>6 DEF EscalatedHuman
  <2>2. Aside(Decide(e.says, NoOp, p)) /\ Decide(e.says, NoOp, p).to = e.says /\ e.says # "NONE"
    BY <1>2, <1>6, <2>1
  <2> QED BY <1>4, <1>6, <2>1, <2>2 DEF Leaves
<1> QED BY <1>5, <1>6

(* What no handler of the state answers.                                   *)
LEMMA GlobalClassified ==
  ASSUME NEW x, NEW paper, NEW e, EventOK(e), x.state \in States \ {"ESCALATED_HUMAN"},
         x.state = "KMALEON_FILING" => e.type \notin {"CLIENT_PDF_RECEIVED", "KMALEON_UPLOAD_VERIFIED"},
         x.state \in Stages => e.type # "CLIENT_PDF_RECEIVED"
  PROVE  Classified(x, paper, e, Global(x, e))
<1>1. Leaves(x, e, Escalate) /\ Leaves(x, e, EscalateTelling(NoPatch))
  BY EscalationLeaves, SmallPatches
<1>2. CASE x.state \in Stages
  <2>1. /\ Stays(x, e, Hold(x)) /\ Stays(x, e, Send(x.state, "CONVERSATION_REPLY", NoPatch))
    BY <1>2, StagePlain
  <2> QED BY <1>1, <1>2, <2>1 DEF Global, SmallTalk, Classified
<1>3. CASE x.state \notin Stages
  <2>1. Leaves(x, e, Hold(x)) /\ Leaves(x, e, Send(x.state, "CONVERSATION_REPLY", NoPatch))
    BY <1>3, AsideConstructors, SmallPatches DEF Hold, Leaves, PlainWhats, Stages
  <2>2. e.type = "CLIENT_PDF_RECEIVED" => Leaves(x, e, ToAudit(e))
    BY <1>3, AsideSteps DEF Leaves, Stages
  <2> QED BY <1>1, <1>3, <2>1, <2>2 DEF Global, SmallTalk, Classified
<1> QED BY <1>2, <1>3

(* What transition may decide, on any case, stored document and event: a   *)
(* filing is entered by the approval of the document the case points to,   *)
(* left forwards by its verified upload, completed by the delivered        *)
(* notice, and otherwise left for a state outside the filing, to a person  *)
(* (state-machine.ts).                                                     *)
THEOREM TableClassified ==
  ASSUME NEW x \in CaseSet, NEW paper, NEW e, EventOK(e)
  PROVE  Classified(x, paper, e, Transition(x, paper, e))
<1> DEFINE h == Handler(x, paper, e)
           g == Global(x, e)
<1>0. x.state \in States
  BY DEF CaseSet
<1>1. CASE e.type \in HelpEvents /\ x.state \in GuidedStates
  <2>1. Aside(GuidedHelp(x, e)) /\ x.state # "KMALEON_FILING" /\ x.state # "ESCALATED_HUMAN"
    BY <1>1, AsideHelp DEF GuidedStates
  <2> QED BY <1>1, <2>1 DEF Transition, Classified, Leaves
<1>2. CASE x.state = "ESCALATED_HUMAN"
  <2>1. h = EscalatedHuman(x, e)
    BY <1>2 DEF Handler
  <2>2. h.to # Unanswered.to /\ Leaves(x, e, h)
    BY <1>2, <2>1, EscalatedClassified DEF Leaves, Aside, Typed, States, Unanswered, Decide
  <2>3. x.state \notin GuidedStates
    BY <1>2 DEF GuidedStates
  <2> QED BY <2>2, <2>3 DEF Transition, OrElse, Classified
<1>3. CASE x.state # "ESCALATED_HUMAN" /\ ~(e.type \in HelpEvents /\ x.state \in GuidedStates)
  <2>1. \/ /\ h = Unanswered
           /\ x.state = "KMALEON_FILING" => e.type \notin {"CLIENT_PDF_RECEIVED", "KMALEON_UPLOAD_VERIFIED"}
           /\ x.state \in Stages => e.type # "CLIENT_PDF_RECEIVED"
        \/ Classified(x, paper, e, h)
    <3>1. CASE x.state \in {"INITIAL_TRIAGE", "WAITING_CERT_RESPONSE", "MOBILE_TRIAGE_PC_CHECK",
                            "MOBILE_EXPORT_GUIDE_SENT", "MOBILE_ASSIST_CONSENT_REQUESTED",
                            "PC_TUTORIAL_SENT", "WAITING_PDF_SUBMISSION",
                            "CERT_ACQUISITION_LINKS_SENT", "FALLBACK_OPTIONS",
                            "COURT_FALLBACK_GUIDE_SENT", "APUDATA_VIDEO_IN_PROGRESS",
                            "REVOCATION_GUIDE_SENT", "WAITING_REVOCATION_REISSUE",
                            "APUDATA_PENDING_PREAPPROVAL", "APUDATA_WAITING_PAYMENT"}
      <4>1. x.state \in States \ Stages /\ x.state # "KMALEON_FILING"
        BY <3>1 DEF States, Stages
      <4>2. AsideOrNone(h)
        BY <3>1, <4>1, AsideTriage, AsideConsent, AsideDocument, AsideRevocation, AsidePartner DEF Handler
      <4> QED BY <1>3, <4>1, <4>2 DEF AsideOrNone, Classified, Leaves
    <3>2. CASE x.state \in {"MOBILE_ASSIST_PROCESSING", "AUDITING_DOCUMENT"}
      <4>1. AsideOrNone(h) \/ Drafts(x, e, h) \/ Uploads(x, e, h)
        BY <3>2, AsideAssist, AsideAudit DEF Handler
      <4> QED BY <3>2, <4>1 DEF AsideOrNone, Classified, Leaves, Stages
    <3>3. CASE x.state = "KMALEON_FILING"
      <4>1. h = KmaleonFiling(x, e)
        BY <3>3 DEF Handler
      <4> QED BY <3>3, <4>1, FilingClassified
    <3>4. CASE x.state = "PROVISIONAL_VIABILIZED"
      <4>1. h = ProvisionalViabilized(x, paper, e)
        BY <3>4 DEF Handler
      <4> QED BY <3>4, <4>1, ProvisionalClassified
    <3>5. CASE x.state = "HANDOFF_DAYANA"
      <4>1. h = HandoffDayana(x, paper, e)
        BY <3>5 DEF Handler
      <4> QED BY <3>5, <4>1, HandoffClassified
    <3>6. CASE x.state = "COMPLETED"
      <4>1. h = Completed(x, e)
        BY <3>6 DEF Handler
      <4> QED BY <3>6, <4>1, CompletedClassified
    <3> QED BY <1>0, <1>3, <3>1, <3>2, <3>3, <3>4, <3>5, <3>6 DEF States
  <2>2. CASE h = Unanswered
    <3>1. \/ Classified(x, paper, e, h)
          \/ Classified(x, paper, e, g)
      BY <1>0, <1>3, <2>1, GlobalClassified
    <3>2. ~Classified(x, paper, e, h)
      BY <2>2 DEF Classified, Leaves, Aside, Typed, Stays, Drafts, Uploads, Verified, Notified,
                  Completes, Unanswered, Send, Decide, States, Stages
    <3> QED BY <1>3, <2>2, <3>1, <3>2 DEF Transition, OrElse
  <2>3. CASE Classified(x, paper, e, h)
    <3>1. h.to # Unanswered.to
      BY <2>3 DEF Classified, Leaves, Aside, Typed, Stays, Drafts, Uploads, Verified, Notified,
                  Completes, Unanswered, Send, Decide, States, Stages
    <3> QED BY <1>3, <2>3, <3>1 DEF Transition, OrElse
  <2> QED BY <2>1, <2>2, <2>3
<1> QED BY <1>1, <1>2, <1>3

(* Whatever is decided can be carried out, and an action about a document  *)
(* finds the case pointing to one.                                         *)
LEMMA NamedDecision ==
  ASSUME NEW x \in CaseSet, NEW paper, NEW e, EventOK(e), NEW d, Classified(x, paper, e, d)
  PROVE  /\ Typed(d)
         /\ NamesDocument(d.act) => Patched(x, d.patch).doc \in Docs
<1>1. CASE Leaves(x, e, d)
  BY <1>1 DEF Leaves, Aside
<1>2. CASE Stays(x, e, d)
  BY <1>2, SmallPatches DEF Stays, Typed, CaseSet
<1>3. CASE Drafts(x, e, d)
  <2>1. e.doc \in Docs
    BY <1>3 DEF Drafts, EventOK
  <2>2. d.patch = [doc |-> e.doc, approved |-> FALSE, reviewed |-> FALSE, audit |-> "none"]
    BY <1>3 DEF Drafts, Send, Decide, DraftStored
  <2>3. Patched(x, d.patch).doc = e.doc
    BY <2>2 DEF Patched, CaseSet
  <2>4. d.to \in States /\ d.act \in ActSet
    BY <1>3 DEF Drafts, Send, Decide, Act, ActSet, Effects, DocumentWhats, CaseSet
  <2> QED BY <2>1, <2>2, <2>3, <2>4, DocumentPatches DEF Typed
<1>4. CASE Uploads(x, e, d)
  <2>1. e.doc \in Docs /\ x.doc = e.doc
    BY <1>4 DEF Uploads, EventOK
  <2>2. d.patch = [approved |-> TRUE, reviewed |-> TRUE]
    BY <1>4 DEF Uploads, Decide
  <2>3. Patched(x, d.patch).doc = e.doc
    BY <2>1, <2>2 DEF Patched, CaseSet
  <2>4. d.to \in States /\ d.act \in ActSet
    BY <1>4 DEF Uploads, Decide, Act, ActSet, Effects, PlainWhats, States
  <2> QED BY <2>1, <2>2, <2>3, <2>4, MarkPatches DEF Typed
<1>5. CASE Verified(x, e, d)
  <2>1. e.doc \in Docs /\ x.doc = e.doc
    BY <1>5 DEF Verified, EventOK
  <2>2. d.patch = [provisional |-> e.says = "provisional"]
    BY <1>5 DEF Verified, Decide
  <2>3. Patched(x, d.patch).doc = e.doc
    BY <2>1, <2>2 DEF Patched, CaseSet
  <2>4. d.to \in States /\ d.act \in ActSet
    BY <1>5 DEF Verified, Decide, Act, ActSet, Effects, PlainWhats, States
  <2> QED BY <2>1, <2>2, <2>3, <2>4, MarkPatches DEF Typed
<1>6. CASE Notified(x, e, d)
  <2>1. e.doc \in Docs /\ x.doc = e.doc
    BY <1>6 DEF Notified, EventOK
  <2>2. d.patch = NoPatch
    BY <1>6 DEF Notified, Send, Decide
  <2>3. Patched(x, d.patch).doc = e.doc
    BY <2>1, <2>2 DEF Patched, CaseSet, NoPatch
  <2>4. d.to \in States /\ d.act \in ActSet
    BY <1>6 DEF Notified, Send, Decide, Act, ActSet, Effects, DocumentWhats, States
  <2> QED BY <2>1, <2>2, <2>3, <2>4, SmallPatches DEF Typed
<1>7. CASE Completes(x, paper, e, d)
  BY <1>7, SmallPatches, TableActs DEF Completes, Decide, Typed, States
<1> QED BY <1>1, <1>2, <1>3, <1>4, <1>5, <1>6, <1>7 DEF Classified
-----------------------------------------------------------------------------

(* -------------------------------- rows --------------------------------- *)
(* Rows of the outbox, those about a document naming one.                  *)
RowsOK(R) == R \subseteq RowSet /\ \A r \in R : NamesDocument(r) => r.doc \in Docs

LEMMA RowsKept ==
  /\ \A R : RowsOK(R) => RowsOK(Outdated(R))
  /\ \A R, S : RowsOK(R) /\ RowsOK(S) => RowsOK(R \cup S)
  /\ \A R, S : RowsOK(R) /\ S \subseteq R => RowsOK(S)
  /\ RowsOK({})
<1>1. ASSUME NEW R, RowsOK(R)
      PROVE  RowsOK(Outdated(R))
  BY <1>1 DEF RowsOK, Outdated, RowSet, NamesDocument
<1> QED BY <1>1 DEF RowsOK

(* The rows a transaction queues.                                          *)
LEMMA NewRows ==
  /\ \A w \in PlainWhats, b \in BOOLEAN : RowsOK({Row("SEND", w, NoDoc, b)})
  /\ \A act \in ActSet, doc \in Docs \cup {NoDoc} :
       act.kind \in Effects /\ (NamesDocument(act) => doc \in Docs) => RowsOK({DecidedRow(act, doc)})
<1>1. ASSUME NEW w \in PlainWhats, NEW b \in BOOLEAN
      PROVE  RowsOK({Row("SEND", w, NoDoc, b)})
  BY DEF Row, RowsOK, RowSet, NamesDocument, PlainWhats, Effects
<1>2. ASSUME NEW act \in ActSet, NEW doc \in Docs \cup {NoDoc}, act.kind \in Effects,
             NamesDocument(act) => doc \in Docs
      PROVE  RowsOK({DecidedRow(act, doc)})
  BY <1>2 DEF DecidedRow, ActSet, Row, RowsOK, RowSet, NamesDocument
<1> QED BY <1>1, <1>2

(* The row of the case a decision writes, column by column.                *)
LEMMA CombinedFields ==
  ASSUME NEW x \in CaseSet, NEW e, NEW given, PatchOK(given), NEW d, Typed(d)
  PROVE  LET y == Patched(Patched(x, given), d.patch)
             k == Combined(x, e, given, d)
         IN  /\ y \in CaseSet /\ k \in CaseSet
             /\ k.state = d.to /\ k.closed = x.closed
             /\ k.doc = y.doc /\ k.approved = y.approved /\ k.reviewed = y.reviewed
             /\ k.provisional = y.provisional /\ k.consent = y.consent
             /\ k.prev = IF d.to # "ESCALATED_HUMAN" THEN "NONE"
                         ELSE IF x.state # "ESCALATED_HUMAN" THEN x.state ELSE x.prev
<1> DEFINE y == Patched(Patched(x, given), d.patch)
           held == d.to = "ESCALATED_HUMAN" /\ x.state # d.to
           a == e.type = "CLIENT_OPT_OUT"
           b == e.type = "CLIENT_CERT_FILE_RECEIVED"
<1>1. y \in CaseSet
  BY PatchKeepsCase DEF Typed
<1>2. y.closed = x.closed /\ y.prev = x.prev
  BY DEF Patched, CaseSet, PatchOK, Typed
<1>3. held \in BOOLEAN /\ a \in BOOLEAN /\ b \in BOOLEAN /\ d.to \in States /\ x.state \in States
  BY DEF CaseSet, Typed
<1>4. Combined(x, e, given, d) =
        [y EXCEPT !.state = d.to,
                  !.prev = IF d.to # "ESCALATED_HUMAN" THEN "NONE" ELSE IF held THEN x.state ELSE @,
                  !.optOut = @ \/ a, !.paused = \/ @ \/ held \/ a \/ b]
  BY DEF Combined
<1> HIDE DEF y, held, a, b
<1>5. /\ Combined(x, e, given, d) \in CaseSet
  BY <1>1, <1>3, <1>4, ZenonT(60) DEF CaseSet
<1>6. LET k == Combined(x, e, given, d) IN
             /\ k.state = d.to /\ k.closed = y.closed
             /\ k.doc = y.doc /\ k.approved = y.approved /\ k.reviewed = y.reviewed
             /\ k.provisional = y.provisional /\ k.consent = y.consent
             /\ k.prev = IF d.to # "ESCALATED_HUMAN" THEN "NONE" ELSE IF held THEN x.state ELSE y.prev
  BY <1>1, <1>4 DEF CaseSet
<1> QED BY <1>1, <1>2, <1>5, <1>6 DEF y, held

(* How uploads may change in a step that neither decides, attempts nor     *)
(* settles one: none appears, none in doubt is lost, and one that waits    *)
(* may fail or be retried.                                                 *)
Becomes(q, r) ==
  q.doc = r.doc /\ (q.status = r.status \/ {q.status, r.status} \subseteq {"PENDING", "FAILED"})
UploadsFollow(R, S) ==
  /\ \A r \in S : IsUpload(r) => \E q \in R : IsUpload(q) /\ Becomes(q, r)
  /\ \A q \in R : IsUpload(q) /\ q.status = "UNCERTAIN" =>
       \E r \in S : IsUpload(r) /\ r.doc = q.doc /\ r.status = "UNCERTAIN"
  /\ (\A q, r \in R : IsUpload(q) /\ IsUpload(r) => q = r)
       => \A q, r \in S : IsUpload(q) /\ IsUpload(r) => q = r
NoUpload(S) == \A r \in S : ~IsUpload(r)

LEMMA FollowRefl == \A R : UploadsFollow(R, R)
BY DEF UploadsFollow, Becomes
LEMMA FollowTrans ==
  ASSUME NEW R, NEW S, NEW T, UploadsFollow(R, S), UploadsFollow(S, T)
  PROVE  UploadsFollow(R, T)
<1>1. ASSUME NEW r \in T, IsUpload(r)
      PROVE  \E q \in R : IsUpload(q) /\ Becomes(q, r)
  <2>1. PICK s \in S : IsUpload(s) /\ Becomes(s, r)
    BY <1>1 DEF UploadsFollow
  <2>2. PICK q \in R : IsUpload(q) /\ Becomes(q, s)
    BY <2>1 DEF UploadsFollow
  <2>3. Becomes(q, r)
    BY <2>1, <2>2 DEF Becomes
  <2> QED BY <2>2, <2>3
<1>2. \A q \in R : IsUpload(q) /\ q.status = "UNCERTAIN" =>
       \E r \in T : IsUpload(r) /\ r.doc = q.doc /\ r.status = "UNCERTAIN"
  BY DEF UploadsFollow
<1> QED BY <1>1, <1>2 DEF UploadsFollow

(* The version moving on keeps an upload that waits or is in doubt.        *)
LEMMA FollowOutdated ==
  ASSUME NEW R, R \subseteq RowSet,
         \A r \in R : IsUpload(r) => r.status \in {"PENDING", "FAILED", "UNCERTAIN"}
  PROVE  UploadsFollow(R, Outdated(R))
<1> DEFINE Stale(q) == [q EXCEPT !.fresh = FALSE]
<1>1. \A r \in Outdated(R) : \E q \in R : r = Stale(q)
  BY DEF Outdated
<1>2. \A q \in R : q.status \in {"PENDING", "UNCERTAIN"} => Stale(q) \in Outdated(R)
  BY DEF Outdated
<1>3. \A q \in R : /\ Stale(q).kind = q.kind /\ Stale(q).doc = q.doc
                   /\ Stale(q).status = q.status
  BY DEF RowSet
<1> HIDE DEF Stale
<1>4. \A r \in Outdated(R) : IsUpload(r) => \E q \in R : IsUpload(q) /\ Becomes(q, r)
  BY <1>1, <1>3 DEF IsUpload, Becomes
<1>5. \A q \in R : IsUpload(q) /\ q.status = "UNCERTAIN" =>
       \E r \in Outdated(R) : IsUpload(r) /\ r.doc = q.doc /\ r.status = "UNCERTAIN"
  BY <1>2, <1>3 DEF IsUpload
<1>6. ASSUME \A q, r \in R : IsUpload(q) /\ IsUpload(r) => q = r,
             NEW u \in Outdated(R), NEW v \in Outdated(R), IsUpload(u), IsUpload(v)
      PROVE  u = v
  <2>1. PICK p \in R : u = Stale(p)
    BY <1>1
  <2>2. PICK q \in R : v = Stale(q)
    BY <1>1
  <2>3. IsUpload(p) /\ IsUpload(q)
    BY <1>3, <1>6, <2>1, <2>2 DEF IsUpload
  <2> QED BY <1>6, <2>1, <2>2, <2>3
<1> QED BY <1>4, <1>5, <1>6 DEF UploadsFollow

(* Rows that are no uploads come and go.                                   *)
LEMMA FollowUnion ==
  ASSUME NEW R, NEW S, NEW T, UploadsFollow(R, S), NoUpload(T)
  PROVE  UploadsFollow(R, S \cup T)
BY DEF UploadsFollow, NoUpload
LEMMA FollowSwap ==
  ASSUME NEW R, NEW S, NEW T, S \subseteq R, NoUpload(R \ S), NoUpload(T)
  PROVE  UploadsFollow(R, S \cup T)
BY DEF UploadsFollow, NoUpload, Becomes

(* What one decided event writes (transition of workflow-service.ts): the  *)
(* case, the rows and whether the version moved.                           *)
LEMMA MovedFacts ==
  ASSUME NEW x \in CaseSet, NEW R, RowsOK(R), NEW D, NEW e, EventOK(e), NEW given, PatchOK(given),
         NEW d \in Decisions(x, D, e, given)
  PROVE  LET z == Patched(x, given)
             y == Patched(z, d.patch)
             m == Moved(x, R, e, given, d)
         IN  /\ z \in CaseSet /\ z.state = x.state /\ ~x.closed
             /\ Classified(z, Paper(x, D), e, d) /\ RespectsGates(z, Paper(x, D), e, d)
             /\ e.type = "CLIENT_NOTIFICATION_DELIVERED" => DeliveryBacked(x, D)
             /\ Typed(d) /\ y \in CaseSet
             /\ m.c = Combined(x, e, given, d) /\ m.bumped \in BOOLEAN
             /\ ~m.bumped => m.c = x /\ d.act = NoOp
             /\ RowsOK(m.rows)
             /\ m.rows = (IF m.bumped THEN Outdated(R) ELSE R) \cup Queued(d, m.c, x, e)
<1> DEFINE z == Patched(x, given)
           y == Patched(z, d.patch)
           k == Combined(x, e, given, d)
           m == Moved(x, R, e, given, d)
<1>1. z \in CaseSet /\ z.state = x.state
  <2>1. z \in CaseSet
    BY PatchKeepsCase
  <2>2. z.state = x.state
    BY DEF Patched, CaseSet, PatchOK
  <2> QED BY <2>1, <2>2
<1>2. d = Transition(z, Paper(x, D), e) /\ Accepts(x, D, e, given, d)
  BY DEF Decisions, Verdict
<1>3. Classified(z, Paper(x, D), e, d)
  BY <1>1, <1>2, TableClassified
<1>4. Typed(d) /\ (NamesDocument(d.act) => y.doc \in Docs)
  BY <1>1, <1>3, NamedDecision
<1>5. y \in CaseSet /\ k \in CaseSet /\ k.doc = y.doc
  BY <1>4, CombinedFields
<1>6. m = [c |-> k, bumped |-> (k # x \/ d.act # NoOp),
           rows |-> (IF k # x \/ d.act # NoOp THEN Outdated(R) ELSE R) \cup Queued(d, k, x, e)]
  BY DEF Moved, MovedTo, Written
<1>7. RowsOK(Queued(d, k, x, e))
  <2>1. d.act.kind \in Effects => RowsOK({DecidedRow(d.act, k.doc)})
    BY <1>4, <1>5, NewRows DEF Typed, CaseSet
  <2>2. RowsOK({HandoffRow(e)})
    BY NewRows DEF HandoffRow, PlainWhats
  <2> QED BY <2>1, <2>2, RowsKept DEF Queued
<1>8. RowsOK(m.rows)
  BY <1>6, <1>7, RowsKept
<1> HIDE DEF k, m
<1>9. /\ m.c = k /\ m.bumped \in BOOLEAN /\ (m.bumped <=> k # x \/ d.act # NoOp)
  <2> DEFINE b == k # x \/ d.act # NoOp
  <2>1. b \in BOOLEAN /\ (b <=> k # x \/ d.act # NoOp)
    OBVIOUS
  <2>2. m.c = k /\ m.bumped = b
    BY <1>6
  <2> HIDE DEF b
  <2> QED BY <2>1, <2>2
<1>10. m.rows = (IF m.bumped THEN Outdated(R) ELSE R) \cup Queued(d, m.c, x, e)
  BY <1>6, <1>9
<1> QED BY <1>1, <1>2, <1>3, <1>4, <1>5, <1>8, <1>9, <1>10 DEF Accepts, k, m

(* A decision that is no upload queues none.                               *)
LEMMA MovedUploads ==
  ASSUME NEW x, NEW R, NEW e, NEW given, NEW d, R \subseteq RowSet,
         \A r \in R : IsUpload(r) => r.status \in {"PENDING", "FAILED", "UNCERTAIN"},
         d.act.kind # "UPLOAD"
  PROVE  UploadsFollow(R, Moved(x, R, e, given, d).rows)
<1> DEFINE k == Combined(x, e, given, d)
<1>1. NoUpload(Queued(d, k, x, e))
  BY DEF NoUpload, IsUpload, Queued, DecidedRow, HandoffRow, Row
<1>2. UploadsFollow(R, IF k # x \/ d.act # NoOp THEN Outdated(R) ELSE R)
  BY FollowRefl, FollowOutdated
<1>3. Moved(x, R, e, given, d).rows =
        (IF k # x \/ d.act # NoOp THEN Outdated(R) ELSE R) \cup Queued(d, k, x, e)
  BY DEF Moved, MovedTo, Written
<1> HIDE DEF k
<1> QED BY <1>1, <1>2, <1>3, FollowUnion

(* ----------------------- the invariant of a step ----------------------- *)
(* The invariant with its types in one place.                              *)
TapEntries == [event : TapEvents, fresh : BOOLEAN]
QueueOK(q) == q \in Seq(TapEntries) /\ Len(q) <= MaxInbox
TallySet == [uploads : [Docs -> 0..2], told : BOOLEAN]
TypeInv ==
  /\ c \in CaseSet /\ docs \in [Docs -> DocumentSet] /\ RowsOK(rows)
  /\ QueueOK(inbox) /\ session \in BOOLEAN /\ tally \in TallySet

LEMMA TypeInvIs == TypeInv <=> TypeOK /\ Shapes
<1>1. \A r : NamesDocument([kind |-> r.kind, what |-> r.what]) <=> NamesDocument(r)
  BY DEF NamesDocument
<1>2. ASSUME TypeInv
      PROVE  TypeOK /\ Shapes
  <2>1. TypeOK
    BY <1>1, <1>2 DEF TypeInv, TypeOK, RowsOK, RowSet, QueueOK, TallySet
  <2>2. Shapes
    BY <1>2 DEF TypeInv, RowsOK, Shapes, QueueOK, TapEntries
  <2> QED BY <2>1, <2>2
<1>3. ASSUME TypeOK, Shapes
      PROVE  TypeInv
  BY <1>1, <1>3 DEF TypeInv, TypeOK, Shapes, RowsOK, QueueOK, TapEntries, TallySet
<1> QED BY <1>2, <1>3

CoreInv ==
  /\ TypeInv /\ ApprovalsStand /\ UploadsAreFilings /\ UploadsAccounted
  /\ StagesNameDocument /\ StageIsBacked
  /\ SessionIsConsented /\ ClosedIsQuiet
LEMMA CoreIs == CoreInv <=> CaseInv
BY TypeInvIs DEF CoreInv, CaseInv

(* What every step keeps: the invariant, the order of the stages and the   *)
(* silence of a closed case.                                               *)
StageStep ==
  c'.state # c.state =>
       /\ c'.state = "KMALEON_FILING" => c.state = "AUDITING_DOCUMENT"
       /\ c'.state \in {"PROVISIONAL_VIABILIZED", "HANDOFF_DAYANA"} => c.state = "KMALEON_FILING"
       /\ c'.state = "COMPLETED" => c.state = "HANDOFF_DAYANA"
ClosedStep == c.closed => c'.state = c.state /\ \A r \in rows' : r.status = "UNCERTAIN"
Keeps == CoreInv' /\ StageStep /\ ClosedStep

(* A move of the version and a tap taken off leave a queue.                *)
LEMMA QueueAged ==
  ASSUME NEW q, QueueOK(q)
  PROVE  QueueOK(Aged(q)) /\ (q # <<>> => QueueOK(Tail(q)))
<1>1. QueueOK(Aged(q))
  <2>1. Len(q) \in Nat /\ DOMAIN q = 1..Len(q) /\ \A i \in 1..Len(q) : q[i] \in TapEntries
    BY DEF QueueOK
  <2>2. \A i \in 1..Len(q) : [q[i] EXCEPT !.fresh = @ /\ ~AnswersRequest(q[i].event)] \in TapEntries
    BY <2>1 DEF TapEntries
  <2>3. Aged(q) \in [1..Len(q) -> TapEntries]
    BY <2>1, <2>2 DEF Aged
  <2>4. Aged(q) \in Seq(TapEntries) /\ Len(Aged(q)) = Len(q)
    BY <2>1, <2>3
  <2> QED BY <2>4 DEF QueueOK
<1>2. ASSUME q # <<>>
      PROVE  QueueOK(Tail(q))
  BY <1>2, CaseAssumption DEF QueueOK
<1> QED BY <1>1, <1>2

(* A step is calm for the documents when it takes back no approval and no  *)
(* filing, and files none that waits to be filed; the filing goes on when  *)
(* the case stays in it or a person takes it over from there.              *)
DocsCalm ==
  /\ docs' \in [Docs -> DocumentSet] /\ ApprovalsStand'
  /\ \A d \in Docs : docs[d].filed => docs'[d].filed
  /\ \A r \in rows : IsUpload(r) => docs'[r.doc].approved /\ ~docs'[r.doc].filed
  /\ c.state \in Stages =>
       /\ docs'[c.doc].approved = docs[c.doc].approved
       /\ docs'[c.doc].type = docs[c.doc].type
       /\ docs[c.doc].filed => docs'[c.doc].filed
       /\ docs[c.doc].noticed => docs'[c.doc].noticed
FilingGoesOn ==
  /\ c.state = "KMALEON_FILING" => (c'.state = "KMALEON_FILING" /\ c'.doc = c.doc) \/ Held'
  /\ Held => Held'

LEMMA CalmUnchanged ==
  ASSUME CoreInv, docs' = docs
  PROVE  DocsCalm
BY DEF CoreInv, TypeInv, DocsCalm, ApprovalsStand, Audited, UploadsAreFilings

(* Under both, the uploads stay what the invariant says of them.           *)
LEMMA UploadsKept ==
  ASSUME CoreInv, UploadsFollow(rows, rows'), RowsOK(rows'), tally'.uploads = tally.uploads, DocsCalm,
         (\E r \in rows : IsUpload(r)) => FilingGoesOn
  PROVE  UploadsAreFilings' /\ UploadsAccounted'
<1>1. UploadsAreFilings'
  <2>1. \A q, r \in rows' : IsUpload(q) /\ IsUpload(r) => q = r
    BY DEF CoreInv, UploadsAreFilings, UploadsFollow
  <2>2. ASSUME NEW r \in rows', IsUpload(r)
        PROVE  /\ (c'.state = "KMALEON_FILING" /\ r.doc = c'.doc) \/ Held'
               /\ r.status \in {"PENDING", "FAILED", "UNCERTAIN"}
               /\ tally'.uploads[r.doc] = IF r.status = "UNCERTAIN" THEN 1 ELSE 0
               /\ docs'[r.doc].approved /\ ~docs'[r.doc].filed
    <3>1. PICK q \in rows : IsUpload(q) /\ Becomes(q, r)
      BY <2>2 DEF UploadsFollow
    <3> QED BY <3>1 DEF CoreInv, UploadsAreFilings, DocsCalm, FilingGoesOn, Becomes
  <2> QED BY <2>1, <2>2 DEF UploadsAreFilings, IsUpload
<1>2. UploadsAccounted'
  <2> SUFFICES ASSUME NEW d \in Docs
               PROVE  \/ tally'.uploads[d] = 0
                      \/ tally'.uploads[d] = 1 /\ docs'[d].filed
                      \/ \E r \in rows' : IsUpload(r) /\ r.doc = d /\ r.status = "UNCERTAIN"
    BY DEF UploadsAccounted, IsUpload
  <2> QED BY DEF CoreInv, UploadsAccounted, UploadsFollow, DocsCalm
<1> QED BY <1>1, <1>2

(* Under the first, a stage that stays keeps its evidence.                 *)
LEMMA StageKept ==
  ASSUME CoreInv, DocsCalm, tally.told => tally'.told,
         c'.state = c.state /\ c.state \in Stages =>
           /\ c'.doc = c.doc /\ c'.approved = c.approved /\ c'.reviewed = c.reviewed
           /\ c'.provisional = c.provisional,
         c'.state \in Stages => c'.state = c.state
  PROVE  StagesNameDocument' /\ StageIsBacked'
<1>1. CASE c'.state \notin Stages
  BY <1>1 DEF StagesNameDocument, StageIsBacked, Stages
<1>2. CASE c'.state \in Stages
  <2>1. StagesNameDocument'
    BY <1>2 DEF CoreInv, StagesNameDocument
  <2>2. StageIsBacked'
    BY <1>2 DEF CoreInv, StageIsBacked, Selected, DocsCalm
  <2> QED BY <2>1, <2>2
<1> QED BY <1>1, <1>2

(* -------------------------- one decided event -------------------------- *)
(* What a caller of transition may give it: no mark of the filing while    *)
(* the case is in a stage of it.                                           *)
Careful(e, given) ==
  /\ EventOK(e) /\ PatchOK(given)
  /\ e.type = "OPERATOR_RESUME" => e.says = c.prev
  /\ \/ DOMAIN given \cap {"doc", "approved", "reviewed", "provisional"} = {}
     \/ c.state \notin Stages \/ e.type = "CLIENT_PDF_RECEIVED"

(* Nothing is decided of a case that a person holds, except by a resume,   *)
(* and none resumes into the filing.                                       *)
LEMMA PersonHolds ==
  ASSUME NEW x \in CaseSet, NEW D, NEW e, EventOK(e), NEW given, PatchOK(given),
         x.state = "ESCALATED_HUMAN", e.type = "OPERATOR_RESUME" => e.says = "KMALEON_FILING"
  PROVE  Decisions(x, D, e, given) = {}
<1> SUFFICES ASSUME NEW d \in Decisions(x, D, e, given)
             PROVE  FALSE
  OBVIOUS
<1> DEFINE z == Patched(x, given)
<1>1. RowsOK({})
  BY RowsKept
<1>2. z.state = "ESCALATED_HUMAN" /\ Classified(z, Paper(x, D), e, d) /\ RespectsGates(z, Paper(x, D), e, d)
  BY <1>1, MovedFacts
<1> HIDE DEF z
<1>3. Leaves(z, e, d)
  BY <1>2 DEF Classified, Stays, Drafts, Uploads, Verified, Notified, Completes, Stages
<1>4. CASE d = Hold(z)
  BY <1>2, <1>4 DEF Hold, Decide, NoOp, Act, RespectsGates, StateGate
<1>5. CASE e.type = "OPERATOR_RESUME" /\ ~ResumeRefused(z, e)
  BY <1>5 DEF ResumeRefused, ForbiddenResumeTargets
<1> QED BY <1>2, <1>3, <1>4, <1>5 DEF Leaves

(* What a decision that is no upload and no notice does to the case.       *)
LEMMA DecisionMoves ==
  ASSUME CoreInv, NEW e, NEW given, Careful(e, given), NEW D, NEW R, RowsOK(R),
         NEW d \in Decisions(c, D, e, given), c' = Combined(c, e, given, d),
         d.act.kind \notin {"UPLOAD", "NOTIFY"},
         e.type = "CLIENT_NOTIFICATION_DELIVERED" => D = docs /\ docs' = docs /\ tally'.told,
         DocsCalm, tally.told => tally'.told
  PROVE  /\ c' \in CaseSet /\ ~c.closed /\ ~c'.closed
         /\ FilingGoesOn /\ StagesNameDocument' /\ StageIsBacked' /\ StageStep
<1> DEFINE z == Patched(c, given)
           y == Patched(z, d.patch)
           paper == Paper(c, D)
<1>0. c \in CaseSet /\ EventOK(e) /\ PatchOK(given)
  BY DEF CoreInv, TypeInv, Careful
<1>1. /\ z \in CaseSet /\ z.state = c.state /\ ~c.closed
      /\ Classified(z, paper, e, d) /\ RespectsGates(z, paper, e, d)
      /\ e.type = "CLIENT_NOTIFICATION_DELIVERED" => DeliveryBacked(c, D)
      /\ Typed(d) /\ y \in CaseSet
  BY <1>0, MovedFacts
<1>2. /\ c' \in CaseSet /\ c'.state = d.to /\ c'.closed = c.closed
      /\ c'.doc = y.doc /\ c'.approved = y.approved /\ c'.reviewed = y.reviewed
      /\ c'.provisional = y.provisional
      /\ c'.prev = IF d.to # "ESCALATED_HUMAN" THEN "NONE"
                   ELSE IF c.state # "ESCALATED_HUMAN" THEN c.state ELSE c.prev
  BY <1>0, <1>1, CombinedFields
<1>3. y = Patched(z, d.patch) /\ z = Patched(c, given)
  OBVIOUS
<1> HIDE DEF z, y, paper
<1>4. CASE Leaves(z, e, d)
  <2>1. d.to \notin Stages /\ d.act.kind # "UPLOAD" /\ d.to \in States
    BY <1>4 DEF Leaves, Aside, Typed, NamesDocument
  <2>2. c.state = "KMALEON_FILING" => Held'
    BY <1>1, <1>2, <1>4 DEF Leaves, Held
  <2>3. ~Held
    BY <1>0, PersonHolds DEF Held, Careful
  <2>4. FilingGoesOn
    BY <2>2, <2>3 DEF FilingGoesOn
  <2>5. StagesNameDocument' /\ StageIsBacked' /\ StageStep
    BY <1>2, <2>1 DEF StagesNameDocument, StageIsBacked, StageStep, Stages
  <2> QED BY <1>1, <1>2, <2>1, <2>4, <2>5
<1>5. CASE Stays(z, e, d)
  <2>1. DOMAIN given \cap {"doc", "approved", "reviewed", "provisional"} = {}
    BY <1>1, <1>5 DEF Stays, Careful
  <2>2. y = z
    BY <1>1, <1>3, <1>5, ZenonT(60) DEF Stays, Patched, NoPatch, CaseSet
  <2>3. z.doc = c.doc /\ z.approved = c.approved /\ z.reviewed = c.reviewed /\ z.provisional = c.provisional
    BY <1>0, <1>3, <2>1 DEF Patched, CaseSet
  <2>4. /\ c'.state = c.state /\ c.state \in Stages
        /\ c'.doc = c.doc /\ c'.approved = c.approved /\ c'.reviewed = c.reviewed
        /\ c'.provisional = c.provisional
    BY <1>1, <1>2, <1>5, <2>2, <2>3 DEF Stays
  <2>5. StagesNameDocument' /\ StageIsBacked'
    BY <2>4, StageKept
  <2>6. FilingGoesOn /\ StageStep
    BY <2>4 DEF FilingGoesOn, StageStep, Held, Stages
  <2>7. d.act.kind # "UPLOAD"
    BY <1>5 DEF Stays, NamesDocument
  <2> QED BY <1>1, <1>2, <2>5, <2>6, <2>7
<1>6. CASE Drafts(z, e, d)
  <2>1. c.state = "MOBILE_ASSIST_PROCESSING" /\ c'.state = c.state /\ d.act.kind = "SEND"
    BY <1>1, <1>2, <1>6 DEF Drafts, Send, Decide, Act
  <2> QED BY <1>1, <1>2, <2>1 DEF FilingGoesOn, Held, StagesNameDocument, StageIsBacked, StageStep, Stages
<1>7. ~Uploads(z, e, d) /\ ~Verified(z, e, d)
  BY DEF Uploads, Verified, Decide, Act
<1>8. CASE Notified(z, e, d)
  <2>1. DOMAIN given \cap {"doc", "approved", "reviewed", "provisional"} = {}
    BY <1>1, <1>8 DEF Notified, Careful, Stages
  <2>2. d.patch = NoPatch /\ d.to = z.state /\ d.act.kind = "SEND" /\ c.state = "HANDOFF_DAYANA"
    BY <1>1, <1>8 DEF Notified, Send, Decide, Act
  <2>3. y = z
    BY <1>1, <1>3, <2>2, ZenonT(60) DEF Patched, NoPatch, CaseSet
  <2>4. z.doc = c.doc /\ z.approved = c.approved /\ z.reviewed = c.reviewed /\ z.provisional = c.provisional
    BY <1>0, <1>3, <2>1 DEF Patched, CaseSet
  <2>5. /\ c'.state = c.state
        /\ c'.doc = c.doc /\ c'.approved = c.approved /\ c'.reviewed = c.reviewed
        /\ c'.provisional = c.provisional
    BY <1>1, <1>2, <2>2, <2>3, <2>4
  <2>6. StagesNameDocument' /\ StageIsBacked'
    BY <2>5, StageKept
  <2>7. FilingGoesOn /\ StageStep
    BY <2>2, <2>5 DEF FilingGoesOn, StageStep, Held
  <2> QED BY <1>1, <1>2, <2>2, <2>6, <2>7
<1>9. CASE Completes(z, paper, e, d)
  <2>1. DOMAIN given \cap {"doc", "approved", "reviewed", "provisional"} = {}
    BY <1>1, <1>9 DEF Completes, Careful, Stages
  <2>2. d.patch = NoPatch /\ d.to = "COMPLETED" /\ d.act.kind = "NO_OP" /\ c.state = "HANDOFF_DAYANA"
        /\ e.type = "CLIENT_NOTIFICATION_DELIVERED"
    BY <1>1, <1>9 DEF Completes, Decide, NoOp, Act
  <2>3. y = z
    BY <1>1, <1>3, <2>2, ZenonT(60) DEF Patched, NoPatch, CaseSet
  <2>4. z.doc = c.doc /\ z.approved = c.approved /\ z.reviewed = c.reviewed /\ z.provisional = c.provisional
    BY <1>0, <1>3, <2>1 DEF Patched, CaseSet
  <2>5. /\ c'.state = "COMPLETED"
        /\ c'.doc = c.doc /\ c'.approved = c.approved /\ c'.reviewed = c.reviewed
        /\ c'.provisional = c.provisional
    BY <1>1, <1>2, <2>2, <2>3, <2>4
  <2>6. c.doc \in Docs /\ c.approved /\ ~c.provisional /\ docs[c.doc].filed /\ docs[c.doc].type = "FINAL"
    BY <2>2 DEF CoreInv, StagesNameDocument, StageIsBacked, Selected, Stages
  <2>7. docs[c.doc].noticed /\ tally'.told /\ docs' = docs
    BY <1>1, <2>2, <2>6, CaseAssumption DEF DeliveryBacked, Paper
  <2>8. StagesNameDocument' /\ StageIsBacked'
    BY <2>5, <2>6, <2>7 DEF StagesNameDocument, StageIsBacked, Selected
  <2>9. FilingGoesOn /\ StageStep
    BY <2>2, <2>5 DEF FilingGoesOn, StageStep, Held
  <2> QED BY <1>1, <1>2, <2>2, <2>8, <2>9
<1> QED BY <1>1, <1>4, <1>5, <1>6, <1>7, <1>8, <1>9 DEF Classified

(* The history of a step that asks nothing of Kmaleon; the delivery report *)
(* comes with its message.                                                 *)
TallyCalm == tally' \in TallySet /\ tally'.uploads = tally.uploads /\ (tally.told => tally'.told)
Delivering(e, D) ==
  e.type = "CLIENT_NOTIFICATION_DELIVERED" => D = docs /\ docs' = docs /\ tally'.told

(* A decision that is no upload and no notice keeps the invariant.         *)
LEMMA OutcomeKeeps ==
  ASSUME CoreInv, NEW e, NEW given, Careful(e, given), NEW D,
         NEW d \in Decisions(c, D, e, given), c' = Combined(c, e, given, d),
         d.act.kind \notin {"UPLOAD", "NOTIFY"}, Delivering(e, D), DocsCalm, TallyCalm,
         RowsOK(rows'), UploadsFollow(rows, rows'), QueueOK(inbox'),
         session' \in BOOLEAN, SessionIsConsented'
  PROVE  Keeps
<1>1. /\ c' \in CaseSet /\ ~c.closed /\ ~c'.closed
      /\ FilingGoesOn /\ StagesNameDocument' /\ StageIsBacked' /\ StageStep
  <2>1. RowsOK(rows)
    BY DEF CoreInv, TypeInv
  <2> QED BY <2>1, DecisionMoves DEF Delivering, TallyCalm
<1>2. UploadsAreFilings' /\ UploadsAccounted'
  BY <1>1, UploadsKept DEF TallyCalm
<1>3. TypeInv'
  BY <1>1 DEF TypeInv, DocsCalm, TallyCalm, RowsOK, QueueOK
<1>4. ApprovalsStand' /\ ClosedIsQuiet' /\ ClosedStep
  BY <1>1 DEF DocsCalm, ClosedIsQuiet, ClosedStep
<1> QED BY <1>1, <1>2, <1>3, <1>4 DEF Keeps, CoreInv

LEMMA UploadStatus ==
  ASSUME CoreInv, NEW R, UploadsFollow(rows, R)
  PROVE  \A r \in R : IsUpload(r) => r.status \in {"PENDING", "FAILED", "UNCERTAIN"}
BY DEF CoreInv, UploadsAreFilings, UploadsFollow, Becomes

(* Only the approval uploads and only the verified upload notifies.        *)
LEMMA NotFiling ==
  ASSUME NEW x, NEW paper, NEW e, NEW d, Classified(x, paper, e, d),
         e.type \notin {"OPERATOR_APPROVED_DOCUMENT", "KMALEON_UPLOAD_VERIFIED"}
  PROVE  d.act.kind \notin {"UPLOAD", "NOTIFY"}
<1>1. CASE Leaves(x, e, d) \/ Stays(x, e, d)
  BY <1>1 DEF Leaves, Aside, Stays, NamesDocument
<1>2. CASE Drafts(x, e, d) \/ Notified(x, e, d)
  BY <1>2 DEF Drafts, Notified, Send, Decide, Act
<1>3. CASE Completes(x, paper, e, d)
  BY <1>3 DEF Completes, Decide, Act, NoOp
<1> QED BY <1>1, <1>2, <1>3 DEF Classified, Uploads, Verified

(* What a transaction leaves, whatever it decides.                         *)
LEMMA MoveOutcome ==
  ASSUME CoreInv, NEW e, EventOK(e), NEW given, PatchOK(given), NEW D, NEW R, NEW queue,
         Move(e, given, D, R, queue), RowsOK(R), QueueOK(queue)
  PROVE  \E d \in Decisions(c, D, e, given) :
           /\ Classified(Patched(c, given), Paper(c, D), e, d)
           /\ c' = Combined(c, e, given, d)
           /\ rows' = Moved(c, R, e, given, d).rows /\ RowsOK(rows')
           /\ QueueOK(inbox') /\ session' \in BOOLEAN /\ SessionIsConsented'
<1>1. PICK d \in Decisions(c, D, e, given) : Commit(Moved(c, R, e, given, d), queue)
  BY DEF Move
<1> DEFINE m == Moved(c, R, e, given, d)
<1>2. c \in CaseSet /\ session \in BOOLEAN
  BY DEF CoreInv, TypeInv
<1>3. /\ m.c = Combined(c, e, given, d) /\ m.bumped \in BOOLEAN /\ (~m.bumped => m.c = c)
      /\ RowsOK(m.rows) /\ Classified(Patched(c, given), Paper(c, D), e, d)
  BY <1>2, MovedFacts
<1> HIDE DEF m
<1>4. /\ c' = m.c /\ rows' = m.rows /\ inbox' = (IF m.bumped THEN Aged(queue) ELSE queue)
      /\ session' = (session /\ ~m.bumped)
  BY <1>1 DEF Commit, m
<1>5. QueueOK(inbox')
  BY <1>4, QueueAged
<1>6. session' \in BOOLEAN /\ SessionIsConsented'
  BY <1>2, <1>3, <1>4 DEF CoreInv, SessionIsConsented
<1> QED BY <1>3, <1>4, <1>5, <1>6 DEF m

(* A transaction that is neither an approval nor a verified upload keeps   *)
(* the invariant.                                                          *)
LEMMA MoveKeeps ==
  ASSUME CoreInv, NEW e, NEW given, Careful(e, given), NEW D, NEW R, NEW queue,
         Move(e, given, D, R, queue),
         e.type \notin {"OPERATOR_APPROVED_DOCUMENT", "KMALEON_UPLOAD_VERIFIED"},
         RowsOK(R), UploadsFollow(rows, R), QueueOK(queue),
         Delivering(e, D), DocsCalm, TallyCalm
  PROVE  Keeps
<1>1. PICK d \in Decisions(c, D, e, given) :
           /\ Classified(Patched(c, given), Paper(c, D), e, d)
           /\ c' = Combined(c, e, given, d)
           /\ rows' = Moved(c, R, e, given, d).rows /\ RowsOK(rows')
           /\ QueueOK(inbox') /\ session' \in BOOLEAN /\ SessionIsConsented'
  BY MoveOutcome DEF Careful
<1>2. d.act.kind \notin {"UPLOAD", "NOTIFY"}
  BY <1>1, NotFiling
<1>3. UploadsFollow(R, rows')
  BY <1>1, <1>2, MovedUploads, UploadStatus DEF RowsOK
<1>4. UploadsFollow(rows, rows')
  BY <1>3, FollowTrans
<1> QED BY <1>1, <1>2, <1>4, OutcomeKeeps

LEMMA HandleKeeps ==
  ASSUME CoreInv, NEW e, NEW given, Careful(e, given), Handle(e, given),
         e.type \notin {"CLIENT_NOTIFICATION_DELIVERED", "OPERATOR_APPROVED_DOCUMENT",
                        "KMALEON_UPLOAD_VERIFIED"}
  PROVE  Keeps
<1>1. Move(e, given, docs, rows, inbox) /\ docs' = docs /\ tally' = tally
  BY DEF Handle
<1>2. DocsCalm
  BY <1>1, CalmUnchanged
<1>3. TallyCalm /\ Delivering(e, docs) /\ RowsOK(rows) /\ UploadsFollow(rows, rows) /\ QueueOK(inbox)
  BY <1>1, FollowRefl DEF TallyCalm, Delivering, CoreInv, TypeInv
<1> QED BY <1>1, <1>2, <1>3, MoveKeeps

(* The events that come without evidence.                                  *)
OrdinaryTypes ==
  (ClientEvents \ {"CLIENT_PDF_RECEIVED"}) \cup
  {"CASE_OPENED", "OPERATOR_ESCALATE", "OPERATOR_PAYMENT_CONFIRMED", "OPERATOR_SUBMISSION_CONFIRMED",
   "SEDE_AUTOMATION_FAILED"}
LEMMA Ordinary ==
  ASSUME NEW e, e.type \in OrdinaryTypes, NEW given, PatchOK(given),
         DOMAIN given \cap {"doc", "approved", "reviewed", "provisional"} = {}
  PROVE  /\ Careful(e, given)
         /\ e.type \notin {"CLIENT_NOTIFICATION_DELIVERED", "OPERATOR_APPROVED_DOCUMENT",
                           "KMALEON_UPLOAD_VERIFIED"}
<1>1. e.type \notin {"CLIENT_PDF_RECEIVED", "SEDE_DRAFT_READY", "OPERATOR_APPROVED_DOCUMENT",
                "KMALEON_UPLOAD_VERIFIED", "DAYANA_NOTIFIED", "PDF_AUDIT_COMPLETED", "OPERATOR_RESUME",
                "CLIENT_NOTIFICATION_DELIVERED"}
  BY DEF OrdinaryTypes, ClientEvents
<1> QED BY <1>1 DEF Careful, EventOK

LEMMA NothingGiven == PatchOK(NoPatch) /\ DOMAIN NoPatch = {}
BY SmallPatches DEF NoPatch

LEMMA PlainHandle ==
  ASSUME CoreInv, NEW e, e.type \in OrdinaryTypes, Handle(e, NoPatch)
  PROVE  Keeps
BY Ordinary, NothingGiven, HandleKeeps

(* The texts of the client.                                                *)
LEMMA ClientTextKeeps ==
  ASSUME CoreInv, NEW type \in TextTypes, ClientText(type)
  PROVE  Keeps
<1>1. PICK says \in Said(type), given \in Stated(type) : Handle(Event(type, NoDoc, says), given)
  BY DEF ClientText
<1>2. Event(type, NoDoc, says).type \in OrdinaryTypes
  BY CaseAssumption DEF Event, OrdinaryTypes
<1>3. PatchOK(given) /\ DOMAIN given \cap {"doc", "approved", "reviewed", "provisional"} = {}
  <2>1. given \in {NoPatch, [cert |-> "yes"], [cert |-> "no", device |-> "NONE"],
                   [cert |-> "yes", device |-> "MOBILE"], [cert |-> "yes", device |-> "PC"]}
    BY <1>1 DEF Stated
  <2> QED BY <2>1, SMTT(30) DEF PatchOK, NoPatch
<1> QED BY <1>1, <1>2, <1>3, Ordinary, HandleKeeps

(* ---------------------- the office and the inbox ----------------------- *)
(* The panel and the buttons.                                              *)
LEMMA OfficeHandles ==
  ASSUME CoreInv, Open \/ PaymentConfirmed \/ OfficeConsent \/ DraftReviewed \/ SubmissionConfirmed
                  \/ \E type \in OfficeTypes : OperatorEvent(type)
  PROVE  Keeps
<1>1. \A t, d, s : t \in OrdinaryTypes => Event(t, d, s).type \in OrdinaryTypes
  BY DEF Event
<1>2. {"CASE_OPENED", "OPERATOR_PAYMENT_CONFIRMED", "CLIENT_CONSENT_GRANTED", "CLIENT_DRAFT_APPROVED",
       "OPERATOR_SUBMISSION_CONFIRMED"} \subseteq OrdinaryTypes
  BY DEF OrdinaryTypes, ClientEvents
<1>3. CASE Open \/ PaymentConfirmed \/ OfficeConsent \/ DraftReviewed \/ SubmissionConfirmed
  <2>1. PICK e : e.type \in OrdinaryTypes /\ Handle(e, NoPatch)
    BY <1>1, <1>2, <1>3 DEF Open, PaymentConfirmed, OfficeConsent, DraftReviewed, SubmissionConfirmed
  <2> QED BY <2>1, PlainHandle
<1>4. ASSUME NEW type \in OfficeTypes, OperatorEvent(type)
      PROVE  Keeps
  <2>1. type \in OrdinaryTypes
    BY CaseAssumption DEF OrdinaryTypes
  <2>2. PICK e : e.type \in OrdinaryTypes /\ Handle(e, NoPatch)
    BY <1>1, <1>4, <2>1 DEF OperatorEvent
  <2> QED BY <2>2, PlainHandle
<1> QED BY <1>3, <1>4

LEMMA ProcessTapKeeps ==
  ASSUME CoreInv, ProcessTap
  PROVE  Keeps
<1>1. inbox # <<>> /\ QueueOK(inbox) /\ Head(inbox) \in TapEntries
  BY DEF ProcessTap, CoreInv, TypeInv, QueueOK
<1> DEFINE e == Head(inbox).event
<1>2. e.type \in OrdinaryTypes
  BY <1>1 DEF TapEntries, TapEvents, OrdinaryTypes
<1>3. Move(e, NoPatch, docs, rows, Tail(inbox)) /\ docs' = docs /\ tally' = tally
  BY DEF ProcessTap
<1>4. QueueOK(Tail(inbox))
  BY <1>1, QueueAged
<1> HIDE DEF e
<1>5. /\ Careful(e, NoPatch)
      /\ e.type \notin {"CLIENT_NOTIFICATION_DELIVERED", "OPERATOR_APPROVED_DOCUMENT",
                        "KMALEON_UPLOAD_VERIFIED"}
  BY <1>2, Ordinary, NothingGiven
<1>6. DocsCalm /\ TallyCalm /\ Delivering(e, docs) /\ RowsOK(rows) /\ UploadsFollow(rows, rows)
  BY <1>3, <1>5, CalmUnchanged, FollowRefl DEF TallyCalm, Delivering, CoreInv, TypeInv
<1> QED BY <1>3, <1>4, <1>5, <1>6, MoveKeeps

(* Steps that leave the stage alone.                                       *)
QuietCase ==
  /\ c' \in CaseSet
  /\ c'.state = c.state /\ c'.prev = c.prev /\ c'.consent = c.consent
  /\ c.state \in Stages =>
       /\ c'.doc = c.doc /\ c'.approved = c.approved /\ c'.reviewed = c.reviewed
       /\ c'.provisional = c.provisional
LEMMA QuietKeeps ==
  ASSUME CoreInv, QuietCase, DocsCalm, TallyCalm,
         RowsOK(rows'), UploadsFollow(rows, rows'), QueueOK(inbox'),
         session' \in BOOLEAN, session' => session, ClosedIsQuiet',
         c.closed => c'.closed
  PROVE  Keeps
<1>1. FilingGoesOn /\ StagesNameDocument' /\ StageIsBacked' /\ StageStep
  <2>1. FilingGoesOn /\ StageStep
    BY DEF QuietCase, FilingGoesOn, StageStep, Held, Stages
  <2>2. StagesNameDocument' /\ StageIsBacked'
    BY StageKept DEF QuietCase, TallyCalm
  <2> QED BY <2>1, <2>2
<1>2. UploadsAreFilings' /\ UploadsAccounted'
  BY <1>1, UploadsKept DEF TallyCalm
<1>3. TypeInv'
  BY DEF QuietCase, TypeInv, DocsCalm, TallyCalm, RowsOK, QueueOK
<1>4. ApprovalsStand' /\ ClosedStep /\ SessionIsConsented'
  BY DEF DocsCalm, ClosedIsQuiet, ClosedStep, CoreInv, SessionIsConsented, QuietCase
<1> QED BY <1>1, <1>2, <1>3, <1>4 DEF Keeps, CoreInv

LEMMA CaseQuiet ==
  ASSUME CoreInv,
         \/ c' = c \/ \E o, p \in BOOLEAN : c' = [c EXCEPT !.optOut = o, !.paused = p]
         \/ c' = [c EXCEPT !.gate = "expired"]
         \/ \E p \in BOOLEAN : c' = [c EXCEPT !.paused = p]
         \/ \E r \in Reports : c' = [c EXCEPT !.audit = r.status]
         \/ \E p \in BOOLEAN : c' = [c EXCEPT !.closed = TRUE, !.paused = p]
  PROVE  QuietCase /\ (c.closed => c'.closed)
<1>1. c \in CaseSet
  BY DEF CoreInv, TypeInv
<1>2. CASE c' = c
  BY <1>1, <1>2 DEF QuietCase
<1>3. ASSUME NEW o \in BOOLEAN, NEW p \in BOOLEAN, c' = [c EXCEPT !.optOut = o, !.paused = p]
      PROVE  QuietCase /\ (c.closed => c'.closed)
  BY <1>1, <1>3 DEF QuietCase, CaseSet
<1>4. CASE c' = [c EXCEPT !.gate = "expired"]
  BY <1>1, <1>4 DEF QuietCase, CaseSet
<1>5. ASSUME NEW p \in BOOLEAN, c' = [c EXCEPT !.paused = p]
      PROVE  QuietCase /\ (c.closed => c'.closed)
  BY <1>1, <1>5 DEF QuietCase, CaseSet
<1>6. ASSUME NEW r \in Reports, c' = [c EXCEPT !.audit = r.status]
      PROVE  QuietCase /\ (c.closed => c'.closed)
  BY <1>1, <1>6 DEF QuietCase, CaseSet
<1>7. ASSUME NEW p \in BOOLEAN, c' = [c EXCEPT !.closed = TRUE, !.paused = p]
      PROVE  QuietCase /\ (c.closed => c'.closed)
  BY <1>1, <1>7 DEF QuietCase, CaseSet
<1> QED BY <1>2, <1>3, <1>4, <1>5, <1>6, <1>7

(* A write that only moves the version on.                                 *)
LEMMA RewriteKeeps ==
  ASSUME CoreInv, NEW x, Rewrite(x), QuietCase, c.closed <=> c'.closed, DocsCalm, tally' = tally
  PROVE  Keeps
<1>1. /\ rows' = Outdated(rows) /\ inbox' = Aged(inbox) /\ session' = FALSE
  BY DEF Rewrite, Commit
<1>2. RowsOK(rows) /\ QueueOK(inbox) /\ tally \in TallySet
  BY DEF CoreInv, TypeInv
<1>3. RowsOK(rows') /\ UploadsFollow(rows, rows')
  <2>1. \A r \in rows : IsUpload(r) => r.status \in {"PENDING", "FAILED", "UNCERTAIN"}
    BY DEF CoreInv, UploadsAreFilings
  <2> QED BY <1>1, <1>2, <2>1, RowsKept, FollowOutdated DEF RowsOK
<1>4. ClosedIsQuiet'
  <2>1. SUFFICES ASSUME c'.closed, NEW r \in rows'
                 PROVE  r.status = "UNCERTAIN" /\ ~r.fresh
    BY DEF ClosedIsQuiet
  <2>2. PICK q \in rows : r = [q EXCEPT !.fresh = FALSE]
    BY <1>1, <2>1 DEF Outdated
  <2> QED BY <1>2, <2>1, <2>2 DEF CoreInv, ClosedIsQuiet, RowsOK, RowSet
<1>5. QueueOK(inbox') /\ TallyCalm
  BY <1>1, <1>2, QueueAged DEF TallyCalm
<1> QED BY <1>1, <1>3, <1>4, <1>5, QuietKeeps

LEMMA OfficeRewrites ==
  ASSUME CoreInv, AddressVerified \/ \E paused \in BOOLEAN : SetAutomation(paused)
  PROVE  Keeps
<1>1. CASE AddressVerified
  <2>1. Rewrite(c) /\ c' = c /\ docs' = docs /\ tally' = tally
    BY <1>1 DEF AddressVerified, Rewrite, Commit
  <2> QED BY <2>1, CaseQuiet, CalmUnchanged, RewriteKeeps
<1>2. ASSUME NEW paused \in BOOLEAN, SetAutomation(paused)
      PROVE  Keeps
  <2> DEFINE x == [c EXCEPT !.paused = paused]
  <2>1. Rewrite(x) /\ c' = x /\ docs' = docs /\ tally' = tally
    BY <1>2 DEF SetAutomation, Rewrite, Commit
  <2>2. c.closed <=> c'.closed
    BY <2>1 DEF CoreInv, TypeInv, CaseSet
  <2>3. QuietCase
    BY <2>1, CaseQuiet
  <2> HIDE DEF x
  <2> QED BY <2>1, <2>2, <2>3, CalmUnchanged, RewriteKeeps
<1> QED BY <1>1, <1>2

(* Steps that only touch the inbox or the silence of the case.             *)
LEMMA Unmoved ==
  ASSUME CoreInv, QuietCase, c.closed <=> c'.closed, UNCHANGED <<docs, rows, session, tally>>, QueueOK(inbox')
  PROVE  Keeps
<1>1. /\ DocsCalm /\ TallyCalm /\ RowsOK(rows') /\ UploadsFollow(rows, rows') /\ session' \in BOOLEAN
      /\ ClosedIsQuiet'
  BY CalmUnchanged, FollowRefl DEF TallyCalm, CoreInv, TypeInv, ClosedIsQuiet
<1> QED BY <1>1, QuietKeeps

LEMMA ReceivedOK ==
  ASSUME CoreInv, NEW e \in TapEvents, Received(e)
  PROVE  QueueOK(inbox')
<1>1. [event |-> e, fresh |-> TRUE] \in TapEntries
  BY DEF TapEntries
<1> DEFINE entry == [event |-> e, fresh |-> TRUE]
<1>2. inbox \in Seq(TapEntries) /\ Len(inbox) < MaxInbox /\ inbox' = Append(inbox, entry)
  BY DEF CoreInv, TypeInv, QueueOK, Received
<1> HIDE DEF entry
<1>3. inbox' \in Seq(TapEntries) /\ Len(inbox') = Len(inbox) + 1
  BY <1>1, <1>2 DEF entry
<1> QED BY <1>2, <1>3, CaseAssumption DEF QueueOK

LEMMA InboxKeeps ==
  ASSUME CoreInv,
         \/ \E type \in TapTypes : Tap(type)
         \/ Stop \/ TurnTapAway \/ Reengage \/ GateExpires
         \/ \E type \in {"CLIENT_OPT_OUT", "CLIENT_CONSENT_DENIED"} : Withdrawal(type)
  PROVE  Keeps
<1>1. QueueOK(inbox)
  BY DEF CoreInv, TypeInv
<1>2. ASSUME NEW type \in TapTypes, Tap(type)
      PROVE  Keeps
  <2>1. PICK e \in Taps(type) : Received(e)
    BY <1>2 DEF Tap
  <2>2. e \in TapEvents
    <3>1. \A r \in rows : r.doc \in Docs \cup {NoDoc}
      BY DEF CoreInv, TypeInv, RowsOK, RowSet
    <3>2. type \in ClientEvents \ {"CLIENT_PDF_RECEIVED"}
      BY CaseAssumption
    <3> QED BY <2>1, <3>1, <3>2 DEF Taps, TapEvents, Event
  <2> QED BY <1>2, <2>1, <2>2, ReceivedOK, Unmoved, CaseQuiet DEF Tap
<1>3. CASE Stop
  <2>1. Event("CLIENT_OPT_OUT", NoDoc, "plain") \in TapEvents
    BY DEF Event, TapEvents, ClientEvents
  <2>2. QuietCase /\ (c.closed <=> c'.closed)
    BY <1>3, CaseQuiet DEF Stop, CoreInv, TypeInv, CaseSet
  <2> QED BY <1>3, <2>1, <2>2, ReceivedOK, Unmoved DEF Stop
<1>4. CASE TurnTapAway
  <2>1. QueueOK(inbox')
    BY <1>1, <1>4, QueueAged DEF TurnTapAway
  <2> QED BY <1>4, <2>1, Unmoved, CaseQuiet DEF TurnTapAway
<1>5. CASE Reengage
  <2>1. QuietCase /\ (c.closed <=> c'.closed)
    BY <1>5, CaseQuiet DEF Reengage, CoreInv, TypeInv, CaseSet
  <2> QED BY <1>1, <1>5, <2>1, Unmoved DEF Reengage
<1>6. CASE GateExpires
  <2>1. QuietCase /\ (c.closed <=> c'.closed)
    BY <1>6, CaseQuiet DEF GateExpires, CoreInv, TypeInv, CaseSet
  <2> QED BY <1>1, <1>6, <2>1, Unmoved DEF GateExpires
<1>7. ASSUME NEW type \in {"CLIENT_OPT_OUT", "CLIENT_CONSENT_DENIED"}, Withdrawal(type)
      PROVE  Keeps
  <2>1. Event(type, NoDoc, "plain") \in TapEvents
    BY DEF Event, TapEvents, ClientEvents
  <2> QED BY <1>7, <2>1, ReceivedOK, Unmoved, CaseQuiet DEF Withdrawal
<1> QED BY <1>2, <1>3, <1>4, <1>5, <1>6, <1>7

(* ---------------------- the rows of the executor ----------------------- *)
(* One row changes its status.                                             *)
Statuses == {"PENDING", "AWAITING", "EXECUTED", "UNCERTAIN", "FAILED"}
LEMMA BecomeOK ==
  ASSUME CoreInv, NEW r \in rows, NEW s \in Statuses
  PROVE  RowsOK(Become(r, s))
<1>1. RowsOK(rows)
  BY DEF CoreInv, TypeInv
<1>2. RowsOK({[r EXCEPT !.status = s]})
  BY <1>1 DEF RowsOK, RowSet, Statuses, NamesDocument
<1>3. RowsOK(rows \ {r})
  BY <1>1, RowsKept
<1> QED BY <1>2, <1>3, RowsKept DEF Become

LEMMA BecomeFollows ==
  ASSUME CoreInv, NEW r \in rows, NEW s,
         ~IsUpload(r) \/ {r.status, s} \subseteq {"PENDING", "FAILED"}
  PROVE  UploadsFollow(rows, Become(r, s))
<1> DEFINE q == [r EXCEPT !.status = s]
<1>1. q.kind = r.kind /\ q.doc = r.doc /\ q.status = s /\ Become(r, s) = (rows \ {r}) \cup {q}
  BY DEF CoreInv, TypeInv, RowsOK, RowSet, Become
<1> HIDE DEF q
<1>2. CASE ~IsUpload(r)
  <2>1. NoUpload({q}) /\ NoUpload(rows \ (rows \ {r}))
    BY <1>1, <1>2 DEF NoUpload, IsUpload
  <2>2. rows \ {r} \subseteq rows
    OBVIOUS
  <2>3. UploadsFollow(rows, (rows \ {r}) \cup {q})
    BY <2>1, <2>2, FollowSwap
  <2> QED BY <1>1, <2>3
<1>3. CASE IsUpload(r)
  <2>1. IsUpload(q) /\ Becomes(r, q)
    BY <1>1, <1>3 DEF IsUpload, Becomes
  <2>2. \A u, v \in rows : IsUpload(u) /\ IsUpload(v) => u = v
    BY DEF CoreInv, UploadsAreFilings
  <2>3. \A u \in Become(r, s) : IsUpload(u) => u = q
    BY <1>1, <1>3, <2>2
  <2>4. \A u \in rows : IsUpload(u) => u.status # "UNCERTAIN"
    BY <1>3, <2>2
  <2> QED BY <1>3, <2>1, <2>3, <2>4 DEF UploadsFollow
<1> QED BY <1>2, <1>3

LEMMA DropFollows ==
  ASSUME NEW r \in rows, ~IsUpload(r) \/ r.status # "UNCERTAIN"
  PROVE  UploadsFollow(rows, rows \ {r})
BY DEF UploadsFollow, Becomes

(* A step of the rows alone that leaves the uploads what they were.        *)
LEMMA RowStep ==
  ASSUME CoreInv, UNCHANGED <<c, docs, inbox, session>>, TallyCalm,
         RowsOK(rows'), UploadsFollow(rows, rows'), c.closed => rows' \subseteq rows
  PROVE  Keeps
<1>1. QuietCase /\ DocsCalm /\ (c.closed => c'.closed)
  BY CaseQuiet, CalmUnchanged
<1>2. ClosedIsQuiet' /\ QueueOK(inbox') /\ session' \in BOOLEAN /\ (session' => session)
  BY DEF CoreInv, TypeInv, ClosedIsQuiet
<1> QED BY <1>1, <1>2, QuietKeeps

LEMMA StartableOpen ==
  ASSUME NEW r \in rows, Startable(r)
  PROVE  ~c.closed /\ r.status = "PENDING"
BY DEF Startable, Turned

(* What the executor does to a row without settling it.                    *)
LEMMA RowActions ==
  ASSUME CoreInv, NEW r \in rows,
         TurnAway(r) \/ Block(r) \/ Fail(r) \/ Accept(r) \/ Bounced(r) \/ Retry(r)
  PROVE  Keeps
<1>0. RowsOK(rows) /\ RowsOK(rows \ {r})
  BY RowsKept DEF CoreInv, TypeInv
<1>1. CASE TurnAway(r)
  BY <1>0, <1>1, DropFollows, RowStep DEF TurnAway, TallyCalm, CoreInv, TypeInv
<1>2. CASE Block(r)
  <2>1. ~c.closed /\ r.status = "PENDING"
    BY <1>2, StartableOpen DEF Block
  <2>2. RowsOK(Become(r, "FAILED")) /\ UploadsFollow(rows, Become(r, "FAILED"))
    BY <2>1, BecomeOK, BecomeFollows DEF Statuses
  <2>3. RowsOK(BlockedNotice(r)) /\ NoUpload(BlockedNotice(r))
    <3>1. RowsOK({Row("SEND", "CONVERSATION_REPLY", NoDoc, TRUE)}) /\ RowsOK({})
      BY NewRows, RowsKept DEF PlainWhats
    <3>2. NoUpload({Row("SEND", "CONVERSATION_REPLY", NoDoc, TRUE)}) /\ NoUpload({})
      BY DEF NoUpload, IsUpload, Row
    <3> QED BY <3>1, <3>2 DEF BlockedNotice
  <2>4. RowsOK(rows') /\ UploadsFollow(rows, rows')
    BY <1>2, <2>2, <2>3, RowsKept, FollowUnion DEF Block
  <2> QED BY <1>2, <2>1, <2>4, RowStep DEF Block, TallyCalm, CoreInv, TypeInv
<1>3. CASE Fail(r)
  <2>1. ~c.closed /\ r.status = "PENDING"
    BY <1>3, StartableOpen DEF Fail
  <2>2. RowsOK(Become(r, "FAILED")) /\ UploadsFollow(rows, Become(r, "FAILED"))
        /\ UploadsFollow(rows, rows \ {r})
    BY <2>1, BecomeOK, BecomeFollows, DropFollows DEF Statuses
  <2> QED BY <1>0, <1>3, <2>1, <2>2, RowStep DEF Fail, TallyCalm, CoreInv, TypeInv
<1>4. CASE Accept(r)
  <2>1. ~c.closed /\ ~IsUpload(r)
    BY <1>4, StartableOpen DEF Accept, IsUpload
  <2>2. RowsOK(Become(r, "AWAITING")) /\ UploadsFollow(rows, Become(r, "AWAITING"))
        /\ UploadsFollow(rows, rows \ {r})
    BY <2>1, BecomeOK, BecomeFollows, DropFollows DEF Statuses
  <2> QED BY <1>0, <1>4, <2>1, <2>2, RowStep DEF Accept, TallyCalm, CoreInv, TypeInv
<1>5. CASE Bounced(r)
  <2>1. ~IsUpload(r) /\ (c.closed => ~r.fresh)
    BY <1>5 DEF Bounced, InFlight, IsUpload, CoreInv, ClosedIsQuiet
  <2>2. RowsOK(Become(r, "FAILED")) /\ UploadsFollow(rows, Become(r, "FAILED"))
        /\ UploadsFollow(rows, rows \ {r})
    BY <2>1, BecomeOK, BecomeFollows, DropFollows DEF Statuses
  <2> QED BY <1>0, <1>5, <2>1, <2>2, RowStep DEF Bounced, TallyCalm, CoreInv, TypeInv
<1>6. CASE Retry(r)
  <2>1. ~c.closed /\ r.status = "FAILED"
    BY <1>6 DEF Retry, CoreInv, ClosedIsQuiet
  <2>2. RowsOK(Become(r, "PENDING")) /\ UploadsFollow(rows, Become(r, "PENDING"))
    BY <2>1, BecomeOK, BecomeFollows DEF Statuses
  <2> QED BY <1>6, <2>1, <2>2, RowStep DEF Retry, TallyCalm, CoreInv, TypeInv
<1> QED BY <1>1, <1>2, <1>3, <1>4, <1>5, <1>6

LEMMA HeldTextKeeps ==
  ASSUME CoreInv, HeldText
  PROVE  Keeps
<1>1. RowsOK(rows) /\ RowsOK({Row("SEND", "HELD_ACK", NoDoc, TRUE)}) /\ ~c.closed
  BY NewRows DEF CoreInv, TypeInv, PlainWhats, HeldText, TextTurn
<1>2. NoUpload({Row("SEND", "HELD_ACK", NoDoc, TRUE)})
  BY DEF NoUpload, IsUpload, Row
<1>3. RowsOK(rows') /\ UploadsFollow(rows, rows')
  BY <1>1, <1>2, RowsKept, FollowRefl, FollowUnion DEF HeldText
<1> QED BY <1>1, <1>3, RowStep DEF HeldText, TallyCalm, CoreInv, TypeInv

(* The end of phase one: what is in doubt stays.                           *)
LEMMA CloseRows ==
  ASSUME CoreInv, rows' = Outdated({r \in rows : r.status = "UNCERTAIN"})
  PROVE  /\ RowsOK(rows') /\ UploadsFollow(rows, rows')
         /\ \A r \in rows' : r.status = "UNCERTAIN" /\ ~r.fresh
<1> DEFINE S == {r \in rows : r.status = "UNCERTAIN"}
<1>1. RowsOK(rows) /\ RowsOK(S)
  BY RowsKept DEF CoreInv, TypeInv
<1>2. UploadsFollow(rows, S)
  BY DEF UploadsFollow, Becomes
<1>3. UploadsFollow(S, Outdated(S))
  BY <1>1, FollowOutdated DEF RowsOK
<1>4. \A q \in S : q.status = "UNCERTAIN" /\ q \in RowSet
  BY <1>1 DEF RowsOK
<1> HIDE DEF S
<1>5. \A r \in Outdated(S) : r.status = "UNCERTAIN" /\ ~r.fresh
  BY <1>4 DEF Outdated, RowSet
<1>6. rows' = Outdated(S)
  BY DEF S
<1> QED BY <1>1, <1>2, <1>3, <1>5, <1>6, RowsKept, FollowTrans

LEMMA ClosePhaseOneKeeps ==
  ASSUME CoreInv, ClosePhaseOne
  PROVE  Keeps
<1>1. /\ c' = [c EXCEPT !.closed = TRUE, !.paused = TRUE]
      /\ rows' = Outdated({r \in rows : r.status = "UNCERTAIN"})
      /\ inbox' = Aged(<<>>) /\ session' = FALSE /\ docs' = docs /\ tally' = tally
  BY DEF ClosePhaseOne, Closed, Commit
<1>2. QuietCase /\ (c.closed => c'.closed) /\ DocsCalm
  BY <1>1, CaseQuiet, CalmUnchanged
<1>3. QueueOK(inbox')
  <2>1. QueueOK(<<>>)
    BY CaseAssumption DEF QueueOK
  <2> QED BY <1>1, <2>1, QueueAged
<1>4. ClosedIsQuiet'
  BY <1>1, CloseRows DEF ClosedIsQuiet
<1> QED BY <1>1, <1>2, <1>3, <1>4, CloseRows, QuietKeeps DEF TallyCalm, CoreInv, TypeInv

(* ---------------------------- the documents ---------------------------- *)
(* Outside the filing and the hands of a person nothing is being filed.    *)
NoFiling == \A r \in rows : ~IsUpload(r)
LEMMA NotFilingNow ==
  ASSUME CoreInv, c.state \notin {"KMALEON_FILING", "ESCALATED_HUMAN"}
  PROVE  NoFiling
BY DEF CoreInv, UploadsAreFilings, NoFiling, Held

(* One document is written, which nobody is filing or has filed.           *)
LEMMA DocTouched ==
  ASSUME CoreInv, NEW d \in Docs, NEW new \in DocumentSet, docs' = [docs EXCEPT ![d] = new],
         ~docs[d].filed, ~new.filed,
         new.approved =>
           /\ new.job = "reported" /\ new.report.identity
           /\ new.report.status \in {"VALID", "DEFECTIVE_WITH_AIRAM"}
           /\ new.type = IF new.report.status = "VALID" THEN "FINAL" ELSE "PROVISIONAL",
         c.state \in Stages => c.doc # d,
         \A r \in rows : IsUpload(r) => r.doc # d
  PROVE  DocsCalm
<1>1. docs \in [Docs -> DocumentSet] /\ docs' \in [Docs -> DocumentSet]
      /\ docs'[d] = new /\ \A o \in Docs \ {d} : docs'[o] = docs[o]
  BY DEF CoreInv, TypeInv
<1>2. ApprovalsStand'
  <2>1. ASSUME NEW o \in Docs
        PROVE  /\ docs'[o].approved =>
                    /\ docs'[o].job = "reported" /\ docs'[o].report.identity
                    /\ docs'[o].report.status \in {"VALID", "DEFECTIVE_WITH_AIRAM"}
                    /\ docs'[o].type = IF docs'[o].report.status = "VALID" THEN "FINAL" ELSE "PROVISIONAL"
               /\ docs'[o].filed => docs'[o].approved
    <3>1. CASE o = d
      BY <1>1, <3>1
    <3>2. CASE o # d
      BY <1>1, <3>2 DEF CoreInv, ApprovalsStand, Audited
    <3> QED BY <3>1, <3>2
  <2> QED BY <2>1 DEF ApprovalsStand, Audited
<1>3. \A r \in rows : IsUpload(r) => docs'[r.doc].approved /\ ~docs'[r.doc].filed
  BY <1>1 DEF CoreInv, UploadsAreFilings, TypeInv, RowsOK, NamesDocument, IsUpload
<1>4. c.state \in Stages => docs'[c.doc] = docs[c.doc]
  BY <1>1 DEF CoreInv, StagesNameDocument
<1>5. \A o \in Docs : docs[o].filed => docs'[o].filed
  BY <1>1
<1> QED BY <1>1, <1>2, <1>3, <1>4, <1>5 DEF DocsCalm

LEMMA StillTalking == ASSUME CoreInv, tally' = tally PROVE TallyCalm
BY DEF CoreInv, TypeInv, TallyCalm

(* A file arrives (intake refuses one that was filed and one the case is   *)
(* about).                                                                 *)
LEMMA IntakeKeeps ==
  ASSUME CoreInv, NEW d \in Docs, Intake(d)
  PROVE  Keeps
<1> DEFINE e == Event("CLIENT_PDF_RECEIVED", d, "plain")
           given == NewlySelected(d)
           new == [docs[d] EXCEPT !.job = docs'[d].job, !.type = "PENDING_REVIEW", !.approved = FALSE]
<1>1. e.type = "CLIENT_PDF_RECEIVED" /\ e.doc = d /\ EventOK(e)
  BY DEF Event, EventOK
<1>2. PatchOK(given)
  BY DocumentPatches DEF NewlySelected
<1>3. Move(e, given, docs', rows, inbox) /\ tally' = tally /\ ~docs[d].filed
      /\ (c.doc = d => c.state \in Reselectable)
  BY DEF Intake, Refused
<1>4. docs' = [docs EXCEPT ![d] = new] /\ new \in DocumentSet /\ ~new.approved /\ ~new.filed
  <2>1. PICK j \in {"pending", "parked"} :
          docs' = [docs EXCEPT ![d].job = j, ![d].type = "PENDING_REVIEW", ![d].approved = FALSE]
    BY DEF Intake
  <2>2. docs \in [Docs -> DocumentSet]
    BY DEF CoreInv, TypeInv
  <2> QED BY <1>3, <2>1, <2>2, ZenonT(60) DEF DocumentSet
<1> HIDE DEF e, given, new
<1>5. c.state # "ESCALATED_HUMAN"
  <2>1. c \in CaseSet
    BY DEF CoreInv, TypeInv
  <2> QED BY <1>1, <1>2, <1>3, <2>1, PersonHolds DEF Move
<1>6. c.state \in Stages => c.doc # d
  BY <1>3 DEF Reselectable, Stages
<1>7. \A r \in rows : IsUpload(r) => r.doc # d
  BY <1>5, <1>6 DEF CoreInv, UploadsAreFilings, Held, Stages
<1>8. DocsCalm
  BY <1>3, <1>4, <1>6, <1>7, DocTouched
<1>9. Careful(e, given) /\ Delivering(e, docs') /\ TallyCalm
  BY <1>1, <1>2, <1>3, StillTalking DEF Careful, Delivering
<1>10. RowsOK(rows) /\ UploadsFollow(rows, rows) /\ QueueOK(inbox)
  BY FollowRefl DEF CoreInv, TypeInv
<1> QED BY <1>1, <1>3, <1>8, <1>9, <1>10, MoveKeeps

(* The audit worker, and the operator who rejects.                         *)
LEMMA AuditDroppedKeeps ==
  ASSUME CoreInv, NEW d \in Docs, AuditDropped(d)
  PROVE  Keeps
<1> DEFINE new == [docs[d] EXCEPT !.job = docs'[d].job]
<1>1. docs' = [docs EXCEPT ![d] = new] /\ new \in DocumentSet /\ new.approved = docs[d].approved
      /\ new.filed = docs[d].filed
  <2>1. PICK j \in {"superseded", "parked"} : docs' = [docs EXCEPT ![d].job = j]
    BY DEF AuditDropped
  <2>2. docs \in [Docs -> DocumentSet]
    BY DEF CoreInv, TypeInv
  <2> QED BY <2>1, <2>2 DEF DocumentSet
<1>2. ~docs[d].approved /\ ~docs[d].filed
  BY DEF AuditDropped, CoreInv, ApprovalsStand, Audited
<1> HIDE DEF new
<1>3. \A r \in rows : IsUpload(r) => r.doc # d
  BY <1>2 DEF CoreInv, UploadsAreFilings
<1>4. c.state \in Stages => c.doc # d
  BY <1>2 DEF CoreInv, StageIsBacked, Selected, Stages
<1>5. DocsCalm
  BY <1>1, <1>2, <1>3, <1>4, DocTouched
<1>6. UNCHANGED <<c, rows, inbox, session, tally>>
  BY DEF AuditDropped
<1>7. QuietCase /\ TallyCalm /\ ClosedIsQuiet'
  BY <1>6, CaseQuiet, StillTalking DEF CoreInv, ClosedIsQuiet
<1> QED BY <1>5, <1>6, <1>7, FollowRefl, QuietKeeps DEF CoreInv, TypeInv

LEMMA AuditDoneKeeps ==
  ASSUME CoreInv, NEW d \in Docs, AuditDone(d)
  PROVE  Keeps
<1>1. PICK r \in Finding(d) :
        /\ docs' = [docs EXCEPT ![d].job = "reported", ![d].report = r]
        /\ IF c.closed THEN Rewrite([c EXCEPT !.audit = r.status])
           ELSE Move(Event("PDF_AUDIT_COMPLETED", d, r), [audit |-> r.status], docs', rows, inbox)
  BY DEF AuditDone
<1>2. /\ docs[d].job = "pending" /\ c.state = "AUDITING_DOCUMENT" /\ tally' = tally
      /\ docs \in [Docs -> DocumentSet]
  BY DEF AuditDone, CoreInv, TypeInv
<1>3. r \in Reports
  BY <1>2 DEF Finding, DocumentSet
<1> DEFINE new == [docs[d] EXCEPT !.job = "reported", !.report = r]
<1>4. docs' = [docs EXCEPT ![d] = new] /\ new \in DocumentSet /\ new.approved = docs[d].approved
      /\ new.filed = docs[d].filed
  BY <1>1, <1>2, <1>3 DEF DocumentSet
<1> HIDE DEF new
<1>5. ~docs[d].approved /\ ~docs[d].filed
  BY <1>2 DEF CoreInv, ApprovalsStand, Audited
<1>6. NoFiling /\ c.state \notin Stages
  BY <1>2, NotFilingNow DEF Stages
<1>7. DocsCalm
  BY <1>4, <1>5, <1>6, DocTouched DEF NoFiling
<1>8. CASE c.closed
  <2> DEFINE x == [c EXCEPT !.audit = r.status]
  <2>1. Rewrite(x) /\ c' = x
    BY <1>1, <1>8 DEF Rewrite, Commit
  <2>2. QuietCase /\ (c.closed <=> c'.closed)
    BY <1>3, <2>1, CaseQuiet DEF CoreInv, TypeInv, CaseSet
  <2> HIDE DEF x
  <2> QED BY <1>2, <1>7, <2>1, <2>2, RewriteKeeps
<1>9. CASE ~c.closed
  <2> DEFINE e == Event("PDF_AUDIT_COMPLETED", d, r)
             given == [audit |-> r.status]
  <2>1. Move(e, given, docs', rows, inbox)
    BY <1>1, <1>9
  <2>2. EventOK(e) /\ PatchOK(given) /\ e.type = "PDF_AUDIT_COMPLETED"
    BY <1>3, AuditPatches DEF Event, EventOK
  <2> HIDE DEF e, given
  <2>3. Careful(e, given) /\ Delivering(e, docs') /\ TallyCalm
    BY <1>2, <1>6, <2>2, StillTalking DEF Careful, Delivering
  <2>4. RowsOK(rows) /\ UploadsFollow(rows, rows) /\ QueueOK(inbox)
    BY FollowRefl DEF CoreInv, TypeInv
  <2> QED BY <1>7, <2>1, <2>2, <2>3, <2>4, MoveKeeps
<1> QED BY <1>8, <1>9

LEMMA RejectKeeps ==
  ASSUME CoreInv, NEW d \in Docs, Reject(d)
  PROVE  Keeps
<1> DEFINE new == [docs[d] EXCEPT !.approved = FALSE]
           given == [approved |-> FALSE, reviewed |-> FALSE]
<1>1. /\ docs' = [docs EXCEPT ![d] = new] /\ new \in DocumentSet /\ ~new.approved /\ ~new.filed
      /\ c.state = "AUDITING_DOCUMENT" /\ ~docs[d].filed /\ tally' = tally
  BY ZenonT(60) DEF Reject, CoreInv, TypeInv, DocumentSet
<1> HIDE DEF new
<1>2. NoFiling /\ c.state \notin Stages
  BY <1>1, NotFilingNow DEF Stages
<1>3. DocsCalm
  BY <1>1, <1>2, DocTouched DEF NoFiling
<1>4. PICK says \in {"RESEND", "REVOKE_AND_REISSUE"} :
        Move(Event("OPERATOR_REJECTED_DOCUMENT", d, says), given, docs', rows, inbox)
  BY DEF Reject
<1> DEFINE e == Event("OPERATOR_REJECTED_DOCUMENT", d, says)
<1>5. EventOK(e) /\ PatchOK(given) /\ e.type = "OPERATOR_REJECTED_DOCUMENT"
  BY MarkPatches DEF Event, EventOK
<1>6. Move(e, given, docs', rows, inbox)
  BY <1>4
<1> HIDE DEF e, given
<1>7. Careful(e, given) /\ Delivering(e, docs') /\ TallyCalm
  BY <1>1, <1>2, <1>5, StillTalking DEF Careful, Delivering
<1>8. RowsOK(rows) /\ UploadsFollow(rows, rows) /\ QueueOK(inbox)
  BY FollowRefl DEF CoreInv, TypeInv
<1> QED BY <1>3, <1>5, <1>6, <1>7, <1>8, MoveKeeps

(* The approval is the only step that lets an upload wait, when none does. *)
LEMMA ApproveUploads ==
  ASSUME CoreInv, NEW d \in Docs, NEW D, NEW u, DocsCalm, tally' = tally,
         c.state = "AUDITING_DOCUMENT", ~docs[d].filed, ~docs'[d].filed, docs'[d].approved, NEW e, e.doc = d,
         EventOK(e), Uploads(Patched(c, Vetted), e, u), u \in Decisions(c, D, e, Vetted),
         c' = Combined(c, e, Vetted, u),
         rows' = Moved(c, rows, e, Vetted, u).rows, RowsOK(rows'),
         QueueOK(inbox'), session' \in BOOLEAN, SessionIsConsented'
  PROVE  Keeps
<1> DEFINE z == Patched(c, Vetted)
           y == Patched(z, u.patch)
<1>0. c \in CaseSet /\ RowsOK(rows) /\ PatchOK(Vetted)
  BY MarkPatches DEF CoreInv, TypeInv, Vetted
<1>1. z \in CaseSet /\ ~c.closed /\ Typed(u)
  BY <1>0, MovedFacts
<1>2. u.patch = [approved |-> TRUE, reviewed |-> TRUE] /\ u.to = "KMALEON_FILING"
      /\ u.act = Act("UPLOAD", "NONE") /\ z.doc = d
  BY DEF Uploads, Decide
<1>3. y.doc = d /\ y.approved = TRUE /\ y.reviewed = TRUE
  BY <1>1, <1>2 DEF Patched, CaseSet
<1>4. /\ c' \in CaseSet /\ c'.state = "KMALEON_FILING" /\ ~c'.closed
      /\ c'.doc = d /\ c'.approved = TRUE /\ c'.reviewed = TRUE
  BY <1>0, <1>1, <1>2, <1>3, CombinedFields
<1> HIDE DEF z, y
<1>5. NoFiling
  BY NotFilingNow
<1>6. \A r \in rows' : IsUpload(r) => r = DecidedRow(u.act, d)
  <2>1. /\ rows' \subseteq Outdated(rows) \cup rows \cup Queued(u, c', c, e)
    BY DEF Moved, MovedTo, Written
  <2>2. \A r \in Outdated(rows) : ~IsUpload(r)
    BY <1>0, <1>5 DEF Outdated, RowsOK, RowSet, IsUpload, NoFiling
  <2>3. \A r \in Queued(u, c', c, e) : IsUpload(r) => r = DecidedRow(u.act, d)
    BY <1>4 DEF Queued, HandoffRow, Row, IsUpload
  <2> QED BY <1>5, <2>1, <2>2, <2>3 DEF NoFiling
<1>7. DecidedRow(u.act, d).doc = d /\ DecidedRow(u.act, d).status = "PENDING"
  BY <1>2 DEF DecidedRow, Row, NamesDocument, Act
<1>8. tally.uploads[d] = 0
  BY <1>5 DEF CoreInv, UploadsAccounted, NoFiling
<1>9. UploadsAreFilings'
  <2>1. ASSUME NEW r \in rows', IsUpload(r)
        PROVE  /\ (c'.state = "KMALEON_FILING" /\ r.doc = c'.doc) \/ Held'
               /\ r.status \in {"PENDING", "FAILED", "UNCERTAIN"}
               /\ tally'.uploads[r.doc] = IF r.status = "UNCERTAIN" THEN 1 ELSE 0
               /\ docs'[r.doc].approved /\ ~docs'[r.doc].filed
    BY <1>4, <1>6, <1>7, <1>8, <2>1
  <2>2. \A q, r \in rows' : IsUpload(q) /\ IsUpload(r) => q = r
    BY <1>6
  <2> QED BY <2>1, <2>2 DEF UploadsAreFilings, IsUpload
<1>10. UploadsAccounted'
  <2>1. \A o \in Docs : tally.uploads[o] = 0 \/ (tally.uploads[o] = 1 /\ docs[o].filed)
    BY <1>5 DEF CoreInv, UploadsAccounted, NoFiling
  <2> QED BY <2>1 DEF UploadsAccounted, DocsCalm
<1>11. StagesNameDocument' /\ StageIsBacked' /\ StageStep
  BY <1>4 DEF StagesNameDocument, StageIsBacked, Selected, StageStep
<1>12. TypeInv' /\ ApprovalsStand' /\ ClosedIsQuiet' /\ ClosedStep
  <2>1. TypeInv'
    BY <1>4, StillTalking DEF TypeInv, DocsCalm, RowsOK, QueueOK, TallyCalm
  <2> QED BY <1>1, <1>4, <2>1 DEF DocsCalm, ClosedIsQuiet, ClosedStep
<1> QED BY <1>9, <1>10, <1>11, <1>12 DEF Keeps, CoreInv

LEMMA ApproveKeeps ==
  ASSUME CoreInv, NEW d \in Docs, Approve(d)
  PROVE  Keeps
<1> DEFINE type == IF docs[d].report.status = "VALID" THEN "FINAL" ELSE "PROVISIONAL"
           new == [docs[d] EXCEPT !.approved = TRUE, !.type = type]
           x == Patched(c, Vetted)
           e == Event("OPERATOR_APPROVED_DOCUMENT", d, "plain")
<1>1. /\ c.doc = d /\ c.state = "AUDITING_DOCUMENT" /\ ~docs[d].filed /\ Audited(d) /\ tally' = tally
      /\ docs' = [docs EXCEPT ![d].approved = TRUE, ![d].type = type]
  BY DEF Approve, Eligible
<1>2. \/ Rewrite(x) /\ c.closed
      \/ Closed(x)
      \/ Move(e, Vetted, docs', rows, inbox)
  BY DEF Approve
<1>3. /\ docs' = [docs EXCEPT ![d] = new] /\ new \in DocumentSet /\ ~new.filed
      /\ new.job = "reported" /\ new.report = docs[d].report /\ new.type = type /\ new.approved
  <2>1. docs[d] \in DocumentSet /\ docs \in [Docs -> DocumentSet]
    BY DEF CoreInv, TypeInv
  <2> QED BY <1>1, <2>1 DEF DocumentSet, Audited
<1>4. docs'[d] = new
  BY <1>3 DEF CoreInv, TypeInv
<1>5. NoFiling /\ c.state \notin Stages
  BY <1>1, NotFilingNow DEF Stages
<1> HIDE DEF new
<1>6. DocsCalm /\ TallyCalm
  BY <1>1, <1>3, <1>5, DocTouched, StillTalking DEF NoFiling, Audited
<1>7. c \in CaseSet /\ RowsOK(rows) /\ PatchOK(Vetted) /\ DOMAIN Vetted = {"approved", "reviewed"}
  BY MarkPatches DEF CoreInv, TypeInv, Vetted
<1>8. /\ x \in CaseSet /\ x.state = c.state /\ x.prev = c.prev /\ x.consent = c.consent
      /\ x.closed = c.closed
  <2>1. x \in CaseSet
    BY <1>7, PatchKeepsCase
  <2> QED BY <1>7, <2>1 DEF Patched, CaseSet
<1>9. CASE Rewrite(x) /\ c.closed
  <2>1. c' = x
    BY <1>9 DEF Rewrite, Commit
  <2>2. QuietCase /\ (c.closed <=> c'.closed)
    BY <1>5, <1>8, <2>1 DEF QuietCase
  <2> HIDE DEF x
  <2> QED BY <1>1, <1>6, <1>9, <2>2, RewriteKeeps
<1>10. CASE Closed(x)
  <2> HIDE DEF x
  <2>1. /\ c' = [x EXCEPT !.closed = TRUE, !.paused = TRUE]
        /\ rows' = Outdated({r \in rows : r.status = "UNCERTAIN"})
        /\ inbox' = Aged(<<>>) /\ session' = FALSE
    BY <1>10 DEF Closed, Commit
  <2>2. QuietCase /\ (c.closed => c'.closed)
    BY <1>5, <1>8, <2>1 DEF QuietCase, CaseSet
  <2>3. QueueOK(inbox')
    <3>1. QueueOK(<<>>)
      BY CaseAssumption DEF QueueOK
    <3> QED BY <2>1, <3>1, QueueAged
  <2>4. ClosedIsQuiet'
    BY <2>1, CloseRows DEF ClosedIsQuiet
  <2> QED BY <1>6, <2>1, <2>2, <2>3, <2>4, CloseRows, QuietKeeps
<1>11. CASE Move(e, Vetted, docs', rows, inbox)
  <2>1. EventOK(e) /\ e.type = "OPERATOR_APPROVED_DOCUMENT" /\ e.doc = d
    BY DEF Event, EventOK
  <2> HIDE DEF e
  <2>2. QueueOK(inbox)
    BY DEF CoreInv, TypeInv
  <2>3. PICK u \in Decisions(c, docs', e, Vetted) :
           /\ Classified(x, Paper(c, docs'), e, u)
           /\ c' = Combined(c, e, Vetted, u)
           /\ rows' = Moved(c, rows, e, Vetted, u).rows /\ RowsOK(rows')
           /\ QueueOK(inbox') /\ session' \in BOOLEAN /\ SessionIsConsented'
    BY <1>7, <1>11, <2>1, <2>2, MoveOutcome
  <2>4. CASE Uploads(x, e, u)
    BY <1>1, <1>3, <1>4, <1>6, <2>1, <2>3, <2>4, ApproveUploads
  <2>5. CASE ~Uploads(x, e, u)
    <3>1. Leaves(x, e, u)
      BY <1>1, <1>8, <2>3, <2>5 DEF Classified, Stays, Drafts, Verified, Notified, Completes, Stages
    <3>2. u.act.kind \notin {"UPLOAD", "NOTIFY"}
      BY <3>1 DEF Leaves, Aside, NamesDocument
    <3>3. UploadsFollow(rows, rows')
      BY <2>3, <3>2, <1>7, MovedUploads, UploadStatus, FollowRefl DEF RowsOK
    <3>4. Careful(e, Vetted) /\ Delivering(e, docs')
      BY <1>5, <1>7, <2>1 DEF Careful, Delivering
    <3> QED BY <1>6, <2>3, <3>2, <3>3, <3>4, OutcomeKeeps
  <2> QED BY <2>4, <2>5
<1> QED BY <1>2, <1>9, <1>10, <1>11

(* ----------------------- recovery and assistance ----------------------- *)
(* The operator gives a case back to the bot.                              *)
LEMMA RecoverKeeps ==
  ASSUME CoreInv, Recover
  PROVE  Keeps
<1> DEFINE e == Event("OPERATOR_RESUME", NoDoc, c.prev)
           given == [paused |-> FALSE]
<1>1. PICK d \in Decisions(c, docs, e, given) :
        d.to # "ESCALATED_HUMAN" /\ Commit(Resumed(Moved(c, rows, e, given, d)), inbox)
  BY DEF Recover
<1>2. c \in CaseSet /\ RowsOK(rows) /\ QueueOK(inbox) /\ session \in BOOLEAN
      /\ UNCHANGED <<docs, tally>> /\ c.state = "ESCALATED_HUMAN"
  BY DEF CoreInv, TypeInv, Recover
<1>3. /\ e.type = "OPERATOR_RESUME" /\ e.says = c.prev /\ EventOK(e) /\ PatchOK(given)
      /\ DOMAIN given \cap {"doc", "approved", "reviewed", "provisional"} = {}
  <2>1. c.prev \in States
    BY <1>2 DEF Recover, CaseSet
  <2> QED BY <2>1, SMTT(30) DEF Event, EventOK, PatchOK
<1> DEFINE m == Moved(c, rows, e, given, d)
<1> HIDE DEF e, given
<1>4. /\ m.c = Combined(c, e, given, d) /\ m.bumped \in BOOLEAN /\ (~m.bumped => m.c = c)
      /\ RowsOK(m.rows) /\ Classified(Patched(c, given), Paper(c, docs), e, d)
      /\ m = [c |-> m.c, bumped |-> m.bumped, rows |-> m.rows]
  <2>1. m = [c |-> m.c, bumped |-> m.bumped, rows |-> m.rows]
    BY DEF Moved, MovedTo, Written
  <2> QED BY <1>2, <1>3, <2>1, MovedFacts
<1>5. d.act.kind \notin {"UPLOAD", "NOTIFY"}
  BY <1>3, <1>4, NotFiling
<1>6. UploadsFollow(rows, m.rows)
  BY <1>2, <1>5, MovedUploads, UploadStatus, FollowRefl DEF RowsOK
<1> HIDE DEF m
<1>7. /\ c' = m.c /\ rows' = {r \in m.rows : r.status # "PENDING"}
      /\ inbox' = (IF m.bumped THEN Aged(inbox) ELSE inbox) /\ session' = (session /\ ~m.bumped)
  <2>1. Commit(Resumed(m), inbox)
    BY <1>1 DEF m
  <2>2. Resumed(m).c = m.c /\ Resumed(m).bumped = m.bumped
        /\ Resumed(m).rows = {r \in m.rows : r.status # "PENDING"}
    BY <1>4 DEF Resumed
  <2> QED BY <2>1, <2>2 DEF Commit
<1>8. RowsOK(rows') /\ UploadsFollow(rows, rows')
  <2>1. UploadsFollow(m.rows, rows')
    BY <1>7 DEF UploadsFollow, Becomes
  <2>2. rows' \subseteq m.rows
    BY <1>7
  <2> QED BY <1>4, <1>6, <2>1, <2>2, RowsKept, FollowTrans
<1>9. QueueOK(inbox') /\ session' \in BOOLEAN /\ SessionIsConsented'
  BY <1>2, <1>4, <1>7, QueueAged DEF CoreInv, SessionIsConsented
<1>10. Careful(e, given) /\ Delivering(e, docs) /\ DocsCalm /\ TallyCalm
  BY <1>2, <1>3, CalmUnchanged, StillTalking DEF Careful, Delivering
<1>11. c' = Combined(c, e, given, d)
  BY <1>4, <1>7
<1> QED BY <1>5, <1>8, <1>9, <1>10, <1>11, OutcomeKeeps

(* The assisted session: it opens and ends with a move of the version.     *)
LEMMA ConcludeOutcome ==
  ASSUME CoreInv, NEW e, EventOK(e), NEW given, PatchOK(given), NEW open \in BOOLEAN,
         NEW d \in Decisions(c, docs, e, given), Conclude(Moved(c, rows, e, given, d), open),
         e.type \notin {"OPERATOR_APPROVED_DOCUMENT", "KMALEON_UPLOAD_VERIFIED"}
  PROVE  /\ c' = Combined(c, e, given, d) /\ RowsOK(rows') /\ UploadsFollow(rows, rows')
         /\ QueueOK(inbox') /\ session' = open /\ d.act.kind \notin {"UPLOAD", "NOTIFY"}
         /\ Classified(Patched(c, given), Paper(c, docs), e, d)
<1> DEFINE m == Moved(c, rows, e, given, d)
<1>1. c \in CaseSet /\ RowsOK(rows) /\ QueueOK(inbox)
  BY DEF CoreInv, TypeInv
<1>2. /\ m.c = Combined(c, e, given, d) /\ m.bumped \in BOOLEAN
      /\ RowsOK(m.rows) /\ Classified(Patched(c, given), Paper(c, docs), e, d)
  BY <1>1, MovedFacts
<1>3. d.act.kind \notin {"UPLOAD", "NOTIFY"}
  BY <1>2, NotFiling
<1>4. UploadsFollow(rows, m.rows)
  BY <1>1, <1>3, MovedUploads, UploadStatus, FollowRefl DEF RowsOK
<1>5. /\ c' = m.c /\ rows' = m.rows /\ session' = open
      /\ inbox' = IF m.bumped THEN Aged(inbox) ELSE inbox
  BY DEF Conclude
<1> HIDE DEF m
<1>6. QueueOK(inbox')
  BY <1>1, <1>5, QueueAged
<1> QED BY <1>2, <1>3, <1>4, <1>5, <1>6

(* With consent, the inspection of the certificate never takes the case    *)
(* aside.                                                                  *)
LEMMA InspectDecision ==
  ASSUME NEW x \in CaseSet, x.state = "MOBILE_ASSIST_PROCESSING", x.consent,
         NEW D, NEW e, NEW d \in Decisions(x, D, e, NoPatch)
  PROVE  /\ e.type = "CLIENT_CERT_FILE_RECEIVED" => d = Sede("INSPECT", NoPatch)
         /\ e.type = "CERT_INSPECTION_COMPLETED" /\ e.says = "usable" => d = Sede("DRAFT", NoPatch)
<1> DEFINE z == Patched(x, NoPatch)
<1>1. z.state = x.state /\ z.consent = x.consent
  BY DEF Patched, NoPatch, CaseSet
<1>2. d = Transition(z, Paper(x, D), e)
  BY DEF Decisions, Verdict
<1> HIDE DEF z
<1>3. ASSUME e.type \in {"CLIENT_CERT_FILE_RECEIVED", "CERT_INSPECTION_COMPLETED"}
      PROVE  d = OrElse(MobileAssistProcessing(z, Paper(x, D), e), Global(z, e))
  BY <1>1, <1>2, <1>3 DEF Transition, HelpEvents, Handler
<1>4. e.type = "CLIENT_CERT_FILE_RECEIVED" =>
        MobileAssistProcessing(z, Paper(x, D), e) = Sede("INSPECT", NoPatch)
  BY <1>1 DEF MobileAssistProcessing
<1>5. e.type = "CERT_INSPECTION_COMPLETED" /\ e.says = "usable" =>
        MobileAssistProcessing(z, Paper(x, D), e) = Sede("DRAFT", NoPatch)
  BY <1>1 DEF MobileAssistProcessing
<1>6. \A p, g : OrElse(Sede(p, NoPatch), g) = Sede(p, NoPatch)
  BY DEF OrElse, Sede, Decide, Unanswered
<1> QED BY <1>3, <1>4, <1>5, <1>6

LEMMA CertificateReceivedKeeps ==
  ASSUME CoreInv, CertificateReceived
  PROVE  Keeps
<1> DEFINE e == Event("CLIENT_CERT_FILE_RECEIVED", NoDoc, "plain")
<1>1. PICK d \in Decisions(c, docs, e, NoPatch) : Conclude(Moved(c, rows, e, NoPatch, d), TRUE)
  BY DEF CertificateReceived
<1>2. /\ c.state = "MOBILE_ASSIST_PROCESSING" /\ c.consent /\ UNCHANGED <<docs, tally>>
      /\ c \in CaseSet
  BY DEF CertificateReceived, CoreInv, TypeInv
<1>3. e.type = "CLIENT_CERT_FILE_RECEIVED" /\ e.type \in OrdinaryTypes
  BY DEF Event, OrdinaryTypes, ClientEvents
<1> HIDE DEF e
<1>4. Careful(e, NoPatch) /\ Delivering(e, docs) /\ PatchOK(NoPatch) /\ EventOK(e)
  BY <1>3, Ordinary, NothingGiven DEF Delivering, Careful
<1>5. /\ c' = Combined(c, e, NoPatch, d) /\ RowsOK(rows') /\ UploadsFollow(rows, rows')
      /\ QueueOK(inbox') /\ session' = TRUE /\ d.act.kind \notin {"UPLOAD", "NOTIFY"}
  BY <1>1, <1>3, <1>4, ConcludeOutcome
<1>6. SessionIsConsented'
  <2>1. d = Sede("INSPECT", NoPatch)
    BY <1>2, <1>3, InspectDecision
  <2>2. d.to = "MOBILE_ASSIST_PROCESSING" /\ d.patch = NoPatch /\ Typed(d)
    <3>1. Aside(Sede("INSPECT", NoPatch))
      BY AsideConstructors, SmallPatches DEF PlainWhats
    <3> QED BY <2>1, <3>1 DEF Sede, Decide, Aside
  <2>3. c'.state = d.to /\ c'.consent = Patched(Patched(c, NoPatch), d.patch).consent
    BY <1>2, <1>4, <1>5, <2>2, CombinedFields
  <2>4. Patched(Patched(c, NoPatch), NoPatch).consent = c.consent
    BY <1>2 DEF Patched, NoPatch, CaseSet
  <2> QED BY <1>2, <2>2, <2>3, <2>4 DEF SessionIsConsented
<1>7. DocsCalm /\ TallyCalm
  BY <1>2, CalmUnchanged, StillTalking
<1> QED BY <1>4, <1>5, <1>6, <1>7, OutcomeKeeps

LEMMA SessionEnds ==
  ASSUME CoreInv, SessionLost \/ \E given \in {NoPatch, ConsentWithdrawn} : SessionFails(given)
  PROVE  Keeps
<1>1. CASE SessionLost
  BY <1>1, CaseQuiet, CalmUnchanged, StillTalking, FollowRefl, QuietKeeps
     DEF SessionLost, CoreInv, TypeInv, ClosedIsQuiet
<1>2. ASSUME NEW given \in {NoPatch, ConsentWithdrawn}, SessionFails(given)
      PROVE  Keeps
  <2> DEFINE e == Event("SEDE_AUTOMATION_FAILED", NoDoc, "plain")
  <2>1. PICK d \in Decisions(c, docs, e, given) : Conclude(Moved(c, rows, e, given, d), FALSE)
    BY <1>2 DEF SessionFails
  <2>2. UNCHANGED <<docs, tally>>
    BY <1>2 DEF SessionFails
  <2>3. e.type = "SEDE_AUTOMATION_FAILED" /\ e.type \in OrdinaryTypes
    BY DEF Event, OrdinaryTypes
  <2>4. PatchOK(given) /\ DOMAIN given \cap {"doc", "approved", "reviewed", "provisional"} = {}
    BY SmallPatches DEF NoPatch, ConsentWithdrawn
  <2> HIDE DEF e
  <2>5. Careful(e, given) /\ Delivering(e, docs) /\ EventOK(e)
    BY <2>3, <2>4, Ordinary DEF Delivering, Careful
  <2>6. /\ c' = Combined(c, e, given, d) /\ RowsOK(rows') /\ UploadsFollow(rows, rows')
        /\ QueueOK(inbox') /\ session' = FALSE /\ d.act.kind \notin {"UPLOAD", "NOTIFY"}
    BY <2>1, <2>3, <2>4, <2>5, ConcludeOutcome
  <2>7. SessionIsConsented' /\ DocsCalm /\ TallyCalm
    BY <2>2, <2>6, CalmUnchanged, StillTalking DEF SessionIsConsented
  <2> QED BY <2>5, <2>6, <2>7, OutcomeKeeps
<1> QED BY <1>1, <1>2

(* Two decisions in one transaction.                                       *)
LEMMA DraftReadyKeeps ==
  ASSUME CoreInv, NEW doc \in Docs, DraftReady(doc)
  PROVE  Keeps
<1> DEFINE inspected == Event("CERT_INSPECTION_COMPLETED", NoDoc, "usable")
           ready == Event("SEDE_DRAFT_READY", doc, "plain")
           given == [doc |-> doc, approved |-> FALSE, reviewed |-> FALSE]
           new == [docs[doc] EXCEPT !.job = "draft", !.type = "BORRADOR_SEDE"]
<1>1. PICK d \in Decisions(c, docs, inspected, NoPatch) :
        \E m \in {Moved(c, rows, inspected, NoPatch, d)} :
          \E f \in Decisions(m.c, docs', ready, given) :
             Conclude(Moved(m.c, m.rows, ready, given, f), FALSE)
  BY DEF DraftReady
<1> DEFINE m == Moved(c, rows, inspected, NoPatch, d)
<1>2. PICK f \in Decisions(m.c, docs', ready, given) :
        Conclude(Moved(m.c, m.rows, ready, given, f), FALSE)
  BY <1>1
<1> DEFINE n == Moved(m.c, m.rows, ready, given, f)
<1>3. /\ session /\ docs[doc].job = "none" /\ tally' = tally
      /\ docs' = [docs EXCEPT ![doc] = new] /\ new \in DocumentSet
      /\ new.approved = docs[doc].approved /\ new.filed = docs[doc].filed
  BY ZenonT(60) DEF DraftReady, CoreInv, TypeInv, DocumentSet
<1>4. /\ c.state = "MOBILE_ASSIST_PROCESSING" /\ c.consent /\ c \in CaseSet /\ RowsOK(rows)
      /\ QueueOK(inbox)
  BY <1>3 DEF CoreInv, TypeInv, SessionIsConsented
<1>5. NoFiling
  BY <1>4, NotFilingNow
<1>6. /\ inspected.type = "CERT_INSPECTION_COMPLETED" /\ inspected.says = "usable" /\ EventOK(inspected)
      /\ ready.type = "SEDE_DRAFT_READY" /\ EventOK(ready)
      /\ PatchOK(NoPatch) /\ PatchOK(given)
  BY SmallPatches, SMTT(30) DEF Event, EventOK, PatchOK
<1>7. ~docs[doc].approved /\ ~docs[doc].filed
  BY <1>3 DEF CoreInv, ApprovalsStand, Audited
<1> HIDE DEF inspected, ready, given, new
<1>8. DocsCalm
  BY <1>3, <1>4, <1>5, <1>7, DocTouched DEF NoFiling, Stages
<1>9. d = Sede("DRAFT", NoPatch)
  BY <1>4, <1>6, InspectDecision
<1>10. /\ m.c = Combined(c, inspected, NoPatch, d) /\ RowsOK(m.rows) /\ Typed(d) /\ ~c.closed
  BY <1>4, <1>6, MovedFacts
<1>11. d.to = "MOBILE_ASSIST_PROCESSING" /\ d.act.kind = "SEDE"
  BY <1>9 DEF Sede, Decide, Act
<1>12. m.c \in CaseSet /\ m.c.state = "MOBILE_ASSIST_PROCESSING" /\ ~m.c.closed
  BY <1>4, <1>6, <1>10, <1>11, CombinedFields
<1>13. UploadsFollow(rows, m.rows)
  BY <1>4, <1>11, MovedUploads, UploadStatus, FollowRefl DEF RowsOK
<1> HIDE DEF m
<1>14. /\ n.c = Combined(m.c, ready, given, f) /\ RowsOK(n.rows) /\ Typed(f) /\ n.bumped \in BOOLEAN
       /\ Patched(m.c, given).state = m.c.state
       /\ Classified(Patched(m.c, given), Paper(m.c, docs'), ready, f)
  BY <1>6, <1>10, <1>12, MovedFacts
<1>15. f.act.kind # "UPLOAD" /\ f.to \notin Stages
  <2>1. f.act.kind # "UPLOAD"
    BY <1>6, <1>14, NotFiling
  <2>2. f.to \notin Stages
    BY <1>6, <1>12, <1>14 DEF Classified, Leaves, Aside, Stays, Drafts, Uploads, Verified,
       Notified, Completes, Stages, Send, Decide
  <2> QED BY <2>1, <2>2
<1>16. n.c \in CaseSet /\ n.c.state \notin Stages /\ ~n.c.closed
  BY <1>6, <1>12, <1>14, <1>15, CombinedFields
<1>17. UploadsFollow(m.rows, n.rows)
  <2>1. \A r \in m.rows : IsUpload(r) => r.status \in {"PENDING", "FAILED", "UNCERTAIN"}
    BY <1>13, UploadStatus
  <2> QED BY <1>10, <1>15, <2>1, MovedUploads DEF RowsOK
<1> HIDE DEF n
<1>18. /\ c' = n.c /\ rows' = n.rows /\ session' = FALSE
       /\ inbox' = IF n.bumped THEN Aged(inbox) ELSE inbox
  BY <1>2 DEF Conclude, n
<1>19. QueueOK(inbox') /\ RowsOK(rows') /\ UploadsFollow(rows, rows') /\ TallyCalm
  BY <1>3, <1>4, <1>13, <1>14, <1>17, <1>18, QueueAged, FollowTrans, StillTalking
<1>20. UploadsAreFilings' /\ UploadsAccounted'
  BY <1>5, <1>8, <1>19, UploadsKept DEF NoFiling, TallyCalm
<1>21. StagesNameDocument' /\ StageIsBacked' /\ StageStep
  <2>1. c'.state \notin Stages
    BY <1>16, <1>18
  <2> QED BY <2>1 DEF StagesNameDocument, StageIsBacked, StageStep, Stages
<1>22. TypeInv' /\ ApprovalsStand' /\ ClosedIsQuiet' /\ ClosedStep /\ SessionIsConsented'
  <2>1. TypeInv'
    BY <1>8, <1>16, <1>18, <1>19 DEF TypeInv, DocsCalm, RowsOK, QueueOK, TallyCalm
  <2> QED BY <1>8, <1>10, <1>16, <1>18, <2>1 DEF DocsCalm, ClosedIsQuiet, ClosedStep, SessionIsConsented
<1> QED BY <1>20, <1>21, <1>22 DEF Keeps, CoreInv

(* -------------------- the effects and their reports -------------------- *)
(* What the carrier reports: the delivery of the completion notice         *)
(* completes the case.                                                     *)
LEMMA DeliveredKeeps ==
  ASSUME CoreInv, NEW r \in rows, Delivered(r)
  PROVE  Keeps
<1> DEFINE e == Event("CLIENT_NOTIFICATION_DELIVERED", NoDoc, "plain")
<1>1. ~IsUpload(r) /\ (c.closed => ~r.fresh) /\ docs' = docs
  BY DEF Delivered, InFlight, IsUpload, CoreInv, ClosedIsQuiet
<1>2. /\ RowsOK(Become(r, "EXECUTED")) /\ UploadsFollow(rows, Become(r, "EXECUTED"))
      /\ RowsOK(rows \ {r}) /\ UploadsFollow(rows, rows \ {r})
  BY <1>1, BecomeOK, BecomeFollows, DropFollows, RowsKept DEF Statuses, CoreInv, TypeInv
<1>3. RowsOK(Settled(r)) /\ UploadsFollow(rows, Settled(r)) /\ (c.closed => Settled(r) \subseteq rows)
  BY <1>1, <1>2 DEF Settled
<1>4. CASE Closing(r)
  <2>1. Move(e, NoPatch, docs, Settled(r), inbox) /\ tally' = [tally EXCEPT !.told = TRUE]
    BY <1>4 DEF Delivered
  <2>2. tally \in TallySet /\ QueueOK(inbox)
    BY DEF CoreInv, TypeInv
  <2>3. TallyCalm /\ tally'.told
    BY <2>1, <2>2 DEF TallyCalm, TallySet
  <2>4. e.type = "CLIENT_NOTIFICATION_DELIVERED"
    BY DEF Event
  <2> HIDE DEF e
  <2>5. Careful(e, NoPatch) /\ Delivering(e, docs)
    BY <1>1, <2>3, <2>4, NothingGiven DEF Careful, EventOK, Delivering
  <2> QED BY <1>1, <1>3, <2>1, <2>2, <2>3, <2>4, <2>5, CalmUnchanged, MoveKeeps
<1>5. CASE ~Closing(r)
  <2>1. rows' = Settled(r) /\ UNCHANGED <<c, inbox, session, tally>>
    BY <1>5 DEF Delivered
  <2> QED BY <1>1, <1>3, <2>1, StillTalking, RowStep
<1> QED BY <1>4, <1>5

(* An attempt to upload is counted.                                        *)
LEMMA TallyUploaded ==
  ASSUME CoreInv, NEW r \in rows, IsUpload(r), tally.uploads[r.doc] = 0, tally' = Attempted(r)
  PROVE  /\ tally' \in TallySet /\ tally'.told = tally.told /\ tally'.uploads[r.doc] = 1
         /\ \A d \in Docs \ {r.doc} : tally'.uploads[d] = tally.uploads[d]
<1>1. tally \in TallySet /\ r.doc \in Docs
  BY DEF CoreInv, TypeInv, RowsOK, NamesDocument, IsUpload
<1>2. tally' = [tally EXCEPT !.uploads[r.doc] = 1]
  BY DEF Attempted, IsUpload, Saturated
<1> QED BY <1>1, <1>2 DEF TallySet

(* An effect whose outcome nobody saw: an upload is now in doubt.          *)
LEMMA LoseTrackKeeps ==
  ASSUME CoreInv, NEW r \in rows, LoseTrack(r)
  PROVE  Keeps
<1>1. /\ ~c.closed /\ r.status = "PENDING" /\ rows' = Become(r, "UNCERTAIN")
      /\ tally' = Attempted(r) /\ UNCHANGED <<c, docs, inbox, session>>
  BY StartableOpen DEF LoseTrack
<1>2. RowsOK(rows')
  BY <1>1, BecomeOK DEF Statuses
<1>3. CASE ~IsUpload(r)
  <2>1. tally' = tally
    BY <1>1, <1>3 DEF Attempted, IsUpload
  <2> QED BY <1>1, <1>2, <1>3, <2>1, BecomeFollows, StillTalking, RowStep
<1>4. CASE IsUpload(r)
  <2> DEFINE q == [r EXCEPT !.status = "UNCERTAIN"]
  <2>1. q.kind = r.kind /\ q.doc = r.doc /\ q.status = "UNCERTAIN" /\ rows' = (rows \ {r}) \cup {q}
    BY <1>1 DEF CoreInv, TypeInv, RowsOK, RowSet, Become
  <2> HIDE DEF q
  <2>2. /\ (c.state = "KMALEON_FILING" /\ r.doc = c.doc) \/ Held
        /\ tally.uploads[r.doc] = 0 /\ docs[r.doc].approved /\ ~docs[r.doc].filed
        /\ \A u \in rows : IsUpload(u) => u = r
    BY <1>1, <1>4 DEF CoreInv, UploadsAreFilings
  <2>3. /\ tally' \in TallySet /\ tally'.told = tally.told /\ tally'.uploads[r.doc] = 1
        /\ \A d \in Docs \ {r.doc} : tally'.uploads[d] = tally.uploads[d]
    BY <1>1, <1>4, <2>2, TallyUploaded
  <2>4. \A u \in rows' : IsUpload(u) => u = q
    BY <2>1, <2>2
  <2>5. UploadsAreFilings'
    <3>1. (c'.state = "KMALEON_FILING" /\ q.doc = c'.doc) \/ Held'
      BY <1>1, <2>1, <2>2 DEF Held
    <3> QED BY <1>1, <2>1, <2>2, <2>3, <2>4, <3>1 DEF UploadsAreFilings, IsUpload
  <2>6. UploadsAccounted'
    <3>1. ASSUME NEW d \in Docs \ {r.doc}
          PROVE  tally.uploads[d] = 0 \/ (tally.uploads[d] = 1 /\ docs[d].filed)
      BY <2>2 DEF CoreInv, UploadsAccounted
    <3>2. IsUpload(q) /\ q \in rows' /\ q.doc = r.doc /\ q.status = "UNCERTAIN"
      BY <1>4, <2>1 DEF IsUpload
    <3> QED BY <1>1, <2>3, <3>1, <3>2 DEF UploadsAccounted, IsUpload
  <2>7. DocsCalm /\ QuietCase
    BY <1>1, CalmUnchanged, CaseQuiet
  <2>8. StagesNameDocument' /\ StageIsBacked' /\ StageStep
    BY <1>1, <2>3, <2>7, StageKept DEF StageStep
  <2>9. TypeInv' /\ ApprovalsStand' /\ ClosedIsQuiet' /\ ClosedStep /\ SessionIsConsented'
    <3>1. TypeInv'
      BY <1>1, <1>2, <2>3, <2>7 DEF CoreInv, TypeInv, RowsOK, QueueOK, QuietCase
    <3> QED BY <1>1, <2>7, <3>1 DEF CoreInv, DocsCalm, ClosedIsQuiet, ClosedStep, SessionIsConsented
  <2> QED BY <2>5, <2>6, <2>8, <2>9 DEF Keeps, CoreInv
<1> QED BY <1>3, <1>4

(* A verified effect that is no upload.                                    *)
LEMMA OtherSettled ==
  ASSUME CoreInv, NEW r \in rows, ~IsUpload(r), r.kind # "SEND", Settle(r), tally' = tally
  PROVE  Keeps
<1>1. /\ r.kind \in {"NOTIFY", "CHECK", "ORDER"} /\ (r.kind = "NOTIFY" => r.doc \in Docs)
      /\ RowsOK(rows \ {r}) /\ UploadsFollow(rows, rows \ {r}) /\ QueueOK(inbox)
  BY DropFollows, RowsKept DEF CoreInv, TypeInv, RowsOK, RowSet, Effects, IsUpload, NamesDocument
<1>2. DocsCalm
  <2>1. CASE r.kind = "NOTIFY"
    <3> DEFINE new == [docs[r.doc] EXCEPT !.noticed = TRUE]
    <3>1. docs' = [docs EXCEPT ![r.doc] = new] /\ docs \in [Docs -> DocumentSet] /\ r.doc \in Docs
      BY <1>1, <2>1 DEF Settle, Recorded, CoreInv, TypeInv
    <3>2. /\ new \in DocumentSet /\ new.filed = docs[r.doc].filed /\ new.approved = docs[r.doc].approved
          /\ new.job = docs[r.doc].job /\ new.report = docs[r.doc].report /\ new.type = docs[r.doc].type
          /\ new.noticed
      BY <3>1, ZenonT(60) DEF DocumentSet
    <3> HIDE DEF new
    <3>3. /\ docs' \in [Docs -> DocumentSet]
          /\ \A d \in Docs :
               /\ docs'[d].filed = docs[d].filed /\ docs'[d].approved = docs[d].approved
               /\ docs'[d].job = docs[d].job /\ docs'[d].report = docs[d].report
               /\ docs'[d].type = docs[d].type /\ (docs[d].noticed => docs'[d].noticed)
      BY <3>1, <3>2
    <3>4. ApprovalsStand'
      BY <3>3 DEF CoreInv, ApprovalsStand, Audited
    <3>5. \A q \in rows : IsUpload(q) => docs'[q.doc].approved /\ ~docs'[q.doc].filed
      BY <3>3 DEF CoreInv, UploadsAreFilings, TypeInv, RowsOK, NamesDocument, IsUpload
    <3> QED BY <3>3, <3>4, <3>5 DEF DocsCalm, CoreInv, StagesNameDocument
  <2>2. CASE r.kind # "NOTIFY"
    <3>1. r.kind \in {"CHECK", "ORDER"}
      BY <1>1, <2>2
    <3>2. Recorded(r) = docs
      BY <3>1 DEF Recorded
    <3>3. docs' = docs
      BY <3>2 DEF Settle
    <3> QED BY <3>3, CalmUnchanged
  <2> QED BY <2>1, <2>2
<1>3. CASE r.fresh /\ ~c.closed
  <2>1. PICK e \in Reported(r) : Move(e, Learned(e), docs', rows \ {r}, inbox)
    BY <1>3 DEF Settle
  <2>2. /\ e.type \in {"DAYANA_NOTIFIED", "APUDATA_PREAPPROVAL_CONFIRMED", "APUDATA_ORDER_CREATED"}
        /\ e.type = "DAYANA_NOTIFIED" => e.doc \in Docs
        /\ e.type = "APUDATA_PREAPPROVAL_CONFIRMED" => e.says \in {"open", "expired"}
    <3>1. CASE r.kind = "NOTIFY"
      <4>1. e = Event("DAYANA_NOTIFIED", r.doc, "plain")
        BY <2>1, <3>1 DEF Reported
      <4> QED BY <1>1, <3>1, <4>1 DEF Event
    <3>2. CASE r.kind = "CHECK"
      <4>1. e \in {Event("APUDATA_PREAPPROVAL_CONFIRMED", NoDoc, says) : says \in {"open", "expired"}}
        BY <2>1, <3>2 DEF Reported
      <4> QED BY <4>1 DEF Event
    <3>3. CASE r.kind = "ORDER"
      <4>1. e = Event("APUDATA_ORDER_CREATED", NoDoc, "placed")
        BY <2>1, <3>3 DEF Reported
      <4> QED BY <4>1 DEF Event
    <3> QED BY <1>1, <3>1, <3>2, <3>3
  <2>3. /\ PatchOK(Learned(e))
        /\ DOMAIN Learned(e) \cap {"doc", "approved", "reviewed", "provisional"} = {}
    <3>1. CASE e.type = "APUDATA_PREAPPROVAL_CONFIRMED"
      <4>1. Learned(e) = [gate |-> e.says]
        BY <3>1 DEF Learned
      <4>2. DOMAIN Learned(e) = {"gate"}
        BY <4>1
      <4> QED BY <2>2, <3>1, <4>1, <4>2, MarkPatches
    <3>2. CASE e.type # "APUDATA_PREAPPROVAL_CONFIRMED"
      <4>1. Learned(e) = NoPatch
        BY <2>2, <3>2 DEF Learned
      <4> QED BY <4>1, NothingGiven
    <3> QED BY <3>1, <3>2
  <2>4. Careful(e, Learned(e)) /\ Delivering(e, docs')
    BY <2>2, <2>3 DEF Careful, EventOK, Delivering
  <2> QED BY <1>1, <1>2, <2>1, <2>2, <2>4, StillTalking, MoveKeeps
<1>4. CASE ~(r.fresh /\ ~c.closed)
  <2>1. rows' = rows \ {r} /\ UNCHANGED <<c, inbox, session>>
    BY <1>4 DEF Settle
  <2>2. QuietCase /\ (c.closed => c'.closed) /\ TallyCalm
    BY <2>1, CaseQuiet, StillTalking
  <2>3. ClosedIsQuiet' /\ session' \in BOOLEAN /\ (session' => session) /\ QueueOK(inbox')
    BY <1>1, <2>1 DEF CoreInv, TypeInv, ClosedIsQuiet
  <2> QED BY <1>1, <1>2, <2>1, <2>2, <2>3, QuietKeeps
<1> QED BY <1>3, <1>4

(* The verified upload moves the case to the stage of its document, or to  *)
(* a person.                                                               *)
LEMMA UploadMoves ==
  ASSUME CoreInv, NEW r \in rows, IsUpload(r), NEW e \in Reported(r),
         r.doc \in Docs,
         (c.state = "KMALEON_FILING" /\ r.doc = c.doc) \/ Held,
         docs[r.doc].approved, docs'[r.doc].filed, docs'[r.doc].type = docs[r.doc].type,
         Move(e, Learned(e), docs', rows \ {r}, inbox),
         NoUpload(rows \ {r})
  PROVE  /\ c' \in CaseSet /\ RowsOK(rows') /\ NoUpload(rows') /\ QueueOK(inbox')
         /\ session' \in BOOLEAN /\ SessionIsConsented' /\ ~c'.closed /\ ~c.closed
         /\ StagesNameDocument' /\ StageIsBacked' /\ StageStep
<1> DEFINE given == [provisional |-> e.says = "provisional"]
           z == Patched(c, given)
<1>1. /\ e.type = "KMALEON_UPLOAD_VERIFIED" /\ e.doc = r.doc
      /\ e.says = IF docs[r.doc].type = "PROVISIONAL" THEN "provisional" ELSE "final"
      /\ Learned(e) = given
  BY DEF Reported, IsUpload, Event, Learned
<1>2. EventOK(e) /\ PatchOK(given) /\ DOMAIN given = {"provisional"}
  BY <1>1, MarkPatches DEF EventOK
<1>3. c \in CaseSet /\ RowsOK(rows \ {r}) /\ QueueOK(inbox)
  BY RowsKept DEF CoreInv, TypeInv
<1>4. PICK d \in Decisions(c, docs', e, given) :
           /\ Classified(z, Paper(c, docs'), e, d)
           /\ c' = Combined(c, e, given, d)
           /\ rows' = Moved(c, rows \ {r}, e, given, d).rows /\ RowsOK(rows')
           /\ QueueOK(inbox') /\ session' \in BOOLEAN /\ SessionIsConsented'
  BY <1>1, <1>2, <1>3, MoveOutcome
<1>5. c.state # "ESCALATED_HUMAN"
  BY <1>1, <1>2, <1>3, <1>4, PersonHolds
<1>6. c.state = "KMALEON_FILING" /\ r.doc = c.doc /\ c.approved
  BY <1>5 DEF Held, CoreInv, StageIsBacked
<1>7. z \in CaseSet /\ z.state = c.state /\ ~c.closed /\ Typed(d)
  BY <1>2, <1>3, <1>4, MovedFacts
<1>8. z.doc = c.doc /\ z.approved = c.approved
  BY <1>2, <1>3 DEF Patched, CaseSet
<1>9. Leaves(z, e, d) \/ Verified(z, e, d)
  BY <1>1, <1>4, <1>6, <1>7 DEF Classified, Stays, Drafts, Uploads, Notified, Completes
<1>10. d.act.kind # "UPLOAD"
  BY <1>9 DEF Leaves, Aside, NamesDocument, Verified, Decide, Act
<1>11. NoUpload(rows')
  <2>1. UploadsFollow(rows \ {r}, rows')
    <3>1. \A q \in rows \ {r} : IsUpload(q) => q.status \in {"PENDING", "FAILED", "UNCERTAIN"}
      BY DEF NoUpload
    <3> QED BY <1>3, <1>4, <1>10, <3>1, MovedUploads DEF RowsOK
  <2> QED BY <2>1 DEF UploadsFollow, NoUpload
<1> DEFINE y == Patched(z, d.patch)
<1>12. /\ y \in CaseSet /\ c' \in CaseSet /\ c'.state = d.to /\ c'.closed = c.closed
       /\ c'.doc = y.doc /\ c'.approved = y.approved /\ c'.provisional = y.provisional
  BY <1>2, <1>3, <1>4, <1>7, CombinedFields
<1>13. StagesNameDocument' /\ StageIsBacked' /\ StageStep
  <2>1. CASE Leaves(z, e, d)
    <3>1. c'.state = "ESCALATED_HUMAN"
      BY <1>6, <1>7, <1>12, <2>1 DEF Leaves
    <3> QED BY <3>1 DEF StagesNameDocument, StageIsBacked, StageStep, Stages
  <2>2. CASE Verified(z, e, d)
    <3>1. /\ d.to = IF e.says = "provisional" THEN "PROVISIONAL_VIABILIZED" ELSE "HANDOFF_DAYANA"
          /\ d.patch = [provisional |-> e.says = "provisional"]
      BY <2>2 DEF Verified, Decide
    <3>2. y.doc = z.doc /\ y.approved = z.approved /\ y.provisional = (e.says = "provisional")
      BY <1>7, <3>1 DEF Patched, CaseSet
    <3> HIDE DEF y, z
    <3>3. c'.doc = r.doc /\ c'.approved /\ c'.provisional = (e.says = "provisional")
      BY <1>6, <1>8, <1>12, <3>2
    <3>4. docs[r.doc].type \in {"FINAL", "PROVISIONAL"}
      BY DEF CoreInv, ApprovalsStand
    <3>5. docs'[c'.doc].filed /\ docs'[c'.doc].type =
            IF e.says = "provisional" THEN "PROVISIONAL" ELSE "FINAL"
      BY <1>1, <3>3, <3>4
    <3> QED BY <1>6, <1>12, <3>1, <3>3, <3>5 DEF StagesNameDocument, StageIsBacked, StageStep, Selected
  <2> QED BY <1>9, <2>1, <2>2
<1> QED BY <1>4, <1>7, <1>11, <1>12, <1>13

(* A verified upload, whether or not it still moves the case.              *)
LEMMA UploadSettled ==
  ASSUME CoreInv, NEW r \in rows, IsUpload(r), Settle(r),
         tally' \in TallySet, tally'.told = tally.told, tally'.uploads[r.doc] = 1,
         \A d \in Docs \ {r.doc} : tally'.uploads[d] = tally.uploads[d]
  PROVE  Keeps
<1> DEFINE new == [docs[r.doc] EXCEPT !.filed = TRUE]
<1>1. /\ r.doc \in Docs /\ RowsOK(rows) /\ RowsOK(rows \ {r}) /\ QueueOK(inbox) /\ c \in CaseSet
      /\ docs \in [Docs -> DocumentSet] /\ session \in BOOLEAN
  BY RowsKept DEF CoreInv, TypeInv, RowsOK, NamesDocument, IsUpload
<1>2. /\ (c.state = "KMALEON_FILING" /\ r.doc = c.doc) \/ Held
      /\ docs[r.doc].approved /\ ~docs[r.doc].filed
      /\ \A u \in rows : IsUpload(u) => u = r
  BY DEF CoreInv, UploadsAreFilings
<1>3. docs' = [docs EXCEPT ![r.doc] = new]
  BY <1>1 DEF Settle, Recorded, IsUpload
<1>4. /\ new \in DocumentSet /\ new.filed /\ new.approved = docs[r.doc].approved
      /\ new.job = docs[r.doc].job /\ new.report = docs[r.doc].report /\ new.type = docs[r.doc].type
      /\ new.noticed = docs[r.doc].noticed
  BY <1>1, ZenonT(60) DEF DocumentSet
<1> HIDE DEF new
<1>5. /\ docs' \in [Docs -> DocumentSet] /\ docs'[r.doc].filed
      /\ \A d \in Docs :
           /\ (docs[d].filed => docs'[d].filed) /\ docs'[d].approved = docs[d].approved
           /\ docs'[d].job = docs[d].job /\ docs'[d].report = docs[d].report
           /\ docs'[d].type = docs[d].type /\ docs'[d].noticed = docs[d].noticed
           /\ d # r.doc => docs'[d].filed = docs[d].filed
  BY <1>1, <1>3, <1>4
<1>6. ApprovalsStand'
  BY <1>2, <1>5 DEF CoreInv, ApprovalsStand, Audited
<1>7. NoUpload(rows \ {r})
  BY <1>2 DEF NoUpload
<1>8. UploadsAccounted'
  <2>1. ASSUME NEW d \in Docs \ {r.doc}
        PROVE  tally.uploads[d] = 0 \/ (tally.uploads[d] = 1 /\ docs[d].filed)
    BY <1>2 DEF CoreInv, UploadsAccounted
  <2> QED BY <1>5, <2>1 DEF UploadsAccounted
<1>9. CASE r.fresh /\ ~c.closed
  <2>1. PICK e \in Reported(r) : Move(e, Learned(e), docs', rows \ {r}, inbox)
    BY <1>9 DEF Settle
  <2>2. /\ c' \in CaseSet /\ RowsOK(rows') /\ NoUpload(rows') /\ QueueOK(inbox')
        /\ session' \in BOOLEAN /\ SessionIsConsented' /\ ~c'.closed /\ ~c.closed
        /\ StagesNameDocument' /\ StageIsBacked' /\ StageStep
    BY <1>1, <1>2, <1>5, <1>7, <2>1, UploadMoves
  <2>3. UploadsAreFilings'
    BY <2>2 DEF UploadsAreFilings, NoUpload, IsUpload
  <2>4. TypeInv' /\ ClosedIsQuiet' /\ ClosedStep
    BY <1>5, <2>2 DEF TypeInv, RowsOK, QueueOK, ClosedIsQuiet, ClosedStep
  <2> QED BY <1>6, <1>8, <2>2, <2>3, <2>4 DEF Keeps, CoreInv
<1>10. CASE ~(r.fresh /\ ~c.closed)
  <2>1. rows' = rows \ {r} /\ UNCHANGED <<c, inbox, session>>
    BY <1>10 DEF Settle
  <2>2. UploadsAreFilings'
    BY <1>7, <2>1 DEF UploadsAreFilings, NoUpload, IsUpload
  <2>3. StagesNameDocument' /\ StageIsBacked' /\ StageStep
    BY <1>5, <2>1 DEF CoreInv, StagesNameDocument, StageIsBacked, Selected, StageStep, Stages
  <2>4. TypeInv' /\ ClosedIsQuiet' /\ ClosedStep /\ SessionIsConsented'
    BY <1>1, <1>5, <2>1 DEF TypeInv, CoreInv, RowsOK, QueueOK, ClosedIsQuiet, ClosedStep, SessionIsConsented
  <2> QED BY <1>6, <1>8, <2>2, <2>3, <2>4 DEF Keeps, CoreInv
<1> QED BY <1>9, <1>10

(* Performing an effect, and finding one that was in doubt.                *)
LEMMA SettlingKeeps ==
  ASSUME CoreInv, NEW r \in rows, Perform(r) \/ Reconcile(r)
  PROVE  Keeps
<1>1. r.kind # "SEND" /\ Settle(r)
  BY DEF Perform, Reconcile
<1>2. CASE ~IsUpload(r)
  <2>1. tally' = tally
    BY <1>2 DEF Perform, Reconcile, Attempted, IsUpload
  <2> QED BY <1>1, <1>2, <2>1, OtherSettled
<1>3. CASE IsUpload(r) /\ Perform(r)
  <2>1. r.status = "PENDING" /\ tally' = Attempted(r)
    BY <1>3, StartableOpen DEF Perform
  <2>2. tally.uploads[r.doc] = 0
    BY <1>3, <2>1 DEF CoreInv, UploadsAreFilings
  <2> QED BY <1>1, <1>3, <2>1, <2>2, TallyUploaded, UploadSettled
<1>4. CASE IsUpload(r) /\ Reconcile(r)
  <2>1. r.status = "UNCERTAIN" /\ tally' = tally
    BY <1>4 DEF Reconcile
  <2>2. tally.uploads[r.doc] = 1 /\ tally \in TallySet
    BY <1>4, <2>1 DEF CoreInv, UploadsAreFilings, TypeInv
  <2> QED BY <1>1, <1>4, <2>1, <2>2, UploadSettled
<1> QED BY <1>2, <1>3, <1>4

(* ---------------------------- the theorems ----------------------------- *)
(* The first state, and every step.                                        *)
LEMMA CoreInit == Init => CoreInv
<1> SUFFICES ASSUME Init PROVE CoreInv
  OBVIOUS
<1>1. c \in CaseSet
  BY DEF Init, NewCase, CaseSet, States, HelpCap
<1>2. /\ docs \in [Docs -> DocumentSet]
      /\ \A d \in Docs : ~docs[d].approved /\ ~docs[d].filed
  BY DEF Init, NewDocument, DocumentSet
<1>3. RowsOK(rows) /\ session \in BOOLEAN /\ QueueOK(inbox)
  <2>1. RowsOK({})
    BY RowsKept
  <2>2. QueueOK(<<>>)
    BY CaseAssumption DEF QueueOK
  <2> QED BY <2>1, <2>2 DEF Init
<1>4. tally \in TallySet /\ \A d \in Docs : tally.uploads[d] = 0
  BY DEF Init, TallySet
<1>5. c.state = "INITIAL_TRIAGE" /\ rows = {} /\ ~session /\ ~c.closed
  BY DEF Init, NewCase
<1> QED BY <1>1, <1>2, <1>3, <1>4, <1>5
   DEF CoreInv, TypeInv, ApprovalsStand, UploadsAreFilings, UploadsAccounted, StagesNameDocument,
       StageIsBacked, SessionIsConsented, ClosedIsQuiet, Stages

LEMMA ClientKeeps == ASSUME CoreInv, Client PROVE Keeps
BY ClientTextKeeps, InboxKeeps, HeldTextKeeps, ProcessTapKeeps DEF Client
LEMMA DocumentsKeep == ASSUME CoreInv, Documents PROVE Keeps
BY IntakeKeeps, AuditDroppedKeeps, AuditDoneKeeps, ApproveKeeps, RejectKeeps, DraftReadyKeeps
   DEF Documents
LEMMA OfficeKeeps == ASSUME CoreInv, Office PROVE Keeps
BY OfficeHandles, OfficeRewrites, RecoverKeeps, InboxKeeps, ClosePhaseOneKeeps DEF Office
LEMMA AssistedKeeps == ASSUME CoreInv, Assisted PROVE Keeps
BY OfficeHandles, OfficeRewrites, CertificateReceivedKeeps, SessionEnds DEF Assisted
LEMMA OutboxKeeps == ASSUME CoreInv, Outbox PROVE Keeps
BY RowActions, LoseTrackKeeps, SettlingKeeps, DeliveredKeeps DEF Outbox

LEMMA NextKeeps == ASSUME CaseInv, Next PROVE CaseInv' /\ StageStep /\ ClosedStep
<1>1. CoreInv
  BY CoreIs
<1>2. Keeps
  BY <1>1, ClientKeeps, DocumentsKeep, OfficeKeeps, AssistedKeeps, OutboxKeeps DEF Next
<1>3. CoreInv' <=> CaseInv'
  BY CoreIs, PTL
<1> QED BY <1>2, <1>3 DEF Keeps

LEMMA CaseInit == Init => CaseInv
BY CoreInit, CoreIs
LEMMA CaseStep == CaseInv /\ [Next]_vars => CaseInv'
<1> SUFFICES ASSUME CaseInv, [Next]_vars PROVE CaseInv'
  OBVIOUS
<1>1. CASE Next
  BY <1>1, NextKeeps
<1>2. CASE UNCHANGED vars
  BY <1>2 DEF vars, CaseInv, TypeOK, Shapes, ApprovalsStand, Audited, UploadsAreFilings, UploadsAccounted,
     StagesNameDocument, StageIsBacked, Selected, SessionIsConsented, ClosedIsQuiet, Held
<1> QED BY <1>1, <1>2

(* The inductive invariant of the case, for every set of files, reports,   *)
(* texts, buttons and panel events and every bound (workflow-service.ts,   *)
(* action-executor.ts, audit-worker.ts).                                   *)
THEOREM CaseInvHolds == Spec => []CaseInv
BY CaseInit, CaseStep, PTL DEF Spec

(* Every column of the case, its documents and its rows holds what the     *)
(* schema allows, and a row about a document names one.                    *)
THEOREM CaseTyped == Spec => []TypeOK
<1>1. CaseInv => TypeOK
  BY DEF CaseInv
<1> QED BY CaseInvHolds, <1>1, PTL

(* In every state the case can reach outside the two that refuse to hold,  *)
(* no event makes the engine throw (decision-engine.ts).                   *)
THEOREM TableHolds == Spec => []TableRespectsGates
BY CaseTyped, TypedIsSafe, PTL

(* Why the invariant says that a document is filed once, and only as       *)
(* approved.                                                               *)
LEMMA UploadedOnce == CaseInv => FiledOnce /\ FiledIsApproved
<1> SUFFICES ASSUME CaseInv, NEW d \in Docs
             PROVE  /\ tally.uploads[d] <= 1
                    /\ tally.uploads[d] > 0 =>
                         /\ docs[d].approved /\ Audited(d)
                         /\ docs[d].type = IF docs[d].report.status = "VALID" THEN "FINAL" ELSE "PROVISIONAL"
  BY DEF FiledOnce, FiledIsApproved
<1>1. \/ tally.uploads[d] = 0
      \/ tally.uploads[d] = 1 /\ docs[d].filed
      \/ \E r \in rows : IsUpload(r) /\ r.doc = d /\ r.status = "UNCERTAIN"
  BY DEF CaseInv, UploadsAccounted
<1>2. \/ tally.uploads[d] = 0
      \/ tally.uploads[d] = 1 /\ docs[d].approved
  BY <1>1 DEF CaseInv, UploadsAreFilings, ApprovalsStand
<1> QED BY <1>2 DEF CaseInv, ApprovalsStand

(* No document is sent to Kmaleon by two actions, whatever is lost,        *)
(* retried, searched for, rejected, escalated or recovered in between:     *)
(* what was attempted is in doubt or filed, and neither is approved again. *)
THEOREM FiledAtMostOnce == Spec => []FiledOnce
BY CaseInvHolds, UploadedOnce, PTL

(* What was sent to Kmaleon stays approved, audited and typed as the audit *)
(* found it: no file, rejection or draft that comes later takes it back.   *)
THEOREM FiledAsApproved == Spec => []FiledIsApproved
BY CaseInvHolds, UploadedOnce, PTL

(* A stage of the filing is only shown with its evidence, up to the        *)
(* completion with its delivered message.                                  *)
THEOREM StagesBacked == Spec => []StageIsBacked
<1>1. CaseInv => StageIsBacked
  BY DEF CaseInv
<1> QED BY CaseInvHolds, <1>1, PTL

(* An assisted session is only open in the step and under the consent the  *)
(* client gave it for.                                                     *)
THEOREM SessionsConsented == Spec => []SessionIsConsented
<1>1. CaseInv => SessionIsConsented
  BY DEF CaseInv
<1> QED BY CaseInvHolds, <1>1, PTL

(* No step enters a stage of the filing but from the one before it: not a  *)
(* resume, not a late report, not a retry.                                 *)
THEOREM StagesOrdered == Spec => StagesInOrder
<1>1. CaseInv /\ [Next]_vars =>
        [c'.state # c.state =>
           /\ c'.state = "KMALEON_FILING" => c.state = "AUDITING_DOCUMENT"
           /\ c'.state \in {"PROVISIONAL_VIABILIZED", "HANDOFF_DAYANA"} => c.state = "KMALEON_FILING"
           /\ c'.state = "COMPLETED" => c.state = "HANDOFF_DAYANA"]_vars
  BY NextKeeps DEF StageStep
<1> QED BY CaseInvHolds, <1>1, PTL DEF Spec, StagesInOrder

(* A case whose phase one is closed keeps its state, and of its rows only  *)
(* those in doubt remain.                                                  *)
THEOREM CloseIsFinal == Spec => ClosedIsFinal
<1>1. CaseInv /\ [Next]_vars =>
        [c.closed => c'.state = c.state /\ \A r \in rows' : r.status = "UNCERTAIN"]_vars
  BY NextKeeps DEF ClosedStep
<1> QED BY CaseInvHolds, <1>1, PTL DEF Spec, ClosedIsFinal
=============================================================================
