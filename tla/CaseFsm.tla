------------------------------- MODULE CaseFsm -------------------------------
(***************************************************************************)
(* The decision table of the bot: which next state, which effect and which *)
(* change of the case file an event gets in each state (transition of the  *)
(* state machine), and the gates the decision engine asserts on every      *)
(* decision.  Pure operators: the machine that applies them is in          *)
(* CaseWorkflow.                                                           *)
(*                                                                         *)
(*   x      the snapshot, the case with the caller's patch already merged  *)
(*   paper  the stored document the case pointed to before that patch:     *)
(*          [type, filed], which transition() loads by documentId          *)
(*   e      the event: [type, doc, says], says being what the payload      *)
(*          tells the table apart                                          *)
(*                                                                         *)
(* The identity of the client is verified and its Kmaleon project linked,  *)
(* as linkKmaleon creates every case.  A document id stands for the id and *)
(* its hash.  Wording, buttons, evidence notes, blocking conditions and    *)
(* severities are left out; the templates some rule tells apart keep their *)
(* names and every other one is "STEP".                                    *)
(***************************************************************************)
EXTENDS Integers

CONSTANT NoDoc

HelpCap == 3  \* no rule tells larger counts of help attempts apart

(* EVENT_ORIGIN, without the events nothing in the service raises:         *)
(* REMINDER_DUE, the failure events, KMALEON_AVISO_VERIFIED and those of   *)
(* an exported or acquired certificate, of help with a revocation, of a    *)
(* denial or a document of the partner and of an unresolved district.      *)
ClientEvents ==
  {"CLIENT_HAS_CERT", "CLIENT_HAS_CERT_PC", "CLIENT_HAS_CERT_MOBILE",
   "CLIENT_HAS_NO_CERT", "CLIENT_HAS_PC", "CLIENT_HAS_NO_PC",
   "CLIENT_EXPORT_FAILED", "CLIENT_REQUESTS_ASSISTANCE",
   "CLIENT_REQUESTS_HUMAN", "CLIENT_CANNOT_GET_CERT",
   "CLIENT_REQUESTS_URGENT_PAID", "CLIENT_REVOCATION_DONE",
   "CLIENT_CONSENT_GRANTED", "CLIENT_CONSENT_DENIED",
   "CLIENT_CERT_FILE_RECEIVED", "CLIENT_DRAFT_APPROVED",
   "CLIENT_DRAFT_REJECTED", "CLIENT_PDF_RECEIVED", "CLIENT_ACKNOWLEDGED",
   "CLIENT_SMALL_TALK", "CLIENT_OPT_OUT"}
SystemEvents ==
  {"CASE_OPENED", "CERT_INSPECTION_COMPLETED", "SEDE_DRAFT_READY",
   "SEDE_AUTOMATION_FAILED", "PDF_AUDIT_COMPLETED", "KMALEON_UPLOAD_VERIFIED",
   "DAYANA_NOTIFIED", "CLIENT_NOTIFICATION_DELIVERED",
   "APUDATA_PREAPPROVAL_CONFIRMED", "APUDATA_ORDER_CREATED"}
OperatorEvents ==
  {"OPERATOR_APPROVED_DOCUMENT", "OPERATOR_REJECTED_DOCUMENT",
   "OPERATOR_SUBMISSION_CONFIRMED", "OPERATOR_PAYMENT_CONFIRMED",
   "OPERATOR_RESUME", "OPERATOR_ESCALATE"}
Event(type, doc, says) == [type |-> type, doc |-> doc, says |-> says]

States ==
  {"INITIAL_TRIAGE", "WAITING_CERT_RESPONSE", "MOBILE_TRIAGE_PC_CHECK",
   "MOBILE_EXPORT_GUIDE_SENT", "MOBILE_ASSIST_CONSENT_REQUESTED",
   "MOBILE_ASSIST_PROCESSING", "PC_TUTORIAL_SENT", "WAITING_PDF_SUBMISSION",
   "AUDITING_DOCUMENT", "PROVISIONAL_VIABILIZED", "REVOCATION_GUIDE_SENT",
   "WAITING_REVOCATION_REISSUE", "CERT_ACQUISITION_LINKS_SENT",
   "FALLBACK_OPTIONS", "COURT_FALLBACK_GUIDE_SENT",
   "APUDATA_PENDING_PREAPPROVAL", "APUDATA_WAITING_PAYMENT",
   "APUDATA_VIDEO_IN_PROGRESS", "KMALEON_FILING", "HANDOFF_DAYANA",
   "COMPLETED", "ESCALATED_HUMAN"}
Mut_ForbiddenResumeTargets == {"COMPLETED", "ESCALATED_HUMAN"}
ForbiddenResumeTargets == {"COMPLETED", "ESCALATED_HUMAN", "KMALEON_FILING",
                           "HANDOFF_DAYANA", "PROVISIONAL_VIABILIZED"}

(* ------------------------------ decisions ----------------------------- *)
NoPatch == [f \in {} |-> TRUE]
Patched(c, p) == [f \in DOMAIN c |-> IF f \in DOMAIN p THEN p[f] ELSE c[f]]
Act(kind, what) == [kind |-> kind, what |-> what]
NoOp == Act("NO_OP", "NONE")
Decide(to, act, patch) == [to |-> to, act |-> act, patch |-> patch]
Unanswered == Decide("NONE", NoOp, NoPatch)  \* a handler returning undefined

Hold(x) == Decide(x.state, NoOp, NoPatch)
HoldWith(x, patch) == Decide(x.state, NoOp, patch)
Send(to, template, patch) == Decide(to, Act("SEND", template), patch)
EscalateWith(patch) == Decide("ESCALATED_HUMAN", Act("ESCALATE", "SILENT"), patch)
Escalate == EscalateWith(NoPatch)
EscalateTelling(patch) == Decide("ESCALATED_HUMAN", Act("ESCALATE", "NOTICE"), patch)
Sede(phase, patch) == Decide("MOBILE_ASSIST_PROCESSING", Act("SEDE", phase), patch)

(* -------------------------- shared transitions ------------------------ *)
More(n) == IF n < HelpCap THEN n + 1 ELSE HelpCap
HasCertificate == [cert |-> "yes"]
OnMobile == [cert |-> "yes", device |-> "MOBILE"]
ConsentWithdrawn == [consent |-> FALSE]

AskHasCert == Send("WAITING_CERT_RESPONSE", "STEP", NoPatch)
AskDevice == Send("WAITING_CERT_RESPONSE", "STEP", HasCertificate)
AskHasPc == Send("MOBILE_TRIAGE_PC_CHECK", "STEP", OnMobile)
ExportGuide == Send("MOBILE_EXPORT_GUIDE_SENT", "STEP", OnMobile)
PcTutorial == Send("PC_TUTORIAL_SENT", "STEP",
                   [cert |-> "yes", device |-> "PC", dHelp |-> 0, cHelp |-> 0])
AcquisitionLinks == Send("CERT_ACQUISITION_LINKS_SENT", "STEP",
                         [cert |-> "no", device |-> "NONE", dHelp |-> 0, cHelp |-> 0])
CourtFallback == Send("COURT_FALLBACK_GUIDE_SENT", "STEP", NoPatch)
Fallback(patch) == Send("FALLBACK_OPTIONS", "STEP", patch)
ConsentRequest == Send("MOBILE_ASSIST_CONSENT_REQUESTED", "ASSIST_CONSENT_REQUEST",
                       ConsentWithdrawn)
RevocationGuide(patch) == Send("REVOCATION_GUIDE_SENT", "STEP", patch)

(* Only with the partner integration (APUD_VERSION=2) may the bot ask it.  *)
ApudataPreapproval(e) ==
  IF e.says = "partner"
  THEN Decide("APUDATA_PENDING_PREAPPROVAL", Act("CHECK", "NONE"), [gate |-> "none"])
  ELSE EscalateTelling(NoPatch)

ToAudit(e) == Decide("AUDITING_DOCUMENT", NoOp,
                     [doc |-> e.doc, approved |-> FALSE, audit |-> "none"])

(* Guidance first, the copy of the certificate second, then alternatives.  *)
GuidedStates ==
  {"INITIAL_TRIAGE", "WAITING_CERT_RESPONSE", "CERT_ACQUISITION_LINKS_SENT",
   "PC_TUTORIAL_SENT", "WAITING_PDF_SUBMISSION", "MOBILE_TRIAGE_PC_CHECK",
   "MOBILE_EXPORT_GUIDE_SENT"}
HelpEvents == {"CLIENT_EXPORT_FAILED", "CLIENT_REQUESTS_ASSISTANCE", "CLIENT_HAS_NO_PC"}

OfficeTakesOver(x, e) ==
  /\ x.cert = "yes"
  /\ \/ e.says = "copyLocated"
     \/ e.type = "CLIENT_HAS_NO_PC"
     \/ e.type = "CLIENT_REQUESTS_ASSISTANCE" /\ e.says = "takeover" /\ x.cHelp > 0
HelpExhausted(x, e) ==
  /\ e.type = "CLIENT_EXPORT_FAILED"
  /\ \/ x.cert = "no" /\ More(x.dHelp) >= 3
     \/ x.cert = "yes" /\ x.cHelp >= 3
CopyHelpDue(x) == x.cert = "yes" /\ (x.cHelp > 0 \/ More(x.dHelp) >= 3)

GuidedHelp(x, e) ==
  IF OfficeTakesOver(x, e) THEN ConsentRequest
  ELSE IF HelpExhausted(x, e) THEN Fallback([dHelp |-> More(x.dHelp)])
  ELSE Send(x.state, "STEP",
            IF CopyHelpDue(x) THEN [dHelp |-> More(x.dHelp), cHelp |-> More(x.cHelp)]
            ELSE [dHelp |-> More(x.dHelp)])

(* -------------------------- per-state handlers ------------------------ *)
TriageAnswer(x, e) ==
  CASE e.type = "CLIENT_HAS_CERT" -> AskDevice
    [] e.type = "CLIENT_HAS_CERT_PC" -> PcTutorial
    [] e.type = "CLIENT_HAS_CERT_MOBILE" -> AskHasPc
    [] e.type = "CLIENT_HAS_PC" -> ExportGuide
    [] e.type \in HelpEvents -> ConsentRequest
    [] e.type = "CLIENT_HAS_NO_CERT" -> AcquisitionLinks
    [] e.type = "CLIENT_CANNOT_GET_CERT" -> CourtFallback
    [] e.type = "CLIENT_REQUESTS_URGENT_PAID" -> ApudataPreapproval(e)
    [] e.type = "CLIENT_CONSENT_DENIED" -> Fallback(ConsentWithdrawn)
    [] OTHER -> Unanswered

InitialTriage(x, e) ==
  IF e.type = "CASE_OPENED" THEN AskHasCert ELSE TriageAnswer(x, e)
MobileTriagePcCheck(x, e) ==
  IF e.type \in {"CLIENT_HAS_CERT", "CLIENT_HAS_CERT_MOBILE"}
  THEN AskHasPc ELSE TriageAnswer(x, e)
MobileExportGuideSent(x, e) ==
  IF e.type = "CLIENT_HAS_CERT_MOBILE" THEN ExportGuide ELSE TriageAnswer(x, e)

MobileAssistConsentRequested(x, e) ==
  CASE e.type = "CLIENT_CONSENT_GRANTED" ->
         Send("MOBILE_ASSIST_PROCESSING", "STEP", [consent |-> TRUE])
    [] e.type = "CLIENT_REQUESTS_ASSISTANCE" ->
         Send(x.state, "ASSIST_CONSENT_REQUEST", NoPatch)
    [] e.type = "CLIENT_CONSENT_DENIED" -> Fallback(ConsentWithdrawn)
    [] e.type = "CLIENT_HAS_CERT_PC" -> PcTutorial
    [] e.type = "CLIENT_CANNOT_GET_CERT" -> CourtFallback
    [] e.type = "CLIENT_REQUESTS_URGENT_PAID" -> ApudataPreapproval(e)
    [] OTHER -> Unanswered

DraftStored(e) == [doc |-> e.doc, approved |-> FALSE, reviewed |-> FALSE, audit |-> "none"]

(* Without consent nothing but a document or a refusal is acted upon.      *)
MobileAssistProcessing(x, paper, e) ==
  IF ~x.consent /\ e.type \notin {"CLIENT_PDF_RECEIVED", "CLIENT_CONSENT_DENIED"}
  THEN Hold(x)
  ELSE
  CASE e.type = "CLIENT_CERT_FILE_RECEIVED" -> Sede("INSPECT", NoPatch)
    [] e.type = "CERT_INSPECTION_COMPLETED" ->
         IF e.says = "usable" THEN Sede("DRAFT", NoPatch)
         ELSE IF e.says = "foreign" THEN Escalate ELSE EscalateTelling(NoPatch)
    [] e.type = "SEDE_DRAFT_READY" ->
         Send(x.state, "DRAFT_REVIEW_REQUEST", DraftStored(e))
    [] e.type = "SEDE_AUTOMATION_FAILED" -> Escalate
    [] e.type = "CLIENT_DRAFT_APPROVED" ->
         IF x.doc # e.doc \/ paper.type # "BORRADOR_SEDE" THEN Escalate
         ELSE Sede("SUBMISSION", [reviewed |-> TRUE])
    [] e.type = "CLIENT_DRAFT_REJECTED" -> EscalateTelling([reviewed |-> FALSE])
    [] e.type = "OPERATOR_SUBMISSION_CONFIRMED" ->
         IF ~x.reviewed THEN Hold(x)
         ELSE IF x.doc # e.doc THEN Escalate
         ELSE Decide("WAITING_PDF_SUBMISSION", NoOp, NoPatch)
    [] e.type = "CLIENT_PDF_RECEIVED" -> ToAudit(e)
    [] e.type = "CLIENT_CONSENT_DENIED" -> EscalateTelling(ConsentWithdrawn)
    [] OTHER -> Unanswered

PdfExpected(x, e) ==
  CASE e.type = "CLIENT_PDF_RECEIVED" -> ToAudit(e)
    [] e.type = "CLIENT_REQUESTS_ASSISTANCE" -> ConsentRequest
    [] e.type = "CLIENT_HAS_NO_CERT" -> AcquisitionLinks
    [] e.type = "CLIENT_CANNOT_GET_CERT" -> CourtFallback
    [] e.type = "CLIENT_REQUESTS_URGENT_PAID" -> ApudataPreapproval(e)
    [] OTHER -> Unanswered

(* An audit says the record of its report: [status, identity, viable].     *)
AuditCompleted(x, e) ==
  IF x.doc # e.doc THEN Escalate
  ELSE LET patch == [audit |-> e.says.status, approved |-> FALSE]
       IN  IF e.says.status # "UNREADABLE" /\ ~e.says.identity
           THEN EscalateWith(patch) ELSE HoldWith(x, patch)
Mut_ApprovedDocument(x, e) ==
  IF x.doc # e.doc \/ x.audit \notin {"VALID", "DEFECTIVE_WITH_AIRAM"} THEN Escalate
  ELSE Decide("KMALEON_FILING", Act("UPLOAD", "NONE"), [approved |-> TRUE])
ApprovedDocument(x, e) ==
  IF x.doc # e.doc \/ x.audit \notin {"VALID", "DEFECTIVE_WITH_AIRAM"} THEN Escalate
  ELSE IF ~x.reviewed THEN HoldWith(x, [approved |-> TRUE])
  ELSE Decide("KMALEON_FILING", Act("UPLOAD", "NONE"), [approved |-> TRUE, reviewed |-> TRUE])
RejectedDocument(x, e) ==
  LET patch == [approved |-> FALSE, reviewed |-> FALSE]
  IN  IF x.doc # e.doc THEN Hold(x)
      ELSE IF e.says = "REVOKE_AND_REISSUE" THEN RevocationGuide(patch)
      ELSE Send("WAITING_PDF_SUBMISSION", "STEP", patch)
AuditingDocument(x, e) ==
  CASE e.type = "PDF_AUDIT_COMPLETED" -> AuditCompleted(x, e)
    [] e.type = "OPERATOR_APPROVED_DOCUMENT" -> ApprovedDocument(x, e)
    [] e.type = "OPERATOR_REJECTED_DOCUMENT" -> RejectedDocument(x, e)
    [] e.type = "CLIENT_PDF_RECEIVED" -> ToAudit(e)
    [] OTHER -> Unanswered

Mut_KmaleonFiling(x, e) ==
  CASE e.type = "KMALEON_UPLOAD_VERIFIED" ->
         IF ~x.approved \/ x.doc # e.doc THEN Escalate
         ELSE Decide(IF e.says = "provisional" THEN "PROVISIONAL_VIABILIZED"
                     ELSE "HANDOFF_DAYANA",
                     Act("NOTIFY", "NONE"), [provisional |-> e.says = "provisional"])
    [] e.type = "CLIENT_PDF_RECEIVED" -> ToAudit(e)
    [] OTHER -> Unanswered
KmaleonFiling(x, e) ==
  CASE e.type = "KMALEON_UPLOAD_VERIFIED" ->
         IF ~x.approved \/ x.doc # e.doc THEN Escalate
         ELSE Decide(IF e.says = "provisional" THEN "PROVISIONAL_VIABILIZED"
                     ELSE "HANDOFF_DAYANA",
                     Act("NOTIFY", "NONE"),
                     [provisional |-> e.says = "provisional"])
    [] e.type = "CLIENT_PDF_RECEIVED" -> Escalate
    [] e.type = "OPERATOR_APPROVED_DOCUMENT" -> Hold(x)
    [] OTHER -> Unanswered

NoticeMatches(x, paper, e, provisional) ==
  paper.filed /\ x.approved /\ x.doc = e.doc /\ x.provisional = provisional

ProvisionalViabilized(x, paper, e) ==
  CASE e.type = "DAYANA_NOTIFIED" ->
         IF NoticeMatches(x, paper, e, TRUE) THEN RevocationGuide(NoPatch) ELSE Escalate
    [] e.type = "CLIENT_PDF_RECEIVED" -> ToAudit(e)
    [] e.type = "CLIENT_REVOCATION_DONE" -> Send("WAITING_REVOCATION_REISSUE", "STEP", NoPatch)
    [] OTHER -> Unanswered
RevocationGuideSent(x, e) ==
  CASE e.type = "CLIENT_REVOCATION_DONE" -> Send("WAITING_REVOCATION_REISSUE", "STEP", NoPatch)
    [] e.type = "CLIENT_PDF_RECEIVED" -> ToAudit(e)
    [] e.type = "CLIENT_REQUESTS_ASSISTANCE" -> EscalateTelling(NoPatch)
    [] OTHER -> Unanswered
WaitingRevocationReissue(x, e) ==
  CASE e.type = "CLIENT_PDF_RECEIVED" -> ToAudit(e)
    [] e.type = "CLIENT_REVOCATION_DONE" -> Hold(x)
    [] e.type = "CLIENT_REQUESTS_ASSISTANCE" -> EscalateTelling(NoPatch)
    [] OTHER -> Unanswered

CertAcquisitionLinksSent(x, e) ==
  CASE e.type = "CLIENT_HAS_CERT" -> AskDevice
    [] e.type = "CLIENT_HAS_CERT_PC" -> PcTutorial
    [] e.type = "CLIENT_HAS_CERT_MOBILE" -> AskHasPc
    [] e.type = "CLIENT_CANNOT_GET_CERT" -> CourtFallback
    [] e.type = "CLIENT_REQUESTS_URGENT_PAID" -> ApudataPreapproval(e)
    [] e.type = "CLIENT_PDF_RECEIVED" -> ToAudit(e)
    [] OTHER -> Unanswered
ResumesDigital(e) == e.type = "CLIENT_REQUESTS_ASSISTANCE" /\ e.says = "resumeDigital"
FallbackOptions(x, e) ==
  CASE e.type = "CLIENT_CANNOT_GET_CERT" -> CourtFallback
    [] e.type = "CLIENT_REQUESTS_URGENT_PAID" -> ApudataPreapproval(e)
    [] e.type = "CLIENT_HAS_NO_CERT" -> AcquisitionLinks
    [] e.type = "CLIENT_HAS_CERT" \/ ResumesDigital(e) -> AskDevice
    [] OTHER -> Unanswered
CourtFallbackGuideSent(x, e) ==
  CASE ResumesDigital(e) -> IF x.device = "PC" THEN PcTutorial ELSE AskDevice
    [] e.type = "CLIENT_HAS_NO_CERT" -> AcquisitionLinks
    [] e.type = "CLIENT_PDF_RECEIVED" -> ToAudit(e)
    [] e.type = "CLIENT_REQUESTS_URGENT_PAID" -> ApudataPreapproval(e)
    [] e.type = "CLIENT_HAS_CERT" -> AskDevice
    [] e.type = "CLIENT_HAS_CERT_PC" -> PcTutorial
    [] e.type = "CLIENT_HAS_CERT_MOBILE" -> AskHasPc
    [] OTHER -> Unanswered

(* The partner's approval is open until it expires (financialGate).        *)
GateOpen == [gate |-> "open"]
ApudataPendingPreapproval(x, e) ==
  IF e.type # "APUDATA_PREAPPROVAL_CONFIRMED" THEN Unanswered
  ELSE IF e.says = "expired" THEN Escalate
  ELSE Send("APUDATA_WAITING_PAYMENT", "APUDATA_PAYMENT_DETAILS", GateOpen)
ApudataWaitingPayment(x, e) ==
  CASE e.type = "OPERATOR_PAYMENT_CONFIRMED" ->
         IF x.gate # "open" THEN Escalate
         ELSE Decide(x.state, Act("ORDER", "NONE"), NoPatch)
    [] e.type = "APUDATA_ORDER_CREATED" ->
         IF e.says = "failed" THEN Escalate
         ELSE Send("APUDATA_VIDEO_IN_PROGRESS", "STEP", NoPatch)
    [] e.type = "APUDATA_PREAPPROVAL_CONFIRMED" ->
         HoldWith(x, [gate |-> IF e.says = "expired" THEN "expired" ELSE "open"])
    [] OTHER -> Unanswered
ApudataVideoInProgress(x, e) ==
  IF e.type = "CLIENT_PDF_RECEIVED" THEN ToAudit(e) ELSE Unanswered

(* A delivered completion notice closes a case with a final filing only.   *)
FinalChain(x, paper) ==
  /\ paper.filed /\ x.approved /\ ~x.provisional
  /\ paper.type = "FINAL" /\ x.audit \in {"none", "VALID"}
HandoffDayana(x, paper, e) ==
  CASE e.type = "DAYANA_NOTIFIED" ->
         IF NoticeMatches(x, paper, e, FALSE) THEN Send(x.state, "COMPLETION_NOTICE", NoPatch)
         ELSE Escalate
    [] e.type = "CLIENT_NOTIFICATION_DELIVERED" ->
         IF FinalChain(x, paper) THEN Decide("COMPLETED", NoOp, NoPatch) ELSE Escalate
    [] e.type = "CLIENT_PDF_RECEIVED" -> Escalate
    [] OTHER -> Unanswered
Completed(x, e) ==
  CASE e.type = "CLIENT_PDF_RECEIVED" -> Escalate
    [] e.type = "OPERATOR_ESCALATE" -> Unanswered
    [] OTHER -> Hold(x)

(* e.says is the target of a resume.                                       *)
Mut_ResumeRefused(x, e) == e.says = "AUDITING_DOCUMENT" /\ x.doc = NoDoc
ResumeRefused(x, e) ==
  \/ e.says \in ForbiddenResumeTargets
  \/ e.says = "AUDITING_DOCUMENT" /\ x.doc = NoDoc
EscalatedHuman(x, e) ==
  IF e.type # "OPERATOR_RESUME" \/ ResumeRefused(x, e) THEN Hold(x)
  ELSE Decide(e.says, NoOp, IF e.says = "INITIAL_TRIAGE"
                            THEN [approved |-> FALSE, reviewed |-> FALSE] ELSE NoPatch)

(* ------------------- what no handler of the state answers -------------- *)
SmallTalk(x, e) ==
  CASE e.says = "silent" -> Hold(x)
    [] e.says = "review" -> EscalateTelling(NoPatch)
    [] OTHER -> Send(x.state, "CONVERSATION_REPLY", NoPatch)
Global(x, e) ==
  CASE e.type \in {"OPERATOR_ESCALATE", "CLIENT_OPT_OUT"} -> Escalate
    [] e.type \in {"OPERATOR_RESUME", "CLIENT_ACKNOWLEDGED", "CASE_OPENED"} -> Hold(x)
    [] e.type = "CLIENT_PDF_RECEIVED" ->
         IF x.state \in {"KMALEON_FILING", "HANDOFF_DAYANA"} THEN Escalate ELSE ToAudit(e)
    [] e.type \in {"CLIENT_REQUESTS_ASSISTANCE", "CLIENT_REQUESTS_HUMAN"} ->
         EscalateTelling(NoPatch)
    [] e.type = "CLIENT_SMALL_TALK" -> SmallTalk(x, e)
    [] OTHER -> IF e.type \in ClientEvents THEN Hold(x) ELSE Escalate

Handler(x, paper, e) ==
  CASE x.state = "INITIAL_TRIAGE" -> InitialTriage(x, e)
    [] x.state = "WAITING_CERT_RESPONSE" -> TriageAnswer(x, e)
    [] x.state = "MOBILE_TRIAGE_PC_CHECK" -> MobileTriagePcCheck(x, e)
    [] x.state = "MOBILE_EXPORT_GUIDE_SENT" -> MobileExportGuideSent(x, e)
    [] x.state = "MOBILE_ASSIST_CONSENT_REQUESTED" -> MobileAssistConsentRequested(x, e)
    [] x.state = "MOBILE_ASSIST_PROCESSING" -> MobileAssistProcessing(x, paper, e)
    [] x.state \in {"PC_TUTORIAL_SENT", "WAITING_PDF_SUBMISSION"} -> PdfExpected(x, e)
    [] x.state = "AUDITING_DOCUMENT" -> AuditingDocument(x, e)
    [] x.state = "PROVISIONAL_VIABILIZED" -> ProvisionalViabilized(x, paper, e)
    [] x.state = "REVOCATION_GUIDE_SENT" -> RevocationGuideSent(x, e)
    [] x.state = "WAITING_REVOCATION_REISSUE" -> WaitingRevocationReissue(x, e)
    [] x.state = "CERT_ACQUISITION_LINKS_SENT" -> CertAcquisitionLinksSent(x, e)
    [] x.state = "FALLBACK_OPTIONS" -> FallbackOptions(x, e)
    [] x.state = "COURT_FALLBACK_GUIDE_SENT" -> CourtFallbackGuideSent(x, e)
    [] x.state = "APUDATA_PENDING_PREAPPROVAL" -> ApudataPendingPreapproval(x, e)
    [] x.state = "APUDATA_WAITING_PAYMENT" -> ApudataWaitingPayment(x, e)
    [] x.state = "APUDATA_VIDEO_IN_PROGRESS" -> ApudataVideoInProgress(x, e)
    [] x.state = "KMALEON_FILING" -> KmaleonFiling(x, e)
    [] x.state = "HANDOFF_DAYANA" -> HandoffDayana(x, paper, e)
    [] x.state = "COMPLETED" -> Completed(x, e)
    [] x.state = "ESCALATED_HUMAN" -> EscalatedHuman(x, e)

OrElse(own, global) == IF own.to = Unanswered.to THEN global ELSE own
Transition(x, paper, e) ==
  IF e.type \in HelpEvents /\ x.state \in GuidedStates THEN GuidedHelp(x, e)
  ELSE OrElse(Handler(x, paper, e), Global(x, e))

(* ------------------ the gates of the decision engine ------------------ *)
(* What assertDecisionContract and assertInvariants demand of a decision d *)
(* on snapshot x: a decision that breaks one throws, and the transaction   *)
(* of the caller is rolled back.                                           *)
UploadGate(x, e, d, y) ==
  d.act.kind = "UPLOAD" =>
    /\ d.to = "KMALEON_FILING" /\ e.type = "OPERATOR_APPROVED_DOCUMENT"
    /\ y.approved /\ y.reviewed /\ x.doc = e.doc
NoticeGate(paper, e, d, y) ==
  d.act.kind = "NOTIFY" =>
    (paper.filed \/ e.type = "KMALEON_UPLOAD_VERIFIED") /\ y.approved
FinancialGate(e, d, y) ==
  /\ d.act = Act("SEND", "APUDATA_PAYMENT_DETAILS") =>
       y.gate = "open" /\ d.to = "APUDATA_WAITING_PAYMENT"
  /\ d.act.kind = "ORDER" => e.type = "OPERATOR_PAYMENT_CONFIRMED"
ConsentGate(d, y) ==
  d.act.kind = "SEDE" =>
    /\ y.consent /\ d.to = "MOBILE_ASSIST_PROCESSING"
    /\ d.act.what = "SUBMISSION" => y.reviewed
StateGate(x, paper, e, d) ==
  /\ d.to = "ESCALATED_HUMAN" <=> d.act.kind = "ESCALATE"
  /\ d.to = "COMPLETED" =>
       /\ d.act = NoOp
       /\ e.type = "CLIENT_NOTIFICATION_DELIVERED" /\ x.state = "HANDOFF_DAYANA"
       /\ paper.filed /\ x.approved /\ ~x.provisional
  /\ x.state = "COMPLETED" => d.to \in {"COMPLETED", "ESCALATED_HUMAN"}
  /\ x.state = "ESCALATED_HUMAN" /\ d.to # "ESCALATED_HUMAN" => e.type = "OPERATOR_RESUME"

RespectsGates(x, paper, e, d) ==
  LET y == Patched(x, d.patch)
  IN  /\ UploadGate(x, e, d, y) /\ NoticeGate(paper, e, d, y)
      /\ FinancialGate(e, d, y) /\ ConsentGate(d, y)
      /\ StateGate(x, paper, e, d)
=============================================================================
