---------------------------- MODULE CaseInvariant ----------------------------
(***************************************************************************)
(* The inductive invariant behind the safety of the case: what is filed    *)
(* was approved and goes to Kmaleon once, a stage is backed by evidence, a *)
(* session by consent, and a closed case is left alone.                    *)
(*                                                                         *)
(* All turns on who may touch a document that is being filed.  An upload   *)
(* waits or is in doubt only while the case is filing it, or was held by a *)
(* person while filing it, which no recovery leaves; in both neither the   *)
(* client nor the operator can take the approval of that document back.    *)
(***************************************************************************)
EXTENDS CaseWorkflow

(* The shapes TypeOK does not say: of a row, and of what waits in the inbox.*)
DocumentWhats == {"DRAFT_REVIEW_REQUEST", "COMPLETION_NOTICE"}
PlainWhats ==
  {"NONE", "SILENT", "NOTICE", "STEP", "ASSIST_CONSENT_REQUEST", "APUDATA_PAYMENT_DETAILS",
   "CONVERSATION_REPLY", "HELD_ACK", "HANDOFF_NOTICE", "INSPECT", "DRAFT", "SUBMISSION"}
RowSet ==
  [kind : Effects, what : DocumentWhats \cup PlainWhats, doc : Docs \cup {NoDoc}, handoff : BOOLEAN,
   status : {"PENDING", "AWAITING", "EXECUTED", "UNCERTAIN", "FAILED"}, fresh : BOOLEAN]
TapEvents ==
  [type : ClientEvents \ {"CLIENT_PDF_RECEIVED"}, doc : Docs \cup {NoDoc},
   says : {"plain", "partner", "team"}]
Shapes ==
  /\ rows \subseteq RowSet
  /\ inbox \in Seq([event : TapEvents, fresh : BOOLEAN])

(* An approval is of a document whose audit passed, which is typed by what  *)
(* the audit found; what is filed is approved.                              *)
ApprovalsStand ==
  \A d \in Docs :
    /\ docs[d].approved =>
         /\ Audited(d)
         /\ docs[d].type = IF docs[d].report.status = "VALID" THEN "FINAL" ELSE "PROVISIONAL"
    /\ docs[d].filed => docs[d].approved

(* An upload is the one request of the document the case is filing, or was  *)
(* filing when a person took over; another file may have come since.        *)
Held == c.state = "ESCALATED_HUMAN" /\ c.prev = "KMALEON_FILING"
IsUpload(r) == r.kind = "UPLOAD"
UploadsAreFilings ==
  /\ \A r \in rows : IsUpload(r) =>
       /\ (c.state = "KMALEON_FILING" /\ r.doc = c.doc) \/ Held
       /\ r.status \in {"PENDING", "FAILED", "UNCERTAIN"}
       /\ tally.uploads[r.doc] = IF r.status = "UNCERTAIN" THEN 1 ELSE 0
       /\ docs[r.doc].approved /\ ~docs[r.doc].filed
  /\ \A q, r \in rows : IsUpload(q) /\ IsUpload(r) => q = r

(* A request to Kmaleon was verified, or its row still says it is in doubt. *)
UploadsAccounted ==
  \A d \in Docs :
    \/ tally.uploads[d] = 0
    \/ tally.uploads[d] = 1 /\ docs[d].filed
    \/ \E r \in rows : IsUpload(r) /\ r.doc = d /\ r.status = "UNCERTAIN"

Stages == {"KMALEON_FILING", "PROVISIONAL_VIABILIZED", "HANDOFF_DAYANA", "COMPLETED"}
StagesNameDocument == c.state \in Stages => c.doc \in Docs

(* After the close only what is in doubt remains. *)
ClosedIsQuiet == c.closed => \A r \in rows : r.status = "UNCERTAIN" /\ ~r.fresh

(* CaseInv: the inductive invariant; see the head of the module            *)
(* (workflow-service.ts:75-200, action-executor.ts:113-139).               *)
CaseInv ==
  /\ TypeOK /\ Shapes
  /\ ApprovalsStand /\ UploadsAreFilings /\ UploadsAccounted
  /\ StagesNameDocument /\ StageIsBacked
  /\ SessionIsConsented /\ ClosedIsQuiet
===============================================================================
