---------------------------- MODULE CaseWorkflow ----------------------------
(***************************************************************************)
(* One case and everybody who moves it: the client's texts, taps and       *)
(* files, the operator's panel, the audit worker, the assisted session,    *)
(* the executor of the decided effects and the carrier's reports.  Each    *)
(* action is one transaction under the case lock that hands one event to   *)
(* transition (two for the assisted draft); what happens inside one effect *)
(* is modelled in Outbox.                                                  *)
(*                                                                         *)
(* The version of the case is modelled by what it is for: a row is fresh   *)
(* while the case has the version the row was decided for.  Rows of older  *)
(* versions matter only while they wait or are in doubt, the others are    *)
(* dropped.  prev is kept while a person holds the case, as nothing reads  *)
(* it later.  A request of the panel carries the version its reader saw: an *)
(* outdated one is refused, so it is no step.  Reminders, saved steps,     *)
(* human tasks and the history of messages are left out.                   *)
(***************************************************************************)
EXTENDS CaseFsm, FiniteSets, Sequences

CONSTANTS
  Docs,           \* the files this client may send, each standing for its hash
  Reports,        \* what an audit may find: [status, identity, viable]
  NoReport,       \* no audit finished yet
  ApudVersions,   \* the values of APUD_VERSION to check
  TextTypes,      \* event types a turn of conversation may be read as
  TapTypes,       \* event types of the buttons
  OfficeTypes,    \* event types the panel sends without evidence
  MaxInbox,       \* bound on the taps waiting to be processed
  MaxDoubt        \* bound on the requests in doubt at one time

(* What the buttons, the texts and the panel's list of events stand for:    *)
(* files, audits, effects and resumptions come by routes of their own, with *)
(* their evidence.                                                          *)
ASSUME CaseAssumption ==
  /\ NoDoc \notin Docs /\ NoReport \notin Reports
  /\ TextTypes \cup TapTypes \subseteq ClientEvents \ {"CLIENT_PDF_RECEIVED"}
  /\ OfficeTypes \subseteq
       (ClientEvents \ {"CLIENT_PDF_RECEIVED"}) \cup {"CASE_OPENED", "OPERATOR_ESCALATE"}
  /\ MaxInbox \in Nat /\ MaxDoubt \in Nat

VARIABLES
  c,        \* the row of the case
  docs,     \* its documents
  rows,     \* the outbox rows that still matter
  inbox,    \* taps and stops received and not yet processed, oldest first
  session,  \* an assisted session is open on the present version
  tally,    \* history: uploads attempted per document, completion told
  apud      \* APUD_VERSION

vars == <<c, docs, rows, inbox, session, tally, apud>>

NewCase ==
  [state |-> "INITIAL_TRIAGE", prev |-> "NONE", paused |-> FALSE, optOut |-> FALSE,
   closed |-> FALSE, cert |-> "unknown", device |-> "unset", dHelp |-> 0, cHelp |-> 0,
   consent |-> FALSE, doc |-> NoDoc, approved |-> FALSE, reviewed |-> FALSE,
   audit |-> "none", provisional |-> FALSE, gate |-> "none"]
NewDocument == [job |-> "none", report |-> NoReport, type |-> "PENDING_REVIEW",
                approved |-> FALSE, filed |-> FALSE, noticed |-> FALSE]

Init ==
  /\ c = NewCase
  /\ docs = [d \in Docs |-> NewDocument]
  /\ rows = {} /\ inbox = <<>> /\ session = FALSE
  /\ tally = [uploads |-> [d \in Docs |-> 0], told |-> FALSE]
  /\ apud \in ApudVersions

Saturated(n) == IF n < 2 THEN n + 1 ELSE 2

(* ------------------------------- the outbox --------------------------- *)
Row(kind, what, doc, handoff) ==
  [kind |-> kind, what |-> what, doc |-> doc, handoff |-> handoff,
   status |-> "PENDING", fresh |-> TRUE]
Become(r, status) == (rows \ {r}) \cup {[r EXCEPT !.status = status]}

(* The version moved on: what had an outcome no longer plays a part.       *)
Outdated(R) ==
  {[r EXCEPT !.fresh = FALSE] : r \in {q \in R : q.status \in {"PENDING", "UNCERTAIN"}}}

IsReply(r) == r.what \in {"CONVERSATION_REPLY", "HELD_ACK"}

(* Rows about a document carry the one the case pointed to when decided.   *)
NamesDocument(act) ==
  act.kind \in {"UPLOAD", "NOTIFY"} \/ act.what \in {"DRAFT_REVIEW_REQUEST", "COMPLETION_NOTICE"}
Mut_DecidedRow(act, doc) == Row(act.kind, act.what, NoDoc, FALSE)
DecidedRow(act, doc) == Row(act.kind, act.what, IF NamesDocument(act) THEN doc ELSE NoDoc, FALSE)

(* ------------------------------ transition ---------------------------- *)
Paper(x, D) == IF x.doc = NoDoc THEN [type |-> "NONE", filed |-> FALSE, noticed |-> FALSE]
               ELSE [type |-> D[x.doc].type, filed |-> D[x.doc].filed,
                     noticed |-> D[x.doc].noticed]
Verdict(x, D, e, given) == Transition(Patched(x, given), Paper(x, D), e)

DeliveryBacked(x, D) ==
  LET p == Paper(x, D) IN p.type = "FINAL" /\ p.filed /\ p.noticed
Mut_Accepts(x, D, e, given, d) ==
  /\ e.type = "CLIENT_NOTIFICATION_DELIVERED" => DeliveryBacked(x, D)
  /\ RespectsGates(Patched(x, given), Paper(x, D), e, d)
Accepts(x, D, e, given, d) ==
  /\ ~x.closed
  /\ e.type = "CLIENT_NOTIFICATION_DELIVERED" => DeliveryBacked(x, D)
  /\ RespectsGates(Patched(x, given), Paper(x, D), e, d)
(* The one decision of an event, if it is not thrown out.                  *)
Decisions(x, D, e, given) ==
  {d \in {Verdict(x, D, e, given)} : Accepts(x, D, e, given, d)}

(* A client who just wrote is told that a person takes over.               *)
ReadByPerson(e) ==
  \/ e.type = "CLIENT_SMALL_TALK" /\ e.says = "review"
  \/ e.type = "CLIENT_REQUESTS_URGENT_PAID" /\ e.says # "partner"
HandoffTold(x, e, d) ==
  /\ d.act.kind = "ESCALATE" /\ e.type # "CLIENT_OPT_OUT" /\ ~x.optOut
  /\ d.act.what = "NOTICE" \/ (e.type \in ClientEvents /\ x.state # "ESCALATED_HUMAN")
HandoffRow(e) ==
  Row("SEND", IF ReadByPerson(e) THEN "CONVERSATION_REPLY" ELSE "HANDOFF_NOTICE", NoDoc, TRUE)

Combined(x, e, given, d) ==
  LET held == d.to = "ESCALATED_HUMAN" /\ x.state # d.to
      y == Patched(Patched(x, given), d.patch)
  IN  [y EXCEPT !.state = d.to,
                !.prev = IF d.to # "ESCALATED_HUMAN" THEN "NONE"
                         ELSE IF held THEN x.state ELSE @,
                !.optOut = @ \/ e.type = "CLIENT_OPT_OUT",
                !.paused = \/ @ \/ held
                           \/ e.type \in {"CLIENT_OPT_OUT", "CLIENT_CERT_FILE_RECEIVED"}]

(* ESCALATE and SEDE are rows for a person: the executor refuses the second.*)
Effects == {"SEND", "UPLOAD", "NOTIFY", "CHECK", "ORDER"}
Queued(d, y, x, e) ==
  (IF d.act.kind \in Effects THEN {DecidedRow(d.act, y.doc)} ELSE {})
    \cup (IF HandoffTold(x, e, d) THEN {HandoffRow(e)} ELSE {})
Written(x, R, y, bumped, new) ==
  [c |-> y, bumped |-> bumped, rows |-> (IF bumped THEN Outdated(R) ELSE R) \cup new]
MovedTo(x, R, e, d, y) == Written(x, R, y, y # x \/ d.act # NoOp, Queued(d, y, x, e))
Moved(x, R, e, given, d) == MovedTo(x, R, e, d, Combined(x, e, given, d))

(* A tap that answers a request is good for the version of that request:   *)
(* when the case moves on, it stays where it is and is turned away later.   *)
AnswersRequest(e) == e.type \in {"CLIENT_CONSENT_GRANTED", "CLIENT_DRAFT_APPROVED"}
Aged(queue) ==
  [i \in DOMAIN queue |->
     [queue[i] EXCEPT !.fresh = @ /\ ~AnswersRequest(queue[i].event)]]
Mut_Commit(m, queue) ==
  /\ c' = m.c /\ rows' = m.rows
  /\ inbox' = IF m.bumped THEN Aged(queue) ELSE queue
  /\ session' = session
Commit(m, queue) ==
  /\ c' = m.c /\ rows' = m.rows
  /\ inbox' = IF m.bumped THEN Aged(queue) ELSE queue
  /\ session' = (session /\ ~m.bumped)
Move(e, given, D, R, queue) ==
  \E d \in Decisions(c, D, e, given) : Commit(Moved(c, R, e, given, d), queue)
Handle(e, given) == Move(e, given, docs, rows, inbox) /\ UNCHANGED <<docs, tally, apud>>

(* A write that only moves the version of a case on.                       *)
Rewrite(x) ==
  Commit([c |-> x, rows |-> Outdated(rows), bumped |-> TRUE], inbox)

(* ------------------------------- the client --------------------------- *)
Said(type) ==
  CASE type = "CLIENT_REQUESTS_ASSISTANCE" -> {"plain", "copyLocated", "takeover", "resumeDigital"}
    [] type = "CLIENT_SMALL_TALK" -> {"silent", "review", "reply"}
    [] type = "CLIENT_REQUESTS_URGENT_PAID" -> {IF apud = 2 THEN "partner" ELSE "team"}
    [] OTHER -> {"plain"}
Stated(type) ==
  IF type # "CLIENT_SMALL_TALK" THEN {NoPatch}
  ELSE {NoPatch, [cert |-> "yes"], [cert |-> "no", device |-> "NONE"],
        [cert |-> "yes", device |-> "MOBILE"], [cert |-> "yes", device |-> "PC"]}

(* A text waits until no message of ours is unsent or in doubt.            *)
AnswerDue == \E r \in rows : r.kind = "SEND" /\ r.status \in {"PENDING", "UNCERTAIN"}
TextTurn == ~c.closed /\ inbox = <<>> /\ ~AnswerDue
InOfficeHands == c.paused \/ c.optOut \/ c.state = "ESCALATED_HUMAN"

ClientText(type) ==
  /\ TextTurn /\ ~InOfficeHands
  /\ \E says \in Said(type), given \in Stated(type) : Handle(Event(type, NoDoc, says), given)

(* Held: once per version the client is told that a person is on it.       *)
HeldText ==
  /\ TextTurn /\ c.state = "ESCALATED_HUMAN" /\ ~c.optOut
  /\ \A r \in rows : ~(r.what = "HELD_ACK" /\ r.fresh)
  /\ rows' = rows \cup {Row("SEND", "HELD_ACK", NoDoc, TRUE)}
  /\ UNCHANGED <<c, docs, inbox, session, tally, apud>>

Asked(r, template) ==
  r.what = template /\ r.fresh /\ r.status \in {"AWAITING", "EXECUTED"}
Taps(type) ==
  CASE type = "CLIENT_CONSENT_GRANTED" ->
         {Event(type, NoDoc, "plain") : r \in {q \in rows : Asked(q, "ASSIST_CONSENT_REQUEST")}}
    [] type = "CLIENT_DRAFT_APPROVED" ->
         {Event(type, r.doc, "plain") : r \in {q \in rows : Asked(q, "DRAFT_REVIEW_REQUEST")}}
    [] OTHER -> {Event(type, NoDoc, says) : says \in Said(type) \cap {"plain", "partner", "team"}}
Received(e) ==
  Len(inbox) < MaxInbox /\ inbox' = Append(inbox, [event |-> e, fresh |-> TRUE])
Tap(type) ==
  /\ \E e \in Taps(type) : Received(e)
  /\ UNCHANGED <<c, docs, rows, session, tally, apud>>

(* STOP: the arrival itself silences the case, without lock or version.    *)
Stop ==
  /\ Received(Event("CLIENT_OPT_OUT", NoDoc, "plain"))
  /\ c' = [c EXCEPT !.optOut = TRUE, !.paused = TRUE]
  /\ UNCHANGED <<docs, rows, session, tally, apud>>
(* The panel queues a withdrawal it was told of, and writes nothing else.  *)
Withdrawal(type) ==
  /\ Received(Event(type, NoDoc, "plain"))
  /\ UNCHANGED <<c, docs, rows, session, tally, apud>>

(* The oldest row of the inbox; one that is refused stays where it is.     *)
ProcessTap ==
  /\ inbox # <<>> /\ Head(inbox).fresh
  /\ Move(Head(inbox).event, NoPatch, docs, rows, Tail(inbox))
  /\ UNCHANGED <<docs, tally, apud>>
(* The request it answers is outdated or older than an hour: a person      *)
(* looks at it.                                                            *)
TurnTapAway ==
  /\ inbox # <<>> /\ AnswersRequest(Head(inbox).event)
  /\ inbox' = Tail(inbox)
  /\ UNCHANGED <<c, docs, rows, session, tally, apud>>

(* A question or a file lifts the silence of a case nobody holds.          *)
Reengage ==
  /\ c.optOut \/ c.paused
  /\ c.state # "ESCALATED_HUMAN"
  /\ c' = [c EXCEPT !.optOut = FALSE, !.paused = FALSE]
  /\ UNCHANGED <<docs, rows, inbox, session, tally, apud>>

(* ------------------------------ the documents ------------------------- *)
Reselectable == {"INITIAL_TRIAGE", "WAITING_PDF_SUBMISSION", "WAITING_REVOCATION_REISSUE"}
Mut_NewlySelected(d) == [doc |-> d, audit |-> "none"]
NewlySelected(d) ==
  [doc |-> d, approved |-> FALSE, reviewed |-> FALSE, audit |-> "none"]
Mut_Refused(d) == FALSE
Refused(d) == docs[d].filed

Intake(d) ==
  LET e == Event("CLIENT_PDF_RECEIVED", d, "plain")
      audits == Verdict(c, docs, e, NewlySelected(d)).to = "AUDITING_DOCUMENT"
  IN  /\ c.doc = d => c.state \in Reselectable
      /\ ~Refused(d)
      /\ docs' = [docs EXCEPT ![d].job = IF audits THEN "pending" ELSE "parked",
                              ![d].type = "PENDING_REVIEW", ![d].approved = FALSE]
      /\ Move(e, NewlySelected(d), docs', rows, inbox)
      /\ UNCHANGED <<tally, apud>>

(* The audit worker: the same file always gets the same report.            *)
Finding(d) == IF docs[d].report = NoReport THEN Reports ELSE {docs[d].report}
AuditDropped(d) ==
  /\ docs[d].job = "pending"
  /\ c.doc # d \/ c.state # "AUDITING_DOCUMENT"
  /\ docs' = [docs EXCEPT ![d].job = IF c.doc # d THEN "superseded" ELSE "parked"]
  /\ UNCHANGED <<c, rows, inbox, session, tally, apud>>
AuditDone(d) ==
  /\ docs[d].job = "pending" /\ c.doc = d /\ c.state = "AUDITING_DOCUMENT"
  /\ \E r \in Finding(d) :
       /\ docs' = [docs EXCEPT ![d].job = "reported", ![d].report = r]
       /\ IF c.closed THEN Rewrite([c EXCEPT !.audit = r.status])
          ELSE Move(Event("PDF_AUDIT_COMPLETED", d, r), [audit |-> r.status],
                    docs', rows, inbox)
  /\ UNCHANGED <<tally, apud>>

Audited(d) ==
  docs[d].job = "reported" /\ docs[d].report.identity
  /\ docs[d].report.status \in {"VALID", "DEFECTIVE_WITH_AIRAM"}
Eligible(d) ==
  /\ c.doc = d /\ c.state = "AUDITING_DOCUMENT" /\ ~docs[d].filed
  /\ Audited(d) /\ (docs[d].report.status = "VALID" \/ docs[d].report.viable)
Vetted == [approved |-> TRUE, reviewed |-> TRUE]

(* closePhaseOne: waiting rows are cancelled, rows in doubt are kept.      *)
Closed(x) ==
  Commit([c |-> [x EXCEPT !.closed = TRUE, !.paused = TRUE], bumped |-> TRUE,
          rows |-> Outdated({r \in rows : r.status = "UNCERTAIN"})], <<>>)

Approve(d) ==
  LET final == docs[d].report.status = "VALID"
  IN  /\ Eligible(d)
      /\ docs' = [docs EXCEPT ![d].approved = TRUE,
                              ![d].type = IF final THEN "FINAL" ELSE "PROVISIONAL"]
      /\ IF apud = 1 /\ c.closed THEN Rewrite(Patched(c, Vetted))
         ELSE IF apud = 1 /\ final THEN Closed(Patched(c, Vetted))
         ELSE Move(Event("OPERATOR_APPROVED_DOCUMENT", d, "plain"), Vetted,
                   docs', rows, inbox)
      /\ UNCHANGED <<tally, apud>>
Reject(d) ==
  /\ c.doc = d /\ c.state = "AUDITING_DOCUMENT" /\ ~docs[d].filed
  /\ docs' = [docs EXCEPT ![d].approved = FALSE]
  /\ \E says \in {"RESEND", "REVOKE_AND_REISSUE"} :
       Move(Event("OPERATOR_REJECTED_DOCUMENT", d, says),
            [approved |-> FALSE, reviewed |-> FALSE], docs', rows, inbox)
  /\ UNCHANGED <<tally, apud>>

(* -------------------------------- the office -------------------------- *)
Open ==
  /\ c.state = "INITIAL_TRIAGE" /\ ~c.paused /\ ~c.optOut
  /\ Handle(Event("CASE_OPENED", NoDoc, "plain"), NoPatch)
OperatorEvent(type) ==
  \E says \in Said(type) \cap {"plain", "partner", "team"} :
    Handle(Event(type, NoDoc, says), NoPatch)

Resumed(m) == [m EXCEPT !.rows = {r \in @ : r.status # "PENDING"}]
Recover ==
  LET e == Event("OPERATOR_RESUME", NoDoc, c.prev)
      given == [paused |-> FALSE]
  IN  /\ c.state = "ESCALATED_HUMAN" /\ ~c.optOut
      /\ c.prev \notin {"NONE", "INITIAL_TRIAGE"}
      /\ \E d \in Decisions(c, docs, e, given) :
           /\ d.to # "ESCALATED_HUMAN"
           /\ Commit(Resumed(Moved(c, rows, e, given, d)), inbox)
      /\ UNCHANGED <<docs, tally, apud>>

SetAutomation(paused) ==
  /\ ~c.closed
  /\ paused \/ (~c.optOut /\ c.state # "ESCALATED_HUMAN")
  /\ Rewrite([c EXCEPT !.paused = paused])
  /\ UNCHANGED <<docs, tally, apud>>

PaymentConfirmed ==
  /\ c.state = "APUDATA_WAITING_PAYMENT" /\ c.gate = "open"
  /\ Handle(Event("OPERATOR_PAYMENT_CONFIRMED", NoDoc, "plain"), NoPatch)
GateExpires ==
  /\ c.gate = "open"
  /\ c' = [c EXCEPT !.gate = "expired"]
  /\ UNCHANGED <<docs, rows, inbox, session, tally, apud>>

ClosePhaseOne ==
  /\ apud = 1 /\ ~c.closed
  /\ Closed(c)
  /\ UNCHANGED <<docs, tally, apud>>

(* --------------------------- assisted preparation --------------------- *)
OfficeConsent ==
  /\ c.state = "MOBILE_ASSIST_CONSENT_REQUESTED"
  /\ Handle(Event("CLIENT_CONSENT_GRANTED", NoDoc, "plain"), NoPatch)
AddressVerified ==
  /\ c.state \in {"MOBILE_ASSIST_CONSENT_REQUESTED", "MOBILE_ASSIST_PROCESSING"}
  /\ Paper(c, docs).type # "BORRADOR_SEDE"
  /\ Rewrite(c)
  /\ UNCHANGED <<docs, tally, apud>>

(* What starts or ends a session writes it besides the move.               *)
Conclude(m, open) ==
  /\ c' = m.c /\ rows' = m.rows /\ session' = open
  /\ inbox' = IF m.bumped THEN Aged(inbox) ELSE inbox

CertificateReceived ==
  LET e == Event("CLIENT_CERT_FILE_RECEIVED", NoDoc, "plain")
  IN  /\ apud = 2 /\ c.state = "MOBILE_ASSIST_PROCESSING" /\ c.consent
      /\ \E d \in Decisions(c, docs, e, NoPatch) :
           Conclude(Moved(c, rows, e, NoPatch, d), TRUE)
      /\ UNCHANGED <<docs, tally, apud>>

(* Two events in one transaction; a refusal of either rolls both back.     *)
DraftReady(doc) ==
  LET inspected == Event("CERT_INSPECTION_COMPLETED", NoDoc, "usable")
      ready == Event("SEDE_DRAFT_READY", doc, "plain")
      given == [doc |-> doc, approved |-> FALSE, reviewed |-> FALSE]
  IN  /\ session /\ docs[doc].job = "none"
      /\ \A i \in DOMAIN inbox : inbox[i].event.type \notin {"CLIENT_CONSENT_DENIED", "CLIENT_OPT_OUT"}
      /\ docs' = [docs EXCEPT ![doc].job = "draft", ![doc].type = "BORRADOR_SEDE"]
      /\ \E d \in Decisions(c, docs, inspected, NoPatch) :
           /\ d.to # "ESCALATED_HUMAN"
           /\ \E m \in {Moved(c, rows, inspected, NoPatch, d)} :
                \E f \in Decisions(m.c, docs', ready, given) :
                  Conclude(Moved(m.c, m.rows, ready, given, f), FALSE)
      /\ UNCHANGED <<tally, apud>>

(* A failed session; one whose consent was withdrawn also takes it back.   *)
SessionFails(given) ==
  LET e == Event("SEDE_AUTOMATION_FAILED", NoDoc, "plain")
  IN  /\ session
      /\ \E d \in Decisions(c, docs, e, given) : Conclude(Moved(c, rows, e, given, d), FALSE)
      /\ UNCHANGED <<docs, tally, apud>>
SessionLost == session /\ session' = FALSE /\ UNCHANGED <<c, docs, rows, inbox, tally, apud>>

IsDraft == c.doc # NoDoc /\ docs[c.doc].type = "BORRADOR_SEDE"
DraftReviewed ==
  /\ apud = 2 /\ IsDraft
  /\ Handle(Event("CLIENT_DRAFT_APPROVED", c.doc, "plain"), NoPatch)
SubmissionConfirmed ==
  /\ apud = 2 /\ IsDraft /\ c.reviewed
  /\ Handle(Event("OPERATOR_SUBMISSION_CONFIRMED", c.doc, "plain"), NoPatch)

(* -------------------------------- the effects ------------------------- *)
Silenced(r) == c.optOut \/ (c.paused /\ ~(r.handoff /\ c.state = "ESCALATED_HUMAN"))
Turned(r) == \/ c.closed \/ Silenced(r)
             \/ apud = 1 /\ r.kind # "SEND"
             \/ ~r.fresh
TurnAway(r) ==
  /\ r.status = "PENDING" /\ Turned(r)
  /\ rows' = rows \ {r}
  /\ UNCHANGED <<c, docs, inbox, session, tally, apud>>

(* A reply outlives the version of its decision, but not the step.         *)
Startable(r) == r.status = "PENDING" /\ (~Turned(r) \/ (IsReply(r) /\ ~r.fresh /\ ~c.closed /\ ~Silenced(r)))
Permitted(r) ==
  /\ r.what = "APUDATA_PAYMENT_DETAILS" \/ r.kind = "ORDER" => c.gate = "open"
  /\ r.kind = "UPLOAD" => c.approved /\ c.reviewed /\ docs[r.doc].approved /\ Audited(r.doc)
  /\ r.kind = "NOTIFY" => docs[r.doc].filed
BlockedNotice(r) ==
  IF r.kind = "SEND" THEN {Row("SEND", "CONVERSATION_REPLY", NoDoc, TRUE)} ELSE {}
Block(r) ==
  /\ Startable(r) /\ ~Permitted(r)
  /\ rows' = Become(r, "FAILED") \cup BlockedNotice(r)
  /\ UNCHANGED <<c, docs, inbox, session, tally, apud>>
Fail(r) ==
  /\ Startable(r) /\ Permitted(r)
  /\ rows' = IF r.fresh THEN Become(r, "FAILED") ELSE rows \ {r}
  /\ UNCHANGED <<c, docs, inbox, session, tally, apud>>

(* History: the requests that may have reached Kmaleon.                    *)
Attempted(r) ==
  IF r.kind = "UPLOAD" THEN [tally EXCEPT !.uploads[r.doc] = Saturated(@)] ELSE tally
LoseTrack(r) ==
  /\ Startable(r) /\ Permitted(r)
  /\ Cardinality({q \in rows : q.status = "UNCERTAIN"}) < MaxDoubt
  /\ rows' = Become(r, "UNCERTAIN") /\ tally' = Attempted(r)
  /\ UNCHANGED <<c, docs, inbox, session, apud>>

Accept(r) ==
  /\ r.kind = "SEND" /\ Startable(r) /\ Permitted(r)
  /\ rows' = IF r.fresh THEN Become(r, "AWAITING") ELSE rows \ {r}
  /\ UNCHANGED <<c, docs, inbox, session, tally, apud>>

(* The verified effect is recorded; its event only moves the case it was   *)
(* decided for.                                                            *)
Recorded(r) ==
  CASE r.kind = "UPLOAD" -> [docs EXCEPT ![r.doc].filed = TRUE]
    [] r.kind = "NOTIFY" -> [docs EXCEPT ![r.doc].noticed = TRUE]
    [] OTHER -> docs
Reported(r) ==
  CASE r.kind = "UPLOAD" ->
         {Event("KMALEON_UPLOAD_VERIFIED", r.doc,
                IF docs[r.doc].type = "PROVISIONAL" THEN "provisional" ELSE "final")}
    [] r.kind = "NOTIFY" -> {Event("DAYANA_NOTIFIED", r.doc, "plain")}
    [] r.kind = "CHECK" -> {Event("APUDATA_PREAPPROVAL_CONFIRMED", NoDoc, says) :
                              says \in {"open", "expired"}}
    [] r.kind = "ORDER" -> {Event("APUDATA_ORDER_CREATED", NoDoc, "placed")}
Learned(e) ==
  CASE e.type = "KMALEON_UPLOAD_VERIFIED" -> [provisional |-> e.says = "provisional"]
    [] e.type = "APUDATA_PREAPPROVAL_CONFIRMED" -> [gate |-> e.says]
    [] OTHER -> NoPatch
Settle(r) ==
  /\ docs' = Recorded(r)
  /\ IF r.fresh /\ ~c.closed
     THEN \E e \in Reported(r) : Move(e, Learned(e), docs', rows \ {r}, inbox)
     ELSE rows' = rows \ {r} /\ UNCHANGED <<c, inbox, session>>
Perform(r) ==
  /\ r.kind # "SEND" /\ Startable(r) /\ Permitted(r)
  /\ Settle(r) /\ tally' = Attempted(r) /\ UNCHANGED apud

(* A request in doubt is searched for by its key, never repeated; messages *)
(* and preapprovals cannot be.                                             *)
Reconcile(r) ==
  /\ r.status = "UNCERTAIN" /\ r.kind \in {"UPLOAD", "NOTIFY", "ORDER"}
  /\ r.kind = "UPLOAD" => docs[r.doc].approved /\ Audited(r.doc)
  /\ r.kind = "NOTIFY" => docs[r.doc].filed
  /\ Settle(r) /\ UNCHANGED <<tally, apud>>

(* What the carrier reports of a message.                                  *)
InFlight(r) == r.kind = "SEND" /\ r.status \in {"AWAITING", "UNCERTAIN"}
Closing(r) == r.what = "COMPLETION_NOTICE" /\ r.fresh /\ ~c.closed
Settled(r) == IF r.fresh THEN Become(r, "EXECUTED") ELSE rows \ {r}
Delivered(r) ==
  /\ InFlight(r)
  /\ IF Closing(r)
     THEN /\ Move(Event("CLIENT_NOTIFICATION_DELIVERED", NoDoc, "plain"), NoPatch,
                  docs, Settled(r), inbox)
          /\ tally' = [tally EXCEPT !.told = TRUE]
     ELSE rows' = Settled(r) /\ UNCHANGED <<c, inbox, session, tally>>
  /\ UNCHANGED <<docs, apud>>
Bounced(r) ==
  /\ InFlight(r)
  /\ rows' = IF r.fresh THEN Become(r, "FAILED") ELSE rows \ {r}
  /\ UNCHANGED <<c, docs, inbox, session, tally, apud>>
Retry(r) ==
  /\ r.status = "FAILED"
  /\ rows' = Become(r, "PENDING")
  /\ UNCHANGED <<c, docs, inbox, session, tally, apud>>

(* -------------------------------- behaviour --------------------------- *)
Client == \/ \E type \in TextTypes : ClientText(type)
          \/ \E type \in TapTypes : Tap(type)
          \/ HeldText \/ Stop \/ ProcessTap \/ TurnTapAway \/ Reengage
Documents == \E d \in Docs : \/ Intake(d) \/ AuditDropped(d) \/ AuditDone(d)
                             \/ Approve(d) \/ Reject(d) \/ DraftReady(d)
Office == \/ Open \/ Recover \/ PaymentConfirmed \/ GateExpires \/ ClosePhaseOne
          \/ \E type \in OfficeTypes : OperatorEvent(type)
          \/ \E type \in {"CLIENT_OPT_OUT", "CLIENT_CONSENT_DENIED"} : Withdrawal(type)
          \/ \E paused \in BOOLEAN : SetAutomation(paused)
Assisted == \/ OfficeConsent \/ AddressVerified \/ CertificateReceived \/ SessionLost
            \/ \E given \in {NoPatch, ConsentWithdrawn} : SessionFails(given)
            \/ DraftReviewed \/ SubmissionConfirmed
Outbox == \E r \in rows : \/ TurnAway(r) \/ Block(r) \/ Fail(r) \/ LoseTrack(r)
                          \/ Accept(r) \/ Perform(r) \/ Reconcile(r)
                          \/ Delivered(r) \/ Bounced(r) \/ Retry(r)
Next == Client \/ Documents \/ Office \/ Assisted \/ Outbox
Spec == Init /\ [][Next]_vars

(* ------------------------------- properties --------------------------- *)
CaseSet ==
  [state : States, prev : States \cup {"NONE"}, paused : BOOLEAN, optOut : BOOLEAN,
   closed : BOOLEAN, cert : {"unknown", "yes", "no"},
   device : {"unset", "NONE", "PC", "MOBILE"}, dHelp : 0..HelpCap, cHelp : 0..HelpCap,
   consent : BOOLEAN, doc : Docs \cup {NoDoc}, approved : BOOLEAN, reviewed : BOOLEAN,
   audit : {"none"} \cup {r.status : r \in Reports}, provisional : BOOLEAN,
   gate : {"none", "open", "expired"}]
DocumentSet ==
  [job : {"none", "pending", "reported", "superseded", "parked", "draft"},
   report : Reports \cup {NoReport},
   type : {"PENDING_REVIEW", "FINAL", "PROVISIONAL", "BORRADOR_SEDE"},
   approved : BOOLEAN, filed : BOOLEAN, noticed : BOOLEAN]
(* The fields of the case, of its documents and of its rows hold what the  *)
(* code can write, and a row about a document names one.                   *)
TypeOK ==
  /\ c \in CaseSet /\ docs \in [Docs -> DocumentSet]
  /\ \A r \in rows : /\ r.kind \in Effects /\ r.doc \in Docs \cup {NoDoc}
                     /\ r.status \in {"PENDING", "AWAITING", "EXECUTED", "UNCERTAIN", "FAILED"}
                     /\ NamesDocument([kind |-> r.kind, what |-> r.what]) => r.doc \in Docs
  /\ Len(inbox) <= MaxInbox /\ session \in BOOLEAN
  /\ tally \in [uploads : [Docs -> 0..2], told : BOOLEAN]

(* No document is sent to Kmaleon by two actions: each has its own key, so *)
(* the search by key would not find what the other one filed.              *)
FiledOnce == \A d \in Docs : tally.uploads[d] <= 1
(* What was sent to Kmaleon stays a document whose audit passed, which a   *)
(* person approved, and which is filed as what the audit found it to be.   *)
FiledIsApproved ==
  \A d \in Docs : tally.uploads[d] > 0 =>
    /\ docs[d].approved /\ Audited(d)
    /\ docs[d].type = IF docs[d].report.status = "VALID" THEN "FINAL" ELSE "PROVISIONAL"
(* The approval and review marks of the case are about the document it     *)
(* points to now, whichever files arrived after the mark was set.          *)
MarksNameDocument ==
  /\ c.approved => c.doc # NoDoc /\ docs[c.doc].approved
  /\ c.reviewed => c.doc # NoDoc /\ (docs[c.doc].approved \/ docs[c.doc].type = "BORRADOR_SEDE")

Selected == docs[c.doc]
(* A stage of the filing is only shown with its evidence: the approval, the*)
(* verified upload of a document of the right type, the notice to the      *)
(* office and the delivered message.                                       *)
StageIsBacked ==
  /\ c.state = "KMALEON_FILING" => c.approved /\ c.reviewed /\ Selected.approved
  /\ c.state = "PROVISIONAL_VIABILIZED" =>
       c.approved /\ c.provisional /\ Selected.filed /\ Selected.type = "PROVISIONAL"
  /\ c.state \in {"HANDOFF_DAYANA", "COMPLETED"} =>
       c.approved /\ ~c.provisional /\ Selected.filed /\ Selected.type = "FINAL"
  /\ c.state = "COMPLETED" => Selected.noticed /\ tally.told

(* Filing is entered from the audit, what is filed from filing, and the    *)
(* end from the hand-over: no recovery by an operator skips a stage.       *)
StagesInOrder ==
  [][c'.state # c.state =>
       /\ c'.state = "KMALEON_FILING" => c.state = "AUDITING_DOCUMENT"
       /\ c'.state \in {"PROVISIONAL_VIABILIZED", "HANDOFF_DAYANA"} => c.state = "KMALEON_FILING"
       /\ c'.state = "COMPLETED" => c.state = "HANDOFF_DAYANA"]_vars
(* A case whose phase one is closed does not move and starts no message;   *)
(* what remains of its rows is in doubt.                                   *)
ClosedIsFinal ==
  [][c.closed => c'.state = c.state /\ \A r \in rows' : r.status = "UNCERTAIN"]_vars
(* A draft is only prepared under a consent that still stands and in the   *)
(* step the client gave it for.                                            *)
SessionIsConsented ==
  session => c.consent /\ c.state = "MOBILE_ASSIST_PROCESSING"

AnySaid(type) ==
  CASE type = "PDF_AUDIT_COMPLETED" -> Reports
    [] type = "CLIENT_REQUESTS_URGENT_PAID" -> {"partner", "team"}
    [] type = "CERT_INSPECTION_COMPLETED" -> {"usable", "foreign", "unusable"}
    [] type = "APUDATA_PREAPPROVAL_CONFIRMED" -> {"open", "expired"}
    [] type = "APUDATA_ORDER_CREATED" -> {"placed", "failed"}
    [] type = "KMALEON_UPLOAD_VERIFIED" -> {"provisional", "final"}
    [] type = "OPERATOR_REJECTED_DOCUMENT" -> {"RESEND", "REVOKE_AND_REISSUE"}
    [] type = "OPERATOR_RESUME" -> States
    [] OTHER -> Said(type)
AboutADocument ==
  {"CLIENT_PDF_RECEIVED", "CLIENT_DRAFT_APPROVED", "SEDE_DRAFT_READY", "PDF_AUDIT_COMPLETED",
   "KMALEON_UPLOAD_VERIFIED", "DAYANA_NOTIFIED", "OPERATOR_APPROVED_DOCUMENT",
   "OPERATOR_REJECTED_DOCUMENT", "OPERATOR_SUBMISSION_CONFIRMED"}
AnyEvent ==
  UNION {{Event(type, d, says) : d \in IF type \in AboutADocument THEN Docs ELSE {NoDoc},
                                 says \in AnySaid(type)} :
         type \in ClientEvents \cup SystemEvents \cup OperatorEvents}
(* On every snapshot the case can have, outside the two states where the   *)
(* engine refuses to hold, the table decides every event within the gates  *)
(* of the engine, so no event throws.                                      *)
TableRespectsGates ==
  c.state \notin {"ESCALATED_HUMAN", "COMPLETED"} =>
    \A e \in AnyEvent :
      RespectsGates(c, Paper(c, docs), e, Transition(c, Paper(c, docs), e))

(* The oldest tap or withdrawal of an open case is decided, as the comment *)
(* on evaluateNextStep says of every event.                                *)
EveryTapIsDecided ==
  inbox # <<>> /\ ~c.closed /\ Head(inbox).fresh =>
    Decisions(c, docs, Head(inbox).event, NoPatch) # {}
=============================================================================
