---------------------------- MODULE DispatchQueue ----------------------------
(* The dispatcher and the queues: every five seconds a tick walks the       *)
(* durable rows and adds a job for each, under an id that the queue accepts *)
(* once for as long as it keeps the job.  One row: an effect of the outbox  *)
(* with its delivery report, the inbox of a case, or a document with an     *)
(* audit to run.  What execute, delivery, the turn and the audit do inside  *)
(* belongs to Outbox, Inbox and CaseWorkflow.                               *)
EXTENDS Integers, Sequences

CONSTANTS
  MaxRetries,   \* the attempts an effect has
  Attempts,     \* of a job in the queue (3 in the code)
  MaxFailures,  \* bound: what throws because a lock or the database is gone
  MaxOperator,  \* bound: retries asked for in the panel
  MaxRequests   \* bound: audits asked for

Steps == <<"aging", "reports", "inbound", "audits", "stuck", "pending">>
JobStates == {"none", "waiting", "done", "failed", "recorded", "lost"}
Job(state) == [state |-> state, left |-> IF state = "waiting" THEN Attempts ELSE 0]
Statuses == {"PENDING", "RUNNING", "UNCERTAIN", "AWAITING_DELIVERY", "EXECUTED",
             "BLOCKED", "FAILED", "HUMAN_REQUIRED"}
(* Effect jobs carry the retry count and audit jobs the request, for good;  *)
(* recovery and reconcile jobs carry a window of time, here 0.              *)
Windowed == {<<"recovery", 0>>, <<"reconcile", 0>>}
Ids == ({"effect"} \X (0..MaxRetries)) \cup ({"audit"} \X (1..MaxRequests))
       \cup Windowed \cup {<<"operator", 0>>}

VARIABLES
  effect,    \* [status, retry, old, early]; old: past the age that counts for
             \* its status; early: it was BLOCKED before an attempt was claimed
  report,    \* of the carrier: none, PENDING, OLD, PROCESSED, HUMAN_REQUIRED
  ready,     \* the inbox of the case holds a row whose time has come
  audit,     \* [status, request] of the document
  jobs,      \* by id: [state, left]: none, waiting with its attempts left, done,
             \* failed, recorded (its failure was), lost (it was not)
  inHand,    \* the ids whose effect is being executed
  tick,      \* the step the dispatcher is at, 0: it sleeps
  failures, operator,
  row        \* the row this behaviour is about; the ticks break for the others
vars == <<effect, report, ready, audit, jobs, inHand, tick, failures, operator, row>>

Init ==
  /\ row \in {"effect", "inbox", "document"}
  /\ effect = [status |-> IF row = "effect" THEN "PENDING" ELSE "EXECUTED",
               retry |-> 0, old |-> FALSE, early |-> FALSE]
  /\ report = "none" /\ ready = FALSE /\ audit = [status |-> "none", request |-> 0]
  /\ jobs = [id \in Ids |-> Job("none")] /\ inHand = {} /\ tick = 0 /\ failures = 0 /\ operator = 0

Added(id) == [jobs EXCEPT ![id] = IF @.state = "none" THEN Job("waiting") ELSE @]
EffectIs(status) == [effect EXCEPT !.status = status, !.old = FALSE]
Mut_EffectJob == <<"effect", 0>>
EffectJob == <<"effect", effect.retry>>
Breaks == failures < MaxFailures /\ failures' = failures + 1

(* --------------------------- the dispatch tick -------------------------- *)
At(step) == tick > 0 /\ Steps[tick] = step /\ tick' = (tick + 1) % (Len(Steps) + 1)
Wake == /\ tick = 0 /\ tick' = 1
        /\ UNCHANGED <<effect, report, ready, audit, jobs, inHand, failures, operator, row>>
(* A follow-up or a report whose lock is taken, or the database, ends the   *)
(* tick before the steps behind it.                                         *)
TickBreaks ==
  /\ tick > 0 /\ Breaks /\ tick' = 0
  /\ UNCHANGED <<effect, report, ready, audit, jobs, inHand, operator, row>>
Aging ==
  /\ At("aging")
  /\ effect' = IF effect.status = "RUNNING" /\ effect.old THEN EffectIs("UNCERTAIN") ELSE effect
  /\ UNCHANGED <<report, ready, audit, jobs, inHand, failures, operator, row>>
Matched == effect.status \in {"AWAITING_DELIVERY", "EXECUTED"}
Mut_AfterReport == IF report \in {"PENDING", "OLD"} THEN "PROCESSED" ELSE report
AfterReport ==
  IF report \notin {"PENDING", "OLD"} THEN report
  ELSE IF Matched THEN "PROCESSED" ELSE IF report = "OLD" THEN "HUMAN_REQUIRED" ELSE report
Reports ==
  /\ At("reports")
  /\ effect' = IF report \in {"PENDING", "OLD"} /\ Matched THEN EffectIs("EXECUTED") ELSE effect
  /\ report' = AfterReport
  /\ UNCHANGED <<ready, audit, jobs, inHand, failures, operator, row>>
Queues(step, wanted, id) ==
  /\ At(step) /\ jobs' = IF wanted THEN Added(id) ELSE jobs
  /\ UNCHANGED <<effect, report, ready, audit, inHand, failures, operator, row>>
Stuck == effect.status = "UNCERTAIN" /\ effect.old /\ effect.retry < MaxRetries
Inbound == Queues("inbound", ready, <<"recovery", 0>>)
Audits == Queues("audits", audit.status = "PENDING", <<"audit", audit.request>>)
Reconciles == Queues("stuck", Stuck, <<"reconcile", 0>>)
Effects == Queues("pending", effect.status = "PENDING", EffectJob)

(* ------------------------------ the workers ----------------------------- *)
Open(id) == jobs[id].state = "waiting" /\ id \notin inHand
Leaves(id, state) == jobs' = [jobs EXCEPT ![id] = Job(state)]
Fails(id) ==
  IF jobs[id].left = 1 THEN Leaves(id, "failed") ELSE jobs' = [jobs EXCEPT ![id].left = @ - 1]
Throws(id) ==
  /\ Open(id) /\ Breaks /\ Fails(id)
  /\ UNCHANGED <<effect, report, ready, audit, inHand, tick, operator, row>>
EffectIds == {id \in Ids : id[1] \in {"effect", "reconcile", "operator"}}
(* execute: an early return, or the claim.                                  *)
Returns(id) ==
  /\ id \in EffectIds /\ Open(id) /\ Leaves(id, "done")
  /\ IF effect.status = "PENDING" \/ (effect.status = "UNCERTAIN" /\ effect.retry >= MaxRetries)
     THEN effect' \in {EffectIs("HUMAN_REQUIRED")}
                      \cup IF effect.status = "PENDING"
                           THEN {[EffectIs("BLOCKED") EXCEPT !.early = TRUE]} ELSE {}
     ELSE effect.status # "UNCERTAIN" /\ UNCHANGED effect
  /\ UNCHANGED <<report, ready, audit, inHand, tick, failures, operator, row>>
Claims(id) ==
  /\ id \in EffectIds /\ Open(id) /\ inHand = {}
  /\ effect.status \in {"PENDING", "UNCERTAIN"} /\ effect.retry < MaxRetries
  /\ effect' = [EffectIs("RUNNING") EXCEPT !.retry = @ + 1, !.early = FALSE]
  /\ inHand' = {id}
  /\ UNCHANGED <<report, ready, audit, jobs, tick, failures, operator, row>>
Finishes(id) ==
  /\ id \in inHand /\ inHand' = {} /\ Leaves(id, "done")
  /\ effect' \in IF effect.status # "RUNNING" THEN {effect}
                 ELSE {EffectIs(s) : s \in {"AWAITING_DELIVERY", "EXECUTED", "UNCERTAIN", "BLOCKED", "FAILED"}}
  /\ UNCHANGED <<report, ready, audit, tick, failures, operator, row>>
(* The process dies; the queue finds the job stalled and gives it out again *)
(* once.                                                                    *)
Crashes(id) ==
  /\ id \in inHand /\ inHand' = {} /\ Breaks
  /\ UNCHANGED jobs \/ Leaves(id, "failed")
  /\ UNCHANGED <<effect, report, ready, audit, tick, operator, row>>
TurnRuns ==
  /\ Open(<<"recovery", 0>>) /\ Leaves(<<"recovery", 0>>, "done") /\ ready' = FALSE
  /\ UNCHANGED <<effect, report, audit, inHand, tick, failures, operator, row>>
Mut_Asked(r) == TRUE
Asked(r) == audit.status = "PENDING" /\ audit.request = r
AuditRuns(r) ==
  /\ Open(<<"audit", r>>) /\ Leaves(<<"audit", r>>, "done")
  /\ audit' = IF Asked(r) THEN [audit EXCEPT !.status = "REPORTED"]
              ELSE audit
  /\ UNCHANGED <<effect, report, ready, inHand, tick, failures, operator, row>>
(* The last failure of an audit job leaves its mark on the document, unless *)
(* the database is gone at that moment.                                     *)
FailureIsRecorded(r) ==
  /\ jobs[<<"audit", r>>].state = "failed"
  /\ \/ /\ Leaves(<<"audit", r>>, "recorded") /\ UNCHANGED failures
        /\ audit' = IF Asked(r) THEN [audit EXCEPT !.status = "FAILED_REQUIRES_REVIEW"] ELSE audit
     \/ Leaves(<<"audit", r>>, "lost") /\ Breaks /\ UNCHANGED audit
  /\ UNCHANGED <<effect, report, ready, inHand, tick, operator, row>>

(* ------------------------------- the rest ------------------------------- *)
(* Ten seconds, a minute, ten minutes, a day: ages and windows pass.        *)
Ages ==
  /\ effect.status \in {"RUNNING", "UNCERTAIN"} /\ ~effect.old /\ effect' = [effect EXCEPT !.old = TRUE]
  /\ UNCHANGED <<report, ready, audit, jobs, inHand, tick, failures, operator, row>>
ReportAges ==
  /\ report = "PENDING" /\ report' = "OLD"
  /\ UNCHANGED <<effect, ready, audit, jobs, inHand, tick, failures, operator, row>>
Mut_Fresh(id) == id = <<"reconcile", 0>>
Fresh(id) == id \in Windowed
WindowPasses ==
  /\ \E id \in Windowed : Fresh(id) /\ jobs[id].state \in {"done", "failed"} /\ Leaves(id, "none")
  /\ UNCHANGED <<effect, report, ready, audit, inHand, tick, failures, operator, row>>
Reported ==
  /\ row = "effect" /\ report = "none" /\ effect.status \in {"RUNNING", "AWAITING_DELIVERY"} /\ report' = "PENDING"
  /\ UNCHANGED <<effect, ready, audit, jobs, inHand, tick, failures, operator, row>>
MessageComes ==
  /\ row = "inbox" /\ ~ready /\ ready' = TRUE
  /\ UNCHANGED <<effect, report, audit, jobs, inHand, tick, failures, operator, row>>
AuditAsked ==
  /\ row = "document" /\ audit.request < MaxRequests
  /\ audit' = [status |-> "PENDING", request |-> audit.request + 1]
  /\ UNCHANGED <<effect, report, ready, jobs, inHand, tick, failures, operator, row>>
(* The panel: the row first, its own job after, unless that call fails.     *)
OperatorRetries ==
  /\ operator < MaxOperator /\ operator' = operator + 1
  /\ effect.status \in {"BLOCKED", "FAILED"} /\ effect' = EffectIs("PENDING")
  /\ \/ Leaves(<<"operator", 0>>, "waiting") /\ UNCHANGED failures
     \/ Breaks /\ UNCHANGED jobs
  /\ UNCHANGED <<report, ready, audit, inHand, tick, row>>

Ticks == Wake \/ Aging \/ Reports \/ Inbound \/ Audits \/ Reconciles \/ Effects
Works(id) == Returns(id) \/ Claims(id) \/ Finishes(id)
Time == Ages \/ ReportAges \/ WindowPasses
Next ==
  \/ Ticks \/ TickBreaks \/ Time \/ TurnRuns
  \/ \E id \in Ids : Works(id) \/ Throws(id) \/ Crashes(id)
  \/ \E r \in 1..MaxRequests : AuditRuns(r) \/ FailureIsRecorded(r)
  \/ Reported \/ MessageComes \/ AuditAsked \/ OperatorRetries
Spec == Init /\ [][Next]_vars
(* The interval fires, workers take their jobs, time passes.                *)
FairSpec ==
  /\ Spec /\ WF_vars(Ticks) /\ WF_vars(TurnRuns) /\ WF_vars(Ages) /\ WF_vars(WindowPasses)
  /\ \A id \in Ids : WF_vars(Works(id))
  /\ \A r \in 1..MaxRequests : WF_vars(AuditRuns(r) \/ FailureIsRecorded(r))
-----------------------------------------------------------------------------
TypeOK ==
  /\ effect.status \in Statuses /\ effect.retry \in 0..MaxRetries
  /\ tick \in 0..Len(Steps) /\ inHand \subseteq EffectIds
  /\ jobs \in [Ids -> [state : JobStates, left : 0..Attempts]]

(* The row waits under an id the queue has used up: its job threw three     *)
(* times, or it was blocked before a claim and put back by an operator.     *)
UsedUp == jobs[<<"effect", effect.retry>>].state = "failed" \/ effect.early
(* A durable row is served in the end, whatever ticks break, jobs throw and *)
(* workers crash: a message is read, an audit is settled or its failure     *)
(* recorded, an effect is tried unless its id is used up.                   *)
Unservable == {"message", "audit", "effect", "running", "report"}
Unserved(kind) ==
  CASE kind = "message" -> ready
    [] kind = "audit"   -> audit.status = "PENDING" /\ jobs[<<"audit", audit.request>>].state # "lost"
    [] kind = "effect"  -> effect.status = "PENDING" /\ ~UsedUp
    [] kind = "running" -> effect.status = "RUNNING"
    [] kind = "report"  -> effect.status = "AWAITING_DELIVERY" /\ report \notin {"none", "HUMAN_REQUIRED"}
DurableRowsAreServed == \A kind \in Unservable : []<>~Unserved(kind)

(* The failure of an old audit job never replaces a committed report or a   *)
(* newer request.                                                           *)
AuditStands == audit.status = "REPORTED" => audit'.status = "REPORTED" \/ audit'.request > audit.request
CommittedAuditStands == [][AuditStands]_vars
=============================================================================
