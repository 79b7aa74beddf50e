# A verification of the APOD service in TLA+

APOD (Apoderamientos) is a TypeScript service that guides a client over WhatsApp
through an *apud acta* power of attorney, audits the document they send, files it
in Kmaleon and hands the case to a person.  It runs on Node.js with PostgreSQL,
Redis/BullMQ and a Redlock lock per case.  This directory models the parts of it
whose correctness depends on order, failure and concurrency, checks the models
with TLC and proves the most important results with TLAPS.

## The system

A case (*expediente*) is a row of `botApodExpediente` with a `version` that every
transition increments.  Whoever changes it holds the lock `lock:apod:<id>`, except
the webhook, which writes an arrival (opt-out, re-engagement, activity) without it.

| Component | State it keeps | Operations | Talks to |
|---|---|---|---|
| Webhook and debounce (`api/server.ts`, `core/debounce-buffer.ts`) | `botApodInbox`, activity and opt-out of the case | ingest a message, a delivery status, a partner callback | writes the case without its lock; wakes the inbound queue |
| Inbox worker (`core/workflow-service.ts` processInbox) | inbox statuses | read a burst as one turn, ask the agent, commit one decision | conversation agent, `transition` |
| State machine (`domain/fsm`, `core/decision-engine.ts`) | none (pure) | `evaluateNextStep(case, event)` | called by `transition` |
| Workflow service | case, version, audit log, tasks | `transition`, `event`, `recoverCase`, document intake, audit, approval | creates outbox rows |
| Outbox (`queue/action-executor.ts`) | `botApodAccion`: status, retryCount, receipt, pinned context | `execute`, `effect`, `delivery` | WhatsApp, Kmaleon, Apudata adapters |
| Dispatcher (`queue/workers.ts`) | none durable | tick: reminders, RUNNING rows over ten minutes, delivery statuses, pending rows | BullMQ queues, `execute` |
| Follow-ups and phase one (`core/automation.ts`, `core/phase-one.ts`) | reminder cycle, anchor, milestones, phase-one outcome | schedule reminders, close at thirty days | outbox, human tasks |
| Adapters | provider side | send, upload, search, read back | the outside world |
| Assisted session (`api/assisted.routes.ts`, `core/assisted-session.ts`) | a child process, a consent watch | consent, draft, review, submission | certificate portal, `transition` |
| Attachments and vault (`core/attachment-intake.ts`, `infrastructure/credential-vault.ts`) | waiting slots, records | what a file is, check of a certificate with its password | inbox worker, certificate inspector |
| Conversation agent (`core/conversation-*.ts`, `adapters/ai`) | the pending option of the case | one event and one reply for a burst | model API, retrieval index |
| Gateway stream (`adapters/whatsapp/gateway-stream.ts`) | a cursor | connect, deliver in order, replay | gateway, webhook intake |
| Trigger poller (`pollAviso27`, `adapters/configured.ts`) | `botApodTrigger` | scan, resolve a project, first contact, link | Kmaleon, workflow service |
| PDF audit, certificate inspector, addresses | none (pure but for time limits) | verdicts with reasons | inbox worker, audit worker, panel |
| Panel (`public/`), emulator (`wce-emulator/`) | one screen; the bridge's buffers and browsers' storage | read, draw, post; emit, replay, reset | HTTP API, webhook |

What is hard in it: an external effect cannot be rolled back, so a timeout, a
crash or a lost lock between the request and the commit leaves an unknown outcome;
delivery reports come in any order and may overtake the response; clients opt out
and operators pause while a message is being prepared; a decision may be outdated
when it is carried out.  Around it, messages arrive while a burst is answered, sockets and
child processes die without a word, records of another system change between two of
its pages, and a model's answer comes in pieces or not at all.  `PROJECT.json` lists these hazards at their lines.

What makes each component correct:

* outbox: an effect happens at most once; what is shown as done was done; an
  unknown outcome is resolved by evidence or a person; nothing is sent to a client
  who opted out; a message leaves only for the state it was decided for;
* dispatcher: no row stays in a transient status for ever;
* state machine: no filing without an audited, approved, reviewed document; no
  payment details without a valid preapproval; COMPLETED only on evidence;
* inbox: every message is settled, none is answered from an outdated draft or after
  a person took the case, and no certificate is lost on its way to the record;
* agent: words are never consent, what is secret or urgent is answered without a
  model, and every text gets an answer;
* follow-ups and first contacts: no burst, no repetition, and an end;
* documents: what is filed is what was audited and approved, the verdict is what the
  pages say, a certificate is kept exactly if it is the client's own;
* whatever waits (a durable row, a delivery, an aviso, a request to a site or a
  model) is served in the end.

## Modules

| Module | What it is |
|---|---|
| `Outbox` | the outbox of one case with its workers, carrier, callbacks, recovery and environment |
| `OutboxOptOut` | what the outbox owes a client who opts out, as a property of `Outbox` |
| `EffectOnce` | what the outbox promises about the outside world, abstractly |
| `OutboxRefinement` | the mapping from `Outbox` to `EffectOnce` |
| `OutboxInvariant` | the inductive invariant `IInv` |
| `OutboxProofs` | proofs about attempts (types, at most once, the refinement) and about promises (the evidence that is kept, what is shown as done, opt-out, the pinned version) |
| `CaseFsm` | the decision table: transition of the state machine and the assertions of the decision engine, as operators |
| `CaseWorkflow` | one case with its documents, outbox rows and inbox, moved by the client, the office, the audit worker, the assisted session, the executor and the carrier through `CaseFsm` |
| `CaseInvariant` | the inductive invariant `CaseInv` of the case |
| `CaseProofs` | proofs about the table (it respects the engine's assertions, what may enter and leave the filing) and the case: filed once, as approved, stages, consent, order, the close |
| `Inbox` | webhook requests without a lock against the one worker of a case: passes, pages, bursts, slots of the vault |
| `Turn` | one turn of the agent: the ladder of its gates, the model's tries, the pending option |
| `ModelClient` | one question to the model's API: chunks, early ends, the time limit, the second attempt |
| `GatewayStream` | the stream's cursor over dying sockets, crashes of the bot and restarts of the gateway |
| `DispatchQueue` | the dispatch tick, BullMQ's jobs by id, the audit job, operator retries |
| `FollowUp` | the reminder cycle of a case, day by day, in both editions |
| `TriggerIntake` | two pollers, the avisos, a project's identity, first contact and link |
| `ContactProofs` | proofs about the two: no burst of reminders, one first contact, none for a settled aviso |
| `KmaleonRecord` | the paged scan of annotations, write, read-back and notice against the office's changes |
| `AssistedSession` | the route, the consent watch, the child with its timers and messages, the draft |
| `CertCheck` | what a file is, which archive opens, which certificate is the client's, and the close of phase one with it |
| `PdfAudit` | the audit of a document page by page, the powers, names and numbers in their windows |
| `Address` | reading and resolving an address, and showing it for a version of the case |
| `RagIndex` | building, saving, loading and using the vector index in two files |
| `Panel` | an operator's screen over several cases: reads, drawing, forms, the server's refusals |
| `WebhookRouter`, `Emulator` | what an envelope is read as; the emulator's bridge and browsers |
| `MCOutbox`, `MCOutboxOptOut`, `MCCaseWorkflow`, `MCInbox`, `MCTurn`, `MCCertCheck`, `MCPdfAudit`, `MCModelClient`, `MCAddress`, `MCEmulator` | inputs and instances for TLC |
| `MCService` | the modules from `Inbox` to `Emulator` as the parts of one specification |
| `InboxProofs` | proofs about what reaches a decision: the inbox, the turn, the check of a certificate, the audit jobs of the queue |
| `ChannelProofs` | proofs about what goes and comes over a wire or a disk: the stream, the emulator's bridge, Kmaleon's record, the vector index, the model's answer |
| `OfficeProofs` | proofs about the panel, the assisted session, the addresses and the audit of a document |
| `ServiceProofs` | the stream, the bridge, the record, the follow-up, the avisos, the index and the model keep inside `MCService` what is proved of them alone |
| `ServiceDeskProofs` | so do the inbox, the turn, the certificate, the audit, the queue, the panel, the assisted session and the addresses |

### How `Outbox` corresponds to the code

`kase` is the case row, with the facts the executor looks at: `version`, `step`
(`stepReached`), `cycle` (`reminderCycle`), `escalated` (ESCALATED_HUMAN), `paused`,
`optOut`, `closed` (phase one closed), `expired` (thirty days passed), `active`
(somebody wrote within a day).  `row[a]` is an outbox row: `retry` is retryCount,
`ctx` the version of the pinned executionContext, `msg` the attempt whose messageId
the receipt holds, `saved` the attempt whose `effectResult` it holds.  An attempt is
named by the retryCount its claim wrote, which stands for `startedAt` as well: both
identify the attempt in `updateMany`.  `wire[a][n]` is what the provider did with the
request of attempt `n`; it is external and may change at any time.  `run[w]` holds
the local variables of one call of `execute`; `lock` who holds the case lock;
`budget` bounds the faults.

One action per step of `execute` between two awaits that others can see: `Begin`
and `TurnAway` (the guards, lines 52-90), `Claim` and `ClaimLost` (108-109),
`Replay` (112), `BeforeEffect` (96-104), `Issue` and the answers, `Commit` (115-139),
`CommitFails`, `Catch` (140-155).  The kinds of row stand for action types, templates
and payloads as far as the code branches on them:

| Kind | Code |
|---|---|
| STEP, MEDIA | a WhatsApp message of the workflow, without and with a document |
| COMPLETION | COMPLETION_NOTICE, whose delivery carries an event |
| REPLY, HANDOFF | template CONVERSATION_REPLY, for the client and with humanHandoff |
| NOTICE | HUMAN_HANDOFF_NOTICE |
| REMINDER | payload.reminderDay |
| FILING | Kmaleon uploads and notices, partner orders: found by their idempotency key |
| PREAPPROVAL | a partner preapproval, which is never repeated |

The environment (`Transition`, `Escalate`, `RecoverCase`, `SetAutomation`, `OptOut`,
`Inbound`, `Reengage`, `ClosePhaseOne`, `ScheduleReminder`, ...) is every other writer of
the case or its rows, reduced to what it changes of the modelled fields.  It leaves
open which event comes and what is decided.

### How `CaseFsm` and `CaseWorkflow` correspond to the code

The two halves of the project share the outbox row.  `Outbox` looks inside one
effect and leaves the decision open; `CaseWorkflow` decides by the state machine and
takes one effect as one step with the outcomes `Outbox` shows it to have: done,
refused, in doubt, turned away.

`CaseFsm` has one operator per handler of `state-machine.ts`, named after it, and
`Transition` for the order in which guided help, the handler of the state and the
global handler answer.  A decision is `[to, act, patch]`: next state, effect, changes
of the case file.  A payload is reduced to what the table tells apart (`says`), a
template to its name where some rule names it and to "STEP" elsewhere, a document to its
id.  `RespectsGates` is what `assertDecisionContract` and `assertInvariants` demand; a
decision that breaks it throws and the caller's transaction is rolled back, which in
`CaseWorkflow` is a step that is not possible.

`CaseAssumption` is what the bounds have to satisfy: natural numbers, `NoDoc` no document
and at least one help attempt.

In `CaseWorkflow` `c` is the case row (`doc`, `approved`, `reviewed`, `audit`,
`provisional`, `consent`, `gate` for the partner's approval, ...), `docs` the
`botApodDocumento` rows (`job` is where the audit of `rawAuditJson` stands, `type` the
documentType, `filed` uploadedKmaleon, `noticed` that a verified notice to the office
exists), `rows` the outbox, `inbox` the taps and withdrawals that wait, each with whether
the request it answers is still the latest (`fresh`), `session` an
open assisted session, `apud` APUD_VERSION, `tally` history only.

The version is modelled by what it is for.  Every row is decided for a version and
counts only while the case still has it: `fresh`.  `Commit` writes the case, makes the
older rows outdated and the waiting answers to older requests worthless when the
version moved.  A panel request with an outdated version is refused, hence no step.

| Actions | Code |
|---|---|
| ClientText, HeldText, ProcessTap, TurnTapAway | a text turn, the acknowledgement of a held case, a tap or withdrawal in processInbox, a tap on an outdated request |
| Tap, Stop, Withdrawal, Reengage | the arrival in `server.ts` and `debounce-buffer.ts` |
| Intake, AuditDone, AuditDropped, Approve, Reject | intakeDocument, auditDocument, approve, the reject endpoint |
| Open, OperatorEvent, Recover, SetAutomation, PaymentConfirmed, OfficeConsent, ... | the panel's endpoints |
| CertificateReceived, DraftReady, SessionFails, SessionLost | the assisted draft, its two transactions and its failure or crash |
| TurnAway, Block, Fail, LoseTrack, Accept, Perform, Reconcile | the outcomes of `execute` on a row |
| Delivered, Bounced, Retry | the carrier's report, the operator's retry |

The case is verified and linked, as `linkKmaleon` creates it, so the identity gate
never holds it.  Events nothing in the service raises are left out of the event sets.

### How the other modules correspond to the code

These parts share no state that the models keep: each talks to the others through a
durable row or a call whose outcome the other side leaves open.  So each has a module
of its own, and `MCService` puts them side by side; a behaviour is of one `part`, and the
variables `s1` ... `s14` stand for the variables of that part.

* `Inbox`.  `rows` are the `botApodInbox` rows with `due` (notBefore), `case` the fields
  the webhook writes without the lock, `vault` the two slots, `pass` the place of the
  worker in `processInbox` with what it has read so far.  `HookReads`, `HookPrepares` and
  `HookIngests` are the stretches of one webhook request between awaits; `ReadFile`,
  `CheckPair`, `SavePair`, the gate, the burst, the thought and the commit those of the worker.
* `Turn`.  A text is its class for each test of the code (`text`), not its words; the rungs
  of `respond` are conjuncts and disjuncts in the order of the code, so that which rung
  wins is what the code decides.  The model may say anything, invalid answers included.
* `GatewayStream`.  `chain` is the promise chain deliveries queue on, `abandoned` the set of
  that name, `seen` what loadCursor returned, `base` where the gateway's numbering begins
  after a restart.  A socket dies silently or with a close; `checkAlive` finds the silent ones.
* `DispatchQueue`.  A job is found by its id; `state` says whether the id is free, waiting,
  done or failed but retained, and `left` the attempts.  A tick is the list of steps of
  `dispatch`, any of which may throw and end it.
* `FollowUp`.  Days are numbers; `rows` are reminders with the pinned cycle and step; the
  client's messages come without the lock.  After the last word the clock goes from one
  milestone to the next, because nothing falls due in between.
* `TriggerIntake`, `KmaleonRecord`, `AssistedSession`, `RagIndex`, `Panel`, `Emulator`: one
  action per stretch between two awaits, messages or events, with the other side (office,
  site, second process, second browser) as actions that may come at any moment, bounded
  by `MaxStaff`, `MaxFaults`, `MaxMoves` or `MaxActs`.
* `CertCheck`, `PdfAudit`, `Address`, `WebhookRouter`: the input is a record of what the bytes
  contain (keys, certificates, pages, names); the algorithm over it is translated whole, and
  the properties compare its answer with a definition of their own that does not follow
  the code's steps.

## What the runs check

| Run | Instance | Properties |
|---|---|---|
| message | one completion message, two workers, retry limit 3 and one replay beyond it, one each of lost lock, crash, fault, stall, fairness | IInv, AtMostOnce, RestartIsSafe, DoneIsBacked, AdvanceIsBacked, UncertainKeepsEvidence, ImplementsEffectOnce (refinement), BarrierLiftsOrSpent |
| trade | a Kmaleon filing and a reminder, version up to 2, a crash, a stall, a change of identity | DoneIsBacked, SentAsDecided |
| optout | version 1, a media message and its blocked notice, a fault, the acts of clients and operators | OptOutHonoured, UncertainKeepsEvidence |
| casefile | two files whose audits pass, both versions, escalation and revocation, one request in doubt, no taps | CaseInv, FiledOnce, FiledIsApproved, StageIsBacked, StagesInOrder, TableRespectsGates |
| casepaths | one file that never passes, both versions, texts and taps of triage, paid route and assistance, an inbox of one | SessionIsConsented, ClosedIsFinal |
| service | the fifteen parts of `MCService` | the next table |
| frozen | one message, one crash, fairness | BarrierLifts is **violated** |
| replay | one message, one failing commit | HistoryIsTrue is **violated** |
| rekey | one filing, one identity change | FailureIsCertain is **violated** |
| rejected | one file, version 2, an escalation and a waiting withdrawal | EveryTapIsDecided is **violated** |
| pair | two or three messages of every kind, one webhook request at a time, no failure | BurstPairChecked is **violated** |
| gateway | two messages, one restart of the gateway, no failure, fairness | EveryDeliveryLands is **violated** |

The run service, by part:

| Property | Parts | What it says |
|---|---|---|
| NothingStaleIsCommitted | inbox, certificate, queue, address | what was read before a wait is not committed when it no longer holds: no answer after STOP or once a person has the case, no certificate on a case that moved, no old audit over a report, no address of an older version |
| MessagesSettle | inbox | every message is settled, unless the case stays jammed (run *rejected*) or a message of ours stays unsent in front of the texts (run *frozen*) |
| CertificateIsKept | inbox | the newest certificate that was read is in its slot or in the record; no pair is confirmed while the record is empty |
| StreamIsSafe, ReplayLands | stream | what is behind the saved cursor is committed, in order; without a restart every message lands |
| ContactsDoNotRepeat, FollowUpEnds | followup, avisos | two reminders are a day apart, one first contact per case and only for an aviso that waits; every follow-up ends |
| DurableRowsAreServed | queue | a message, an audit, an effect, a RUNNING row, a report never waits for ever, unless its job id is used up |
| AvisoIsServed | avisos | an aviso that stays resolvable is processed for good, whatever two pollers write over each other |
| WordsNeverConsent, TurnIsSafe | turn | only a tap or the secure button gives consent; gated texts never reach a model; no text stays unheard |
| OnlyTheClientsOwn | certificate | a pair is kept exactly if archive, key, dates and identity are the client's |
| VerdictIsEarned | audit | a document is valid only if its pages say so: powers not negated, names whole, the identity number right, no single typing error accepted |
| RequestsEnd, AssistanceIsSafe | assistance, model | requests end whatever hangs; a draft is consented work of a child that ended well |
| PiecesBelongTogether | index, model | examples are ranked with their own vectors; an answer is all of one call |
| RecordIsSafe | record | written once, searched by whole scans, announced when it is there |
| NeverGuesses | address | a district that is shown is not a guess |
| PanelIsSafe | panel | what a request of the panel writes is written to the case as it was drawn when the operator decided |
| BridgeIsSafe | bridge | a reset demonstration is gone, nothing is shown twice, no client writes the bot's own notes |

Where the code leaves a gap, the property names it: `UsedUp` job ids, `blind` scans,
`slipped` identities, `mixed` index files, a case `Jammed` by the run rejected, texts `Barred` by a message of ours as in the run frozen, a case the
`office` resumed on the day of a reminder in doubt.

The six violations disagree with comments or documents of the repository:

* *frozen*: `workers.ts:45-47` says an uncertain send is queued again instead of
  freezing the conversation, but line 49 leaves out rows whose attempts are used up.
  Crash twice, or once in the last attempt, and the client gets no further reply;
  the operator's retry refuses the row too (`server.ts:191`).
* *replay*: a commit fails after WhatsApp accepted the message, the delivery then
  fails, and the operator retries.  The receipt still has the saved result, so
  nothing is sent, and the text `action-executor.ts:274` removed returns to the history.
* *rekey*: the read-back after a Kmaleon write of unknown outcome may report an
  identity mismatch as not applied (`kmaleon-gateway.ts:143`), though the write may
  have arrived; AtMostOnce therefore covers filings while the project keeps its identity.

* *rejected*: an escalated case is held with NO_OP, which `decision.contract.ts:140`
  refuses, so every event but an accepted resume throws there, though
  `decision-engine.ts:207-208` promises a safe decision for every business situation.  A
  tap, STOP or withdrawal received before the escalation throws at every pass of
  `processInbox`, stays PENDING and keeps what follows it waiting.  A client's STOP has
  silenced the case on arrival all the same; a withdrawal the operator typed in has not.

* *pair*: a certificate is read and waits for its password; the password arrives before the
  burst with the certificate's line is answered and joins it.  The line wins
  (`workflow-service.ts:330`), the password is dropped, and the client is asked for it, though
  lines 328-329 say the pair was checked already.
* *gateway*: a restarted gateway numbers anew.  If it has received as many messages as the
  saved cursor before the bot looks, or an old delivery moves the saved cursor after the
  restart, `gateway-stream.ts:79` sees no restart and the first messages are skipped for good.

### Bounds

Every fault of one kind may happen once, at any point: two faults of different
kinds in one attempt, and one in each of several attempts, are covered.  Two workers are
enough for every race between two calls of `execute` on a row.  `MaxRetries` is the
schema's 3 (2 where two rows are modelled).  `MaxAttempts` is one more, because a saved result
may be committed again beyond the limit.  Two rows are enough for the interplay of a
message with its blocked notice and of a reminder with another row.  `MaxVersion`,
`MaxStep` and `MaxCycle` bound the environment; each guard compares one earlier and
one later value.

`CaseWorkflow` is bounded without cutting its behaviours short.  `HelpCap` is the
largest count of help attempts a rule compares.  `MaxInbox` 1 lets a withdrawal wait
while everything else goes on; the second one in the queue only waits for the first.  `MaxDoubt`
1 leaves one request in doubt beside any number of settled ones.  Two documents are
enough for a replacement at every moment, one while another is audited, approved
or filed; the paths that need no filing are checked with one whose audit fails.  Which texts
and taps come is chosen per run so that every state of the table is entered in one of them.

In the run service each part is bounded where its hazards need it.  inbox: eleven sequences of two
or three messages, pages of two, one request at a time, one failing pass; a burst of three
crosses a page.  stream: two messages, a dead socket, a restart and a failed commit.
followup: one message or act of the office within the first three days, one lost outcome, 33
days, so that the thirtieth day of the last cycle is reached.  queue: two attempts per job,
three failures, two audit requests.  certificate, audit, address, turn: every combination of
the classes in their MC modules.  bridge: three acts, which a repetition needs, buffers of two,
foreign envelopes first, since they share only the inbox with the rest.
assistance: two faults at once.  record: pages of one row, one change by the office, three calls.
avisos: two pollers, two projects, one change and one lost lock.  index: two builds, a restart
and two loads of two packages.  panel: two cases and four acts in all, an act being a click on
a case, a form sent or a change by somebody else; answers are not counted.  That is two reads under
way, of one case or of both, or two requests beside a change of the case (an approval leaves the
other forms free).  The pairs of stages the two start in are chosen (`Beside`) so that each stage
with a form meets a second case.

Symmetry is not used: the two actions differ in kind, and the liveness run must not
use it.  Deadlock is not checked: with the budget spent, everything settled and no
client writing, the system may rest.

### Fairness

`FairSpec` assumes that a call of `execute` keeps going (every remote call has a
timeout, `http.ts:36`), that an aborted lock signal is noticed, that the dispatcher
picks up what `workers.ts:48-53` selects (five-second tick) and that a RUNNING row
nobody owns turns UNCERTAIN after ten minutes.  Nothing is assumed of the providers,
of clients or of operators.

In the run service the worker of a case, the stream's reconnection, the tick, the queue's
workers, the pollers, the clock and the timers of a child process or a model call go on,
each because an interval or a timer of the code drives it; a webhook request that was
read is finished, and a row falls due.  Nobody has to write, answer, connect or approve.
Nor does a message of ours have to get through (`Delivered` of `Inbox` has no fairness): an
uncertain one whose attempts are spent is not queued again (`workers.ts:49`, run *frozen*), and
while it stands `workflow-service.ts:295` keeps the texts waiting.  `MessagesSettle` therefore
leaves out `Barred`: a message of ours is unsent and the page of what waits holds texts only.  Since
only one part lives in a behaviour, `Fairness` lets one line speak for several.
`P ~> ~P` is written `[]<>~P`, which is the same and needs no tableau.

## What is proved

TLAPS proves, for every set of rows and workers, every assignment of kinds and every
bound that satisfies `OutboxAssumption`:

* `TypeCorrect`: `Spec => []TypeOK`;
* `EffectsAtMostOnce`: `Spec => []AtMostOnce`;
* `RestartsSafe`: `Spec => []RestartIsSafe`;
* `InvariantHolds`: `Spec => []IInv`;
* `OutboxImplements`: `Spec => ImplementsEffectOnce`, the refinement of `EffectOnce`;
* `EvidenceKept`: `Spec => UncertainKeepsEvidence`.

`AtMostOnce` alone is not inductive: from a state where a second worker is about to
send, the next step breaks it.  `IInv` adds why that state is not reached:

1. *Numbering*: attempts are numbered by claims, so whatever refers to an attempt is at
   most retryCount, and a new claim gets a number nobody knows.
2. *Distinct*, *Private*: no two workers hold one attempt, and nobody else
   knows the message of an attempt still held.
3. *Claimable*: a worker that may send (a starter: it holds an attempt and does not
   merely reconcile) has a row that cannot be started afresh.  The catch block, the
   dispatcher and the delivery callbacks keep this even when the worker lost its lock or its row.
4. *OneStarter*, *Alone*, *Honest*: hence there is one starter, every other request's
   outcome is known, and a failure it reports is a certain one.

The proof that a step keeps `IInv` first shows that most actions only change one worker's
local state or make a row less startable (the frame lemmas), and treats
the claim, the request, the commit, the catch block and the callbacks one by one.
The refinement and the evidence theorem use `IInv`: a callback's messageId names an
applied attempt, and nothing but the listed steps leaves UNCERTAIN.

### What the outbox shows and withholds

* `DoneBacked`, `AdvanceBacked`: `Spec => []DoneIsBacked` and `Spec => []AdvanceIsBacked`.
  Both only speak of rows.  Between the request and the commit the evidence is in the local
  variables of a worker, or in a saved result that a later attempt replays, and `Evidence`
  says that what is kept there was applied.  `EvInv` is `Evidence` with both; it is inductive
  beside `IInv`.
* `OptOutKept`: `Spec => OptOutHonoured`.  The last check of `execute` is one step with what
  it reads, so this needs types only, but it needs every action looked at: the theorem
  says that none but `BeforeEffect` and the refusals takes a worker to the request.
* `InTimeHolds`, `LockedSends`, `DecidedSends`: until a lock is lost, whoever works has
  it, the row it works on exists and was decided for the case as it is (`InTime`).  Hence
  `SentWhileLocked`, for any number of losses, and `SentAsDecided` under
  `MaxLosses = 0`, which is what the runs that check it assume.  Once a lock is lost the code may
  send what is outdated, so the hypothesis cannot go.

### The decision table

* `TableKeepsGates`: for every snapshot and paper of the right types, every event the
  service can raise and every state but ESCALATED_HUMAN and COMPLETED, the decision of
  `Transition` satisfies `RespectsGates`.  One case per state and, below it, per
  event; the engine's "defense in depth" comment is thus a theorem, except in the two
  states the run *rejected* is about;
* `TypedIsSafe`: `TypeOK => TableRespectsGates`;
* `TableClassified`: what the table may decide, in seven classes.  A filing is entered
  by the approval of the document the case points to, left forwards by its verified upload,
  completed by the delivered notice, and otherwise left for a state outside the filing or
  for a person.

### The case

`CaseInvHolds` is `Spec => []CaseInv`, for every set of files, reports, texts, buttons and panel
events and every bound that satisfies `CaseAssumption`.  From it follow `CaseTyped` (`TypeOK`),
`TableHolds` (`TableRespectsGates` in every reachable state), `FiledAtMostOnce`, `FiledAsApproved`,
`StagesBacked`, `SessionsConsented`, and from the step it is proved with `StagesOrdered` and
`CloseIsFinal`.

`FiledOnce` is far from inductive: after an upload that was lost, nothing in it keeps
a later file, rejection, draft, escalation or recovery from approving the document
afresh.  `CaseInv` adds why not:

1. *ApprovalsStand*: an approved document was audited and typed as the audit found it, and
   what is filed is approved.
2. *UploadsAreFilings*: an upload waits or is in doubt only while the case is in
   KMALEON_FILING with that document, or a person took over from there (`Held`).  There is
   one, and its document is approved and not filed.
3. *UploadsAccounted*: a request to Kmaleon was verified or its row still says it is in doubt.
4. *StagesNameDocument*, *StageIsBacked*, *SessionIsConsented*, *ClosedIsQuiet*.

The proof has three layers.  `TableClassified` is lifted to `DecisionMoves`: what one committed
decision does to the case and to the rows.  `UploadsFollow` shows that every such move
leaves the uploads where they may be, so a text, a tap, a panel event and a delivery are
settled together.  Only the steps that touch a document get an argument of their own: the
approval (nothing else may be in doubt when it comes), the attempt, its settling, the
report of an audit, a new file and a draft.

### The stream

`StreamHolds` is `Spec => [](CursorIsCommitted /\ InOrder)` for any number of messages,
sockets, failed deliveries and crashes of the bot; both properties speak of the time until the
gateway restarts, when it numbers its messages afresh.  `StreamInv` adds why:

1. *NoGap*: from a socket no delivery of which failed, everything below what it carried has
   landed or is in the chain before it.  This is what `abandoned` is for: without
   it, what came behind a failed delivery would be handled with the failed one missing.
2. *LandedUpTo*: below `cursor`, `saved` and the cursor a connect is about to open a socket
   with, everything has landed, so a socket that opens there opens without a gap.
3. *HeadIsTaken*, *InboxHasNoGap*: a delivery under way was not passed over, and every
   message in the inbox has all those before it there.

Hence `HandledIsNext`: what is handled at the head of the chain is new and everything before it
has landed, which gives both the cursor and the order.  An old socket's deliveries
may still queue behind a new socket's: they repeat what the cursor has passed.

### The panel

`PanelHolds` is `Spec => []DecidedAsDrawn`, for any set of cases and any bound.  `PanelInv` says of
every read, under way or on screen, and of what every request was drawn from, that it is older than
its case, or the case as it is but for what has no version (`ReadOf`, `Same`): a consent or an
approval that lapsed, an opt-out.  Every other step writes a new version (`FileStep`), so what was
read stays so (`ReadStays`); and a request that finds its version (`Current`) finds the case as it
was drawn.  Nothing is said of a form being taken: approve and recover are offered where the
server refuses them (see below).

### The assisted session

`AssistedHolds` is `Spec => [](DraftIsConsented /\ ReturnedIsClean)`, for any number of faults, with
the fact that a stored draft is one the session returned.  `SessionInv` says why: the outcome of
the session is decided once, by the exit the parent sees while nothing has failed, and the
child does not change after it (`OutcomeStays`); and each step of the route stands on the look
before it (`RouteLooked`): past the transaction's first look the version cannot move, and past the
second a withdrawal is late.

### The record

`RecordHolds` is `Spec => [](WrittenOnce /\ NoticeHasDocument /\ ScanIsWhole)` under the one hypothesis
`Page \in Nat`, for any number of calls and of changes by the office.  `RecordInv` adds:

1. *ScanFollows*: unless rows were both added and removed, a scan whose total still fits has the
   rows of the record in their places.  Rows may be added at either end, so an addition shifts
   every place; but then the total gives it away.  `ScanIsWhole` follows, since a scan of the
   record's length with every row in its place is the record.
2. *AskedIsKnown*: what was asked for is proved, in doubt, or about to be read back, or a call
   slipped; hence a call that may write finds that nobody asked before it.
3. *IdsAreGiven*, *DocumentStood*: an id is never given twice, so the document a notice is about,
   read in this scan, stood when the scan began.

### The follow-up

`NeverABurst` is `Spec => []NoBurst` for any clock, any number of messages of the client, pauses,
resumes and lost sends.  `NoBurst` looks at what was sent only; `FollowInv` ties it to the rows
and to the case:

1. *OneUnderWay*: at most one reminder is pending, running or in doubt, and the ones of its cycle
   that were executed were of earlier milestones.  This is what an uncertain row is worth to the
   scheduler: while it stands, `InTheWay` keeps every other reminder back.
2. *SentHasRow*: what the client got has a row that is in doubt, executed, with a person, or
   running under the lock with its request gone.  So a row that is about to be sent was never sent.
3. *TodayIsKnown*: a reminder of today is remembered by `said` in its own cycle, and when the
   cycle is over, by the client's message or the office that ended it.  `recentConversation`, read again
   right before the request, sees it.
4. *LockIsOwned*: between its look and its write a tick is only overtaken by the client and the
   webhook, which open a new cycle and touch no row, so what it decided on still holds of its cycle.

`SetStep` (one row moves on), `CycleStep` (a new cycle) and `StayStep` (the case alone) carry
nearly all the actions.

### The avisos

`FirstContact` is `Spec => [](OpenedOnce /\ NoStaleContact)` for any avisos, expedientes, pollers and
lost locks.  A link opens a case at most once whoever makes it (`LinkedOnce`).  The inductive
part of the other (`StoodWhenTaken`) is that no aviso comes back: one seen to wait at the second look
was waiting when the poller turned to it.

### The inbox

`NoCertificateIsLost` is `Spec => []CertificateIsKept` (every certificate file that was read has itself
or a later one in the slot or in the record, and no pair is confirmed while the record is empty; of
passwords and of older certificates it says nothing) and `TurnsAreStopped` is
`Spec => [][DropsAfterStop /\ LeavesToPerson]_vars`, for any stories (`StoriesAreSent`: sequences of kinds of
message), any number of concurrent requests, page size and failures.  `InboxInv` has six parts:

1. *DueInOrder*: of two conversational rows the later is never due first, so a pass that takes a
   page of what is due leaves nothing older behind.
2. *FilesInOrder*: the files in hand come before those that wait, and all of them after the
   certificates that were read.
3. *PairInHand*, *SaidIsSaved*: what a pass is about to save or clear is the pair it read, and what was
   reported as kept was saved.
4. *LockHolds*: under the lock the stage of the case is the one the pass read, and not a person's once
   the gate is passed.  A STOP comes from a request that holds no lock; if it came after the last look at
   the case, there is a pending row newer than the ones the turn read, which the transaction counts.  Hence a
   turn is committed only on a case the bot may still answer (`CommitsOnOpenCase`).

### The turn

`TurnHolds` is `Spec => [](GatedTextStaysLocal /\ TextIsAnswered)` and `WordsHold` is
`Spec => WordsNeverConsent`, for every set of texts, snapshots and answers of the models.

1. *AskedInv*: the brain is asked only about what `BrainReads` lets through, and the other models only about
   a text no gate stops.  The ladder of the deterministic agent is what makes the second half true:
   for every gated text it has a reply (`GatedIsAnsweredLocally`).
2. *CaseInv*: until the turn is decided the case is one that hears words, and the decision is an
   event that words may raise and that the case hears.
3. The lemmas behind it go through the decision table: an option is offered only where it is answered
   (`ChoiceIsAnswered`, `CertificateIsAnswered`), evidence a model brings is heeded (`EvidenceIsHeeded`), and in no
   state does the table give consent or a review for anything but a button (`QuietTable`).

The hypothesis `Snapshots` says of which cases a turn is decided: not closed, not with a person, in
MOBILE_ASSIST_PROCESSING only with consent, and in MOBILE_ASSIST_CONSENT_REQUESTED only with the
certificate known to be there.  A case with a person never reaches the agent (`workflow-service.ts:302`),
and a completed one answers nothing by design (`state-machine.ts:1178`).  The last two are how the
table enters those states.  They are needed: without them TLC finds the two unheard texts listed
among the known weaknesses, in snapshots that the run does not contain.

### The certificate and the audit jobs

* `ClosedAsLoaded`: `Cer!Spec => [][ClosesAsLoaded]_vars` for any set of uploads.  `CheckInv`: no answer is given before
  the last step, and the transaction and the close come after a record was saved.
* `CertificateHolds`: `Cer!Spec => []OnlyTheClientsOwn`, if an upload is a file (`UploadsAreFiles`: sequences of
  passwords, keys and certificates, with finitely many identities in each; the office gives one password).  `OwnInv` says what each step of the check has found out of the file; the
  rest is that the one leaf that is left is the client's, with a key of its own, and that a file with such a pair is not refused.
* `ReportsStand`: `Que!Spec => [][AuditStands]_vars` for any number of retries, breaks and requests.  A run
  and a failure act only on a document that is still PENDING, and only a new request makes it so
  again, with a number of its own (`AuditStep`).

### The audit of a document

`AuditHolds` is `Pdf!Spec => [](VerdictIsEarned /\ TyposAreCaught)` for every set of `Documents`: texts that are sequences
of words, a finite set of the client's names, numbers for pages, and a limit of pages that is not below the five a
power of attorney has.

1. *PdfInv*: every page counted as read is one that can be read, and what is judged has been read to the limit.
2. `NameIsFound` and `Heard`: a name is whole where the windows find it, and a negation is heard in its window.  Both compare
   places in the text, which `At` gives as a recursive function.
3. `LettersCatch`: one digit that differs, or two neighbours that are swapped, change the remainder by 23 (`OneDigitShows`,
   `TwoDigitsShow`), so the check letter shows it.

### The model's answer

`AnswerHolds` is `Mod!Spec => []AnswerIsWhole` for every size of the chunks and every set of answers that meets `SaysOneThing`: no
proper beginning of an answer is an object.  The hypothesis is needed: from an object with text after it a stream that is cut
off after the object would make an answer, in the code as in the model.

*AnswerInv*: while the body is read there are numbers a and r such that the symbols that have arrived are the first r, the
content is what the first a lines say, the remainder is what came after them, and what is under way begins at symbol r + 1 (`Stands`).
`ChunkRead` is the step: whatever the chunk, the whole lines and the remainder of what has come are again such
pieces.  It rests on what every symbol of the stream is (`SymbolAt`, `DeltaAt`) and on what any of its parts that begins
with a line says (`LinesSay`).

### The addresses

`NoGuess` is `Adr!Spec => []NeverGuesses` for every catalogue that is a sequence and every address.
`AskInv` says that an answer shown is what `Resolve` makes of the catalogue that was read; the rest is
about `Resolve`: the index of a catalogue that was accepted holds a spelling only with the districts it
names, so one district for the deciding spelling is the only one (`ResolvedWell`).

### The demonstration and the examples

* `BridgeHolds`: `Emu!Spec => [](ClearedIsGone /\ ShownOnce /\ MarkersAreTheBots)` for any number of browsers and messages,
  if the three limits are numbers (`Limits`).  `BridgeInv`: what the bridge keeps is of its session
  (`KeptIsCurrent`), what a browser shows is of its own (`ChatIsOwn`), and the frames on the way fit:
  a message always comes after the frame that takes up its session (`FramesFit`), so a browser that the bridge
  counts will follow it (`CountedFollow`).
* `ExamplesAreOwn`: `Ind!Spec => []RankedByOwn` for any packages.  `IndexInv`: an answer is ranked with the index in
  memory, and that index, unless its two files were of different builds, has the vectors of this package.

### In the service

`MCService` composes the modules from `Inbox` on.  A behaviour of it keeps its part, and its
steps are the part's, so it keeps the part's invariant (`Kept`).  The proofs are in two modules because
of their size: `ServiceProofs` has `ServiceStream`, `ServiceBridge`, `ServiceRecord`, `ServiceContacts` and `ServicePieces`;
`ServiceDeskProofs` has `ServiceInbox`, `ServiceTurn`, `ServiceWords`, `ServiceCertificate`, `ServiceAudit`, `ServicePanel`,
`ServiceAssistance`, `ServiceAddress` and `ServiceCommitsFresh`, which puts the inbox, the certificate, the queue and the addresses
together into `NothingStaleIsCommitted`.  Each begins with lemmas that a part is the same
specification under the name it has in the proofs (`SameInbox` and so on), and shows that the hypotheses of
the part's theorem hold of the values the run gives it (`TheStories`, `TheSnapshots`, `TheUploads`,
`TheDocuments`, `TheCatalogues`, `TheLimits`, `TheAnswers`).

### Recursion

A recursive function is a choice among the functions that satisfy its equation.  Where a proof needs its values
(`At` of `PdfAudit`, `chunks` of `ModelClient`), it shows that such a function exists and what its values are; where
that goes from one argument to the next, no argument can be the least that fails (`Smallest`, from the well-founded order
of the naturals).  The library's induction theorems take an operator and are not used.

### Only model-checked

* The six violations.
* Everything under fairness, which is beyond the proof system, as is ENABLED:
  `MessagesSettle`, `ReplayLands`, `DurableRowsAreServed`, `FollowUpEnds`, `AvisoIsServed`, `RequestsEnd`, `BarrierLiftsOrSpent`.

`MarksNameDocument`, `RunningEnds`, `TypeOK` of the modules without a type theorem and a few more definitions are
stated in the modules but in no run.

## Not modelled

* Wording, templates, layout, logging, hashes and audit-log rows.
* The early returns of `execute` update by id alone; the model writes in
  the step that reads, so a write after a lost lock is not covered there.
* In `Outbox`, re-engagement reads the case and lifts the pause in one step (two in `Inbox`).
* Redis failure beyond a job that is lost or repeated, clock skew between machines.
* `lastOutboundAt` is part of `active`, with the reminder cycle of the attempt left out.
* In `CaseWorkflow`: reminders, saved steps and their cycles, human tasks, the history
  of messages, the one-hour age of a consent (a session may end at any time), claims and
  retry limits of rows (see `Outbox`).  A reply's step check is left to the outcome Fail.
* States the code can rest in that no property forbids, because nothing in the code
  promises otherwise: an upload outdated by small talk while the case is in
  KMALEON_FILING (`docs/CODEX_VERSION_FENCING_FIX.md`), a provisional approval in version
  1, a parked document after a recovery, a draft-review request cancelled by the pause that
  the certificate brought, an order confirmed again while the first is in doubt.
* Two cases: rows, lock and version of different cases are disjoint.
* Regular expressions, prompts and wording: a text is the set of tests it passes.  The order of
  replies within one paragraph (`compound-reply.ts`) and the memory of a case are not modelled.
* Extraction of text from a PDF, ASN.1, HTML of the certificate portal: their result is an input.
* Known weaknesses that no property forbids: a STOP that an older concurrent message lifts
  again (`server.ts:254`); a record of a certificate left in the vault by a refused transaction
  (`phase-one.routes.ts:47`); a withdrawal in free words during an assisted session
  (`conversation-agent.ts:293`); a legacy search whose cached client data make every later
  poll of an aviso fail (`configured.ts:194`); a malformed project that ends every scan
  (`kmaleon-reviewed.ts:72`); one unreadable message that refuses its whole envelope
  (`webhook-router.ts:45`); the cross-check of a PDF outside its time limit (`pdf-auditor.ts:270`);
  a message of ours in doubt with its attempts spent, which holds the client's texts for ever, and
  behind a full page of them the documents too (`workflow-service.ts:232`, `295`).
* Weaknesses of the panel: every document without approval can be sent for approval and every escalated
  case for recovery, also where the server refuses it (`app.js:23`, `case-tools.js:373` against
  `workflow-service.ts:165-171`, `194-201`), as it refuses all forms but two of a case closed in
  phase one; two approval forms open at once share the id `approval-form`, and the first sends what was
  chosen for the second (`app.js:29`).
* Of the panel: the upload, the pause, the history, the outcome and the certificate of phase one, the
  human tasks, and the searches of the inbox that leave no case selected.
* Two texts that get no reply: in MOBILE_ASSIST_CONSENT_REQUESTED, after the brain noted on the way that the
  client has no certificate, a wish for the computer that names no device becomes HAS_CERT_YES
  (`conversation-agent.ts:110-122`), which that state does not answer; and in MOBILE_ASSIST_PROCESSING, when an operator
  resumed the case there without a consent, what the state hears only with one.
* Command line scripts, the page's components, listings, authentication.

## Plan

1. **Outbox**, **CaseFsm**, **CaseWorkflow**: modelled, checked and proved but for liveness.
2. **Inbox**, **GatewayStream**, **DispatchQueue**, **FollowUp**, **TriggerIntake**, **KmaleonRecord**,
   **AssistedSession**, **Turn**, **ModelClient**, **CertCheck**, **PdfAudit**, **Address**, **RagIndex**, **Panel**,
   **Emulator**: modelled and checked, and proved but for liveness.
3. Left: events the partner could raise, compound replies, template parameters.
