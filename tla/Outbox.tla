-------------------------------- MODULE Outbox --------------------------------
(***************************************************************************)
(* The durable outbox of one case (expediente): the rows of botApodAccion, *)
(* the workers that run ActionExecutor.execute on them, the carrier that   *)
(* applies their remote effects, the delivery callbacks, the dispatcher's  *)
(* crash recovery and everybody who changes the case meanwhile.            *)
(*                                                                         *)
(* One case is enough: rows, lock and version of different cases are       *)
(* disjoint.  A row is one record; an attempt is named by the value of     *)
(* retryCount its claim wrote, which is also what startedAt identifies.    *)
(***************************************************************************)
EXTENDS Integers, FiniteSets

CONSTANTS
  Actions,      \* the rows this behaviour may create
  Workers,      \* concurrent calls of execute (BullMQ concurrency)
  Kind,         \* [Actions -> Kinds]
  Fallback,     \* [Actions -> Actions \cup {NoAction}], the blocked-notice-<id> row
  NoAction, Free,
  ApudVersion,  \* 1 or 2, the environment's APUD_VERSION
  MaxRetries,   \* maxRetries of every row (3 in the schema)
  MaxAttempts,  \* bound: claims per row, replays of a saved result included
  MaxVersion, MaxStep, MaxCycle,                          \* bounds on the case
  MaxLosses, MaxCrashes, MaxFaults, MaxStalls, MaxRekeys  \* bounds on faults

Kinds == {"STEP", "COMPLETION", "MEDIA", "REPLY", "HANDOFF", "NOTICE",
          "REMINDER", "FILING", "PREAPPROVAL"}
Attempts == 1 .. MaxAttempts

ASSUME OutboxAssumption ==
  /\ NoAction \notin Actions /\ Free \notin Workers
  /\ Kind \in [Actions -> Kinds]
  /\ Fallback \in [Actions -> Actions \cup {NoAction}]
  /\ \A a \in Actions : Fallback[a] # NoAction =>
       Kind[Fallback[a]] = "HANDOFF" /\ Fallback[a] # a
  /\ ApudVersion \in {1, 2}
  /\ MaxRetries \in Nat \ {0} /\ MaxAttempts \in Nat /\ MaxRetries <= MaxAttempts
  /\ {MaxVersion, MaxStep, MaxCycle} \subseteq Nat
  /\ {MaxLosses, MaxCrashes, MaxFaults, MaxStalls, MaxRekeys} \subseteq Nat

VARIABLES
  kase,     \* botApodExpediente
  row,      \* botApodAccion, by action
  wire,     \* what the carrier did with each attempt's request
  history,  \* actions whose text is in the conversation history
  fired,    \* actions whose event moved the case
  lock,     \* holder of lock:apod:<id>
  run,      \* local state of each execute call
  budget    \* faults that may still happen

vars == <<kase, row, wire, history, fired, lock, run, budget>>

Statuses == {"ABSENT", "PENDING", "RUNNING", "AWAITING_DELIVERY", "EXECUTED",
             "BLOCKED", "FAILED", "UNCERTAIN", "HUMAN_REQUIRED", "STALE",
             "CANCELLED"}
(* flying: sent, outcome open.  bounced: failure report not yet processed; *)
(* buried: processed.  A request that is lost stays flying for ever.       *)
WireStates == {"none", "flying", "accepted", "refused", "delivered",
               "bounced", "buried"}
PCs == {"idle", "claim", "prepare", "upload", "send", "wait", "commit", "catch"}
Errors == {"none", "app", "context", "fault", "refused", "uncertain"}
NoVersion == -1

Idle == [pc |-> "idle", act |-> NoAction, rec |-> FALSE, seen |-> 0, att |-> 0,
         ver |-> 0, step |-> 0, team |-> FALSE, aborted |-> FALSE,
         tried |-> FALSE, prior |-> 0, res |-> 0, err |-> "none"]

-------------------------------------------------------------------------------
(* Kinds of row, as actionType, template and payload tell them apart.       *)

IsWhatsApp(a) == Kind[a] \notin {"FILING", "PREAPPROVAL"}
IsReply(a) == Kind[a] \in {"REPLY", "HANDOFF"}     \* template CONVERSATION_REPLY
ForTeam(a) == Kind[a] \in {"HANDOFF", "NOTICE"}    \* payload.humanHandoff
IsReminder(a) == Kind[a] = "REMINDER"
Searchable(a) == Kind[a] = "FILING"                \* provider finds our key
Moves(a) == Kind[a] \in {"COMPLETION", "FILING", "PREAPPROVAL"}  \* has an event

(* A request that may have reached, or may yet reach, the outside world and *)
(* that nobody here knows to have failed.                                   *)
Open(a, n) == wire[a][n] \in {"flying", "accepted", "delivered", "bounced"}
Applied(a, n) == wire[a][n] \in {"accepted", "delivered", "bounced", "buried"}

(* automationPaused and optOutAt, read by execute and again by beforeEffect *)
Mut_Silenced(k, team) == k.paused /\ ~team
Silenced(k, team) == k.optOut \/ (k.paused /\ ~team)

Expired(k) == ApudVersion = 1 /\ k.expired
ReminderStale(r, k) ==
  r.cycle # k.cycle \/ r.step # k.step \/ k.active \/ k.escalated

(* execute: the early returns of a first attempt, in the code's order *)
Mut_Outdated(a, k) == IsReply(a) /\ row[a].step # k.step
Outdated(a, k) ==
  IF IsReply(a) THEN row[a].step # k.step
  ELSE ~IsReminder(a) /\ row[a].expected # k.version

FreshVerdict(a, k) ==
  IF \/ k.closed
     \/ ApudVersion = 1 /\ ~IsWhatsApp(a)
     \/ Silenced(k, ForTeam(a) /\ k.escalated)
     \/ IsReminder(a) /\ ReminderStale(row[a], k) THEN "CANCELLED"
  ELSE IF Outdated(a, k) THEN "STALE"
  ELSE IF row[a].retry >= MaxRetries /\ row[a].saved = 0 THEN "HUMAN_REQUIRED"
  ELSE "GO"

(* execute: the early returns of a reconciliation *)
PinnedVersion(a, k) == IF row[a].ctx # NoVersion THEN row[a].ctx ELSE k.version
ReconcileVerdict(a, k) ==
  IF \/ row[a].retry >= MaxRetries /\ row[a].saved = 0
     \/ PinnedVersion(a, k) # row[a].expected THEN "HUMAN_REQUIRED"
  ELSE "GO"

Verdict(a, k) == IF row[a].status = "UNCERTAIN" THEN ReconcileVerdict(a, k)
                                                ELSE FreshVerdict(a, k)
DeadlineDue(a) == row[a].status = "PENDING" /\ Expired(kase) /\ ~kase.closed

-------------------------------------------------------------------------------
(* Helpers: one row and one worker change at a time.                        *)

Go(w, pc) == [run EXCEPT ![w].pc = pc]
Throw(w, err) == [run EXCEPT ![w].pc = "catch", ![w].err = err]
At(w, pc) == run[w].pc = pc
Release(w) == IF lock = w THEN Free ELSE lock

(* updateMany where status RUNNING and startedAt is this attempt's *)
OwnsAttempt(w) ==
  row[run[w].act].status = "RUNNING" /\ row[run[w].act].retry = run[w].att

Spend(kind) == budget[kind] > 0 /\ budget' = [budget EXCEPT ![kind] = @ - 1]

(* a new botApodAccion row, created with the version the case now has *)
NewRow(version, step) ==
  [status |-> "PENDING", expected |-> version, step |-> step,
   cycle |-> kase.cycle, retry |-> 0, ctx |-> NoVersion, msg |-> 0, saved |-> 0]

(* transition() creates the row its decision asks for, or none (NO_OP). *)
Decidable == {"STEP", "COMPLETION", "MEDIA", "REPLY", "FILING", "PREAPPROVAL"}
Decided(rows, version, step) ==
  {rows} \cup {[rows EXCEPT ![b] = NewRow(version, step)] :
                 b \in {b \in Actions : rows[b].status = "ABSENT" /\ Kind[b] \in Decidable}}

(* closePhaseOne: rows that are not in flight are cancelled with the case *)
ClosedCase == [kase EXCEPT !.closed = TRUE, !.paused = TRUE,
                           !.cycle = @ + 1, !.version = @ + 1]
Mut_CancelledOnClose == {"PENDING", "BLOCKED", "FAILED", "UNCERTAIN"}
CancelledOnClose == {"PENDING", "BLOCKED", "FAILED"}
Cancelled(statuses) ==
  [a \in Actions |-> IF row[a].status \in statuses
                     THEN [row[a] EXCEPT !.status = "CANCELLED"] ELSE row[a]]

Init ==
  /\ kase = [version |-> 0, step |-> 0, cycle |-> 0, escalated |-> FALSE,
             paused |-> FALSE, optOut |-> FALSE, closed |-> FALSE,
             expired |-> FALSE, active |-> FALSE]
  /\ row = [a \in Actions |-> [NewRow(0, 0) EXCEPT !.status = "ABSENT"]]
  /\ wire = [a \in Actions |-> [n \in Attempts |-> "none"]]
  /\ history = {} /\ fired = {}
  /\ lock = Free
  /\ run = [w \in Workers |-> Idle]
  /\ budget = [losses |-> MaxLosses, crashes |-> MaxCrashes,
               faults |-> MaxFaults, stalls |-> MaxStalls, rekeys |-> MaxRekeys]

-------------------------------------------------------------------------------
(* execute(id), step by step.                                               *)

(* The lock is taken, row and case are read, and every guard lets it pass.  *)
Begin(w, a) ==
  /\ At(w, "idle") /\ lock = Free
  /\ row[a].status \in {"PENDING", "UNCERTAIN"}
  /\ ~DeadlineDue(a) /\ Verdict(a, kase) = "GO"
  /\ lock' = w
  /\ run' = [run EXCEPT ![w] =
       [Idle EXCEPT !.pc = "claim", !.act = a,
                    !.rec = (row[a].status = "UNCERTAIN"), !.seen = row[a].retry,
                    !.ver = IF row[a].status = "UNCERTAIN"
                            THEN PinnedVersion(a, kase) ELSE kase.version,
                    !.step = kase.step,
                    !.team = ForTeam(a) /\ kase.escalated]]
  /\ UNCHANGED <<kase, row, wire, history, fired, budget>>

(* A guard turns the row away and writes why, all under the lock. *)
TurnAway(a) ==
  /\ lock = Free /\ row[a].status \in {"PENDING", "UNCERTAIN"}
  /\ ~DeadlineDue(a) /\ Verdict(a, kase) # "GO"
  /\ row' = [row EXCEPT ![a].status = Verdict(a, kase)]
  /\ UNCHANGED <<kase, wire, history, fired, lock, run, budget>>

(* The 30-day deadline found by the executor closes the case instead. *)
CloseAtDeadline(a) ==
  /\ lock = Free /\ DeadlineDue(a)
  /\ kase' = ClosedCase
  /\ row' = Cancelled(CancelledOnClose)
  /\ UNCHANGED <<wire, history, fired, lock, run, budget>>

(* OUTBOUND_ENABLED off, identity withdrawn, the claim itself failing, or   *)
(* LOCK_LOST before the try: the row is not claimed.                        *)
PreClaimFails(w) ==
  /\ At(w, "claim") /\ Spend("faults") /\ ~run[w].aborted
  /\ \E err \in {"app", "fault"} : run' = Throw(w, err)
  /\ UNCHANGED <<kase, row, wire, history, fired, lock>>

AbortBeforeClaim(w) ==
  /\ At(w, "claim") /\ run[w].aborted
  /\ run' = [run EXCEPT ![w] = Idle] /\ lock' = Release(w)
  /\ UNCHANGED <<kase, row, wire, history, fired, budget>>

(* The claim: updateMany where status and retryCount are as read at Begin. *)
SameStatus(r) == row[r.act].status = IF r.rec THEN "UNCERTAIN" ELSE "PENDING"
Mut_ClaimWins(r) == row[r.act].status \in {"PENDING", "UNCERTAIN", "RUNNING"}
ClaimWins(r) == SameStatus(r) /\ row[r.act].retry = r.seen
Mut_Claimed(r) ==
  [row[r.act] EXCEPT !.status = "RUNNING", !.retry = @ + 1]
Claimed(r) ==
  [row[r.act] EXCEPT !.status = "RUNNING", !.retry = @ + 1, !.ctx = r.ver]

Claim(w) ==
  LET a == run[w].act IN
  /\ At(w, "claim") /\ ~run[w].aborted /\ ClaimWins(run[w])
  /\ row[a].retry < MaxAttempts
  /\ row' = [row EXCEPT ![a] = Claimed(run[w])]
  /\ run' = [run EXCEPT ![w].att = row[a].retry + 1, ![w].prior = row[a].saved,
                        ![w].pc = "prepare"]
  /\ UNCHANGED <<kase, wire, history, fired, lock, budget>>

ClaimLost(w) ==
  /\ At(w, "claim") /\ ~run[w].aborted /\ ~ClaimWins(run[w])
  /\ run' = [run EXCEPT ![w] = Idle] /\ lock' = Release(w)
  /\ UNCHANGED <<kase, row, wire, history, fired, budget>>

(* An earlier attempt's verified result is only committed again. *)
Replay(w) ==
  /\ At(w, "prepare") /\ ~run[w].aborted /\ run[w].prior # 0
  /\ run' = [run EXCEPT ![w].pc = "commit", ![w].res = run[w].prior]
  /\ UNCHANGED <<kase, row, wire, history, fired, lock, budget>>

(* effect(), up to the remote call.  A WhatsApp send and a preapproval are  *)
(* never repeated on reconciliation.                                        *)
Unrepeatable(a) == ~Searchable(a)

RefuseReconcile(w) ==
  /\ At(w, "prepare") /\ run[w].prior = 0
  /\ run[w].rec /\ Unrepeatable(run[w].act)
  /\ run' = Throw(w, "uncertain")
  /\ UNCHANGED <<kase, row, wire, history, fired, lock, budget>>

(* A configuration, consent or document check refuses before any effect, or *)
(* a read fails; so does LOCK_LOST seen right after the claim.              *)
PrepareFails(w) ==
  /\ At(w, "prepare")
  /\ IF run[w].aborted THEN run' = Throw(w, "app") /\ UNCHANGED budget
     ELSE /\ run[w].prior = 0 /\ Spend("faults")
          /\ \E err \in {"app", "fault"} : run' = Throw(w, err)
  /\ UNCHANGED <<kase, row, wire, history, fired, lock>>

(* beforeEffect: the last look at the case before the remote call. *)
Halt(w) ==
  LET r == run[w] a == r.act IN
  IF r.aborted THEN "app"
  ELSE IF r.rec THEN "none"
  ELSE IF \/ kase.closed \/ Expired(kase)
          \/ Silenced(kase, r.team /\ kase.escalated)
          \/ IsReply(a) /\ row[a].step # kase.step THEN "app"
  ELSE IF IsReminder(a) /\ ReminderStale(row[a], kase) THEN "context"
  ELSE "none"

BeforeEffect(w) ==
  /\ \/ At(w, "prepare") /\ run[w].prior = 0
        /\ ~(run[w].rec /\ Unrepeatable(run[w].act))
     \/ At(w, "upload")
  /\ IF Halt(w) # "none" THEN run' = Throw(w, Halt(w))
     ELSE run' = [run EXCEPT
            ![w].tried = TRUE,
            ![w].pc = IF Kind[run[w].act] = "MEDIA" /\ At(w, "prepare")
                      THEN "upload" ELSE "send"]
  /\ UNCHANGED <<kase, row, wire, history, fired, lock, budget>>

(* uploadMedia refuses before it writes; a write that goes wrong is uncertain. *)
UploadFails(w) ==
  /\ At(w, "upload") /\ Spend("faults")
  /\ \E err \in {"refused", "uncertain"} : run' = Throw(w, err)
  /\ UNCHANGED <<kase, row, wire, history, fired, lock>>

(* Kmaleon and order creation look for their idempotency key first. *)
Mut_FoundPrior(a) == {n \in Attempts : wire[a][n] # "none"}
FoundPrior(a) == {n \in Attempts : Applied(a, n)}

SearchFinds(w) ==
  LET a == run[w].act IN
  /\ At(w, "send") /\ Searchable(a)
  /\ \E n \in FoundPrior(a) :
       run' = [run EXCEPT ![w].pc = "commit", ![w].res = n]
  /\ UNCHANGED <<kase, row, wire, history, fired, lock, budget>>

SearchUnresolved(w) ==
  LET a == run[w].act IN
  /\ At(w, "send") /\ Searchable(a) /\ run[w].rec /\ FoundPrior(a) = {}
  /\ run' = Throw(w, "uncertain")
  /\ UNCHANGED <<kase, row, wire, history, fired, lock, budget>>

(* An adapter check refuses before the request leaves. *)
AdapterRefuses(w) ==
  /\ At(w, "send") /\ Spend("faults")
  /\ run' = Throw(w, "refused")
  /\ UNCHANGED <<kase, row, wire, history, fired, lock>>

Issue(w) ==
  LET a == run[w].act IN
  /\ At(w, "send") /\ ~run[w].rec
  /\ Searchable(a) => FoundPrior(a) = {}
  /\ wire' = [wire EXCEPT ![a][run[w].att] = "flying"]
  /\ run' = Go(w, "wait")
  /\ UNCHANGED <<kase, row, history, fired, lock, budget>>

(* The answer of the remote call, or none: a lost answer is uncertain. *)
AnswerAccepted(w) ==
  LET a == run[w].act IN
  /\ At(w, "wait") /\ Applied(a, run[w].att)
  /\ run' = [run EXCEPT ![w].pc = "commit", ![w].res = run[w].att]
  /\ UNCHANGED <<kase, row, wire, history, fired, lock, budget>>

AnswerRefused(w) ==
  /\ At(w, "wait") /\ wire[run[w].act][run[w].att] = "refused"
  /\ run' = Throw(w, "refused")
  /\ UNCHANGED <<kase, row, wire, history, fired, lock, budget>>

AnswerLost(w) ==
  /\ At(w, "wait")
  /\ run' = Throw(w, "uncertain")
  /\ UNCHANGED <<kase, row, wire, history, fired, lock, budget>>

(* The Kmaleon project changes identity between write and read-back: the    *)
(* adapter reports it with its default outcome, not_applied.                *)
ReadbackMismatch(w) ==
  /\ At(w, "wait") /\ Searchable(run[w].act) /\ Spend("rekeys")
  /\ run' = Throw(w, "refused")
  /\ UNCHANGED <<kase, row, wire, history, fired, lock>>

-------------------------------------------------------------------------------
(* The commit transaction and the catch block.                              *)

MayAdvance(a) == ~kase.closed /\ kase.version = row[a].expected

(* transition(): the event moves the case, perhaps to the next step, and    *)
(* its decision is queued beside the settled row.                           *)
Advance(a, rows) ==
  /\ fired' = fired \cup {a}
  /\ \E s \in {kase.step, kase.step + 1} :
       /\ s <= MaxStep
       /\ kase' = [kase EXCEPT !.version = @ + 1, !.step = s,
                               !.cycle = @ + (s - kase.step)]
       /\ row' \in Decided(rows, kase.version + 1, s)

(* lastOutboundAt: kept if nobody paused, opted out or began a new reminder *)
(* cycle since the attempt started (that cycle is not kept in the model).   *)
Contacted(wa) ==
  IF wa /\ ~kase.paused /\ ~kase.optOut THEN {kase.active, TRUE} ELSE {kase.active}

Mut_FiresOnCommit(a) == Moves(a)
FiresOnCommit(a) == Moves(a) /\ ~IsWhatsApp(a)

(* the row a commit leaves: its answer is now the receipt *)
Settled(r) ==
  [row[r.act] EXCEPT
     !.status = IF IsWhatsApp(r.act) THEN "AWAITING_DELIVERY" ELSE "EXECUTED",
     !.msg = IF IsWhatsApp(r.act) THEN r.res ELSE @,
     !.saved = 0, !.ctx = r.ver]

Commit(w) ==
  LET a == run[w].act
      wa == IsWhatsApp(a)
      settled == [row EXCEPT ![a] = Settled(run[w])] IN
  /\ At(w, "commit") /\ ~run[w].aborted /\ OwnsAttempt(w)
  /\ history' = IF wa THEN history \cup {a} ELSE history
  /\ IF FiresOnCommit(a) /\ MayAdvance(a) THEN Advance(a, settled)
     ELSE /\ row' = settled /\ UNCHANGED fired
          /\ \E active \in Contacted(wa) : kase' = [kase EXCEPT !.active = active]
  /\ run' = [run EXCEPT ![w] = Idle] /\ lock' = Release(w)
  /\ UNCHANGED <<wire, budget>>

(* The lock was lost, the attempt was taken over or the transaction failed. *)
CommitFails(w) ==
  /\ At(w, "commit")
  /\ IF run[w].aborted \/ ~OwnsAttempt(w) THEN UNCHANGED budget
     ELSE Spend("faults")
  /\ run' = Throw(w, "uncertain")
  /\ UNCHANGED <<kase, row, wire, history, fired, lock>>

(* catch: the status an attempt that threw leaves behind *)
Mut_Uncertain(r) == r.res # 0 \/ r.err = "uncertain"
Uncertain(r) ==
  r.rec \/ r.res # 0 \/ r.err = "uncertain" \/ (r.tried /\ r.err # "refused")

Outcome(r) ==
  IF r.err = "context" /\ ~r.tried /\ ~r.rec THEN "CANCELLED"
  ELSE IF r.att >= MaxRetries /\ r.res = 0 THEN "HUMAN_REQUIRED"
  ELSE IF Uncertain(r) THEN "UNCERTAIN"
  ELSE IF r.err \in {"app", "context"} THEN "BLOCKED" ELSE "FAILED"

(* A blocked message leaves a notice that a person takes over. *)
Notice(a) == Fallback[a]
NoticeDue(a, status) ==
  /\ status = "BLOCKED" /\ Notice(a) # NoAction /\ ~Expired(kase)
  /\ IsWhatsApp(a) /\ ~IsReminder(a) /\ row[Notice(a)].status = "ABSENT"

CatchWrites(w) ==
  LET r == run[w] IN
  IF r.att > 0 THEN OwnsAttempt(w) ELSE SameStatus(r)

(* a verified result is kept for the next attempt to commit *)
Written(r) ==
  [row[r.act] EXCEPT
     !.status = Outcome(r), !.ctx = r.ver,
     !.saved = IF r.res # 0 THEN r.res ELSE @,
     !.msg = IF r.res # 0 /\ IsWhatsApp(r.act) THEN r.res ELSE @]

Catch(w) ==
  LET r == run[w]
      a == r.act IN
  /\ At(w, "catch")
  /\ row' = IF ~CatchWrites(w) THEN row
            ELSE IF NoticeDue(a, Outcome(r))
            THEN [row EXCEPT ![a] = Written(r), ![Notice(a)] = NewRow(r.ver, r.step)]
            ELSE [row EXCEPT ![a] = Written(r)]
  /\ run' = [run EXCEPT ![w] = Idle] /\ lock' = Release(w)
  /\ UNCHANGED <<kase, wire, history, fired, budget>>

-------------------------------------------------------------------------------
(* The carrier (external): WhatsApp, Kmaleon and the partner.  It may answer *)
(* after the caller gave up, refuse, deliver late or bounce.                 *)

CarrierMoves(a, n, from, to) ==
  /\ wire[a][n] = from
  /\ wire' = [wire EXCEPT ![a][n] = to]
  /\ UNCHANGED <<kase, row, history, fired, lock, run, budget>>

Accept(a, n) == CarrierMoves(a, n, "flying", "accepted")
Refuse(a, n) == CarrierMoves(a, n, "flying", "refused")
Deliver(a, n) == IsWhatsApp(a) /\ CarrierMoves(a, n, "accepted", "delivered")
Bounce(a, n) == IsWhatsApp(a) /\ CarrierMoves(a, n, "accepted", "bounced")

(* delivery(status): a callback finds its row by the message id in the      *)
(* receipt; before the response is committed no row has it, and it waits.   *)
TakesReports == {"AWAITING_DELIVERY", "UNCERTAIN"}
Mut_Confirms == {"accepted", "delivered"}
Confirms == {"delivered"}          \* sent is acknowledged and changes nothing
Reports(a, states) ==
  /\ lock = Free /\ row[a].status \in TakesReports
  /\ row[a].msg \in Attempts /\ wire[a][row[a].msg] \in states

(* the report's inbox row is processed: one row per message and status *)
MarkProcessed(a, n) == [wire EXCEPT ![a][n] = "buried"]

DeliveryFailed(a) ==
  /\ Reports(a, {"bounced"})
  /\ row' = [row EXCEPT ![a].status = "FAILED"]
  /\ history' = history \ {a}
  /\ wire' = MarkProcessed(a, row[a].msg)
  /\ UNCHANGED <<kase, fired, lock, run, budget>>

DeliveryConfirmed(a) ==
  /\ Reports(a, Confirms)
  /\ LET settled == [row EXCEPT ![a].status = "EXECUTED"] IN
     IF Moves(a) /\ MayAdvance(a) THEN Advance(a, settled)
     ELSE row' = settled /\ UNCHANGED <<kase, fired>>
  /\ UNCHANGED <<wire, history, lock, run, budget>>

-------------------------------------------------------------------------------
(* Crashes, stalls, and the dispatcher that cleans up after them.           *)

(* The process dies in execute; its lock expires with its time to live. *)
Crash(w) ==
  /\ ~At(w, "idle") /\ Spend("crashes")
  /\ run' = [run EXCEPT ![w] = Idle] /\ lock' = Release(w)
  /\ UNCHANGED <<kase, row, wire, history, fired>>

(* The lock expires under a live worker; it finds out later, if at all. *)
LoseLock(w) ==
  /\ lock = w /\ Spend("losses")
  /\ lock' = Free
  /\ UNCHANGED <<kase, row, wire, history, fired, run>>

NoticeLoss(w) ==
  /\ ~At(w, "idle") /\ lock # w /\ ~run[w].aborted
  /\ run' = [run EXCEPT ![w].aborted = TRUE]
  /\ UNCHANGED <<kase, row, wire, history, fired, lock, budget>>

(* dispatch: RUNNING for ten minutes becomes UNCERTAIN.  That its worker is *)
(* still alive by then is a fault of its own (a stall).                     *)
Owned(a) == \E w \in Workers : run[w].act = a /\ run[w].att = row[a].retry
Mut_AfterCrash == "PENDING"
AfterCrash == "UNCERTAIN"

Mut_Stale(a) == row[a].status = "RUNNING" /\ row[a].retry < MaxRetries
Stale(a) == row[a].status = "RUNNING"

RecoverStale(a) ==
  /\ Stale(a)
  /\ IF Owned(a) THEN Spend("stalls") ELSE UNCHANGED budget
  /\ row' = [row EXCEPT ![a].status = AfterCrash]
  /\ UNCHANGED <<kase, wire, history, fired, lock, run>>

(* POST /actions/:id/retry.  An uncertain row keeps its status: it is only  *)
(* queued again, and a WhatsApp one without saved result not even that.     *)
Mut_Retryable(r) == r.status \in {"BLOCKED", "FAILED", "UNCERTAIN"}
Retryable(r) == r.status \in {"BLOCKED", "FAILED"} /\ r.expected = kase.version

OperatorRetry(a) ==
  /\ lock = Free /\ Retryable(row[a])
  /\ row' = [row EXCEPT ![a].status = "PENDING"]
  /\ UNCHANGED <<kase, wire, history, fired, lock, run, budget>>

-------------------------------------------------------------------------------
(* Everybody else who changes the case.                                     *)

caseRest == <<wire, history, fired, lock, run, budget>>

(* processInbox does not read another turn while a message is on its way. *)
Blocks(a) == IsWhatsApp(a) /\ row[a].status \in {"PENDING", "RUNNING", "UNCERTAIN"}
InboxBarrier == \E a \in Actions : Blocks(a)

Propose(a, version, step) ==
  /\ row[a].status = "ABSENT"
  /\ row' = [row EXCEPT ![a] = NewRow(version, step)]

(* transition() by a client turn or an operator: new version, perhaps a new *)
(* step, and the row of the decision.                                       *)
Transition ==
  /\ lock = Free /\ ~kase.closed /\ kase.version < MaxVersion
  /\ \E s \in {kase.step, kase.step + 1} :
       /\ s <= MaxStep
       /\ kase' = [kase EXCEPT !.version = @ + 1, !.step = s,
                               !.cycle = @ + (s - kase.step)]
       /\ row' \in Decided(row, kase.version + 1, s)
  /\ UNCHANGED caseRest

ClientTurn ==
  /\ ~Expired(kase) /\ ~kase.paused /\ ~kase.optOut /\ ~kase.escalated
  /\ ~InboxBarrier /\ Transition

OperatorEvent == ~kase.escalated /\ Transition

(* ESCALATED_HUMAN: automation pauses; the client may get a handoff notice. *)
Escalate(a) ==
  /\ lock = Free /\ ~kase.closed /\ ~kase.escalated /\ kase.version < MaxVersion
  /\ kase' = [kase EXCEPT !.version = @ + 1, !.escalated = TRUE, !.paused = TRUE]
  /\ IF a = NoAction THEN UNCHANGED row
     ELSE ForTeam(a) /\ ~kase.optOut /\ Propose(a, kase.version + 1, kase.step)
  /\ UNCHANGED caseRest

(* a message to a held case is acknowledged once per hold *)
HeldAck(a) ==
  /\ lock = Free /\ ~kase.closed /\ kase.escalated /\ ~kase.optOut
  /\ Kind[a] = "HANDOFF" /\ ~InboxBarrier
  /\ Propose(a, kase.version, kase.step)
  /\ UNCHANGED <<kase, caseRest>>

(* recoverCase: back to the saved step; what was waiting is cancelled. *)
CancelledOnResume == {"PENDING", "BLOCKED", "HUMAN_REQUIRED"}
RecoverCase ==
  /\ lock = Free /\ kase.escalated /\ ~kase.closed /\ ~Expired(kase)
  /\ ~kase.optOut /\ kase.version < MaxVersion
  /\ kase' = [kase EXCEPT !.version = @ + 1, !.escalated = FALSE, !.paused = FALSE]
  /\ row' = Cancelled(CancelledOnResume)
  /\ UNCHANGED caseRest

(* POST /cases/:id/automation *)
SetAutomation(paused) ==
  /\ lock = Free /\ ~kase.closed /\ ~Expired(kase)
  /\ kase.version < MaxVersion /\ kase.cycle < MaxCycle
  /\ paused \/ (~kase.optOut /\ ~kase.escalated)
  /\ kase' = [kase EXCEPT !.paused = paused, !.version = @ + 1, !.cycle = @ + 1]
  /\ UNCHANGED <<row, caseRest>>

(* The webhook writes without the lock and without a version. *)
OptOut ==
  /\ ~kase.optOut /\ kase.cycle < MaxCycle
  /\ kase' = [kase EXCEPT !.optOut = TRUE, !.paused = TRUE, !.active = TRUE,
                          !.cycle = @ + 1]
  /\ UNCHANGED <<row, caseRest>>

Inbound ==
  /\ kase.cycle < MaxCycle
  /\ kase' = [kase EXCEPT !.active = TRUE, !.cycle = @ + 1]
  /\ UNCHANGED <<row, caseRest>>

(* A client who asks again or sends a file has come back: the webhook lifts *)
(* opt-out and pause in a write of its own, before it stores the message.   *)
Reengage ==
  /\ kase.optOut \/ kase.paused
  /\ ~kase.escalated
  /\ kase' = [kase EXCEPT !.optOut = FALSE, !.paused = FALSE]
  /\ UNCHANGED <<row, caseRest>>

(* closePhaseOne by a client report, an operator or the scheduler *)
ClosePhaseOne ==
  /\ lock = Free /\ ~kase.closed /\ ApudVersion = 1
  /\ kase' = ClosedCase
  /\ row' = Cancelled(CancelledOnClose)
  /\ UNCHANGED caseRest

(* Time: thirty days since first contact; a day without conversation. *)
DeadlinePasses ==
  /\ ApudVersion = 1 /\ ~kase.expired
  /\ kase' = [kase EXCEPT !.expired = TRUE]
  /\ UNCHANGED <<row, caseRest>>

DayPasses ==
  /\ kase.active /\ \E a \in Actions : IsReminder(a)
  /\ kase' = [kase EXCEPT !.active = FALSE]
  /\ UNCHANGED <<row, caseRest>>

(* scheduleFollowUps, for one due milestone *)
ScheduleReminder(a) ==
  /\ lock = Free /\ IsReminder(a)
  /\ ~kase.closed /\ ~kase.paused /\ ~kase.optOut /\ ~kase.escalated /\ ~kase.active
  /\ ~InboxBarrier
  /\ \A b \in Actions : IsReminder(b) /\ row[b].cycle = kase.cycle =>
       row[b].status \notin {"BLOCKED", "FAILED", "HUMAN_REQUIRED"}
  /\ Propose(a, kase.version, kase.step)
  /\ UNCHANGED <<kase, caseRest>>

-------------------------------------------------------------------------------
Execute(w) ==
  \/ PreClaimFails(w) \/ AbortBeforeClaim(w) \/ Claim(w) \/ ClaimLost(w)
  \/ Replay(w) \/ RefuseReconcile(w) \/ PrepareFails(w) \/ BeforeEffect(w) \/ UploadFails(w)
  \/ SearchFinds(w) \/ SearchUnresolved(w) \/ AdapterRefuses(w) \/ Issue(w)
  \/ AnswerAccepted(w) \/ AnswerRefused(w) \/ AnswerLost(w) \/ ReadbackMismatch(w)
  \/ Commit(w) \/ CommitFails(w) \/ Catch(w)

Carrier(a, n) == Accept(a, n) \/ Refuse(a, n) \/ Deliver(a, n) \/ Bounce(a, n)

Upkeep(a) ==
  \/ TurnAway(a) \/ CloseAtDeadline(a)
  \/ DeliveryFailed(a) \/ DeliveryConfirmed(a)
  \/ RecoverStale(a) \/ OperatorRetry(a)

Others(a) == HeldAck(a) \/ ScheduleReminder(a)

Clients ==
  \/ ClientTurn \/ OperatorEvent \/ RecoverCase \/ SetAutomation(TRUE) \/ SetAutomation(FALSE)
  \/ OptOut \/ Inbound \/ Reengage \/ ClosePhaseOne \/ DeadlinePasses \/ DayPasses

Next ==
  \/ \E w \in Workers :
       \/ \E a \in Actions : Begin(w, a)
       \/ Execute(w) \/ Crash(w) \/ LoseLock(w) \/ NoticeLoss(w)
  \/ \E a \in Actions :
       \/ Upkeep(a) \/ Others(a)
       \/ \E n \in Attempts : Carrier(a, n)
  \/ \E a \in Actions \cup {NoAction} : Escalate(a)
  \/ Clients

Spec == Init /\ [][Next]_vars

-------------------------------------------------------------------------------
(* Types.  A row that waits, was blocked or failed is one the code may      *)
(* start afresh: everything else is reconciled, settled or given up.        *)

Restartable == {"ABSENT", "PENDING", "BLOCKED", "FAILED"}

Cases ==
  [version : Nat, step : Nat, cycle : Nat, escalated : BOOLEAN, paused : BOOLEAN,
   optOut : BOOLEAN, closed : BOOLEAN, expired : BOOLEAN, active : BOOLEAN]
Rows ==
  [status : Statuses, expected : Nat, step : Nat, cycle : Nat,
   retry : 0 .. MaxAttempts, ctx : Nat \cup {NoVersion},
   msg : 0 .. MaxAttempts, saved : 0 .. MaxAttempts]
Runs ==
  [pc : PCs, act : Actions \cup {NoAction}, rec : BOOLEAN,
   seen : 0 .. MaxAttempts, att : 0 .. MaxAttempts, ver : Nat, step : Nat,
   team : BOOLEAN, aborted : BOOLEAN, tried : BOOLEAN,
   prior : 0 .. MaxAttempts, res : 0 .. MaxAttempts, err : Errors]
Budgets == [losses : Nat, crashes : Nat, faults : Nat, stalls : Nat, rekeys : Nat]

(* TypeOK: every variable keeps its shape, a worker that is not idle has a  *)
(* row of the outbox, and a row that was ever claimed has the context a     *)
(* reconciliation needs (action-executor.ts:84-89, 108).                    *)
TypeOK ==
  /\ kase \in Cases
  /\ row \in [Actions -> Rows]
  /\ wire \in [Actions -> [Attempts -> WireStates]]
  /\ history \subseteq Actions /\ fired \subseteq Actions
  /\ lock \in Workers \cup {Free}
  /\ run \in [Workers -> Runs]
  /\ budget \in Budgets
  /\ \A w \in Workers : ~At(w, "idle") => run[w].act \in Actions
  /\ \A a \in Actions : row[a].retry > 0 => row[a].ctx # NoVersion

(* Kmaleon writes are covered as long as the project keeps its identity.    *)
Covered(a) == Searchable(a) => budget.rekeys = MaxRekeys

(* AtMostOnce: of all requests of one action at most one may have taken     *)
(* effect; another is issued only when the one before is known to have      *)
(* failed, whatever crashes, stalls, lost locks and late answers come       *)
(* between (action-executor.ts:108-112, workers.ts:37-38).                  *)
AtMostOnce ==
  \A a \in Actions : Covered(a) =>
    \A m, n \in Attempts : Open(a, m) /\ Open(a, n) => m = n

(* RestartIsSafe: a row that execute or an operator may start afresh has no *)
(* request that may still take effect (the status rule of the catch block,  *)
(* action-executor.ts:141-146).                                             *)
RestartIsSafe ==
  \A a \in Actions : Covered(a) /\ row[a].status \in Restartable =>
    \A n \in Attempts : ~Open(a, n)

(* DoneIsBacked: a message the outbox shows as executed was delivered, and  *)
(* an effect it shows as executed was applied; the receipt it keeps is that *)
(* of the request, whichever attempt made it (action-executor.ts:117, 281). *)
DoneIsBacked ==
  \A a \in Actions : row[a].status = "EXECUTED" =>
    IF IsWhatsApp(a) THEN wire[a][row[a].msg] = "delivered"
    ELSE \E n \in Attempts : Applied(a, n)

(* AdvanceIsBacked: an event of an effect moves the case only on evidence:  *)
(* a delivered message, an accepted filing (action-executor.ts:138, 282).   *)
AdvanceIsBacked ==
  \A a \in fired : \E n \in Attempts :
    wire[a][n] = (IF IsWhatsApp(a) THEN "delivered" ELSE "accepted")

(* FailureIsCertain: no row says FAILED while its request may take effect:  *)
(* "An uncertain outcome is never safe to retry blindly"                    *)
(* (docs/agents/gemini-interfaces.md:4, kmaleon-gateway.ts:143).            *)
FailureIsCertain ==
  \A a \in Actions : row[a].status = "FAILED" =>
    \A n \in Attempts : wire[a][n] \notin {"flying", "accepted"}

(* HistoryIsTrue: text in the conversation history was not reported as      *)
(* undelivered: "The client never saw it, so it is not part of the          *)
(* conversation" (action-executor.ts:274).                                  *)
HistoryIsTrue ==
  \A a \in history : \E n \in Attempts :
    wire[a][n] \in {"accepted", "delivered", "bounced"}

(* UncertainKeepsEvidence: an uncertain effect is resolved by evidence or a *)
(* person, never restarted, blocked or dropped ("In-flight/uncertain        *)
(* effects retain their evidence and require reconciliation; never resend", *)
(* phase-one.ts:26).                                                        *)
UncertainKeepsEvidence ==
  [][\A a \in Actions : row[a].status = "UNCERTAIN" =>
       \/ row'[a].status \in {"UNCERTAIN", "RUNNING", "EXECUTED", "HUMAN_REQUIRED"}
       \/ row'[a].status = "FAILED" /\ \E n \in Attempts :
            wire[a][n] = "bounced" /\ wire'[a][n] = "buried"]_vars

(* SentAsDecided: while the lock is kept, a request leaves only for the     *)
(* version it was decided for, and a reply only within its step             *)
(* (action-executor.ts:76-79, 101).                                         *)
DecidedFor(a) ==
  IF IsReply(a) THEN row[a].step = kase.step
  ELSE IsReminder(a) \/ row[a].expected = kase.version

SentAsDecided ==
  [][\A a \in Actions, n \in Attempts :
       wire[a][n] = "none" /\ wire'[a][n] = "flying" => DecidedFor(a)]_vars

-------------------------------------------------------------------------------
(* Fairness: workers run and time out, the dispatcher ticks every five      *)
(* seconds.  Nothing is assumed of carrier, clients and operators.          *)

(* dispatch queues PENDING rows and uncertain ones with attempts left *)
Mut_Dispatched(a) == row[a].status = "PENDING"
Dispatched(a) ==
  \/ row[a].status = "PENDING"
  \/ row[a].status = "UNCERTAIN" /\ row[a].retry < MaxRetries

Dispatch(a) ==
  Dispatched(a) /\ (TurnAway(a) \/ CloseAtDeadline(a) \/ \E w \in Workers : Begin(w, a))

Fairness ==
  /\ \A w \in Workers : WF_vars(Execute(w)) /\ WF_vars(NoticeLoss(w))
  /\ \A a \in Actions : WF_vars(Dispatch(a))
  /\ \A a \in Actions : WF_vars(~Owned(a) /\ RecoverStale(a))

FairSpec == Spec /\ Fairness

(* RunningEnds: no row stays RUNNING: its worker settles it or, after a     *)
(* crash, the dispatcher hands it over (workers.ts:38).                     *)
RunningEnds ==
  \A a \in Actions : row[a].status = "RUNNING" ~> row[a].status # "RUNNING"

(* BarrierLifts: a message on its way blocks the client's next turn only    *)
(* for a while: "Re-queue it so the reconcile path can confirm what         *)
(* actually reached the client and finish it, instead of freezing the       *)
(* conversation" (workers.ts:45-47, workflow-service.ts:295).               *)
BarrierLifts == \A a \in Actions : Blocks(a) ~> ~Blocks(a)

(* BarrierLiftsOrSpent: what does hold: a message stops blocking, or it has *)
(* used up its attempts (workers.ts:48-51, action-executor.ts:80).          *)
BarrierLiftsOrSpent ==
  \A a \in Actions :
    Blocks(a) ~> (~Blocks(a) \/ row[a].retry >= MaxRetries)

===============================================================================
