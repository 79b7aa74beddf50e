-------------------------------- MODULE Inbox --------------------------------
(* How what a client writes becomes one turn: the WhatsApp webhook and the  *)
(* debounce buffer store each message durably with the moment it may be     *)
(* read; one worker per case reads the files, takes a page of the messages, *)
(* and answers each burst of texts with one decision under the case lock,   *)
(* while webhook requests keep arriving without any lock.  Certificates     *)
(* and passwords go to the slots of the credential vault and are checked as *)
(* a pair.  What the decision is belongs to CaseWorkflow, what becomes of a *)
(* message of ours to Outbox: here it is one "unsent" mark.                 *)
EXTENDS Integers, Sequences, FiniteSetsExt

CONSTANTS
  Stories,     \* bound: what the client may send, sequences over Kinds
  MaxRows,     \* bound: the longest of them
  Page,        \* the messages one pass of the worker takes
  Hooks,       \* the webhook requests that may run at the same time
  MaxFailures  \* bound: the passes that end with an exception

Kinds == {"TEXT", "REPORT", "PASSWORD", "CERT_FILE", "APUD_PDF", "TAP", "STOP"}

(* What a certificate check says; NONE: the row carries no check.           *)
Checks == {"NONE", "OK", "REFUSED", "WAITING_PASSWORD", "WAITING_CERTIFICATE"}
Texts == {"TEXT", "REPORT", "PASSWORD"}
Files == {"CERT_FILE", "APUD_PDF"}
Stages == {"OPEN", "HELD", "CLOSED"}

VARIABLES
  story,     \* what the client still sends
  rows,      \* the inbox of the case in order of arrival
  case,      \* optOut, paused, stage, and late: the thirty days are over
  vault,     \* the waiting slots: the row of the certificate (0: none), a password
  saved,     \* the certificates in the office's record, with their password
  unsent,    \* a message of ours is PENDING, RUNNING or UNCERTAIN
  pass,      \* what the worker of the case is doing
  hooks,     \* the webhook requests being served
  told,      \* the last certificate result given to the client, and its burst
  failures   \* passes that ended with an exception
vars == <<story, rows, case, vault, saved, unsent, pass, hooks, told, failures>>

Row(k) == [kind |-> k, type |-> IF k \in Texts THEN "CONVERSATION_TEXT"
                                ELSE IF k \in Files THEN "MEDIA_RECEIVED" ELSE k,
           status |-> "PENDING", due |-> k = "STOP", check |-> "NONE"]
Conversational(r) == r.type \in {"CONVERSATION_TEXT", "MEDIA_RECEIVED"}
Pending == {i \in DOMAIN rows : rows[i].status = "PENDING"}
(* The n oldest of some rows.                                               *)
Firsts(S, n) == {i \in S : Cardinality({j \in S : j < i}) < n}

Idle == [pc |-> "idle", files |-> {}, page |-> {}, snap |-> 0,
         seen |-> [optOut |-> FALSE, paused |-> FALSE, stage |-> "OPEN", late |-> FALSE],
         turn |-> {}, check |-> "NONE"]
NoSlots == [certificate |-> 0, password |-> FALSE]
NoHook == [pc |-> "free", kind |-> "TEXT", lift |-> FALSE]
(* The lock of the case, held from the load of a row to its last write.     *)
LockFree == pass.pc \notin {"gate", "pair", "save", "clear", "think", "commit"}

Init ==
  /\ story \in Stories
  /\ rows = <<>> /\ case = Idle.seen /\ vault = NoSlots /\ saved = {} /\ unsent = FALSE
  /\ pass = Idle /\ hooks = [h \in Hooks |-> NoHook]
  /\ told = [check |-> "NONE", turn |-> {}] /\ failures = 0

(* ------------------- the webhook: no lock of the case ------------------- *)
(* A question or a file lifts the silence of a case no person holds: the    *)
(* case is read here and written in a later step, by its id alone.          *)
HookReads(h) ==
  /\ hooks[h].pc = "free" /\ story # <<>>
  /\ story' = Tail(story)
  /\ LET k == Head(story) IN \E asks \in IF k \in Texts THEN BOOLEAN ELSE {FALSE} :
       /\ hooks' = [hooks EXCEPT ![h] =
            [pc |-> "read", kind |-> k,
             lift |-> (asks \/ k \in Files) /\ (case.optOut \/ case.paused)
                      /\ case.stage # "HELD"]]
  /\ UNCHANGED <<rows, case, vault, saved, unsent, pass, told, failures>>
HookPrepares(h) ==
  /\ hooks[h].pc = "read"
  /\ hooks[h].lift \/ hooks[h].kind = "PASSWORD"
  /\ vault' = IF hooks[h].kind = "PASSWORD" THEN [vault EXCEPT !.password = TRUE] ELSE vault
  /\ case' = IF hooks[h].lift THEN [case EXCEPT !.optOut = FALSE, !.paused = FALSE] ELSE case
  /\ hooks' = [hooks EXCEPT ![h].pc = "prepared"]
  /\ UNCHANGED <<story, rows, saved, unsent, pass, told, failures>>
(* ingestMessage: every conversational row of the case waits for the quiet  *)
(* time of the new one; STOP silences the case in the same transaction.     *)
HookIngests(h) ==
  LET k == hooks[h].kind
  IN  /\ \/ hooks[h].pc = "prepared"
         \/ hooks[h].pc = "read" /\ ~hooks[h].lift /\ k # "PASSWORD"
      /\ rows' = Append([i \in DOMAIN rows |->
                   IF k \in Texts \cup Files /\ rows[i].status = "PENDING" /\ Conversational(rows[i])
                   THEN [rows[i] EXCEPT !.due = FALSE] ELSE rows[i]], Row(k))
      /\ case' = IF k = "STOP" THEN [case EXCEPT !.optOut = TRUE, !.paused = TRUE] ELSE case
      /\ hooks' = [hooks EXCEPT ![h] = NoHook]
      /\ UNCHANGED <<story, vault, saved, unsent, pass, told, failures>>

(* --------------------------- the passing time --------------------------- *)
QuietPasses ==
  /\ \E i \in Pending : ~rows[i].due /\ Conversational(rows[i])
  /\ rows' = [i \in DOMAIN rows |->
                IF Conversational(rows[i]) THEN [rows[i] EXCEPT !.due = TRUE] ELSE rows[i]]
  /\ UNCHANGED <<story, case, vault, saved, unsent, pass, hooks, told, failures>>
RowFallsDue ==
  /\ \E i \in Pending :
       /\ ~rows[i].due /\ ~Conversational(rows[i])
       /\ rows' = [rows EXCEPT ![i].due = TRUE]
  /\ UNCHANGED <<story, case, vault, saved, unsent, pass, hooks, told, failures>>
DeadlinePasses ==
  /\ ~case.late /\ case.stage # "CLOSED" /\ case' = [case EXCEPT !.late = TRUE]
  /\ UNCHANGED <<story, rows, vault, saved, unsent, pass, hooks, told, failures>>

(* -------------------- the worker: files, then the page ------------------ *)
Begin ==
  LET media == {i \in Pending : rows[i].type = "MEDIA_RECEIVED" /\ rows[i].due}
  IN  /\ pass.pc = "idle" /\ \E i \in Pending : rows[i].due
      /\ pass' = [Idle EXCEPT !.pc = IF media = {} THEN "list" ELSE "file",
                              !.files = media]
      /\ UNCHANGED <<story, rows, case, vault, saved, unsent, hooks, told, failures>>

(* AttachmentIntake.read: a certificate goes to its slot and is checked; of *)
(* the other files only the justificante leaves the conversation.  The      *)
(* oldest comes first.                                                      *)
ReadFile ==
  LET i == Min(pass.files)
  IN  /\ pass.pc = "file"
      /\ IF rows[i].kind = "CERT_FILE"
         THEN vault' = [vault EXCEPT !.certificate = i] /\ pass' = [pass EXCEPT !.pc = "fpair"]
         ELSE vault' = vault /\ pass' = [pass EXCEPT !.pc = "mark"]
      /\ UNCHANGED <<story, rows, case, saved, unsent, hooks, told, failures>>

(* checkPair on the slots as they are now.                                  *)
Found ==
  IF vault.certificate = 0 THEN {"WAITING_CERTIFICATE"}
  ELSE IF ~vault.password THEN {"WAITING_PASSWORD"} ELSE {"OK", "REFUSED"}
CheckPair(from, saving, done) ==
  /\ pass.pc = from
  /\ \E r \in Found : pass' = [pass EXCEPT !.check = r, !.pc = IF r = "OK" THEN saving ELSE done]
  /\ UNCHANGED <<story, rows, case, vault, saved, unsent, hooks, told, failures>>
Mut_SavePair(from, to) ==
  /\ pass.pc = from /\ pass' = [pass EXCEPT !.pc = to]
  /\ UNCHANGED <<story, rows, case, vault, saved, unsent, hooks, told, failures>>
SavePair(from, to) ==
  /\ pass.pc = from /\ pass' = [pass EXCEPT !.pc = to]
  /\ saved' = saved \cup {vault.certificate}
  /\ UNCHANGED <<story, rows, case, vault, unsent, hooks, told, failures>>
ClearSlots(from, to) ==
  /\ pass.pc = from /\ pass' = [pass EXCEPT !.pc = to]
  /\ vault' = NoSlots
  /\ UNCHANGED <<story, rows, case, saved, unsent, hooks, told, failures>>
PairOfFile == CheckPair("fpair", "fsave", "mark") \/ SavePair("fsave", "fclear") \/ ClearSlots("fclear", "mark")
PairOfTurn == CheckPair("pair", "save", "think") \/ SavePair("save", "clear") \/ ClearSlots("clear", "think")

MarkRow ==
  LET i == Min(pass.files)
  IN  /\ pass.pc = "mark"
      /\ rows' = [rows EXCEPT ![i].check = IF @ = "NONE" THEN pass.check ELSE @,
                              ![i].type = IF rows[i].kind = "APUD_PDF" THEN "PDF_MEDIA"
                                          ELSE "CONVERSATION_TEXT"]
      /\ pass' = [pass EXCEPT !.files = @ \ {i}, !.check = "NONE",
                              !.pc = IF pass.files = {i} THEN "list" ELSE "file"]
      /\ UNCHANGED <<story, case, vault, saved, unsent, hooks, told, failures>>

(* The page, and right after it the moment that tells backlog from arrival. *)
ListPage ==
  /\ pass.pc = "list"
  /\ LET page == Firsts(Pending, Page)
     IN  pass' = IF page = {} \/ \E i \in page : ~rows[i].due THEN Idle
                 ELSE [pass EXCEPT !.pc = "stamp", !.page = page]
  /\ UNCHANGED <<story, rows, case, vault, saved, unsent, hooks, told, failures>>
Stamp ==
  /\ pass.pc = "stamp"
  /\ pass' = [pass EXCEPT !.pc = "row", !.snap = Len(rows)]
  /\ UNCHANGED <<story, rows, case, vault, saved, unsent, hooks, told, failures>>

(* ------------------------- one row of the page -------------------------- *)
Cur == Min(pass.page)
Next1 == IF pass.page = {Cur} THEN Idle
         ELSE [Idle EXCEPT !.pc = "row", !.page = pass.page \ {Cur}, !.snap = pass.snap]
Settled(S, status) ==
  [i \in DOMAIN rows |-> IF i \in S /\ rows[i].status = "PENDING"
                         THEN [rows[i] EXCEPT !.status = status] ELSE rows[i]]

SkipRow ==
  /\ pass.pc = "row" /\ rows[Cur].status # "PENDING"
  /\ pass' = Next1
  /\ UNCHANGED <<story, rows, case, vault, saved, unsent, hooks, told, failures>>
(* A later arrival put the row off.  Seen before the lock of the case it    *)
(* ends the pass; seen under the lock it only leaves this row.              *)
RowNotDue ==
  /\ pass.pc = "row" /\ Cur \in Pending /\ ~rows[Cur].due
  /\ pass' \in {Idle, Next1}
  /\ UNCHANGED <<story, rows, case, vault, saved, unsent, hooks, told, failures>>
Over == case.stage = "CLOSED" \/ case.late
Closed == [case EXCEPT !.stage = "CLOSED", !.paused = TRUE]
(* After the end of phase one a message only becomes a task of the office.  *)
RowAfterEnd ==
  /\ pass.pc = "row" /\ Cur \in Pending /\ rows[Cur].due /\ Over
  /\ case' = Closed /\ rows' = Settled({Cur}, "HUMAN_REQUIRED") /\ pass' = Next1
  /\ UNCHANGED <<story, vault, saved, unsent, hooks, told, failures>>
(* The justificante: its intake has the lock of its own (CaseWorkflow).     *)
RowIsDocument ==
  /\ pass.pc = "row" /\ Cur \in Pending /\ rows[Cur].due /\ ~Over
  /\ rows[Cur].type = "PDF_MEDIA"
  /\ \E status \in IF case.stage = "OPEN" THEN {"PROCESSED", "HUMAN_REQUIRED"} ELSE {"HUMAN_REQUIRED"} :
       rows' = Settled({Cur}, status)
  /\ pass' = Next1
  /\ UNCHANGED <<story, case, vault, saved, unsent, hooks, told, failures>>

(* The burst: the texts that follow in the page, up to the first other row. *)
Follows(i) == rows[i].type = "CONVERSATION_TEXT" /\ i \in Pending /\ rows[i].due
Burst == {Cur} \cup (IF rows[Cur].type # "CONVERSATION_TEXT" THEN {}
                     ELSE {i \in pass.page : \A j \in pass.page \ {Cur} : j <= i => Follows(j)})
LockRow ==
  /\ pass.pc = "row" /\ Cur \in Pending /\ rows[Cur].due /\ ~Over
  /\ rows[Cur].type # "PDF_MEDIA"
  /\ pass' = [pass EXCEPT !.pc = "gate", !.seen = case, !.turn = Burst]
  /\ UNCHANGED <<story, rows, case, vault, saved, unsent, hooks, told, failures>>

IsText == rows[Cur].type = "CONVERSATION_TEXT"
Reports == IsText /\ ~pass.seen.optOut /\ \E i \in pass.turn : rows[i].kind = "REPORT"
Mut_Silent == pass.seen.paused \/ pass.seen.optOut
Silent == pass.seen.paused \/ pass.seen.optOut \/ pass.seen.stage = "HELD"
(* A report that the step is done closes phase one before anything else.    *)
ReportCloses ==
  /\ pass.pc = "gate" /\ Reports
  /\ case' = Closed /\ rows' = Settled(pass.turn, "PROCESSED") /\ pass' = Next1
  /\ UNCHANGED <<story, vault, saved, unsent, hooks, told, failures>>
(* An earlier message of ours is unsent or in doubt: the text waits, and    *)
(* the pass goes on with the row behind it.                                 *)
WaitForOurs ==
  /\ pass.pc = "gate" /\ IsText /\ ~Reports /\ unsent
  /\ pass' = Next1
  /\ UNCHANGED <<story, rows, case, vault, saved, unsent, hooks, told, failures>>
HeldText ==
  /\ pass.pc = "gate" /\ IsText /\ ~Reports /\ ~unsent /\ Silent
  /\ rows' = Settled({Cur}, "HUMAN_REQUIRED")
  /\ unsent' \in IF ~pass.seen.optOut /\ pass.seen.stage = "HELD" THEN BOOLEAN ELSE {FALSE}
  /\ pass' = Next1
  /\ UNCHANGED <<story, case, vault, saved, hooks, told, failures>>
(* The newest certificate line of the burst, else a password, else words.   *)
Line ==
  LET lines == {i \in pass.turn : rows[i].check # "NONE"}
  IN  IF lines = {} THEN "NONE" ELSE rows[CHOOSE i \in lines : \A j \in lines : j <= i].check
ReadTurn ==
  /\ pass.pc = "gate" /\ IsText /\ ~Reports /\ ~unsent /\ ~Silent
  /\ pass' = [pass EXCEPT !.check = Line,
                          !.pc = IF Line = "NONE" /\ \E i \in pass.turn : rows[i].kind = "PASSWORD"
                                 THEN "pair" ELSE "think"]
  /\ UNCHANGED <<story, rows, case, vault, saved, unsent, hooks, told, failures>>
(* After the model answered the case is read once more.                     *)
Think ==
  /\ pass.pc = "think"
  /\ pass' = IF case.optOut \/ case.paused THEN Next1 ELSE [pass EXCEPT !.pc = "commit"]
  /\ UNCHANGED <<story, rows, case, vault, saved, unsent, hooks, told, failures>>

(* A row outside the burst that arrived since, or whose time has not come.  *)
Mut_NewerOutsidePage == Pending \ pass.page
Mut_Newer == {i \in Pending \ pass.turn : ~rows[i].due}
Newer == {i \in Pending \ pass.turn : ~rows[i].due \/ i > pass.snap}
Discard ==
  /\ pass.pc = "commit" /\ Newer # {}
  /\ pass' = Next1
  /\ UNCHANGED <<story, rows, case, vault, saved, unsent, hooks, told, failures>>
(* What the decision may leave: the case where it is, in the hands of a     *)
(* person, or paused because the certificate is in.                         *)
After ==
  {case} \cup IF pass.check = "OK" THEN {[case EXCEPT !.paused = TRUE]}
              ELSE {[case EXCEPT !.stage = "HELD", !.paused = TRUE]}
CommitTurn ==
  /\ pass.pc = "commit" /\ Newer = {}
  /\ case' \in After
  /\ \E status \in {"PROCESSED", "HUMAN_REQUIRED"} : rows' = Settled(pass.turn, status)
  /\ unsent' \in BOOLEAN
  /\ told' = IF pass.check = "NONE" THEN told ELSE [check |-> pass.check, turn |-> pass.turn]
  /\ pass' = Next1
  /\ UNCHANGED <<story, vault, saved, hooks, failures>>
(* The model asks for a person: only the first row is set aside, with no    *)
(* look at what arrived meanwhile.                                          *)
AskPerson ==
  /\ pass.pc = "commit"
  /\ rows' = Settled({Cur}, "HUMAN_REQUIRED") /\ pass' = Next1
  /\ UNCHANGED <<story, case, vault, saved, unsent, hooks, told, failures>>

(* Buttons and STOP: no burst, no wait, no second look at the case.         *)
StaleTap ==
  /\ pass.pc = "gate" /\ rows[Cur].kind = "TAP"
  /\ rows' = Settled({Cur}, "HUMAN_REQUIRED") /\ pass' = Next1
  /\ UNCHANGED <<story, case, vault, saved, unsent, hooks, told, failures>>
CommitTap ==
  /\ pass.pc = "gate" /\ ~IsText /\ pass.seen.stage # "HELD"
  /\ IF rows[Cur].kind = "STOP"
     THEN case' = [case EXCEPT !.stage = "HELD", !.paused = TRUE, !.optOut = TRUE] /\ UNCHANGED unsent
     ELSE case' \in {case, [case EXCEPT !.stage = "HELD", !.paused = TRUE]} /\ unsent' \in {unsent, TRUE}
  /\ rows' = Settled({Cur}, "PROCESSED") /\ pass' = Next1
  /\ UNCHANGED <<story, vault, saved, hooks, told, failures>>
(* A case a person holds takes no event: the engine throws, the job fails   *)
(* and the row stays where it was.                                          *)
RefusedTap ==
  /\ pass.pc = "gate" /\ ~IsText /\ pass.seen.stage = "HELD"
  /\ pass' = Idle
  /\ UNCHANGED <<story, rows, case, vault, saved, unsent, hooks, told, failures>>
(* A crash, a lost lock, the model or the database failing.                 *)
PassFails ==
  /\ pass.pc # "idle" /\ failures < MaxFailures
  /\ failures' = failures + 1 /\ pass' = Idle
  /\ UNCHANGED <<story, rows, case, vault, saved, unsent, hooks, told>>

(* ------------------------ the rest of the service ----------------------- *)
Delivered ==
  /\ unsent /\ unsent' = FALSE
  /\ UNCHANGED <<story, rows, case, vault, saved, pass, hooks, told, failures>>
(* Under the lock of the case: an action or the panel hands it over, the    *)
(* panel pauses it, recoverCase gives it back.                              *)
Escalate ==
  /\ LockFree /\ case.stage = "OPEN"
  /\ case' = [case EXCEPT !.stage = "HELD", !.paused = TRUE]
  /\ UNCHANGED <<story, rows, vault, saved, unsent, pass, hooks, told, failures>>
Pause ==
  /\ LockFree /\ case.stage = "OPEN" /\ ~case.paused
  /\ case' = [case EXCEPT !.paused = TRUE]
  /\ UNCHANGED <<story, rows, vault, saved, unsent, pass, hooks, told, failures>>
Recover ==
  /\ LockFree /\ case.stage = "HELD" /\ ~case.optOut /\ ~case.late
  /\ case' = [case EXCEPT !.stage = "OPEN", !.paused = FALSE]
  /\ UNCHANGED <<story, rows, vault, saved, unsent, pass, hooks, told, failures>>

Webhook == \E h \in Hooks : HookReads(h) \/ HookPrepares(h) \/ HookIngests(h)
Time == QuietPasses \/ RowFallsDue \/ DeadlinePasses
PassSteps ==
  \/ Begin \/ ReadFile \/ PairOfFile \/ MarkRow \/ ListPage \/ Stamp
  \/ SkipRow \/ RowNotDue \/ RowAfterEnd \/ RowIsDocument \/ LockRow
  \/ ReportCloses \/ WaitForOurs \/ HeldText \/ ReadTurn \/ PairOfTurn \/ Think
  \/ Discard \/ CommitTurn \/ AskPerson \/ StaleTap \/ CommitTap \/ RefusedTap
Office == Escalate \/ Pause \/ Recover
Next == Webhook \/ Time \/ PassSteps \/ PassFails \/ Delivered \/ Office
Spec == Init /\ [][Next]_vars
(* The recovery tick starts a pass for every case with a ready row and the  *)
(* timers fire; a request that was read is served.  A client, the office or *)
(* a failing pass may do nothing, and a message of ours may stay in doubt   *)
(* for good: one whose attempts are spent is queued no more.                *)
FairSpec ==
  /\ Spec /\ WF_vars(PassSteps) /\ WF_vars(QuietPasses) /\ WF_vars(RowFallsDue)
  /\ \A h \in Hooks : WF_vars(HookPrepares(h) \/ HookIngests(h))
-----------------------------------------------------------------------------
TypeOK ==
  /\ \A i \in DOMAIN rows : /\ rows[i].kind \in Kinds /\ rows[i].check \in Checks
                            /\ rows[i].status \in {"PENDING", "PROCESSED", "HUMAN_REQUIRED"}
  /\ case.stage \in Stages /\ {case.optOut, case.paused, case.late, unsent, vault.password} \subseteq BOOLEAN
  /\ vault.certificate \in 0..Len(rows) /\ saved \subseteq DOMAIN rows
  /\ pass.turn \subseteq DOMAIN rows /\ told.check \in Checks

(* Once STOP is stored no turn is answered: the draft is dropped although   *)
(* the case was looked at before STOP came and is not read again.           *)
DropsAfterStop == CommitTurn => ~case.optOut
NoReplyAfterStop == [][DropsAfterStop]_vars

(* A case a person holds is answered by that person, also when a webhook    *)
(* request that read the case before the handover lifts its pause after it. *)
LeavesToPerson == CommitTurn => case.stage # "HELD"
HeldIsNotAnswered == [][LeavesToPerson]_vars

(* The newest certificate that was read is in its slot or in the record,    *)
(* and nobody is told it was received unless it is: whatever crashes        *)
(* between saving the pair, clearing the slots and marking the row.         *)
CertificateIsKept ==
  /\ \A i \in DOMAIN rows :
       rows[i].kind = "CERT_FILE" /\ rows[i].type = "CONVERSATION_TEXT" =>
         \E j \in {vault.certificate} \cup saved : j >= i
  /\ told.check = "OK" => saved # {}

(* What holds of every reachable state, and makes the four above hold.      *)
FilePcs == {"file", "fpair", "fsave", "fclear", "mark"}
Locked == {"gate", "pair", "save", "clear", "think", "commit"}
Cases == [optOut : BOOLEAN, paused : BOOLEAN, stage : Stages, late : BOOLEAN]
RowShapes ==
  [kind : Kinds, type : {"CONVERSATION_TEXT", "MEDIA_RECEIVED", "PDF_MEDIA", "TAP", "STOP"},
   status : {"PENDING", "PROCESSED", "HUMAN_REQUIRED"}, due : BOOLEAN, check : Checks]
Passes ==
  [pc : {"idle", "list", "stamp", "row"} \cup FilePcs \cup Locked, files : SUBSET Nat,
   page : SUBSET Nat, snap : Nat, seen : Cases, turn : SUBSET Nat, check : Checks]
Shapes ==
  /\ story \in Seq(Kinds) /\ rows \in Seq(RowShapes) /\ case \in Cases
  /\ vault \in [certificate : Nat, password : BOOLEAN] /\ saved \subseteq Nat
  /\ pass \in Passes
  /\ hooks \in [Hooks -> [pc : {"free", "read", "prepared"}, kind : Kinds, lift : BOOLEAN]]
(* The quiet time of one message is the quiet time of all before it.        *)
DueInOrder ==
  \A i, j \in Pending : i < j /\ Conversational(rows[i]) /\ Conversational(rows[j]) /\ rows[j].due => rows[i].due
(* The files that wait are behind those in hand, and all of them behind the *)
(* certificates that were read.                                             *)
Unread(i) == i \in Pending /\ rows[i].type = "MEDIA_RECEIVED"
ReadCertificate(i) == rows[i].kind = "CERT_FILE" /\ rows[i].type = "CONVERSATION_TEXT"
FilesInOrder ==
  /\ pass.pc \in FilePcs <=> pass.files # {}
  /\ \A i \in pass.files : Unread(i) /\ \A j \in DOMAIN rows : Unread(j) => j \in pass.files \/ i < j
  /\ \A i, j \in DOMAIN rows : ReadCertificate(i) /\ Unread(j) => i < j
PairInHand ==
  /\ pass.pc \in {"fpair", "fsave", "fclear"} => vault.certificate = Min(pass.files)
  /\ pass.pc \in {"fclear", "clear"} => vault.certificate \in saved
  /\ pass.pc = "mark" /\ rows[Min(pass.files)].kind = "CERT_FILE" =>
       \E j \in {vault.certificate} \cup saved : j >= Min(pass.files)
SaidIsSaved ==
  /\ \A i \in DOMAIN rows : rows[i].check = "OK" => saved # {}
  /\ pass.check = "OK" => pass.pc \in {"fsave", "save"} \/ saved # {}
(* The stage of a locked case stays; a STOP that came after the last look   *)
(* is a row that the turn has not read.                                     *)
LockHolds ==
  /\ pass.pc \in Locked => pass.seen.stage = case.stage /\ pass.turn \subseteq DOMAIN rows
  /\ pass.pc \in Locked \ {"gate"} => pass.seen.stage # "HELD"
  /\ pass.pc \in {"row"} \cup Locked => pass.snap <= Len(rows)
  /\ pass.pc \in {"stamp", "row"} \cup Locked => pass.page # {}
  /\ pass.pc = "commit" /\ case.optOut => \E i \in Pending \ pass.turn : i > pass.snap
InboxInv ==
  Shapes /\ DueInOrder /\ FilesInOrder /\ PairInHand /\ SaidIsSaved /\ LockHolds /\ CertificateIsKept

(* A case a person holds with a tap or STOP in front of the messages: every *)
(* pass ends at that row.                                                   *)
Jammed == case.stage = "HELD" /\ \E i \in Pending : rows[i].kind \in {"TAP", "STOP"}
Waiting(i) == i \in Pending /\ rows[i].kind \notin {"TAP", "STOP"}
AllSettled == \A i \in Pending : ~Waiting(i)
(* Texts wait while a message of ours is unsent or in doubt, and with a     *)
(* page of them so does what came behind them.                              *)
Barred == unsent /\ \A i \in Firsts(Pending, Page) : rows[i].type = "CONVERSATION_TEXT"
(* Every message is settled in the end, however the pages, the bursts, the  *)
(* arrivals and the handovers fall, unless the case stays jammed or a       *)
(* message of ours stays unsent in front of the texts.                      *)
MessagesSettle == (<>[]~Jammed) => <>[](AllSettled \/ Barred)

(* A certificate line in a burst already includes any password that came    *)
(* with it, as processInbox says where the line wins over the password.     *)
BurstPairChecked ==
  told.check = "WAITING_PASSWORD" => \A i \in told.turn : rows[i].kind # "PASSWORD"
=============================================================================
