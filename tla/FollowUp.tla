------------------------------ MODULE FollowUp -------------------------------
(* The follow-up of a silent client: the reminders of the third, seventh    *)
(* and fifteenth day and the end on the thirtieth.  The scheduler looks at  *)
(* the case under its lock and writes a reminder row; the executor checks   *)
(* the row again and sends; the webhook opens a new cycle at any moment,    *)
(* without that lock.  One case; edition 1 counts from the first message    *)
(* that was delivered, edition 2 from the last one of the client.           *)
EXTENDS Integers, Sequences, FiniteSets, FiniteSetsExt

CONSTANTS
  LastDay,     \* bound: the day the clock stops
  LastWord,    \* bound: the last day on which the client or an operator acts
  MaxActs,     \* bound: messages of the client, pauses and resumes of an operator
  MaxLosses    \* bound: sends whose outcome nobody saw

REMINDER_DAYS == {3, 7, 15}
Never == -1

VARIABLES
  edition,   \* APUD_VERSION
  now,       \* days since the start
  case,      \* the columns of the follow-up; next: -1 when there is none
  task,      \* NO_RESPONSE_30_DAYS was opened
  unread,    \* the inbox holds a message of the client
  owed,      \* a reply of ours is on its way
  rows,      \* the reminders: [cycle, day, step, status]
  lock,      \* who works on the case, and with what
  sent,      \* what the client got: [cycle, day, at]
  writes, office, losses
vars == <<edition, now, case, task, unread, owed, rows, lock, sent, writes, office, losses>>

Free == [by |-> "nobody", what |-> "", seen |-> {}, row |-> {}]
Init ==
  /\ edition \in {1, 2} /\ now = 0 /\ task = FALSE /\ unread = FALSE /\ owed = FALSE
  /\ case = [cycle |-> 0, last |-> 0, next |-> 3, anchor |-> 0, heard |-> 0, said |-> 0,
             paused |-> FALSE, stopped |-> FALSE, closed |-> FALSE, step |-> 0]
  /\ rows = {} /\ lock = Free /\ sent = <<>> /\ writes = 0 /\ office = 0 /\ losses = 0

(* Two steps of the tutorial, and one where nobody is reminded.             *)
Steps == 0..2
canFollowUp(c) == c.step # 2
Mut_recentConversation(c) == c.said = now
recentConversation(c) == c.heard = now \/ c.said = now
nextFollowUp(anchor, last) ==
  LET later == {d \in REMINDER_DAYS \cup {30} : d > last}
  IN  IF later = {} THEN Never ELSE anchor + Min(later)
Set(r, status) == {x \in rows : x # r} \cup {[r EXCEPT !.status = status]}

(* ------------------------- the client, no lock -------------------------- *)
(* A message older than the last one that was heard opens no new cycle.     *)
Heard ==
  LET c == [case EXCEPT !.heard = now, !.cycle = @ + 1]
  IN  IF edition = 1
      THEN [c EXCEPT !.next = IF c.paused \/ c.closed THEN Never ELSE nextFollowUp(0, c.last)]
      ELSE [c EXCEPT !.last = 0, !.anchor = now, !.next = Never]
Write(new) ==
  /\ writes + office < MaxActs /\ now <= LastWord /\ writes' = writes + 1 /\ unread' = TRUE
  /\ case' = new
  /\ UNCHANGED <<edition, now, task, owed, rows, lock, sent, office, losses>>
ClientWrites == Write(Heard)
ClientWroteBefore == Write(case)
ClientStops == Write([Heard EXCEPT !.stopped = TRUE, !.paused = TRUE, !.next = Never])

(* ---------------------- the turn, its reply, the office ----------------- *)
TurnIsRead ==
  /\ lock = Free /\ unread /\ unread' = FALSE
  /\ \E s \in Steps : case' = [case EXCEPT !.step = s]
  /\ owed' \in IF case.paused \/ case.closed THEN {owed} ELSE BOOLEAN
  /\ UNCHANGED <<edition, now, task, rows, lock, sent, writes, office, losses>>
(* What an accepted message of ours leaves behind, a reminder of its day.   *)
Accepted(cycle, last) ==
  IF case.cycle = cycle /\ ~case.paused /\ ~case.stopped
  THEN [case EXCEPT !.said = now, !.last = last,
                    !.next = IF canFollowUp(case) THEN nextFollowUp(case.anchor, last) ELSE Never]
  ELSE case
ReplyIsSent ==
  /\ lock = Free /\ owed /\ owed' = FALSE
  /\ case' = IF case.closed THEN case ELSE Accepted(case.cycle, case.last)
  /\ UNCHANGED <<edition, now, task, unread, rows, lock, sent, writes, office, losses>>
OfficePauses(pause) ==
  /\ lock = Free /\ writes + office < MaxActs /\ now <= LastWord /\ office' = office + 1
  /\ ~case.closed /\ (edition = 1 => now < 30)
  /\ pause \/ (~case.stopped /\ ~task)
  /\ LET anchor == IF edition = 1 THEN 0 ELSE now
         last == IF edition = 1 THEN case.last ELSE 0
     IN  case' = [case EXCEPT !.paused = pause, !.cycle = @ + 1, !.anchor = anchor, !.last = last,
                    !.next = IF ~pause /\ canFollowUp(case) THEN nextFollowUp(anchor, last) ELSE Never]
  /\ UNCHANGED <<edition, now, task, unread, owed, rows, lock, sent, writes, losses>>

(* ---------------------------- the scheduler ----------------------------- *)
(* The thirtieth day of edition 1 closes the case, paused or not.           *)
DeadlineReached ==
  /\ lock = Free /\ edition = 1 /\ now >= 30 /\ ~case.closed
  /\ case' = [case EXCEPT !.closed = TRUE, !.paused = TRUE, !.next = Never, !.cycle = @ + 1]
  /\ rows' = {IF r.status \in {"PENDING", "BLOCKED", "FAILED"} THEN [r EXCEPT !.status = "CANCELLED"]
              ELSE r : r \in rows}
  /\ UNCHANGED <<edition, now, task, unread, owed, lock, sent, writes, office, losses>>
Selected ==
  ~case.closed /\ ~case.paused /\ ~case.stopped /\ canFollowUp(case)
  /\ case.next # Never /\ case.next <= now /\ ~unread
Days == now - case.anchor
Due == {d \in REMINDER_DAYS : d <= Days /\ d > case.last}
InTheWay ==
  \/ owed
  \/ \E r \in rows : r.status \in {"PENDING", "RUNNING", "UNCERTAIN"}
  \/ \E r \in rows : r.cycle = case.cycle /\ r.status \in {"BLOCKED", "FAILED", "HUMAN_REQUIRED"}
Mut_Decision ==
  IF InTheWay THEN "nothing" ELSE IF Days >= 30 THEN "end"
  ELSE IF Due = {} THEN "nothing" ELSE IF recentConversation(case) THEN "consume" ELSE "remind"
Decision ==
  IF Days >= 30 THEN "end"
  ELSE IF Due = {} \/ InTheWay THEN "nothing" ELSE IF recentConversation(case) THEN "consume"
  ELSE IF \E r \in rows : r.cycle = case.cycle /\ r.day = Max(Due) THEN "nothing" ELSE "remind"
TickLooks ==
  /\ lock = Free /\ Selected /\ Decision # "nothing"
  /\ lock' = [by |-> "tick", what |-> Decision, seen |-> {case}, row |-> Due]
  /\ UNCHANGED <<edition, now, case, task, unread, owed, rows, sent, writes, office, losses>>
Seen == CHOOSE c \in lock.seen : TRUE
Tick(what) == lock.by = "tick" /\ lock.what = what /\ lock' = Free
TickEnds ==
  /\ Tick("end")
  /\ IF case.cycle = Seen.cycle /\ ~case.paused /\ ~case.stopped
     THEN case' = [case EXCEPT !.paused = TRUE, !.next = Never] /\ task' = TRUE
     ELSE UNCHANGED <<case, task>>
  /\ UNCHANGED <<edition, now, unread, owed, rows, sent, writes, office, losses>>
(* The milestone is used up without a reminder.  (The version of the case,  *)
(* also compared, moves under the lock only.)                               *)
TickConsumes ==
  /\ Tick("consume")
  /\ case' = IF case.cycle = Seen.cycle
             THEN [case EXCEPT !.last = Max(lock.row), !.next = nextFollowUp(Seen.anchor, Max(lock.row))]
             ELSE case
  /\ UNCHANGED <<edition, now, task, unread, owed, rows, sent, writes, office, losses>>
(* At most the latest due reminder.  The row of a cycle and day is written  *)
(* once: Decision is "nothing" where it exists, also when it was cancelled. *)
TickReminds ==
  /\ Tick("remind")
  /\ LET day == Max(lock.row)
     IN  rows' = rows \cup
           IF \E r \in rows : r.cycle = Seen.cycle /\ r.day = day THEN {}
           ELSE {[cycle |-> Seen.cycle, day |-> day, step |-> Seen.step, anchor |-> Seen.anchor,
                  status |-> "PENDING"]}
  /\ UNCHANGED <<edition, now, case, task, unread, owed, sent, writes, office, losses>>

(* ----------------------------- the executor ----------------------------- *)
Changed(r) == unread \/ recentConversation(case) \/ r.cycle # case.cycle \/ r.step # case.step
              \/ r.anchor # case.anchor \/ ~canFollowUp(case)
Silenced == case.closed \/ case.stopped \/ case.paused
(* Before the effect; the outbound switch off leaves the row BLOCKED.       *)
Check(r) ==
  /\ lock = Free /\ r.status = "PENDING"
  /\ IF Silenced \/ Changed(r) THEN rows' = Set(r, "CANCELLED") /\ UNCHANGED lock
     ELSE \/ rows' = Set(r, "RUNNING") /\ lock' = [Free EXCEPT !.by = "send", !.row = {[r EXCEPT !.status = "RUNNING"]}]
          \/ rows' = Set(r, "BLOCKED") /\ UNCHANGED lock
  /\ UNCHANGED <<edition, now, case, task, unread, owed, sent, writes, office, losses>>
Mine == CHOOSE r \in lock.row : TRUE
(* The case is read again right before the message goes.                    *)
Send ==
  /\ lock.by = "send" /\ lock.what = ""
  /\ IF Silenced \/ Changed(Mine)
     THEN rows' = Set(Mine, "CANCELLED") /\ lock' = Free /\ UNCHANGED sent
     ELSE /\ sent' = Append(sent, [cycle |-> Mine.cycle, day |-> Mine.day, at |-> now])
          /\ lock' = [lock EXCEPT !.what = "gone"] /\ UNCHANGED rows
  /\ UNCHANGED <<edition, now, case, task, unread, owed, writes, office, losses>>
Complete ==
  /\ lock.by = "send" /\ lock.what = "gone" /\ lock' = Free
  /\ rows' = Set(Mine, "EXECUTED") /\ case' = Accepted(Mine.cycle, Mine.day)
  /\ UNCHANGED <<edition, now, task, unread, owed, sent, writes, office, losses>>
Lose ==
  /\ lock.by = "send" /\ losses < MaxLosses /\ losses' = losses + 1
  /\ rows' = Set(Mine, "UNCERTAIN") /\ lock' = Free
  /\ UNCHANGED <<edition, now, case, task, unread, owed, sent, writes, office>>
(* An uncertain reminder is never sent again: evidence completes it in the  *)
(* context of its own attempt, or a person gets it.                         *)
Reconcile(r) ==
  /\ lock = Free /\ r.status = "UNCERTAIN"
  /\ \/ /\ \E n \in DOMAIN sent : sent[n].cycle = r.cycle /\ sent[n].day = r.day
        /\ rows' = Set(r, "EXECUTED") /\ case' = Accepted(r.cycle, r.day)
     \/ rows' = Set(r, "HUMAN_REQUIRED") /\ UNCHANGED case
  /\ UNCHANGED <<edition, now, task, unread, owed, lock, sent, writes, office, losses>>

(* After the last word nothing falls due between two milestones.            *)
NextDays == IF now <= LastWord THEN {now + 1}
         ELSE {d \in now..LastDay : d > now /\ d - case.anchor \in REMINDER_DAYS \cup {30}}
DayPasses ==
  /\ lock = Free /\ NextDays # {} /\ now' = Min(NextDays)
  /\ UNCHANGED <<edition, case, task, unread, owed, rows, lock, sent, writes, office, losses>>

Scheduler == DeadlineReached \/ TickLooks \/ TickEnds \/ TickConsumes \/ TickReminds
Executor == Send \/ Complete \/ \E r \in rows : Check(r) \/ Reconcile(r)
Next ==
  \/ ClientWrites \/ ClientWroteBefore \/ ClientStops \/ TurnIsRead \/ ReplyIsSent
  \/ (\E pause \in BOOLEAN : OfficePauses(pause))
  \/ Scheduler \/ Executor \/ Lose \/ DayPasses
Spec == Init /\ [][Next]_vars
(* The tick, the workers and the clock go on; nobody else has to.           *)
FairSpec == /\ Spec /\ WF_vars(DayPasses) /\ WF_vars(Scheduler) /\ WF_vars(Executor)
            /\ WF_vars(TurnIsRead) /\ WF_vars(ReplyIsSent)
-----------------------------------------------------------------------------
TypeOK ==
  /\ case.step \in Steps /\ case.next \in Never..(LastDay + 30) /\ case.last \in {0} \cup REMINDER_DAYS
  /\ \A r \in rows : r.day \in REMINDER_DAYS /\ r.cycle <= case.cycle
  /\ Cardinality({<<r.cycle, r.day>> : r \in rows}) = Cardinality(rows)

(* Never a burst of reminders, also after a send whose outcome was lost or  *)
(* a scheduler that slept: two reminders are a day apart unless the office  *)
(* resumed the case in between; in a cycle the later one is of a later day. *)
NoBurst ==
  \A m, n \in DOMAIN sent : m < n =>
    IF sent[m].cycle = sent[n].cycle THEN sent[m].at < sent[n].at /\ sent[m].day < sent[n].day
    ELSE sent[m].at < sent[n].at \/ office > 0

(* A follow-up ends: no row that is blocked, cancelled or in doubt keeps    *)
(* the client waiting for a person after the thirtieth day.                 *)
FollowedUp == case.next # Never /\ canFollowUp(case)
FollowUpEnds == <>[]~FollowedUp
-----------------------------------------------------------------------------
(* Why NoBurst holds.  At most one reminder is under way, the ones before   *)
(* it in its cycle were of earlier days, and what was sent today is         *)
(* remembered by the case, by its row or by the office.                     *)
Active == {"PENDING", "RUNNING", "UNCERTAIN"}
Statuses == Active \cup {"BLOCKED", "FAILED", "CANCELLED", "EXECUTED", "HUMAN_REQUIRED"}
Cases == [cycle : Nat, last : Int, next : Int, anchor : Int, heard : Int, said : Int,
          paused : BOOLEAN, stopped : BOOLEAN, closed : BOOLEAN, step : Int]
Reminders == [cycle : Nat, day : REMINDER_DAYS, step : Int, anchor : Int, status : Statuses]
Sends == [cycle : Nat, day : REMINDER_DAYS, at : Int]
Shapes == case \in Cases /\ rows \subseteq Reminders /\ sent \in Seq(Sends) /\ now \in Nat /\ office \in Nat
Same(r, s) == r.cycle = s.cycle /\ r.day = s.day
(* The lock is free, or the tick's with what it saw, or that of the one     *)
(* reminder that is running.                                                *)
TickHas(c, days) ==
  /\ lock = [by |-> "tick", what |-> lock.what, seen |-> {c}, row |-> days] /\ c.cycle <= case.cycle
  /\ lock.what \in {"end", "consume", "remind"} /\ (lock.what = "end" \/ days # {})
  /\ lock.what = "consume" /\ case.cycle = c.cycle => case.last < Max(days)
  /\ lock.what = "remind" =>
       /\ \A r \in rows : r.status \notin Active
       /\ \A r \in rows : r.cycle = c.cycle => /\ r.status # "HUMAN_REQUIRED"
                                               /\ r.status = "EXECUTED" => r.day < Max(days)
LockIsOwned ==
  \/ lock = Free
  \/ \E c \in lock.seen, days \in SUBSET REMINDER_DAYS : c \in Cases /\ TickHas(c, days)
  \/ \E r \in rows : /\ r.status = "RUNNING" /\ lock.what \in {"", "gone"}
                     /\ lock = [by |-> "send", what |-> lock.what, seen |-> {}, row |-> {r}]
OneUnderWay ==
  /\ \A r, q \in rows : Same(r, q) => r = q
  /\ \A r, q \in rows : r.status \in Active /\ q.status \in Active => r = q
  /\ \A r, q \in rows : r.status \in Active /\ q.cycle = r.cycle =>
       q.status # "HUMAN_REQUIRED" /\ (q.status = "EXECUTED" => q.day < r.day)
  /\ \A r \in rows : r.cycle <= case.cycle
  /\ \A r \in rows : r.status = "EXECUTED" /\ r.cycle = case.cycle =>
       r.day <= case.last \/ case.paused \/ case.stopped
SentHasRow ==
  \A n \in DOMAIN sent : \E r \in rows :
    Same(r, sent[n]) /\ (r.status \in {"UNCERTAIN", "EXECUTED", "HUMAN_REQUIRED"}
                         \/ (r.status = "RUNNING" /\ lock.by = "send" /\ lock.what = "gone"))
TodayIsKnown ==
  \A n \in DOMAIN sent :
    /\ sent[n].at <= now
    /\ sent[n].at = now /\ sent[n].cycle # case.cycle => case.heard = now \/ office > 0 \/ case.closed
    /\ sent[n].at = now /\ sent[n].cycle = case.cycle =>
         \A r \in rows : Same(r, sent[n]) /\ r.status = "EXECUTED" =>
           case.said = now \/ case.paused \/ case.stopped
(* FollowInv: the inductive invariant (automation.ts, follow-up.ts).        *)
FollowInv == Shapes /\ LockIsOwned /\ OneUnderWay /\ SentHasRow /\ TodayIsKnown /\ NoBurst
=============================================================================
