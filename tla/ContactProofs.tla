------------------------------ MODULE ContactProofs -----------------------------
(* That no client is contacted too often.  The follow-up: no burst of       *)
(* reminders, for any clock, any number of messages and pauses, and any     *)
(* number of sends whose outcome is lost.  The avisos: one first contact,   *)
(* and only for an aviso that waits, for any number of avisos, expedientes, *)
(* pollers and lost locks.                                                  *)
EXTENDS FollowUp, SequenceTheorems, TLAPS

(* The avisos beside it: file is the case of an expediente, holder the one  *)
(* who has the lock of the poller.                                          *)
CONSTANTS Trigger, Project, Poller, MaxStaff, MaxLapses
VARIABLES of, pending, broken, card, trig, file, poll, holder, found, late, staff, lapses
Avi == INSTANCE TriggerIntake WITH
  MaxLosses <- MaxLapses, case <- file, lock <- holder, losses <- lapses


(* ------------------------------- the days ------------------------------- *)
LEMMA LeastDay ==
  ASSUME NEW a \in Int, NEW b \in Int, NEW c \in Int, NEW d \in Int, a < b, b < c, c < d,
         NEW S, S \subseteq {a, b, c, d}, S # {}
  PROVE  Min(S) \in S
<1>1. \A y \in S : y = a \/ y = b \/ y = c \/ y = d
  OBVIOUS
<1>2. \E z \in S : \A y \in S : z <= y
  <2>1. CASE a \in S
    BY <1>1, <2>1
  <2>2. CASE a \notin S /\ b \in S
    BY <1>1, <2>2
  <2>3. CASE a \notin S /\ b \notin S /\ c \in S
    BY <1>1, <2>3
  <2>4. CASE a \notin S /\ b \notin S /\ c \notin S
    <3>1. d \in S /\ \A y \in S : y = d
      BY <1>1, <2>4
    <3> QED BY <3>1
  <2> QED BY <2>1, <2>2, <2>3, <2>4
<1> QED BY <1>2, Zenon DEF Min

LEMMA LatestDay ==
  ASSUME NEW days, days \subseteq REMINDER_DAYS, days # {}
  PROVE  Max(days) \in days /\ Max(days) \in Int /\ \A d \in days : d <= Max(days)
<1>1. \A y \in days : y = 3 \/ y = 7 \/ y = 15
  BY DEF REMINDER_DAYS
<1>2. \E z \in days : \A y \in days : z >= y
  <2>1. CASE 15 \in days
    BY <1>1, <2>1
  <2>2. CASE 15 \notin days /\ 7 \in days
    BY <1>1, <2>2
  <2>3. CASE 15 \notin days /\ 7 \notin days
    BY <1>1, <2>3
  <2> QED BY <2>1, <2>2, <2>3
<1>3. Max(days) \in days /\ \A y \in days : Max(days) >= y
  BY <1>2, Zenon DEF Max
<1> HIDE DEF Max
<1> QED BY <1>1, <1>3

LEMMA NextDay ==
  ASSUME NEW anchor \in Int, NEW last \in Int
  PROVE  nextFollowUp(anchor, last) \in Int
<1> DEFINE later == {d \in REMINDER_DAYS \cup {30} : d > last}
<1>1. CASE later = {}
  BY <1>1 DEF nextFollowUp, Never
<1>2. CASE later # {}
  <2>1. later \subseteq {3, 7, 15, 30} /\ later \subseteq Int /\ later # {}
    BY <1>2 DEF REMINDER_DAYS
  <2>2. Min(later) \in later
    <3> DEFINE a == 3  b == 7  c == 15  d == 30
    <3>1. /\ a \in Int /\ b \in Int /\ c \in Int /\ d \in Int /\ a < b /\ b < c /\ c < d
          /\ later \subseteq {a, b, c, d}
      BY <2>1
    <3> HIDE DEF a, b, c, d, later
    <3> QED BY <2>1, <3>1, LeastDay
  <2>3. nextFollowUp(anchor, last) = anchor + Min(later)
    BY <1>2 DEF nextFollowUp, later
  <2>4. Min(later) \in Int
    BY <2>1, <2>2
  <2> QED BY <2>3, <2>4
<1> QED BY <1>1, <1>2

(* ------------------------- what a step may change ----------------------- *)
LEMMA Sent ==
  ASSUME Shapes
  PROVE  /\ Len(sent) \in Nat /\ DOMAIN sent = 1..Len(sent)
         /\ \A n \in DOMAIN sent : /\ sent[n] \in Sends /\ sent[n].cycle \in Nat /\ sent[n].day \in Int
                                   /\ sent[n].at \in Int
<1>1. Len(sent) \in Nat /\ DOMAIN sent = 1..Len(sent) /\ \A n \in 1..Len(sent) : sent[n] \in Sends
  BY LenProperties DEF Shapes
<1>2. \A s \in Sends : s.cycle \in Nat /\ s.day \in Int /\ s.at \in Int
  BY DEF Sends, REMINDER_DAYS
<1> QED BY <1>1, <1>2

(* A new cycle has no reminders of its own; why it began is known today.    *)
LEMMA CycleStep ==
  ASSUME FollowInv, UNCHANGED <<rows, lock, sent, now>>, case' \in Cases, office' \in Nat,
         case'.cycle = case.cycle + 1, case'.heard = now \/ office' > 0, office > 0 => office' > 0
  PROVE  FollowInv'
<1>0. Shapes /\ LockIsOwned /\ OneUnderWay /\ SentHasRow /\ TodayIsKnown /\ NoBurst /\ case.cycle \in Nat
  BY DEF FollowInv, Shapes, Cases
<1>1. Shapes'
  BY <1>0 DEF Shapes
<1>2. ASSUME NEW c \in lock.seen, NEW days \in SUBSET REMINDER_DAYS, c \in Cases, TickHas(c, days)
      PROVE  TickHas(c, days)'
  <2>1. c.cycle <= case'.cycle /\ case'.cycle # c.cycle
    BY <1>0, <1>2 DEF TickHas, Cases
  <2> QED BY <1>2, <2>1 DEF TickHas
<1>3. LockIsOwned'
  BY <1>0, <1>2 DEF LockIsOwned
<1>4. OneUnderWay'
  <2>1. \A r \in rows : r.cycle <= case'.cycle /\ r.cycle # case'.cycle
    BY <1>0 DEF OneUnderWay, Shapes, Reminders
  <2> QED BY <1>0, <2>1 DEF OneUnderWay
<1>5. SentHasRow'
  BY <1>0 DEF SentHasRow
<1>6. TodayIsKnown'
  <2>1. \A n \in DOMAIN sent : sent[n].cycle <= case.cycle
    BY <1>0, Sent DEF SentHasRow, OneUnderWay, Same
  <2>2. \A n \in DOMAIN sent : sent[n].cycle # case'.cycle
    BY <1>0, <2>1, Sent
  <2> QED BY <1>0, <2>2 DEF TodayIsKnown
<1>7. NoBurst'
  BY <1>0 DEF NoBurst
<1> QED BY <1>1, <1>3, <1>4, <1>5, <1>6, <1>7 DEF FollowInv

(* Nothing new is under way, and the cycle stays: the case only forgets     *)
(* nothing.                                                                 *)
LEMMA StayStep ==
  ASSUME FollowInv, UNCHANGED <<rows, sent, now, office>>, lock' = Free, lock.by # "send",
         case' \in Cases, case'.cycle = case.cycle, case'.heard = case.heard,
         case.closed => case'.closed, case.paused => case'.paused, case.stopped => case'.stopped,
         case'.said \in {case.said, now}, case.last <= case'.last
  PROVE  FollowInv'
<1>0. Shapes /\ LockIsOwned /\ OneUnderWay /\ SentHasRow /\ TodayIsKnown /\ NoBurst
  BY DEF FollowInv
<1>1. Shapes' /\ LockIsOwned' /\ NoBurst' /\ SentHasRow'
  BY <1>0 DEF Shapes, LockIsOwned, NoBurst, SentHasRow
<1>2. OneUnderWay'
  <2>1. \A r \in rows : r.day \in Int /\ case.last \in Int /\ case'.last \in Int
    <3>1. \A r \in Reminders : r.day \in Int
      BY DEF Reminders, REMINDER_DAYS
    <3>2. \A c \in Cases : c.last \in Int
      BY DEF Cases
    <3> QED BY <1>0, <3>1, <3>2 DEF Shapes
  <2>2. \A r \in rows : r.day <= case.last => r.day <= case'.last
    BY <2>1
  <2> QED BY <1>0, <2>2 DEF OneUnderWay
<1>3. TodayIsKnown'
  BY <1>0 DEF TodayIsKnown
<1> QED BY <1>1, <1>2, <1>3 DEF FollowInv

LEMMA SetFacts ==
  ASSUME NEW r \in Reminders, NEW status \in Statuses
  PROVE  LET s == [r EXCEPT !.status = status]
         IN  s \in Reminders /\ s.cycle = r.cycle /\ s.day = r.day /\ s.status = status
  BY DEF Reminders

(* Who was sent has a row that says so.                                     *)
LEMMA Unsent ==
  ASSUME FollowInv, NEW r \in rows, r.status = "PENDING" \/ (r.status = "RUNNING" /\ lock.what # "gone")
  PROVE  \A n \in DOMAIN sent : ~Same(r, sent[n])
  BY DEF FollowInv, SentHasRow, OneUnderWay, Same

(* The one reminder that is under way moves on, or settles.                 *)
LEMMA SetStep ==
  ASSUME FollowInv, NEW r \in rows, r.status \in Active, NEW status \in Statuses, rows' = Set(r, status),
         UNCHANGED <<now, office, sent>>, case' \in Cases, case'.cycle = case.cycle,
         UNCHANGED <<case.heard, case.closed, case.paused, case.stopped>>, case'.said \in {case.said, now},
         case'.last = case.last \/ (case'.last = r.day /\ r.cycle = case.cycle),
         status = "EXECUTED" /\ r.cycle = case.cycle =>
           (case'.last = r.day /\ case'.said = now) \/ case.paused \/ case.stopped,
         \A n \in DOMAIN sent : Same(r, sent[n]) => status \in {"UNCERTAIN", "EXECUTED", "HUMAN_REQUIRED"},
         LockIsOwned'
  PROVE  FollowInv'
<1> DEFINE s == [r EXCEPT !.status = status]
<1>0. Shapes /\ LockIsOwned /\ OneUnderWay /\ SentHasRow /\ TodayIsKnown /\ NoBurst
  BY DEF FollowInv
<1>1. r \in Reminders /\ s \in Reminders /\ s.cycle = r.cycle /\ s.day = r.day /\ s.status = status
  BY <1>0, SetFacts DEF Shapes
<1>2. rows' = {x \in rows : x # r} \cup {s}
  BY DEF Set
<1> HIDE DEF s
<1>3. Shapes'
  BY <1>0, <1>1, <1>2 DEF Shapes
<1>4. \A x \in rows' : x = s \/ (x \in rows /\ x # r /\ x.status \notin Active /\ ~Same(x, s))
  BY <1>0, <1>1, <1>2 DEF OneUnderWay, Same
<1>5. \A x \in rows : x # r => x.status \notin Active /\ x \in rows'
  BY <1>0, <1>2 DEF OneUnderWay
<1>6. OneUnderWay'
  <2>1. ASSUME NEW x \in rows', NEW q \in rows', Same(x, q) PROVE x = q
    BY <1>0, <1>4, <2>1 DEF OneUnderWay, Same
  <2>2. ASSUME NEW x \in rows', NEW q \in rows', x.status \in Active, q.status \in Active PROVE x = q
    BY <1>4, <2>2
  <2>3. ASSUME NEW x \in rows', NEW q \in rows', x.status \in Active, q.cycle = x.cycle
        PROVE  q.status # "HUMAN_REQUIRED" /\ (q.status = "EXECUTED" => q.day < x.day)
    <3>1. x = s
      BY <1>4, <2>3
    <3>2. CASE q = s
      BY <2>3, <3>1, <3>2 DEF Active
    <3>3. CASE q # s
      <4>1. q \in rows /\ q.cycle = r.cycle
        BY <1>1, <1>4, <2>3, <3>1, <3>3
      <4> QED BY <1>0, <1>1, <3>1, <4>1 DEF OneUnderWay
    <3> QED BY <3>2, <3>3
  <2>4. ASSUME NEW x \in rows' PROVE x.cycle <= case'.cycle
    BY <1>0, <1>1, <1>4 DEF OneUnderWay
  <2>5. ASSUME NEW x \in rows', x.status = "EXECUTED", x.cycle = case'.cycle
        PROVE  x.day <= case'.last \/ case'.paused \/ case'.stopped
    <3>1. CASE x = s
      <4>1. s.day \in Int
        BY <1>1 DEF Reminders, REMINDER_DAYS
      <4>2. CASE case'.last = r.day
        BY <1>1, <3>1, <4>1, <4>2
      <4> QED BY <1>1, <2>5, <3>1, <4>2
    <3>2. CASE x # s
      <4>1. x \in rows /\ (x.day <= case.last \/ case.paused \/ case.stopped)
        BY <1>0, <1>4, <2>5, <3>2 DEF OneUnderWay
      <4>2. CASE case'.last = case.last
        BY <4>1, <4>2
      <4>3. CASE case'.last = r.day /\ r.cycle = case.cycle
        <5>1. x.day < r.day
          BY <1>0, <2>5, <4>1, <4>3 DEF OneUnderWay
        <5>2. x.day \in Int /\ r.day \in Int
          BY <1>0, <1>1, <4>1 DEF Shapes, Reminders, REMINDER_DAYS
        <5> QED BY <4>3, <5>1, <5>2
      <4> QED BY <4>2, <4>3
    <3> QED BY <3>1, <3>2
  <2> QED BY <2>1, <2>2, <2>3, <2>4, <2>5 DEF OneUnderWay
<1>7. SentHasRow'
  <2> SUFFICES ASSUME NEW n \in DOMAIN sent
               PROVE  \E x \in rows' : Same(x, sent[n]) /\ x.status \in {"UNCERTAIN", "EXECUTED", "HUMAN_REQUIRED"}
    BY DEF SentHasRow, Same
  <2>1. PICK x \in rows : /\ Same(x, sent[n])
                          /\ x.status \in {"UNCERTAIN", "EXECUTED", "HUMAN_REQUIRED"} \/ x.status = "RUNNING"
    BY <1>0 DEF SentHasRow
  <2>2. CASE x = r
    BY <1>1, <1>2, <2>1, <2>2 DEF Same
  <2>3. CASE x # r
    BY <1>5, <2>1, <2>3 DEF Active
  <2> QED BY <2>2, <2>3
<1>8. TodayIsKnown'
  <2> SUFFICES ASSUME NEW n \in DOMAIN sent, sent[n].at = now, sent[n].cycle = case.cycle,
                      NEW x \in rows', Same(x, sent[n]), x.status = "EXECUTED"
               PROVE  case'.said = now \/ case.paused \/ case.stopped
    BY <1>0 DEF TodayIsKnown, Same
  <2>1. CASE x = s
    BY <1>1, <2>1 DEF Same
  <2>2. CASE x # s
    BY <1>0, <1>4, <2>2 DEF TodayIsKnown
  <2> QED BY <2>1, <2>2
<1>9. NoBurst'
  BY <1>0 DEF NoBurst
<1> QED BY <1>3, <1>6, <1>7, <1>8, <1>9 DEF FollowInv

(* ---------------------- the client, the turn, the office ---------------- *)
LEMMA HeardFacts ==
  ASSUME case \in Cases, now \in Nat
  PROVE  Heard \in Cases /\ Heard.cycle = case.cycle + 1 /\ Heard.heard = now
<1> DEFINE c == [case EXCEPT !.heard = now, !.cycle = @ + 1]
<1>1. c \in Cases /\ c.cycle = case.cycle + 1 /\ c.heard = now
  <2>1. case.cycle \in Nat /\ case.cycle + 1 \in Nat /\ now \in Int
    BY DEF Cases
  <2> QED BY <2>1 DEF Cases
<1>2. ASSUME NEW next \in Int
      PROVE  LET d == [c EXCEPT !.next = next] IN d \in Cases /\ d.cycle = c.cycle /\ d.heard = c.heard
  <2> HIDE DEF c
  <2> QED BY <1>1 DEF Cases
<1>4. CASE edition = 1
  <2> DEFINE next == IF c.paused \/ c.closed THEN Never ELSE nextFollowUp(0, c.last)
  <2>1. next \in Int
    <3>1. c.last \in Int
      BY <1>1 DEF Cases
    <3> QED BY <3>1, NextDay DEF Never
  <2>2. Heard = [c EXCEPT !.next = next]
    BY <1>4 DEF Heard
  <2> HIDE DEF c, next
  <2> QED BY <1>1, <1>2, <2>1, <2>2
<1>5. CASE edition # 1
  <2> DEFINE zero == 0
  <2>1. Heard = [c EXCEPT !.last = zero, !.anchor = now, !.next = Never]
    BY <1>5 DEF Heard
  <2>2. now \in Int /\ zero \in Int /\ Never \in Int
    BY DEF Never
  <2> HIDE DEF c, zero
  <2>3. Heard \in Cases /\ Heard.cycle = c.cycle /\ Heard.heard = c.heard
    <3> DEFINE h == Heard  day == now  next == Never
    <3>1. c \in Cases /\ zero \in Int /\ day \in Int /\ next \in Int
          /\ h = [c EXCEPT !.last = zero, !.anchor = day, !.next = next]
      BY <1>1, <2>1, <2>2
    <3> HIDE DEF h, day, next
    <3>2. h \in Cases /\ h.cycle = c.cycle /\ h.heard = c.heard
      BY ONLY <3>1 DEF Cases
    <3> QED BY <3>2 DEF h
  <2> QED BY <1>1, <2>3
<1> QED BY <1>4, <1>5

LEMMA StoppedFacts ==
  ASSUME NEW h \in Cases
  PROVE  LET c == [h EXCEPT !.stopped = TRUE, !.paused = TRUE, !.next = Never]
         IN  c \in Cases /\ c.cycle = h.cycle /\ c.heard = h.heard
<1>1. Never \in Int
  BY DEF Never
<1> QED BY <1>1 DEF Cases

LEMMA WriteStep ==
  ASSUME FollowInv, ClientWrites \/ ClientWroteBefore \/ ClientStops
  PROVE  FollowInv'
<1>0. case \in Cases /\ now \in Nat /\ office \in Nat
  BY DEF FollowInv, Shapes
<1>1. UNCHANGED <<rows, lock, sent, now, office>>
  BY DEF ClientWrites, ClientWroteBefore, ClientStops, Write
<1>2. CASE ClientWrites
  <2>1. case' = Heard
    BY <1>2 DEF ClientWrites, Write
  <2> QED BY <1>0, <1>1, <2>1, HeardFacts, CycleStep
<1>3. CASE ClientStops
  <2>1. case' = [Heard EXCEPT !.stopped = TRUE, !.paused = TRUE, !.next = Never]
    BY <1>3 DEF ClientStops, Write
  <2>2. Heard \in Cases /\ Heard.cycle = case.cycle + 1 /\ Heard.heard = now
    BY <1>0, HeardFacts
  <2>3. case' \in Cases /\ case'.cycle = case.cycle + 1 /\ case'.heard = now
    BY <2>1, <2>2, StoppedFacts
  <2> QED BY <1>0, <1>1, <2>3, CycleStep
<1>4. CASE ClientWroteBefore
  <2>1. case' = case
    BY <1>4 DEF ClientWroteBefore, Write
  <2> QED BY <1>1, <2>1 DEF FollowInv, Shapes, LockIsOwned, TickHas, OneUnderWay, SentHasRow, TodayIsKnown, NoBurst
<1> QED BY <1>2, <1>3, <1>4

LEMMA AcceptedFacts ==
  ASSUME case \in Cases, now \in Nat, NEW cycle, NEW last \in Int
  PROVE  LET c == Accepted(cycle, last)
         IN  /\ c \in Cases /\ c.cycle = case.cycle /\ c.heard = case.heard /\ c.closed = case.closed
             /\ c.paused = case.paused /\ c.stopped = case.stopped /\ c.said \in {case.said, now}
             /\ c.last = case.last \/ (c.last = last /\ cycle = case.cycle)
             /\ case.cycle = cycle => (c.last = last /\ c.said = now) \/ case.paused \/ case.stopped
<1>1. case.anchor \in Int /\ nextFollowUp(case.anchor, last) \in Int /\ Never \in Int /\ now \in Int
  BY NextDay DEF Cases, Never
<1>2. \A next \in Int : LET c == [case EXCEPT !.said = now, !.last = last, !.next = next]
                        IN  /\ c \in Cases /\ c.cycle = case.cycle /\ c.heard = case.heard
                            /\ c.closed = case.closed /\ c.paused = case.paused
                            /\ c.stopped = case.stopped /\ c.said = now /\ c.last = last
  BY <1>1 DEF Cases
<1>3. CASE case.cycle = cycle /\ ~case.paused /\ ~case.stopped
  <2>1. \E next \in Int : Accepted(cycle, last) = [case EXCEPT !.said = now, !.last = last, !.next = next]
    BY <1>1, <1>3 DEF Accepted
  <2> QED BY <1>2, <1>3, <2>1
<1>4. CASE ~(case.cycle = cycle /\ ~case.paused /\ ~case.stopped)
  BY <1>4 DEF Accepted
<1> QED BY <1>3, <1>4

LEMMA TurnStep ==
  ASSUME FollowInv, TurnIsRead \/ ReplyIsSent
  PROVE  FollowInv'
<1>0. case \in Cases /\ now \in Nat /\ case.last \in Int
  BY DEF FollowInv, Shapes, Cases
<1>1. UNCHANGED <<rows, sent, now, office>> /\ lock' = Free /\ lock.by # "send"
  <2>1. lock = Free /\ lock' = lock
    BY DEF TurnIsRead, ReplyIsSent
  <2>2. Free.by # "send"
    BY DEF Free
  <2>3. UNCHANGED <<rows, sent, now, office>>
    BY DEF TurnIsRead, ReplyIsSent
  <2> QED BY <2>1, <2>2, <2>3
<1>2. CASE TurnIsRead
  <2>1. PICK s \in Steps : case' = [case EXCEPT !.step = s]
    BY <1>2 DEF TurnIsRead
  <2>2. s \in Int
    BY DEF Steps
  <2>3. /\ case' \in Cases /\ case'.cycle = case.cycle /\ case'.heard = case.heard
        /\ case'.closed = case.closed /\ case'.paused = case.paused /\ case'.stopped = case.stopped
        /\ case'.said = case.said /\ case'.last = case.last
    BY <1>0, <2>1, <2>2 DEF Cases
  <2> QED BY <1>0, <1>1, <2>3, StayStep
<1>3. CASE ReplyIsSent
  <2>1. case' = case \/ case' = Accepted(case.cycle, case.last)
    BY <1>3 DEF ReplyIsSent
  <2>2. /\ case' \in Cases /\ case'.cycle = case.cycle /\ case'.heard = case.heard
        /\ case'.closed = case.closed /\ case'.paused = case.paused /\ case'.stopped = case.stopped
        /\ case'.said \in {case.said, now} /\ case'.last = case.last
    BY <1>0, <2>1, AcceptedFacts
  <2> QED BY <1>0, <1>1, <2>2, StayStep
<1> QED BY <1>2, <1>3

LEMMA OfficeStep ==
  ASSUME FollowInv, NEW pause \in BOOLEAN, OfficePauses(pause)
  PROVE  FollowInv'
<1>0. case \in Cases /\ now \in Nat /\ office \in Nat /\ case.last \in Int
  BY DEF FollowInv, Shapes, Cases
<1>1. UNCHANGED <<rows, lock, sent, now>> /\ office' \in Nat /\ office' > 0
  BY <1>0 DEF OfficePauses
<1>2. PICK anchor \in Int, last \in Int, next \in Int :
        case' = [case EXCEPT !.paused = pause, !.cycle = @ + 1, !.anchor = anchor, !.last = last, !.next = next]
  <2> DEFINE anchor == IF edition = 1 THEN 0 ELSE now
             last == IF edition = 1 THEN case.last ELSE 0
             next == IF ~pause /\ canFollowUp(case) THEN nextFollowUp(anchor, last) ELSE Never
  <2>1. anchor \in Int /\ last \in Int
    BY <1>0
  <2>2. case' = [case EXCEPT !.paused = pause, !.cycle = @ + 1, !.anchor = anchor, !.last = last, !.next = next]
    BY DEF OfficePauses
  <2> HIDE DEF anchor, last
  <2>3. next \in Int
    BY <2>1, NextDay DEF Never
  <2> QED BY <2>1, <2>2, <2>3
<1>3. case' \in Cases /\ case'.cycle = case.cycle + 1
  <2> DEFINE c == [case EXCEPT !.paused = pause, !.cycle = @ + 1]
  <2>1. c \in Cases /\ c.cycle = case.cycle + 1
    <3>1. case.cycle \in Nat /\ case.cycle + 1 \in Nat
      BY <1>0 DEF Cases
    <3> QED BY <1>0, <3>1 DEF Cases
  <2>2. case' = [c EXCEPT !.anchor = anchor, !.last = last, !.next = next]
    BY <1>2
  <2> HIDE DEF c
  <2> QED BY <2>1, <2>2 DEF Cases
<1> QED BY <1>1, <1>3, CycleStep

(* ------------------------------ the scheduler ---------------------------- *)
LEMMA DeadlineStep ==
  ASSUME FollowInv, DeadlineReached
  PROVE  FollowInv'
<1> DEFINE Given == {"PENDING", "BLOCKED", "FAILED"}
           Over(r) == IF r.status \in Given THEN [r EXCEPT !.status = "CANCELLED"] ELSE r
<1>0. Shapes /\ LockIsOwned /\ OneUnderWay /\ SentHasRow /\ TodayIsKnown /\ NoBurst /\ case.cycle \in Nat
  BY DEF FollowInv, Shapes, Cases
<1>1. rows' = {Over(r) : r \in rows} /\ UNCHANGED <<now, lock, sent, office>> /\ lock = Free
  BY DEF DeadlineReached
<1>2. case' \in Cases /\ case'.cycle = case.cycle + 1 /\ case'.closed
  <2>1. case \in Cases /\ Never \in Int /\ case.cycle + 1 \in Nat
    BY <1>0 DEF Shapes, Never
  <2>2. case' = [case EXCEPT !.closed = TRUE, !.paused = TRUE, !.next = Never, !.cycle = @ + 1]
    BY DEF DeadlineReached
  <2> QED BY <2>1, <2>2 DEF Cases
<1>3. ASSUME NEW r \in rows
      PROVE  /\ Over(r) \in Reminders /\ Over(r).cycle = r.cycle /\ Over(r).day = r.day
             /\ Over(r) = r \/ (Over(r).status = "CANCELLED" /\ r.status \in Given)
  <2>1. r \in Reminders /\ "CANCELLED" \in Statuses
    BY <1>0 DEF Shapes, Statuses
  <2>2. LET s == [r EXCEPT !.status = "CANCELLED"]
        IN  s \in Reminders /\ s.cycle = r.cycle /\ s.day = r.day /\ s.status = "CANCELLED"
    BY <2>1, SetFacts
  <2> QED BY <2>1, <2>2
<1> HIDE DEF Over
<1>4. ASSUME NEW x \in rows'
      PROVE  \E r \in rows : /\ x = Over(r) /\ x.cycle = r.cycle /\ x.day = r.day
                             /\ x = r \/ (x.status = "CANCELLED" /\ r.status \in Given)
  BY <1>1, <1>3, <1>4
<1>5. Shapes'
  BY <1>0, <1>1, <1>2, <1>3 DEF Shapes
<1>6. LockIsOwned'
  BY <1>1 DEF LockIsOwned, Free
<1>7. OneUnderWay'
  <2>1. ASSUME NEW x \in rows', NEW q \in rows', Same(x, q) PROVE x = q
    <3>1. PICK r \in rows : x = Over(r) /\ x.cycle = r.cycle /\ x.day = r.day
      BY <1>4
    <3>2. PICK s \in rows : q = Over(s) /\ q.cycle = s.cycle /\ q.day = s.day
      BY <1>4
    <3>3. r = s
      BY <1>0, <2>1, <3>1, <3>2 DEF OneUnderWay, Same
    <3> QED BY <3>1, <3>2, <3>3
  <2>2. \A x \in rows' : x.status \in Active \cup {"HUMAN_REQUIRED", "EXECUTED"} => x \in rows
    BY <1>4 DEF Active
  <2>3. ASSUME NEW x \in rows' PROVE x.cycle <= case'.cycle /\ x.cycle # case'.cycle
    <3>1. PICK r \in rows : x.cycle = r.cycle
      BY <1>4
    <3>2. r.cycle \in Nat /\ r.cycle <= case.cycle
      BY <1>0 DEF Shapes, Reminders, OneUnderWay
    <3> QED BY <1>0, <1>2, <3>1, <3>2
  <2> QED BY <1>0, <2>1, <2>2, <2>3 DEF OneUnderWay
<1>8. SentHasRow'
  <2> SUFFICES ASSUME NEW n \in DOMAIN sent
               PROVE  \E x \in rows' : Same(x, sent[n]) /\ x.status \in {"UNCERTAIN", "EXECUTED", "HUMAN_REQUIRED"}
    BY <1>1 DEF SentHasRow, Same
  <2>1. PICK r \in rows : Same(r, sent[n]) /\ r.status \in {"UNCERTAIN", "EXECUTED", "HUMAN_REQUIRED"}
    BY <1>0, <1>1 DEF SentHasRow, Free
  <2>2. Over(r) = r
    BY <1>3, <2>1
  <2> QED BY <1>1, <2>1, <2>2
<1>9. TodayIsKnown'
  <2>1. \A n \in DOMAIN sent : sent[n].cycle <= case.cycle
    BY <1>0, Sent DEF SentHasRow, OneUnderWay, Same
  <2>2. \A n \in DOMAIN sent : sent[n].cycle # case'.cycle
    BY <1>0, <1>2, <2>1, Sent
  <2> QED BY <1>0, <1>1, <1>2, <2>2 DEF TodayIsKnown
<1>10. NoBurst'
  BY <1>0, <1>1 DEF NoBurst
<1> QED BY <1>5, <1>6, <1>7, <1>8, <1>9, <1>10 DEF FollowInv

LEMMA LookStep ==
  ASSUME FollowInv, TickLooks
  PROVE  FollowInv'
<1>0. Shapes /\ LockIsOwned /\ OneUnderWay /\ SentHasRow /\ TodayIsKnown /\ NoBurst
  BY DEF FollowInv
<1>1. /\ lock = Free /\ Selected /\ Decision # "nothing"
      /\ lock' = [by |-> "tick", what |-> Decision, seen |-> {case}, row |-> Due]
      /\ UNCHANGED <<now, case, rows, sent, office>>
  BY DEF TickLooks
<1>2. Decision \in {"end", "consume", "remind"} /\ (Decision = "end" \/ Due # {})
  BY <1>1 DEF Decision
<1>3. Due \subseteq REMINDER_DAYS /\ (Due # {} => case.last < Max(Due))
  BY LatestDay DEF Due
<1>4. ASSUME Decision = "remind"
      PROVE  /\ \A r \in rows : r.status \notin Active
             /\ \A r \in rows : r.cycle = case.cycle =>
                  r.status # "HUMAN_REQUIRED" /\ (r.status = "EXECUTED" => r.day < Max(Due))
  <2>1. ~InTheWay /\ Due # {}
    BY <1>4 DEF Decision
  <2>2. \A r \in rows : r.status \notin Active /\ (r.cycle = case.cycle => r.status # "HUMAN_REQUIRED")
    BY <2>1 DEF InTheWay, Active
  <2>3. ASSUME NEW r \in rows, r.cycle = case.cycle, r.status = "EXECUTED" PROVE r.day < Max(Due)
    <3>1. r.day <= case.last
      BY <1>0, <1>1, <2>3 DEF OneUnderWay, Selected
    <3>2. r.day \in Int /\ case.last \in Int
      BY <1>0 DEF Shapes, Reminders, Cases, REMINDER_DAYS
    <3>3. Max(Due) \in Int
      BY <1>3, <2>1, LatestDay
    <3> QED BY <1>3, <2>1, <3>1, <3>2, <3>3
  <2> QED BY <2>2, <2>3
<1>5. case.cycle <= case.cycle /\ case \in Cases
  BY <1>0 DEF Shapes, Cases
<1>6. LockIsOwned'
  <2>1. PICK c, days, what : c = case /\ days = Due /\ what = Decision
    OBVIOUS
  <2>2. lock' = [by |-> "tick", what |-> what, seen |-> {c}, row |-> days]
    BY <1>1, <2>1
  <2>3. lock'.what = what /\ lock'.seen = {c}
        /\ lock' = [by |-> "tick", what |-> lock'.what, seen |-> {c}, row |-> days]
    BY <2>2
  <2>4. what = "consume" => case'.last < Max(days)
    BY <1>1, <1>2, <1>3, <2>1
  <2>5. TickHas(c, days)'
    BY <1>1, <1>2, <1>4, <1>5, <2>1, <2>3, <2>4 DEF TickHas
  <2>6. days \in SUBSET REMINDER_DAYS /\ c \in Cases
    BY <1>3, <1>5, <2>1
  <2> QED BY <2>3, <2>5, <2>6 DEF LockIsOwned
<1>7. SentHasRow'
  BY <1>0, <1>1 DEF SentHasRow, Free
<1>8. Shapes' /\ OneUnderWay' /\ TodayIsKnown' /\ NoBurst'
  BY <1>0, <1>1 DEF Shapes, OneUnderWay, TodayIsKnown, NoBurst
<1> QED BY <1>6, <1>7, <1>8 DEF FollowInv

(* The tick that holds the lock decided on what it saw.                     *)
LEMMA TickOwns ==
  ASSUME FollowInv, lock.by = "tick"
  PROVE  /\ Seen \in Cases /\ lock.row \subseteq REMINDER_DAYS /\ TickHas(Seen, lock.row)
<1>1. lock # Free /\ \A r \in rows : lock # [by |-> "send", what |-> lock.what, seen |-> {}, row |-> {r}]
  <2>1. Free.by # "tick"
    BY DEF Free
  <2>2. \A r, what : [by |-> "send", what |-> what, seen |-> {}, row |-> {r}].by # "tick"
    OBVIOUS
  <2> QED BY <2>1, <2>2
<1>2. PICK c \in lock.seen, days \in SUBSET REMINDER_DAYS : c \in Cases /\ TickHas(c, days)
  BY <1>1 DEF FollowInv, LockIsOwned
<1>3. lock.seen = {c} /\ lock.row = days
  BY <1>2 DEF TickHas
<1>4. Seen = c
  BY <1>3 DEF Seen
<1> QED BY <1>2, <1>3, <1>4

LEMMA EndStep ==
  ASSUME FollowInv, TickEnds \/ TickConsumes
  PROVE  FollowInv'
<1>0. case \in Cases /\ case.last \in Int /\ case.last <= case.last
  BY DEF FollowInv, Shapes, Cases
<1>1. UNCHANGED <<rows, sent, now, office>> /\ lock' = Free /\ lock.by = "tick"
  BY DEF TickEnds, TickConsumes, Tick
<1>2. CASE case' = case
  BY <1>0, <1>1, <1>2, StayStep
<1>3. CASE TickEnds /\ case' # case
  <2>1. case' = [case EXCEPT !.paused = TRUE, !.next = Never] /\ Never \in Int
    BY <1>3 DEF TickEnds, Never
  <2>2. /\ case' \in Cases /\ case'.cycle = case.cycle /\ case'.heard = case.heard
        /\ case'.closed = case.closed /\ case'.paused /\ case'.stopped = case.stopped
        /\ case'.said = case.said /\ case'.last = case.last
    BY <1>0, <2>1 DEF Cases
  <2> QED BY <1>0, <1>1, <2>2, StayStep
<1>4. CASE TickConsumes /\ case' # case
  <2>1. TickHas(Seen, lock.row) /\ Seen \in Cases /\ lock.row \subseteq REMINDER_DAYS /\ lock.what = "consume"
    BY <1>1, <1>4, TickOwns DEF TickConsumes, Tick
  <2>2. case.cycle = Seen.cycle
    BY <1>4 DEF TickConsumes
  <2>3. lock.row # {} /\ case.last < Max(lock.row)
    BY <2>1, <2>2 DEF TickHas
  <2>4. Max(lock.row) \in Int /\ Seen.anchor \in Int
    BY <2>1, <2>3, LatestDay DEF Cases
  <2>5. PICK next \in Int : case' = [case EXCEPT !.last = Max(lock.row), !.next = next]
    BY <1>4, <2>2, <2>4, NextDay DEF TickConsumes
  <2>6. /\ case' \in Cases /\ case'.cycle = case.cycle /\ case'.heard = case.heard
        /\ case'.closed = case.closed /\ case'.paused = case.paused /\ case'.stopped = case.stopped
        /\ case'.said = case.said /\ case'.last = Max(lock.row)
    BY <1>0, <2>4, <2>5 DEF Cases
  <2>7. case.last <= case'.last
    BY <1>0, <2>3, <2>4, <2>6
  <2> QED BY <1>0, <1>1, <2>6, <2>7, StayStep
<1> QED BY <1>2, <1>3, <1>4

LEMMA RemindStep ==
  ASSUME FollowInv, TickReminds
  PROVE  FollowInv'
<1> DEFINE new == [cycle |-> Seen.cycle, day |-> Max(lock.row), step |-> Seen.step,
                   anchor |-> Seen.anchor, status |-> "PENDING"]
<1>0. Shapes /\ LockIsOwned /\ OneUnderWay /\ SentHasRow /\ TodayIsKnown /\ NoBurst
  BY DEF FollowInv
<1>1. UNCHANGED <<now, case, sent, office>> /\ lock' = Free /\ lock.by = "tick" /\ lock.what = "remind"
  BY DEF TickReminds, Tick
<1>2. TickHas(Seen, lock.row) /\ Seen \in Cases /\ lock.row \subseteq REMINDER_DAYS /\ lock.row # {}
  BY <1>1, TickOwns DEF TickHas
<1>3. \/ rows' = rows
      \/ /\ rows' = rows \cup {new}
         /\ ~\E r \in rows : r.cycle = Seen.cycle /\ r.day = Max(lock.row)
  BY DEF TickReminds
<1>4. Max(lock.row) \in REMINDER_DAYS
  BY <1>2, LatestDay
<1>5. new \in Reminders /\ new.cycle = Seen.cycle /\ new.day = Max(lock.row) /\ new.status = "PENDING"
  BY <1>2, <1>4 DEF Reminders, Cases, Statuses, Active
<1> HIDE DEF new
<1>6. /\ \A r \in rows : r.status \notin Active
      /\ \A r \in rows : r.cycle = new.cycle =>
           r.status # "HUMAN_REQUIRED" /\ (r.status = "EXECUTED" => r.day < new.day)
      /\ new.cycle <= case.cycle
  BY <1>1, <1>2, <1>5 DEF TickHas
<1>7. LockIsOwned'
  BY <1>1 DEF LockIsOwned
<1>8. Shapes' /\ NoBurst'
  BY <1>0, <1>1, <1>3, <1>5 DEF Shapes, NoBurst
<1>9. SentHasRow'
  BY <1>0, <1>1, <1>3 DEF SentHasRow
<1>10. TodayIsKnown'
  BY <1>0, <1>1, <1>3, <1>5 DEF TodayIsKnown
<1>11. OneUnderWay'
  <2>1. CASE rows' = rows
    BY <1>0, <1>1, <2>1 DEF OneUnderWay
  <2>2. CASE rows' # rows
    <3>1. rows' = rows \cup {new} /\ \A r \in rows : ~Same(r, new) /\ ~Same(new, r)
      BY <1>3, <1>5, <2>2 DEF Same
    <3>2. \A r, q \in rows' : Same(r, q) => r = q
      BY <1>0, <3>1 DEF OneUnderWay
    <3>3. \A r, q \in rows' : r.status \in Active /\ q.status \in Active => r = q
      BY <1>6, <3>1
    <3>4. \A r, q \in rows' : r.status \in Active /\ q.cycle = r.cycle =>
            q.status # "HUMAN_REQUIRED" /\ (q.status = "EXECUTED" => q.day < r.day)
      BY <1>5, <1>6, <3>1
    <3>5. /\ \A r \in rows' : r.cycle <= case.cycle
          /\ \A r \in rows' : r.status = "EXECUTED" /\ r.cycle = case.cycle =>
               r.day <= case.last \/ case.paused \/ case.stopped
      BY <1>0, <1>5, <1>6, <3>1 DEF OneUnderWay
    <3> QED BY <1>1, <3>2, <3>3, <3>4, <3>5 DEF OneUnderWay
  <2> QED BY <2>1, <2>2
<1> QED BY <1>7, <1>8, <1>9, <1>10, <1>11 DEF FollowInv

(* ------------------------------- the executor ---------------------------- *)
LEMMA CheckStep ==
  ASSUME FollowInv, NEW r \in rows, Check(r)
  PROVE  FollowInv'
<1> DEFINE s == [r EXCEPT !.status = "RUNNING"]
<1>0. /\ case \in Cases /\ r \in Reminders /\ r.status = "PENDING" /\ r.status \in Active /\ lock = Free
      /\ UNCHANGED <<now, case, sent, office>> /\ case.said \in {case.said, now}
  BY DEF FollowInv, Shapes, Check, Active
<1>1. \A n \in DOMAIN sent : ~Same(r, sent[n])
  BY <1>0, Unsent
<1>2. CASE lock' = Free /\ \E status \in {"CANCELLED", "BLOCKED"} : rows' = Set(r, status)
  <2>1. PICK status \in {"CANCELLED", "BLOCKED"} : rows' = Set(r, status)
    BY <1>2
  <2>2. status \in Statuses /\ status # "EXECUTED"
    BY DEF Statuses, Active
  <2>3. LockIsOwned'
    BY <1>2 DEF LockIsOwned
  <2> QED BY <1>0, <1>1, <2>1, <2>2, <2>3, SetStep
<1>3. CASE rows' = Set(r, "RUNNING") /\ lock' = [Free EXCEPT !.by = "send", !.row = {s}]
  <2>1. "RUNNING" \in Statuses
    BY DEF Statuses, Active
  <2>2. s \in Reminders /\ s.status = "RUNNING" /\ s \in rows'
    BY <1>0, <1>3, <2>1, SetFacts DEF Set
  <2> HIDE DEF s
  <2>3. lock' = [by |-> "send", what |-> "", seen |-> {}, row |-> {s}]
    BY <1>3 DEF Free
  <2>4. lock'.what = "" /\ lock' = [by |-> "send", what |-> lock'.what, seen |-> {}, row |-> {s}]
    BY <2>3
  <2>5. LockIsOwned'
    BY <2>2, <2>4 DEF LockIsOwned
  <2> QED BY <1>0, <1>1, <1>3, <2>1, <2>5, SetStep
<1> QED BY <1>2, <1>3 DEF Check

(* The executor that holds the lock has one reminder, and it is running.    *)
LEMMA SendOwns ==
  ASSUME FollowInv, lock.by = "send"
  PROVE  /\ Mine \in rows /\ Mine \in Reminders /\ Mine.status = "RUNNING" /\ Mine.status \in Active
         /\ lock = [by |-> "send", what |-> lock.what, seen |-> {}, row |-> {Mine}]
<1>1. lock # Free /\ \A c, days : ~TickHas(c, days)
  <2>1. Free.by # "send"
    BY DEF Free
  <2>2. \A c, days, what : [by |-> "tick", what |-> what, seen |-> {c}, row |-> days].by # "send"
    OBVIOUS
  <2> QED BY <2>1, <2>2 DEF TickHas
<1>2. PICK r \in rows : /\ r.status = "RUNNING"
                        /\ lock = [by |-> "send", what |-> lock.what, seen |-> {}, row |-> {r}]
  BY <1>1 DEF FollowInv, LockIsOwned
<1>3. lock.row = {r}
  BY <1>2
<1>4. Mine = r
  BY <1>3 DEF Mine
<1> QED BY <1>2, <1>4 DEF FollowInv, Shapes, Active

LEMMA SendStep ==
  ASSUME FollowInv, Send
  PROVE  FollowInv'
<1> DEFINE new == [cycle |-> Mine.cycle, day |-> Mine.day, at |-> now]
<1>0. Shapes /\ LockIsOwned /\ OneUnderWay /\ SentHasRow /\ TodayIsKnown /\ NoBurst
  BY DEF FollowInv
<1>1. /\ lock.by = "send" /\ lock.what = "" /\ UNCHANGED <<now, case, office>> /\ case \in Cases
      /\ case.said \in {case.said, now}
  BY <1>0 DEF Send, Shapes
<1>2. /\ Mine \in rows /\ Mine \in Reminders /\ Mine.status = "RUNNING" /\ Mine.status \in Active
      /\ lock = [by |-> "send", what |-> lock.what, seen |-> {}, row |-> {Mine}]
  BY <1>1, SendOwns
<1>3. \A n \in DOMAIN sent : ~Same(Mine, sent[n])
  BY <1>1, <1>2, Unsent
<1>4. CASE Silenced \/ Changed(Mine)
  <2>1. rows' = Set(Mine, "CANCELLED") /\ lock' = Free /\ sent' = sent
    BY <1>4 DEF Send
  <2>2. "CANCELLED" \in Statuses /\ "CANCELLED" # "EXECUTED"
    BY DEF Statuses
  <2>3. LockIsOwned'
    BY <2>1 DEF LockIsOwned
  <2> QED BY <1>1, <1>2, <1>3, <2>1, <2>2, <2>3, SetStep
<1>5. CASE ~(Silenced \/ Changed(Mine))
  <2>1. sent' = Append(sent, new) /\ lock' = [lock EXCEPT !.what = "gone"] /\ rows' = rows
    BY <1>5 DEF Send
  <2>2. /\ Mine.cycle = case.cycle /\ case.said # now /\ case.heard # now
        /\ ~case.paused /\ ~case.stopped /\ ~case.closed
    BY <1>5 DEF Silenced, Changed, recentConversation
  <2>3. new \in Sends /\ new.cycle = Mine.cycle /\ new.day = Mine.day /\ new.at = now /\ now \in Int
    BY <1>0, <1>2 DEF Sends, Reminders, Shapes
  <2> HIDE DEF new
  <2>4. /\ Len(sent) \in Nat /\ DOMAIN sent = 1..Len(sent) /\ sent' \in Seq(Sends)
        /\ DOMAIN sent' = 1..(Len(sent) + 1) /\ sent'[Len(sent) + 1] = new
        /\ \A n \in DOMAIN sent : sent'[n] = sent[n]
    BY <1>0, <2>1, <2>3, Sent, AppendProperties DEF Shapes
  <2>5. \A n \in DOMAIN sent' : n \in DOMAIN sent \/ n = Len(sent) + 1
    BY <2>4
  <2>6. lock' = [by |-> "send", what |-> "gone", seen |-> {}, row |-> {Mine}]
    <3>1. PICK w, l : l = lock /\ w = {Mine}
      OBVIOUS
    <3>2. l = [by |-> "send", what |-> l.what, seen |-> {}, row |-> w] /\ lock' = [l EXCEPT !.what = "gone"]
      BY <1>2, <2>1, <3>1
    <3>3. lock' = [by |-> "send", what |-> "gone", seen |-> {}, row |-> w]
      BY ONLY <3>2
    <3> QED BY <3>1, <3>3
  <2>7. /\ lock'.by = "send" /\ lock'.what = "gone"
        /\ lock' = [by |-> "send", what |-> lock'.what, seen |-> {}, row |-> {Mine}]
    BY <2>6
  <2>8. LockIsOwned'
    <3> DEFINE r == Mine
    <3>1. r \in rows /\ r.status = "RUNNING"
      BY <1>2
    <3>2. lock' = [by |-> "send", what |-> lock'.what, seen |-> {}, row |-> {r}]
      BY <2>7
    <3> HIDE DEF r
    <3> QED BY <2>1, <2>7, <3>1, <3>2 DEF LockIsOwned
  <2>9. Shapes' /\ OneUnderWay'
    BY <1>0, <1>1, <2>1, <2>4 DEF Shapes, OneUnderWay
  <2>10. SentHasRow'
    <3> SUFFICES ASSUME NEW n \in DOMAIN sent'
                 PROVE  \E r \in rows : /\ Same(r, sent'[n])
                                        /\ r.status \in {"UNCERTAIN", "EXECUTED", "HUMAN_REQUIRED"} \/ r.status = "RUNNING"
      BY <2>1, <2>7 DEF SentHasRow, Same
    <3>1. CASE n \in DOMAIN sent
      BY <1>0, <2>4, <3>1 DEF SentHasRow
    <3>2. CASE n = Len(sent) + 1
      BY <1>2, <2>3, <2>4, <3>2 DEF Same
    <3> QED BY <2>5, <3>1, <3>2
  <2>11. \A r \in rows : Same(r, new) => r = Mine
    BY <1>0, <1>2, <2>3 DEF OneUnderWay, Same
  <2>12. TodayIsKnown'
    <3> SUFFICES ASSUME NEW n \in DOMAIN sent'
                 PROVE  /\ sent'[n].at <= now
                        /\ sent'[n].at = now /\ sent'[n].cycle # case.cycle =>
                             case.heard = now \/ office > 0 \/ case.closed
                        /\ sent'[n].at = now /\ sent'[n].cycle = case.cycle =>
                             \A r \in rows : Same(r, sent'[n]) /\ r.status = "EXECUTED" =>
                               case.said = now \/ case.paused \/ case.stopped
      BY <1>1, <2>1 DEF TodayIsKnown, Same
    <3>1. CASE n \in DOMAIN sent
      BY <1>0, <2>4, <3>1 DEF TodayIsKnown
    <3>2. CASE n = Len(sent) + 1
      BY <1>2, <2>2, <2>3, <2>4, <2>11, <3>2
    <3> QED BY <2>5, <3>1, <3>2
  <2>13. ASSUME NEW m \in DOMAIN sent
         PROVE  IF sent[m].cycle = new.cycle THEN sent[m].at < new.at /\ sent[m].day < new.day
                ELSE sent[m].at < new.at \/ office > 0
    <3>1. PICK x \in rows : Same(x, sent[m]) /\ x.status \in {"UNCERTAIN", "EXECUTED", "HUMAN_REQUIRED"}
      BY <1>0, <1>1 DEF SentHasRow
    <3>2. sent[m].at \in Int /\ sent[m].at <= now
      BY <1>0, Sent DEF TodayIsKnown
    <3>3. CASE sent[m].cycle = new.cycle
      <4>1. x # Mine /\ x.cycle = Mine.cycle
        BY <1>2, <2>3, <3>1, <3>3 DEF Same
      <4>2. x.status = "EXECUTED" /\ x.day < Mine.day
        BY <1>0, <1>2, <3>1, <4>1 DEF OneUnderWay, Active
      <4>3. sent[m].at # now
        BY <1>0, <2>2, <2>3, <3>1, <3>3, <4>2 DEF TodayIsKnown
      <4> QED BY <2>3, <3>1, <3>2, <3>3, <4>2, <4>3 DEF Same
    <3>4. CASE sent[m].cycle # new.cycle
      <4>1. sent[m].at = now => office > 0
        BY <1>0, <2>2, <2>3, <3>4 DEF TodayIsKnown
      <4> QED BY <2>3, <3>2, <3>4, <4>1
    <3> QED BY <3>3, <3>4
  <2>14. NoBurst'
    <3> SUFFICES ASSUME NEW m \in DOMAIN sent', NEW n \in DOMAIN sent', m < n
                 PROVE  IF sent'[m].cycle = sent'[n].cycle
                        THEN sent'[m].at < sent'[n].at /\ sent'[m].day < sent'[n].day
                        ELSE sent'[m].at < sent'[n].at \/ office > 0
      BY <1>1 DEF NoBurst
    <3>1. m \in DOMAIN sent
      BY <2>4
    <3>2. CASE n \in DOMAIN sent
      BY <1>0, <2>4, <3>1, <3>2 DEF NoBurst
    <3>3. CASE n = Len(sent) + 1
      BY <2>4, <2>13, <3>1, <3>3
    <3> QED BY <2>5, <3>2, <3>3
  <2> QED BY <2>8, <2>9, <2>10, <2>12, <2>14 DEF FollowInv
<1> QED BY <1>4, <1>5

(* A reminder is settled: done, lost, or for a person.                      *)
LEMMA SettleStep ==
  ASSUME FollowInv, NEW r \in rows, r.status \in Active,
         \/ rows' = Set(r, "EXECUTED") /\ case' = Accepted(r.cycle, r.day)
         \/ rows' = Set(r, "HUMAN_REQUIRED") /\ case' = case
         \/ rows' = Set(r, "UNCERTAIN") /\ case' = case,
         lock' = Free, UNCHANGED <<now, office, sent>>
  PROVE  FollowInv'
<1>0. case \in Cases /\ now \in Nat /\ r \in Reminders /\ r.day \in Int /\ LockIsOwned'
  <2>1. case \in Cases /\ now \in Nat /\ r \in Reminders
    BY DEF FollowInv, Shapes
  <2>2. r.day \in Int
    BY <2>1 DEF Reminders, REMINDER_DAYS
  <2>3. LockIsOwned'
    BY DEF LockIsOwned
  <2> QED BY <2>1, <2>2, <2>3
<1>1. CASE rows' = Set(r, "EXECUTED") /\ case' = Accepted(r.cycle, r.day)
  <2>1. /\ case' \in Cases /\ case'.cycle = case.cycle /\ case'.heard = case.heard
        /\ case'.closed = case.closed /\ case'.paused = case.paused /\ case'.stopped = case.stopped
        /\ case'.said \in {case.said, now}
        /\ case'.last = case.last \/ (case'.last = r.day /\ r.cycle = case.cycle)
        /\ r.cycle = case.cycle => (case'.last = r.day /\ case'.said = now) \/ case.paused \/ case.stopped
    BY <1>0, <1>1, AcceptedFacts
  <2>2. "EXECUTED" \in Statuses
    BY DEF Statuses
  <2> QED BY <1>0, <1>1, <2>1, <2>2, SetStep
<1>2. CASE case' = case /\ \E status \in {"HUMAN_REQUIRED", "UNCERTAIN"} : rows' = Set(r, status)
  <2>1. PICK status \in {"HUMAN_REQUIRED", "UNCERTAIN"} : rows' = Set(r, status)
    BY <1>2
  <2>2. status \in Statuses /\ status # "EXECUTED" /\ status \in {"UNCERTAIN", "EXECUTED", "HUMAN_REQUIRED"}
    BY DEF Statuses, Active
  <2> QED BY <1>0, <1>2, <2>1, <2>2, SetStep
<1> QED BY <1>1, <1>2

LEMMA SettledSteps ==
  ASSUME FollowInv, Complete \/ Lose \/ \E r \in rows : Reconcile(r)
  PROVE  FollowInv'
<1>1. CASE Complete
  BY <1>1, SendOwns, SettleStep DEF Complete
<1>2. CASE Lose
  BY <1>2, SendOwns, SettleStep DEF Lose
<1>3. ASSUME NEW r \in rows, Reconcile(r) PROVE FollowInv'
  BY <1>3, SettleStep DEF Reconcile, Active
<1> QED BY <1>1, <1>2, <1>3

(* -------------------------------- the clock ------------------------------ *)
LEMMA DayStep ==
  ASSUME FollowInv, DayPasses
  PROVE  FollowInv'
<1>0. Shapes /\ LockIsOwned /\ OneUnderWay /\ SentHasRow /\ TodayIsKnown /\ NoBurst
  BY DEF FollowInv
<1>1. UNCHANGED <<case, rows, lock, sent, office>> /\ lock = Free /\ NextDays # {} /\ now' = Min(NextDays)
  BY DEF DayPasses
<1>2. now \in Nat /\ case.anchor \in Int
  BY <1>0 DEF Shapes, Cases
<1>3. Min(NextDays) \in NextDays
  <2>1. CASE now <= LastWord
    <3>1. NextDays = {now + 1} /\ now + 1 \in Int
      BY <1>2, <2>1 DEF NextDays
    <3>2. \E z \in NextDays : \A y \in NextDays : z <= y
      BY <3>1
    <3> QED BY <3>2, Zenon DEF Min
  <2>2. CASE ~(now <= LastWord)
    <3> DEFINE a == case.anchor + 3  b == case.anchor + 7  c == case.anchor + 15  d == case.anchor + 30
               S == NextDays
    <3>1. a \in Int /\ b \in Int /\ c \in Int /\ d \in Int /\ a < b /\ b < c /\ c < d
      BY <1>2
    <3>2. S \subseteq {a, b, c, d} /\ S # {}
      BY <1>1, <1>2, <2>2 DEF NextDays, REMINDER_DAYS
    <3> HIDE DEF a, b, c, d, S
    <3>3. Min(S) \in S
      BY <3>1, <3>2, LeastDay
    <3> QED BY <3>3 DEF S
  <2> QED BY <2>1, <2>2
<1>4. \A d \in NextDays : d \in Nat /\ d > now
  BY <1>2 DEF NextDays
<1>5. now' \in Nat /\ now' > now
  BY <1>1, <1>3, <1>4
<1>6. Shapes' /\ OneUnderWay' /\ SentHasRow' /\ NoBurst'
  BY <1>0, <1>1, <1>5 DEF Shapes, OneUnderWay, SentHasRow, NoBurst
<1>7. LockIsOwned'
  BY <1>1 DEF LockIsOwned
<1>8. TodayIsKnown'
  <2>1. \A n \in DOMAIN sent : sent[n].at \in Int /\ sent[n].at <= now
    BY <1>0, Sent DEF TodayIsKnown
  <2>2. \A n \in DOMAIN sent : sent[n].at <= now' /\ sent[n].at # now'
    BY <1>2, <1>5, <2>1
  <2> QED BY <1>1, <2>2 DEF TodayIsKnown
<1> QED BY <1>6, <1>7, <1>8 DEF FollowInv

(* ---------------------------- the specification -------------------------- *)
LEMMA FollowInit == Init => FollowInv
<1> SUFFICES ASSUME Init PROVE FollowInv
  OBVIOUS
<1>1. Shapes
  <2>1. case \in Cases
    BY DEF Init, Cases
  <2>2. sent \in Seq(Sends) /\ DOMAIN sent = {}
    BY EmptySeq DEF Init
  <2> QED BY <2>1, <2>2 DEF Init, Shapes
<1>2. LockIsOwned /\ OneUnderWay
  BY DEF Init, LockIsOwned, OneUnderWay
<1>3. SentHasRow /\ TodayIsKnown /\ NoBurst
  BY DEF Init, SentHasRow, TodayIsKnown, NoBurst
<1> QED BY <1>1, <1>2, <1>3 DEF FollowInv

LEMMA FollowStep == FollowInv /\ [Next]_vars => FollowInv'
<1> SUFFICES ASSUME FollowInv, [Next]_vars PROVE FollowInv'
  OBVIOUS
<1>1. CASE ClientWrites \/ ClientWroteBefore \/ ClientStops
  BY <1>1, WriteStep
<1>2. CASE TurnIsRead \/ ReplyIsSent
  BY <1>2, TurnStep
<1>3. CASE \E pause \in BOOLEAN : OfficePauses(pause)
  BY <1>3, OfficeStep
<1>4. CASE Scheduler
  BY <1>4, DeadlineStep, LookStep, EndStep, RemindStep DEF Scheduler
<1>5. CASE Executor
  BY <1>5, SendStep, CheckStep, SettledSteps DEF Executor
<1>6. CASE Lose
  BY <1>6, SettledSteps
<1>7. CASE DayPasses
  BY <1>7, DayStep
<1>8. CASE UNCHANGED vars
  BY <1>8 DEF vars, FollowInv, Shapes, LockIsOwned, TickHas, OneUnderWay, SentHasRow, TodayIsKnown, NoBurst
<1> QED BY <1>1, <1>2, <1>3, <1>4, <1>5, <1>6, <1>7, <1>8 DEF Next

(* No client gets a burst of reminders (follow-up.ts, automation.ts): two   *)
(* of one cycle are of different days and rising milestones, and two of     *)
(* different cycles fall on one day only where the office stepped in.       *)
THEOREM NeverABurst == Spec => []NoBurst
<1>1. FollowInv => NoBurst
  BY DEF FollowInv
<1> QED BY <1>1, FollowInit, FollowStep, PTL DEF Spec

-------------------------------------------------------------------------------
(* The avisos of Kmaleon.                                                   *)

(* A link opens the case at most once.                                      *)
LEMMA LinkedOnce ==
  ASSUME NEW p \in Project, NEW c \in Avi!Cards, file \in [Project -> Avi!CaseRows]
  PROVE  Avi!Linked(p, c) \in Avi!CaseRows
<1> DEFINE k == IF file[p].step = "none" THEN [card |-> c, step |-> "triage", opened |-> 0] ELSE file[p]
           opened == k.opened + IF Avi!Opens(k) THEN 1 ELSE 0
<1>1. k \in Avi!CaseRows
  BY DEF Avi!CaseRows
<1>2. Avi!Linked(p, c) = [k EXCEPT !.opened = opened]
  BY DEF Avi!Linked
<1> HIDE DEF k
<1>3. opened \in {0, 1}
  <2>1. k.opened \in {0, 1}
    BY <1>1 DEF Avi!CaseRows
  <2>2. CASE Avi!Opens(k)
    BY <2>2 DEF Avi!Opens
  <2>3. CASE ~Avi!Opens(k)
    BY <2>1, <2>3
  <2> QED BY <2>2, <2>3
<1> HIDE DEF opened
<1> QED BY <1>1, <1>2, <1>3 DEF Avi!CaseRows

(* A poller moves: it keeps its shape, and what it is about to link had     *)
(* been seen to wait.                                                       *)
LEMMA GoesStep ==
  ASSUME Avi!Shapes, Avi!StoodWhenTaken, NEW w \in Poller, NEW r \in Avi!PollRows, Avi!Goes(w, r),
         pending' = pending,
         r.phase \in {"resolve", "recheck", "link"} => r.at \in Trigger,
         r.phase \in {"resolve", "recheck"} /\ r.at \in pending => r.stood,
         r.phase = "link" => r.stood
  PROVE  poll' \in [Poller -> Avi!PollRows] /\ Avi!StoodWhenTaken'
<1>1. poll \in [Poller -> Avi!PollRows] /\ poll' = [poll EXCEPT ![w] = r]
  BY DEF Avi!Shapes, Avi!Goes
<1>2. \A v \in Poller : poll'[v] = IF v = w THEN r ELSE poll[v]
  BY <1>1
<1> QED BY <1>1, <1>2 DEF Avi!StoodWhenTaken

LEMMA AsleepFacts ==
  ASSUME NEW phase \in {"asleep", "list", "each"}, NEW todo \in SUBSET Trigger
  PROVE  /\ [Avi!Asleep EXCEPT !.phase = phase] \in Avi!PollRows
         /\ [Avi!Asleep EXCEPT !.phase = phase].phase = phase
         /\ [Avi!Asleep EXCEPT !.phase = phase, !.todo = todo] \in Avi!PollRows
         /\ [Avi!Asleep EXCEPT !.phase = phase, !.todo = todo].phase = phase
         /\ Avi!Asleep \in Avi!PollRows /\ Avi!Asleep.phase = "asleep"
  BY DEF Avi!Asleep, Avi!PollRows, Avi!Cards

(* The row of an aviso that failed, and the poller that goes on.            *)
LEMMA FailsStep ==
  ASSUME Avi!IntakeInv, NEW w \in Poller, Avi!Fails(w), Avi!Only(w)
  PROVE  Avi!IntakeInv'
<1> DEFINE back == [Avi!Asleep EXCEPT !.phase = "each", !.todo = poll[w].todo]
<1>0. Avi!Shapes /\ Avi!TypeOK /\ Avi!StoodWhenTaken /\ ~late /\ poll[w] \in Avi!PollRows
  BY DEF Avi!IntakeInv, Avi!Shapes, Avi!NoStaleContact
<1>1. /\ trig' = [trig EXCEPT ![poll[w].at] = "HUMAN_REQUIRED"] /\ Avi!Goes(w, back)
      /\ UNCHANGED <<file, late, of, pending, broken, card, found>>
  BY DEF Avi!Fails, Avi!Back, Avi!Only, Avi!kmaleon
<1>2. back \in Avi!PollRows /\ back.phase = "each"
  <2>1. poll[w].todo \in SUBSET Trigger
    BY <1>0 DEF Avi!PollRows
  <2> QED BY <2>1, AsleepFacts
<1> HIDE DEF back
<1>3. poll' \in [Poller -> Avi!PollRows] /\ Avi!StoodWhenTaken'
  BY <1>0, <1>1, <1>2, GoesStep
<1>4. trig' \in [Trigger -> {"none", "PENDING", "PROCESSED", "HUMAN_REQUIRED"}]
  BY <1>0, <1>1 DEF Avi!TypeOK
<1>5. Avi!Shapes'
  BY <1>0, <1>1, <1>3, <1>4 DEF Avi!Shapes, Avi!TypeOK
<1> QED BY <1>0, <1>1, <1>3, <1>5 DEF Avi!IntakeInv, Avi!NoStaleContact

(* A step that only moves a poller.                                         *)
LEMMA MovesStep ==
  ASSUME Avi!IntakeInv, NEW w \in Poller, NEW r \in Avi!PollRows, Avi!Goes(w, r),
         UNCHANGED <<file, late, of, pending, broken, card, found>>,
         trig' \in [Trigger -> {"none", "PENDING", "PROCESSED", "HUMAN_REQUIRED"}],
         r.phase \in {"resolve", "recheck", "link"} => r.at \in Trigger,
         r.phase \in {"resolve", "recheck"} /\ r.at \in pending => r.stood,
         r.phase = "link" => r.stood
  PROVE  Avi!IntakeInv'
<1>0. Avi!Shapes /\ Avi!TypeOK /\ Avi!StoodWhenTaken /\ ~late
  BY DEF Avi!IntakeInv, Avi!Shapes, Avi!NoStaleContact
<1>1. poll' \in [Poller -> Avi!PollRows] /\ Avi!StoodWhenTaken'
  BY <1>0, GoesStep
<1>2. Avi!Shapes'
  BY <1>0, <1>1 DEF Avi!Shapes, Avi!TypeOK
<1> QED BY <1>0, <1>1, <1>2 DEF Avi!IntakeInv, Avi!NoStaleContact

LEMMA TakesStep ==
  ASSUME Avi!IntakeInv, NEW w \in Poller, Avi!Takes(w)
  PROVE  Avi!IntakeInv'
<1>0. /\ poll[w] \in Avi!PollRows /\ trig \in [Trigger -> {"none", "PENDING", "PROCESSED", "HUMAN_REQUIRED"}]
      /\ UNCHANGED <<file, late, of, pending, broken, card, found>> /\ poll[w].phase = "each"
  BY DEF Avi!IntakeInv, Avi!Shapes, Avi!TypeOK, Avi!Takes, Avi!Only, Avi!kmaleon
<1>1. PICK t \in poll[w].todo :
        /\ trig' = [trig EXCEPT ![t] = IF @ = "none" THEN "PENDING" ELSE @]
        /\ Avi!Goes(w, IF Avi!Skips(t) THEN [poll[w] EXCEPT !.todo = @ \ {t}]
                       ELSE [poll[w] EXCEPT !.todo = @ \ {t}, !.at = t, !.phase = "resolve",
                                            !.stood = t \in pending])
  BY DEF Avi!Takes
<1>2. poll[w].todo \in SUBSET Trigger /\ t \in Trigger /\ poll[w].todo \ {t} \in SUBSET Trigger
  BY <1>0 DEF Avi!PollRows
<1>3. trig' \in [Trigger -> {"none", "PENDING", "PROCESSED", "HUMAN_REQUIRED"}]
  BY <1>0, <1>1
<1>4. CASE Avi!Skips(t)
  <2> DEFINE r == [poll[w] EXCEPT !.todo = @ \ {t}]
  <2>1. r \in Avi!PollRows /\ r.phase = "each"
    BY <1>0, <1>2 DEF Avi!PollRows
  <2>2. Avi!Goes(w, r)
    BY <1>1, <1>4
  <2> HIDE DEF r
  <2> QED BY <1>0, <1>3, <2>1, <2>2, MovesStep
<1>5. CASE ~Avi!Skips(t)
  <2> DEFINE stood == t \in pending
             r == [poll[w] EXCEPT !.todo = @ \ {t}, !.at = t, !.phase = "resolve", !.stood = stood]
  <2>1. stood \in BOOLEAN
    OBVIOUS
  <2>2. Avi!Goes(w, r)
    BY <1>1, <1>5
  <2> HIDE DEF stood
  <2>3. r \in Avi!PollRows /\ r.phase = "resolve" /\ r.at = t /\ r.stood = stood
    BY <1>0, <1>2, <2>1 DEF Avi!PollRows
  <2> HIDE DEF r
  <2>4. t \in pending => r.stood
    BY <2>3 DEF stood
  <2> QED BY <1>0, <1>2, <1>3, <2>2, <2>3, <2>4, MovesStep
<1> QED BY <1>4, <1>5

LEMMA ResolveStep ==
  ASSUME Avi!IntakeInv, NEW w \in Poller, Avi!Resolve(w) \/ Avi!Recheck(w)
  PROVE  Avi!IntakeInv'
<1> DEFINE p == of[poll[w].at]
<1>0. /\ poll[w] \in Avi!PollRows /\ trig \in [Trigger -> {"none", "PENDING", "PROCESSED", "HUMAN_REQUIRED"}]
      /\ Avi!Only(w) /\ UNCHANGED <<of, pending, broken, card, found>>
      /\ poll[w].phase \in {"resolve", "recheck"} /\ poll[w].at \in Trigger
      /\ poll[w].at \in pending => poll[w].stood
      /\ of \in [Trigger -> Project] /\ card \in [Project -> Avi!Cards]
  BY DEF Avi!IntakeInv, Avi!Shapes, Avi!TypeOK, Avi!StoodWhenTaken, Avi!Resolve, Avi!Recheck, Avi!Only,
    Avi!kmaleon
<1>1. CASE Avi!Fails(w)
  BY <1>0, <1>1, FailsStep
<1>2. CASE Avi!Resolve(w) /\ ~Avi!Fails(w)
  <2> DEFINE r == [poll[w] EXCEPT !.card = card[p], !.phase = "recheck"]
  <2>1. Avi!Goes(w, r) /\ UNCHANGED <<trig, file, late>>
    BY <1>2 DEF Avi!Resolve
  <2>2. card[p] \in Avi!Cards
    BY <1>0
  <2>3. r \in Avi!PollRows /\ r.phase = "recheck" /\ r.at = poll[w].at /\ r.stood = poll[w].stood
    BY <1>0, <2>2 DEF Avi!PollRows
  <2> HIDE DEF r
  <2> QED BY <1>0, <2>1, <2>3, MovesStep
<1>3. CASE Avi!Recheck(w) /\ ~Avi!Fails(w)
  <2> DEFINE r == [poll[w] EXCEPT !.phase = "link"]
  <2>1. Avi!Goes(w, r) /\ UNCHANGED <<trig, file, late>> /\ poll[w].at \in pending
    BY <1>3 DEF Avi!Recheck, Avi!StillWaits
  <2>2. r \in Avi!PollRows /\ r.phase = "link" /\ r.at = poll[w].at /\ r.stood = poll[w].stood
    BY <1>0 DEF Avi!PollRows
  <2> HIDE DEF r
  <2> QED BY <1>0, <2>1, <2>2, MovesStep
<1> QED BY <1>1, <1>2, <1>3

LEMMA LinkStep ==
  ASSUME Avi!IntakeInv, NEW w \in Poller, Avi!LinkKmaleon(w)
  PROVE  Avi!IntakeInv'
<1> DEFINE t == poll[w].at  p == of[t]  c == poll[w].card
           back == [Avi!Asleep EXCEPT !.phase = "each", !.todo = poll[w].todo]
<1>0. /\ Avi!Shapes /\ Avi!TypeOK /\ Avi!StoodWhenTaken /\ ~late /\ poll[w] \in Avi!PollRows
      /\ Avi!Only(w) /\ UNCHANGED <<of, pending, broken, card, found>> /\ poll[w].phase = "link"
  BY DEF Avi!IntakeInv, Avi!Shapes, Avi!NoStaleContact, Avi!LinkKmaleon, Avi!Only, Avi!kmaleon
<1>1. CASE Avi!Fails(w)
  BY <1>0, <1>1, FailsStep
<1>2. CASE ~Avi!Fails(w)
  <2>1. /\ file' = [file EXCEPT ![p] = Avi!Linked(p, c)] /\ trig' = [trig EXCEPT ![t] = "PROCESSED"]
        /\ late' = (late \/ ~poll[w].stood) /\ Avi!Goes(w, back)
    BY <1>2 DEF Avi!LinkKmaleon, Avi!Back
  <2>2. t \in Trigger /\ poll[w].stood /\ p \in Project /\ c \in Avi!Cards /\ poll[w].todo \in SUBSET Trigger
    BY <1>0 DEF Avi!StoodWhenTaken, Avi!TypeOK, Avi!PollRows
  <2>3. file' \in [Project -> Avi!CaseRows]
    <3>1. file \in [Project -> Avi!CaseRows] /\ Avi!Linked(p, c) \in Avi!CaseRows
      BY <1>0, <2>2, LinkedOnce DEF Avi!Shapes
    <3> QED BY <2>1, <3>1
  <2>4. trig' \in [Trigger -> {"none", "PENDING", "PROCESSED", "HUMAN_REQUIRED"}] /\ ~late'
    BY <1>0, <2>1, <2>2 DEF Avi!TypeOK
  <2>5. back \in Avi!PollRows /\ back.phase = "each"
    BY <2>2, AsleepFacts
  <2> HIDE DEF back
  <2>6. poll' \in [Poller -> Avi!PollRows] /\ Avi!StoodWhenTaken'
    BY <1>0, <2>1, <2>5, GoesStep
  <2>7. \A q \in Project : file'[q].step \in {"none", "triage", "later"}
    BY <2>3 DEF Avi!CaseRows
  <2>8. Avi!Shapes'
    BY <1>0, <2>3, <2>4, <2>6, <2>7 DEF Avi!Shapes, Avi!TypeOK
  <2> QED BY <2>4, <2>6, <2>8 DEF Avi!IntakeInv, Avi!NoStaleContact
<1> QED BY <1>1, <1>2

LEMMA PollsStep ==
  ASSUME Avi!IntakeInv, NEW w \in Poller, Avi!Wakes(w) \/ Avi!List(w) \/ Avi!Finishes(w) \/ Avi!Stops(w)
  PROVE  Avi!IntakeInv'
<1>0. /\ poll[w] \in Avi!PollRows /\ trig \in [Trigger -> {"none", "PENDING", "PROCESSED", "HUMAN_REQUIRED"}]
      /\ UNCHANGED <<file, late, of, pending, broken, card, found, trig>> /\ pending \in SUBSET Trigger
  BY DEF Avi!IntakeInv, Avi!Shapes, Avi!TypeOK, Avi!Wakes, Avi!List, Avi!Finishes, Avi!Stops, Avi!Only,
    Avi!kmaleon
<1>1. CASE Avi!Goes(w, Avi!Asleep)
  <2>1. Avi!Asleep \in Avi!PollRows /\ Avi!Asleep.phase = "asleep"
    BY DEF Avi!Asleep, Avi!PollRows, Avi!Cards
  <2> QED BY <1>0, <1>1, <2>1, MovesStep
<1>2. CASE Avi!Wakes(w)
  <2> DEFINE r == [Avi!Asleep EXCEPT !.phase = "list"]
  <2>1. r \in Avi!PollRows /\ r.phase = "list" /\ Avi!Goes(w, r)
    BY <1>2 DEF Avi!Asleep, Avi!PollRows, Avi!Cards, Avi!Wakes
  <2> HIDE DEF r
  <2> QED BY <1>0, <2>1, MovesStep
<1>3. CASE Avi!List(w) /\ ~Avi!Goes(w, Avi!Asleep)
  <2> DEFINE r == [poll[w] EXCEPT !.phase = "each", !.todo = pending]
  <2>1. Avi!Goes(w, r)
    BY <1>3 DEF Avi!List, Avi!Ends
  <2>2. r \in Avi!PollRows /\ r.phase = "each"
    BY <1>0 DEF Avi!PollRows
  <2> HIDE DEF r
  <2> QED BY <1>0, <2>1, <2>2, MovesStep
<1> QED BY <1>1, <1>2, <1>3 DEF Avi!Finishes, Avi!Stops, Avi!Ends

(* The staff, the client and the operator.                                  *)
LEMMA StaffStep ==
  ASSUME Avi!IntakeInv, Avi!Staff \/ Avi!LockIsLost
  PROVE  Avi!IntakeInv'
<1>0. Avi!Shapes /\ Avi!TypeOK /\ Avi!StoodWhenTaken /\ ~late
  BY DEF Avi!IntakeInv, Avi!Shapes, Avi!NoStaleContact
<1>1. UNCHANGED <<of, trig, file, poll, found, late>>
  BY DEF Avi!Staff, Avi!Settles, Avi!Damages, Avi!Recards, Avi!Acts, Avi!LockIsLost, Avi!kmaleon
<1>2. pending' \subseteq pending
  BY DEF Avi!Staff, Avi!Settles, Avi!Damages, Avi!Recards, Avi!LockIsLost, Avi!kmaleon
<1>3. broken' \subseteq Project
  BY <1>0 DEF Avi!Staff, Avi!Settles, Avi!Damages, Avi!Recards, Avi!LockIsLost, Avi!kmaleon, Avi!TypeOK
<1>4. card' \in [Project -> Avi!Cards]
  BY <1>0 DEF Avi!Staff, Avi!Settles, Avi!Damages, Avi!Recards, Avi!LockIsLost, Avi!kmaleon, Avi!TypeOK
<1>5. Avi!Shapes' /\ Avi!StoodWhenTaken'
  BY <1>0, <1>1, <1>2, <1>3, <1>4 DEF Avi!Shapes, Avi!TypeOK, Avi!StoodWhenTaken
<1> QED BY <1>0, <1>1, <1>5 DEF Avi!IntakeInv, Avi!NoStaleContact

LEMMA OperatorStep ==
  ASSUME Avi!IntakeInv, Avi!Advances \/ Avi!Search \/ Avi!Select
  PROVE  Avi!IntakeInv'
<1>0. /\ Avi!Shapes /\ Avi!TypeOK /\ Avi!StoodWhenTaken /\ ~late /\ file \in [Project -> Avi!CaseRows]
      /\ found \in [Project -> Avi!Cards]
  BY DEF Avi!IntakeInv, Avi!Shapes, Avi!TypeOK, Avi!NoStaleContact
<1>1. UNCHANGED <<of, pending, broken, card, trig, poll, late>>
  BY DEF Avi!Advances, Avi!Search, Avi!Select, Avi!kmaleon
<1>2. file' \in [Project -> Avi!CaseRows]
  <2>1. CASE Avi!Advances
    <3>1. PICK p \in Project : file' = [file EXCEPT ![p].step = "later"]
      BY <2>1 DEF Avi!Advances
    <3>2. [file[p] EXCEPT !.step = "later"] \in Avi!CaseRows
      BY <1>0 DEF Avi!CaseRows
    <3> QED BY <1>0, <3>1, <3>2
  <2>2. CASE Avi!Search
    BY <1>0, <2>2 DEF Avi!Search
  <2>3. CASE Avi!Select
    <3>1. PICK p \in Project : file' = [file EXCEPT ![p] = Avi!Linked(p, found[p])]
      BY <2>3 DEF Avi!Select
    <3>2. Avi!Linked(p, found[p]) \in Avi!CaseRows
      BY <1>0, LinkedOnce
    <3> QED BY <1>0, <3>1, <3>2
  <2> QED BY <2>1, <2>2, <2>3
<1>3. found' \in [Project -> Avi!Cards]
  <2>1. CASE Avi!Search
    BY <1>0, <2>1 DEF Avi!Search
  <2>2. CASE Avi!Advances \/ Avi!Select
    BY <1>0, <2>2 DEF Avi!Advances, Avi!Select
  <2> QED BY <2>1, <2>2
<1>4. \A q \in Project : file'[q].step \in {"none", "triage", "later"}
  BY <1>2 DEF Avi!CaseRows
<1>5. Avi!Shapes' /\ Avi!StoodWhenTaken'
  BY <1>0, <1>1, <1>2, <1>3, <1>4 DEF Avi!Shapes, Avi!TypeOK, Avi!StoodWhenTaken
<1> QED BY <1>0, <1>1, <1>5 DEF Avi!IntakeInv, Avi!NoStaleContact

LEMMA IntakeInit == Avi!Init => Avi!IntakeInv
<1> SUFFICES ASSUME Avi!Init PROVE Avi!IntakeInv
  OBVIOUS
<1>1. Avi!NoCase \in Avi!CaseRows /\ Avi!NoCase.step = "none" /\ Avi!Ambiguous \in Avi!Cards
  BY DEF Avi!NoCase, Avi!CaseRows, Avi!Cards
<1>2. [who |-> "ana", phone |-> 1] \in Avi!Cards
  BY DEF Avi!Cards
<1>3. Avi!Asleep \in Avi!PollRows /\ Avi!Asleep.phase = "asleep"
  BY DEF Avi!Asleep, Avi!PollRows, Avi!Cards
<1>4. Avi!TypeOK
  BY <1>1, <1>2 DEF Avi!Init, Avi!TypeOK
<1>5. Avi!Shapes /\ Avi!StoodWhenTaken
  BY <1>1, <1>3, <1>4 DEF Avi!Init, Avi!Shapes, Avi!StoodWhenTaken
<1> QED BY <1>5 DEF Avi!Init, Avi!IntakeInv, Avi!NoStaleContact

LEMMA IntakeStep == Avi!IntakeInv /\ [Avi!Next]_(Avi!vars) => Avi!IntakeInv'
<1> SUFFICES ASSUME Avi!IntakeInv, [Avi!Next]_(Avi!vars) PROVE Avi!IntakeInv'
  OBVIOUS
<1>1. CASE Avi!Staff \/ Avi!LockIsLost
  BY <1>1, StaffStep
<1>2. CASE Avi!Advances \/ Avi!Search \/ Avi!Select
  BY <1>2, OperatorStep
<1>3. CASE Avi!Polls
  BY <1>3, PollsStep DEF Avi!Polls
<1>4. CASE Avi!Step
  BY <1>4, PollsStep, TakesStep, ResolveStep, LinkStep DEF Avi!Step, Avi!Works
<1>5. CASE UNCHANGED Avi!vars
  BY <1>5 DEF Avi!vars, Avi!IntakeInv, Avi!Shapes, Avi!TypeOK, Avi!StoodWhenTaken, Avi!NoStaleContact
<1> QED BY <1>1, <1>2, <1>3, <1>4, <1>5 DEF Avi!Next

LEMMA OpenedAtMostOnce == Avi!IntakeInv => Avi!OpenedOnce
<1> SUFFICES ASSUME Avi!IntakeInv PROVE Avi!OpenedOnce
  OBVIOUS
<1>1. \A p \in Project : file[p].opened \in {0, 1}
  BY DEF Avi!IntakeInv, Avi!Shapes, Avi!CaseRows
<1> QED BY <1>1 DEF Avi!OpenedOnce

(* Whoever links an expediente, its client is addressed for the first time  *)
(* once, and no aviso that the staff had settled before a poller turned to  *)
(* it contacts anybody (automation.ts, workflow-service.ts).                 *)
THEOREM FirstContact == Avi!Spec => [](Avi!OpenedOnce /\ Avi!NoStaleContact)
<1>1. Avi!IntakeInv => Avi!OpenedOnce /\ Avi!NoStaleContact
  BY OpenedAtMostOnce DEF Avi!IntakeInv
<1> QED BY <1>1, IntakeInit, IntakeStep, PTL DEF Avi!Spec

===============================================================================
