----------------------------- MODULE TriggerIntake ----------------------------
(* How an expediente of Kmaleon becomes a case of the bot: the poller finds *)
(* an aviso of the staff, resolves it to a client and links it; an operator *)
(* links the same expediente by hand after a search.  The staff work in     *)
(* Kmaleon all the while.  The lock of the poller lives for five minutes, a *)
(* poller that outlives it may meet its successor; linking itself holds a   *)
(* lock on the identity.                                                    *)
EXTENDS Integers, FiniteSets

CONSTANTS
  Trigger,    \* avisos of the macros 24 and 27
  Project,    \* the expedientes they are about
  Poller,     \* the pollers: more than one once a lock was lost
  MaxStaff,   \* bound: what the staff change
  MaxLosses   \* bound: locks that are lost

(* A card of a client: who it is, and with which phone.  Ambiguous: no, or  *)
(* more than one active client, phone or company.                           *)
Ambiguous == [who |-> "?", phone |-> 0]
Cards == {Ambiguous, [who |-> "ana", phone |-> 1], [who |-> "ana", phone |-> 2], [who |-> "bea", phone |-> 1]}
NoCase == [card |-> Ambiguous, step |-> "none", opened |-> 0]

VARIABLES
  of,        \* the expediente of each aviso
  pending,   \* the avisos that wait in the record of Sami, their expediente open
  broken,    \* expedientes whose archive fields nobody can read
  card,      \* the card of the client of each expediente
  trig,      \* the row of each aviso: none, PENDING, PROCESSED, HUMAN_REQUIRED
  case,      \* the case of each expediente
  poll,      \* each poller: phase, the avisos still to do, the one at hand, its candidate
  lock,      \* which poller holds the lock, if any
  found,     \* what the search of the operator keeps of each expediente
  late,      \* a client was linked on an aviso that was settled before the call
  staff, losses
vars == <<of, pending, broken, card, trig, case, poll, lock, found, late, staff, losses>>
kmaleon == <<of, pending, broken, card>>

Nobody == "nobody"
Asleep == [phase |-> "asleep", todo |-> {}, at |-> Nobody, card |-> Ambiguous, stood |-> FALSE]
Init ==
  /\ of \in [Trigger -> Project] /\ pending = Trigger /\ broken = {}
  /\ card = [p \in Project |-> [who |-> "ana", phone |-> 1]]
  /\ trig = [t \in Trigger |-> "none"] /\ case = [p \in Project |-> NoCase]
  /\ poll = [w \in Poller |-> Asleep] /\ lock = Nobody
  /\ found = [p \in Project |-> Ambiguous] /\ late = FALSE /\ staff = 0 /\ losses = 0

(* ------------------------- the staff, in Kmaleon ------------------------ *)
Acts == staff < MaxStaff /\ staff' = staff + 1
        /\ UNCHANGED <<of, trig, case, poll, lock, found, late, losses>>
Settles == \E t \in pending : pending' = pending \ {t} /\ UNCHANGED <<broken, card>> /\ Acts
Damages == \E p \in Project : broken' = (IF p \in broken THEN broken \ {p} ELSE broken \cup {p})
                              /\ UNCHANGED <<pending, card>> /\ Acts
Recards == \E p \in Project, c \in Cards : c # card[p] /\ card' = [card EXCEPT ![p] = c]
                                           /\ UNCHANGED <<pending, broken>> /\ Acts
(* The client answers: the case leaves its first step.                      *)
Advances ==
  /\ \E p \in Project : case[p].step = "triage" /\ case' = [case EXCEPT ![p].step = "later"]
  /\ UNCHANGED <<kmaleon, trig, poll, lock, found, late, staff, losses>>

(* ------------------------------- linking -------------------------------- *)
(* The case exists: only for the same person and phone.  A new one: for     *)
(* nobody whom another case has.                                            *)
Taken(p, c) == \E q \in Project \ {p} : case[q].step # "none"
                  /\ (case[q].card.who = c.who \/ case[q].card.phone = c.phone)
Links(p, c) == IF case[p].step = "none" THEN ~Taken(p, c) ELSE case[p].card = c
Mut_Opens(k) == k.step = "triage"
Opens(k) == k.step = "triage" /\ k.opened = 0
Linked(p, c) ==
  LET k == IF case[p].step = "none" THEN [card |-> c, step |-> "triage", opened |-> 0] ELSE case[p]
  IN  [k EXCEPT !.opened = @ + IF Opens(k) THEN 1 ELSE 0]

(* ------------------------------- the poller ----------------------------- *)
Goes(w, r) == poll' = [poll EXCEPT ![w] = r]
Only(w) == UNCHANGED <<kmaleon, found, staff, losses>>
Wakes(w) ==
  /\ lock = Nobody /\ poll[w].phase = "asleep" /\ lock' = w /\ Goes(w, [Asleep EXCEPT !.phase = "list"])
  /\ UNCHANGED <<trig, case, late>> /\ Only(w)
Ends(w) == Goes(w, Asleep) /\ lock' = (IF lock = w THEN Nobody ELSE lock)
(* A complete scan or none: one expediente that cannot be read ends it.     *)
List(w) ==
  /\ poll[w].phase = "list" /\ UNCHANGED <<trig, case, late>> /\ Only(w)
  /\ IF \E t \in pending : of[t] \in broken THEN Ends(w)
     ELSE Goes(w, [poll[w] EXCEPT !.phase = "each", !.todo = pending]) /\ UNCHANGED lock
Finishes(w) == poll[w].phase = "each" /\ poll[w].todo = {} /\ Ends(w) /\ UNCHANGED <<trig, case, late>> /\ Only(w)
(* signal.aborted, between two avisos.                                      *)
Stops(w) == poll[w].phase = "each" /\ lock # w /\ Ends(w) /\ UNCHANGED <<trig, case, late>> /\ Only(w)
Mut_Skips(t) == trig[t] \notin {"none", "PENDING"}
Skips(t) == trig[t] = "PROCESSED"
Takes(w) ==
  /\ poll[w].phase = "each" /\ UNCHANGED <<case, lock, late>> /\ Only(w)
  /\ \E t \in poll[w].todo :
       /\ trig' = [trig EXCEPT ![t] = IF @ = "none" THEN "PENDING" ELSE @]
       /\ Goes(w, IF Skips(t) THEN [poll[w] EXCEPT !.todo = @ \ {t}]
                  ELSE [poll[w] EXCEPT !.todo = @ \ {t}, !.at = t, !.phase = "resolve",
                                       !.stood = t \in pending])
Back(w) == [Asleep EXCEPT !.phase = "each", !.todo = poll[w].todo]
Fails(w) == trig' = [trig EXCEPT ![poll[w].at] = "HUMAN_REQUIRED"] /\ Goes(w, Back(w))
            /\ UNCHANGED <<case, lock, late>>
(* Who the client is, then whether the aviso still waits.                   *)
Resolve(w) ==
  LET p == of[poll[w].at]
  IN  /\ poll[w].phase = "resolve" /\ Only(w)
      /\ IF p \in broken \/ card[p] = Ambiguous THEN Fails(w)
         ELSE Goes(w, [poll[w] EXCEPT !.card = card[p], !.phase = "recheck"]) /\ UNCHANGED <<trig, case, lock, late>>
Mut_StillWaits(t) == TRUE
StillWaits(t) == t \in pending
Recheck(w) ==
  /\ poll[w].phase = "recheck" /\ Only(w)
  /\ IF StillWaits(poll[w].at) THEN Goes(w, [poll[w] EXCEPT !.phase = "link"]) /\ UNCHANGED <<trig, case, lock, late>>
     ELSE Fails(w)
LinkKmaleon(w) ==
  LET t == poll[w].at p == of[t] c == poll[w].card
  IN  /\ poll[w].phase = "link" /\ Only(w)
      /\ \/ ~Links(p, c) /\ Fails(w)
         \/ lock # w /\ Fails(w)
         \/ /\ Links(p, c) /\ case' = [case EXCEPT ![p] = Linked(p, c)]
            /\ trig' = [trig EXCEPT ![t] = "PROCESSED"] /\ late' = (late \/ ~poll[w].stood)
            /\ Goes(w, Back(w)) /\ UNCHANGED lock
LockIsLost ==
  /\ lock # Nobody /\ losses < MaxLosses /\ losses' = losses + 1 /\ lock' = Nobody
  /\ UNCHANGED <<kmaleon, trig, case, poll, found, late, staff>>

(* ------------------------------ the operator ---------------------------- *)
(* The search takes the first phone of a card, where the poller wants one.  *)
Search ==
  /\ \A q \in Project : found[q] = Ambiguous  \* bound: one search
  /\ \E p \in Project, c \in Cards \ {Ambiguous} :
       card[p] \in {c, Ambiguous} /\ found' = [found EXCEPT ![p] = c]
  /\ UNCHANGED <<kmaleon, trig, case, poll, lock, late, staff, losses>>
(* The expediente is read again and has to name the same card; the phone    *)
(* and the DNI are those of the search.                                     *)
Select ==
  /\ \E p \in Project : /\ found[p] # Ambiguous /\ card[p].who \in {found[p].who, "?"}
                        /\ Links(p, found[p]) /\ case' = [case EXCEPT ![p] = Linked(p, found[p])]
  /\ UNCHANGED <<kmaleon, trig, poll, lock, found, late, staff, losses>>

Works(w) == \/ List(w) \/ Takes(w) \/ Resolve(w) \/ Recheck(w) \/ LinkKmaleon(w) \/ Finishes(w) \/ Stops(w)
Polls == \E w \in Poller : Wakes(w)
Step == \E w \in Poller : Works(w)
Staff == Settles \/ Damages \/ Recards
Next == Staff \/ Advances \/ Polls \/ Step \/ LockIsLost \/ Search \/ Select
(* The timer polls again, and a poller that is awake goes on.               *)
Spec == Init /\ [][Next]_vars /\ WF_vars(Polls) /\ \A w \in Poller : WF_vars(Works(w))
-----------------------------------------------------------------------------
TypeOK ==
  /\ of \in [Trigger -> Project] /\ pending \subseteq Trigger /\ broken \subseteq Project
  /\ card \in [Project -> Cards] /\ found \in [Project -> Cards]
  /\ trig \in [Trigger -> {"none", "PENDING", "PROCESSED", "HUMAN_REQUIRED"}]
  /\ \A p \in Project : case[p].step \in {"none", "triage", "later"}
(* A client is addressed for the first time once, whoever links the         *)
(* expediente: two pollers, two avisos, an operator, in any order.          *)
OpenedOnce == \A p \in Project : case[p].opened <= 1
(* An aviso that the staff had settled before the poller turned to it       *)
(* contacts nobody.                                                         *)
NoStaleContact == ~late
Resolvable(t) ==
  LET p == of[t] IN t \in pending /\ broken = {} /\ card[p] # Ambiguous /\ Links(p, card[p])
(* An aviso that stays pending and resolvable ends as PROCESSED for good,   *)
(* after failures, a lost lock, and a poller that fell behind its           *)
(* successor; an unreadable expediente anywhere holds up all of them.       *)
Served(t) == trig[t] = "PROCESSED"
AvisoIsServed == \A t \in Trigger : <>[]Resolvable(t) => <>[]Served(t)
-----------------------------------------------------------------------------
(* Why OpenedOnce and NoStaleContact hold: an aviso that has just been seen *)
(* to wait was waiting when the poller turned to it, for none comes back.   *)
CaseRows == [card : Cards, step : {"none", "triage", "later"}, opened : {0, 1}]
PollRows == [phase : {"asleep", "list", "each", "resolve", "recheck", "link"}, todo : SUBSET Trigger,
             at : Trigger \cup {Nobody}, card : Cards, stood : BOOLEAN]
Shapes == TypeOK /\ case \in [Project -> CaseRows] /\ poll \in [Poller -> PollRows]
StoodWhenTaken ==
  \A w \in Poller :
    /\ poll[w].phase \in {"resolve", "recheck", "link"} => poll[w].at \in Trigger
    /\ poll[w].phase \in {"resolve", "recheck"} /\ poll[w].at \in pending => poll[w].stood
    /\ poll[w].phase = "link" => poll[w].stood
(* IntakeInv: the inductive invariant (automation.ts, workflow-service.ts). *)
IntakeInv == Shapes /\ StoodWhenTaken /\ NoStaleContact
=============================================================================
