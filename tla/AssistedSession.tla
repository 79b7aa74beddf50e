---------------------------- MODULE AssistedSession ---------------------------
(* One request for an assisted draft.  The route holds the lock of the case *)
(* and watches the consent; a child process of its own opens the            *)
(* certificate and drives the sede; the draft comes back over IPC and is    *)
(* stored in one transaction.  The connection, the lock, the consent, the   *)
(* deadline and the child may each fail at any moment.                      *)
EXTENDS Integers, Sequences, SequencesExt

CONSTANT MaxFaults   \* bound: what goes wrong outside of the request

VARIABLES
  at,        \* the route: first, session, save, store, write, commit, fail, answered
  world,     \* expired, gone, lost, moved: the hour, the connection, the lock, the version
  denied,    \* a withdrawal in the inbox: no, known, late (after the last look)
  watch,     \* the look that the interval started: idle, clear, denied
  abort,     \* why the consent is not trusted any more
  consent,   \* the column of the case
  stored,    \* the draft is a document of the case
  parent,    \* runAssistedDraft: sent, result, failure, timers, outcome
  child,     \* its phase, how it ended, whether SIGTERM waits for it
  toParent,  \* what the child said and the parent has not read
  site,      \* who the sede shows, whether a request was refused, what was fetched
  faults
vars == <<at, world, denied, watch, abort, consent, stored, parent, child, toParent, site, faults>>
monitor == <<denied, watch, abort>>
record == <<consent, stored>>
session == <<parent, child, toParent, site>>

NoSession == [sent |-> FALSE, result |-> FALSE, failure |-> FALSE, kill |-> FALSE, reap |-> FALSE,
              secret |-> TRUE, outcome |-> "none"]
NoChild == [phase |-> "none", end |-> "none", term |-> FALSE]
Init ==
  /\ at = "first" /\ world = [expired |-> FALSE, gone |-> FALSE, lost |-> FALSE, moved |-> FALSE]
  /\ denied = "no" /\ watch = "idle" /\ abort = "none" /\ consent = TRUE /\ stored = FALSE
  /\ parent = NoSession /\ child = NoChild /\ toParent = <<>>
  /\ site = [shows |-> "client", refused |-> FALSE, tainted |-> FALSE] /\ faults = 0

(* ------------------------ the parent of the child ----------------------- *)
Running == parent.outcome = "running"
Alive == child.phase # "none" /\ child.end = "none"
(* The first reason counts; the child is told once, and two timers armed.   *)
Mut_Cancelled(p) == [p EXCEPT !.failure = TRUE, !.kill = TRUE]
Cancelled(p) == [p EXCEPT !.failure = TRUE, !.kill = TRUE, !.reap = TRUE]
Cancel(p) ==
  IF Running /\ ~p.failure
  THEN parent' = Cancelled(p) /\ child' = [child EXCEPT !.term = TRUE]
  ELSE parent' = p /\ UNCHANGED child
Settled(p, outcome) == [p EXCEPT !.outcome = outcome, !.kill = FALSE, !.reap = FALSE, !.secret = FALSE]
validateAssistedInput == ~world.expired
Fork == [NoSession EXCEPT !.outcome = "running"]

Said == Head(toParent)
Hears ==
  /\ Running /\ toParent # <<>> /\ toParent' = Tail(toParent)
  /\ IF parent.failure THEN UNCHANGED <<parent, child>>
     ELSE \/ /\ Said = "ready" /\ Alive /\ ~parent.sent
             /\ parent' = [parent EXCEPT !.sent = TRUE] /\ child' = [child EXCEPT !.phase = "load"]
          \/ /\ Said = "result" /\ parent.sent /\ ~parent.result
             /\ parent' = [parent EXCEPT !.result = TRUE] /\ UNCHANGED child
          \/ Said = "error" /\ Cancel(parent)
          \/ Said = "ready" /\ ~Alive /\ Cancel([parent EXCEPT !.sent = TRUE])
  /\ UNCHANGED <<at, world, monitor, record, site, faults>>
(* The exit may be seen before what the child still said.                   *)
Mut_Outcome == IF child.end = "exit0" /\ parent.result THEN "draft" ELSE "error"
Outcome == IF ~parent.failure /\ child.end = "exit0" /\ parent.result THEN "draft" ELSE "error"
SeesExit ==
  /\ Running /\ child.end # "none" /\ parent' = Settled(parent, Outcome)
  /\ UNCHANGED <<at, world, monitor, record, child, toParent, site, faults>>
Deadline ==
  /\ Running /\ ~parent.failure /\ Cancel(parent)
  /\ UNCHANGED <<at, world, monitor, record, toParent, site, faults>>
HardKill ==
  /\ Running /\ parent.kill /\ parent' = [parent EXCEPT !.kill = FALSE]
  /\ child' = IF Alive THEN [child EXCEPT !.end = "killed"] ELSE child
  /\ UNCHANGED <<at, world, monitor, record, toParent, site, faults>>
Reap ==
  /\ Running /\ parent.reap /\ ~parent.kill /\ parent' = Settled(parent, "error")
  /\ UNCHANGED <<at, world, monitor, record, child, toParent, site, faults>>

(* ------------------------------- the child ------------------------------ *)
Ends(how) == child' = [child EXCEPT !.end = how]
Says(what, next) == toParent' = Append(toParent, what) /\ child' = [child EXCEPT !.phase = next]
fail == Says("error", "failed")
Works == UNCHANGED <<at, world, monitor, record, parent, faults>>
Ready == Alive /\ child.phase = "boot" /\ Says("ready", "idle") /\ UNCHANGED site /\ Works
(* Each of these may refuse: the adapters of the child, the archive, the    *)
(* browser.                                                                 *)
Load ==
  /\ Alive /\ child.phase = "load"
  /\ \/ validateAssistedInput /\ child' = [child EXCEPT !.phase = "archive"] /\ UNCHANGED toParent
     \/ fail
  /\ UNCHANGED site /\ Works
WithCertificate ==
  /\ Alive /\ child.phase = "archive"
  /\ \/ child' = [child EXCEPT !.phase = "browser"] /\ UNCHANGED toParent
     \/ fail
  /\ UNCHANGED site /\ Works
(* The session over the certificate has a lifetime of its own.              *)
Lifetime ==
  /\ Alive /\ child.phase \in {"browser", "identity", "steps", "again", "link", "fetched"} /\ fail
  /\ UNCHANGED site /\ Works
Launch ==
  /\ Alive /\ child.phase = "browser"
  /\ \/ ~world.expired /\ child' = [child EXCEPT !.phase = "identity"] /\ UNCHANGED toParent
     \/ fail
  /\ UNCHANGED site /\ Works
(* prepareDraft: who the sede shows, the steps, who it shows now, the link. *)
Identity ==
  /\ Alive /\ child.phase \in {"identity", "again"}
  /\ IF site.shows = "client" /\ ~(child.phase = "again" /\ site.refused)
     THEN UNCHANGED toParent
          /\ child' = [child EXCEPT !.phase = IF @ = "again" THEN "link" ELSE "steps"]
     ELSE fail
  /\ UNCHANGED site /\ Works
Step ==
  /\ Alive /\ child.phase = "steps"
  /\ \/ ~site.refused /\ child' = [child EXCEPT !.phase = "again"] /\ UNCHANGED toParent
     \/ fail
  /\ UNCHANGED site /\ Works
Mut_MayFetch == ~world.expired
MayFetch == ~world.expired /\ ~site.refused
Fetch ==
  /\ Alive /\ child.phase = "link"
  /\ \/ MayFetch /\ child' = [child EXCEPT !.phase = "fetched"] /\ UNCHANGED toParent
                 /\ site' = [site EXCEPT !.tainted = site.refused]
     \/ fail /\ UNCHANGED site
  /\ Works
(* The session of the certificate still has to be open.                     *)
Report == Alive /\ child.phase = "fetched" /\ (Says("result", "told") \/ fail) /\ UNCHANGED site /\ Works
(* By itself, on SIGTERM, on its watchdog, or for whatever reason.          *)
Exit ==
  /\ Alive
  /\ \/ Ends("exit1")
     \/ child.phase = "told" /\ Ends("exit0")
  /\ UNCHANGED <<toParent, site>> /\ Works
(* The sede shows another session, or its page asks for what nobody         *)
(* reviewed (aborted, and remembered).                                      *)
PageTurns ==
  /\ Alive /\ child.phase \in {"identity", "steps", "again", "link"} /\ UNCHANGED <<child, toParent>>
  /\ \/ site.shows = "client" /\ site' = [site EXCEPT !.shows = "other"]
     \/ ~site.refused /\ site' = [site EXCEPT !.refused = TRUE]
  /\ UNCHANGED <<at, world, monitor, record, parent>>
  /\ faults < MaxFaults /\ faults' = faults + 1

(* ----------------- the watch over the consent, the signals -------------- *)
Signalled(w, reason) == w.gone \/ w.lost \/ reason # "none"
Trips(reason) == abort' = reason /\ Cancel(parent)
Looks ==
  /\ at # "answered" /\ abort = "none" /\ watch = "idle"
  /\ IF world.expired THEN Trips("expired") /\ UNCHANGED watch
     ELSE watch' = (IF denied = "no" THEN "clear" ELSE "denied") /\ UNCHANGED <<abort, parent, child>>
  /\ UNCHANGED <<at, world, denied, record, toParent, site, faults>>
Answers ==
  /\ watch # "idle" /\ watch' = "idle"
  /\ IF watch = "denied" /\ abort = "none" THEN Trips("withdrawn") ELSE UNCHANGED <<abort, parent, child>>
  /\ UNCHANGED <<at, world, denied, record, toParent, site, faults>>
(* No answer of the database within a second.                               *)
NoAnswer ==
  /\ watch # "idle" /\ abort = "none" /\ watch' = "idle" /\ Trips("unavailable")
  /\ faults < MaxFaults /\ faults' = faults + 1
  /\ UNCHANGED <<at, world, denied, record, toParent, site>>

Fault(w) == world' = w /\ faults < MaxFaults /\ faults' = faults + 1
HourPasses == ~world.expired /\ Fault([world EXCEPT !.expired = TRUE])
              /\ UNCHANGED <<at, monitor, record, session>>
Disconnects == ~world.gone /\ Fault([world EXCEPT !.gone = TRUE]) /\ Cancel(parent)
               /\ UNCHANGED <<at, monitor, record, toParent, site>>
LockIsLost == ~world.lost /\ Fault([world EXCEPT !.lost = TRUE]) /\ Cancel(parent)
              /\ UNCHANGED <<at, monitor, record, toParent, site>>
(* Whoever took the lock moves the version; the transaction holds the row.  *)
AnotherWrites == world.lost /\ ~world.moved /\ at \notin {"write", "commit", "answered"}
                 /\ Fault([world EXCEPT !.moved = TRUE]) /\ UNCHANGED <<at, monitor, record, session>>
Withdraws ==
  /\ denied = "no" /\ denied' = IF at \in {"commit", "answered"} THEN "late" ELSE "known"
  /\ faults < MaxFaults /\ faults' = faults + 1
  /\ UNCHANGED <<at, world, watch, abort, record, session>>

(* -------------------------------- the route ----------------------------- *)
(* check(): what it finds, it also tells the session.                       *)
Mut_Reason == IF abort # "none" THEN abort ELSE IF world.expired THEN "expired" ELSE "none"
Reason == IF abort # "none" THEN abort ELSE IF world.expired THEN "expired"
          ELSE IF denied # "no" THEN "withdrawn" ELSE "none"
Goes(next, otherwise, fits) ==
  /\ abort' = Reason /\ at' = IF Reason = "none" /\ fits THEN next ELSE otherwise
  /\ UNCHANGED <<world, denied, watch, faults>>
First == at = "first" /\ Goes("session", "answered", TRUE) /\ UNCHANGED <<record, session>>
(* The request is on the file; a signal that fell before starts no child.   *)
Starts ==
  /\ at = "session" /\ parent.outcome = "none"
  /\ IF Signalled(world, abort) \/ ~validateAssistedInput
     THEN parent' = Settled(parent, "error") /\ UNCHANGED child
     ELSE parent' = Fork /\ child' = [child EXCEPT !.phase = "boot"]
  /\ UNCHANGED <<at, world, monitor, record, toParent, site, faults>>
Returns ==
  /\ at = "session" /\ parent.outcome \in {"draft", "error"}
  /\ at' = IF parent.outcome = "draft" THEN "save" ELSE "fail"
  /\ UNCHANGED <<world, monitor, record, session, faults>>
Save == at = "save" /\ Goes("store", "fail", ~world.lost) /\ UNCHANGED <<record, session>>
(* In the transaction: the consent, the version, both transitions and the   *)
(* document, the consent once more.                                         *)
Store == at = "store" /\ Goes("write", "fail", ~world.moved) /\ UNCHANGED <<record, session>>
Recheck == at = "write" /\ Goes("commit", "fail", TRUE) /\ UNCHANGED <<record, session>>
Commit ==
  /\ at = "commit" /\ at' = "answered" /\ stored' = TRUE
  /\ UNCHANGED <<world, monitor, consent, session, faults>>
Fail ==
  /\ at = "fail" /\ at' = "answered"
  /\ consent' = (consent /\ (world.lost \/ world.moved \/ abort = "none"))
  /\ UNCHANGED <<world, monitor, stored, session, faults>>

Route == First \/ Starts \/ Returns \/ Save \/ Store \/ Recheck \/ Commit \/ Fail
Parent == Hears \/ SeesExit \/ Deadline \/ HardKill \/ Reap
Child == Ready \/ Load \/ WithCertificate \/ Lifetime \/ Launch \/ Identity \/ Step \/ Fetch
         \/ Report \/ Exit \/ PageTurns
Outside == HourPasses \/ Disconnects \/ LockIsLost \/ AnotherWrites \/ Withdraws \/ NoAnswer
Next == Route \/ Parent \/ Child \/ Looks \/ Answers \/ Outside
(* The route goes on, and the timers of the parent run out.  Nothing is     *)
(* assumed of the child, of its exit or of the sede.                        *)
Timers == Deadline \/ HardKill \/ Reap
Spec == Init /\ [][Next]_vars /\ WF_vars(Route) /\ WF_vars(Timers)
-----------------------------------------------------------------------------
TypeOK ==
  /\ at \in {"first", "session", "save", "store", "write", "commit", "fail", "answered"}
  /\ denied \in {"no", "known", "late"} /\ watch \in {"idle", "clear", "denied"}
  /\ abort \in {"none", "expired", "withdrawn", "unavailable"} /\ {consent, stored} \subseteq BOOLEAN
  /\ parent.outcome \in {"none", "running", "draft", "error"}
  /\ child.end \in {"none", "exit0", "exit1", "killed"}
(* No draft becomes a document of the case once a withdrawal was in the     *)
(* inbox before the transaction looked for the last time, whatever the      *)
(* interval saw of it; nor over what another holder of the lock wrote.      *)
DraftIsConsented == stored => denied # "known" /\ ~world.moved
(* A draft leaves the session only from a child that ended by itself, and   *)
(* only if neither the connection, the lock, the consent nor the deadline   *)
(* cut the session short, also when the draft was already in and the child  *)
(* was on its way out; and never from a page that had asked for more than   *)
(* was reviewed.                                                            *)
ReturnedIsClean ==
  parent.outcome = "draft" => child.end = "exit0" /\ ~parent.failure /\ ~site.tainted
(* The operator gets an answer, however the child and the sede hang, and    *)
(* the certificate and its password are zeroed by then.                     *)
Ended == at = "answered" /\ (parent.secret => parent.outcome = "none")
RequestEnds == <>[]Ended
(* Why the two hold: the outcome of the session is decided once, by its     *)
(* exit, and each step of the route stands on the look before it.           *)
Parents == [sent : BOOLEAN, result : BOOLEAN, failure : BOOLEAN, kill : BOOLEAN, reap : BOOLEAN,
            secret : BOOLEAN, outcome : {"none", "running", "draft", "error"}]
Children == [phase : {"none", "boot", "idle", "load", "archive", "browser", "identity", "steps",
                      "again", "link", "fetched", "told", "failed"},
             end : {"none", "exit0", "exit1", "killed"}, term : BOOLEAN]
Sites == [shows : {"client", "other"}, refused : BOOLEAN, tainted : BOOLEAN]
Worlds == [expired : BOOLEAN, gone : BOOLEAN, lost : BOOLEAN, moved : BOOLEAN]
Shapes == parent \in Parents /\ child \in Children /\ site \in Sites /\ world \in Worlds
(* What the route has looked at before it comes this far.                   *)
RouteLooked ==
  /\ at \in {"save", "store", "write", "commit"} \/ stored => parent.outcome = "draft"
  /\ at \in {"write", "commit"} \/ stored => ~world.moved
  /\ at = "commit" \/ stored => denied # "known"
  /\ stored => at = "answered"
(* SessionInv: the inductive invariant (assisted-automation.ts).            *)
SessionInv == Shapes /\ ~site.tainted /\ ReturnedIsClean /\ RouteLooked
=============================================================================
