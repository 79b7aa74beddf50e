--------------------------------- MODULE Panel --------------------------------
(* The panel of the office, in version 2.  A case is read and drawn in a    *)
(* dialog, with the forms that its stage and its documents call for; a form *)
(* sends the version that was drawn, and the server compares it under the   *)
(* lock of the case.  Reads take no lock and their answers come in any      *)
(* order; a drawing replaces the forms of the one before, with their busy   *)
(* mark; meanwhile the client and the bot move the case, and an opt-out, an *)
(* approval or a consent comes or goes with no new version.                 *)
EXTENDS Integers

CONSTANTS
  Case,
  MaxActs  \* bound: cases opened and forms sent by the operator, and what
           \* the client, the bot and the clock do to a case

Stages == {"consent", "processing", "payment", "audit", "escalated", "other"}
None == [case |-> "none"]

VARIABLES
  file,      \* the cases, as the server keeps them
  locked,    \* the cases with a session of the sede under way
  asked,     \* the reads under way; read: the answer waits to be drawn
  drawn,     \* the case on screen (selected), as it was read
  open,      \* the dialog
  busy,      \* the case tools on screen wait for a request of theirs
  posts,     \* the requests under way
  blind,     \* a request changed a case that was not as it had been drawn
  acts       \* what was clicked, sent and moved, for the bound
vars == <<file, locked, asked, drawn, open, busy, posts, blind, acts>>
screen == <<drawn, open, busy>>
server == <<file, locked, blind>>

(* paper: the document the case has selected, a draft of the sede, one not  *)
(* (yet) found eligible, one found so, or one approved; old: an earlier one *)
(* is listed without approval; resumable: no opt-out, and a saved step that *)
(* may be resumed; closed: phase one ended, in version 1.                   *)
Papers == {"none", "draft", "plain", "fit", "approved"}
Files == [stage : Stages, paper : Papers, old : BOOLEAN, address : BOOLEAN, reviewed : BOOLEAN,
          fresh : BOOLEAN, resumable : BOOLEAN, closed : BOOLEAN, version : Nat]
Case0(stage) == [stage |-> stage, paper |-> "none", old |-> FALSE, address |-> FALSE, reviewed |-> FALSE,
                 fresh |-> FALSE, resumable |-> FALSE, closed |-> FALSE, version |-> 0]
Init ==
  /\ file \in [Case -> {Case0("consent"), [Case0("processing") EXCEPT !.address = TRUE, !.fresh = TRUE],
                        [Case0("processing") EXCEPT !.paper = "draft"],
                        [Case0("payment") EXCEPT !.fresh = TRUE],
                        [Case0("audit") EXCEPT !.paper = "fit", !.old = TRUE],
                        [Case0("audit") EXCEPT !.paper = "fit", !.closed = TRUE],
                        Case0("escalated")}]
  /\ locked = {} /\ asked = {} /\ drawn = None /\ open = FALSE /\ busy = FALSE
  /\ posts = {} /\ blind = FALSE /\ acts = 0

(* ------------------------- the forms of a drawing ----------------------- *)
Draft(r) == r.paper = "draft"
Unapproved(r) == r.paper \in {"draft", "plain", "fit"}
ConsentForm(r) == r.stage = "consent"
AddressForm(r) == r.stage \in {"consent", "processing"} /\ ~Draft(r)
SessionForm(r) == r.stage = "processing" /\ ~Draft(r) /\ r.address /\ r.fresh
ReviewForm(r) == r.stage = "processing" /\ Draft(r) /\ ~r.reviewed
SubmissionForm(r) == r.stage = "processing" /\ Draft(r) /\ r.reviewed
PaymentForm(r) == r.stage = "payment" /\ r.fresh
RejectForm(r) == r.stage = "audit" /\ r.paper # "none"
RecoverForm(r) == r.stage = "escalated"
(* Every listed document without approval can be reviewed and approved,     *)
(* whatever the stage and whether it is the selected one or not.            *)
Forms(r) == [consent |-> ConsentForm(r), address |-> AddressForm(r), lookup |-> AddressForm(r),
             session |-> SessionForm(r), review |-> ReviewForm(r), submission |-> SubmissionForm(r),
             payment |-> PaymentForm(r), reject |-> RejectForm(r), recover |-> RecoverForm(r),
             approve |-> Unapproved(r), approveOld |-> r.old]
Offered(r) == {kind \in DOMAIN Forms(r) : Forms(r)[kind]}
Approvals == {"approve", "approveOld"}

(* ------------------------------- the server ----------------------------- *)
(* What a route asks of the case besides the version; of a case that phase  *)
(* one closed, transition takes nothing.                                    *)
TakesConsent(r) == r.stage = "consent"
TakesAddress(r) == r.stage \in {"consent", "processing"} /\ ~Draft(r)
TakesSession(r) == r.stage = "processing" /\ r.fresh /\ r.address
TakesReview(r) == Draft(r)
TakesSubmission(r) == Draft(r) /\ r.reviewed
TakesPayment(r) == r.stage = "payment" /\ r.fresh
TakesApproval(r) == r.stage = "audit" /\ r.paper = "fit"
TakesRejection(r) == r.stage = "audit" /\ r.paper # "none"
TakesRecovery(r) == r.stage = "escalated" /\ r.resumable
Takes(r) == [consent |-> TakesConsent(r), address |-> TakesAddress(r), lookup |-> TRUE,
             session |-> TakesSession(r), review |-> TakesReview(r), submission |-> TakesSubmission(r),
             payment |-> TakesPayment(r), reject |-> TakesRejection(r), recover |-> TakesRecovery(r),
             approve |-> TakesApproval(r), approveOld |-> FALSE]
Accepts(kind, r) == Takes(r)[kind] /\ (r.closed => kind \in {"address", "lookup"})
Next1(r) == [r EXCEPT !.version = @ + 1]
(* A recovered case goes on at its saved step; rejecting a document, and    *)
(* what closes a step, lead to one that has no form here.                   *)
LeadsTo(kind) == IF kind = "recover" THEN Stages \ {"escalated"} ELSE {"other"}
Effect(kind, r, next) ==
  CASE kind = "consent" -> [Next1(r) EXCEPT !.stage = "processing", !.fresh = TRUE]
    [] kind = "address" -> [Next1(r) EXCEPT !.address = TRUE]
    [] kind = "lookup"  -> r
    [] kind = "session" -> Next1(r)
    [] kind = "review"  -> [Next1(r) EXCEPT !.reviewed = TRUE]
    [] kind = "approve" -> [Next1(r) EXCEPT !.stage = next, !.paper = "approved"]
    [] OTHER            -> [Next1(r) EXCEPT !.stage = next]

(* What the clock and an opt-out change in a case leaves its version.       *)
Same(r, s) == [r EXCEPT !.fresh = TRUE, !.resumable = TRUE] = [s EXCEPT !.fresh = TRUE, !.resumable = TRUE]
Mut_Current(p) == file[p.case].stage = p.seen.stage
Current(p) == file[p.case].version = p.seen.version
Handle(p) ==
  LET r == file[p.case]  ok == Current(p) /\ Accepts(p.kind, r) IN
  /\ p.at = "sent" /\ (p.kind # "lookup" => p.case \notin locked)
  /\ \E next \in LeadsTo(p.kind) :
       file' = [file EXCEPT ![p.case] = IF ok THEN Effect(p.kind, r, next) ELSE r]
  /\ locked' = IF ok /\ p.kind = "session" THEN locked \cup {p.case} ELSE locked
  /\ posts' = (posts \ {p}) \cup {[p EXCEPT !.at = IF ~ok THEN "failed" ELSE IF p.kind = "session" THEN "running" ELSE "done"]}
  /\ blind' = (blind \/ (ok /\ ~Same(r, p.seen)))
  /\ UNCHANGED <<asked, screen, acts>>
(* The session ends with a draft, or fails and leaves the case to a person. *)
Drafted(r) == [Next1(r) EXCEPT !.paper = "draft", !.reviewed = FALSE, !.old = @ \/ Unapproved(r)]
Stopped(r) == [Next1(r) EXCEPT !.stage = "escalated", !.resumable = TRUE]
SessionEnds(p) ==
  /\ p.at = "running"
  /\ \E ok \in BOOLEAN :
       /\ file' = [file EXCEPT ![p.case] = IF ok THEN Drafted(@) ELSE Stopped(@)]
       /\ posts' = (posts \ {p}) \cup {[p EXCEPT !.at = IF ok THEN "done" ELSE "failed"]}
  /\ locked' = locked \ {p.case}
  /\ UNCHANGED <<asked, screen, blind, acts>>
Read(a) ==
  /\ a.read = None /\ asked' = (asked \ {a}) \cup {[a EXCEPT !.read = file[a.case]]}
  /\ UNCHANGED <<server, screen, posts, acts>>
(* Under the lock, and with a new version: the client and the bot move the  *)
(* case, the client sends a document, its audit finds it eligible.  With    *)
(* neither: the hour of a consent or the term of an approval passes, the    *)
(* client opts out or comes back.                                           *)
Moved(r, stage) == [Next1(r) EXCEPT !.stage = stage, !.resumable = (stage = "escalated")]
Sent(r, stage) == [Moved(r, stage) EXCEPT !.paper = "plain", !.reviewed = FALSE, !.old = @ \/ Unapproved(r)]
Audited(r) == [Next1(r) EXCEPT !.paper = "fit"]
Acts == acts < MaxActs /\ acts' = acts + 1
Becomes(c, r) == file' = [file EXCEPT ![c] = r]
CaseMoves(c) ==
  LET r == file[c]  free == c \notin locked  live == free /\ ~r.closed IN
  /\ Acts
  /\ \/ live /\ \E stage \in Stages \ {r.stage, "processing"} : Becomes(c, Moved(r, stage))
     \/ live /\ \E stage \in IF r.stage = "escalated" THEN {r.stage} ELSE {"audit", "escalated"} :
                  Becomes(c, Sent(r, stage))
     \/ free /\ r.stage = "audit" /\ r.paper = "plain" /\ Becomes(c, Audited(r))
     \/ r.fresh /\ Becomes(c, [r EXCEPT !.fresh = FALSE])
     \/ r.stage = "escalated" /\ Becomes(c, [r EXCEPT !.resumable = ~@])
  /\ UNCHANGED <<locked, asked, screen, posts, blind>>

(* ------------------------------ the operator ---------------------------- *)
OpenCase(c) == asked' = asked \cup {[case |-> c, read |-> None]}
Clicks(c) ==
  /\ ~open /\ OpenCase(c) /\ Acts
  /\ UNCHANGED <<server, screen, posts>>
Closes ==
  /\ open /\ open' = FALSE /\ UNCHANGED <<server, asked, drawn, busy, posts, acts>>
Submit(kind) ==
  /\ open /\ (kind \notin Approvals => ~busy) /\ Acts
  /\ LET n == CHOOSE i \in 0..MaxActs : \A p \in posts : p.n # i IN
     posts' = posts \cup {[n |-> n, kind |-> kind, case |-> drawn.case, seen |-> drawn.read,
                           own |-> TRUE, at |-> "sent"]}
  /\ busy' = (busy \/ kind \notin Approvals)
  /\ UNCHANGED <<server, asked, drawn, open>>

(* ------------------------------- the answers ---------------------------- *)
(* selected and the forms change in the same turn; the forms of a drawing   *)
(* that is gone still hear their answers.                                   *)
RenderDetail(a) ==
  /\ a.read # None /\ asked' = asked \ {a}
  /\ drawn' = a /\ open' = TRUE /\ busy' = FALSE
  /\ posts' = {[p EXCEPT !.own = FALSE] : p \in posts}
  /\ UNCHANGED <<server, acts>>
(* reload only draws again what is still on screen; approving a document    *)
(* opens the case whatever is on screen by then, and frees no button.       *)
Reload(p) ==
  \/ drawn # None /\ p.kind \in Approvals /\ p.at = "done"
  \/ /\ drawn # None /\ drawn.case = p.case /\ open
     /\ p.kind \notin Approvals \cup {"lookup"} /\ (p.at = "done" \/ p.kind = "session")
Answer(p) ==
  /\ p.at \in {"done", "failed"} /\ posts' = posts \ {p}
  /\ IF Reload(p) THEN OpenCase(IF p.kind \in Approvals THEN drawn.case ELSE p.case) ELSE UNCHANGED asked
  /\ busy' = (busy /\ (p.own => p.kind \in Approvals))
  /\ UNCHANGED <<server, drawn, open, acts>>

Operator == \/ \E c \in Case : Clicks(c)
            \/ Closes
            \/ drawn # None /\ \E kind \in Offered(drawn.read) : Submit(kind)
Network == \/ \E a \in asked : Read(a) \/ RenderDetail(a)
           \/ \E p \in posts : Handle(p) \/ SessionEnds(p) \/ Answer(p)
Next == Operator \/ Network \/ \E c \in Case : CaseMoves(c)
Spec == Init /\ [][Next]_vars

TypeOK ==
  /\ file \in [Case -> Files] /\ locked \subseteq Case /\ open \in BOOLEAN /\ busy \in BOOLEAN
  /\ \A p \in posts : p.at \in {"sent", "running", "done", "failed"} /\ p.seen \in Files

(* What an operator decided is written to the case as it was on screen when *)
(* it was decided: no answer of another read, no second sending of the same *)
(* form, no form sent beside it and no step of the client or of the bot     *)
(* comes in between.  (What may differ is a consent or an approval that     *)
(* lapsed, or an opt-out; the route looks at those itself.)                 *)
DecidedAsDrawn == ~blind

(* Why it holds: what was read of a case is older than the case, or the     *)
(* case as it is but for what has no version; and a request carries what    *)
(* its own drawing was read from.                                           *)
ReadOf(r, c) ==
  /\ r \in Files /\ r.version <= file[c].version
  /\ r.version = file[c].version => Same(file[c], r)
Reads == [case : Case, read : Files \cup {None}]
Posted(p) ==
  /\ p = [n |-> p.n, kind |-> p.kind, case |-> p.case, seen |-> p.seen, own |-> p.own, at |-> p.at]
  /\ p.case \in Case /\ ReadOf(p.seen, p.case) /\ p.kind \in Offered(p.seen)
(* PanelInv: the inductive invariant (app.js, case-tools.js).               *)
PanelInv ==
  /\ file \in [Case -> Files]
  /\ \A a \in asked : a \in Reads /\ (a.read # None => ReadOf(a.read, a.case))
  /\ drawn # None => drawn \in Reads /\ ReadOf(drawn.read, drawn.case)
  /\ \A p \in posts : Posted(p)
  /\ ~blind
===============================================================================
