----------------------------- MODULE KmaleonRecord ----------------------------
(* What the gateway does on the record of one expediente in Kmaleon: it     *)
(* scans the annotations page by page, writes the document and the notice   *)
(* to Dayana once, and reads back what it wrote.  The provider has no       *)
(* transaction: the staff add, change and remove annotations between any    *)
(* two pages, and a write may be lost, or arrive after its answer timed     *)
(* out.  The executor repeats a call; once a write may have gone out it     *)
(* asks for no more than a look (reconcileOnly).                            *)
EXTENDS Integers, Sequences, FiniteSets, FiniteSetsExt, SequencesExt

CONSTANTS
  Page,       \* rows on a page of the provider
  MaxStaff,   \* bound: what the staff do
  MaxCalls    \* bound: calls of the executor

(* note: of the staff.  altered: ours, with its text changed.  handled: a   *)
(* notice that is not pending any more.                                     *)
Ours == {"document", "notice"}
Kinds == Ours \cup {"note", "altered", "handled"}
Altered(kind) == IF kind = "notice" THEN "handled" ELSE "altered"

VARIABLES
  rows,      \* the annotations, in the order of the provider: [id, kind]
  ids,       \* how many were ever added
  late,      \* writes that the provider still has to apply
  right,     \* the card of the client names the client of the case
  call,      \* the call under way
  scan,      \* its scan: page, what was read, the total it was told, when it began
  churn,     \* what stood since the scan began, and what happened meanwhile
  proof,     \* for each of ours: the row that a call proved
  doubt,     \* for each of ours: a write may have gone out
  asked,     \* for each of ours: how often the provider was asked to write
  blind,     \* a notice was written though no document stood
  slipped,   \* a call gave up on the identity after it had written
  staff, calls
vars == <<rows, ids, late, right, call, scan, churn, proof, doubt, asked, blind, slipped, staff, calls>>
provider == <<rows, ids, late, right>>
history == <<proof, doubt, asked, blind, slipped, staff, calls>>

NoScan == [page |-> 0, got |-> <<>>, total |-> -1]
Idle == [op |-> "none", phase |-> "idle", look |-> FALSE, try |-> 0]
Init ==
  /\ rows = <<[id |-> 1, kind |-> "note"]>> /\ ids = 1 /\ late = {} /\ right = TRUE
  /\ call = Idle /\ scan = NoScan /\ churn = [began |-> {}, stood |-> {}, added |-> FALSE, removed |-> FALSE]
  /\ proof = [o \in Ours |-> 0] /\ doubt = [o \in Ours |-> FALSE] /\ asked = [o \in Ours |-> 0] /\ blind = FALSE /\ slipped = FALSE
  /\ staff = 0 /\ calls = 0

(* --------------------- the provider and its staff ----------------------- *)
Added(kind) == \/ rows' = Append(rows, [id |-> ids + 1, kind |-> kind])
               \/ rows' = <<[id |-> ids + 1, kind |-> kind]>> \o rows
Standing == {rows[n].id : n \in DOMAIN rows}
Acts == /\ staff < MaxStaff /\ staff' = staff + 1
        /\ UNCHANGED <<late, call, scan, proof, doubt, asked, blind, slipped, calls>>
StaffAdd ==
  /\ Added("note") /\ ids' = ids + 1 /\ churn' = [churn EXCEPT !.added = TRUE]
  /\ UNCHANGED right /\ Acts
StaffRemove ==
  /\ \E n \in DOMAIN rows : /\ rows' = RemoveAt(rows, n)
                            /\ churn' = [churn EXCEPT !.removed = TRUE, !.stood = @ \ {rows[n].id}]
  /\ UNCHANGED <<ids, right>> /\ Acts
StaffAlter ==
  /\ \E n \in DOMAIN rows : rows[n].kind \in Ours /\ rows' = [rows EXCEPT ![n].kind = Altered(@)]
  /\ UNCHANGED <<ids, right, churn>> /\ Acts
StaffRelink == right' = ~right /\ UNCHANGED <<rows, ids, churn>> /\ Acts
Arrives ==
  /\ \E op \in late : late' = late \ {op} /\ Added(op)
  /\ ids' = ids + 1 /\ churn' = [churn EXCEPT !.added = TRUE]
  /\ UNCHANGED <<right, call, scan, history>>

(* ------------------------------- the scan ------------------------------- *)
Begin(c) ==
  /\ call' = c /\ scan' = NoScan
  /\ churn' = [began |-> Standing, stood |-> Standing, added |-> FALSE, removed |-> FALSE]
PageOf(n) == SubSeq(rows, n * Page + 1, Min({(n + 1) * Page, Len(rows)}))
Got == scan.got \o PageOf(scan.page)
Mut_Changed == FALSE
Changed == scan.total # -1 /\ scan.total # Len(rows)
Repeated == \E r \in ToSet(PageOf(scan.page)) : \E s \in ToSet(scan.got) : r.id = s.id
(* Every page before anything is returned; a total that changed, a row seen *)
(* twice or a short page is an incomplete scan.                             *)
Broken == Changed \/ Repeated
          \/ Len(Got) > Len(rows)
          \/ (Len(Got) < Len(rows) /\ Len(PageOf(scan.page)) # Page)
Whole == ~Broken /\ Len(Got) = Len(rows)
Scanning == call.phase \in {"before", "after"}
ReadPage ==
  /\ Scanning /\ ~Broken /\ ~Whole
  /\ scan' = [page |-> scan.page + 1, got |-> Got, total |-> Len(rows)]
  /\ UNCHANGED <<provider, call, churn, history>>

(* ------------------------- what the scan decides ------------------------ *)
Of(kind) == {r \in ToSet(Got) : r.kind = kind}
Conflict(op) == IF op = "document" THEN Of("altered") # {} ELSE FALSE
(* exact, documentRow: two rows with our reference are a doubt.             *)
Matching(op) == IF op = "notice" THEN Of("notice") \cup Of("handled") ELSE Of(op)
Duplicate(op) == Cardinality(Matching(op)) > 1
Ends(outcome, op) ==
  /\ call' = Idle /\ scan' = NoScan
  /\ doubt' = [doubt EXCEPT ![op] = @ \/ outcome = "uncertain"]
Mut_Stale == FALSE
Stale == call.op = "notice" /\ \A r \in Of("document") : r.id # proof["document"]
Proves(op) == Of(op) # {} /\ ~Duplicate(op)
ProvedRow(op) == [proof EXCEPT ![op] = (CHOOSE r \in Of(op) : TRUE).id]
MayWrite == ~call.look
(* A notice that Dayana has handled is not pending: it proves nothing.      *)
Refuses == Stale \/ Conflict(call.op) \/ Duplicate("document") \/ Duplicate(call.op)
           \/ (call.op = "notice" /\ Of("handled") # {})
Decide ==
  /\ call.phase = "before"
  /\ UNCHANGED <<provider, churn, asked, blind, slipped, staff, calls>>
  /\ \/ Broken /\ Ends("failed", call.op) /\ UNCHANGED proof
     \/ /\ Whole /\ Refuses /\ UNCHANGED proof
        /\ Ends(IF Stale /\ ~Duplicate("document") THEN "failed" ELSE "uncertain", call.op)
     \/ /\ Whole /\ ~Refuses /\ Proves(call.op)
        /\ Ends("proved", call.op) /\ proof' = ProvedRow(call.op)
     \/ /\ Whole /\ ~Refuses /\ Of(call.op) = {} /\ UNCHANGED proof
        /\ IF MayWrite THEN call' = [call EXCEPT !.phase = "write"] /\ UNCHANGED <<scan, doubt>>
           ELSE Ends("uncertain", call.op)

(* ------------------------------- the write ------------------------------ *)
Ask == /\ asked' = [asked EXCEPT ![call.op] = @ + 1]
       /\ blind' = (blind \/ (call.op = "notice" /\ proof["document"] \notin churn.began))
Applies == Added(call.op) /\ ids' = ids + 1 /\ UNCHANGED late
Lost == UNCHANGED provider
Delayed == late' = late \cup {call.op} /\ UNCHANGED <<rows, ids>>
(* Whatever the answer says, the row is read back.                          *)
Mut_AfterWrite == Ends("failed", call.op)
AfterWrite == call' = [call EXCEPT !.phase = "again", !.try = 1] /\ scan' = NoScan /\ UNCHANGED doubt
Write ==
  /\ call.phase = "write" /\ (Applies \/ Lost \/ Delayed) /\ Ask /\ AfterWrite
  /\ UNCHANGED <<right, churn, proof, slipped, staff, calls>>
(* Writes are switched off, or the token cannot be had: nothing was sent.   *)
NotSent ==
  /\ call.phase = "write" /\ Ends("failed", call.op)
  /\ UNCHANGED <<provider, churn, proof, asked, blind, slipped, staff, calls>>
(* The card of Dayana or the macro 10 is not what was reviewed.             *)
VerifyCatalogue ==
  /\ call.phase = "identity" /\ Ends("failed", call.op)
  /\ UNCHANGED <<provider, churn, proof, asked, blind, slipped, staff, calls>>
(* The one client of the project, its active card and its DNI.              *)
IdentityMatches == right
(* checkIdentity, before the scan and before each of the looks that follow  *)
(* the write; its mismatch counts as not applied, also after the write.     *)
CheckIdentity ==
  /\ call.phase = "identity"
  /\ IF IdentityMatches THEN Begin([call EXCEPT !.phase = "before"]) /\ UNCHANGED doubt
     ELSE Ends("failed", call.op) /\ UNCHANGED churn
  /\ UNCHANGED <<provider, proof, asked, blind, slipped, staff, calls>>
CheckAgain ==
  /\ call.phase = "again"
  /\ IF IdentityMatches THEN Begin([call EXCEPT !.phase = "after"]) /\ UNCHANGED <<doubt, slipped>>
     ELSE Ends("failed", call.op) /\ slipped' = TRUE /\ UNCHANGED churn
  /\ UNCHANGED <<provider, proof, asked, blind, staff, calls>>
(* Three looks at the record; a duplicate ends them at once.                *)
ReadBack ==
  /\ call.phase = "after"
  /\ \/ Whole /\ Proves(call.op) /\ Ends("proved", call.op) /\ proof' = ProvedRow(call.op)
     \/ Whole /\ Duplicate(call.op) /\ Ends("uncertain", call.op) /\ UNCHANGED proof
     \/ /\ Broken \/ (Whole /\ Of(call.op) = {} /\ ~Duplicate(call.op))
        /\ UNCHANGED proof
        /\ IF call.try < 3
           THEN call' = [call EXCEPT !.phase = "again", !.try = @ + 1] /\ scan' = NoScan /\ UNCHANGED doubt
           ELSE Ends("uncertain", call.op)
  /\ UNCHANGED <<provider, churn, asked, blind, slipped, staff, calls>>

(* ------------------------------ the executor ---------------------------- *)
(* It calls for the notice once the upload is proved, and looks only when   *)
(* its row says that a write may have gone out.                             *)
Call ==
  /\ call.phase = "idle" /\ calls < MaxCalls /\ calls' = calls + 1
  /\ \E op \in Ours :
       /\ proof[op] = 0 /\ (op = "notice" <=> proof["document"] # 0)
       /\ call' = [op |-> op, phase |-> "identity", look |-> doubt[op], try |-> 0]
  /\ UNCHANGED <<provider, scan, churn, proof, doubt, asked, blind, slipped, staff>>
(* The worker dies: the row was claimed before the call.                    *)
Crash ==
  /\ call.phase # "idle" /\ Ends("uncertain", call.op)
  /\ UNCHANGED <<provider, churn, proof, asked, blind, slipped, staff, calls>>

Staff == StaffAdd \/ StaffRemove \/ StaffAlter \/ StaffRelink
Gateway == \/ VerifyCatalogue \/ CheckIdentity \/ ReadPage \/ Decide
           \/ Write \/ NotSent \/ CheckAgain \/ ReadBack
Next == Staff \/ Arrives \/ Gateway \/ Call \/ Crash
Spec == Init /\ [][Next]_vars
-----------------------------------------------------------------------------
TypeOK ==
  /\ \A n \in DOMAIN rows : rows[n].id \in 1..ids /\ rows[n].kind \in Kinds
  /\ late \subseteq Ours /\ doubt \in [Ours -> BOOLEAN] /\ asked \in [Ours -> 0..MaxCalls]
(* A scan that is taken as whole holds every row that stood all along,      *)
(* unless one was added and another removed under it: each alone is seen,   *)
(* by the total or by a row that comes twice.                               *)
ScanIsWhole ==
  Scanning /\ Whole /\ ~(churn.added /\ churn.removed) => churn.stood \subseteq {r.id : r \in ToSet(Got)}
(* The provider is asked once for the document and once for the notice,     *)
(* however often the executor calls, crashes, or is told nothing.  The one  *)
(* exception is in the code: a mismatch of the identity that is found only  *)
(* after the write is thrown as not applied, and the next call may write.   *)
WrittenOnce == (\E op \in Ours : asked[op] > 1) => slipped
(* Dayana is not told of a document that the record had lost before this    *)
(* call looked.                                                             *)
NoticeHasDocument == ~blind
-----------------------------------------------------------------------------
(* Why these hold.  A scan that the total does not give away has the rows   *)
(* of the record in their places; a call that may write has found that      *)
(* nobody wrote before it; and an id is never given twice.                  *)
Row == [id : Nat, kind : Kinds]
Phases == {"idle", "identity", "before", "write", "again", "after"}
Shapes ==
  /\ rows \in Seq(Row) /\ ids \in Nat /\ late \subseteq Ours
  /\ scan \in [page : Nat, got : Seq(Row), total : Int]
  /\ call \in [op : Ours \cup {"none"}, phase : Phases, look : BOOLEAN, try : Int]
  /\ call.phase # "idle" => call.op \in Ours
  /\ churn \in [began : SUBSET Nat, stood : SUBSET Nat, added : BOOLEAN, removed : BOOLEAN]
  /\ proof \in [Ours -> Nat] /\ doubt \in [Ours -> BOOLEAN] /\ asked \in [Ours -> Nat]
ReadIds == {scan.got[n].id : n \in DOMAIN scan.got}
IdsAreGiven ==
  /\ \A id \in Standing \cup ReadIds : id \in 1..ids
  /\ \A op \in Ours : proof[op] <= ids
InPlace == \A n \in DOMAIN scan.got : n \in DOMAIN rows /\ scan.got[n].id = rows[n].id
ScanFollows ==
  /\ churn.stood \subseteq Standing
  /\ Scanning =>
       /\ Len(scan.got) = scan.page * Page
       /\ scan.page = 0 <=> scan.total = -1
       /\ scan.page > 0 =>
            /\ ~churn.removed => scan.total <= Len(rows)
            /\ ~churn.added => Len(rows) <= scan.total
            /\ ~(churn.added /\ churn.removed) /\ scan.total = Len(rows) => InPlace
AskedIsKnown ==
  /\ \A op \in Ours : asked[op] > 0 /\ ~slipped =>
       proof[op] # 0 \/ doubt[op] \/ (call.op = op /\ call.phase \in {"again", "after"})
  /\ call.phase \in {"identity", "before", "write"} /\ ~call.look => asked[call.op] = 0 \/ slipped
  /\ call.phase \in {"identity", "before", "write"} /\ call.look => doubt[call.op]
  /\ call.phase = "write" => ~call.look
DocumentStood ==
  call.op = "notice" =>
    /\ call.phase = "before" /\ proof["document"] \in Standing \cup ReadIds => proof["document"] \in churn.began
    /\ call.phase = "write" => proof["document"] \in churn.began
(* RecordInv: the inductive invariant (kmaleon-reviewed.ts).                *)
RecordInv ==
  Shapes /\ IdsAreGiven /\ ScanFollows /\ AskedIsKnown /\ DocumentStood /\ WrittenOnce /\ NoticeHasDocument
=============================================================================
