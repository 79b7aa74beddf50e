------------------------------ MODULE OfficeProofs -----------------------------
(* What the operator of the office may rely on: that the panel decides on   *)
(* what it shows, for every set of cases and any number of reads, requests  *)
(* and moves of the client and the bot; that an assisted draft is stored    *)
(* only under a consent that stands, and only from a session nothing cut    *)
(* short; that a judicial district on screen is no guess; that what the     *)
(* audit of a document calls valid has been read and found so.              *)
EXTENDS Panel, Sequences, FiniteSetTheorems, WellFoundedInduction, TLAPS

(* Beside the panel, the assisted session, the resolution of an address     *)
(* (catalogue is the file of the firm, passed how often the case moved) and *)
(* the audit of a document.                                                 *)
CONSTANTS MaxFaults, Readings, MaxPassed, Docs, MaxTextPages
VARIABLES at, world, denied, watch, abort, consent, stored, parent, child, toParent, site, faults,
          catalogue, record, version, ask, passed,
          doc, step, page, reasons, report
Ass == INSTANCE AssistedSession
Adr == INSTANCE Address WITH MaxMoves <- MaxPassed, file <- catalogue, moves <- passed
Pdf == INSTANCE PdfAudit
PdfData == INSTANCE MCPdfAudit

(* ------------------------------- the forms ------------------------------ *)
FormKinds ==
  {"consent", "address", "lookup", "session", "review", "submission", "payment", "reject",
   "recover", "approve", "approveOld"}

LEMMA OfferedKinds ==
  ASSUME NEW r, NEW kind \in Offered(r)
  PROVE  kind \in FormKinds /\ Forms(r)[kind]
  BY DEF Offered, Forms, FormKinds

(* ------------------------------- the cases ------------------------------ *)
FileGoes ==
  /\ file' \in [Case -> Files]
  /\ \A c \in Case : \/ Same(file'[c], file[c]) /\ file'[c].version = file[c].version
                     \/ file'[c].version > file[c].version

(* What the parts of a case may be replaced by.                             *)
LEMMA Updated ==
  ASSUME NEW r \in Files
  PROVE  /\ r.version \in Nat /\ Next1(r) \in Files /\ Next1(r).version = r.version + 1
         /\ \A stage \in Stages : [r EXCEPT !.stage = stage] \in Files /\ [r EXCEPT !.stage = stage].version = r.version
         /\ \A paper \in Papers : [r EXCEPT !.paper = paper] \in Files /\ [r EXCEPT !.paper = paper].version = r.version
         /\ \A b \in BOOLEAN : /\ [r EXCEPT !.old = b] \in Files /\ [r EXCEPT !.old = b].version = r.version
                               /\ [r EXCEPT !.address = b] \in Files /\ [r EXCEPT !.address = b].version = r.version
                               /\ [r EXCEPT !.reviewed = b] \in Files /\ [r EXCEPT !.reviewed = b].version = r.version
                               /\ [r EXCEPT !.fresh = b] \in Files /\ [r EXCEPT !.fresh = b].version = r.version
                               /\ [r EXCEPT !.resumable = b] \in Files
                               /\ [r EXCEPT !.resumable = b].version = r.version
<1>1. r.version \in Nat /\ Next1(r) \in Files /\ Next1(r).version = r.version + 1
  BY DEF Next1, Files
<1>2. \A stage \in Stages : [r EXCEPT !.stage = stage] \in Files /\ [r EXCEPT !.stage = stage].version = r.version
  BY DEF Files
<1>3. \A paper \in Papers : [r EXCEPT !.paper = paper] \in Files /\ [r EXCEPT !.paper = paper].version = r.version
  BY DEF Files
<1>4. \A b \in BOOLEAN : /\ [r EXCEPT !.old = b] \in Files /\ [r EXCEPT !.old = b].version = r.version
                         /\ [r EXCEPT !.address = b] \in Files /\ [r EXCEPT !.address = b].version = r.version
                         /\ [r EXCEPT !.reviewed = b] \in Files /\ [r EXCEPT !.reviewed = b].version = r.version
  BY DEF Files
<1>5. \A b \in BOOLEAN : /\ [r EXCEPT !.fresh = b] \in Files /\ [r EXCEPT !.fresh = b].version = r.version
                         /\ [r EXCEPT !.resumable = b] \in Files /\ [r EXCEPT !.resumable = b].version = r.version
  BY DEF Files
<1> QED BY <1>1, <1>2, <1>3, <1>4, <1>5

LEMMA Effects ==
  ASSUME NEW kind \in FormKinds, NEW r \in Files, NEW next \in Stages
  PROVE  LET s == Effect(kind, r, next) IN s \in Files /\ (s = r \/ s.version = r.version + 1)
<1> DEFINE q == Next1(r)
<1>1. q \in Files /\ q.version = r.version + 1
  BY Updated
<1>2. \A stage \in Stages, fresh \in BOOLEAN, paper \in Papers :
        /\ [q EXCEPT !.stage = stage] \in Files /\ [q EXCEPT !.stage = stage].version = q.version
        /\ [q EXCEPT !.stage = stage, !.fresh = fresh] \in Files
        /\ [q EXCEPT !.stage = stage, !.fresh = fresh].version = q.version
        /\ [q EXCEPT !.stage = stage, !.paper = paper] \in Files
        /\ [q EXCEPT !.stage = stage, !.paper = paper].version = q.version
        /\ [q EXCEPT !.address = fresh] \in Files /\ [q EXCEPT !.address = fresh].version = q.version
        /\ [q EXCEPT !.reviewed = fresh] \in Files /\ [q EXCEPT !.reviewed = fresh].version = q.version
  <2> HIDE DEF q
  <2> QED BY <1>1 DEF Files
<1> HIDE DEF q
<1>3. q = Next1(r)
  BY DEF q
<1> QED BY <1>1, <1>2, <1>3 DEF Effect, FormKinds, Stages, Papers

LEMMA SameIsEqual ==
  ASSUME NEW r \in Files, NEW s \in Files, NEW t \in Files
  PROVE  /\ Same(r, r)
         /\ Same(r, s) => Same(s, r)
         /\ Same(r, s) /\ Same(s, t) => Same(r, t)
  BY DEF Same

LEMMA ReadStays ==
  ASSUME file \in [Case -> Files], FileGoes, NEW c \in Case, NEW r, ReadOf(r, c)
  PROVE  ReadOf(r, c)'
<1>1. r \in Files /\ file[c] \in Files /\ file'[c] \in Files
  BY DEF FileGoes, ReadOf
<1>2. r.version \in Nat /\ file[c].version \in Nat /\ file'[c].version \in Nat
  BY <1>1, Updated
<1>3. \/ Same(file'[c], file[c]) /\ file'[c].version = file[c].version
      \/ file'[c].version > file[c].version
  BY DEF FileGoes
<1>4. r.version <= file'[c].version
  BY <1>2, <1>3 DEF ReadOf
<1>5. ASSUME r.version = file'[c].version PROVE Same(file'[c], r)
  <2>1. file[c].version = r.version /\ Same(file'[c], file[c])
    BY <1>2, <1>3, <1>5 DEF ReadOf
  <2> QED BY <1>1, <2>1, SameIsEqual DEF ReadOf
<1> QED BY <1>1, <1>4, <1>5 DEF ReadOf

LEMMA SessionEndsIn ==
  ASSUME NEW r \in Files, NEW s \in {Drafted(r), Stopped(r)}
  PROVE  s \in Files /\ s.version = r.version + 1
<1> DEFINE q == Next1(r)
<1>1. q \in Files /\ q.version = r.version + 1
  BY Updated
<1>2. r.old \in BOOLEAN /\ Unapproved(r) \in BOOLEAN
  BY DEF Files, Unapproved
<1> HIDE DEF q
<1>3. \A b \in BOOLEAN : LET d == [q EXCEPT !.paper = "draft", !.reviewed = FALSE, !.old = @ \/ b]
                         IN  d \in Files /\ d.version = q.version
  BY <1>1 DEF Files, Papers
<1>4. LET d == [q EXCEPT !.stage = "escalated", !.resumable = TRUE] IN d \in Files /\ d.version = q.version
  BY <1>1 DEF Files, Stages
<1> QED BY <1>1, <1>2, <1>3, <1>4 DEF Drafted, Stopped, q

LEMMA MovesTo ==
  ASSUME NEW r \in Files, NEW stage \in Stages
  PROVE  \A s \in {Moved(r, stage), Sent(r, stage), Audited(r)} : s \in Files /\ s.version = r.version + 1
<1> DEFINE q == Next1(r)
<1>1. q \in Files /\ q.version = r.version + 1
  BY Updated
<1>2. Unapproved(r) \in BOOLEAN /\ (stage = "escalated") \in BOOLEAN
  BY DEF Unapproved
<1> HIDE DEF q
<1>3. \A b \in BOOLEAN : LET d == [q EXCEPT !.stage = stage, !.resumable = b] IN d \in Files /\ d.version = q.version
  BY <1>1 DEF Files
<1>4. Moved(r, stage) \in Files /\ Moved(r, stage).version = r.version + 1
  BY <1>1, <1>2, <1>3 DEF Moved, q
<1>5. \A m \in Files, b \in BOOLEAN : LET d == [m EXCEPT !.paper = "plain", !.reviewed = FALSE, !.old = @ \/ b]
                                      IN  d \in Files /\ d.version = m.version
  BY DEF Files, Papers
<1>6. Sent(r, stage) \in Files /\ Sent(r, stage).version = r.version + 1
  BY <1>2, <1>4, <1>5 DEF Sent
<1>7. LET d == [q EXCEPT !.paper = "fit"] IN d \in Files /\ d.version = q.version
  BY <1>1 DEF Files, Papers
<1> QED BY <1>1, <1>4, <1>6, <1>7 DEF Audited, q

LEMMA DriftsTo ==
  ASSUME NEW r \in Files
  PROVE  \A s \in {[r EXCEPT !.fresh = FALSE], [r EXCEPT !.resumable = ~@]} :
           s \in Files /\ Same(s, r) /\ s.version = r.version
<1>1. r.resumable \in BOOLEAN
  BY DEF Files
<1>2. \A b \in BOOLEAN : /\ [r EXCEPT !.resumable = b] \in Files /\ [r EXCEPT !.resumable = b].version = r.version
                         /\ [r EXCEPT !.fresh = b] \in Files /\ [r EXCEPT !.fresh = b].version = r.version
  BY Updated
<1>3. \A b \in BOOLEAN : Same([r EXCEPT !.resumable = b], r) /\ Same([r EXCEPT !.fresh = b], r)
  BY DEF Same, Files
<1>4. (~r.resumable) \in BOOLEAN
  BY <1>1
<1> QED BY <1>2, <1>3, <1>4

LEMMA FileStep ==
  ASSUME PanelInv, [Next]_vars
  PROVE  FileGoes
<1>0. file \in [Case -> Files]
  BY DEF PanelInv
<1>1. CASE UNCHANGED file
  <2>1. \A c \in Case : Same(file[c], file[c])
    BY <1>0, SameIsEqual
  <2> QED BY <1>0, <1>1, <2>1 DEF FileGoes
<1>2. ASSUME NEW c \in Case, NEW s \in Files, file' = [file EXCEPT ![c] = s],
             \/ Same(s, file[c]) /\ s.version = file[c].version
             \/ s.version > file[c].version
      PROVE  FileGoes
  <2>1. \A d \in Case : Same(file[d], file[d])
    BY <1>0, SameIsEqual
  <2> QED BY <1>0, <1>2, <2>1 DEF FileGoes
(* A new version of the case.                                               *)
<1>3. ASSUME NEW c \in Case, NEW s \in Files, file' = [file EXCEPT ![c] = s], s.version = file[c].version + 1
      PROVE  FileGoes
  <2>1. file[c].version \in Nat
    BY <1>0, Updated
  <2>2. s.version > file[c].version
    BY <1>3, <2>1
  <2> QED BY <1>2, <1>3, <2>2
<1>4. ASSUME NEW p \in posts, Handle(p) PROVE FileGoes
  <2>1. p.case \in Case /\ p.kind \in FormKinds /\ file[p.case] \in Files
    BY <1>0, OfferedKinds DEF PanelInv, Posted
  <2> DEFINE ok == Current(p) /\ Accepts(p.kind, file[p.case])
             Becoming(next) == IF ok THEN Effect(p.kind, file[p.case], next) ELSE file[p.case]
  <2>2. PICK next \in LeadsTo(p.kind) : file' = [file EXCEPT ![p.case] = Becoming(next)]
    BY <1>4 DEF Handle
  <2>3. next \in Stages
    BY DEF LeadsTo, Stages
  <2>4. PICK s : s = Becoming(next)
    OBVIOUS
  <2>5. s \in Files /\ (s = file[p.case] \/ s.version = file[p.case].version + 1)
    BY <2>1, <2>3, <2>4, Effects
  <2>6. file' = [file EXCEPT ![p.case] = s]
    BY <2>2, <2>4
  <2>7. CASE s = file[p.case]
    <3>1. file' = file
      BY <1>0, <2>1, <2>6, <2>7
    <3> QED BY <1>1, <3>1
  <2> QED BY <1>3, <2>1, <2>5, <2>6, <2>7
<1>5. ASSUME NEW p \in posts, SessionEnds(p) PROVE FileGoes
  <2>1. p.case \in Case /\ file[p.case] \in Files
    BY <1>0 DEF PanelInv, Posted
  <2>2. PICK s \in {Drafted(file[p.case]), Stopped(file[p.case])} : file' = [file EXCEPT ![p.case] = s]
    BY <1>5 DEF SessionEnds
  <2>3. s \in Files /\ s.version = file[p.case].version + 1
    BY <2>1, <2>2, SessionEndsIn
  <2> QED BY <1>3, <2>1, <2>2, <2>3
<1>6. ASSUME NEW c \in Case, CaseMoves(c) PROVE FileGoes
  <2>1. file[c] \in Files
    BY <1>0
  <2>2. ASSUME NEW stage \in Stages, Becomes(c, Moved(file[c], stage)) \/ Becomes(c, Sent(file[c], stage))
        PROVE  FileGoes
    <3>1. PICK s \in {Moved(file[c], stage), Sent(file[c], stage)} : file' = [file EXCEPT ![c] = s]
      BY <2>2 DEF Becomes
    <3>2. s \in Files /\ s.version = file[c].version + 1
      BY <2>1, <3>1, MovesTo
    <3> QED BY <1>3, <3>1, <3>2
  <2>3. CASE Becomes(c, Audited(file[c]))
    <3>1. PICK s : s = Audited(file[c]) /\ file' = [file EXCEPT ![c] = s]
      BY <2>3 DEF Becomes
    <3>2. file[c].stage \in Stages
      BY <2>1 DEF Files
    <3>3. s \in Files /\ s.version = file[c].version + 1
      BY <2>1, <3>1, <3>2, MovesTo
    <3> QED BY <1>3, <3>1, <3>3
  <2>4. CASE Becomes(c, [file[c] EXCEPT !.fresh = FALSE])
    <3>1. [file[c] EXCEPT !.fresh = FALSE] \in Files /\ Same([file[c] EXCEPT !.fresh = FALSE], file[c])
          /\ [file[c] EXCEPT !.fresh = FALSE].version = file[c].version
      BY <2>1, DriftsTo
    <3> QED BY <1>2, <2>4, <3>1 DEF Becomes
  <2>5. CASE Becomes(c, [file[c] EXCEPT !.resumable = ~@])
    <3>1. [file[c] EXCEPT !.resumable = ~@] \in Files /\ Same([file[c] EXCEPT !.resumable = ~@], file[c])
          /\ [file[c] EXCEPT !.resumable = ~@].version = file[c].version
      BY <2>1, DriftsTo
    <3> QED BY <1>2, <2>5, <3>1 DEF Becomes
  <2>6. \/ \E stage \in Stages : Becomes(c, Moved(file[c], stage)) \/ Becomes(c, Sent(file[c], stage))
        \/ Becomes(c, Audited(file[c]))
        \/ Becomes(c, [file[c] EXCEPT !.fresh = FALSE])
        \/ Becomes(c, [file[c] EXCEPT !.resumable = ~@])
    <3>1. file[c].stage \in Stages
      BY <2>1 DEF Files
    <3>2. (IF file[c].stage = "escalated" THEN {file[c].stage} ELSE {"audit", "escalated"}) \subseteq Stages
      BY <3>1 DEF Stages
    <3> QED BY <1>6, <3>2 DEF CaseMoves
  <2> QED BY <2>2, <2>3, <2>4, <2>5, <2>6
<1>7. CASE UNCHANGED vars
  BY <1>1, <1>7 DEF vars
<1>8. ASSUME Operator \/ (\E a \in asked : Read(a) \/ RenderDetail(a)) \/ (\E p \in posts : Answer(p)) PROVE FileGoes
  BY <1>1, <1>8 DEF Operator, Clicks, Closes, Submit, Read, RenderDetail, Answer, server
<1> QED BY <1>4, <1>5, <1>6, <1>7, <1>8 DEF Next, Network

(* ------------------------------- the requests --------------------------- *)
LEMMA PostStays ==
  ASSUME file \in [Case -> Files], FileGoes, NEW p, Posted(p)
  PROVE  Posted(p)'
  BY ReadStays DEF Posted

LEMMA PostMoves ==
  ASSUME NEW p, Posted(p), NEW next, NEW own
  PROVE  Posted([p EXCEPT !.at = next]) /\ Posted([p EXCEPT !.own = own])
<1>1. p = [n |-> p.n, kind |-> p.kind, case |-> p.case, seen |-> p.seen, own |-> p.own, at |-> p.at]
  BY DEF Posted
<1>2. /\ [p EXCEPT !.at = next] =
           [n |-> p.n, kind |-> p.kind, case |-> p.case, seen |-> p.seen, own |-> p.own, at |-> next]
      /\ [p EXCEPT !.own = own] =
           [n |-> p.n, kind |-> p.kind, case |-> p.case, seen |-> p.seen, own |-> own, at |-> p.at]
  BY <1>1
<1> QED BY <1>2 DEF Posted

(* What a step leaves of a request: the same, with another end or owner. *)
LEMMA RequestsStay ==
  ASSUME PanelInv, FileGoes,
         \A q \in posts' : \/ q \in posts
                           \/ \E p \in posts, next \in {"sent", "running", "done", "failed"} : q = [p EXCEPT !.at = next]
                           \/ \E p \in posts : q = [p EXCEPT !.own = FALSE]
  PROVE  (\A q \in posts : Posted(q))'
<1>1. SUFFICES ASSUME NEW q \in posts' PROVE Posted(q)'
  OBVIOUS
<1>2. file \in [Case -> Files] /\ \A p \in posts : Posted(p)
  BY DEF PanelInv
<1>3. ASSUME NEW p \in posts, NEW next \in {"sent", "running", "done", "failed"}, q = [p EXCEPT !.at = next]
      PROVE  Posted(q)
  <2>1. Posted([p EXCEPT !.at = next])
    BY <1>2, PostMoves
  <2> QED BY <1>3, <2>1
<1>4. ASSUME NEW p \in posts, q = [p EXCEPT !.own = FALSE] PROVE Posted(q)
  <2>1. Posted([p EXCEPT !.own = FALSE])
    BY <1>2, PostMoves
  <2> QED BY <1>4, <2>1
<1>5. Posted(q)
  BY <1>1, <1>2, <1>3, <1>4
<1> QED BY <1>2, <1>5, PostStays

(* A request that is carried out finds the case as it was drawn, but for    *)
(* what has no version.                                                     *)
LEMMA CurrentIsSeen ==
  ASSUME NEW p, Posted(p), Current(p)
  PROVE  Same(file[p.case], p.seen)
  BY DEF Posted, ReadOf, Current

(* ------------------------------- the steps ------------------------------ *)
LEMMA PanelInit == Init => PanelInv
<1> SUFFICES ASSUME Init PROVE PanelInv
  OBVIOUS
<1>1. \A stage \in Stages : Case0(stage) \in Files
  BY DEF Case0, Files, Papers
<1>2. \A r \in Files : /\ [r EXCEPT !.fresh = TRUE] \in Files /\ [r EXCEPT !.paper = "draft"] \in Files
                       /\ [r EXCEPT !.address = TRUE, !.fresh = TRUE] \in Files
                       /\ [r EXCEPT !.paper = "fit", !.old = TRUE] \in Files
                       /\ [r EXCEPT !.paper = "fit", !.closed = TRUE] \in Files
  BY DEF Files, Papers
<1>3. file \in [Case -> Files]
  BY <1>1, <1>2 DEF Init, Stages
<1> QED BY <1>3 DEF Init, PanelInv

LEMMA PostsStep ==
  ASSUME PanelInv, [Next]_vars
  PROVE  (\A p \in posts : Posted(p))'
<1>0. FileGoes /\ file \in [Case -> Files]
  BY FileStep DEF PanelInv
<1>1. CASE posts' \subseteq posts
  BY <1>0, <1>1, RequestsStay
<1>2. ASSUME NEW p \in posts, Handle(p) PROVE (\A q \in posts : Posted(q))'
  <2>1. PICK next \in {"sent", "running", "done", "failed"} : posts' = (posts \ {p}) \cup {[p EXCEPT !.at = next]}
    BY <1>2 DEF Handle
  <2> QED BY <1>0, <2>1, RequestsStay
<1>3. ASSUME NEW p \in posts, SessionEnds(p) PROVE (\A q \in posts : Posted(q))'
  <2>1. PICK next \in {"sent", "running", "done", "failed"} : posts' = (posts \ {p}) \cup {[p EXCEPT !.at = next]}
    BY <1>3 DEF SessionEnds
  <2> QED BY <1>0, <2>1, RequestsStay
<1>4. ASSUME NEW a \in asked, RenderDetail(a) PROVE (\A q \in posts : Posted(q))'
  BY <1>0, <1>4, RequestsStay DEF RenderDetail
<1>5. ASSUME drawn # None, NEW kind \in Offered(drawn.read), Submit(kind)
      PROVE  (\A q \in posts : Posted(q))'
  <2>1. ReadOf(drawn.read, drawn.case) /\ drawn.case \in Case
    BY <1>5 DEF PanelInv, Reads
  <2>2. PICK n : posts' = posts \cup {[n |-> n, kind |-> kind, case |-> drawn.case, seen |-> drawn.read,
                                      own |-> TRUE, at |-> "sent"]}
    BY <1>5 DEF Submit
  <2>3. PICK q : q = [n |-> n, kind |-> kind, case |-> drawn.case, seen |-> drawn.read, own |-> TRUE, at |-> "sent"]
    OBVIOUS
  <2>4. Posted(q)
    BY <2>1, <2>3 DEF Posted
  <2>5. posts' = posts \cup {q}
    BY <2>2, <2>3
  <2>6. \A r \in posts' : Posted(r)
    BY <2>4, <2>5 DEF PanelInv
  <2> QED BY <1>0, <2>6, PostStays
<1>6. ASSUME (\E c \in Case : Clicks(c)) \/ Closes \/ (\E a \in asked : Read(a)) \/ (\E p \in posts : Answer(p))
             \/ (\E c \in Case : CaseMoves(c)) \/ UNCHANGED vars
      PROVE  posts' \subseteq posts
  BY <1>6 DEF Clicks, Closes, Read, Answer, CaseMoves, vars
<1> QED BY <1>1, <1>2, <1>3, <1>4, <1>5, <1>6 DEF Next, Operator, Network

LEMMA ScreenStep ==
  ASSUME PanelInv, [Next]_vars
  PROVE  /\ (\A a \in asked : a \in Reads /\ (a.read # None => ReadOf(a.read, a.case)))'
         /\ (drawn # None => drawn \in Reads /\ ReadOf(drawn.read, drawn.case))'
<1>0. FileGoes /\ file \in [Case -> Files]
  BY FileStep DEF PanelInv
<1> DEFINE Asked(a) == a \in Reads /\ (a.read # None => ReadOf(a.read, a.case))
           Shown(a) == a # None => a \in Reads /\ ReadOf(a.read, a.case)
<1>1. ASSUME NEW a, Asked(a) PROVE Asked(a)'
  BY <1>0, <1>1, ReadStays DEF Reads
<1>2. ASSUME NEW a, Shown(a) PROVE Shown(a)'
  BY <1>0, <1>2, ReadStays DEF Reads
<1>3. (\A a \in asked : Asked(a)) /\ Shown(drawn)
  BY DEF PanelInv
<1>4. \A c \in Case : Asked([case |-> c, read |-> None])
  BY DEF Reads
<1>5. ASSUME NEW a \in asked, a.read = None PROVE Asked([a EXCEPT !.read = file[a.case]])
  <2>1. a \in Reads /\ file[a.case] \in Files
    BY <1>0, <1>3 DEF Reads
  <2>2. [a EXCEPT !.read = file[a.case]] = [case |-> a.case, read |-> file[a.case]]
    BY <2>1 DEF Reads
  <2>3. ReadOf(file[a.case], a.case)
    BY <2>1, Updated, SameIsEqual DEF ReadOf
  <2> QED BY <2>1, <2>2, <2>3 DEF Reads
<1>6. ASSUME NEW a \in asked, a.read # None PROVE Shown(a)
  BY <1>3, <1>6
<1>7. \A a \in asked' : Asked(a)
  <2>1. CASE asked' \subseteq asked
    BY <1>3, <2>1
  <2>2. ASSUME NEW c \in Case, OpenCase(c) PROVE \A a \in asked' : Asked(a)
    BY <1>3, <1>4, <2>2 DEF OpenCase
  <2>3. ASSUME NEW a \in asked, Read(a) PROVE \A b \in asked' : Asked(b)
    BY <1>3, <1>5, <2>3 DEF Read
  <2>4. ASSUME NEW p \in posts, Answer(p) PROVE \A a \in asked' : Asked(a)
    <3>1. p.case \in Case
      BY DEF PanelInv, Posted
    <3>2. CASE Reload(p)
      <4>1. drawn.case \in Case
        BY <1>3, <3>2 DEF Reload, Reads
      <4>2. PICK c \in Case : OpenCase(c)
        BY <2>4, <3>1, <3>2, <4>1 DEF Answer
      <4> QED BY <2>2, <4>2
    <3> QED BY <2>1, <2>4, <3>2 DEF Answer
  <2>5. ASSUME NEW c \in Case, Clicks(c) PROVE \A a \in asked' : Asked(a)
    BY <2>2, <2>5 DEF Clicks
  <2>6. ASSUME \/ Closes \/ (\E kind \in Offered(drawn.read) : Submit(kind)) \/ (\E a \in asked : RenderDetail(a))
               \/ (\E p \in posts : Handle(p) \/ SessionEnds(p)) \/ (\E c \in Case : CaseMoves(c)) \/ UNCHANGED vars
        PROVE  asked' \subseteq asked
    BY <2>6 DEF Closes, Submit, RenderDetail, Handle, SessionEnds, CaseMoves, vars
  <2> QED BY <2>1, <2>3, <2>4, <2>5, <2>6 DEF Next, Operator, Network
<1>8. PICK a : a = drawn' /\ Shown(a)
  <2>1. ASSUME NEW a \in asked, RenderDetail(a) PROVE drawn' = a /\ a.read # None
    BY <2>1 DEF RenderDetail
  <2>2. \/ drawn' = drawn \/ (\E a \in asked : RenderDetail(a))
    BY DEF Next, Operator, Network, Clicks, Closes, Submit, Read, Handle, SessionEnds, Answer, CaseMoves,
      screen, vars
  <2> QED BY <1>3, <1>6, <2>1, <2>2
<1>9. (\A b \in asked : Asked(b))'
  BY <1>1, <1>7
<1>10. Shown(a)'
  BY <1>2, <1>8
<1> QED BY <1>8, <1>9, <1>10

LEMMA ServerStep ==
  ASSUME PanelInv, [Next]_vars
  PROVE  ~blind'
<1>0. ~blind
  BY DEF PanelInv
<1>1. CASE UNCHANGED blind
  BY <1>0, <1>1
<1>2. ASSUME NEW p \in posts, Handle(p) PROVE ~blind'
  <2>1. Posted(p)
    BY DEF PanelInv
  <2>2. blind' = (blind \/ (Current(p) /\ Accepts(p.kind, file[p.case]) /\ ~Same(file[p.case], p.seen)))
    BY <1>2 DEF Handle
  <2> QED BY <1>0, <2>1, <2>2, CurrentIsSeen
<1>3. (\E p \in posts : Handle(p)) \/ UNCHANGED blind
  BY DEF Next, Operator, Network, Clicks, Closes, Submit, Read, RenderDetail, SessionEnds, Answer,
    CaseMoves, server, vars
<1> QED BY <1>1, <1>2, <1>3

LEMMA PanelStep == PanelInv /\ [Next]_vars => PanelInv'
<1> SUFFICES ASSUME PanelInv, [Next]_vars PROVE PanelInv'
  OBVIOUS
<1>1. (file \in [Case -> Files])'
  BY FileStep DEF FileGoes
<1> QED BY <1>1, PostsStep, ScreenStep, ServerStep DEF PanelInv

LEMMA PanelEnough == PanelInv => DecidedAsDrawn
  BY DEF PanelInv, DecidedAsDrawn

(* What the operator decides is written to the case as it was on screen,    *)
(* whatever is drawn, sent or answered beside it (app.js, case-tools.js,    *)
(* and the version each route compares).                                    *)
THEOREM PanelHolds == Spec => []DecidedAsDrawn
<1> QED BY PanelInit, PanelStep, PanelEnough, PTL DEF Spec

(* ---- the assisted session ---- *)
(* ------------------------------- the parent ----------------------------- *)
(* An outcome that is there stays, with the child it was given for.         *)
OutcomeStays ==
  /\ parent'.outcome = parent.outcome
  /\ parent.outcome = "draft" => parent'.failure = parent.failure /\ child'.end = child.end

LEMMA Shaped ==
  ASSUME Ass!Shapes, UNCHANGED <<parent, child, site, world>>
  PROVE  Ass!Shapes' /\ OutcomeStays /\ site'.tainted = site.tainted /\ world'.moved = world.moved
  BY DEF Ass!Shapes, OutcomeStays

LEMMA Updates ==
  ASSUME NEW p \in Ass!Parents
  PROVE  /\ \A q \in {[p EXCEPT !.sent = TRUE], [p EXCEPT !.result = TRUE], [p EXCEPT !.kill = FALSE],
                     Ass!Cancelled(p)} : q \in Ass!Parents /\ q.outcome = p.outcome
         /\ \A outcome \in {"draft", "error"} :
              /\ Ass!Settled(p, outcome) \in Ass!Parents /\ Ass!Settled(p, outcome).outcome = outcome
              /\ Ass!Settled(p, outcome).failure = p.failure
<1>1. [p EXCEPT !.sent = TRUE] \in Ass!Parents /\ [p EXCEPT !.sent = TRUE].outcome = p.outcome
  BY DEF Ass!Parents
<1>2. [p EXCEPT !.result = TRUE] \in Ass!Parents /\ [p EXCEPT !.result = TRUE].outcome = p.outcome
  BY DEF Ass!Parents
<1>3. [p EXCEPT !.kill = FALSE] \in Ass!Parents /\ [p EXCEPT !.kill = FALSE].outcome = p.outcome
  BY DEF Ass!Parents
<1>4. Ass!Cancelled(p) \in Ass!Parents /\ Ass!Cancelled(p).outcome = p.outcome
  BY DEF Ass!Parents, Ass!Cancelled
<1>5. ASSUME NEW outcome \in {"draft", "error"}
      PROVE  Ass!Settled(p, outcome) \in Ass!Parents /\ Ass!Settled(p, outcome).outcome = outcome
             /\ Ass!Settled(p, outcome).failure = p.failure
  BY DEF Ass!Parents, Ass!Settled
<1> QED BY <1>1, <1>2, <1>3, <1>4, <1>5

LEMMA ChildUpdates ==
  ASSUME NEW c \in Ass!Children
  PROVE  /\ [c EXCEPT !.term = TRUE] \in Ass!Children /\ [c EXCEPT !.term = TRUE].end = c.end
         /\ \A how \in {"exit0", "exit1", "killed"} : [c EXCEPT !.end = how] \in Ass!Children
         /\ \A next \in {"boot", "idle", "load", "archive", "browser", "identity", "steps", "again", "link",
                         "fetched", "told", "failed"} :
              [c EXCEPT !.phase = next] \in Ass!Children /\ [c EXCEPT !.phase = next].end = c.end
  BY DEF Ass!Children

LEMMA Cancels ==
  ASSUME Ass!Shapes, NEW p \in {parent, [parent EXCEPT !.sent = TRUE]}, Ass!Cancel(p),
         UNCHANGED site, world' \in Ass!Worlds, p = parent \/ Ass!Running
  PROVE  Ass!Shapes' /\ OutcomeStays
<1>1. p \in Ass!Parents /\ p.outcome = parent.outcome
  BY Updates DEF Ass!Shapes
<1>2. CASE parent' = Ass!Cancelled(p) /\ child' = [child EXCEPT !.term = TRUE] /\ Ass!Running
  BY <1>1, <1>2, Updates, ChildUpdates DEF Ass!Shapes, Ass!Running, OutcomeStays
<1>3. CASE parent' = p /\ UNCHANGED child
  BY <1>1, <1>3 DEF Ass!Shapes, Ass!Running, OutcomeStays
<1> QED BY <1>2, <1>3 DEF Ass!Cancel

(* The child goes on while it lives, and it does not outlive an outcome.    *)
LEMMA ChildStep ==
  ASSUME Ass!SessionInv, Ass!Child
  PROVE  Ass!Shapes' /\ OutcomeStays /\ ~site'.tainted
<1>1. Ass!Shapes /\ ~site.tainted /\ Ass!Alive /\ UNCHANGED <<parent, world>>
  BY DEF Ass!SessionInv, Ass!Child, Ass!Ready, Ass!Load, Ass!WithCertificate, Ass!Lifetime, Ass!Launch,
    Ass!Identity, Ass!Step, Ass!Fetch, Ass!Report, Ass!Exit, Ass!PageTurns, Ass!Works
<1>2. parent.outcome # "draft"
  BY <1>1 DEF Ass!SessionInv, Ass!ReturnedIsClean, Ass!Alive
<1>3. ASSUME Ass!Fetch PROVE Ass!Shapes' /\ ~site'.tainted
  BY <1>1, <1>3, ChildUpdates DEF Ass!Shapes, Ass!Sites, Ass!Fetch, Ass!MayFetch, Ass!fail, Ass!Says
<1>4. ASSUME Ass!PageTurns PROVE Ass!Shapes' /\ ~site'.tainted
  BY <1>1, <1>4 DEF Ass!Shapes, Ass!Sites, Ass!PageTurns
<1>5. ASSUME UNCHANGED site, NEW next,
             next \in {"idle", "archive", "browser", "identity", "steps", "again", "link", "told", "failed"},
             child' = [child EXCEPT !.phase = next]
      PROVE  Ass!Shapes' /\ ~site'.tainted
  BY <1>1, <1>5, ChildUpdates DEF Ass!Shapes
<1>6. ASSUME UNCHANGED site, NEW how \in {"exit0", "exit1"}, child' = [child EXCEPT !.end = how]
      PROVE  Ass!Shapes' /\ ~site'.tainted
  BY <1>1, <1>6, ChildUpdates DEF Ass!Shapes
<1>7. ASSUME Ass!Ready PROVE Ass!Shapes' /\ ~site'.tainted
  BY <1>5, <1>7 DEF Ass!Ready, Ass!Says
<1>8. ASSUME Ass!Load PROVE Ass!Shapes' /\ ~site'.tainted
  BY <1>5, <1>8 DEF Ass!Load, Ass!Says, Ass!fail
<1>9. ASSUME Ass!WithCertificate PROVE Ass!Shapes' /\ ~site'.tainted
  BY <1>5, <1>9 DEF Ass!WithCertificate, Ass!Says, Ass!fail
<1>10. ASSUME Ass!Lifetime \/ Ass!Report PROVE Ass!Shapes' /\ ~site'.tainted
  BY <1>5, <1>10 DEF Ass!Lifetime, Ass!Report, Ass!Says, Ass!fail
<1>11. ASSUME Ass!Launch PROVE Ass!Shapes' /\ ~site'.tainted
  BY <1>5, <1>11 DEF Ass!Launch, Ass!Says, Ass!fail
<1>12. ASSUME Ass!Identity PROVE Ass!Shapes' /\ ~site'.tainted
  BY <1>5, <1>12 DEF Ass!Identity, Ass!Says, Ass!fail
<1>13. ASSUME Ass!Step PROVE Ass!Shapes' /\ ~site'.tainted
  BY <1>5, <1>13 DEF Ass!Step, Ass!Says, Ass!fail
<1>14. ASSUME Ass!Exit PROVE Ass!Shapes' /\ ~site'.tainted
  BY <1>6, <1>14 DEF Ass!Exit, Ass!Ends
<1> QED BY <1>1, <1>2, <1>3, <1>4, <1>7, <1>8, <1>9, <1>10, <1>11, <1>12, <1>13, <1>14 DEF Ass!Child,
  OutcomeStays

(* The exit gives the outcome; nothing else gives a draft.                  *)
LEMMA ParentStep ==
  ASSUME Ass!SessionInv, Ass!Parent
  PROVE  /\ Ass!Shapes' /\ ~site'.tainted /\ Ass!ReturnedIsClean'
         /\ parent.outcome = "draft" => parent'.outcome = "draft"
<1>0. Ass!Shapes /\ ~site.tainted /\ UNCHANGED <<site, world>> /\ Ass!Running
  BY DEF Ass!SessionInv, Ass!Parent, Ass!Hears, Ass!SeesExit, Ass!Deadline, Ass!HardKill, Ass!Reap
<1>1. parent.outcome # "draft"
  BY <1>0 DEF Ass!Running
<1>2. CASE Ass!Hears
  <2>1. CASE \E p \in {parent, [parent EXCEPT !.sent = TRUE]} : Ass!Cancel(p)
    BY <1>0, <1>1, <2>1, Cancels DEF Ass!Shapes, OutcomeStays, Ass!ReturnedIsClean
  <2>2. CASE UNCHANGED <<parent, child>>
    BY <1>0, <1>1, <2>2 DEF Ass!Shapes, Ass!ReturnedIsClean
  <2>3. CASE parent' = [parent EXCEPT !.sent = TRUE] /\ child' = [child EXCEPT !.phase = "load"]
    BY <1>0, <1>1, <2>3, Updates, ChildUpdates DEF Ass!Shapes, Ass!ReturnedIsClean
  <2>4. CASE parent' = [parent EXCEPT !.result = TRUE] /\ UNCHANGED child
    BY <1>0, <1>1, <2>4, Updates DEF Ass!Shapes, Ass!ReturnedIsClean
  <2> QED BY <1>2, <2>1, <2>2, <2>3, <2>4 DEF Ass!Hears
<1>3. CASE Ass!SeesExit
  BY <1>0, <1>1, <1>3, Updates DEF Ass!Shapes, Ass!SeesExit, Ass!Outcome, Ass!ReturnedIsClean
<1>4. CASE Ass!Deadline
  BY <1>0, <1>1, <1>4, Cancels DEF Ass!Shapes, Ass!Deadline, OutcomeStays, Ass!ReturnedIsClean
<1>5. CASE Ass!HardKill
  BY <1>0, <1>1, <1>5, Updates, ChildUpdates DEF Ass!Shapes, Ass!HardKill, Ass!ReturnedIsClean
<1>6. CASE Ass!Reap
  BY <1>0, <1>1, <1>6, Updates, ZenonT(60) DEF Ass!Shapes, Ass!Reap, Ass!ReturnedIsClean
<1> QED BY <1>0, <1>1, <1>2, <1>3, <1>4, <1>5, <1>6 DEF Ass!Parent

(* ----------------------- the watch and the outside ---------------------- *)
LEMMA WatchStep ==
  ASSUME Ass!SessionInv, Ass!Looks \/ Ass!Answers \/ Ass!NoAnswer
  PROVE  Ass!Shapes' /\ OutcomeStays /\ UNCHANGED <<site, world, at, stored, denied>>
<1>1. Ass!Shapes /\ UNCHANGED <<site, world, at, stored, denied>>
  BY DEF Ass!SessionInv, Ass!Looks, Ass!Answers, Ass!NoAnswer, Ass!record
<1>2. Ass!Cancel(parent) \/ UNCHANGED <<parent, child>>
  BY DEF Ass!Looks, Ass!Answers, Ass!NoAnswer, Ass!Trips
<1>3. world' \in Ass!Worlds
  BY <1>1 DEF Ass!Shapes
<1> QED BY <1>1, <1>2, <1>3, Cancels, Shaped

LEMMA OutsideStep ==
  ASSUME Ass!SessionInv, Ass!HourPasses \/ Ass!Disconnects \/ Ass!LockIsLost \/ Ass!AnotherWrites \/ Ass!Withdraws
  PROVE  /\ Ass!Shapes' /\ OutcomeStays /\ UNCHANGED <<site, at, stored>>
         /\ at \in {"write", "commit", "answered"} => world'.moved = world.moved
         /\ at \in {"commit", "answered"} => denied' \in {denied, "late"}
<1>1. Ass!Shapes /\ UNCHANGED <<site, at, stored>>
  BY DEF Ass!SessionInv, Ass!HourPasses, Ass!Disconnects, Ass!LockIsLost, Ass!AnotherWrites,
    Ass!Withdraws, Ass!record, Ass!session
<1>2. Ass!Cancel(parent) \/ UNCHANGED <<parent, child>>
  BY DEF Ass!HourPasses, Ass!Disconnects, Ass!LockIsLost, Ass!AnotherWrites, Ass!Withdraws, Ass!session
<1>3. world' \in Ass!Worlds
  BY <1>1 DEF Ass!Shapes, Ass!Worlds, Ass!HourPasses, Ass!Disconnects, Ass!LockIsLost, Ass!AnotherWrites,
    Ass!Withdraws, Ass!Fault
<1>4. Ass!Shapes' /\ OutcomeStays
  <2>1. CASE Ass!Cancel(parent)
    BY <1>1, <1>3, <2>1, Cancels
  <2>2. CASE UNCHANGED <<parent, child>>
    BY <1>1, <1>3, <2>2 DEF Ass!Shapes, OutcomeStays
  <2> QED BY <1>2, <2>1, <2>2
<1>5. at \in {"write", "commit", "answered"} => world'.moved = world.moved
  BY <1>1 DEF Ass!Shapes, Ass!Worlds, Ass!HourPasses, Ass!Disconnects, Ass!LockIsLost, Ass!AnotherWrites,
    Ass!Withdraws, Ass!Fault
<1>6. at \in {"commit", "answered"} => denied' \in {denied, "late"}
  BY DEF Ass!HourPasses, Ass!Disconnects, Ass!LockIsLost, Ass!AnotherWrites, Ass!Withdraws, Ass!monitor
<1> QED BY <1>1, <1>4, <1>5, <1>6

(* -------------------------------- the route ----------------------------- *)
LEMMA RouteStep ==
  ASSUME Ass!SessionInv, Ass!Route
  PROVE  Ass!SessionInv'
<1>0. Ass!Shapes /\ ~site.tainted /\ Ass!ReturnedIsClean /\ Ass!RouteLooked
  BY DEF Ass!SessionInv
<1>1. CASE Ass!Starts
  <2>1. at = "session" /\ at' = at /\ ~stored' /\ UNCHANGED <<world, site>>
    BY <1>0, <1>1 DEF Ass!Starts, Ass!RouteLooked, Ass!record
  <2>2. Ass!Shapes' /\ parent'.outcome \in {"error", "running"}
    <3>1. Ass!Fork \in Ass!Parents /\ Ass!Fork.outcome = "running"
      BY DEF Ass!Parents, Ass!Fork, Ass!NoSession
    <3>2. CASE parent' = Ass!Settled(parent, "error") /\ UNCHANGED child
      BY <1>0, <2>1, <3>2, Updates DEF Ass!Shapes
    <3>3. CASE parent' = Ass!Fork /\ child' = [child EXCEPT !.phase = "boot"]
      BY <1>0, <2>1, <3>1, <3>3, ChildUpdates DEF Ass!Shapes
    <3> QED BY <1>1, <3>2, <3>3 DEF Ass!Starts
  <2> QED BY <1>0, <2>1, <2>2 DEF Ass!SessionInv, Ass!ReturnedIsClean, Ass!RouteLooked
<1>2. ASSUME UNCHANGED <<Ass!session, world>> PROVE Ass!Shapes' /\ ~site'.tainted /\ Ass!ReturnedIsClean'
  BY <1>0, <1>2 DEF Ass!session, Ass!Shapes, Ass!ReturnedIsClean
<1>3. CASE Ass!First
  BY <1>0, <1>2, <1>3 DEF Ass!First, Ass!Goes, Ass!SessionInv, Ass!RouteLooked, Ass!session, Ass!record
<1>4. CASE Ass!Returns
  BY <1>0, <1>2, <1>4 DEF Ass!Returns, Ass!SessionInv, Ass!RouteLooked, Ass!session, Ass!record
<1>5. CASE Ass!Save \/ Ass!Store
  BY <1>0, <1>2, <1>5 DEF Ass!Save, Ass!Store, Ass!Goes, Ass!SessionInv, Ass!RouteLooked, Ass!session,
    Ass!record
<1>6. CASE Ass!Recheck
  <2>1. at' = "commit" => denied = "no"
    BY <1>6 DEF Ass!Recheck, Ass!Goes, Ass!Reason
  <2> QED BY <1>0, <1>2, <1>6, <2>1 DEF Ass!Recheck, Ass!Goes, Ass!SessionInv, Ass!RouteLooked,
    Ass!session, Ass!record
<1>7. CASE Ass!Commit
  BY <1>0, <1>2, <1>7 DEF Ass!Commit, Ass!SessionInv, Ass!RouteLooked, Ass!session, Ass!monitor
<1>8. CASE Ass!Fail
  BY <1>0, <1>2, <1>8 DEF Ass!Fail, Ass!SessionInv, Ass!RouteLooked, Ass!session, Ass!monitor
<1> QED BY <1>1, <1>3, <1>4, <1>5, <1>6, <1>7, <1>8 DEF Ass!Route

(* ------------------------------- theorems ------------------------------- *)
LEMMA SessionInit == Ass!Init => Ass!SessionInv
  BY DEF Ass!Init, Ass!SessionInv, Ass!Shapes, Ass!Parents, Ass!Children, Ass!Sites, Ass!Worlds,
    Ass!NoSession, Ass!NoChild, Ass!ReturnedIsClean, Ass!RouteLooked

LEMMA SessionStep == Ass!SessionInv /\ [Ass!Next]_(Ass!vars) => Ass!SessionInv'
<1> SUFFICES ASSUME Ass!SessionInv, [Ass!Next]_(Ass!vars) PROVE Ass!SessionInv'
  OBVIOUS
<1>0. ~site.tainted /\ Ass!ReturnedIsClean /\ Ass!RouteLooked
  BY DEF Ass!SessionInv
<1>1. CASE Ass!Parent
  <2>1. UNCHANGED <<at, stored, denied, world>>
    BY <1>1 DEF Ass!Parent, Ass!Hears, Ass!SeesExit, Ass!Deadline, Ass!HardKill, Ass!Reap, Ass!monitor,
      Ass!record
  <2> QED BY <1>0, <1>1, <2>1, ParentStep DEF Ass!SessionInv, Ass!RouteLooked
<1>2. CASE Ass!Child
  <2>1. UNCHANGED <<at, stored, denied, world>>
    BY <1>2 DEF Ass!Child, Ass!Ready, Ass!Load, Ass!WithCertificate, Ass!Lifetime, Ass!Launch,
      Ass!Identity, Ass!Step, Ass!Fetch, Ass!Report, Ass!Exit, Ass!PageTurns, Ass!Works, Ass!monitor,
      Ass!record
  <2> QED BY <1>0, <1>2, <2>1, ChildStep DEF Ass!SessionInv, Ass!ReturnedIsClean, Ass!RouteLooked,
    OutcomeStays
<1>3. CASE Ass!Looks \/ Ass!Answers \/ Ass!NoAnswer
  BY <1>0, <1>3, WatchStep DEF Ass!SessionInv, Ass!ReturnedIsClean, Ass!RouteLooked, OutcomeStays
<1>4. CASE Ass!HourPasses \/ Ass!Disconnects \/ Ass!LockIsLost \/ Ass!AnotherWrites \/ Ass!Withdraws
  BY <1>0, <1>4, OutsideStep DEF Ass!SessionInv, Ass!ReturnedIsClean, Ass!RouteLooked, OutcomeStays
<1>5. CASE UNCHANGED Ass!vars
  BY <1>0, <1>5 DEF Ass!vars, Ass!session, Ass!monitor, Ass!record, Ass!SessionInv, Ass!Shapes,
    Ass!ReturnedIsClean, Ass!RouteLooked
<1> QED BY <1>1, <1>2, <1>3, <1>4, <1>5, RouteStep DEF Ass!Next, Ass!Outside

LEMMA SessionEnough == Ass!SessionInv => Ass!DraftIsConsented /\ Ass!ReturnedIsClean
  BY DEF Ass!SessionInv, Ass!RouteLooked, Ass!DraftIsConsented

(* A draft becomes a document of the case only if no withdrawal was known   *)
(* when the transaction looked for the last time, over a case nobody else   *)
(* wrote, and from a session that nothing cut short.                        *)
THEOREM AssistedHolds ==
  Ass!Spec => [](Ass!DraftIsConsented /\ Ass!ReturnedIsClean /\ (stored => parent.outcome = "draft"))
<1>1. Ass!SessionInv => (stored => parent.outcome = "draft")
  BY DEF Ass!SessionInv, Ass!RouteLooked
<1> QED BY SessionInit, SessionStep, SessionEnough, <1>1, PTL DEF Ass!Spec

(* ---- the addresses ---- *)
(* What a catalogue file is: a sequence of partidos, each with its places.  *)
Catalogues == \A r \in Readings : \E n \in Nat : DOMAIN r[1] = 1..n

(* ------------------------------ the codes ------------------------------- *)
LEMMA Codes ==
  /\ DOMAIN Adr!ComunidadOf = 1..52
  /\ \A c \in 1..52 : Adr!ComunidadOf[c] \in 1..19
  BY DEF Adr!ComunidadOf

(* ---------------------------- the spellings ----------------------------- *)
LEMMA FirstRank ==
  ASSUME NEW r, NEW S, S \subseteq Adr!MunicipalityKeys(r), S # {}
  PROVE  \E k \in S : \A l \in S : Adr!Rank(r, k) <= Adr!Rank(r, l)
<1>1. \A k : Adr!Rank(r, k) \in {1, 2, 3, 4}
  BY DEF Adr!Rank
<1> DEFINE of(n) == {k \in S : Adr!Rank(r, k) = n}
<1>2. \A n \in 1..4 : of(n) # {} /\ (\A m \in 1..4 : m < n => of(m) = {}) =>
        \E k \in S : \A l \in S : Adr!Rank(r, k) <= Adr!Rank(r, l)
  BY <1>1
<1>3. \E n \in 1..4 : of(n) # {}
  BY <1>1
<1> QED
  <2>1. CASE of(1) # {}
    BY <1>2, <2>1
  <2>2. CASE of(1) = {} /\ of(2) # {}
    BY <1>2, <2>2
  <2>3. CASE of(1) = {} /\ of(2) = {} /\ of(3) # {}
    BY <1>2, <2>3
  <2>4. CASE of(1) = {} /\ of(2) = {} /\ of(3) = {}
    BY <1>2, <1>3, <2>4
  <2> QED BY <2>1, <2>2, <2>3, <2>4

(* A set of numbers has a least one: what replaces an induction over data.  *)
LEMMA Smallest ==
  ASSUME NEW S, S \subseteq Nat, S # {}
  PROVE  \E n \in S : \A m \in S : n <= m
<1> DEFINE R == OpToRel(<, Nat)
<1>1. IsWellFoundedOn(R, Nat)
  BY NatLessThanWellFounded
<1>2. \A y, x \in Nat : y < x => <<y, x>> \in R
  BY DEF OpToRel
<1> HIDE DEF R
<1>3. PICK x \in S : \A y \in S : ~(<<y, x>> \in R)
  BY <1>1, WFMin, Zenon
<1>4. ASSUME NEW y \in S
      PROVE  x <= y
  <2>1. x \in Nat /\ y \in Nat /\ ~(y < x)
    BY <1>2, <1>3
  <2> QED BY <2>1
<1> QED BY <1>4

(* --------------------------- the last place ----------------------------- *)
(* A place by its position in the order in which the catalogue is indexed.  *)
Place(p) == 4 * p[1] + p[2]

LEMMA LastPlace ==
  ASSUME NEW f, NEW n \in Nat, DOMAIN f = 1..n, NEW S, S \subseteq Adr!Places(f), S # {}
  PROVE  \E p \in S : \A q \in S : q = p \/ Adr!Before(q, p)
<1> DEFINE T == {4 * n + 3 - Place(p) : p \in S}
<1>1. \A p \in S : p = <<p[1], p[2]>> /\ p[1] \in 1..n /\ p[2] \in 1..3
  BY DEF Adr!Places
<1>2. \A p \in S : Place(p) \in Nat /\ 4 * n + 3 - Place(p) \in Nat
  BY <1>1, SMTT(25) DEF Place
<1>3. T \subseteq Nat /\ T # {}
  BY <1>2
<1>4. PICK t \in T : \A s \in T : t <= s
  <2> HIDE DEF T
  <2> QED BY <1>3, Smallest
<1>5. PICK p \in S : t = 4 * n + 3 - Place(p)
  BY <1>4
<1>6. ASSUME NEW q \in S
      PROVE  q = p \/ Adr!Before(q, p)
  <2>1. 4 * n + 3 - Place(q) \in T
    OBVIOUS
  <2>2. Place(q) <= Place(p)
    <3>1. 4 * n + 3 - Place(p) <= 4 * n + 3 - Place(q)
      BY <1>4, <1>5, <2>1
    <3>2. Place(p) \in Nat /\ Place(q) \in Nat
      BY <1>2
    <3> HIDE DEF T
    <3> QED BY <3>1, <3>2
  <2>3. p = <<p[1], p[2]>> /\ q = <<q[1], q[2]>> /\ p[1] \in Nat /\ q[1] \in Nat /\ p[2] \in 1..3 /\ q[2] \in 1..3
    BY <1>1
  <2>4. 4 * q[1] + q[2] <= 4 * p[1] + p[2]
    BY <2>2 DEF Place
  <2>5. q[1] < p[1] \/ (q[1] = p[1] /\ q[2] <= p[2])
    <3> HIDE DEF T
    <3> QED BY <2>3, <2>4
  <2> QED BY <2>3, <2>5 DEF Adr!Before
<1> QED BY <1>6

(* ------------------------------ the answer ------------------------------ *)
Post(a) == IF a.postal = Adr!Nothing THEN Adr!Nothing ELSE Adr!ByCode(a.postal)
Listed(a) == IF a.province = Adr!Nothing THEN Adr!Nothing ELSE Adr!ByName(a.province)
Code(a) == IF Post(a) > 0 THEN Post(a) ELSE Listed(a)
Keys(f, a) == {k \in Adr!MunicipalityKeys(a.town) : Adr!Named(f, Code(a), k) # {}}
Key(f, a) == CHOOSE k \in Keys(f, a) : \A l \in Keys(f, a) : Adr!Rank(a.town, k) <= Adr!Rank(a.town, l)

LEMMA Resolved ==
  ASSUME NEW f, NEW a, Adr!Resolve(f, a).status = "RESOLVED"
  PROVE  /\ ~Adr!Disagree(Post(a), Listed(a)) /\ ~(Code(a) <= 0) /\ ~Adr!Disagree(a.comunidad, Adr!ComunidadOf[Code(a)])
         /\ Keys(f, a) # {} /\ Adr!Resolve(f, a).province = Code(a)
         /\ Adr!Resolve(f, a).partido = f[Adr!Entry(f, Code(a), Key(f, a))[1]].name
<1> DEFINE com == Adr!ComunidadOf[Code(a)]
           place == Adr!Entry(f, Code(a), Key(f, a))
           found == [status |-> "RESOLVED", why |-> "", province |-> Code(a), comunidad |-> com,
                     partido |-> f[place[1]].name, town |-> f[place[1]].towns[place[2]]]
<1>1. Adr!Resolve(f, a) =
        IF Adr!Disagree(Post(a), Listed(a)) THEN Adr!Unresolved("PROVINCE_CONFLICT", 0, 0)
        ELSE IF Code(a) <= 0 THEN Adr!Unresolved("PROVINCE_UNKNOWN", 0, 0)
        ELSE IF Adr!Disagree(a.comunidad, com) THEN Adr!Unresolved("COMUNIDAD_CONFLICT", Code(a), com)
        ELSE IF a.town = <<>> THEN Adr!Unresolved("LOCALITY_MISSING", Code(a), com)
        ELSE IF f = <<>> THEN Adr!Unresolved("CATALOG_NOT_LOADED", Code(a), com)
        ELSE IF Keys(f, a) = {} THEN Adr!Unresolved("MUNICIPALITY_NOT_IN_CATALOG", Code(a), com)
        ELSE found
  BY Zenon DEF Adr!Resolve, Post, Listed, Code, Keys, Key
<1>2. \A why, code, c : Adr!Unresolved(why, code, c).status # "RESOLVED"
  BY DEF Adr!Unresolved
<1>3. found.province = Code(a) /\ found.partido = f[place[1]].name
  OBVIOUS
<1> HIDE DEF found, com, place
<1>4. /\ ~Adr!Disagree(Post(a), Listed(a)) /\ ~(Code(a) <= 0) /\ ~Adr!Disagree(a.comunidad, com)
      /\ Keys(f, a) # {} /\ Adr!Resolve(f, a) = found
  BY <1>1, <1>2
<1> QED BY <1>3, <1>4 DEF com, place

(* Two spellings of a name that rank the same are one spelling.             *)
LEMMA RankTells ==
  ASSUME NEW r, NEW k \in Adr!MunicipalityKeys(r), NEW l \in Adr!MunicipalityKeys(r), Adr!Rank(r, k) = Adr!Rank(r, l)
  PROVE  k = l
<1>1. \A s : \A x, y \in Adr!Moved(s) : x = y
  BY DEF Adr!Moved
<1>2. \A x \in Adr!MunicipalityKeys(r) : \/ x = Adr!Words(r) \/ x = Adr!Words(Adr!Bare(r))
                                     \/ x \in Adr!Moved(r) \/ x \in Adr!Moved(Adr!Bare(r))
  BY Zenon DEF Adr!MunicipalityKeys
<1> QED BY <1>1, <1>2 DEF Adr!Rank

LEMMA Spelling ==
  ASSUME NEW f, NEW a, Keys(f, a) # {}, NEW k \in Adr!Deciding(f, Code(a), a.town)
  PROVE  k = Key(f, a) /\ k \in Keys(f, a)
<1>1. Keys(f, a) \subseteq Adr!MunicipalityKeys(a.town)
  BY DEF Keys
<1>2. \E l \in Keys(f, a) : \A m \in Keys(f, a) : Adr!Rank(a.town, l) <= Adr!Rank(a.town, m)
  BY <1>1, FirstRank
<1>3. Key(f, a) \in Keys(f, a) /\ \A m \in Keys(f, a) : Adr!Rank(a.town, Key(f, a)) <= Adr!Rank(a.town, m)
  BY <1>2, Zenon DEF Key
<1>4. k \in Keys(f, a) /\ \A m \in Keys(f, a) : Adr!Rank(a.town, k) <= Adr!Rank(a.town, m)
  BY Zenon DEF Adr!Deciding, Keys
<1>5. \A m : Adr!Rank(a.town, m) \in Nat
  BY DEF Adr!Rank
<1>6. Adr!Rank(a.town, k) = Adr!Rank(a.town, Key(f, a))
  BY <1>3, <1>4, <1>5
<1> QED BY <1>1, <1>3, <1>4, <1>6, RankTells

LEMMA OnePartido ==
  ASSUME NEW f, NEW n \in Nat, DOMAIN f = 1..n, Adr!FromCatalog(f), NEW code, NEW k, Adr!Named(f, code, k) # {}
  PROVE  {f[p[1]].name : p \in Adr!Named(f, code, k)} = {f[Adr!Entry(f, code, k)[1]].name}
<1>1. Adr!Named(f, code, k) \subseteq Adr!Places(f)
  BY DEF Adr!Named
<1>2. \E p \in Adr!Named(f, code, k) : \A q \in Adr!Named(f, code, k) : q = p \/ Adr!Before(q, p)
  BY <1>1, LastPlace
<1>3. Adr!Entry(f, code, k) \in Adr!Named(f, code, k)
  BY <1>2, Zenon DEF Adr!Entry
<1>4. \A p, q \in Adr!Named(f, code, k) : f[p[1]].name = f[q[1]].name
  <2> SUFFICES ASSUME NEW p \in Adr!Named(f, code, k), NEW q \in Adr!Named(f, code, k)
               PROVE  f[p[1]].name = f[q[1]].name
    OBVIOUS
  <2>1. /\ p \in Adr!Places(f) /\ q \in Adr!Places(f) /\ f[p[1]].province = f[q[1]].province
        /\ k \in Adr!MunicipalityKeys(f[p[1]].towns[p[2]]) \cap Adr!MunicipalityKeys(f[q[1]].towns[q[2]])
    BY Zenon DEF Adr!Named, Adr!Has
  <2>2. ~Adr!Conflict(f, p, q)
    BY <2>1, Zenon DEF Adr!FromCatalog
  <2> QED BY <2>2 DEF Adr!Conflict
<1> QED BY <1>3, <1>4

(* What a shown answer g says is true of the catalogue f and the address a. *)
Stands(f, a, g) ==
  /\ \A k \in Adr!Deciding(f, g.province, a.town) :
       {f[p[1]].name : p \in Adr!Named(f, g.province, k)} = {g.partido}
  /\ \A c \in {a.postal, a.province} \cap DOMAIN Adr!ComunidadOf : c = g.province
  /\ a.comunidad \in Adr!Comunidades => a.comunidad = Adr!ComunidadOf[g.province]

LEMMA ResolvedWell ==
  ASSUME NEW f, NEW n \in Nat, DOMAIN f = 1..n, Adr!FromCatalog(f), NEW a, Adr!Resolve(f, a).status = "RESOLVED"
  PROVE  Stands(f, a, Adr!Resolve(f, a))
<1> DEFINE g == Adr!Resolve(f, a)
<1>1. /\ ~Adr!Disagree(Post(a), Listed(a)) /\ ~(Code(a) <= 0) /\ ~Adr!Disagree(a.comunidad, Adr!ComunidadOf[Code(a)])
      /\ Keys(f, a) # {} /\ g.province = Code(a) /\ g.partido = f[Adr!Entry(f, Code(a), Key(f, a))[1]].name
  BY Resolved
<1> HIDE DEF g
<1>2. ASSUME NEW k \in Adr!Deciding(f, g.province, a.town)
      PROVE  {f[p[1]].name : p \in Adr!Named(f, g.province, k)} = {g.partido}
  <2>1. k \in Adr!Deciding(f, Code(a), a.town)
    BY <1>1, <1>2
  <2>2. k = Key(f, a) /\ k \in Keys(f, a)
    BY <1>1, <2>1, Spelling
  <2>3. Adr!Named(f, Code(a), k) # {}
    BY <2>2 DEF Keys
  <2>4. {f[p[1]].name : p \in Adr!Named(f, Code(a), k)} = {f[Adr!Entry(f, Code(a), k)[1]].name}
    BY <2>3, OnePartido
  <2> QED BY <1>1, <2>2, <2>4
<1>3. Post(a) \in Int /\ Listed(a) \in Int /\ Code(a) \in 1..52
  <2>1. \A c : Adr!ByCode(c) \in Int /\ Adr!ByName(c) \in Int /\ (Adr!ByCode(c) > 0 => Adr!ByCode(c) \in 1..52)
               /\ (Adr!ByName(c) > 0 => Adr!ByName(c) \in 1..52)
    <3>1. \A c \in 1..52 : Adr!ByCode(c) = c /\ Adr!ByName(c) = c
      BY Codes DEF Adr!ByCode, Adr!ByName
    <3>2. \A c : c \notin 1..52 => Adr!ByCode(c) = -1 /\ Adr!ByName(c) = -1
      BY Codes DEF Adr!ByCode, Adr!ByName, Adr!Unknown
    <3>3. -1 \in Int /\ ~(-1 > 0) /\ 1..52 \subseteq Int
      OBVIOUS
    <3> QED BY <3>1, <3>2, <3>3
  <2>2. Post(a) \in Int /\ (Post(a) > 0 => Post(a) \in 1..52)
    BY <2>1 DEF Post, Adr!Nothing
  <2>3. Listed(a) \in Int /\ (Listed(a) > 0 => Listed(a) \in 1..52)
    BY <2>1 DEF Listed, Adr!Nothing
  <2>4. Code(a) \in Int /\ (Code(a) > 0 => Code(a) \in 1..52)
    BY <2>2, <2>3 DEF Code
  <2>5. Code(a) > 0
    BY <1>1, <2>4
  <2> QED BY <2>2, <2>3, <2>4, <2>5
<1>4. ASSUME NEW c \in {a.postal, a.province} \cap DOMAIN Adr!ComunidadOf
      PROVE  c = g.province
  <2>1. c \in 1..52
    BY Codes
  <2>2. c = a.postal => Post(a) = c
    BY <2>1, Codes DEF Post, Adr!ByCode, Adr!Nothing
  <2>3. c = a.province => Listed(a) = c
    BY <2>1, Codes DEF Listed, Adr!ByName, Adr!Nothing
  <2> QED BY <1>1, <1>3, <2>1, <2>2, <2>3 DEF Adr!Disagree, Code
<1>5. ASSUME a.comunidad \in Adr!Comunidades PROVE a.comunidad = Adr!ComunidadOf[g.province]
  <2>1. Adr!ComunidadOf[Code(a)] \in 1..19
    BY <1>3, Codes
  <2>2. a.comunidad \in 1..19
    BY <1>5 DEF Adr!Comunidades
  <2>3. ~Adr!Disagree(a.comunidad, Adr!ComunidadOf[Code(a)])
    BY <1>1
  <2>4. a.comunidad = Adr!ComunidadOf[Code(a)]
    BY <2>1, <2>2, <2>3, SMTT(25) DEF Adr!Disagree
  <2> QED BY <1>1, <2>4
<1> QED BY <1>2, <1>4, <1>5 DEF g, Stands

(* ------------------------------ the request ----------------------------- *)
(* The answer is what the files say, and no file or record changes.         *)
AskInv ==
  /\ \E n \in Nat : DOMAIN catalogue = 1..n
  /\ ask = [phase |-> ask.phase, version |-> ask.version, address |-> ask.address, file |-> ask.file,
            answer |-> ask.answer]
  /\ ask.phase \in {"check", "answered"} =>
       ask.file = catalogue /\ Adr!FromCatalog(catalogue) /\ ask.answer = Adr!Resolve(catalogue, ask.address)

LEMMA AskInit == Catalogues /\ Adr!Init => AskInv
<1> SUFFICES ASSUME Catalogues, Adr!Init PROVE AskInv
  OBVIOUS
<1>1. \E n \in Nat : DOMAIN catalogue = 1..n
  BY DEF Adr!Init, Catalogues
<1> QED BY <1>1 DEF Adr!Init, Adr!Asked, AskInv

LEMMA AskStep == AskInv /\ [Adr!Next]_(Adr!vars) => AskInv'
<1> SUFFICES ASSUME AskInv, [Adr!Next]_(Adr!vars) PROVE AskInv'
  OBVIOUS
<1>1. CASE Adr!Request
  BY <1>1 DEF Adr!Request, Adr!Goes, Adr!Asked, AskInv
<1>2. CASE Adr!GetVerifiedAddress
  BY <1>2 DEF Adr!GetVerifiedAddress, Adr!Goes, Adr!To, AskInv
<1>3. CASE Adr!LoadCatalogue
  BY <1>3 DEF Adr!LoadCatalogue, Adr!Goes, Adr!To, AskInv
<1>4. CASE Adr!Check
  BY <1>4 DEF Adr!Check, Adr!Goes, Adr!To, AskInv
<1>5. CASE Adr!CaseMoves \/ UNCHANGED Adr!vars
  BY <1>5 DEF Adr!CaseMoves, Adr!vars, AskInv
<1> QED BY <1>1, <1>2, <1>3, <1>4, <1>5 DEF Adr!Next

LEMMA AskEnough == AskInv => Adr!NeverGuesses
<1> SUFFICES ASSUME AskInv, ask.phase = "answered", ask.answer.status = "RESOLVED" PROVE Adr!NeverGuesses
  BY DEF Adr!NeverGuesses
<1>1. Adr!FromCatalog(ask.file) /\ ask.answer = Adr!Resolve(ask.file, ask.address)
  BY DEF AskInv
<1>2. PICK n \in Nat : DOMAIN ask.file = 1..n
  BY DEF AskInv
<1> HIDE DEF AskInv
<1>3. Stands(ask.file, ask.address, ask.answer)
  BY <1>1, <1>2, ResolvedWell
<1> QED BY <1>3, Zenon DEF Adr!NeverGuesses, Stands

(* Whatever the order of the catalogue and the fields of the address, a     *)
(* district that is shown is the one that every entry under the deciding    *)
(* spelling names, and no field contradicts it (geo-normalizer.ts).         *)
THEOREM NoGuess == Catalogues /\ Adr!Spec => []Adr!NeverGuesses
<1> QED BY AskInit, AskStep, AskEnough, PTL DEF Adr!Spec, Catalogues

LEMMA FreshStep == Adr!Next => Adr!ShowsFresh
<1> SUFFICES ASSUME Adr!Next, ask.phase = "check", ask'.phase = "answered" PROVE ask.version = version
  BY DEF Adr!ShowsFresh
<1>1. CASE Adr!Check
  BY <1>1 DEF Adr!Check, Adr!Goes, Adr!To, Adr!Fresh
<1>2. CASE Adr!Request \/ Adr!GetVerifiedAddress \/ Adr!LoadCatalogue \/ Adr!CaseMoves
  BY <1>2 DEF Adr!Request, Adr!GetVerifiedAddress, Adr!LoadCatalogue, Adr!CaseMoves
<1> QED BY <1>1, <1>2 DEF Adr!Next

(* ---- the audit of a document ---- *)
(* --------------------------- where a phrase is --------------------------- *)
LEMMA Widths == \A p : Pdf!Width(p) \in Nat /\ Pdf!Width(p) >= 2 /\ (p = "no" => Pdf!Width(p) = 2)
  BY DEF Pdf!Width

(* The offsets of a text exist up to every place, so they are what the      *)
(* definition says.                                                        *)
Counts(text, n, offset) ==
  offset = [k \in 1..n |-> IF k = 1 THEN 0 ELSE offset[k - 1] + Pdf!Width(text[k - 1]) + 1]
LEMMA CountsExist ==
  ASSUME NEW text, NEW n \in Nat
  PROVE  \E offset : Counts(text, n, offset)
<1> DEFINE Bad == {m \in Nat : ~\E offset : Counts(text, m, offset)}
<1>1. 0 \notin Bad
  <2>1. Counts(text, 0, <<>>)
    BY DEF Counts
  <2> QED BY <2>1
<1>2. ASSUME NEW m \in Nat, m \notin Bad PROVE m + 1 \notin Bad
  <2>1. PICK offset : Counts(text, m, offset)
    BY <1>2
  <2> DEFINE new == [k \in 1..m + 1 |-> IF k <= m THEN offset[k] ELSE
                       IF k = 1 THEN 0 ELSE offset[k - 1] + Pdf!Width(text[k - 1]) + 1]
  <2>2. ASSUME NEW k \in 1..m + 1
        PROVE  new[k] = IF k = 1 THEN 0 ELSE new[k - 1] + Pdf!Width(text[k - 1]) + 1
    <3>1. CASE k <= m
      <4>1. k \in 1..m /\ new[k] = offset[k] /\ (k # 1 => k - 1 \in 1..m + 1 /\ new[k - 1] = offset[k - 1])
        BY <3>1
      <4>2. offset[k] = IF k = 1 THEN 0 ELSE offset[k - 1] + Pdf!Width(text[k - 1]) + 1
        BY <2>1, <4>1 DEF Counts
      <4> QED BY <4>1, <4>2
    <3>2. CASE ~(k <= m)
      <4>1. k = m + 1 /\ (k # 1 => k - 1 \in 1..m + 1 /\ k - 1 <= m)
        BY <3>2
      <4> QED BY <3>2, <4>1
    <3> QED BY <3>1, <3>2
  <2>3. Counts(text, m + 1, new)
    <3> HIDE DEF new
    <3>1. DOMAIN new = 1..m + 1 /\ new = [k \in 1..m + 1 |-> new[k]]
      BY DEF new
    <3> QED BY <2>2, <3>1 DEF Counts
  <2> QED BY <2>3
<1>3. Bad = {}
  <2> SUFFICES ASSUME Bad # {} PROVE FALSE
    OBVIOUS
  <2>1. PICK m \in Bad : \A k \in Bad : m <= k
    <3> HIDE DEF Bad
    <3>1. Bad \subseteq Nat
      BY DEF Bad
    <3> QED BY <3>1, Smallest
  <2>2. m # 0 /\ m - 1 \in Nat /\ m - 1 \notin Bad
    <3>1. m \in Nat /\ m # 0
      BY <1>1, <2>1
    <3>2. m - 1 \in Nat /\ ~(m <= m - 1)
      BY <3>1
    <3> QED BY <2>1, <3>1, <3>2
  <2>3. (m - 1) + 1 = m
    BY <2>2
  <2> HIDE DEF Bad
  <2> QED BY <1>2, <2>1, <2>2, <2>3
<1> QED BY <1>3

LEMMA Offsets ==
  ASSUME NEW P, NEW text \in Seq(P)
  PROVE  /\ Pdf!At(text, 1) = 0
         /\ \A k \in 1..Len(text) : Pdf!At(text, k + 1) = Pdf!At(text, k) + Pdf!Width(text[k]) + 1
<1> DEFINE n == Len(text) + 1
           Ok(f) == f = [k \in 1..n |-> IF k = 1 THEN 0 ELSE f[k - 1] + Pdf!Width(text[k - 1]) + 1]
           offset == CHOOSE f : Ok(f)
<1>1. n \in Nat /\ 1 \in 1..n
  OBVIOUS
<1>2. Ok(offset)
  <2>1. \E f : Ok(f)
    <3>1. PICK f : Counts(text, n, f)
      BY <1>1, CountsExist
    <3>2. Ok(f)
      BY <3>1 DEF Counts
    <3> QED BY <3>2
  <2> HIDE DEF Ok
  <2> QED BY <2>1
<1>3. \A i : Pdf!At(text, i) = offset[i]
  BY DEF Pdf!At
<1>4. offset[1] = 0
  <2> HIDE DEF offset
  <2> QED BY <1>1, <1>2
<1>5. ASSUME NEW k \in 1..Len(text) PROVE offset[k + 1] = offset[k] + Pdf!Width(text[k]) + 1
  <2>1. k + 1 \in 1..n /\ k + 1 # 1 /\ (k + 1) - 1 = k
    OBVIOUS
  <2> HIDE DEF n, offset
  <2> QED BY <1>2, <2>1
<1> HIDE DEF offset
<1> QED BY <1>3, <1>4, <1>5

(* A phrase begins where the one before it has ended, with a space between. *)
LEMMA AtGrows ==
  ASSUME NEW P, NEW text \in Seq(P), NEW i \in 1..Len(text) + 1
  PROVE  /\ Pdf!At(text, i) \in Nat
         /\ \A j \in 1..i - 1 : Pdf!At(text, j) \in Nat
                                 /\ Pdf!At(text, j) + Pdf!Width(text[j]) + 1 <= Pdf!At(text, i)
<1> DEFINE offset(k) == Pdf!At(text, k)
           Fine(k) == /\ offset(k) \in Nat
                      /\ \A j \in 1..k - 1 : offset(j) \in Nat /\ offset(j) + Pdf!Width(text[j]) + 1 <= offset(k)
           Bad == {k \in 1..Len(text) + 1 : ~Fine(k)}
<1>1. Len(text) \in Nat
  OBVIOUS
<1>2. offset(1) = 0 /\ \A k \in 1..Len(text) : offset(k + 1) = offset(k) + Pdf!Width(text[k]) + 1
  BY Offsets
<1>3. \A k \in 1..Len(text) : Pdf!Width(text[k]) \in Nat /\ Pdf!Width(text[k]) >= 2
  BY Widths
<1> HIDE DEF offset
<1>4. Bad = {}
  <2> SUFFICES ASSUME Bad # {} PROVE FALSE
    OBVIOUS
  <2>1. PICK k \in Bad : \A m \in Bad : k <= m
    <3> HIDE DEF Bad
    <3>1. Bad \subseteq Nat
      BY <1>1 DEF Bad
    <3> QED BY <3>1, Smallest
  <2>2. k \in 1..Len(text) + 1 /\ ~Fine(k)
    BY <2>1
  <2>3. CASE k = 1
    <3>1. Fine(1)
      BY <1>2
    <3> QED BY <2>2, <2>3, <3>1
  <2>4. CASE k # 1
    <3>1. k - 1 \in 1..Len(text) /\ k - 1 \in 1..Len(text) + 1 /\ (k - 1) + 1 = k /\ ~(k <= k - 1)
      BY <1>1, <2>2, <2>4
    <3>2. Fine(k - 1)
      BY <2>1, <3>1
    <3>3. offset(k) = offset(k - 1) + Pdf!Width(text[k - 1]) + 1
      BY <1>2, <3>1
    <3>4. Pdf!Width(text[k - 1]) \in Nat
      BY <1>3, <3>1
    <3>5. ASSUME NEW j \in 1..k - 1 
          PROVE  offset(j) \in Nat /\ offset(j) + Pdf!Width(text[j]) + 1 <= offset(k)
      <4>1. CASE j = k - 1
        BY <3>2, <3>3, <3>4, <4>1
      <4>2. CASE j # k - 1
        <5>1. j \in 1..(k - 1) - 1 /\ j \in 1..Len(text)
          BY <3>1, <4>2, <1>1
        <5>2. offset(j) \in Nat /\ offset(j) + Pdf!Width(text[j]) + 1 <= offset(k - 1) /\ offset(k - 1) \in Nat
          BY <3>2, <5>1
        <5>3. Pdf!Width(text[j]) \in Nat
          BY <1>3, <5>1
        <5> QED BY <3>3, <3>4, <5>2, <5>3
      <4> QED BY <4>1, <4>2
    <3>6. offset(k) \in Nat
      BY <3>2, <3>3, <3>4
    <3> QED BY <2>2, <3>5, <3>6
  <2> QED BY <2>3, <2>4
<1>5. Fine(i)
  BY <1>4
<1> QED BY <1>5 DEF offset

(* ------------------------- the powers and the name ----------------------- *)
LEMMA PlacesOfMentions ==
  ASSUME NEW phrase, NEW m \in Pdf!MentionsIn(phrase)
  PROVE  /\ m[2] \in Nat
         /\ m = <<"pleitos", 14>> => <<"pleitos", 0>> \in Pdf!MentionsIn(phrase)
BY DEF Pdf!MentionsIn

LEMMA Heard ==
  ASSUME NEW P, doc.text \in Seq(P)
  PROVE  Pdf!NegationIsHeard
<1> DEFINE text == doc.text
<1> SUFFICES ASSUME NEW p \in Pdf!RequiredPowers,
                    \A i \in DOMAIN text : \A m \in Pdf!MentionsIn(text[i]) :
                      m[1] = p /\ m # <<"pleitos", 14>> =>
                        \E j \in 1..i - 1 :
                          text[j] = "no" /\ Pdf!At(text, i) + m[2] - Pdf!At(text, j) <= 34
             PROVE  p \in Pdf!Missing(text)
  BY DEF Pdf!NegationIsHeard
<1> HIDE DEF text
<1>1. text \in Seq(P) /\ DOMAIN text = 1..Len(text) /\ Len(text) \in Nat
  BY DEF text
<1>2. ASSUME NEW i \in DOMAIN text, NEW m \in Pdf!MentionsIn(text[i]), m[1] = p
      PROVE  Pdf!IsNegatedAt(text, Pdf!At(text, i) + m[2])
  <2>1. PICK j \in 1..i - 1 : text[j] = "no" /\ Pdf!At(text, i) + m[2] - Pdf!At(text, j) <= 48
    <3>1. CASE m # <<"pleitos", 14>>
      <4>1. PICK j \in 1..i - 1 : text[j] = "no" /\ Pdf!At(text, i) + m[2] - Pdf!At(text, j) <= 34
        BY <1>2, <3>1
      <4>2. Pdf!At(text, i) \in Nat /\ Pdf!At(text, j) \in Nat /\ m[2] \in Nat
        BY <1>1, AtGrows, PlacesOfMentions
      <4>3. Pdf!At(text, i) + m[2] - Pdf!At(text, j) <= 48
        BY <4>1, <4>2
      <4> QED BY <4>1, <4>3
    <3>2. CASE m = <<"pleitos", 14>>
      <4> DEFINE first == <<"pleitos", 0>>
      <4>1. first \in Pdf!MentionsIn(text[i]) /\ first[1] = p /\ first # <<"pleitos", 14>>
            /\ first[2] = 0 /\ m[2] = 14
        BY <1>2, <3>2, PlacesOfMentions
      <4> HIDE DEF first
      <4>2. PICK j \in 1..i - 1 : text[j] = "no" /\ Pdf!At(text, i) + first[2] - Pdf!At(text, j) <= 34
        BY <4>1
      <4>3. Pdf!At(text, i) \in Nat /\ Pdf!At(text, j) \in Nat
        BY <1>1, AtGrows
      <4>4. Pdf!At(text, i) + m[2] - Pdf!At(text, j) <= 48
        BY <4>1, <4>2, <4>3
      <4> QED BY <4>2, <4>4
    <3> QED BY <3>1, <3>2
  <2>2. j \in DOMAIN text /\ i \in 1..Len(text) + 1
    BY <1>1
  <2>3. Pdf!At(text, i) \in Nat /\ Pdf!At(text, j) \in Nat
        /\ Pdf!At(text, j) + Pdf!Width(text[j]) + 1 <= Pdf!At(text, i)
    BY <1>1, <2>2, AtGrows
  <2>4. Pdf!Width(text[j]) = 2 /\ m[2] \in Nat
    BY <2>1, Widths, PlacesOfMentions
  <2>5. Pdf!At(text, j) >= (Pdf!At(text, i) + m[2]) - 48 /\ Pdf!At(text, j) + 2 <= Pdf!At(text, i) + m[2]
    BY <2>1, <2>3, <2>4
  <2> QED BY <2>1, <2>2, <2>5 DEF Pdf!IsNegatedAt, Pdf!NegationWindow
<1>3. ASSUME NEW index \in Pdf!Mentions(text, p)
      PROVE  Pdf!IsNegatedAt(text, index)
  <2>1. PICK i \in DOMAIN text : 
          \E m \in Pdf!MentionsIn(text[i]) : m[1] = p /\ index = Pdf!At(text, i) + m[2]
    BY DEF Pdf!Mentions
  <2> QED BY <1>2, <2>1
<1> QED BY <1>3 DEF Pdf!Missing, Pdf!Present

LEMMA NameIsFound ==
  ASSUME NEW P, doc.text \in Seq(P), IsFiniteSet(doc.airam)
  PROVE  Pdf!NameIsWhole
<1> DEFINE text == doc.text
           name == doc.airam
           c == Cardinality(name)
<1>1. c \in Nat /\ (name = {} => c = 0)
  BY FS_CardinalityType, FS_EmptySet
<1>2. DOMAIN text \subseteq Nat
  OBVIOUS
<1>3. ASSUME c >= 2, NEW i \in DOMAIN text, text[i] \in name,
             \A n \in name : \E j \in i..i + (c + 3) - 1 : j \in DOMAIN text /\ text[j] = n
      PROVE  \E s \in SUBSET (DOMAIN text) :
               /\ \A a, b \in s : a - b < c + 3
               /\ name \subseteq {text[k] : k \in s}
  <2> DEFINE s == {j \in i..i + (c + 3) - 1 : j \in DOMAIN text}
  <2> HIDE DEF c
  <2>1. \A a, b \in s : a - b < c + 3
    BY <1>1, <1>2
  <2>2. name \subseteq {text[k] : k \in s}
    BY <1>3
  <2> QED BY <2>1, <2>2
<1>4. ASSUME c >= 2, NEW s \in SUBSET (DOMAIN text), \A a, b \in s : a - b < c + 3,
             name \subseteq {text[k] : k \in s}
      PROVE  \E i \in DOMAIN text :
               /\ text[i] \in name
               /\ \A n \in name : \E j \in i..i + (c + 3) - 1 : j \in DOMAIN text /\ text[j] = n
  <2> DEFINE own == {k \in s : text[k] \in name}
  <2>1. name # {}
    BY <1>1, <1>4
  <2>2. own # {} /\ own \subseteq Nat
    BY <1>2, <1>4, <2>1
  <2>3. PICK i \in own : \A k \in own : i <= k
    <3> HIDE DEF own
    <3> QED BY <2>2, Smallest
  <2>4. ASSUME NEW n \in name
        PROVE  \E j \in i..i + (c + 3) - 1 : j \in DOMAIN text /\ text[j] = n
    <3>1. PICK j \in s : text[j] = n
      BY <1>4
    <3>2. j \in own /\ j \in DOMAIN text
      BY <1>4, <3>1
    <3> HIDE DEF c, text, name
    <3>3. i \in Nat /\ j \in Nat /\ i <= j /\ j - i < c + 3
      BY <1>4, <2>2, <2>3, <3>2
    <3>4. j \in i..i + (c + 3) - 1
      BY <1>1, <3>3
    <3> QED BY <3>1, <3>2, <3>4
  <2> HIDE DEF c
  <2> QED BY <1>4, <2>3, <2>4
<1>5. Pdf!Cardinality(name) = c
  BY DEF Pdf!Cardinality, Cardinality
<1>6. Pdf!MatchesFullName(text, name) <=>
        /\ c >= 2
        /\ \E i \in DOMAIN text :
             /\ text[i] \in name
             /\ \A n \in name : \E j \in i..i + (c + 3) - 1 : j \in DOMAIN text /\ text[j] = n
  <2> HIDE DEF c, text, name
  <2> QED BY <1>5 DEF Pdf!MatchesFullName, Pdf!Window
<1>7. Pdf!NameIsWhole <=>
        (Pdf!MatchesFullName(text, name) <=>
           /\ c >= 2
           /\ \E s \in SUBSET (DOMAIN text) :
                /\ \A a, b \in s : a - b < c + 3
                /\ name \subseteq {text[k] : k \in s})
  BY <1>5 DEF Pdf!NameIsWhole
<1> HIDE DEF c, text, name
<1> QED BY <1>3, <1>4, <1>6, <1>7

(* ------------------------------ the letter ------------------------------- *)
(* 23 is prime and divides neither a change of one digit nor a power of 10. *)
LEMMA OneDigitShows ==
  ASSUME NEW n \in Int, NEW d \in -9..9, d # 0, NEW k \in 1..8
  PROVE  (n + d * Pdf!Places[k]) % 23 # n % 23
<1>1. CASE k = 1
  BY <1>1 DEF Pdf!Places
<1>2. CASE k = 2
  BY <1>2 DEF Pdf!Places
<1>3. CASE k = 3
  BY <1>3 DEF Pdf!Places
<1>4. CASE k = 4
  BY <1>4 DEF Pdf!Places
<1>5. CASE k = 5
  BY <1>5 DEF Pdf!Places
<1>6. CASE k = 6
  BY <1>6 DEF Pdf!Places
<1>7. CASE k = 7
  BY <1>7 DEF Pdf!Places
<1>8. CASE k = 8
  BY <1>8 DEF Pdf!Places
<1> QED BY <1>1, <1>2, <1>3, <1>4, <1>5, <1>6, <1>7, <1>8

LEMMA TwoDigitsShow ==
  ASSUME NEW n \in Int, NEW d \in -9..9, d # 0, NEW k \in 1..7
  PROVE  (n + d * (Pdf!Places[k + 1] - Pdf!Places[k])) % 23 # n % 23
<1>1. CASE k = 1
  BY <1>1 DEF Pdf!Places
<1>2. CASE k = 2
  BY <1>2 DEF Pdf!Places
<1>3. CASE k = 3
  BY <1>3 DEF Pdf!Places
<1>4. CASE k = 4
  BY <1>4 DEF Pdf!Places
<1>5. CASE k = 5
  BY <1>5 DEF Pdf!Places
<1>6. CASE k = 6
  BY <1>6 DEF Pdf!Places
<1>7. CASE k = 7
  BY <1>7 DEF Pdf!Places
<1> QED BY <1>1, <1>2, <1>3, <1>4, <1>5, <1>6, <1>7

LEMMA DigitsAreDigits ==
  ASSUME NEW n \in Nat, NEW k \in 1..8
  PROVE  Pdf!Digit(n, k) \in 0..9 /\ Pdf!Places[k] \in Nat
<1>1. CASE k = 1
  BY <1>1 DEF Pdf!Places, Pdf!Digit
<1>2. CASE k = 2
  BY <1>2 DEF Pdf!Places, Pdf!Digit
<1>3. CASE k = 3
  BY <1>3 DEF Pdf!Places, Pdf!Digit
<1>4. CASE k = 4
  BY <1>4 DEF Pdf!Places, Pdf!Digit
<1>5. CASE k = 5
  BY <1>5 DEF Pdf!Places, Pdf!Digit
<1>6. CASE k = 6
  BY <1>6 DEF Pdf!Places, Pdf!Digit
<1>7. CASE k = 7
  BY <1>7 DEF Pdf!Places, Pdf!Digit
<1>8. CASE k = 8
  BY <1>8 DEF Pdf!Places, Pdf!Digit
<1> QED BY <1>1, <1>2, <1>3, <1>4, <1>5, <1>6, <1>7, <1>8

LEMMA LettersCatch ==
  ASSUME doc.number \in Nat
  PROVE  Pdf!TyposAreCaught
<1> DEFINE n == doc.number
<1> HIDE DEF n
<1>1. n \in Nat /\ n \in Int
  BY DEF n
<1>2. ASSUME NEW m \in Pdf!Typos(n) PROVE m % 23 # n % 23
  <2>1. PICK k \in 1..8, d \in 0..9 : m = n + (d - Pdf!Digit(n, k)) * Pdf!Places[k]
    BY DEF Pdf!Typos
  <2> DEFINE e == d - Pdf!Digit(n, k)
  <2>2. e \in -9..9
    BY <1>1, DigitsAreDigits
  <2>3. m # n
    BY DEF Pdf!Typos
  <2> HIDE DEF e
  <2>4. m = n + e * Pdf!Places[k]
    BY <2>1 DEF e
  <2>5. e # 0
    <3>1. e = 0 => m = n
      BY <2>4, <1>1, DigitsAreDigits
    <3> QED BY <3>1, <2>3
  <2> QED BY <1>1, <2>2, <2>4, <2>5, OneDigitShows
<1>3. ASSUME NEW m \in Pdf!Swaps(n) PROVE m % 23 # n % 23
  <2>1. PICK k \in 1..7 :
          m = n + (Pdf!Digit(n, k) - Pdf!Digit(n, k + 1)) * (Pdf!Places[k + 1] - Pdf!Places[k])
    BY DEF Pdf!Swaps
  <2> DEFINE e == Pdf!Digit(n, k) - Pdf!Digit(n, k + 1)
             w == Pdf!Places[k + 1] - Pdf!Places[k]
  <2>2. k \in 1..8 /\ k + 1 \in 1..8
    OBVIOUS
  <2>3. Pdf!Digit(n, k) \in 0..9 /\ Pdf!Digit(n, k + 1) \in 0..9 /\ Pdf!Places[k] \in Nat /\ Pdf!Places[k + 1] \in Nat
    BY <1>1, <2>2, DigitsAreDigits
  <2>4. e \in -9..9 /\ w \in Int
    BY <2>3
  <2>5. m # n
    BY DEF Pdf!Swaps
  <2>6. m = n + e * w
    BY <2>1
  <2> HIDE DEF e
  <2>7. e # 0
    <3> HIDE DEF w
    <3>1. e = 0 => m = n
      BY <2>4, <2>6, <1>1
    <3> QED BY <3>1, <2>5
  <2> QED BY <1>1, <2>4, <2>6, <2>7, TwoDigitsShow
<1> QED BY <1>2, <1>3 DEF Pdf!TyposAreCaught, Pdf!ValidDni, Pdf!CheckLetter, n

(* ------------------------------ the verdict ------------------------------ *)
(* A document whose fields are what the parsers give: counts of pages, a    *)
(* text of phrases, the words of a name, a number.                          *)
IsDoc(d) ==
  /\ d.pages \in Nat /\ d.bad \in Nat /\ d.cross \in Int
  /\ \E P : d.text \in Seq(P)
  /\ IsFiniteSet(d.airam) /\ d.number \in Nat
Documents ==
  /\ MaxTextPages \in Nat /\ MaxTextPages >= Pdf!RequiredPageCount
  /\ \A d \in Docs : IsDoc(d)

(* What the runs audit are documents of that kind.                          *)
LEMMA DocumentsOfTheRuns == \A d \in PdfData!AllDocs : IsDoc(d)
<1> DEFINE Doc(d) == /\ d.pages \in Nat /\ d.bad \in Nat /\ d.cross \in Int /\ (\E P : d.text \in Seq(P))
                     /\ IsFiniteSet(d.airam) /\ d.number \in Nat
           G == PdfData!Good
<1>1. IsFiniteSet({}) /\ IsFiniteSet({"airam"}) /\ IsFiniteSet({"airam", "maria"})
  <2>1. IsFiniteSet({}) /\ IsFiniteSet({"airam"}) /\ IsFiniteSet({"maria"})
    BY FS_EmptySet, FS_Singleton
  <2>2. IsFiniteSet({"airam"} \cup {"maria"})
    BY <2>1, FS_Union
  <2>3. {"airam", "maria"} = {"airam"} \cup {"maria"}
    OBVIOUS
  <2> QED BY <2>1, <2>2, <2>3
<1>2. /\ G.pages = 5 /\ G.bad = 0 /\ G.cross = 5 /\ G.airam = {"airam", "maria"} /\ G.number \in Nat
      /\ G.text = PdfData!GoodText
      /\ G = [magic |-> G.magic, size |-> G.size, opens |-> G.opens, bad |-> G.bad, pages |-> G.pages,
              cross |-> G.cross, words |-> G.words, text |-> G.text, ids |-> G.ids,
              expected |-> G.expected, airam |-> G.airam, number |-> G.number]
  BY SMT DEF PdfData!Good
<1>3. PdfData!GoodText \in Seq({"maria", "airam", "general", "allanamiento", "special"})
  BY DEF PdfData!GoodText
<1>4. \A S, n : \A t \in PdfData!Texts(S, n) : \E P : t \in Seq(P)
  <2> TAKE S, n
  <2> TAKE t \in PdfData!Texts(S, n)
  <2>1. PICK k \in 0..n : t \in [1..k -> S]
    BY DEF PdfData!Texts
  <2>2. t \in Seq(S)
    BY <2>1
  <2> QED BY <2>2
<1>5. Doc(G)
  BY <1>1, <1>2, <1>3
<1> HIDE DEF G
<1> DEFINE A(t) == [G EXCEPT !.text = t, !.pages = 1]
           B(p, c, b, i) == [G EXCEPT !.pages = p, !.cross = c, !.bad = b, !.ids = i]
           C(e, a, w) == [G EXCEPT !.expected = e, !.airam = a, !.words = w]
           D(m, z, o) == [G EXCEPT !.magic = m, !.size = z, !.opens = o]
           E(n) == [G EXCEPT !.number = n]
<1>6. ASSUME NEW S, NEW n, NEW t \in PdfData!Texts(S, n)
      PROVE  Doc(A(t))
  <2>1. /\ A(t).text = t /\ A(t).pages = 1 /\ A(t).bad = G.bad /\ A(t).cross = G.cross
        /\ A(t).airam = G.airam /\ A(t).number = G.number
    BY <1>2
  <2>2. \E P : t \in Seq(P)
    BY <1>4
  <2> HIDE DEF A
  <2> QED BY <1>5, <2>1, <2>2
<1>7. ASSUME NEW p \in {0, 4, 5, 6, 7}, NEW c \in {PdfData!Unknown, 5}, NEW b \in {0, 5}, NEW i
      PROVE  Doc(B(p, c, b, i))
  <2> DEFINE d == B(p, c, b, i)
  <2>1. d.text = G.text /\ d.pages = p /\ d.bad = b /\ d.cross = c /\ d.airam = G.airam /\ d.number = G.number
    BY <1>2
  <2>2. p \in Nat /\ b \in Nat /\ c \in Int
    BY DEF PdfData!Unknown
  <2> HIDE DEF B, d
  <2>3. Doc(d)
    BY <1>5, <2>1, <2>2
  <2> QED BY <2>3 DEF d
<1>8. ASSUME NEW e, NEW a, IsFiniteSet(a), NEW w
      PROVE  Doc(C(e, a, w))
  <2> DEFINE d == C(e, a, w)
  <2>1. d.text = G.text /\ d.pages = G.pages /\ d.bad = G.bad /\ d.cross = G.cross /\ d.airam = a /\ d.number = G.number
    BY <1>2
  <2> HIDE DEF C, d
  <2>2. Doc(d)
    BY <1>5, <1>8, <2>1
  <2> QED BY <2>2 DEF d
<1>9. ASSUME NEW m, NEW z, NEW o
      PROVE  Doc(D(m, z, o))
  <2> DEFINE d == D(m, z, o)
  <2>1. d.text = G.text /\ d.pages = G.pages /\ d.bad = G.bad /\ d.cross = G.cross /\ d.airam = G.airam
        /\ d.number = G.number
    BY <1>2
  <2> HIDE DEF D, d
  <2>2. Doc(d)
    BY <1>5, <2>1
  <2> QED BY <2>2 DEF d
<1>10. ASSUME NEW n \in Nat
       PROVE  Doc(E(n))
  <2> DEFINE d == E(n)
  <2>1. d.text = G.text /\ d.pages = G.pages /\ d.bad = G.bad /\ d.cross = G.cross /\ d.airam = G.airam /\ d.number = n
    BY <1>2
  <2> HIDE DEF E, d
  <2>2. Doc(d)
    BY <1>5, <2>1
  <2> QED BY <2>2 DEF d
<1>11. PdfData!AllDocs =
         {A(t) : t \in PdfData!Texts({"no", "molino", "pad", "general", "allanamiento", "special"}, 4)}
           \cup {A(t) : t \in PdfData!Texts({"airam", "maria", "word"}, 6)}
           \cup {B(p, c, b, i) : p \in {0, 4, 5, 6, 7}, c \in {PdfData!Unknown, 5}, b \in {0, 5},
                                 i \in {{}, {"lawyer"}, {"client"}}}
           \cup {C(e, a, w) : e \in {"none", "invalid", "client"}, a \in {{}, {"airam"}, {"airam", "maria"}},
                              w \in BOOLEAN}
           \cup {D(m, z, o) : m \in BOOLEAN, z \in {"fits", "large"}, o \in {"yes", "encrypted", "broken", "never"}}
           \cup {E(n) : n \in {0, 99999999, 10000000, 7654321, 22999977}}
  BY SMT DEF PdfData!AllDocs, G
<1>12. ASSUME NEW d \in PdfData!AllDocs PROVE Doc(d)
  <2> HIDE DEF Doc, A, B, C, D, E
  <2> QED BY <1>1, <1>6, <1>7, <1>8, <1>9, <1>10, <1>11, SMT
<1> QED BY <1>12 DEF IsDoc

(* Every page counted as read is one that can be read, and what is judged   *)
(* has been read to the limit.                                              *)
PdfInv ==
  /\ doc \in Docs
  /\ page \in Nat /\ page <= Pdf!Limit /\ doc.bad \notin 1..page
  /\ step \in {"check", "open", "read", "judge", "done"}
  /\ step = "judge" => page = Pdf!Limit /\ reasons = Pdf!ParserReasons
  /\ step # "done" => report = Pdf!NoReport
  /\ report.status = "VALID_FULL_5_PAGES" =>
       /\ page = 5 /\ doc.bad \notin 1..5 /\ doc.expected \in doc.ids
       /\ ~report.review => doc.cross \in {5, Pdf!Unknown}
  /\ report.canViabilize => page < 5 /\ doc.expected \in doc.ids

LEMMA LimitIsANumber ==
  ASSUME Documents, doc \in Docs
  PROVE  Pdf!Limit \in Nat /\ Pdf!Limit <= doc.pages /\ (doc.pages <= 5 => Pdf!Limit = doc.pages)
BY DEF Documents, IsDoc, Pdf!Limit, Pdf!RequiredPageCount

LEMMA PdfInit ==
  ASSUME Documents, Pdf!Init
  PROVE  PdfInv
<1>1. doc \in Docs /\ doc.bad \in Nat
  BY DEF Pdf!Init, Documents, IsDoc
<1>2. Pdf!Limit \in Nat
  BY <1>1, LimitIsANumber
<1> QED BY <1>1, <1>2 DEF PdfInv, Pdf!Init, Pdf!NoReport

LEMMA GivenUp ==
  ASSUME NEW why, Pdf!Unreadable(why)
  PROVE  step' = "done" /\ report'.status = "UNREADABLE_OR_CORRUPT" /\ report'.canViabilize = FALSE
BY DEF Pdf!Unreadable

LEMMA PdfStep ==
  ASSUME Documents, PdfInv, [Pdf!Next]_Pdf!vars
  PROVE  PdfInv'
<1>1. doc' = doc
  BY DEF Pdf!Next, Pdf!vars, Pdf!Check, Pdf!Open, Pdf!ReadPage, Pdf!TimesOut, Pdf!Extracted, Pdf!Judge
<1>2. Pdf!Limit' = Pdf!Limit
  BY <1>1 DEF Pdf!Limit
<1>3. Pdf!Limit \in Nat /\ Pdf!Limit <= doc.pages /\ (doc.pages <= 5 => Pdf!Limit = doc.pages)
      /\ doc.pages \in Nat /\ doc.bad \in Nat /\ doc.cross \in Int
  BY LimitIsANumber DEF PdfInv, Documents, IsDoc
<1>4. page' \in Nat /\ page' <= Pdf!Limit' /\ doc'.bad \notin 1..page'
  <2>1. page' = page \/ (page < Pdf!Limit /\ page' = page + 1 /\ page + 1 # doc.bad)
    BY DEF Pdf!Next, Pdf!vars, Pdf!Check, Pdf!Open, Pdf!ReadPage, Pdf!TimesOut, Pdf!Extracted, Pdf!Judge
  <2>2. page \in Nat /\ page <= Pdf!Limit /\ doc.bad \notin 1..page
    BY DEF PdfInv
  <2> QED BY <1>1, <1>2, <1>3, <2>1, <2>2
<1>5. CASE \E why : Pdf!Unreadable(why)
  BY <1>1, <1>4, <1>5, GivenUp DEF PdfInv
<1>6. CASE /\ step # "done" /\ step' \in {"open", "read"} /\ report' = report
  BY <1>1, <1>4, <1>6 DEF PdfInv, Pdf!NoReport
<1>7. CASE Pdf!Extracted /\ step' = "judge"
  <2>1. page' = page /\ page = Pdf!Limit /\ step = "read" /\ reasons' = Pdf!ParserReasons
        /\ report' = report
    BY <1>7 DEF Pdf!Extracted, Pdf!Unreadable
  <2>2. Pdf!ParserReasons' = Pdf!ParserReasons
    BY <1>1, <2>1 DEF Pdf!ParserReasons
  <2> QED BY <1>1, <1>2, <1>4, <1>7, <2>1, <2>2 DEF PdfInv, Pdf!NoReport
<1>8. CASE Pdf!Judge
  <2>1. /\ page' = page /\ page = Pdf!Limit /\ step' = "done" /\ reasons \subseteq reasons'
        /\ reasons = Pdf!ParserReasons
    BY <1>8 DEF Pdf!Judge, PdfInv
  <2>2. /\ report'.status = Pdf!Status
        /\ report'.canViabilize <=> Pdf!Status = "DEFECTIVE_WITH_AIRAM" /\ Pdf!IdentityMatches
                                   /\ doc.pages < Pdf!RequiredPageCount
        /\ report'.review <=> Pdf!Status # "VALID_FULL_5_PAGES" \/ reasons' \cap Pdf!Anomalies # {}
    BY <1>8 DEF Pdf!Judge
  <2>3. Pdf!IdentityMatches => doc.expected \in doc.ids
    BY DEF Pdf!IdentityMatches
  <2>4. Pdf!Status = "VALID_FULL_5_PAGES" => doc.pages = 5 /\ Pdf!IdentityMatches
    BY DEF Pdf!Status, Pdf!FivePages, Pdf!RequiredPageCount
  <2>5. ASSUME reasons' \cap Pdf!Anomalies = {}, doc.pages = 5
        PROVE  doc.cross \in {5, Pdf!Unknown}
    <3>1. "PAGE_COUNT_MISMATCH_BETWEEN_PARSERS" \notin Pdf!ParserReasons
      BY <2>1, <2>5 DEF Pdf!Anomalies
    <3> QED BY <2>5, <3>1 DEF Pdf!ParserReasons, Pdf!When
  <2>6. report'.status = "VALID_FULL_5_PAGES" =>
          /\ page' = 5 /\ doc'.bad \notin 1..5 /\ doc'.expected \in doc'.ids
          /\ ~report'.review => doc'.cross \in {5, Pdf!Unknown}
    BY <1>1, <1>3, <1>4, <2>1, <2>2, <2>3, <2>4, <2>5
  <2>7. report'.canViabilize => page' < 5 /\ doc'.expected \in doc'.ids
    BY <1>1, <1>3, <2>1, <2>2, <2>3 DEF Pdf!RequiredPageCount
  <2>8. doc' \in Docs
    BY <1>1 DEF PdfInv
  <2> HIDE DEF Pdf!Status
  <2> QED BY <1>4, <2>1, <2>6, <2>7, <2>8 DEF PdfInv
<1>9. CASE Pdf!ReadPage /\ step' = step
  <2>1. step = "read" /\ report' = report
    BY <1>9 DEF Pdf!ReadPage, Pdf!FailsWith, Pdf!Unreadable
  <2> QED BY <1>1, <1>4, <1>9, <2>1 DEF PdfInv, Pdf!NoReport
<1>10. CASE UNCHANGED Pdf!vars
  <2>1. Pdf!ParserReasons' = Pdf!ParserReasons
    BY <1>10 DEF Pdf!vars, Pdf!ParserReasons
  <2> QED BY <1>2, <1>4, <1>10, <2>1 DEF Pdf!vars, PdfInv
<1> QED
  <2>1. ASSUME Pdf!Check PROVE PdfInv'
    BY <2>1, <1>5, <1>6 DEF Pdf!Check
  <2>2. ASSUME Pdf!Open PROVE PdfInv'
    BY <2>2, <1>5, <1>6 DEF Pdf!Open, Pdf!FailsWith
  <2>3. ASSUME Pdf!ReadPage PROVE PdfInv'
    BY <2>3, <1>5, <1>9 DEF Pdf!ReadPage, Pdf!FailsWith
  <2>4. ASSUME Pdf!TimesOut PROVE PdfInv'
    BY <2>4, <1>5 DEF Pdf!TimesOut, Pdf!FailsWith
  <2>5. ASSUME Pdf!Extracted PROVE PdfInv'
    BY <2>5, <1>5, <1>7 DEF Pdf!Extracted
  <2> QED BY <2>1, <2>2, <2>3, <2>4, <2>5, <1>8, <1>10 DEF Pdf!Next

(* Whatever the documents: a verdict of validity is earned, and a mistyped  *)
(* number never keeps its letter.                                           *)
LEMMA PdfGives ==
  ASSUME Documents, PdfInv
  PROVE  Pdf!VerdictIsEarned /\ Pdf!TyposAreCaught
<1>1. IsDoc(doc)
  BY DEF Documents, PdfInv
<1>2. Pdf!NameIsWhole /\ Pdf!NegationIsHeard /\ Pdf!TyposAreCaught
  BY <1>1, NameIsFound, Heard, LettersCatch DEF IsDoc
<1> QED BY <1>2 DEF PdfInv, Pdf!VerdictIsEarned

THEOREM AuditHolds == Documents /\ Pdf!Spec => [](Pdf!VerdictIsEarned /\ Pdf!TyposAreCaught)
<1> SUFFICES ASSUME Documents
             PROVE  Pdf!Spec => [](Pdf!VerdictIsEarned /\ Pdf!TyposAreCaught)
  OBVIOUS
<1>1. Pdf!Init => PdfInv
  BY PdfInit
<1>2. PdfInv /\ [Pdf!Next]_Pdf!vars => PdfInv'
  BY PdfStep
<1>3. PdfInv => Pdf!VerdictIsEarned /\ Pdf!TyposAreCaught
  BY PdfGives
<1> QED BY <1>1, <1>2, <1>3, PTL DEF Pdf!Spec
================================================================================
