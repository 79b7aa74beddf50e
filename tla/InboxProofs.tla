----------------------------- MODULE InboxProofs -----------------------------
(* That nothing read before a wait is committed when it no longer holds.    *)
(* The inbox: no certificate is lost, and no turn talks over a STOP or a    *)
(* person, for any stories, pages, webhook requests and failures.  Beside   *)
(* it the check of a certificate, which closes phase one only on the case   *)
(* it was loaded from, and the audit jobs of the queue, of which an old one *)
(* never replaces a report, for any uploads, retries and failures; and the  *)
(* decision of a turn, of which a text that no model may read is read by    *)
(* none, every text is answered and words never give a consent.             *)
EXTENDS Inbox, SequenceTheorems, FiniteSetTheorems, WellFoundedInduction, TLAPS

CONSTANTS Uploads, Names, MaxRetries, Attempts, MaxBreaks, MaxOperator, MaxRequests, NoDoc, Inputs
VARIABLES
  upload, step, left, last, seen, file, records, answer,
  effect, report, ready, audit, jobs, inHand, tick, breaks, operator, row,
  text, snapshot, past, conf, moment, tries, reply, turn, readers
Cer == INSTANCE CertCheck WITH case <- file
CerData == INSTANCE MCCertCheck WITH case <- file
Que == INSTANCE DispatchQueue WITH MaxFailures <- MaxBreaks, failures <- breaks
Trn == INSTANCE Turn WITH case <- snapshot, step <- moment, asked <- readers

(* ------------------------------ the oldest ------------------------------ *)
LEMMA Oldest ==
  ASSUME NEW S, S \subseteq Nat, S # {}
  PROVE  Min(S) \in S /\ \A j \in S : Min(S) <= j
<1> DEFINE R == OpToRel(<, Nat)
<1>1. IsWellFoundedOn(R, Nat)
  BY NatLessThanWellFounded
<1>2. \A y, x \in Nat : y < x => <<y, x>> \in R
  BY DEF OpToRel
<1> HIDE DEF R
<1>3. PICK x \in S : \A y \in S : ~(<<y, x>> \in R)
  BY <1>1, WFMin, Zenon
<1>4. ASSUME NEW y \in S
      PROVE  x <= y
  <2>1. x \in Nat /\ y \in Nat /\ ~(y < x)
    BY <1>2, <1>3
  <2> QED BY <2>1
<1> QED BY <1>4, Zenon DEF Min

LEMMA Latest ==
  ASSUME NEW n \in Nat, NEW S, S \subseteq 1..n, S # {}
  PROVE  \E i \in S : \A j \in S : j <= i
<1> DEFINE T == {n - i : i \in S}
<1>1. T \subseteq Nat /\ T # {}
  <2>1. PICK k \in S : TRUE
    OBVIOUS
  <2>2. n - k \in T
    BY <2>1
  <2>3. \A i \in S : n - i \in Nat
    OBVIOUS
  <2> QED BY <2>2, <2>3
<1>2. Min(T) \in T /\ \A t \in T : Min(T) <= t
  <2> HIDE DEF T
  <2> QED BY <1>1, Oldest
<1>3. PICK i \in S : Min(T) = n - i
  BY <1>2
<1>4. ASSUME NEW j \in S
      PROVE  j <= i
  <2>1. n - j \in T
    OBVIOUS
  <2>2. n - i <= n - j
    BY <1>2, <1>3, <2>1
  <2> QED BY <2>2
<1> QED BY <1>4

(* ------------------------------- the rows ------------------------------- *)
LEMMA Rows ==
  ASSUME Shapes
  PROVE  /\ Len(rows) \in Nat /\ DOMAIN rows = 1..Len(rows)
         /\ \A i \in DOMAIN rows : rows[i] \in RowShapes
         /\ Pending \subseteq DOMAIN rows
<1>1. Len(rows) \in Nat /\ DOMAIN rows = 1..Len(rows) /\ \A i \in 1..Len(rows) : rows[i] \in RowShapes
  BY LenProperties DEF Shapes
<1> QED BY <1>1 DEF Pending

(* A step that settles rows, and does nothing else to them. *)
RowsKept ==
  /\ rows' \in Seq(RowShapes) /\ Len(rows') = Len(rows)
  /\ \A i \in DOMAIN rows :
       /\ rows'[i].kind = rows[i].kind /\ rows'[i].type = rows[i].type
       /\ rows'[i].check = rows[i].check /\ rows'[i].due = rows[i].due
       /\ rows'[i].status = "PENDING" => rows[i].status = "PENDING"

LEMMA SettledRows ==
  ASSUME Shapes, NEW S, NEW status \in {"PROCESSED", "HUMAN_REQUIRED"}, rows' = Settled(S, status)
  PROVE  RowsKept
<1>0. Len(rows) \in Nat /\ DOMAIN rows = 1..Len(rows) /\ \A i \in DOMAIN rows : rows[i] \in RowShapes
  BY Rows
<1>1. ASSUME NEW i \in 1..Len(rows)
      PROVE  /\ [rows[i] EXCEPT !.status = status] \in RowShapes
             /\ [rows[i] EXCEPT !.status = status].kind = rows[i].kind
             /\ [rows[i] EXCEPT !.status = status].type = rows[i].type
             /\ [rows[i] EXCEPT !.status = status].check = rows[i].check
             /\ [rows[i] EXCEPT !.status = status].due = rows[i].due
             /\ [rows[i] EXCEPT !.status = status].status # "PENDING"
  BY <1>0 DEF RowShapes
<1>2. \A i \in 1..Len(rows) : rows'[i] = rows[i] \/ rows'[i] = [rows[i] EXCEPT !.status = status]
  BY <1>0 DEF Settled
<1>3. rows' = [i \in 1..Len(rows) |-> rows'[i]]
  BY <1>0 DEF Settled
<1>4. \A i \in 1..Len(rows) : rows'[i] \in RowShapes
  BY <1>0, <1>1, <1>2
<1>5. rows' \in [1..Len(rows) -> RowShapes]
  BY <1>3, <1>4
<1>6. rows' \in Seq(RowShapes) /\ Len(rows') = Len(rows)
  <2>1. \A n \in Nat : \A s : s \in [1..n -> RowShapes] => s \in Seq(RowShapes) /\ Len(s) = n
    OBVIOUS
  <2> QED BY <1>0, <1>5, <2>1
<1>7. ASSUME NEW i \in 1..Len(rows)
      PROVE  /\ rows'[i].kind = rows[i].kind /\ rows'[i].type = rows[i].type
             /\ rows'[i].check = rows[i].check /\ rows'[i].due = rows[i].due
             /\ rows'[i].status = "PENDING" => rows[i].status = "PENDING"
  <2>1. CASE rows'[i] = rows[i]
    BY <2>1
  <2>2. CASE rows'[i] = [rows[i] EXCEPT !.status = status]
    BY <1>1, <2>2
  <2> QED BY <1>2, <2>1, <2>2
<1> QED BY <1>0, <1>6, <1>7 DEF RowsKept

LEMMA SameRows ==
  ASSUME Shapes, rows' = rows
  PROVE  RowsKept
  BY DEF Shapes, RowsKept

LEMMA KeptRows ==
  ASSUME Shapes, RowsKept
  PROVE  /\ DOMAIN rows' = DOMAIN rows /\ Pending' \subseteq Pending
         /\ \A i \in DOMAIN rows : /\ (Unread(i))' => Unread(i)
                                   /\ (ReadCertificate(i))' <=> ReadCertificate(i)
<1>1. DOMAIN rows' = DOMAIN rows
  BY LenProperties DEF Shapes, RowsKept
<1> QED BY <1>1 DEF RowsKept, Pending, Unread, ReadCertificate

LEMMA KeptOrder ==
  ASSUME Shapes, DueInOrder, FilesInOrder, RowsKept, pass'.files = {},
         pass'.pc \notin FilePcs
  PROVE  DueInOrder' /\ FilesInOrder'
<1>1. DueInOrder'
  BY KeptRows DEF DueInOrder, RowsKept, Conversational, Pending
<1>2. FilesInOrder'
  <2>1. \A i, j \in DOMAIN rows' : (ReadCertificate(i) /\ Unread(j))' => i < j
    BY KeptRows DEF FilesInOrder
  <2> QED BY <2>1 DEF FilesInOrder
<1> QED BY <1>1, <1>2

(* ---------------------------- the next row ------------------------------ *)
LEMMA NextPass ==
  ASSUME Shapes, NEW p \in {Next1, Idle}, p = Idle \/ pass.page # {}
  PROVE  /\ p \in Passes /\ p.files = {} /\ p.check = "NONE" /\ p.pc \in {"idle", "row"}
         /\ p.pc = "row" => p.snap = pass.snap /\ p.page # {}
<1>1. Idle \in Passes /\ Idle.files = {} /\ Idle.check = "NONE" /\ Idle.pc = "idle"
  BY DEF Idle, Passes, Cases, Stages, Checks
<1>2. CASE p = Idle
  BY <1>1, <1>2
<1>3. CASE p # Idle
  <2>1. p = [Idle EXCEPT !.pc = "row", !.page = pass.page \ {Cur}, !.snap = pass.snap] /\ pass.page # {Cur}
    BY <1>3 DEF Next1
  <2>2. pass.page \in SUBSET Nat /\ pass.snap \in Nat
    BY DEF Shapes, Passes
  <2>3. Cur \in pass.page
    BY <1>3, <2>2, Oldest DEF Cur
  <2>4. pass.page \ {Cur} # {}
    BY <2>1, <2>3
  <2> QED BY <1>1, <2>1, <2>2, <2>4 DEF Passes
<1> QED BY <1>2, <1>3

(* A pass that leaves a row, or ends, with or without settling rows. *)
LEMMA RowIsOver ==
  ASSUME InboxInv, RowsKept, pass' \in {Next1, Idle}, pass' = Idle \/ pass.pc \in {"row"} \cup Locked,
         case' \in Cases, UNCHANGED <<story, vault, saved, hooks>>,
         told' = told \/ (told'.check = "OK" => saved # {})
  PROVE  InboxInv'
<1>0. Shapes /\ DueInOrder /\ FilesInOrder /\ SaidIsSaved /\ LockHolds /\ CertificateIsKept
  BY DEF InboxInv
<1>1. pass' = Idle \/ pass.page # {}
  BY <1>0 DEF LockHolds
<1>2. /\ pass' \in Passes /\ pass'.files = {} /\ pass'.check = "NONE" /\ pass'.pc \in {"idle", "row"}
      /\ pass'.pc = "row" => pass'.snap = pass.snap /\ pass'.page # {} /\ pass.pc \in {"row"} \cup Locked
  <2>1. /\ pass' \in Passes /\ pass'.files = {} /\ pass'.check = "NONE" /\ pass'.pc \in {"idle", "row"}
        /\ pass'.pc = "row" => pass'.snap = pass.snap /\ pass'.page # {}
    BY <1>0, <1>1, NextPass
  <2>2. Idle.pc = "idle"
    BY DEF Idle
  <2> QED BY <2>1, <2>2
<1>3. Shapes'
  BY <1>0, <1>2 DEF Shapes, RowsKept
<1>4. DueInOrder' /\ FilesInOrder'
  <2>1. pass'.pc \notin FilePcs
    BY <1>2 DEF FilePcs
  <2> QED BY <1>0, <1>2, <2>1, KeptOrder
<1>5. PairInHand'
  BY <1>2 DEF PairInHand
<1>6. SaidIsSaved'
  BY <1>0, <1>2, KeptRows DEF SaidIsSaved, RowsKept
<1>7. LockHolds'
  <2>1. pass'.pc \notin Locked
    BY <1>2 DEF Locked
  <2> QED BY <1>0, <1>2, <2>1 DEF LockHolds, RowsKept, Locked
<1>8. CertificateIsKept'
  <2>1. \A i \in DOMAIN rows' : (ReadCertificate(i))' => \E j \in {vault.certificate} \cup saved : j >= i
    BY <1>0, KeptRows DEF CertificateIsKept, ReadCertificate
  <2> QED BY <1>0, <2>1 DEF CertificateIsKept, ReadCertificate
<1> QED BY <1>3, <1>4, <1>5, <1>6, <1>7, <1>8 DEF InboxInv
LEMMA OverSteps ==
  ASSUME InboxInv,
         \/ SkipRow \/ RowNotDue \/ RowAfterEnd \/ RowIsDocument \/ ReportCloses \/ WaitForOurs
         \/ HeldText \/ Discard \/ CommitTurn \/ AskPerson \/ StaleTap \/ CommitTap \/ RefusedTap
         \/ PassFails
  PROVE  InboxInv'
<1>0. Shapes /\ SaidIsSaved /\ case \in Cases
  BY DEF InboxInv, Shapes
<1>1. {"gate", "commit"} \subseteq Locked
  BY DEF Locked
<1>2. \A stage \in Stages, optOut \in BOOLEAN :
        /\ [case EXCEPT !.stage = stage, !.paused = TRUE] \in Cases
        /\ [case EXCEPT !.stage = stage, !.paused = TRUE, !.optOut = optOut] \in Cases
        /\ [case EXCEPT !.paused = TRUE] \in Cases
  BY <1>0 DEF Cases
<1>3. "HELD" \in Stages /\ "CLOSED" \in Stages
  BY DEF Stages
<1>4. rows' = rows => RowsKept
  BY <1>0, SameRows
<1>5. \A S : \A status \in {"PROCESSED", "HUMAN_REQUIRED"} : rows' = Settled(S, status) => RowsKept
  BY <1>0, SettledRows
<1>6. CASE SkipRow \/ RowNotDue \/ WaitForOurs \/ Discard \/ RefusedTap \/ PassFails
  <2>1. /\ rows' = rows /\ pass' \in {Next1, Idle} /\ case' \in Cases /\ told' = told
        /\ pass' = Idle \/ pass.pc \in {"row"} \cup Locked
        /\ UNCHANGED <<story, vault, saved, hooks>>
    BY <1>0, <1>1, <1>6 DEF SkipRow, RowNotDue, WaitForOurs, Discard, RefusedTap, PassFails
  <2> QED BY <1>4, <2>1, RowIsOver
<1>7. CASE RowAfterEnd
  <2>1. case' \in Cases
    BY <1>2, <1>3, <1>7 DEF RowAfterEnd, Closed
  <2> QED BY <1>5, <1>7, <2>1, RowIsOver DEF RowAfterEnd
<1>8. CASE RowIsDocument
  <2>1. RowsKept
    BY <1>5, <1>8 DEF RowIsDocument
  <2> QED BY <1>0, <1>8, <2>1, RowIsOver DEF RowIsDocument
<1>9. CASE ReportCloses
  <2>1. case' \in Cases
    BY <1>2, <1>3, <1>9 DEF ReportCloses, Closed
  <2> QED BY <1>1, <1>5, <1>9, <2>1, RowIsOver DEF ReportCloses
<1>10. CASE HeldText \/ AskPerson \/ StaleTap
  <2>1. rows' = Settled({Cur}, "HUMAN_REQUIRED") /\ pass' = Next1 /\ case' = case /\ told' = told
        /\ pass.pc \in Locked /\ UNCHANGED <<story, vault, saved, hooks>>
    BY <1>1, <1>10 DEF HeldText, AskPerson, StaleTap
  <2> QED BY <1>0, <1>5, <2>1, RowIsOver
<1>11. CASE CommitTurn
  <2>1. case' \in Cases
    BY <1>0, <1>2, <1>3, <1>11 DEF CommitTurn, After
  <2>2. RowsKept
    BY <1>5, <1>11 DEF CommitTurn
  <2>3. told' = told \/ (told'.check = "OK" => saved # {})
    BY <1>0, <1>11 DEF CommitTurn, SaidIsSaved
  <2> QED BY <1>1, <1>11, <2>1, <2>2, <2>3, RowIsOver DEF CommitTurn
<1>12. CASE CommitTap
  <2>1. case' \in Cases
    BY <1>0, <1>2, <1>3, <1>12 DEF CommitTap
  <2> QED BY <1>1, <1>5, <1>12, <2>1, RowIsOver DEF CommitTap
<1> QED BY <1>6, <1>7, <1>8, <1>9, <1>10, <1>11, <1>12

(* ------------------------- reading the files ---------------------------- *)
LEMMA Begins ==
  ASSUME InboxInv, Begin
  PROVE  InboxInv'
<1> DEFINE media == {i \in Pending : rows[i].type = "MEDIA_RECEIVED" /\ rows[i].due}
<1>0. Shapes /\ DueInOrder /\ FilesInOrder /\ SaidIsSaved /\ LockHolds /\ CertificateIsKept
  BY DEF InboxInv
<1>1. /\ pass' = [Idle EXCEPT !.pc = IF media = {} THEN "list" ELSE "file", !.files = media]
      /\ UNCHANGED <<story, rows, case, vault, saved, hooks, told>>
  BY DEF Begin
<1>2. Pending \subseteq DOMAIN rows /\ DOMAIN rows \subseteq Nat /\ Pending' = Pending
  BY <1>0, <1>1, Rows DEF Pending
<1>3. Idle \in Passes
  BY DEF Idle, Passes, Cases, Stages, Checks
<1>4. /\ pass' \in Passes /\ pass'.files = media /\ pass'.pc = IF media = {} THEN "list" ELSE "file"
      /\ pass'.check = "NONE"
  <2>1. media \in SUBSET Nat
    BY <1>2
  <2>2. Idle.check = "NONE"
    BY DEF Idle
  <2> HIDE DEF media
  <2> QED BY <1>1, <1>3, <2>1, <2>2 DEF Passes, FilePcs
<1>5. Shapes'
  BY <1>0, <1>1, <1>4 DEF Shapes
<1>6. DueInOrder'
  BY <1>0, <1>1, <1>2 DEF DueInOrder, Conversational
<1>7. FilesInOrder'
  <2>1. \A i \in media : Unread(i) /\ \A j \in DOMAIN rows : Unread(j) => j \in media \/ i < j
    <3> SUFFICES ASSUME NEW i \in media, NEW j \in DOMAIN rows, Unread(j), j \notin media
                 PROVE  Unread(i) /\ i < j
      BY DEF Unread
    <3>1. Unread(i) /\ rows[i].due /\ i \in Nat /\ j \in Nat /\ ~rows[j].due /\ j \in Pending
      BY <1>2 DEF Unread
    <3>2. Conversational(rows[i]) /\ Conversational(rows[j])
      BY <3>1 DEF Unread, Conversational
    <3>3. ~(j < i)
      BY <1>0, <3>1, <3>2 DEF DueInOrder
    <3> QED BY <3>1, <3>3
  <2> QED BY <1>0, <1>1, <1>2, <1>4, <2>1 DEF FilesInOrder, Unread, ReadCertificate, FilePcs
<1>8. PairInHand' /\ SaidIsSaved' /\ LockHolds'
  BY <1>0, <1>1, <1>4 DEF PairInHand, SaidIsSaved, LockHolds, Locked
<1>9. CertificateIsKept'
  BY <1>0, <1>1 DEF CertificateIsKept
<1> QED BY <1>5, <1>6, <1>7, <1>8, <1>9 DEF InboxInv
(* A step of the pass that leaves the rows and the files in hand. *)
LEMMA RowsStay ==
  ASSUME InboxInv, UNCHANGED <<story, rows, case, hooks>>, pass' \in Passes, pass'.files = pass.files,
         pass'.pc \in FilePcs <=> pass.pc \in FilePcs,
         vault' \in [certificate : Nat, password : BOOLEAN], saved' \subseteq Nat
  PROVE  Shapes' /\ DueInOrder' /\ FilesInOrder'
<1>0. Shapes /\ DueInOrder /\ FilesInOrder
  BY DEF InboxInv
<1>1. Pending' = Pending
  BY DEF Pending
<1>2. Shapes'
  BY <1>0 DEF Shapes
<1>3. DueInOrder'
  BY <1>0, <1>1 DEF DueInOrder, Conversational
<1>4. FilesInOrder'
  BY <1>0, <1>1 DEF FilesInOrder, Unread, ReadCertificate
<1> QED BY <1>2, <1>3, <1>4

LEMMA OldestFile ==
  ASSUME InboxInv, pass.pc \in FilePcs
  PROVE  /\ Min(pass.files) \in pass.files /\ Min(pass.files) \in Nat
         /\ \A j \in pass.files : Min(pass.files) <= j
         /\ pass.files \subseteq DOMAIN rows
<1>1. pass.files \subseteq Nat /\ pass.files # {} /\ \A i \in pass.files : Unread(i)
  BY DEF InboxInv, Shapes, Passes, FilesInOrder
<1>2. pass.files \subseteq DOMAIN rows
  BY <1>1 DEF Unread, Pending
<1> QED BY <1>1, <1>2, Oldest

LEMMA ReadsFile ==
  ASSUME InboxInv, ReadFile
  PROVE  InboxInv'
<1> DEFINE i == Min(pass.files)
<1>0. Shapes /\ FilesInOrder /\ SaidIsSaved /\ CertificateIsKept
  BY DEF InboxInv
<1>1. i \in pass.files /\ i \in Nat /\ i \in DOMAIN rows /\ pass.pc = "file" /\ pass.pc \in FilePcs
  <2>1. pass.pc = "file" /\ pass.pc \in FilePcs
    BY DEF ReadFile, FilePcs
  <2> QED BY <2>1, OldestFile
<1>2. /\ UNCHANGED <<story, rows, case, saved, hooks, told>>
      /\ pass' = [pass EXCEPT !.pc = IF rows[i].kind = "CERT_FILE" THEN "fpair" ELSE "mark"]
      /\ vault' = IF rows[i].kind = "CERT_FILE" THEN [vault EXCEPT !.certificate = i] ELSE vault
  BY DEF ReadFile
<1> HIDE DEF i
<1>3. /\ pass' \in Passes /\ pass'.files = pass.files /\ pass'.check = pass.check
      /\ pass'.pc = IF rows[i].kind = "CERT_FILE" THEN "fpair" ELSE "mark"
  BY <1>0, <1>2 DEF Shapes, Passes, FilePcs
<1>4. /\ vault' \in [certificate : Nat, password : BOOLEAN]
      /\ vault'.certificate = IF rows[i].kind = "CERT_FILE" THEN i ELSE vault.certificate
  BY <1>0, <1>1, <1>2 DEF Shapes
<1>5. Shapes' /\ DueInOrder' /\ FilesInOrder'
  BY <1>0, <1>1, <1>2, <1>3, <1>4, RowsStay DEF FilePcs, Shapes
<1>6. PairInHand'
  BY <1>2, <1>3, <1>4 DEF PairInHand, i
<1>7. SaidIsSaved'
  BY <1>0, <1>1, <1>2, <1>3 DEF SaidIsSaved
<1>8. LockHolds'
  BY <1>3 DEF LockHolds, Locked
<1>9. CertificateIsKept'
  <2>1. CASE rows[i].kind # "CERT_FILE"
    BY <1>0, <1>2, <2>1 DEF CertificateIsKept
  <2>2. CASE rows[i].kind = "CERT_FILE"
    <3>1. Unread(i)
      BY <1>0, <1>1 DEF FilesInOrder
    <3>2. \A k \in DOMAIN rows : ReadCertificate(k) => k < i
      BY <1>0, <1>1, <3>1 DEF FilesInOrder
    <3>3. DOMAIN rows \subseteq Nat
      BY <1>0, Rows
    <3>4. \A k \in DOMAIN rows : ReadCertificate(k) => i >= k
      BY <1>1, <3>2, <3>3
    <3> QED BY <1>0, <1>2, <1>4, <2>2, <3>4 DEF CertificateIsKept, ReadCertificate
  <2> QED BY <2>1, <2>2
<1> QED BY <1>5, <1>6, <1>7, <1>8, <1>9 DEF InboxInv

(* ---------------------------- the pair ---------------------------------- *)
LEMMA ChecksPair ==
  ASSUME InboxInv, CheckPair("fpair", "fsave", "mark") \/ CheckPair("pair", "save", "think")
  PROVE  InboxInv'
<1>0. Shapes /\ FilesInOrder /\ PairInHand /\ SaidIsSaved /\ LockHolds /\ CertificateIsKept
  BY DEF InboxInv
<1>1. PICK r \in Found :
        \/ /\ pass.pc = "fpair"
           /\ pass' = [pass EXCEPT !.check = r, !.pc = IF r = "OK" THEN "fsave" ELSE "mark"]
        \/ /\ pass.pc = "pair"
           /\ pass' = [pass EXCEPT !.check = r, !.pc = IF r = "OK" THEN "save" ELSE "think"]
  BY DEF CheckPair
<1>2. UNCHANGED <<story, rows, case, vault, saved, hooks, told>>
  BY DEF CheckPair
<1>3. r \in Checks
  BY DEF Found, Checks
<1>4. /\ pass' \in Passes /\ pass'.files = pass.files /\ pass'.check = r
      /\ pass'.seen = pass.seen /\ pass'.turn = pass.turn /\ pass'.snap = pass.snap /\ pass'.page = pass.page
      /\ \/ pass.pc = "fpair" /\ pass'.pc = IF r = "OK" THEN "fsave" ELSE "mark"
         \/ pass.pc = "pair" /\ pass'.pc = IF r = "OK" THEN "save" ELSE "think"
  BY <1>0, <1>1, <1>3, ZenonT(60) DEF Shapes, Passes, FilePcs, Locked
<1>5. Shapes' /\ DueInOrder' /\ FilesInOrder'
  <2>1. pass'.pc \in FilePcs <=> pass.pc \in FilePcs
    BY <1>4 DEF FilePcs
  <2> QED BY <1>0, <1>2, <1>4, <2>1, RowsStay DEF Shapes
<1>6. PairInHand'
  <2>1. CASE pass.pc = "pair"
    BY <1>4, <2>1 DEF PairInHand
  <2>2. CASE pass.pc = "fpair"
    <3>1. vault.certificate = Min(pass.files) /\ vault.certificate \in Nat
      BY <1>0, <2>2 DEF PairInHand, Shapes
    <3>2. vault.certificate >= Min(pass.files)
      BY <3>1
    <3> QED BY <1>2, <1>4, <2>2, <3>1, <3>2 DEF PairInHand
  <2> QED BY <1>4, <2>1, <2>2
<1>7. SaidIsSaved'
  BY <1>0, <1>2, <1>4 DEF SaidIsSaved
<1>8. LockHolds'
  BY <1>0, <1>2, <1>4 DEF LockHolds, Locked
<1>9. CertificateIsKept'
  BY <1>0, <1>2 DEF CertificateIsKept
<1> QED BY <1>5, <1>6, <1>7, <1>8, <1>9 DEF InboxInv

LEMMA SavesPair ==
  ASSUME InboxInv, SavePair("fsave", "fclear") \/ SavePair("save", "clear")
  PROVE  InboxInv'
<1>0. Shapes /\ FilesInOrder /\ PairInHand /\ SaidIsSaved /\ LockHolds /\ CertificateIsKept
  BY DEF InboxInv
<1>1. /\ UNCHANGED <<story, rows, case, vault, hooks, told>> /\ saved' = saved \cup {vault.certificate}
      /\ \/ pass.pc = "fsave" /\ pass' = [pass EXCEPT !.pc = "fclear"]
         \/ pass.pc = "save" /\ pass' = [pass EXCEPT !.pc = "clear"]
  BY DEF SavePair
<1>2. /\ pass' \in Passes /\ pass'.files = pass.files /\ pass'.check = pass.check
      /\ pass'.seen = pass.seen /\ pass'.turn = pass.turn /\ pass'.snap = pass.snap /\ pass'.page = pass.page
      /\ \/ pass.pc = "fsave" /\ pass'.pc = "fclear"
         \/ pass.pc = "save" /\ pass'.pc = "clear"
  BY <1>0, <1>1 DEF Shapes, Passes, FilePcs, Locked
<1>3. vault.certificate \in Nat /\ saved' \subseteq Nat
  BY <1>0, <1>1 DEF Shapes
<1>4. Shapes' /\ DueInOrder' /\ FilesInOrder'
  <2>1. pass'.pc \in FilePcs <=> pass.pc \in FilePcs
    BY <1>2 DEF FilePcs
  <2> QED BY <1>0, <1>1, <1>2, <1>3, <2>1, RowsStay DEF Shapes
<1>5. PairInHand'
  BY <1>0, <1>1, <1>2 DEF PairInHand
<1>6. SaidIsSaved'
  BY <1>1 DEF SaidIsSaved
<1>7. LockHolds'
  BY <1>0, <1>1, <1>2 DEF LockHolds, Locked
<1>8. CertificateIsKept'
  BY <1>0, <1>1 DEF CertificateIsKept
<1> QED BY <1>4, <1>5, <1>6, <1>7, <1>8 DEF InboxInv

LEMMA ClearsSlots ==
  ASSUME InboxInv, ClearSlots("fclear", "mark") \/ ClearSlots("clear", "think")
  PROVE  InboxInv'
<1>0. Shapes /\ FilesInOrder /\ PairInHand /\ SaidIsSaved /\ LockHolds /\ CertificateIsKept
  BY DEF InboxInv
<1>1. /\ UNCHANGED <<story, rows, case, saved, hooks, told>> /\ vault' = NoSlots
      /\ \/ pass.pc = "fclear" /\ pass' = [pass EXCEPT !.pc = "mark"]
         \/ pass.pc = "clear" /\ pass' = [pass EXCEPT !.pc = "think"]
  BY DEF ClearSlots
<1>2. /\ pass' \in Passes /\ pass'.files = pass.files /\ pass'.check = pass.check
      /\ pass'.seen = pass.seen /\ pass'.turn = pass.turn /\ pass'.snap = pass.snap /\ pass'.page = pass.page
      /\ \/ pass.pc = "fclear" /\ pass'.pc = "mark"
         \/ pass.pc = "clear" /\ pass'.pc = "think"
  BY <1>0, <1>1 DEF Shapes, Passes, FilePcs, Locked
<1>3. vault' \in [certificate : Nat, password : BOOLEAN]
  BY <1>1 DEF NoSlots
<1>4. Shapes' /\ DueInOrder' /\ FilesInOrder'
  <2>1. pass'.pc \in FilePcs <=> pass.pc \in FilePcs
    BY <1>2 DEF FilePcs
  <2> QED BY <1>0, <1>1, <1>2, <1>3, <2>1, RowsStay DEF Shapes
<1>5. PairInHand'
  <2>1. CASE pass.pc = "clear"
    BY <1>2, <2>1 DEF PairInHand
  <2>2. CASE pass.pc = "fclear"
    <3>1. vault.certificate = Min(pass.files) /\ vault.certificate \in saved /\ vault.certificate \in Nat
      BY <1>0, <2>2 DEF PairInHand, Shapes
    <3>2. Min(pass.files) \in saved /\ Min(pass.files) >= Min(pass.files)
      BY <3>1
    <3> QED BY <1>1, <1>2, <2>2, <3>2 DEF PairInHand
  <2> QED BY <1>2, <2>1, <2>2
<1>6. SaidIsSaved'
  BY <1>0, <1>1, <1>2 DEF SaidIsSaved
<1>7. LockHolds'
  BY <1>0, <1>1, <1>2 DEF LockHolds, Locked
<1>8. CertificateIsKept'
  <2>1. vault.certificate \in saved
    BY <1>0, <1>2 DEF PairInHand
  <2> QED BY <1>0, <1>1, <2>1 DEF CertificateIsKept
<1> QED BY <1>4, <1>5, <1>6, <1>7, <1>8 DEF InboxInv
LEMMA MarksRow ==
  ASSUME InboxInv, MarkRow
  PROVE  InboxInv'
<1> DEFINE i == Min(pass.files)
           check == IF rows[i].check = "NONE" THEN pass.check ELSE rows[i].check
           type == IF rows[i].kind = "APUD_PDF" THEN "PDF_MEDIA" ELSE "CONVERSATION_TEXT"
<1>0. Shapes /\ DueInOrder /\ FilesInOrder /\ PairInHand /\ SaidIsSaved /\ CertificateIsKept
  BY DEF InboxInv
<1>1. /\ i \in pass.files /\ i \in Nat /\ pass.files \subseteq DOMAIN rows /\ pass.pc = "mark"
      /\ \A j \in pass.files : i <= j
  <2>1. pass.pc = "mark" /\ pass.pc \in FilePcs
    BY DEF MarkRow, FilePcs
  <2> QED BY <2>1, OldestFile
<1>2. /\ Len(rows) \in Nat /\ DOMAIN rows = 1..Len(rows) /\ \A j \in DOMAIN rows : rows[j] \in RowShapes
      /\ i \in DOMAIN rows /\ Pending \subseteq DOMAIN rows
  BY <1>0, <1>1, Rows
<1>3. /\ rows' = [rows EXCEPT ![i].check = check, ![i].type = type]
      /\ pass' = [pass EXCEPT !.files = @ \ {i}, !.check = "NONE",
                              !.pc = IF pass.files = {i} THEN "list" ELSE "file"]
      /\ UNCHANGED <<story, case, vault, saved, hooks, told>>
  BY DEF MarkRow
<1>4. check \in Checks /\ type \in {"PDF_MEDIA", "CONVERSATION_TEXT"} /\ pass.check \in Checks
  BY <1>0, <1>2 DEF Shapes, Passes, RowShapes
<1>5. (check = "OK" => saved # {}) /\ (type = "CONVERSATION_TEXT" <=> rows[i].kind # "APUD_PDF")
  BY <1>0, <1>1, <1>2 DEF SaidIsSaved
<1> HIDE DEF i, check, type
<1>6. /\ \A j \in DOMAIN rows : j # i => rows'[j] = rows[j]
      /\ rows'[i] = [rows[i] EXCEPT !.check = check, !.type = type]
      /\ DOMAIN rows' = DOMAIN rows
  BY <1>2, <1>3
<1>7. /\ rows'[i] \in RowShapes /\ rows'[i].check = check /\ rows'[i].type = type
      /\ rows'[i].kind = rows[i].kind /\ rows'[i].due = rows[i].due /\ rows'[i].status = rows[i].status
  BY <1>2, <1>4, <1>6 DEF RowShapes
<1>8. rows' \in Seq(RowShapes)
  <2>1. rows' \in [1..Len(rows) -> RowShapes]
    BY <1>2, <1>3, <1>6, <1>7
  <2> QED BY <1>2, <2>1
<1>9. Pending' = Pending
  BY <1>6, <1>7 DEF Pending
<1>10. /\ pass' \in Passes /\ pass'.files = pass.files \ {i} /\ pass'.check = "NONE"
       /\ pass'.pc = IF pass.files = {i} THEN "list" ELSE "file"
  BY <1>0, <1>3 DEF Shapes, Passes, FilePcs, Checks
<1>11. Shapes'
  BY <1>0, <1>3, <1>8, <1>10 DEF Shapes
<1>12. Unread(i) /\ i \in Pending /\ rows[i].type = "MEDIA_RECEIVED"
  BY <1>0, <1>1 DEF FilesInOrder, Unread
<1>13. DueInOrder'
  <2>1. \A j \in Pending : /\ (Conversational(rows[j]))' => Conversational(rows[j])
                           /\ rows'[j].due = rows[j].due
    BY <1>2, <1>6, <1>7, <1>12 DEF Conversational
  <2> QED BY <1>0, <1>9, <2>1 DEF DueInOrder
<1>14. FilesInOrder'
  <2>1. \A j \in DOMAIN rows : (Unread(j))' <=> Unread(j) /\ j # i
    BY <1>4, <1>6, <1>7, <1>9 DEF Unread
  <2>2. \A j \in DOMAIN rows : Unread(j) /\ j # i => i < j
    <3>1. \A j \in DOMAIN rows : Unread(j) => j \in pass.files \/ i < j
      BY <1>0, <1>1 DEF FilesInOrder
    <3> QED BY <1>1, <1>2, <3>1
  <2>3. \A j \in DOMAIN rows : (ReadCertificate(j))' => j = i \/ ReadCertificate(j)
    BY <1>6 DEF ReadCertificate
  <2>4. pass'.pc \in FilePcs <=> pass'.files # {}
    BY <1>1, <1>10 DEF FilePcs
  <2>5. \A j \in pass'.files : (Unread(j))' /\ \A k \in DOMAIN rows' : (Unread(k))' => k \in pass'.files \/ j < k
    BY <1>0, <1>1, <1>6, <1>10, <2>1 DEF FilesInOrder
  <2>6. \A j, k \in DOMAIN rows' : (ReadCertificate(j) /\ Unread(k))' => j < k
    BY <1>0, <1>6, <2>1, <2>2, <2>3 DEF FilesInOrder
  <2> QED BY <2>4, <2>5, <2>6 DEF FilesInOrder
<1>15. PairInHand' /\ LockHolds'
  BY <1>10 DEF PairInHand, LockHolds, Locked
<1>16. SaidIsSaved'
  BY <1>0, <1>3, <1>5, <1>6, <1>7, <1>10 DEF SaidIsSaved
<1>17. CertificateIsKept'
  <2>1. rows[i].kind = "CERT_FILE" => \E j \in {vault.certificate} \cup saved : j >= i
    BY <1>0, <1>1 DEF PairInHand, i
  <2> QED BY <1>0, <1>3, <1>6, <1>7, <2>1 DEF CertificateIsKept
<1> QED BY <1>11, <1>13, <1>14, <1>15, <1>16, <1>17 DEF InboxInv

(* ----------------------------- the page --------------------------------- *)
LEMMA PageSteps ==
  ASSUME InboxInv, ListPage \/ Stamp
  PROVE  InboxInv'
<1>0. Shapes /\ FilesInOrder /\ SaidIsSaved /\ LockHolds /\ CertificateIsKept
  BY DEF InboxInv
<1>1. Len(rows) \in Nat /\ DOMAIN rows = 1..Len(rows) /\ Pending \subseteq DOMAIN rows
  BY <1>0, Rows
<1>2. UNCHANGED <<story, rows, case, vault, saved, hooks, told>>
  BY DEF ListPage, Stamp
<1>3. CASE pass' = Idle
  BY <1>0, <1>2, <1>3, SameRows, RowIsOver DEF Shapes
<1>4. CASE pass' # Idle
  <2>1. /\ pass' \in Passes /\ pass'.files = pass.files /\ pass'.check = pass.check
        /\ pass.pc \in {"list", "stamp"} /\ pass'.pc \in {"stamp", "row"} /\ pass'.page # {}
        /\ pass'.pc = "row" => pass'.snap <= Len(rows)
    <3>1. CASE ListPage
      <4>1. PICK page \in SUBSET Nat : /\ page # {} /\ pass.pc = "list"
                                       /\ pass' = [pass EXCEPT !.pc = "stamp", !.page = page]
        <5>1. Firsts(Pending, Page) \in SUBSET Nat
          BY <1>1 DEF Firsts
        <5> QED BY <1>4, <3>1, <5>1 DEF ListPage
      <4> QED BY <1>0, <4>1 DEF Shapes, Passes
    <3>2. CASE Stamp
      <4>1. pass' = [pass EXCEPT !.pc = "row", !.snap = Len(rows)] /\ pass.pc = "stamp"
        BY <3>2 DEF Stamp
      <4>2. pass.page # {} /\ pass \in Passes
        BY <1>0, <4>1 DEF LockHolds, Shapes
      <4>3. Len(rows) <= Len(rows)
        BY <1>1
      <4> QED BY <1>1, <4>1, <4>2, <4>3 DEF Passes
    <3> QED BY <3>1, <3>2
  <2>2. Shapes' /\ DueInOrder' /\ FilesInOrder'
    <3>1. pass'.pc \notin FilePcs /\ pass.pc \notin FilePcs
      BY <2>1 DEF FilePcs
    <3> QED BY <1>0, <1>2, <2>1, <3>1, RowsStay DEF Shapes
  <2>3. PairInHand' /\ SaidIsSaved' /\ LockHolds'
    BY <1>0, <1>2, <2>1 DEF PairInHand, SaidIsSaved, LockHolds, Locked
  <2>4. CertificateIsKept'
    BY <1>0, <1>2 DEF CertificateIsKept
  <2> QED BY <2>2, <2>3, <2>4 DEF InboxInv
<1> QED BY <1>3, <1>4

LEMMA TurnSteps ==
  ASSUME InboxInv, LockRow \/ ReadTurn \/ Think
  PROVE  InboxInv'
<1>0. Shapes /\ FilesInOrder /\ SaidIsSaved /\ LockHolds /\ CertificateIsKept
  BY DEF InboxInv
<1>1. Len(rows) \in Nat /\ DOMAIN rows = 1..Len(rows) /\ Pending \subseteq DOMAIN rows
  BY <1>0, Rows
<1>2. UNCHANGED <<story, rows, case, vault, saved, hooks, told>>
  BY DEF LockRow, ReadTurn, Think
<1>3. CASE pass' = Next1
  <2>1. pass.pc \in {"row"} \cup Locked
    BY DEF LockRow, ReadTurn, Think, Locked
  <2> QED BY <1>0, <1>2, <1>3, <2>1, SameRows, RowIsOver DEF Shapes
<1>4. CASE pass' # Next1
  <2>1. /\ pass' \in Passes /\ pass'.files = pass.files /\ pass'.snap = pass.snap /\ pass'.page = pass.page
        /\ pass.pc \in {"row", "gate", "think"} /\ pass'.pc \in Locked \ {"save", "clear"}
        /\ pass'.check = "OK" => saved # {}
        /\ pass'.seen.stage = case.stage /\ pass'.turn \subseteq DOMAIN rows
        /\ pass'.pc # "gate" => pass'.seen.stage # "HELD"
        /\ pass'.pc = "commit" => ~case.optOut
    <3>1. CASE LockRow
      <4>1. pass' = [pass EXCEPT !.pc = "gate", !.seen = case, !.turn = Burst] /\ pass.pc = "row"
        BY <3>1 DEF LockRow
      <4>2. Burst \subseteq DOMAIN rows
        <5>1. Cur \in Pending
          BY <3>1 DEF LockRow
        <5>2. \A i \in Burst : i = Cur \/ (i \in pass.page /\ (i # Cur => Follows(i)))
          <6>1. \A i \in pass.page : i <= i
            BY <1>0 DEF Shapes, Passes
          <6> QED BY <6>1 DEF Burst
        <5> QED BY <1>1, <5>1, <5>2 DEF Follows
      <4>3. Burst \in SUBSET Nat
        BY <1>1, <4>2
      <4>4. pass.check = "OK" => saved # {}
        BY <1>0, <4>1 DEF SaidIsSaved
      <4> QED BY <1>0, <4>1, <4>2, <4>3, <4>4 DEF Shapes, Passes, Locked
    <3>2. CASE ReadTurn
      <4>1. /\ pass.pc = "gate" /\ pass.seen.stage # "HELD"
            /\ pass' = [pass EXCEPT !.check = Line,
                          !.pc = IF Line = "NONE" /\ \E i \in pass.turn : rows[i].kind = "PASSWORD"
                                 THEN "pair" ELSE "think"]
        BY <3>2 DEF ReadTurn, Silent
      <4>2. pass.turn \subseteq DOMAIN rows /\ pass.seen.stage = case.stage /\ pass.turn \subseteq Nat
        BY <1>0, <4>1 DEF LockHolds, Locked, Shapes, Passes
      <4>3. Line \in Checks /\ (Line = "OK" => saved # {})
        <5> DEFINE lines == {i \in pass.turn : rows[i].check # "NONE"}
                   newest == CHOOSE i \in lines : \A j \in lines : j <= i
        <5>1. CASE lines = {}
          BY <5>1 DEF Line, Checks
        <5>2. CASE lines # {}
          <6>1. Line = rows[newest].check
            BY <5>2 DEF Line
          <6>2. newest \in lines
            <7>1. \E i \in lines : \A j \in lines : j <= i
              BY <1>1, <4>2, <5>2, Latest
            <7> HIDE DEF lines
            <7> QED BY <7>1, Zenon DEF newest
          <6>3. rows[newest] \in RowShapes /\ newest \in DOMAIN rows
            BY <1>0, <4>2, <6>2, Rows
          <6> QED BY <1>0, <6>1, <6>3 DEF SaidIsSaved, RowShapes
        <5> QED BY <5>1, <5>2
      <4> HIDE DEF Line
      <4> QED BY <1>0, <4>1, <4>2, <4>3 DEF Shapes, Passes, Locked
    <3>3. CASE Think
      <4>1. pass' = [pass EXCEPT !.pc = "commit"] /\ pass.pc = "think" /\ ~case.optOut
        BY <1>4, <3>3 DEF Think
      <4> QED BY <1>0, <4>1 DEF Shapes, Passes, Locked, LockHolds, SaidIsSaved
    <3> QED BY <3>1, <3>2, <3>3
  <2>2. Shapes' /\ DueInOrder' /\ FilesInOrder'
    <3>1. pass'.pc \notin FilePcs /\ pass.pc \notin FilePcs
      BY <2>1 DEF FilePcs, Locked
    <3> QED BY <1>0, <1>2, <2>1, <3>1, RowsStay DEF Shapes
  <2>3. PairInHand' /\ SaidIsSaved'
    BY <1>0, <1>2, <2>1 DEF PairInHand, SaidIsSaved, Locked
  <2>4. LockHolds'
    BY <1>0, <1>2, <2>1 DEF LockHolds, Locked
  <2>5. CertificateIsKept'
    BY <1>0, <1>2 DEF CertificateIsKept
  <2> QED BY <2>2, <2>3, <2>4, <2>5 DEF InboxInv
<1> QED BY <1>3, <1>4
(* -------------------------- the passing time ---------------------------- *)
LEMMA TimeSteps ==
  ASSUME InboxInv, QuietPasses \/ RowFallsDue
  PROVE  InboxInv'
<1>0. Shapes /\ DueInOrder /\ FilesInOrder /\ PairInHand /\ SaidIsSaved /\ LockHolds /\ CertificateIsKept
  BY DEF InboxInv
<1>1. /\ Len(rows) \in Nat /\ DOMAIN rows = 1..Len(rows) /\ \A i \in DOMAIN rows : rows[i] \in RowShapes
      /\ Pending \subseteq DOMAIN rows
  BY <1>0, Rows
<1>2. UNCHANGED <<story, case, vault, saved, pass, hooks, told>>
  BY DEF QuietPasses, RowFallsDue
<1>3. \A i \in DOMAIN rows : /\ [rows[i] EXCEPT !.due = TRUE] \in RowShapes
                             /\ [rows[i] EXCEPT !.due = TRUE].kind = rows[i].kind
                             /\ [rows[i] EXCEPT !.due = TRUE].type = rows[i].type
                             /\ [rows[i] EXCEPT !.due = TRUE].check = rows[i].check
                             /\ [rows[i] EXCEPT !.due = TRUE].status = rows[i].status
                             /\ [rows[i] EXCEPT !.due = TRUE].due = TRUE
  BY <1>1 DEF RowShapes
<1>4. /\ rows' = [i \in DOMAIN rows |-> rows'[i]]
      /\ \A i \in DOMAIN rows : rows'[i] = rows[i] \/ rows'[i] = [rows[i] EXCEPT !.due = TRUE]
      /\ \A i, j \in Pending : Conversational(rows[i]) /\ Conversational(rows[j]) =>
           (rows'[j] = rows[j] /\ rows'[i] = rows[i]) \/ rows'[i] = [rows[i] EXCEPT !.due = TRUE]
  <2>1. CASE QuietPasses
    BY <1>1, <2>1 DEF QuietPasses
  <2>2. CASE RowFallsDue
    <3>1. PICK k \in Pending : ~Conversational(rows[k]) /\ rows' = [rows EXCEPT ![k].due = TRUE]
      BY <2>2 DEF RowFallsDue
    <3>2. /\ \A i \in DOMAIN rows : i # k => rows'[i] = rows[i]
          /\ rows'[k] = [rows[k] EXCEPT !.due = TRUE] /\ k \in DOMAIN rows
      BY <1>1, <3>1
    <3> QED BY <1>1, <3>1, <3>2
  <2> QED BY <2>1, <2>2
<1>5. \A i \in DOMAIN rows : /\ rows'[i] \in RowShapes /\ rows'[i].kind = rows[i].kind
                             /\ rows'[i].type = rows[i].type /\ rows'[i].check = rows[i].check
                             /\ rows'[i].status = rows[i].status
  <2> SUFFICES ASSUME NEW i \in DOMAIN rows
               PROVE  /\ rows'[i] \in RowShapes /\ rows'[i].kind = rows[i].kind
                      /\ rows'[i].type = rows[i].type /\ rows'[i].check = rows[i].check
                      /\ rows'[i].status = rows[i].status
    OBVIOUS
  <2>1. CASE rows'[i] = rows[i]
    BY <1>1, <2>1
  <2>2. CASE rows'[i] = [rows[i] EXCEPT !.due = TRUE]
    BY <1>3, <2>2
  <2> QED BY <1>4, <2>1, <2>2
<1>6. rows' \in Seq(RowShapes) /\ DOMAIN rows' = DOMAIN rows /\ Len(rows') = Len(rows)
  <2>1. rows' \in [1..Len(rows) -> RowShapes]
    BY <1>1, <1>4, <1>5
  <2> QED BY <1>1, <2>1
<1>7. Pending' = Pending
  BY <1>5, <1>6 DEF Pending
<1>8. Shapes'
  BY <1>0, <1>2, <1>6 DEF Shapes
<1>9. DueInOrder'
  <2> SUFFICES ASSUME NEW i \in Pending, NEW j \in Pending, i < j, (Conversational(rows[i]))',
                      (Conversational(rows[j]))', rows'[j].due
               PROVE  rows'[i].due
    BY <1>7 DEF DueInOrder
  <2>1. Conversational(rows[i]) /\ Conversational(rows[j])
    BY <1>1, <1>5 DEF Conversational
  <2>2. CASE rows'[i] = [rows[i] EXCEPT !.due = TRUE]
    BY <1>1, <1>3, <2>2
  <2>3. CASE rows'[j] = rows[j] /\ rows'[i] = rows[i]
    BY <1>0, <2>1, <2>3 DEF DueInOrder
  <2> QED BY <1>4, <2>1, <2>2, <2>3
<1>10. FilesInOrder'
  <2>1. \A i \in DOMAIN rows : ((Unread(i))' <=> Unread(i)) /\ ((ReadCertificate(i))' <=> ReadCertificate(i))
    BY <1>5, <1>7 DEF Unread, ReadCertificate
  <2>2. pass.files \subseteq DOMAIN rows
    BY <1>0, <1>1 DEF FilesInOrder, Unread
  <2> QED BY <1>0, <1>2, <1>6, <2>1, <2>2 DEF FilesInOrder
<1>11. PairInHand'
  <2>1. pass.pc = "mark" => Min(pass.files) \in DOMAIN rows
    BY OldestFile DEF FilePcs
  <2> QED BY <1>0, <1>2, <1>5, <2>1 DEF PairInHand
<1>12. SaidIsSaved' /\ LockHolds'
  BY <1>0, <1>2, <1>5, <1>6, <1>7 DEF SaidIsSaved, LockHolds
<1>13. CertificateIsKept'
  BY <1>0, <1>2, <1>5, <1>6 DEF CertificateIsKept
<1> QED BY <1>8, <1>9, <1>10, <1>11, <1>12, <1>13 DEF InboxInv

(* ------------------------- without a row or a pass ---------------------- *)
LEMMA CaseSteps ==
  ASSUME InboxInv, UNCHANGED <<rows, saved, pass, told>>, case' \in Cases, story' \in Seq(Kinds),
         hooks' \in [Hooks -> [pc : {"free", "read", "prepared"}, kind : Kinds, lift : BOOLEAN]],
         vault' \in [certificate : Nat, password : BOOLEAN], vault'.certificate = vault.certificate,
         case'.stage = case.stage \/ LockFree, case'.optOut => case.optOut
  PROVE  InboxInv'
<1>0. Shapes /\ DueInOrder /\ FilesInOrder /\ PairInHand /\ SaidIsSaved /\ LockHolds /\ CertificateIsKept
  BY DEF InboxInv
<1>1. Pending' = Pending
  BY DEF Pending
<1>2. Shapes' /\ DueInOrder' /\ FilesInOrder'
  BY <1>0, <1>1 DEF Shapes, DueInOrder, Conversational, FilesInOrder, Unread, ReadCertificate
<1>3. PairInHand' /\ SaidIsSaved' /\ CertificateIsKept'
  BY <1>0 DEF PairInHand, SaidIsSaved, CertificateIsKept
<1>4. LockHolds'
  BY <1>0, <1>1 DEF LockHolds, Locked, LockFree
<1> QED BY <1>2, <1>3, <1>4 DEF InboxInv

LEMMA QuietSteps ==
  ASSUME InboxInv, \/ DeadlinePasses \/ Delivered \/ Escalate \/ Pause \/ Recover
                   \/ \E h \in Hooks : HookReads(h) \/ HookPrepares(h)
  PROVE  InboxInv'
<1>0. /\ story \in Seq(Kinds) /\ case \in Cases /\ vault \in [certificate : Nat, password : BOOLEAN]
      /\ hooks \in [Hooks -> [pc : {"free", "read", "prepared"}, kind : Kinds, lift : BOOLEAN]]
  BY DEF InboxInv, Shapes
<1>1. CASE DeadlinePasses \/ Delivered
  <2>1. /\ case' \in Cases /\ case'.stage = case.stage /\ case'.optOut = case.optOut
        /\ UNCHANGED <<story, rows, vault, saved, pass, hooks, told>>
    BY <1>0, <1>1 DEF DeadlinePasses, Delivered, Cases
  <2> QED BY <1>0, <2>1, CaseSteps
<1>2. CASE Escalate \/ Pause \/ Recover
  <2>1. /\ case' \in Cases /\ LockFree /\ case'.optOut = case.optOut
        /\ UNCHANGED <<story, rows, vault, saved, pass, hooks, told>>
    BY <1>0, <1>2 DEF Escalate, Pause, Recover, Cases, Stages
  <2> QED BY <1>0, <2>1, CaseSteps
<1>3. ASSUME NEW h \in Hooks, HookReads(h)
      PROVE  InboxInv'
  <2>1. Head(story) \in Kinds /\ Tail(story) \in Seq(Kinds)
    BY <1>0, <1>3 DEF HookReads
  <2>2. PICK lift \in BOOLEAN : hooks' = [hooks EXCEPT ![h] = [pc |-> "read", kind |-> Head(story), lift |-> lift]]
    <3>1. PICK asks : hooks' = [hooks EXCEPT ![h] =
            [pc |-> "read", kind |-> Head(story),
             lift |-> (asks \/ Head(story) \in Files) /\ (case.optOut \/ case.paused)
                      /\ case.stage # "HELD"]]
      BY <1>3 DEF HookReads
    <3>2. ((asks \/ Head(story) \in Files) /\ (case.optOut \/ case.paused) /\ case.stage # "HELD") \in BOOLEAN
      OBVIOUS
    <3> QED BY <3>1, <3>2
  <2>3. hooks' \in [Hooks -> [pc : {"free", "read", "prepared"}, kind : Kinds, lift : BOOLEAN]]
    BY <1>0, <2>1, <2>2
  <2> QED BY <1>0, <1>3, <2>1, <2>3, CaseSteps DEF HookReads
<1>4. ASSUME NEW h \in Hooks, HookPrepares(h)
      PROVE  InboxInv'
  <2>1. /\ vault' \in [certificate : Nat, password : BOOLEAN] /\ vault'.certificate = vault.certificate
        /\ UNCHANGED <<story, rows, saved, pass, told>>
    BY <1>0, <1>4 DEF HookPrepares
  <2>2. case' \in Cases /\ case'.stage = case.stage /\ (case'.optOut => case.optOut)
    BY <1>0, <1>4 DEF HookPrepares, Cases
  <2>3. hooks' \in [Hooks -> [pc : {"free", "read", "prepared"}, kind : Kinds, lift : BOOLEAN]]
    BY <1>0, <1>4, ZenonT(60) DEF HookPrepares
  <2> QED BY <1>0, <2>1, <2>2, <2>3, CaseSteps
<1> QED BY <1>1, <1>2, <1>3, <1>4

(* A message arrives: it is the newest, it waits for its quiet time, and    *)
(* whatever waits for one waits again.                                      *)
LEMMA MessageArrives ==
  ASSUME InboxInv, NEW h \in Hooks, HookIngests(h)
  PROVE  InboxInv'
<1> DEFINE k == hooks[h].kind
           off(i) == k \in Texts \cup Files /\ rows[i].status = "PENDING" /\ Conversational(rows[i])
           put(i) == IF off(i) THEN [rows[i] EXCEPT !.due = FALSE] ELSE rows[i]
           old == [i \in DOMAIN rows |-> put(i)]
           n == Len(rows) + 1
<1>0. Shapes /\ DueInOrder /\ FilesInOrder /\ PairInHand /\ SaidIsSaved /\ LockHolds /\ CertificateIsKept
  BY DEF InboxInv
<1>1. /\ Len(rows) \in Nat /\ DOMAIN rows = 1..Len(rows) /\ \A i \in DOMAIN rows : rows[i] \in RowShapes
      /\ Pending \subseteq DOMAIN rows
  BY <1>0, Rows
<1>2. k \in Kinds
  BY <1>0 DEF Shapes
<1>3. /\ rows' = Append(old, Row(k)) /\ UNCHANGED <<story, vault, saved, pass, told>>
      /\ case' = IF k = "STOP" THEN [case EXCEPT !.optOut = TRUE, !.paused = TRUE] ELSE case
      /\ hooks' = [hooks EXCEPT ![h] = NoHook]
  BY DEF HookIngests
<1>4. /\ Row(k) \in RowShapes /\ Row(k).status = "PENDING" /\ Row(k).kind = k /\ Row(k).check = "NONE"
      /\ Conversational(Row(k)) => ~Row(k).due /\ k \in Texts \cup Files
      /\ ~ (Row(k).kind = "CERT_FILE" /\ Row(k).type = "CONVERSATION_TEXT")
  BY <1>2 DEF Row, RowShapes, Kinds, Texts, Files, Checks, Conversational
<1>5. \A i \in DOMAIN rows : /\ put(i) \in RowShapes /\ put(i).kind = rows[i].kind /\ put(i).type = rows[i].type
                             /\ put(i).check = rows[i].check /\ put(i).status = rows[i].status
                             /\ put(i).due => rows[i].due /\ ~off(i)
                             /\ ~off(i) => put(i).due = rows[i].due
  BY <1>1 DEF RowShapes
<1> HIDE DEF k, put
<1>6. old \in Seq(RowShapes) /\ Len(old) = Len(rows) /\ \A i \in DOMAIN rows : old[i] = put(i)
  <2>1. old \in [1..Len(rows) -> RowShapes] /\ \A i \in DOMAIN rows : old[i] = put(i)
    BY <1>1, <1>5
  <2> HIDE DEF old
  <2> QED BY <1>1, <2>1
<1> HIDE DEF old
<1>7. /\ rows' \in Seq(RowShapes) /\ Len(rows') = n /\ rows'[n] = Row(k)
      /\ \A i \in DOMAIN rows : rows'[i] = put(i)
  BY <1>1, <1>3, <1>4, <1>6, AppendProperties
<1>8. DOMAIN rows' = DOMAIN rows \cup {n} /\ \A i \in DOMAIN rows : i < n /\ i \in Nat
  <2>1. DOMAIN rows' = 1..n
    BY <1>7, LenProperties
  <2> QED BY <1>1, <2>1
<1>9. Pending' = Pending \cup {n}
  BY <1>4, <1>5, <1>7, <1>8 DEF Pending
<1>10. case' \in Cases /\ case'.stage = case.stage /\ (case'.optOut => case.optOut \/ k = "STOP")
  BY <1>0, <1>3 DEF Shapes, Cases
<1>11. Shapes'
  <2>1. NoHook \in [pc : {"free", "read", "prepared"}, kind : Kinds, lift : BOOLEAN]
    BY DEF NoHook, Kinds
  <2>2. hooks' \in [Hooks -> [pc : {"free", "read", "prepared"}, kind : Kinds, lift : BOOLEAN]]
    BY <1>0, <1>3, <2>1 DEF Shapes
  <2> QED BY <1>0, <1>3, <1>7, <1>10, <2>2 DEF Shapes
<1>12. DueInOrder'
  <2> SUFFICES ASSUME NEW i \in Pending', NEW j \in Pending', i < j, (Conversational(rows[i]))',
                      (Conversational(rows[j]))', rows'[j].due
               PROVE  rows'[i].due
    BY DEF DueInOrder
  <2>1. j # n
    BY <1>4, <1>7 DEF Conversational
  <2>2. j \in Pending /\ j \in DOMAIN rows /\ i \in Pending /\ i \in DOMAIN rows
    BY <1>1, <1>8, <1>9, <2>1
  <2>3. Conversational(rows[i]) /\ Conversational(rows[j]) /\ rows[j].due /\ ~off(j)
    BY <1>5, <1>7, <2>2 DEF Conversational
  <2>4. rows[i].due
    BY <1>0, <2>2, <2>3 DEF DueInOrder
  <2>5. ~off(i)
    BY <2>2, <2>3 DEF Pending
  <2> QED BY <1>5, <1>7, <2>2, <2>4, <2>5
<1>13. FilesInOrder'
  <2>1. \A i \in DOMAIN rows : ((Unread(i))' <=> Unread(i)) /\ ((ReadCertificate(i))' <=> ReadCertificate(i))
    BY <1>5, <1>7, <1>8, <1>9 DEF Unread, ReadCertificate
  <2>2. \A i \in DOMAIN rows' : (ReadCertificate(i))' => i \in DOMAIN rows
    BY <1>4, <1>7, <1>8 DEF ReadCertificate
  <2>3. pass.files \subseteq DOMAIN rows
    BY <1>0, <1>1 DEF FilesInOrder, Unread
  <2>4. \A i \in pass'.files : (Unread(i))' /\ \A j \in DOMAIN rows' : (Unread(j))' => j \in pass'.files \/ i < j
    BY <1>0, <1>3, <1>8, <2>1, <2>3 DEF FilesInOrder
  <2>5. \A i, j \in DOMAIN rows' : (ReadCertificate(i))' /\ (Unread(j))' => i < j
    BY <1>0, <1>8, <2>1, <2>2 DEF FilesInOrder
  <2> QED BY <1>0, <1>3, <2>4, <2>5 DEF FilesInOrder
<1>14. PairInHand'
  <2>1. pass.pc = "mark" => Min(pass.files) \in DOMAIN rows
    BY OldestFile DEF FilePcs
  <2> QED BY <1>0, <1>3, <1>5, <1>7, <2>1 DEF PairInHand
<1>15. SaidIsSaved'
  BY <1>0, <1>3, <1>4, <1>5, <1>7, <1>8 DEF SaidIsSaved
<1>16. LockHolds'
  <2>1. pass.pc \in {"row"} \cup Locked => pass.snap <= Len(rows')
    BY <1>0, <1>1, <1>7 DEF LockHolds, Shapes, Passes
  <2>2. pass.pc = "commit" /\ case'.optOut => \E i \in Pending' \ pass.turn : i > pass.snap
    <3>1. CASE pass.pc = "commit" /\ k = "STOP"
      <4>1. n \notin pass.turn /\ n > pass.snap
        BY <1>0, <1>1, <3>1 DEF LockHolds, Locked, Shapes, Passes
      <4> QED BY <1>9, <4>1
    <3>2. CASE pass.pc = "commit" /\ case.optOut
      BY <1>0, <1>9, <3>2 DEF LockHolds
    <3> QED BY <1>10, <3>1, <3>2
  <2> QED BY <1>0, <1>3, <1>8, <1>10, <2>1, <2>2 DEF LockHolds
<1>17. CertificateIsKept'
  BY <1>0, <1>3, <1>4, <1>5, <1>7, <1>8 DEF CertificateIsKept
<1> QED BY <1>11, <1>12, <1>13, <1>14, <1>15, <1>16, <1>17 DEF InboxInv
(* ------------------------- the inductive invariant ---------------------- *)
StoriesAreSent == Stories \subseteq Seq(Kinds)

LEMMA InboxInit == StoriesAreSent /\ Init => InboxInv
<1> SUFFICES ASSUME StoriesAreSent, Init PROVE InboxInv
  OBVIOUS
<1>1. rows = <<>> /\ DOMAIN rows = {} /\ Pending = {}
  BY DEF Init, Pending
<1>2. /\ pass \in Passes /\ pass.pc = "idle" /\ pass.files = {} /\ pass.check = "NONE"
      /\ case \in Cases
  BY DEF Init, Idle, Passes, Cases, Stages, Checks
<1>3. Shapes
  <2>1. hooks \in [Hooks -> [pc : {"free", "read", "prepared"}, kind : Kinds, lift : BOOLEAN]]
    BY DEF Init, NoHook, Kinds
  <2>2. story \in Seq(Kinds) /\ rows \in Seq(RowShapes)
    BY <1>1 DEF Init, StoriesAreSent
  <2>3. vault \in [certificate : Nat, password : BOOLEAN] /\ saved \subseteq Nat
    BY DEF Init, NoSlots
  <2> QED BY <1>2, <2>1, <2>2, <2>3 DEF Shapes
<1>4. DueInOrder /\ FilesInOrder /\ PairInHand /\ SaidIsSaved /\ LockHolds
  BY <1>1, <1>2 DEF DueInOrder, FilesInOrder, PairInHand, SaidIsSaved, LockHolds, FilePcs, Locked
<1>5. CertificateIsKept
  BY <1>1 DEF CertificateIsKept, Init
<1> QED BY <1>3, <1>4, <1>5 DEF InboxInv

LEMMA InboxStep == InboxInv /\ [Next]_vars => InboxInv'
<1> SUFFICES ASSUME InboxInv, [Next]_vars PROVE InboxInv'
  OBVIOUS
<1>1. CASE Webhook
  BY <1>1, QuietSteps, MessageArrives DEF Webhook
<1>2. CASE Time
  BY <1>2, QuietSteps, TimeSteps DEF Time
<1>3. CASE PassSteps
  BY <1>3, Begins, ReadsFile, ChecksPair, SavesPair, ClearsSlots, MarksRow, PageSteps, TurnSteps, OverSteps
     DEF PassSteps, PairOfFile, PairOfTurn
<1>4. CASE PassFails
  BY <1>4, OverSteps
<1>5. CASE Delivered \/ Office
  BY <1>5, QuietSteps DEF Office
<1>6. CASE UNCHANGED vars
  <2>1. Pending' = Pending
    BY <1>6 DEF Pending, vars
  <2>2. Shapes' /\ DueInOrder' /\ FilesInOrder' /\ PairInHand' /\ SaidIsSaved' /\ LockHolds' /\ CertificateIsKept'
    BY <1>6, <2>1 DEF InboxInv, vars, Shapes, DueInOrder, Conversational, FilesInOrder, Unread,
      ReadCertificate, PairInHand, SaidIsSaved, LockHolds, CertificateIsKept
  <2> QED BY <2>2 DEF InboxInv
<1> QED BY <1>1, <1>2, <1>3, <1>4, <1>5, <1>6 DEF Next

(* However the messages, the passes and their failures fall, every file     *)
(* read for a certificate has itself or a later one in the slot or in the   *)
(* record, so the newest is never lost between the two; and while the       *)
(* record is empty nobody is told that a pair was stored (AttachmentIntake, *)
(* CredentialVault).                                                        *)
THEOREM NoCertificateIsLost == StoriesAreSent /\ Spec => []CertificateIsKept
<1>1. InboxInv => CertificateIsKept
  BY DEF InboxInv
<1> QED BY InboxInit, InboxStep, <1>1, PTL DEF Spec, StoriesAreSent

(* A turn is committed only on a case the bot may still answer.             *)
LEMMA CommitsOnOpenCase == InboxInv /\ CommitTurn => ~case.optOut /\ case.stage # "HELD"
<1> SUFFICES ASSUME InboxInv, CommitTurn PROVE ~case.optOut /\ case.stage # "HELD"
  OBVIOUS
<1>1. pass.pc = "commit" /\ LockHolds /\ Newer = {}
  BY DEF InboxInv, CommitTurn
<1>2. case.optOut => \E i \in Pending \ pass.turn : i > pass.snap
  BY <1>1 DEF LockHolds
<1>3. case.stage # "HELD"
  BY <1>1 DEF LockHolds, Locked
<1> QED BY <1>1, <1>2, <1>3 DEF Newer

(* After the last look at the case no STOP is talked over, and no case that *)
(* a person holds is answered by the bot (processInbox).                    *)
THEOREM TurnsAreStopped == StoriesAreSent /\ Spec => [][DropsAfterStop /\ LeavesToPerson]_vars
<1>1. InboxInv /\ [Next]_vars => [DropsAfterStop /\ LeavesToPerson]_vars
  BY CommitsOnOpenCase DEF DropsAfterStop, LeavesToPerson
<1> QED BY InboxInit, InboxStep, <1>1, PTL DEF Spec, StoriesAreSent

(* ---------------------- the check of a certificate ---------------------- *)
CheckInv ==
  /\ step # "done" => answer = "none"
  /\ step \in {"commit", "close"} => records # {}

LEMMA CheckInit == Cer!Init => CheckInv
  BY DEF Cer!Init, Cer!Nothing, CheckInv

LEMMA CheckStep == CheckInv /\ [Cer!Next]_(Cer!vars) => CheckInv'
<1> SUFFICES ASSUME CheckInv, [Cer!Next]_(Cer!vars) PROVE CheckInv'
  OBVIOUS
<1>1. CASE Cer!Read \/ Cer!NoneOpens \/ Cer!Decide \/ Cer!Load \/ Cer!Recheck
  BY <1>1 DEF CheckInv, Cer!Read, Cer!NoneOpens, Cer!Decide, Cer!Load, Cer!Recheck, Cer!Answer
<1>2. CASE Cer!Try \/ Cer!Inspect
  BY <1>2 DEF CheckInv, Cer!Try, Cer!Inspect, Cer!Answer
<1>3. CASE Cer!Keep \/ Cer!Save \/ Cer!Close \/ Cer!CaseChanges
  BY <1>3 DEF CheckInv, Cer!Keep, Cer!Save, Cer!Close, Cer!CaseChanges, Cer!Answer
<1>4. CASE UNCHANGED Cer!vars
  BY <1>4 DEF CheckInv, Cer!vars
<1> QED BY <1>1, <1>2, <1>3, <1>4 DEF Cer!Next

LEMMA ClosesOnLoaded == CheckInv /\ Cer!Next => Cer!ClosesAsLoaded
<1> SUFFICES ASSUME CheckInv, Cer!Next, answer' = "CERTIFICATE_READY"
             PROVE  file \cap {"closed", "moved"} = {} /\ records # {}
  BY DEF Cer!ClosesAsLoaded
<1>1. CASE Cer!Close
  BY <1>1 DEF CheckInv, Cer!Close, Cer!SameVersion, Cer!Answer
<1>2. CASE Cer!Read
  BY <1>2 DEF CheckInv, Cer!Read, Cer!Answer, Cer!Route
<1>3. CASE Cer!Decide
  BY <1>3 DEF CheckInv, Cer!Decide, Cer!Answer, Cer!Verdict
<1>4. CASE Cer!Try \/ Cer!NoneOpens \/ Cer!Inspect
  BY <1>4 DEF CheckInv, Cer!Try, Cer!NoneOpens, Cer!Inspect, Cer!Answer
<1>5. CASE Cer!Keep \/ Cer!Load \/ Cer!Save \/ Cer!Recheck \/ Cer!CaseChanges
  BY <1>5 DEF CheckInv, Cer!Keep, Cer!Load, Cer!Save, Cer!Recheck, Cer!CaseChanges, Cer!Answer
<1> QED BY <1>1, <1>2, <1>3, <1>4, <1>5 DEF Cer!Next

(* Phase one closes as CERTIFICATE_READY only on the case that was loaded,  *)
(* neither moved nor closed meanwhile, and with the archive in the vault    *)
(* (phase-one.routes, closePhaseOne).                                       *)
THEOREM ClosedAsLoaded == Cer!Spec => [][Cer!ClosesAsLoaded]_(Cer!vars)
<1>1. CheckInv /\ [Cer!Next]_(Cer!vars) => [Cer!ClosesAsLoaded]_(Cer!vars)
  BY ClosesOnLoaded
<1> QED BY CheckInit, CheckStep, <1>1, PTL DEF Cer!Spec

(* ------------------------ whose certificate it is ----------------------- *)
(* An upload is a file with its lists of keys and certificates, each with   *)
(* its Names, and the passwords that came with it; the office gives one.    *)
KeyRecords == [name : Names, rsa : BOOLEAN, strong : BOOLEAN]
CertRecords == [key : Names, leaf : BOOLEAN, window : {"now", "past", "future"}, ids : SUBSET Names]
IsUpload(u) ==
  /\ u.via \in {"whatsapp", "office"}
  /\ u.passwords \in Seq({"right", "wrong"}) /\ (u.via = "office" => Len(u.passwords) = 1)
  /\ u.file.size \in {"empty", "fits", "large"} /\ u.file.form \in {"broken", "open", "sealed"}
  /\ u.file.keys \in Seq(KeyRecords)
  /\ u.file.certs \in Seq(CertRecords)
  /\ \A c \in DOMAIN u.file.certs : IsFiniteSet(u.file.certs[c].ids)
UploadsAreFiles == \A u \in Uploads : IsUpload(u)

(* What the runs upload is of that kind.                                    *)
LEMMA UploadsOfTheRuns ==
  ASSUME {"k1", "k2", "ec", "weak", "ca", "client", "other"} \subseteq Names
  PROVE  \A u \in CerData!AnyUpload : IsUpload(u)
<1> DEFINE Fine == {c \in CertRecords : IsFiniteSet(c.ids)}
           IsFile(f) == /\ f.size \in {"empty", "fits", "large"} /\ f.form \in {"broken", "open", "sealed"}
                        /\ f.keys \in Seq(KeyRecords) /\ f.certs \in Seq(Fine)
<1>1. \A S : <<>> \in Seq(S) /\ \A a, b \in S : <<a>> \in Seq(S) /\ <<a, b>> \in Seq(S)
  OBVIOUS
<1>3. \A k \in CerData!KeySeqs : k \in Seq(KeyRecords)
  <2>1. /\ CerData!Key("k1") \in KeyRecords /\ CerData!Key("k2") \in KeyRecords
        /\ CerData!Key("ec") \in KeyRecords /\ CerData!Key("weak") \in KeyRecords
    BY DEF CerData!Key, KeyRecords
  <2> QED BY <1>1, <2>1, Zenon DEF CerData!KeySeqs
<1>4. \A i \in {{}, {"client"}, {"other"}, {"client", "other"}} : IsFiniteSet(i) /\ i \in SUBSET Names
  <2>1. IsFiniteSet({}) /\ IsFiniteSet({"client"}) /\ IsFiniteSet({"other"})
    BY FS_EmptySet, FS_Singleton
  <2>2. IsFiniteSet({"client"} \cup {"other"})
    BY <2>1, FS_Union
  <2>3. {"client", "other"} = {"client"} \cup {"other"}
    OBVIOUS
  <2>4. {"client", "other"} \in SUBSET Names
    OBVIOUS
  <2> QED BY <2>1, <2>2, <2>3, <2>4
<1>5. CerData!Certs \subseteq Fine
  <2>1. ASSUME NEW k \in Names, NEW l \in BOOLEAN, NEW w \in {"now", "past", "future"},
               NEW i \in SUBSET Names, IsFiniteSet(i)
        PROVE  [key |-> k, leaf |-> l, window |-> w, ids |-> i] \in Fine
    BY <2>1 DEF CertRecords
  <2> SUFFICES ASSUME NEW c \in CerData!Certs PROVE c \in Fine
    OBVIOUS
  <2>2. /\ c = [key |-> c.key, leaf |-> c.leaf, window |-> c.window, ids |-> c.ids]
        /\ c.key \in {"k1", "k2"} /\ c.leaf \in BOOLEAN /\ c.window \in {"now", "past", "future"}
        /\ c.ids \in {{}, {"client"}, {"other"}, {"client", "other"}}
    BY DEF CerData!Certs
  <2>3. c.key \in Names /\ IsFiniteSet(c.ids) /\ c.ids \in SUBSET Names
    BY <1>4, <2>2
  <2> HIDE DEF Fine
  <2> QED BY <2>1, <2>2, <2>3
<1>6. CerData!Mine \in Fine /\ CerData!Ca \in Fine /\ CerData!Weak \in Fine
  <2>1. IsFiniteSet({}) /\ IsFiniteSet({"client"})
    BY <1>4
  <2>2. CerData!Mine \in CertRecords /\ CerData!Mine.ids = {"client"}
    BY DEF CerData!Mine, CertRecords
  <2>3. CerData!Ca \in CertRecords /\ CerData!Ca.ids = {}
    BY DEF CerData!Ca, CertRecords
  <2>4. CerData!Weak \in CertRecords /\ CerData!Weak.ids = {"client"}
    BY <2>2 DEF CerData!Weak, CertRecords
  <2> QED BY <2>1, <2>2, <2>3, <2>4
<1>7. \A c \in CerData!CertSeqs : c \in Seq(Fine)
  <2> HIDE DEF Fine
  <2> QED BY <1>1, <1>5, <1>6, Zenon DEF CerData!CertSeqs
<1>8. \A size, form, k, c :
        /\ size \in {"empty", "fits", "large"} /\ form \in {"broken", "open", "sealed"}
        /\ k \in Seq(KeyRecords) /\ c \in Seq(Fine)
        => IsFile(CerData!Archive(size, form, k, c))
  <2> HIDE DEF Fine
  <2> QED BY DEF CerData!Archive
<1>9. /\ CerData!Key("k1") \in KeyRecords
      /\ <<CerData!Key("k1")>> \in Seq(KeyRecords) /\ <<CerData!Mine>> \in Seq(Fine)
  <2>1. CerData!Key("k1") \in KeyRecords
    BY DEF CerData!Key, KeyRecords
  <2> HIDE DEF Fine
  <2> QED BY <1>1, <1>6, <2>1
<1>10. \A f \in CerData!Archives : IsFile(f)
  <2> HIDE DEF Fine, IsFile
  <2>1. \A k \in CerData!KeySeqs, c \in CerData!CertSeqs : IsFile(CerData!Archive("fits", "sealed", k, c))
    BY <1>3, <1>7, <1>8
  <2>2. \A z \in {"empty", "fits", "large"}, o \in {"broken", "open", "sealed"} :
          IsFile(CerData!Archive(z, o, <<CerData!Key("k1")>>, <<CerData!Mine>>))
    BY <1>8, <1>9
  <2> QED BY <2>1, <2>2 DEF CerData!Archives
<1>11. IsFile(CerData!Sealed)
  <2> HIDE DEF Fine, IsFile
  <2> QED BY <1>8, <1>9 DEF CerData!Sealed
<1>12. \A f \in CerData!OtherFiles : IsFile(f)
  <2>1. \A t : LET f == [CerData!Sealed EXCEPT !.traits = t]
               IN  /\ f.size = CerData!Sealed.size /\ f.form = CerData!Sealed.form
                   /\ f.keys = CerData!Sealed.keys /\ f.certs = CerData!Sealed.certs
    BY DEF CerData!Sealed, CerData!Archive
  <2>2. \A f \in CerData!OtherFiles : \E t : f = [CerData!Sealed EXCEPT !.traits = t]
    BY DEF CerData!OtherFiles
  <2> HIDE DEF Fine
  <2> QED BY <1>11, <2>1, <2>2
<1>13. \A f : IsFile(f) =>
         /\ f.size \in {"empty", "fits", "large"} /\ f.form \in {"broken", "open", "sealed"}
         /\ f.keys \in Seq(KeyRecords) /\ f.certs \in Seq(CertRecords)
         /\ \A c \in DOMAIN f.certs : IsFiniteSet(f.certs[c].ids)
  <2> SUFFICES ASSUME NEW f, IsFile(f)
               PROVE  /\ f.certs \in Seq(CertRecords)
                      /\ \A c \in DOMAIN f.certs : IsFiniteSet(f.certs[c].ids)
    OBVIOUS
  <2>1. f.certs \in Seq(Fine) /\ \A c \in DOMAIN f.certs : f.certs[c] \in Fine
    <3> HIDE DEF Fine
    <3> QED OBVIOUS
  <2>2. Fine \subseteq CertRecords /\ \A c \in Fine : IsFiniteSet(c.ids)
    OBVIOUS
  <2> HIDE DEF Fine
  <2> QED BY <2>1, <2>2
<1>14. ASSUME NEW f, IsFile(f), NEW e, NEW via \in {"whatsapp", "office"}, NEW p \in Seq({"right", "wrong"}),
             via = "office" => Len(p) = 1
      PROVE  IsUpload(CerData!U(via, f, p, e))
  <2> DEFINE u == CerData!U(via, f, p, e)
  <2>1. u.via = via /\ u.file = f /\ u.passwords = p
    BY DEF CerData!U
  <2> HIDE DEF IsFile, u
  <2>2. IsUpload(u)
    BY <1>13, <1>14, <2>1 DEF IsUpload
  <2> QED BY <2>2 DEF u
<1>15. /\ \A p \in CerData!Given : p \in Seq({"right", "wrong"})
       /\ <<"right">> \in Seq({"right", "wrong"}) /\ <<"wrong">> \in Seq({"right", "wrong"})
       /\ <<"wrong", "right">> \in Seq({"right", "wrong"})
       /\ Len(<<"right">>) = 1 /\ Len(<<"wrong">>) = 1
  BY <1>1 DEF CerData!Given
<1>16. ASSUME NEW u \in CerData!AnyUpload PROVE IsUpload(u)
  <2> HIDE DEF Fine, IsFile
  <2> DEFINE FromOffice == {g \in CerData!Archives : Len(g.certs) = 1 /\ g.certs[1].window = "now"}
  <2>1. CASE u \in {CerData!U("whatsapp", f, <<"wrong", "right">>, "client") : f \in CerData!Archives}
    BY <1>10, <1>14, <1>15, <2>1
  <2>2. CASE u \in {CerData!U("whatsapp", CerData!Sealed, p, e) : p \in CerData!Given, e \in {"client", "invalid"}}
    <3>1. PICK p \in CerData!Given, e \in {"client", "invalid"} : u = CerData!U("whatsapp", CerData!Sealed, p, e)
      BY <2>2
    <3> QED BY <1>11, <1>14, <1>15, <3>1
  <2>3. CASE u \in {CerData!U("whatsapp", f, <<"right">>, "client") : f \in CerData!OtherFiles}
    BY <1>12, <1>14, <1>15, <2>3
  <2>4. CASE u \in {CerData!U("office", f, <<"right">>, "client") : f \in FromOffice}
    BY <1>10, <1>14, <1>15, <2>4
  <2>5. CASE u \in {CerData!U("office", CerData!Sealed, <<"wrong">>, e) : e \in {"client", "invalid"}}
    BY <1>11, <1>14, <1>15, <2>5
  <2> QED BY <2>1, <2>2, <2>3, <2>4, <2>5 DEF CerData!AnyUpload
<1> QED BY <1>16

(* What the certificate and its key must be.                                *)
Fits(c) == c.window = "now" /\ c.ids = {upload.expected} /\ upload.expected # "invalid" /\ Cer!TheKey.strong
LEMMA FitsUnlessReasons ==
  ASSUME NEW c, c.window \in {"now", "past", "future"}, IsFiniteSet(c.ids), Cer!Paired, Cer!TheKey.strong \in BOOLEAN
  PROVE  Cer!CertificateReasons(c) = {} <=> Fits(c)
<1>1. Cer!Cardinality(c.ids) = Cardinality(c.ids) /\ Cardinality(c.ids) \in Nat
  BY FS_CardinalityType DEF Cer!Cardinality, Cardinality
<1>2. c.ids # {} /\ ~(Cardinality(c.ids) > 1) <=> \E x : c.ids = {x}
  <2>1. /\ Cardinality(c.ids) = 0 <=> c.ids = {}
        /\ Cardinality(c.ids) = 1 <=> \E x : c.ids = {x}
    BY FS_EmptySet, FS_Singleton
  <2> QED BY <1>1, <2>1
<1>3. Cer!IdentityReasons(c) = {} <=> upload.expected # "invalid" /\ c.ids = {upload.expected}
  <2>1. CASE upload.expected = "invalid"
    BY <2>1 DEF Cer!IdentityReasons
  <2>2. CASE upload.expected # "invalid" /\ c.ids = {}
    BY <2>2 DEF Cer!IdentityReasons
  <2>3. CASE upload.expected # "invalid" /\ c.ids # {} /\ upload.expected \notin c.ids
    BY <2>3 DEF Cer!IdentityReasons
  <2>4. CASE upload.expected # "invalid" /\ c.ids # {} /\ upload.expected \in c.ids
    BY <2>4, <1>1, <1>2 DEF Cer!IdentityReasons
  <2> QED BY <2>1, <2>2, <2>3, <2>4
<1> QED BY <1>3 DEF Cer!CertificateReasons, Fits

Alone == /\ Len(Cer!File.keys) = 1 /\ Cer!File.keys[1].rsa
         /\ \E c \in DOMAIN Cer!File.certs : Cer!Leaves = {c} /\ Cer!KeyMatches(1, c)
LEMMA AloneUnlessReasons ==
  ASSUME IsUpload(upload), Cer!File.certs # <<>>
  PROVE  Cer!ArchiveReasons = {} /\ Cer!Paired <=> Alone
<1> DEFINE f == Cer!File
<1>1. /\ Len(f.keys) \in Nat /\ DOMAIN f.keys = 1..Len(f.keys)
      /\ IsFiniteSet(DOMAIN f.certs) /\ Cer!Leaves \subseteq DOMAIN f.certs
  <2>1. f.certs \in Seq(CertRecords)
    BY DEF IsUpload, Cer!File
  <2>2. DOMAIN f.certs = 1..Len(f.certs) /\ Len(f.certs) \in Nat
    BY <2>1
  <2>3. IsFiniteSet(DOMAIN f.certs)
    BY <2>2, FS_Interval
  <2> QED BY <2>3 DEF IsUpload, Cer!File, Cer!Leaves
<1>2. IsFiniteSet(Cer!Leaves) /\ Cer!Cardinality(Cer!Leaves) = Cardinality(Cer!Leaves)
  BY <1>1, FS_Subset DEF Cer!Cardinality, Cardinality
<1>3. Cardinality(Cer!Leaves) = 1 <=> \E c : Cer!Leaves = {c}
  BY <1>2, FS_Singleton
<1>4. Cer!ArchiveReasons = {} <=>
        /\ Len(f.keys) = 1 /\ Cardinality(Cer!Leaves) = 1
        /\ f.keys # <<>> /\ Cer!RsaKeys # {} /\ Cer!Paired
  BY <1>2 DEF Cer!ArchiveReasons
<1>5. ASSUME Len(f.keys) = 1 PROVE /\ DOMAIN f.keys = {1} /\ f.keys # <<>>
                                  /\ Cer!RsaKeys = IF f.keys[1].rsa THEN {1} ELSE {}
  <2>1. DOMAIN f.keys = {1}
    BY <1>1, <1>5
  <2>2. f.keys # <<>>
    BY <1>5
  <2> QED BY <2>1, <2>2 DEF Cer!RsaKeys
<1>6. ASSUME Len(f.keys) = 1, f.keys[1].rsa, NEW c, Cer!Leaves = {c}
      PROVE  Cer!Paired <=> Cer!KeyMatches(1, c)
  BY <1>5, <1>6 DEF Cer!Paired, Cer!PairedKeys, Cer!LeavesOf
<1>7. ASSUME Cer!ArchiveReasons = {}, Cer!Paired PROVE Alone
  <2>1. PICK c : Cer!Leaves = {c}
    BY <1>3, <1>4, <1>7
  <2>2. Len(f.keys) = 1 /\ f.keys[1].rsa
    BY <1>4, <1>5, <1>7
  <2> QED BY <1>1, <1>6, <1>7, <2>1, <2>2 DEF Alone
<1>8. ASSUME Alone PROVE Cer!ArchiveReasons = {} /\ Cer!Paired
  <2>1. PICK c \in DOMAIN f.certs : Cer!Leaves = {c} /\ Cer!KeyMatches(1, c)
    BY <1>8 DEF Alone
  <2>2. Cer!Paired
    BY <1>6, <1>8, <2>1 DEF Alone
  <2> QED BY <1>3, <1>4, <1>5, <1>8, <2>1, <2>2 DEF Alone
<1> QED BY <1>7, <1>8

LEMMA AloneIsInspected ==
  ASSUME IsUpload(upload), Alone
  PROVE  \E c \in DOMAIN Cer!File.certs :
           /\ Cer!Leaves = {c} /\ Cer!KeyMatches(1, c)
           /\ Cer!Certificate = Cer!File.certs[c] /\ Cer!TheKey = Cer!File.keys[1] /\ Cer!Paired
<1>1. PICK c \in DOMAIN Cer!File.certs : Cer!Leaves = {c} /\ Cer!KeyMatches(1, c)
  BY DEF Alone
<1>2. Cer!File.keys \in Seq(KeyRecords) /\ c \in Nat
  BY DEF IsUpload, Cer!File
<1>3. DOMAIN Cer!File.keys = {1}
  BY <1>2 DEF Alone
<1>4. Cer!RsaKeys = {1}
  BY <1>3 DEF Alone, Cer!RsaKeys
<1>5. Cer!LeavesOf(1) = {c}
  BY <1>1 DEF Cer!LeavesOf
<1>6. Cer!PairedKeys = {1}
  BY <1>4, <1>5 DEF Cer!PairedKeys
<1>7. \A i \in Nat : Cer!Min({i}) = i
  <2>1. \A S : Cer!Min(S) = Min(S)
    BY DEF Cer!Min, Min
  <2> QED BY <2>1, Oldest
<1>8. Cer!Paired /\ Cer!Min(Cer!PairedKeys) = 1 /\ Cer!Min(Cer!LeavesOf(1)) = c
  BY <1>2, <1>5, <1>6, <1>7 DEF Cer!Paired
<1> QED BY <1>1, <1>8 DEF Cer!Certificate, Cer!TheKey

LEMMA OwnIsUsable ==
  ASSUME IsUpload(upload), NEW p \in {"right", "wrong"}
  PROVE  /\ Cer!Usable(Cer!InspectMaterial(p)) <=> Cer!ClientsOwn(Cer!File) /\ p = "right"
         /\ Cer!InspectMaterial(p).opened <=> Cer!File.size = "fits" /\ Cer!File.form = "sealed" /\ p = "right"
<1> DEFINE f == Cer!File
           opens == f.size = "fits" /\ f.form = "sealed" /\ p = "right"
           i == Cer!InspectMaterial(p)
<1>1. i.opened <=> opens
  <2>1. f.size \in {"empty", "fits", "large"} /\ f.form \in {"broken", "open", "sealed"}
    BY DEF IsUpload, Cer!File
  <2>2. Cer!ParsePkcs12(p).opened <=> f.form = "sealed" /\ p = "right"
    <3>1. CASE f.form = "broken"
      BY <3>1 DEF Cer!ParsePkcs12, Cer!Refused
    <3>2. CASE f.form = "open"
      BY <3>2 DEF Cer!ParsePkcs12, Cer!Refused
    <3>3. CASE f.form = "sealed" /\ p = "wrong"
      BY <3>3 DEF Cer!ParsePkcs12, Cer!Refused
    <3>4. CASE f.form = "sealed" /\ p = "right"
      BY <3>4 DEF Cer!ParsePkcs12, Cer!Refused
    <3> QED BY <2>1, <3>1, <3>2, <3>3, <3>4
  <2>3. CASE f.size = "empty"
    <3>1. i = Cer!Refused({"EMPTY_PFX"}, FALSE)
      BY <2>3, Zenon DEF Cer!InspectMaterial
    <3> QED BY <2>3, <3>1 DEF Cer!Refused
  <2>4. CASE f.size = "large"
    <3>1. i = Cer!Refused({"PFX_TOO_LARGE"}, FALSE)
      BY <2>4 DEF Cer!InspectMaterial
    <3> QED BY <2>4, <3>1 DEF Cer!Refused
  <2>5. CASE f.size = "fits"
    <3>1. i.opened = Cer!ParsePkcs12(p).opened
      BY <2>5 DEF Cer!InspectMaterial, Cer!ParsePkcs12, Cer!Refused
    <3> QED BY <2>2, <2>5, <3>1
  <2> QED BY <2>1, <2>3, <2>4, <2>5
<1>2. ~opens => ~Cer!Usable(i)
  BY <1>1 DEF Cer!Usable
<1>3. ASSUME opens, f.certs = <<>> PROVE ~Cer!Usable(i) /\ ~Cer!ClientsOwn(f)
  <2>1. ~i.paired
    BY <1>3 DEF Cer!InspectMaterial, Cer!ParsePkcs12, Cer!Refused
  <2>2. {k \in DOMAIN f.certs : f.certs[k].leaf} = {}
    BY <1>3
  <2>3. Cer!Cardinality({k \in DOMAIN f.certs : f.certs[k].leaf}) = 0
    BY <2>2, FS_EmptySet DEF Cer!Cardinality, Cardinality
  <2> QED BY <2>1, <2>3 DEF Cer!Usable, Cer!ClientsOwn
<1>4. ASSUME opens, f.certs # <<>>
      PROVE  Cer!Usable(i) <=> /\ Alone
                               /\ Fits(Cer!Certificate)
  <2>1. /\ i.opened /\ i.paired = Cer!Paired
        /\ i.ours = (upload.expected # "invalid" /\ upload.expected \in Cer!Certificate.ids)
        /\ i.reasons = Cer!ArchiveReasons \cup Cer!CertificateReasons(Cer!Certificate)
    BY <1>4 DEF Cer!InspectMaterial, Cer!ParsePkcs12, Cer!Refused
  <2>2. ASSUME Alone
        PROVE  Cer!CertificateReasons(Cer!Certificate) = {} <=> Fits(Cer!Certificate)
    <3>1. PICK c \in DOMAIN f.certs : Cer!Certificate = f.certs[c] /\ Cer!TheKey = f.keys[1] /\ Cer!Paired
      BY <2>2, AloneIsInspected
    <3>2. /\ f.certs[c].window \in {"now", "past", "future"} /\ IsFiniteSet(f.certs[c].ids)
          /\ f.keys[1].strong \in BOOLEAN
      <4>1. f.keys \in Seq(KeyRecords) /\ Len(f.keys) = 1
        BY <2>2 DEF IsUpload, Cer!File, Alone
      <4>2. f.keys[1].strong \in BOOLEAN
        <5>1. f.keys[1] \in KeyRecords
          BY <4>1
        <5> QED BY <5>1 DEF KeyRecords
      <4>3. f.certs[c] \in CertRecords
        BY DEF IsUpload, Cer!File
      <4>4. f.certs[c].window \in {"now", "past", "future"}
        BY <4>3 DEF CertRecords
      <4> QED BY <4>2, <4>4 DEF IsUpload, Cer!File
    <3> QED BY <3>1, <3>2, FitsUnlessReasons
  <2>3. Cer!Usable(i) <=> /\ Cer!Paired /\ Cer!ArchiveReasons = {}
                          /\ Cer!CertificateReasons(Cer!Certificate) = {}
                          /\ upload.expected # "invalid" /\ upload.expected \in Cer!Certificate.ids
    BY <2>1 DEF Cer!Usable
  <2> QED BY <1>4, <2>2, <2>3, AloneUnlessReasons DEF Fits
<1>5. ASSUME opens, f.certs # <<>>
      PROVE  Alone /\ Fits(Cer!Certificate) <=> Cer!ClientsOwn(f)
  <2>1. ASSUME Alone PROVE Fits(Cer!Certificate) <=> Cer!ClientsOwn(f)
    <3>1. PICK c \in DOMAIN f.certs : /\ Cer!Leaves = {c} /\ Cer!KeyMatches(1, c)
                                      /\ Cer!Certificate = f.certs[c] /\ Cer!TheKey = f.keys[1]
      BY <2>1, AloneIsInspected
    <3>2. Cer!Cardinality({k \in DOMAIN f.certs : f.certs[k].leaf}) = 1
      <4>1. {k \in DOMAIN f.certs : f.certs[k].leaf} = {c}
        BY <3>1 DEF Cer!Leaves
      <4>2. Cardinality({c}) = 1
        BY FS_Singleton
      <4> QED BY <4>1, <4>2 DEF Cer!Cardinality, Cardinality
    <3>3. (\A d \in Cer!ToSet(f.certs) : d.leaf => d.key = f.keys[1].name /\ d.window = "now" /\ d.ids = {upload.expected})
            <=> f.certs[c].window = "now" /\ f.certs[c].ids = {upload.expected}
      BY <3>1 DEF Cer!ToSet, Cer!Leaves, Cer!KeyMatches
    <3> QED BY <1>5, <2>1, <3>1, <3>2, <3>3 DEF Fits, Cer!ClientsOwn, Alone
  <2>2. ASSUME Cer!ClientsOwn(f) PROVE Alone
    <3>1. IsFiniteSet(Cer!Leaves) /\ Cer!Cardinality(Cer!Leaves) = Cardinality(Cer!Leaves)
      <4>1. f.certs \in Seq(CertRecords)
        BY DEF IsUpload, Cer!File
      <4>2. DOMAIN f.certs = 1..Len(f.certs) /\ Len(f.certs) \in Nat
        BY <4>1
      <4>3. IsFiniteSet(DOMAIN f.certs) /\ Cer!Leaves \subseteq DOMAIN f.certs
        BY <4>2, FS_Interval DEF Cer!Leaves, Cer!File
      <4> QED BY <4>3, FS_Subset DEF Cer!Cardinality, Cardinality
    <3>2. Cardinality(Cer!Leaves) = 1
      BY <2>2, <3>1 DEF Cer!ClientsOwn, Cer!Leaves
    <3>3. PICK c : Cer!Leaves = {c}
      BY <3>1, <3>2, FS_Singleton
    <3>4. c \in DOMAIN f.certs /\ f.certs[c].leaf /\ f.certs[c] \in Cer!ToSet(f.certs)
      BY <3>3 DEF Cer!Leaves, Cer!ToSet
    <3> QED BY <2>2, <3>3, <3>4 DEF Cer!ClientsOwn, Alone, Cer!KeyMatches
  <2> QED BY <2>1, <2>2
<1> HIDE DEF i
<1>6. Cer!Usable(i) <=> Cer!ClientsOwn(f) /\ p = "right"
  <2>1. Cer!ClientsOwn(f) /\ p = "right" => opens
    BY DEF Cer!ClientsOwn
  <2> QED BY <1>2, <1>3, <1>4, <1>5, <2>1
<1> QED BY <1>1, <1>6 DEF i

(* --------------------------- the upload's course ------------------------- *)
Given == "right" \in Cer!ToSet(upload.passwords)
Opens == Cer!File.size = "fits" /\ Cer!File.form = "sealed"
Own == Cer!ClientsOwn(Cer!File) /\ Given
OwnInv ==
  /\ IsUpload(upload) /\ CheckInv
  /\ left \in Seq({"right", "wrong"}) /\ ("right" \in Cer!ToSet(left) => Given)
  /\ step \in {"start", "try"} /\ Opens /\ Given => "right" \in Cer!ToSet(left)
  /\ step = "inspect" => upload.via = "office"
  /\ step = "opened" => seen = Cer!InspectMaterial("right") /\ Given
  /\ step \in {"keep", "save", "commit", "close"} \/ records # {} => Own
  /\ Cer!OnlyTheClientsOwn

LEMMA OwnInit == UploadsAreFiles /\ Cer!Init => OwnInv
<1> SUFFICES ASSUME UploadsAreFiles, Cer!Init PROVE OwnInv
  OBVIOUS
<1>1. IsUpload(upload) /\ left = upload.passwords /\ step = "start" /\ records = {} /\ answer = "none"
  BY DEF UploadsAreFiles, Cer!Init, Cer!Nothing
<1>2. left \in Seq({"right", "wrong"})
  BY <1>1 DEF IsUpload
<1> QED BY <1>1, <1>2 DEF OwnInv, CheckInv, Given, Cer!OnlyTheClientsOwn

LEMMA TriesInTurn ==
  ASSUME NEW s \in Seq({"right", "wrong"}), s # <<>>
  PROVE  /\ Head(s) \in {"right", "wrong"} /\ Tail(s) \in Seq({"right", "wrong"})
         /\ Cer!ToSet(s) = {Head(s)} \cup Cer!ToSet(Tail(s))
<1>1. Head(s) \in {"right", "wrong"} /\ Tail(s) \in Seq({"right", "wrong"})
  BY HeadTailProperties
<1>2. Head(s) = s[1] /\ Len(s) \in Nat \ {0} /\ DOMAIN s = 1..Len(s)
      /\ Len(Tail(s)) = Len(s) - 1 /\ \A i \in 1..Len(Tail(s)) : Tail(s)[i] = s[i + 1]
  BY HeadTailProperties
<1>3. DOMAIN Tail(s) = 1..Len(s) - 1
  BY <1>1, <1>2
<1>4. ASSUME NEW x PROVE x \in Cer!ToSet(s) <=> x = Head(s) \/ x \in Cer!ToSet(Tail(s))
  <2>1. ASSUME NEW i \in DOMAIN s, i # 1 PROVE s[i] \in Cer!ToSet(Tail(s))
    <3>1. i - 1 \in DOMAIN Tail(s) /\ Tail(s)[i - 1] = s[i]
      BY <1>2, <1>3, <2>1
    <3> QED BY <3>1 DEF Cer!ToSet
  <2>2. ASSUME NEW i \in DOMAIN Tail(s) PROVE Tail(s)[i] \in Cer!ToSet(s)
    <3>1. i + 1 \in DOMAIN s /\ Tail(s)[i] = s[i + 1]
      BY <1>2, <1>3
    <3> QED BY <3>1 DEF Cer!ToSet
  <2>3. 1 \in DOMAIN s
    BY <1>2
  <2>4. x \in Cer!ToSet(s) => x = Head(s) \/ x \in Cer!ToSet(Tail(s))
    <3> SUFFICES ASSUME x \in Cer!ToSet(s), x # Head(s) PROVE x \in Cer!ToSet(Tail(s))
      OBVIOUS
    <3>1. PICK i \in DOMAIN s : x = s[i]
      BY DEF Cer!ToSet
    <3> QED BY <1>2, <2>1, <3>1
  <2>5. x \in Cer!ToSet(Tail(s)) => x \in Cer!ToSet(s)
    <3> SUFFICES ASSUME x \in Cer!ToSet(Tail(s)) PROVE x \in Cer!ToSet(s)
      OBVIOUS
    <3>1. PICK i \in DOMAIN Tail(s) : x = Tail(s)[i]
      BY DEF Cer!ToSet
    <3> QED BY <2>2, <3>1
  <2>6. Head(s) \in Cer!ToSet(s)
    BY <1>2, <2>3 DEF Cer!ToSet
  <2> QED BY <2>4, <2>5, <2>6
<1> QED BY <1>1, <1>4

(* The outcome for a pair that is not the client's own, or that is.         *)
LEMMA VerdictIsUse == \A i : Cer!Verdict(i) = "OK" <=> Cer!Usable(i)
  BY DEF Cer!Verdict, Cer!Usable

LEMMA OwnStep == OwnInv /\ [Cer!Next]_(Cer!vars) => OwnInv'
<1> SUFFICES ASSUME OwnInv, [Cer!Next]_(Cer!vars) PROVE OwnInv'
  OBVIOUS
<1>1. CheckInv'
  BY CheckStep DEF OwnInv
<1>2. ASSUME upload' = upload
      PROVE  /\ IsUpload(upload)'
             /\ Given' = Given /\ Opens' = Opens /\ Own' = Own /\ Cer!File' = Cer!File
             /\ Cer!ClientsOwn(Cer!File)' = Cer!ClientsOwn(Cer!File)
             /\ \A p : Cer!InspectMaterial(p)' = Cer!InspectMaterial(p)
  <2>1. Cer!File' = Cer!File /\ Given' = Given
    BY <1>2 DEF Cer!File, Given
  <2>2. IsUpload(upload)'
    BY <1>2 DEF IsUpload, OwnInv
  <2>3. Cer!RsaKeys' = Cer!RsaKeys /\ Cer!Leaves' = Cer!Leaves
    BY <2>1 DEF Cer!RsaKeys, Cer!Leaves
  <2>4. Cer!PairedKeys' = Cer!PairedKeys /\ \A k : Cer!LeavesOf(k)' = Cer!LeavesOf(k)
    BY <2>1, <2>3 DEF Cer!PairedKeys, Cer!LeavesOf, Cer!KeyMatches
  <2>5. Cer!Paired' = Cer!Paired /\ Cer!TheKey' = Cer!TheKey /\ Cer!Certificate' = Cer!Certificate
    BY <2>1, <2>3, <2>4 DEF Cer!Paired, Cer!TheKey, Cer!Certificate
  <2>6. Cer!ArchiveReasons' = Cer!ArchiveReasons
    BY <2>1, <2>3, <2>5 DEF Cer!ArchiveReasons
  <2>7. \A c : Cer!CertificateReasons(c)' = Cer!CertificateReasons(c)
    BY <1>2, <2>5 DEF Cer!CertificateReasons, Cer!IdentityReasons
  <2>8. \A p : Cer!ParsePkcs12(p)' = Cer!ParsePkcs12(p)
    BY <2>1, <2>6 DEF Cer!ParsePkcs12
  <2>9. \A p : Cer!InspectMaterial(p)' = Cer!InspectMaterial(p)
    BY <1>2, <2>1, <2>5, <2>7, <2>8, Zenon DEF Cer!InspectMaterial
  <2>10. Cer!ClientsOwn(Cer!File)' = Cer!ClientsOwn(Cer!File)
    BY <1>2, <2>1 DEF Cer!ClientsOwn
  <2> QED BY <2>1, <2>2, <2>9, <2>10 DEF Own, Opens
<1>3. CASE UNCHANGED Cer!vars
  <2>1. upload' = upload
    BY <1>3 DEF Cer!vars
  <2>2. Cer!OnlyTheClientsOwn'
    BY <1>2, <1>3, <2>1 DEF OwnInv, Cer!vars, Cer!OnlyTheClientsOwn, Given
  <2> QED BY <1>1, <1>2, <1>3, <2>1, <2>2 DEF OwnInv, Cer!vars
<1> DEFINE Keeps == left' = left /\ records' = records /\ upload' = upload
           Bad == {"CERTIFICATE_PASSWORD_OR_IDENTITY_INVALID", "PASSWORD_INVALID", "NOT_USABLE", "EXPIRED", "OTHER_PERSON"}
(* The answer changes for a reason, or ends what was under way.             *)
<1>4. ASSUME Keeps, step' = "done", answer' \notin Bad \cup {"OK", "CERTIFICATE_READY"}
      PROVE  OwnInv'
  <2>1. Cer!OnlyTheClientsOwn'
    BY <1>2, <1>4 DEF OwnInv, Cer!OnlyTheClientsOwn, Own, Given
  <2> QED BY <1>1, <1>2, <1>4, <2>1 DEF OwnInv
<1>5. ASSUME upload' = upload, left' = left, step' = "done", answer' \in {"OK", "CERTIFICATE_READY"}, Own
      PROVE  OwnInv'
  <2>1. Cer!OnlyTheClientsOwn'
    BY <1>2, <1>5 DEF Cer!OnlyTheClientsOwn, Own, Given
  <2> QED BY <1>1, <1>2, <1>5, <2>1 DEF OwnInv
<1>6. ASSUME Keeps, step' = "done", answer' \in Bad, ~Own \/ "noVault" \in Cer!File.traits
      PROVE  OwnInv'
  <2>1. Cer!OnlyTheClientsOwn'
    BY <1>2, <1>6 DEF OwnInv, Cer!OnlyTheClientsOwn, Own, Given
  <2> QED BY <1>1, <1>2, <1>6, <2>1 DEF OwnInv
<1>7. ASSUME upload' = upload, answer' = answer, left' = left, Own, step # "done",
             step' \in {"keep", "save", "commit", "close"}
      PROVE  OwnInv'
  <2>1. Cer!OnlyTheClientsOwn'
    BY <1>2, <1>7 DEF OwnInv, CheckInv, Cer!OnlyTheClientsOwn, Own, Given
  <2> QED BY <1>1, <1>2, <1>7, <2>1 DEF OwnInv
<1>8. CASE Cer!Read
  <2>1. step = "start" /\ Keeps /\ seen' = seen
    BY <1>8 DEF Cer!Read
  <2>2. CASE Cer!Route(Cer!File.traits) # "CERTIFICATE"
    BY <1>4, <1>8, <2>1, <2>2 DEF Cer!Read, Cer!Answer, Cer!Route
  <2>3. CASE Cer!Route(Cer!File.traits) = "CERTIFICATE" /\ "noVault" \in Cer!File.traits
    BY <1>6, <1>8, <2>1, <2>3 DEF Cer!Read, Cer!Answer
  <2>4. CASE Cer!Route(Cer!File.traits) = "CERTIFICATE" /\ "noVault" \notin Cer!File.traits /\ upload.passwords = <<>>
    BY <1>4, <1>8, <2>1, <2>4 DEF Cer!Read, Cer!Answer
  <2>5. CASE Cer!Route(Cer!File.traits) = "CERTIFICATE" /\ "noVault" \notin Cer!File.traits /\ upload.passwords # <<>>
    <3>1. step' = "try" /\ answer' = answer
      BY <1>8, <2>5 DEF Cer!Read
    <3>2. Cer!OnlyTheClientsOwn'
      BY <1>2, <2>1, <3>1 DEF OwnInv, CheckInv, Cer!OnlyTheClientsOwn, Given
    <3> QED BY <1>1, <1>2, <2>1, <3>1, <3>2 DEF OwnInv
  <2> QED BY <2>2, <2>3, <2>4, <2>5
<1>9. CASE Cer!Try
  <2> DEFINE p == Head(left)
  <2>1. /\ step = "try" /\ left # <<>> /\ left' = Tail(left)
        /\ upload' = upload /\ records' = records /\ answer' = answer
        /\ IF Cer!InspectMaterial(p).opened THEN seen' = Cer!InspectMaterial(p) /\ step' = "opened"
           ELSE step' = "try"
    BY <1>9 DEF Cer!Try
  <2>2. /\ p \in {"right", "wrong"} /\ left' \in Seq({"right", "wrong"})
        /\ Cer!ToSet(left) = {p} \cup Cer!ToSet(left')
    BY <2>1, TriesInTurn DEF OwnInv
  <2>3. Cer!InspectMaterial(p).opened <=> Opens /\ p = "right"
    BY <2>2, OwnIsUsable DEF OwnInv, Opens
  <2>4. Cer!OnlyTheClientsOwn'
    BY <1>2, <2>1 DEF OwnInv, CheckInv, Cer!OnlyTheClientsOwn, Given
  <2>5. Cer!ToSet(left)' = Cer!ToSet(left')
    BY DEF Cer!ToSet
  <2>6. step' = "opened" => seen' = Cer!InspectMaterial("right") /\ Given
    BY <2>1, <2>2, <2>3 DEF OwnInv
  <2>7. step' # "opened" => step' = "try" /\ (Opens /\ Given => "right" \in Cer!ToSet(left'))
    BY <2>1, <2>2, <2>3 DEF OwnInv
  <2>8. "right" \in Cer!ToSet(left') => Given
    BY <2>2 DEF OwnInv
  <2>9. step' \in {"opened", "try"} /\ (records # {} => Own)
    BY <2>1 DEF OwnInv
  <2> HIDE DEF p
  <2> QED BY <1>1, <1>2, <2>1, <2>2, <2>4, <2>5, <2>6, <2>7, <2>8, <2>9 DEF OwnInv
<1>10. CASE Cer!NoneOpens
  <2>1. step = "try" /\ left = <<>> /\ Keeps /\ step' = "done" /\ answer' \in Bad
    BY <1>10 DEF Cer!NoneOpens, Cer!Answer
  <2>2. Cer!ToSet(left) = {}
    BY <2>1 DEF Cer!ToSet
  <2>3. Own => Opens /\ Given
    BY DEF Own, Opens, Cer!ClientsOwn
  <2> QED BY <1>6, <2>1, <2>2, <2>3 DEF OwnInv
<1>11. CASE Cer!Decide
  <2>1. step = "opened" /\ Keeps
    BY <1>11 DEF Cer!Decide
  <2>2. Cer!Verdict(seen) = "OK" <=> Cer!ClientsOwn(Cer!File)
    BY <2>1, OwnIsUsable, VerdictIsUse DEF OwnInv
  <2>3. Cer!Verdict(seen) \in {"OK"} \cup Bad
    BY DEF Cer!Verdict
  <2>4. Given
    BY <2>1 DEF OwnInv
  <2>5. CASE Cer!Verdict(seen) = "OK"
    <3>1. step' = "keep" /\ answer' = answer
      BY <1>11, <2>5 DEF Cer!Decide
    <3> QED BY <1>7, <2>1, <2>2, <2>4, <2>5, <3>1 DEF Own
  <2>6. CASE Cer!Verdict(seen) # "OK"
    <3>1. step' = "done" /\ answer' = Cer!Verdict(seen)
      BY <1>11, <2>6 DEF Cer!Decide, Cer!Answer
    <3> QED BY <1>6, <2>1, <2>2, <2>3, <2>6, <3>1 DEF Own
  <2> QED BY <2>5, <2>6
<1>12. CASE Cer!Keep
  BY <1>5, <1>12 DEF OwnInv, Cer!Keep, Cer!Answer
<1>13. CASE Cer!Load
  <2>1. CASE answer' = answer
    <3>1. step = "start" /\ step' = "inspect" /\ Keeps /\ upload.via = "office"
      BY <1>13, <2>1 DEF Cer!Load, Cer!Answer, OwnInv, CheckInv
    <3>2. Cer!OnlyTheClientsOwn'
      BY <1>2, <2>1, <3>1 DEF OwnInv, CheckInv, Cer!OnlyTheClientsOwn, Given
    <3> QED BY <1>1, <1>2, <3>1, <3>2 DEF OwnInv
  <2>2. CASE answer' # answer
    BY <1>4, <1>13, <2>2 DEF Cer!Load, Cer!Answer
  <2> QED BY <2>1, <2>2
<1>14. CASE Cer!Inspect
  <2> DEFINE p == upload.passwords[1]
  <2>1. step = "inspect" /\ Keeps
    BY <1>14 DEF Cer!Inspect
  <2>2. p \in {"right", "wrong"} /\ (Given <=> p = "right")
    <3>1. upload.via = "office"
      BY <2>1 DEF OwnInv
    <3>2. upload.passwords \in Seq({"right", "wrong"}) /\ Len(upload.passwords) = 1
      BY <3>1 DEF OwnInv, IsUpload
    <3>3. DOMAIN upload.passwords = {1} /\ p \in {"right", "wrong"}
      BY <3>2
    <3> QED BY <3>3 DEF Given, Cer!ToSet
  <2>3. Cer!Usable(Cer!InspectMaterial(p)) <=> Own
    BY <2>2, OwnIsUsable DEF OwnInv, Own
  <2>4. CASE Own
    <3>1. step' = "save" /\ answer' = answer
      BY <1>14, <2>3, <2>4 DEF Cer!Inspect
    <3> QED BY <1>7, <2>1, <2>4, <3>1
  <2>5. CASE ~Own
    <3>1. step' = "done" /\ answer' = "CERTIFICATE_PASSWORD_OR_IDENTITY_INVALID"
      BY <1>14, <2>3, <2>5 DEF Cer!Inspect, Cer!Answer
    <3> QED BY <1>6, <2>1, <2>5, <3>1
  <2> QED BY <2>4, <2>5
<1>15. CASE Cer!Save
  <2>1. step = "save" /\ Own /\ upload' = upload /\ left' = left
    BY <1>15 DEF Cer!Save, OwnInv
  <2>2. \/ step' = "done" /\ answer' = "LOCK_LOST" /\ records' = records
        \/ step' = "commit" /\ answer' = answer
    BY <1>15 DEF Cer!Save, Cer!Answer
  <2> QED BY <1>4, <1>7, <2>1, <2>2
<1>16. CASE Cer!Recheck
  <2>1. step = "commit" /\ Own /\ Keeps
    BY <1>16 DEF Cer!Recheck, OwnInv
  <2>2. \/ step' = "done" /\ answer' = "CASE_CHANGED_RELOAD"
        \/ step' = "close" /\ answer' = answer
    BY <1>16 DEF Cer!Recheck, Cer!Answer
  <2> QED BY <1>4, <1>7, <2>1, <2>2
<1>17. CASE Cer!Close
  <2>1. step = "close" /\ Own /\ Keeps
    BY <1>17 DEF Cer!Close, OwnInv
  <2>2. step' = "done" /\ answer' \in {"CERTIFICATE_READY", "CASE_CHANGED_RELOAD"}
    BY <1>17 DEF Cer!Close, Cer!Answer
  <2> QED BY <1>4, <1>5, <2>1, <2>2
<1>18. CASE Cer!CaseChanges
  <2>1. UNCHANGED <<upload, step, left, last, seen, records, answer>>
    BY <1>18 DEF Cer!CaseChanges
  <2>2. Cer!OnlyTheClientsOwn'
    BY <1>2, <2>1 DEF OwnInv, Cer!OnlyTheClientsOwn, Given
  <2> QED BY <1>1, <1>2, <2>1, <2>2 DEF OwnInv
<1> QED BY <1>3, <1>8, <1>9, <1>10, <1>11, <1>12, <1>13, <1>14, <1>15, <1>16, <1>17, <1>18 DEF Cer!Next

(* Whatever the archive, the order of its keys and certificates and the     *)
(* passwords tried before, a pair is kept and phase one closed with it      *)
(* exactly if it is the client's own (cert-inspector, checkPair).           *)
THEOREM CertificateHolds == UploadsAreFiles /\ Cer!Spec => []Cer!OnlyTheClientsOwn
<1>1. OwnInv => Cer!OnlyTheClientsOwn
  BY DEF OwnInv
<1> SUFFICES ASSUME UploadsAreFiles PROVE Cer!Spec => []Cer!OnlyTheClientsOwn
  OBVIOUS
<1>2. Cer!Init => OwnInv
  BY OwnInit
<1> QED BY <1>1, <1>2, OwnStep, PTL DEF Cer!Spec

(* ----------------------------- the audit jobs --------------------------- *)
Requested == audit = [status |-> audit.status, request |-> audit.request] /\ audit.request \in Nat

LEMMA RequestedInit == Que!Init => Requested
  BY DEF Que!Init, Requested

LEMMA AuditStep ==
  ASSUME Requested, Que!Next
  PROVE  Requested' /\ Que!AuditStands
<1>1. CASE audit' = audit
  BY <1>1 DEF Requested, Que!AuditStands
<1>2. CASE Que!AuditAsked
  <2>1. audit' = [status |-> "PENDING", request |-> audit.request + 1]
    BY <1>2 DEF Que!AuditAsked
  <2> QED BY <2>1 DEF Requested, Que!AuditStands
<1>3. ASSUME NEW r, Que!AuditRuns(r) \/ Que!FailureIsRecorded(r), audit' # audit
      PROVE  Requested' /\ Que!AuditStands
  <2>1. audit.status = "PENDING" /\ \E s : audit' = [audit EXCEPT !.status = s]
    BY <1>3 DEF Que!AuditRuns, Que!FailureIsRecorded, Que!Asked
  <2> QED BY <2>1 DEF Requested, Que!AuditStands
<1>4. CASE Que!Ticks \/ Que!TickBreaks \/ Que!Time \/ Que!TurnRuns \/ Que!Reported \/ Que!MessageComes \/ Que!OperatorRetries
  BY <1>1, <1>4 DEF Que!Ticks, Que!Wake, Que!Aging, Que!Reports, Que!Inbound, Que!Audits, Que!Reconciles,
    Que!Effects, Que!Queues, Que!TickBreaks, Que!Time, Que!Ages, Que!ReportAges, Que!WindowPasses,
    Que!TurnRuns, Que!Reported, Que!MessageComes, Que!OperatorRetries
<1>5. ASSUME NEW id, Que!Works(id) \/ Que!Throws(id) \/ Que!Crashes(id)
      PROVE  Requested' /\ Que!AuditStands
  BY <1>1, <1>5 DEF Que!Works, Que!Returns, Que!Claims, Que!Finishes, Que!Throws, Que!Crashes
<1> QED BY <1>1, <1>2, <1>3, <1>4, <1>5 DEF Que!Next

LEMMA RequestedStep == Requested /\ [Que!Next]_(Que!vars) => Requested' /\ [Que!AuditStands]_(Que!vars)
  BY AuditStep DEF Requested, Que!vars

(* No old audit job, run or failed, replaces a report that was committed or *)
(* a newer request (audit worker, auditDocument).                           *)
THEOREM ReportsStand == Que!Spec => [][Que!AuditStands]_(Que!vars)
<1> QED BY RequestedInit, RequestedStep, PTL DEF Que!Spec

(* ------------------------- the turn in the words ------------------------ *)
(* A turn is decided on a case that no person holds and that is not closed; *)
(* in the assisted step the client has consented, and where the consent is  *)
(* asked for the certificate is known.                                     *)
Hears(x) ==
  /\ x.state \in Trn!States \ {"COMPLETED", "ESCALATED_HUMAN"}
  /\ x.state = "MOBILE_ASSIST_PROCESSING" => x.consent
Talkable(x) ==
  /\ Hears(x)
  /\ x.state = "MOBILE_ASSIST_CONSENT_REQUESTED" => x.cert = "yes"
Whole(x) == {"state", "consent", "reviewed"} \subseteq DOMAIN x
Snapshots == \A i \in Inputs : Talkable(i.case) /\ Whole(i.case)

(* What words alone may be decided as.                                      *)
Buttons == {"CLIENT_CONSENT_GRANTED", "CLIENT_DRAFT_APPROVED", "CLIENT_DRAFT_REJECTED"}
Words == Trn!ClientEvents \ Buttons

(* ----------------------- what the table does with it -------------------- *)
(* A patch that gives neither a consent nor a review.                       *)
Gives(p, f) == f \in DOMAIN p /\ p[f]
Quiet(d) == ~Gives(d.patch, "consent") /\ ~Gives(d.patch, "reviewed")

LEMMA QuietPatches ==
  /\ Quiet(Trn!Unanswered) /\ \A x : Quiet(Trn!Hold(x))
  /\ \A to, act : /\ Quiet(Trn!Decide(to, act, Trn!NoPatch)) /\ Quiet(Trn!Decide(to, act, Trn!HasCertificate))
                  /\ Quiet(Trn!Decide(to, act, Trn!OnMobile))
                  /\ Quiet(Trn!Decide(to, act, Trn!ConsentWithdrawn))
                  /\ Quiet(Trn!Decide(to, act, Trn!GateOpen))
BY DEF Quiet, Gives, Trn!Decide, Trn!Unanswered, Trn!Hold, Trn!NoPatch, Trn!HasCertificate, Trn!OnMobile,
  Trn!ConsentWithdrawn, Trn!GateOpen
LEMMA QuietRecords ==
  /\ \A to, act, a, b, c, d : Quiet(Trn!Decide(to, act, [cert |-> a, device |-> b, dHelp |-> c, cHelp |-> d]))
  /\ \A to, act, a, b : /\ Quiet(Trn!Decide(to, act, [dHelp |-> a, cHelp |-> b]))
                        /\ Quiet(Trn!Decide(to, act, [audit |-> a, approved |-> b]))
                        /\ Quiet(Trn!Decide(to, act, [approved |-> a, reviewed |-> FALSE]))
  /\ \A to, act, a : /\ Quiet(Trn!Decide(to, act, [dHelp |-> a])) /\ Quiet(Trn!Decide(to, act, [gate |-> a]))
                     /\ Quiet(Trn!Decide(to, act, [approved |-> a]))
                     /\ Quiet(Trn!Decide(to, act, [provisional |-> a]))
  /\ \A to, act, a, b, c : Quiet(Trn!Decide(to, act, [doc |-> a, approved |-> b, audit |-> c]))
  /\ \A to, act, a, b, c : Quiet(Trn!Decide(to, act, [doc |-> a, approved |-> b, reviewed |-> FALSE, audit |-> c]))
BY DEF Quiet, Gives, Trn!Decide

LEMMA QuietAnswers ==
  /\ Quiet(Trn!AskHasCert) /\ Quiet(Trn!AskDevice) /\ Quiet(Trn!AskHasPc) /\ Quiet(Trn!ExportGuide)
  /\ Quiet(Trn!PcTutorial)
  /\ Quiet(Trn!AcquisitionLinks) /\ Quiet(Trn!CourtFallback) /\ Quiet(Trn!ConsentRequest) /\ Quiet(Trn!Escalate)
  /\ Quiet(Trn!Fallback(Trn!ConsentWithdrawn)) /\ Quiet(Trn!EscalateTelling(Trn!NoPatch))
  /\ Quiet(Trn!EscalateTelling(Trn!ConsentWithdrawn))
  /\ Quiet(Trn!RevocationGuide(Trn!NoPatch))
  /\ \A e : Quiet(Trn!ApudataPreapproval(e)) /\ Quiet(Trn!ToAudit(e))
  /\ \A to, what : Quiet(Trn!Send(to, what, Trn!NoPatch)) /\ Quiet(Trn!Send(to, what, Trn!GateOpen))
  /\ \A what : Quiet(Trn!Sede(what, Trn!NoPatch))
  /\ \A x, e : Quiet(Trn!GuidedHelp(x, e))
BY QuietPatches, QuietRecords DEF Trn!AskHasCert, Trn!AskDevice, Trn!AskHasPc, Trn!ExportGuide,
  Trn!PcTutorial, Trn!AcquisitionLinks, Trn!CourtFallback, Trn!ConsentRequest, Trn!Escalate,
  Trn!EscalateWith, Trn!Fallback, Trn!EscalateTelling, Trn!RevocationGuide, Trn!ApudataPreapproval,
  Trn!ToAudit, Trn!Send, Trn!Sede, Trn!GuidedHelp

LEMMA QuietTable ==
  ASSUME NEW x, NEW paper, NEW e, e.type \in Words, x.state \in Trn!States
  PROVE  Quiet(Trn!Transition(x, paper, e))
<1>0. e.type \notin Buttons /\ e.type \notin Trn!OperatorEvents /\ e.type \notin Trn!SystemEvents
  BY DEF Words, Buttons, Trn!ClientEvents, Trn!OperatorEvents, Trn!SystemEvents
<1>1. Quiet(Trn!Global(x, e))
  BY QuietPatches, QuietAnswers DEF Trn!Global, Trn!SmallTalk
<1>2. /\ Quiet(Trn!TriageAnswer(x, e)) /\ Quiet(Trn!InitialTriage(x, e)) /\ Quiet(Trn!MobileTriagePcCheck(x, e))
      /\ Quiet(Trn!MobileExportGuideSent(x, e))
  <2>1. Quiet(Trn!TriageAnswer(x, e))
    BY QuietPatches, QuietAnswers DEF Trn!TriageAnswer
  <2> QED BY <2>1, QuietAnswers DEF Trn!InitialTriage, Trn!MobileTriagePcCheck, Trn!MobileExportGuideSent
<1>3. Quiet(Trn!MobileAssistConsentRequested(x, e))
  BY <1>0, QuietPatches, QuietAnswers DEF Trn!MobileAssistConsentRequested, Buttons
<1>4. Quiet(Trn!MobileAssistProcessing(x, paper, e))
  <2>1. e.type \notin {"CERT_INSPECTION_COMPLETED", "SEDE_DRAFT_READY", "SEDE_AUTOMATION_FAILED",
                       "OPERATOR_SUBMISSION_CONFIRMED"}
    BY <1>0 DEF Trn!OperatorEvents, Trn!SystemEvents
  <2> QED BY <1>0, <2>1, QuietPatches, QuietAnswers DEF Trn!MobileAssistProcessing, Buttons
<1>5. Quiet(Trn!PdfExpected(x, e))
  BY QuietPatches, QuietAnswers DEF Trn!PdfExpected
<1>6. Quiet(Trn!AuditingDocument(x, e))
  <2>1. e.type \notin {"PDF_AUDIT_COMPLETED", "OPERATOR_APPROVED_DOCUMENT", "OPERATOR_REJECTED_DOCUMENT"}
    BY <1>0 DEF Trn!OperatorEvents, Trn!SystemEvents
  <2> QED BY <2>1, QuietPatches, QuietAnswers DEF Trn!AuditingDocument
<1>7. Quiet(Trn!ProvisionalViabilized(x, paper, e)) /\ Quiet(Trn!RevocationGuideSent(x, e))
      /\ Quiet(Trn!WaitingRevocationReissue(x, e))
  BY QuietPatches, QuietAnswers DEF Trn!ProvisionalViabilized, Trn!RevocationGuideSent,
    Trn!WaitingRevocationReissue
<1>8. Quiet(Trn!CertAcquisitionLinksSent(x, e)) /\ Quiet(Trn!FallbackOptions(x, e))
      /\ Quiet(Trn!CourtFallbackGuideSent(x, e))
  BY QuietPatches, QuietAnswers DEF Trn!CertAcquisitionLinksSent, Trn!FallbackOptions,
    Trn!CourtFallbackGuideSent
<1>9. Quiet(Trn!ApudataPendingPreapproval(x, e)) /\ Quiet(Trn!ApudataWaitingPayment(x, e))
      /\ Quiet(Trn!ApudataVideoInProgress(x, e))
  BY QuietPatches, QuietRecords, QuietAnswers
     DEF Trn!ApudataPendingPreapproval, Trn!ApudataWaitingPayment, Trn!ApudataVideoInProgress, Trn!HoldWith
<1>10. Quiet(Trn!KmaleonFiling(x, e)) /\ Quiet(Trn!HandoffDayana(x, paper, e))
  BY QuietPatches, QuietRecords, QuietAnswers DEF Trn!KmaleonFiling, Trn!HandoffDayana
<1>11. Quiet(Trn!Completed(x, e)) /\ Quiet(Trn!EscalatedHuman(x, e))
  BY <1>0, QuietPatches, QuietRecords, QuietAnswers DEF Trn!Completed, Trn!EscalatedHuman, Trn!OperatorEvents
<1>12. Quiet(Trn!Handler(x, paper, e))
  BY <1>2, <1>3, <1>4, <1>5, <1>6, <1>7, <1>8, <1>9, <1>10, <1>11 DEF Trn!Handler, Trn!States
<1> QED BY <1>1, <1>12, QuietAnswers DEF Trn!Transition, Trn!OrElse

(* A decision the client hears of, or that hands the case to a person.      *)
Unheard == {"CLIENT_CONSENT_DENIED", "CLIENT_ACKNOWLEDGED", "CLIENT_EXPORT_FAILED"}
Answered(x, e) == e.says = "silent" \/ e.type \in Unheard \/ Trn!Transition(x, Trn!Paper, e).act # Trn!NoOp

LEMMA Acts ==
  /\ \A patch : Trn!EscalateTelling(patch).act # Trn!NoOp /\ Trn!EscalateTelling(patch).to # "NONE"
  /\ \A to, what, patch : Trn!Send(to, what, patch).act # Trn!NoOp /\ Trn!Send(to, what, patch).to = to
  /\ Trn!Escalate.act # Trn!NoOp /\ Trn!Escalate.to # "NONE"
  /\ \A x, e : Trn!GuidedHelp(x, e).act # Trn!NoOp
  /\ \A e : Trn!ApudataPreapproval(e).act # Trn!NoOp
  /\ Trn!AskDevice.act # Trn!NoOp /\ Trn!AskHasPc.act # Trn!NoOp /\ Trn!ExportGuide.act # Trn!NoOp
  /\ Trn!PcTutorial.act # Trn!NoOp
  /\ Trn!AcquisitionLinks.act # Trn!NoOp /\ Trn!CourtFallback.act # Trn!NoOp
  /\ Trn!ConsentRequest.act # Trn!NoOp
  /\ Trn!Unanswered.to = "NONE"
BY DEF Trn!EscalateTelling, Trn!Send, Trn!Escalate, Trn!EscalateWith, Trn!GuidedHelp, Trn!Fallback,
  Trn!ApudataPreapproval, Trn!AskDevice, Trn!AskHasPc, Trn!ExportGuide, Trn!PcTutorial,
  Trn!AcquisitionLinks, Trn!CourtFallback, Trn!ConsentRequest, Trn!Decide, Trn!Act, Trn!NoOp,
  Trn!Unanswered

LEMMA Goes ==
  /\ Trn!AskDevice.to # "NONE" /\ Trn!AskHasPc.to # "NONE" /\ Trn!ExportGuide.to # "NONE"
  /\ Trn!PcTutorial.to # "NONE"
  /\ Trn!AcquisitionLinks.to # "NONE" /\ Trn!CourtFallback.to # "NONE"
  /\ \A e : Trn!ApudataPreapproval(e).to # "NONE"
BY DEF Trn!EscalateTelling, Trn!Send, Trn!ApudataPreapproval, Trn!AskDevice, Trn!AskHasPc,
  Trn!ExportGuide, Trn!PcTutorial, Trn!AcquisitionLinks, Trn!CourtFallback, Trn!Decide

(* What no state answers for itself goes to the global answers.             *)
LEMMA TalkIsAnswered ==
  ASSUME NEW x, Hears(x), NEW e, e.type = "CLIENT_SMALL_TALK"
  PROVE  Answered(x, e) /\ e.type \in Words
<1>1. Trn!Global(x, e).act # Trn!NoOp \/ e.says = "silent"
  BY Acts DEF Trn!Global, Trn!SmallTalk
<1>2. Trn!Handler(x, Trn!Paper, e) = Trn!Unanswered
  BY DEF Trn!Handler, Hears, Trn!States, Trn!InitialTriage, Trn!TriageAnswer, Trn!MobileTriagePcCheck,
    Trn!MobileExportGuideSent, Trn!MobileAssistConsentRequested, Trn!MobileAssistProcessing,
    Trn!PdfExpected, Trn!AuditingDocument, Trn!ProvisionalViabilized, Trn!RevocationGuideSent,
    Trn!WaitingRevocationReissue, Trn!CertAcquisitionLinksSent, Trn!FallbackOptions, Trn!ResumesDigital,
    Trn!CourtFallbackGuideSent, Trn!ApudataPendingPreapproval, Trn!ApudataWaitingPayment,
    Trn!ApudataVideoInProgress, Trn!KmaleonFiling, Trn!HandoffDayana, Trn!HelpEvents
<1>3. Trn!Transition(x, Trn!Paper, e) = Trn!Global(x, e)
  BY <1>2 DEF Trn!Transition, Trn!HelpEvents, Trn!OrElse
<1> QED BY <1>1, <1>3 DEF Answered, Words, Trn!ClientEvents, Buttons

(* A wish for help or for a person is answered in every state.              *)
Heard(d) == d.to = "NONE" \/ d.act # Trn!NoOp
LEMMA HelpIsAnswered ==
  ASSUME NEW x, Talkable(x), NEW e, e.type \in {"CLIENT_REQUESTS_ASSISTANCE", "CLIENT_REQUESTS_HUMAN"}
  PROVE  Answered(x, e) /\ e.type \in Words
<1>1. Trn!Global(x, e).act # Trn!NoOp
  BY Acts DEF Trn!Global
<1>2. Heard(Trn!Unanswered) /\ Heard(Trn!ConsentRequest) /\ Heard(Trn!AskDevice) /\ Heard(Trn!PcTutorial)
  BY Acts DEF Heard
<1>3. Heard(Trn!TriageAnswer(x, e)) /\ Heard(Trn!MobileTriagePcCheck(x, e))
      /\ Heard(Trn!MobileExportGuideSent(x, e))
  BY <1>2 DEF Trn!TriageAnswer, Trn!MobileTriagePcCheck, Trn!MobileExportGuideSent, Trn!HelpEvents
<1>4. Heard(Trn!InitialTriage(x, e)) /\ Heard(Trn!MobileAssistConsentRequested(x, e))
      /\ Heard(Trn!PdfExpected(x, e))
  <2>1. Heard(Trn!MobileAssistConsentRequested(x, e))
    BY <1>2, Acts DEF Trn!MobileAssistConsentRequested, Heard
  <2> QED BY <1>2, <1>3, <2>1 DEF Trn!InitialTriage, Trn!PdfExpected
<1>5. x.consent => Heard(Trn!MobileAssistProcessing(x, Trn!Paper, e))
  BY <1>2 DEF Trn!MobileAssistProcessing
<1>6. /\ Heard(Trn!AuditingDocument(x, e)) /\ Heard(Trn!ProvisionalViabilized(x, Trn!Paper, e))
      /\ Heard(Trn!RevocationGuideSent(x, e)) /\ Heard(Trn!WaitingRevocationReissue(x, e))
  <2>1. Heard(Trn!EscalateTelling(Trn!NoPatch))
    BY Acts DEF Heard
  <2> QED BY <1>2, <2>1 DEF Trn!AuditingDocument, Trn!ProvisionalViabilized, Trn!RevocationGuideSent,
    Trn!WaitingRevocationReissue
<1>7. /\ Heard(Trn!CertAcquisitionLinksSent(x, e)) /\ Heard(Trn!FallbackOptions(x, e))
      /\ Heard(Trn!CourtFallbackGuideSent(x, e))
  BY <1>2 DEF Trn!CertAcquisitionLinksSent, Trn!FallbackOptions, Trn!CourtFallbackGuideSent
<1>8. /\ Heard(Trn!ApudataPendingPreapproval(x, e)) /\ Heard(Trn!ApudataWaitingPayment(x, e))
      /\ Heard(Trn!ApudataVideoInProgress(x, e)) /\ Heard(Trn!KmaleonFiling(x, e))
      /\ Heard(Trn!HandoffDayana(x, Trn!Paper, e))
  BY <1>2 DEF Trn!ApudataPendingPreapproval, Trn!ApudataWaitingPayment, Trn!ApudataVideoInProgress,
    Trn!KmaleonFiling, Trn!HandoffDayana
<1>9. Heard(Trn!Handler(x, Trn!Paper, e))
  BY <1>3, <1>4, <1>5, <1>6, <1>7, <1>8 DEF Trn!Handler, Talkable, Hears, Trn!States
<1>10. e.type \in Trn!HelpEvents /\ x.state \in Trn!GuidedStates => Trn!GuidedHelp(x, e).act # Trn!NoOp
  BY Acts
<1> QED BY <1>1, <1>9, <1>10 DEF Trn!Transition, Trn!OrElse, Answered, Heard, Trn!Unanswered, Trn!Decide,
  Words, Trn!ClientEvents, Buttons

(* An option is offered only where it is answered.                          *)
LEMMA ChoiceIsAnswered ==
  ASSUME NEW x, Talkable(x), NEW o \in Trn!AllowedOptions(x) \ Trn!SecureButtonOnly
  PROVE  o \in Trn!Options /\ Answered(x, Trn!Choice(o)) /\ Trn!Choice(o).type \in Words
<1>0. DOMAIN Trn!OptionEvent =
        {"HAS_CERT_YES", "HAS_CERT_NO", "DEVICE_PC", "DEVICE_MOBILE", "HAS_PC", "NO_PC", "NEEDS_ASSISTANCE",
         "CONSENT_YES", "CONSENT_NO", "DRAFT_APPROVED", "DRAFT_REJECTED", "REVOKED", "REISSUED",
         "COURT_APPOINTMENT", "APUDATA_REQUEST", "HUMAN_HELP"}
  BY DEF Trn!OptionEvent
<1>1. o \in Trn!Options \ Trn!SecureButtonOnly
  BY <1>0 DEF Trn!AllowedOptions, Trn!Options, Trn!Triage, Trn!Devices, Trn!SecureButtonOnly, Talkable,
    Hears, Trn!States
<1>2. Trn!Choice(o).type = Trn!OptionEvent[o] /\ Trn!Choice(o).says = "none"
  BY DEF Trn!Choice, Trn!Event
<1>3. Trn!Choice(o).type \in Words
  BY <1>0, <1>1, <1>2 DEF Trn!OptionEvent, Trn!Options, Trn!SecureButtonOnly, Words, Trn!ClientEvents, Buttons
<1>4. CASE o \in {"NEEDS_ASSISTANCE", "HUMAN_HELP"}
  BY <1>1, <1>2, <1>3, <1>4, HelpIsAnswered DEF Trn!OptionEvent
<1>5. CASE o = "REISSUED"
  BY <1>1, <1>2, <1>3, <1>5 DEF Trn!OptionEvent, Answered, Unheard
<1>6. CASE o \in {"REVOKED"}
  <2>1. x.state \in {"PROVISIONAL_VIABILIZED", "REVOCATION_GUIDE_SENT"}
    BY <1>6 DEF Trn!AllowedOptions, Trn!Triage, Trn!Devices
  <2>2. Trn!Choice(o).type = "CLIENT_REVOCATION_DONE"
    BY <1>2, <1>6 DEF Trn!OptionEvent
  <2> QED BY <1>1, <1>3, <2>1, <2>2, Acts DEF Trn!Transition, Trn!HelpEvents, Trn!OrElse, Trn!Handler,
    Trn!ProvisionalViabilized, Trn!RevocationGuideSent, Answered
<1>7. CASE o = "NO_PC"
  <2>1. x.state = "MOBILE_TRIAGE_PC_CHECK"
    BY <1>7 DEF Trn!AllowedOptions, Trn!Triage, Trn!Devices
  <2>2. Trn!Choice(o).type = "CLIENT_HAS_NO_PC"
    BY <1>2, <1>7 DEF Trn!OptionEvent
  <2> QED BY <1>1, <1>3, <2>1, <2>2, Acts DEF Trn!Transition, Trn!HelpEvents, Trn!GuidedStates, Answered
<1>8. CASE o \in {"HAS_CERT_YES", "HAS_CERT_NO", "HAS_PC"} \cup Trn!Devices
  <2> DEFINE h == Trn!Handler(x, Trn!Paper, Trn!Choice(o))
  <2>1. Trn!Choice(o).type \in {"CLIENT_HAS_CERT", "CLIENT_HAS_NO_CERT", "CLIENT_HAS_PC", "CLIENT_HAS_CERT_PC",
                            "CLIENT_HAS_CERT_MOBILE"}
    BY <1>2, <1>8 DEF Trn!OptionEvent, Trn!Devices
  <2>2. h \in {Trn!AskDevice, Trn!AskHasPc, Trn!ExportGuide, Trn!PcTutorial, Trn!AcquisitionLinks}
    BY <1>2, <1>8, SMTT(60) DEF Trn!OptionEvent, Trn!AllowedOptions, Trn!Triage, Trn!Devices, Trn!Handler,
      Talkable, Hears, Trn!States, Trn!InitialTriage, Trn!TriageAnswer, Trn!MobileTriagePcCheck,
      Trn!MobileExportGuideSent, Trn!MobileAssistConsentRequested, Trn!CertAcquisitionLinksSent,
      Trn!CourtFallbackGuideSent, Trn!ResumesDigital, Trn!HelpEvents
  <2>3. h.to # "NONE" /\ h.act # Trn!NoOp
    BY <2>2, Acts, Goes
  <2>4. Trn!Transition(x, Trn!Paper, Trn!Choice(o)) = h
    BY <2>1, <2>3, Acts DEF Trn!Transition, Trn!HelpEvents, Trn!OrElse
  <2> QED BY <1>1, <1>3, <2>3, <2>4 DEF Answered
<1>9. CASE o \in {"COURT_APPOINTMENT", "APUDATA_REQUEST"}
  <2> DEFINE h == Trn!Handler(x, Trn!Paper, Trn!Choice(o))
  <2>1. x.state \in {"CERT_ACQUISITION_LINKS_SENT", "FALLBACK_OPTIONS"}
    BY <1>9 DEF Trn!AllowedOptions, Trn!Triage, Trn!Devices
  <2>2. Trn!Choice(o).type \in {"CLIENT_CANNOT_GET_CERT", "CLIENT_REQUESTS_URGENT_PAID"}
    BY <1>2, <1>9 DEF Trn!OptionEvent
  <2>3. h \in {Trn!CourtFallback, Trn!ApudataPreapproval(Trn!Choice(o))}
    BY <2>1, <2>2 DEF Trn!Handler, Trn!CertAcquisitionLinksSent, Trn!FallbackOptions, Trn!ResumesDigital
  <2>4. h.to # "NONE" /\ h.act # Trn!NoOp
    BY <2>3, Acts, Goes
  <2>5. Trn!Transition(x, Trn!Paper, Trn!Choice(o)) = h
    BY <2>2, <2>4, Acts DEF Trn!Transition, Trn!HelpEvents, Trn!OrElse
  <2> QED BY <1>1, <1>3, <2>4, <2>5 DEF Answered
<1> QED BY <1>0, <1>1, <1>4, <1>5, <1>6, <1>7, <1>8, <1>9 DEF Trn!Options, Trn!SecureButtonOnly, Trn!Devices

LEMMA NoCertificateIsAnswered ==
  ASSUME NEW x, x.state \in {"INITIAL_TRIAGE", "WAITING_CERT_RESPONSE", "FALLBACK_OPTIONS",
                            "COURT_FALLBACK_GUIDE_SENT"}
  PROVE  Answered(x, Trn!Choice("HAS_CERT_NO")) /\ Trn!Choice("HAS_CERT_NO").type \in Words
<1>1. Trn!Choice("HAS_CERT_NO").type = "CLIENT_HAS_NO_CERT"
  BY DEF Trn!Choice, Trn!Event, Trn!OptionEvent
<1>2. Trn!Handler(x, Trn!Paper, Trn!Choice("HAS_CERT_NO")) = Trn!AcquisitionLinks
  BY <1>1 DEF Trn!Handler, Trn!InitialTriage, Trn!TriageAnswer, Trn!FallbackOptions, Trn!ResumesDigital,
    Trn!CourtFallbackGuideSent, Trn!HelpEvents
<1>3. Trn!AcquisitionLinks.to # "NONE"
  BY DEF Trn!AcquisitionLinks, Trn!Send, Trn!Decide
<1> QED BY <1>1, <1>2, <1>3, Acts DEF Trn!Transition, Trn!HelpEvents, Trn!OrElse, Answered, Words,
  Trn!ClientEvents, Buttons

(* Where a device may be named, that the client has a certificate is heard. *)
LEMMA CertificateIsAnswered ==
  ASSUME NEW x, Talkable(x), x.cert # "yes", Trn!Devices \cap Trn!AllowedOptions(x) # {}
  PROVE  Answered(x, Trn!Choice("HAS_CERT_YES")) /\ Trn!Choice("HAS_CERT_YES").type \in Words
<1>1. Trn!Choice("HAS_CERT_YES").type = "CLIENT_HAS_CERT"
  BY DEF Trn!Choice, Trn!Event, Trn!OptionEvent
<1>2. x.state \in {"INITIAL_TRIAGE", "WAITING_CERT_RESPONSE", "MOBILE_TRIAGE_PC_CHECK",
                   "MOBILE_EXPORT_GUIDE_SENT", "CERT_ACQUISITION_LINKS_SENT", "COURT_FALLBACK_GUIDE_SENT"}
  <2>1. PICK o \in Trn!Devices : o \in Trn!AllowedOptions(x)
    OBVIOUS
  <2>2. x.state # "MOBILE_ASSIST_CONSENT_REQUESTED"
    BY DEF Talkable
  <2> QED BY <2>1, <2>2 DEF Trn!AllowedOptions, Trn!Devices
<1>3. Trn!Handler(x, Trn!Paper, Trn!Choice("HAS_CERT_YES")) \in {Trn!AskDevice, Trn!AskHasPc}
  <2> DEFINE e == Trn!Choice("HAS_CERT_YES")
  <2>1. Trn!TriageAnswer(x, e) = Trn!AskDevice
    BY <1>1 DEF Trn!TriageAnswer, Trn!HelpEvents
  <2>2. Trn!InitialTriage(x, e) = Trn!AskDevice /\ Trn!MobileTriagePcCheck(x, e) = Trn!AskHasPc
        /\ Trn!MobileExportGuideSent(x, e) = Trn!AskDevice
    BY <1>1, <2>1 DEF Trn!InitialTriage, Trn!MobileTriagePcCheck, Trn!MobileExportGuideSent
  <2>3. Trn!CertAcquisitionLinksSent(x, e) = Trn!AskDevice /\ Trn!CourtFallbackGuideSent(x, e) = Trn!AskDevice
    BY <1>1 DEF Trn!CertAcquisitionLinksSent, Trn!CourtFallbackGuideSent, Trn!ResumesDigital
  <2> QED BY <1>2, <2>1, <2>2, <2>3 DEF Trn!Handler
<1> QED BY <1>1, <1>3, Goes, Acts DEF Trn!Transition, Trn!HelpEvents, Trn!OrElse, Answered, Words,
  Trn!ClientEvents, Buttons

(* --------------------------- what is classified ------------------------- *)
(* An option, if there is one, is one of the state's that words may choose.  *)
Offered(c) == c.option = "none" \/ c.option \in Trn!AllowedOptions(snapshot) \ Trn!SecureButtonOnly
LEMMA ClassifiedIsOffered == Offered(Trn!Classified)
<1>1. Offered(Trn!Unsupported) /\ \A why : Offered(Trn!Because(why))
  BY DEF Offered, Trn!Unsupported, Trn!Because
<1>2. \A o : o \in Trn!AllowedOptions(snapshot) \ Trn!SecureButtonOnly => Offered(Trn!Chosen(o))
  BY DEF Offered, Trn!Chosen
<1>3. Trn!YesOption \notin Trn!SecureButtonOnly /\ Trn!NoOption \notin Trn!SecureButtonOnly
  BY DEF Trn!YesOption, Trn!NoOption, Trn!SecureButtonOnly
<1>4. \A o \in Trn!Devices : o \notin Trn!SecureButtonOnly
  BY DEF Trn!Devices, Trn!SecureButtonOnly
<1>5. Trn!Matches \subseteq Trn!AllowedOptions(snapshot)
  BY DEF Trn!Matches
<1>6. ASSUME \E o \in Trn!Devices : Trn!Matches = {o, "HAS_CERT_YES"}
      PROVE  Offered(Trn!Chosen(CHOOSE o \in Trn!Devices : Trn!Matches = {o, "HAS_CERT_YES"}))
  BY <1>2, <1>4, <1>5, <1>6
<1>7. ASSUME Trn!Cardinality(Trn!Matches) = 1
      PROVE  (CHOOSE o \in Trn!Matches : TRUE) \in Trn!Matches
  <2>1. Trn!Cardinality({}) = Cardinality({})
    BY DEF Trn!Cardinality, Cardinality
  <2>2. Trn!Matches # {}
    BY <1>7, <2>1, FS_EmptySet
  <2> QED BY <2>2
<1>8. ASSUME Trn!Cardinality(Trn!Matches) = 1
      PROVE  LET o == CHOOSE o \in Trn!Matches : TRUE
             IN  Offered(IF o \in Trn!SecureButtonOnly THEN Trn!Because("BUTTON_REQUIRED") ELSE Trn!Chosen(o))
  BY <1>1, <1>2, <1>5, <1>7, <1>8
<1> QED BY <1>1, <1>2, <1>3, <1>5, <1>6, <1>8 DEF Trn!Classified

(* What is settled on is answered.                                          *)
Heeded(c) == c.option # "none" =>
  Answered(snapshot, Trn!Choice(c.option)) /\ Trn!Choice(c.option).type \in Words
LEMMA EvidenceIsHeeded ==
  ASSUME Talkable(snapshot), NEW c, Offered(c)
  PROVE  Heeded(Trn!DeviceEvidence(c))
<1>1. Heeded(c)
  BY ChoiceIsAnswered DEF Heeded, Offered
<1>2. Heeded(Trn!Unsupported)
  BY DEF Heeded, Trn!Unsupported
<1>3. c.option \in Trn!Devices /\ snapshot.cert # "yes" => Heeded(Trn!Chosen("HAS_CERT_YES"))
  BY CertificateIsAnswered DEF Heeded, Trn!Chosen, Offered, Trn!Devices
<1> QED BY <1>1, <1>2, <1>3 DEF Trn!DeviceEvidence
LEMMA ValidatedIsHeeded ==
  ASSUME Talkable(snapshot), NEW o
  PROVE  Heeded(Trn!Validated(o))
<1>1. o \in Trn!AllowedOptions(snapshot) \ Trn!SecureButtonOnly => Offered(Trn!Chosen(o))
  BY DEF Offered, Trn!Chosen
<1>2. Heeded(Trn!Because("BUTTON_REQUIRED"))
  BY DEF Heeded, Trn!Because, Trn!Unsupported
<1> QED BY <1>1, <1>2, EvidenceIsHeeded DEF Trn!Validated

(* ----------------------------- the invariant ----------------------------- *)
Gated == Trn!Some(Trn!GatedMarks) \/ Trn!Is("omitted") \/ (Trn!Is("sms") /\ ~Trn!Is("file"))
LEMMA GatedIsAnsweredLocally == Gated => Trn!LocalReply # Trn!NoReply
<1>1. \A says, human : says # "none" => Trn!Say(says, human) # Trn!NoReply
  BY DEF Trn!Say, Trn!NoReply
<1>2. Trn!SecretAnswer # Trn!NoReply
  BY <1>1 DEF Trn!SecretAnswer
<1>3. Trn!GatedMarks \subseteq Trn!HardMarks
  BY DEF Trn!GatedMarks
<1>4. Gated => \/ Trn!RequiresDeterministicHandoff \/ Trn!Is("omitted")
               \/ Trn!Is("sms") /\ ~Trn!RequiresDeterministicHandoff
  BY <1>3 DEF Gated, Trn!Some, Trn!RequiresDeterministicHandoff
<1>5. Trn!Is("sms") /\ ~Trn!RequiresDeterministicHandoff => Trn!Stopped # Trn!NoReply
  BY <1>1 DEF Trn!Stopped
<1> QED BY <1>1, <1>2, <1>4, <1>5 DEF Trn!LocalReply
LEMMA GatedForTheBrain == Gated /\ Trn!BrainReads => Trn!StopWithQuestion
BY DEF Gated, Trn!BrainReads

Models == {"brain", "intent", "classify", "reply"}
Reading == {"intent", "guidance", "classify", "respond"}
AskedInv ==
  /\ readers \subseteq Models
  /\ moment = "brain" \/ "brain" \in readers => Trn!BrainReads
  /\ moment \in Reading \/ readers \cap {"intent", "classify", "reply"} # {} => ~Gated
CaseInv ==
  /\ moment # "done" => Whole(snapshot) /\ snapshot.state \in Trn!States
  /\ moment \notin {"decided", "done"} => Talkable(snapshot)
  /\ turn.type \in Words \cup {"NONE"}
  /\ moment = "decided" => turn.type \in Words /\ Answered(snapshot, turn)
TurnInv == AskedInv /\ CaseInv

LEMMA TurnInit == Snapshots /\ Trn!Init => TurnInv
BY DEF Snapshots, Trn!Init, TurnInv, AskedInv, CaseInv, Trn!NoTurn, Trn!Event, Reading, Talkable, Hears,
  Models

LEMMA SameWords == ASSUME UNCHANGED <<text, conf>>
                  PROVE  (Trn!BrainReads' <=> Trn!BrainReads) /\ (Gated' <=> Gated)
BY DEF Trn!BrainReads, Gated, Trn!Some, Trn!Is, Trn!GatedMarks, Trn!HardMarks, Trn!StopWithQuestion

LEMMA AskedStep == ASSUME AskedInv, Trn!Next PROVE AskedInv'
<1> USE DEF AskedInv, Trn!DecidedAs, Reading, Models
<1>1. CASE Trn!Begin
  BY <1>1, SameWords DEF Trn!Begin
<1>2. CASE Trn!Draft
  BY <1>2, SameWords DEF Trn!Draft
<1>3. CASE Trn!Unreachable
  BY <1>3, SameWords DEF Trn!Unreachable
<1>4. CASE Trn!ThreeDrafts
  BY <1>4, SameWords DEF Trn!ThreeDrafts
<1>5. CASE Trn!AnswerLocally
  BY <1>5, SameWords, GatedIsAnsweredLocally DEF Trn!AnswerLocally
<1>6. CASE Trn!Understand
  BY <1>6, SameWords DEF Trn!Understand
<1>7. CASE Trn!Guide
  BY <1>7, SameWords DEF Trn!Guide
<1>8. CASE Trn!Classify
  <2>1. moment = "classify" /\ UNCHANGED <<text, conf>>
    BY <1>8 DEF Trn!Classify
  <2>2. \A c : Trn!Settle(c) => moment' \in {"decided", "respond"}
    BY DEF Trn!Settle
  <2>3. moment' \in {"decided", "respond"} /\ readers' \in {readers, readers \cup {"classify"}}
    BY <1>8, <2>2 DEF Trn!Classify
  <2> QED BY <2>1, <2>3, SameWords
<1>9. CASE Trn!Respond
  <2>1. moment = "respond" /\ moment' = "close" /\ UNCHANGED <<text, conf>>
    BY <1>9 DEF Trn!Respond
  <2>2. readers' \in {readers, readers \cup {"reply"}}
    BY <1>9 DEF Trn!Respond
  <2> QED BY <2>1, <2>2, SameWords
<1>10. CASE Trn!Close
  BY <1>10, SameWords DEF Trn!Close
<1>11. CASE Trn!Commit
  BY <1>11, SameWords DEF Trn!Commit
<1> QED BY <1>1, <1>2, <1>3, <1>4, <1>5, <1>6, <1>7, <1>8, <1>9, <1>10, <1>11 DEF Trn!Next

(* What an action decides.                                                  *)
Resolved(x, e) == e.type \in Words /\ Answered(x, e)
LEMMA TalkSettles == ASSUME NEW x, Hears(x), NEW r PROVE Resolved(x, Trn!Talk(r))
<1>1. Trn!Talk(r).type = "CLIENT_SMALL_TALK"
  BY DEF Trn!Talk, Trn!Event
<1> QED BY <1>1, TalkIsAnswered DEF Resolved
LEMMA HelpSettles ==
  ASSUME NEW x, Talkable(x), NEW says
  PROVE  Resolved(x, Trn!Event("CLIENT_REQUESTS_ASSISTANCE", NoDoc, says))
<1>1. Trn!Event("CLIENT_REQUESTS_ASSISTANCE", NoDoc, says).type = "CLIENT_REQUESTS_ASSISTANCE"
  BY DEF Trn!Event
<1> QED BY <1>1, HelpIsAnswered DEF Resolved
LEMMA SilentSettles ==
  ASSUME NEW x, NEW type \in Unheard, NEW says
  PROVE  Resolved(x, Trn!Event(type, NoDoc, says))
BY DEF Resolved, Trn!Event, Answered, Unheard, Words, Trn!ClientEvents, Buttons
LEMMA ChoiceSettles ==
  ASSUME NEW x, Talkable(x), NEW o \in Trn!AllowedOptions(x) \ Trn!SecureButtonOnly
  PROVE  Resolved(x, Trn!Choice(o))
BY ChoiceIsAnswered DEF Resolved

LEMMA StepSettles ==
  ASSUME Talkable(snapshot), NEW s \in Trn!AvailableSteps
  PROVE  Resolved(snapshot, Trn!StepEvent(s))
<1>1. CASE s = "OFFICE_TAKES_OVER"
  BY <1>1, HelpSettles DEF Trn!StepEvent, Trn!TakeOver
<1>2. CASE s # "OFFICE_TAKES_OVER"
  <2>1. s \in Trn!BrainSteps \cap Trn!AllowedOptions(snapshot)
    BY <1>2 DEF Trn!AvailableSteps
  <2>2. s \notin Trn!SecureButtonOnly
    BY <2>1 DEF Trn!BrainSteps, Trn!Triage, Trn!Devices, Trn!SecureButtonOnly
  <2> QED BY <1>2, <2>1, <2>2, ChoiceSettles DEF Trn!StepEvent
<1> QED BY <1>1, <1>2
LEMMA CopySettles ==
  ASSUME Talkable(snapshot), Trn!CopyAnswer # Trn!NoTurn
  PROVE  Resolved(snapshot, Trn!CopyAnswer)
BY HelpSettles, SilentSettles DEF Trn!CopyAnswer, Trn!TakeOver, Unheard
LEMMA GuidanceSettles ==
  ASSUME Talkable(snapshot), Trn!Guidance # Trn!NoTurn
  PROVE  Resolved(snapshot, Trn!Guidance)
<1>1. ASSUME snapshot.state \in Trn!GuidedStates \cup {"COURT_FALLBACK_GUIDE_SENT", "FALLBACK_OPTIONS"},
             \/ snapshot.state \notin Trn!GuidedStates
             \/ snapshot.state \in {"INITIAL_TRIAGE", "WAITING_CERT_RESPONSE"}
      PROVE  Resolved(snapshot, Trn!Choice("HAS_CERT_NO"))
  BY <1>1, NoCertificateIsAnswered DEF Resolved
<1> QED BY <1>1, HelpSettles, SilentSettles DEF Trn!Guidance, Unheard
LEMMA FactsKeep ==
  ASSUME Hears(snapshot), Whole(snapshot), NEW f \in Trn!Facts
  PROVE  /\ Hears(Trn!StatedFacts(f)) /\ Whole(Trn!StatedFacts(f))
         /\ Trn!StatedFacts(f).consent = snapshot.consent /\ Trn!StatedFacts(f).reviewed = snapshot.reviewed
BY DEF Hears, Whole, Trn!StatedFacts, Trn!Facts

(* A commit of words gives neither a consent nor a review.                  *)
LEMMA CommitIsQuiet ==
  ASSUME CaseInv, Trn!Commit
  PROVE  (snapshot'.consent => snapshot.consent) /\ (snapshot'.reviewed => snapshot.reviewed)
<1>1. Quiet(Trn!Decision(turn))
  BY QuietTable DEF CaseInv, Trn!Commit, Trn!Decision
<1>2. snapshot' = [Trn!Patched(snapshot, Trn!Decision(turn).patch) EXCEPT !.state = Trn!Decision(turn).to]
  BY DEF Trn!Commit
<1>3. Whole(snapshot)
  BY DEF CaseInv, Trn!Commit
<1> DEFINE p == Trn!Decision(turn).patch
<1>4. \A f \in {"consent", "reviewed"} : snapshot'[f] = IF f \in DOMAIN p THEN p[f] ELSE snapshot[f]
  BY <1>2, <1>3 DEF Trn!Patched, Whole
<1>5. ~Gives(p, "consent") /\ ~Gives(p, "reviewed")
  BY <1>1 DEF Quiet
<1>6. snapshot'.consent => snapshot.consent
  BY <1>4, <1>5 DEF Gives
<1>7. snapshot'.reviewed => snapshot.reviewed
  BY <1>4, <1>5 DEF Gives
<1> QED BY <1>6, <1>7

LEMMA CaseStep ==
  ASSUME CaseInv, Trn!Next
  PROVE  CaseInv' /\ Trn!NoConsentInWords
<1> DEFINE Kept == UNCHANGED snapshot
           Decides == /\ Trn!DecidedAs(turn') /\ Resolved(snapshot', turn') /\ Whole(snapshot')
                      /\ snapshot'.state \in Trn!States
                      /\ snapshot'.consent = snapshot.consent /\ snapshot'.reviewed = snapshot.reviewed
           GoesOn == moment' \notin {"decided", "done"} /\ UNCHANGED turn /\ Kept
<1>0. \A e \in {turn, turn'} : e.type \in Words \cup {"NONE"} => e.type \notin Buttons
  BY DEF Words, Buttons
<1>1. ASSUME Decides PROVE CaseInv' /\ Trn!NoConsentInWords
  <2>1. CaseInv'
    BY <1>1 DEF CaseInv, Trn!DecidedAs, Resolved, Answered, Whole
  <2>2. turn'.type \in Words
    BY <1>1 DEF Resolved
  <2> QED BY <1>1, <2>1, <2>2 DEF Trn!NoConsentInWords, Words, Buttons
<1>2. ASSUME GoesOn, moment \notin {"decided", "done"} PROVE CaseInv' /\ Trn!NoConsentInWords
  <2>1. CaseInv'
    BY <1>2 DEF CaseInv, Talkable, Hears, Whole
  <2> QED BY <1>2, <2>1 DEF Trn!NoConsentInWords, CaseInv, Words, Buttons
<1>3. moment \notin {"decided", "done"} =>
        Talkable(snapshot) /\ Hears(snapshot) /\ Whole(snapshot) /\ snapshot.state \in Trn!States
  BY DEF CaseInv, Talkable
<1>4. ASSUME NEW e, Trn!DecidedAs(e), Resolved(snapshot, e), Kept, moment \notin {"decided", "done"}
      PROVE  Decides
  <2>1. turn' = e /\ snapshot' = snapshot /\ moment' = "decided"
    BY <1>4 DEF Trn!DecidedAs
  <2>2. Resolved(snapshot', turn')
    BY <1>4, <2>1
  <2>3. Whole(snapshot') /\ snapshot'.state \in Trn!States
    BY <1>3, <1>4, <2>1
  <2> QED BY <2>1, <2>2, <2>3 DEF Trn!DecidedAs
<1>5. CASE Trn!Begin
  <2>1. moment = "start" /\ Kept
    BY <1>5 DEF Trn!Begin
  <2>2. \/ \E e : Trn!DecidedAs(e) /\ Resolved(snapshot, e)
        \/ moment' \in {"brain", "ladder"} /\ UNCHANGED turn
    BY <1>3, <1>5, <2>1, TalkSettles DEF Trn!Begin
  <2> QED BY <1>1, <1>2, <1>4, <2>1, <2>2
<1>6. CASE Trn!Draft
  <2>1. PICK d \in Trn!Drafts :
         /\ Trn!Usable(d) => /\ Trn!DecidedAs(Trn!ToTurn(d))
                         /\ \E f \in Trn!Facts : /\ turn'.type # "CLIENT_SMALL_TALK" => f = "none"
                                             /\ snapshot' = Trn!StatedFacts(f)
         /\ ~Trn!Usable(d) => UNCHANGED <<moment, turn, snapshot>>
    BY <1>6 DEF Trn!Draft
  <2>2. moment = "brain"
    BY <1>6 DEF Trn!Draft
  <2>3. CASE ~Trn!Usable(d)
    BY <1>2, <2>1, <2>2, <2>3
  <2>4. CASE Trn!Usable(d)
    <3>1. PICK f \in Trn!Facts :
             (turn'.type # "CLIENT_SMALL_TALK" => f = "none") /\ snapshot' = Trn!StatedFacts(f)
      BY <2>1, <2>4
    <3>2. turn' = Trn!ToTurn(d) /\ Trn!DecidedAs(turn')
      BY <2>1, <2>4 DEF Trn!DecidedAs
    <3>3. Hears(snapshot') /\ Whole(snapshot') /\ snapshot'.consent = snapshot.consent
          /\ snapshot'.reviewed = snapshot.reviewed
      BY <1>3, <2>2, <3>1, FactsKeep
    <3>4. Resolved(snapshot', turn')
      <4>1. CASE d.handoff \/ d.action \in {"SILENCIO", "RESPONDER"}
        BY <3>2, <3>3, <4>1, TalkSettles DEF Trn!ToTurn
      <4>2. CASE ~d.handoff /\ d.action \notin {"SILENCIO", "RESPONDER"}
        <5>1. d.action \in Trn!AvailableSteps /\ turn' = Trn!StepEvent(d.action)
          BY <2>4, <3>2, <4>2 DEF Trn!Usable, Trn!ToTurn
        <5>2. turn'.type # "CLIENT_SMALL_TALK"
          BY <5>1 DEF Trn!StepEvent, Trn!TakeOver, Trn!Event, Trn!Choice, Trn!OptionEvent,
            Trn!AvailableSteps, Trn!BrainSteps, Trn!Triage, Trn!Devices
        <5>3. snapshot' = snapshot
          BY <3>1, <5>2 DEF Trn!StatedFacts
        <5> QED BY <1>3, <2>2, <5>1, <5>3, StepSettles
      <4> QED BY <4>1, <4>2
    <3>5. Decides
      BY <3>2, <3>3, <3>4 DEF Hears
    <3> QED BY <1>1, <3>5
  <2> QED BY <2>3, <2>4
<1>7. CASE Trn!Unreachable
  BY <1>2, <1>7 DEF Trn!Unreachable
<1>8. CASE Trn!ThreeDrafts
  BY <1>1, <1>3, <1>4, <1>8, TalkSettles DEF Trn!ThreeDrafts
<1>9. CASE Trn!AnswerLocally
  <2>1. moment = "ladder" /\ Kept
    BY <1>9 DEF Trn!AnswerLocally
  <2>2. Resolved(snapshot, Trn!Denied) /\ Resolved(snapshot, Trn!HandedOver)
    BY <1>3, <2>1, HelpSettles, SilentSettles DEF Trn!Denied, Trn!HandedOver, Unheard
  <2>3. Trn!CopyAnswer # Trn!NoTurn => Resolved(snapshot, Trn!CopyAnswer)
    BY <1>3, <2>1, CopySettles
  <2>4. \/ \E e : Trn!DecidedAs(e) /\ Resolved(snapshot, e)
        \/ moment' \in {"close", "intent"} /\ UNCHANGED turn
    BY <1>9, <2>2, <2>3 DEF Trn!AnswerLocally
  <2> QED BY <1>1, <1>2, <1>4, <2>1, <2>4
<1>10. CASE Trn!Understand
  BY <1>2, <1>10 DEF Trn!Understand
<1>11. CASE Trn!Guide
  <2>1. moment = "guidance" /\ Kept
    BY <1>11 DEF Trn!Guide
  <2>2. Trn!Guidance # Trn!NoTurn => Resolved(snapshot, Trn!Guidance)
    BY <1>3, <2>1, GuidanceSettles
  <2>3. \/ \E e : Trn!DecidedAs(e) /\ Resolved(snapshot, e)
        \/ moment' \in {"close", "classify"} /\ UNCHANGED turn
    BY <1>11, <2>2 DEF Trn!Guide
  <2> QED BY <1>1, <1>2, <1>4, <2>1, <2>3
<1>12. CASE Trn!Classify
  <2>1. moment = "classify" /\ Kept
    BY <1>12 DEF Trn!Classify
  <2>2. Heeded(Trn!Unsupported) /\ Heeded(Trn!DeviceEvidence(Trn!Classified))
        /\ \A o \in Trn!Options : Heeded(Trn!Validated(o))
    BY <1>3, <2>1, ClassifiedIsOffered, EvidenceIsHeeded, ValidatedIsHeeded DEF Heeded, Trn!Unsupported
  <2>3. \E c : Heeded(c) /\ Trn!Settle(c)
    BY <1>12, <2>2 DEF Trn!Classify
  <2>4. \/ \E e : Trn!DecidedAs(e) /\ Resolved(snapshot, e)
        \/ moment' = "respond" /\ UNCHANGED turn
    BY <2>3 DEF Trn!Settle, Heeded, Resolved
  <2> QED BY <1>1, <1>2, <1>4, <2>1, <2>4
<1>13. CASE Trn!Respond
  BY <1>2, <1>13 DEF Trn!Respond
<1>14. CASE Trn!Close
  BY <1>1, <1>3, <1>4, <1>14, TalkSettles DEF Trn!Close
<1>15. CASE Trn!Commit
  <2>1. CaseInv'
    BY <1>15 DEF Trn!Commit, CaseInv
  <2>2. turn' = turn /\ turn.type \in Words
    BY <1>15 DEF Trn!Commit, CaseInv
  <2> QED BY <1>15, <2>1, <2>2, CommitIsQuiet DEF Trn!NoConsentInWords, Words, Buttons
<1> QED BY <1>5, <1>6, <1>7, <1>8, <1>9, <1>10, <1>11, <1>12, <1>13, <1>14, <1>15 DEF Trn!Next

LEMMA TurnStep ==
  ASSUME TurnInv, [Trn!Next \/ Trn!Done]_(Trn!vars)
  PROVE  TurnInv' /\ [Trn!NoConsentInWords]_(Trn!vars)
<1>1. CASE Trn!Next
  BY <1>1, AskedStep, CaseStep DEF TurnInv
<1>2. CASE UNCHANGED Trn!vars
  <2>1. AskedInv'
    BY <1>2, SameWords DEF TurnInv, AskedInv, Trn!vars
  <2>2. CaseInv'
    BY <1>2 DEF TurnInv, CaseInv, Trn!vars, Talkable, Hears, Whole, Answered
  <2> QED BY <1>2, <2>1, <2>2 DEF TurnInv
<1> QED BY <1>1, <1>2 DEF Trn!Done

LEMMA TurnEnough == TurnInv => Trn!GatedTextStaysLocal /\ Trn!TextIsAnswered
<1>1. TurnInv => Trn!GatedTextStaysLocal
  BY GatedForTheBrain DEF TurnInv, AskedInv, Trn!GatedTextStaysLocal, Gated, Models
<1>2. TurnInv => Trn!TextIsAnswered
  BY DEF TurnInv, CaseInv, Trn!TextIsAnswered, Answered, Unheard, Trn!Decision
<1> QED BY <1>1, <1>2

(* What must never depend on a model is read by none, and every text is     *)
(* answered (decideTurn).                                                  *)
THEOREM TurnHolds == Snapshots /\ Trn!Spec => [](Trn!GatedTextStaysLocal /\ Trn!TextIsAnswered)
<1>1. Snapshots /\ Trn!Init => TurnInv
  BY TurnInit
<1>2. TurnInv /\ [Trn!Next \/ Trn!Done]_(Trn!vars) => TurnInv'
  BY TurnStep
<1>3. TurnInv => Trn!GatedTextStaysLocal /\ Trn!TextIsAnswered
  BY TurnEnough
<1> SUFFICES ASSUME Snapshots PROVE Trn!Spec => [](Trn!GatedTextStaysLocal /\ Trn!TextIsAnswered)
  OBVIOUS
<1>4. Trn!Init => TurnInv
  BY <1>1
<1> QED BY <1>2, <1>3, <1>4, PTL DEF Trn!Spec

(* Words never give what only a button gives (SECURE_BUTTON_ONLY).          *)
THEOREM WordsHold == Snapshots /\ Trn!Spec => Trn!WordsNeverConsent
<1> SUFFICES ASSUME Snapshots PROVE Trn!Spec => Trn!WordsNeverConsent
  OBVIOUS
<1>1. Trn!Init => TurnInv
  BY TurnInit
<1>2. TurnInv /\ [Trn!Next \/ Trn!Done]_(Trn!vars) => TurnInv' /\ [Trn!NoConsentInWords]_(Trn!vars)
  BY TurnStep
<1> QED BY <1>1, <1>2, PTL DEF Trn!Spec, Trn!WordsNeverConsent
==============================================================================
