------------------------------ MODULE CertCheck ------------------------------
(***************************************************************************)
(* A file that reaches the office: what it is (attachment-kind), and when  *)
(* it is a certificate, whether it opens and is the client's               *)
(* (cert-inspector).  It comes over WhatsApp, where the passwords the      *)
(* client gave are tried in turn (AttachmentIntake), or an operator        *)
(* uploads it with its password to close phase one (phase-one.routes).     *)
(*                                                                         *)
(* A file is                                                               *)
(*   traits   what its bytes and its text show                             *)
(*   size     "empty", "fits" or "large" for the inspector                 *)
(*   form     "broken", "open" (no MAC) or "sealed" by a password          *)
(*   keys     its private keys in order: [name, rsa, strong]               *)
(*   certs    its certificates in order: [key, leaf, window, ids]          *)
(* and comes with the passwords given for it, "right" or "wrong", and with *)
(* the identity of the case, "invalid" if its letter is wrong.             *)
(***************************************************************************)
EXTENDS Integers, Sequences, FiniteSets, SequencesExt

CONSTANTS
  Uploads  \* [via, file, passwords, expected]

Closed == {"optOut", "closed", "expired", "unverified"}

VARIABLES
  upload,    \* the file, how it came, the passwords given and the case's identity
  step,      \* what the intake does next
  left,      \* passwords not tried yet
  last,      \* reasons of the last password that did not open the file
  seen,      \* the inspection the intake decides on
  case,      \* what has happened to the case since the file came
  records,   \* inspections of the pairs kept in the vault
  answer     \* the check, the route or the refusal
vars == <<upload, step, left, last, seen, case, records, answer>>

File == upload.file
Nothing == "none"

(* --------------------------- what the file is ------------------------- *)
SniffAttachment(t) ==
  IF "pdfMark" \in t THEN "PDF"
  ELSE IF {"sequence", "version3", "pkcs7"} \subseteq t THEN "CERTIFICATE"
  ELSE IF "imageMark" \in t THEN "IMAGE"
  ELSE IF "ole" \in t \/ {"zip", "office"} \subseteq t THEN "OFFICE"
  ELSE IF "zip" \in t THEN "ARCHIVE"
  ELSE IF "html" \in t THEN "HTML" ELSE "OTHER"
Signals == {"poderdante", "apoderado", "procurador", "facultades", "apud acta"}
ClassifyPdfText(t) ==
  IF "short" \in t THEN "NO_TEXT"
  ELSE IF "guide" \in t THEN "FIRM_GUIDE"
  ELSE IF Cardinality(t \cap Signals) >= 4 THEN "APUD_ACTA" ELSE "OTHER"
ReadPdf(t) == IF "unreadable" \in t THEN "UNREADABLE" ELSE ClassifyPdfText(t)
Route(t) ==
  IF {"noMedia", "notDownloaded"} \cap t # {} THEN "TEXT"
  ELSE IF SniffAttachment(t) = "PDF" /\ ReadPdf(t) = "APUD_ACTA" THEN "APUD_PDF"
  ELSE IF SniffAttachment(t) = "CERTIFICATE" THEN "CERTIFICATE" ELSE "TEXT"

(* ---------------------------- the inspection -------------------------- *)
Refused(reasons, opened) ==
  [opened |-> opened, reasons |-> reasons, paired |-> FALSE, ours |-> FALSE, cert |-> Nothing]
(* Keys and certificates by their places in the archive.                   *)
RsaKeys == {k \in DOMAIN File.keys : File.keys[k].rsa}
Leaves == {c \in DOMAIN File.certs : File.certs[c].leaf}
KeyMatches(k, c) == File.certs[c].key = File.keys[k].name
LeavesOf(k) == {c \in Leaves : KeyMatches(k, c)}
(* The first key that has a leaf of its own, and its first one; without a  *)
(* key, a certificate is taken for the report only, a leaf before the      *)
(* certificate of a CA.                                                    *)
PairedKeys == {k \in RsaKeys : LeavesOf(k) # {}}
Paired == PairedKeys # {}
TheKey == File.keys[Min(PairedKeys)]
Certificate ==
  File.certs[IF Paired THEN Min(LeavesOf(Min(PairedKeys))) ELSE IF Leaves # {} THEN Min(Leaves) ELSE 1]
Mut_ArchiveReasons ==
  (IF File.keys = <<>> THEN {"NO_PRIVATE_KEY"} ELSE IF RsaKeys = {} THEN {"KEY_NOT_RSA"} ELSE {})
  \cup (IF File.certs = <<>> THEN {"NO_CERTIFICATE"} ELSE {})
  \cup (IF ~Paired /\ File.certs # <<>> /\ RsaKeys # {} THEN {"KEY_CERT_MISMATCH"} ELSE {})
ArchiveReasons ==
  (IF Len(File.keys) # 1 \/ Cardinality(Leaves) # 1 THEN {"MULTIPLE_CREDENTIALS"} ELSE {})
  \cup (IF File.keys = <<>> THEN {"NO_PRIVATE_KEY"} ELSE IF RsaKeys = {} THEN {"KEY_NOT_RSA"} ELSE {})
  \cup (IF File.certs = <<>> THEN {"NO_CERTIFICATE"} ELSE {})
  \cup (IF ~Paired /\ File.certs # <<>> /\ RsaKeys # {} THEN {"KEY_CERT_MISMATCH"} ELSE {})
IdentityReasons(c) ==
  (IF upload.expected = "invalid" THEN {"EXPECTED_IDENTITY_INVALID"}
   ELSE IF c.ids = {} THEN {"IDENTITY_NOT_IN_SUBJECT"}
   ELSE IF upload.expected \notin c.ids THEN {"IDENTITY_MISMATCH"} ELSE {})
  \cup (IF Cardinality(c.ids) > 1 THEN {"IDENTITY_AMBIGUOUS"} ELSE {})
CertificateReasons(c) ==
  (IF c.window = "past" THEN {"EXPIRED"} ELSE {})
  \cup (IF c.window = "future" THEN {"NOT_YET_VALID"} ELSE {})
  \cup IdentityReasons(c)
  \cup (IF Paired /\ ~TheKey.strong THEN {"KEY_TOO_WEAK"} ELSE {})
ParsePkcs12(password) ==
  IF File.form = "broken" THEN Refused({"NOT_PKCS12"}, FALSE)
  ELSE IF File.form = "open" THEN Refused({"PASSWORD_PROTECTION_REQUIRED"}, FALSE)
  ELSE IF password = "wrong" THEN Refused({"PASSWORD_INVALID"}, FALSE)
  ELSE Refused(ArchiveReasons, TRUE)
InspectMaterial(password) ==
  LET parsed == ParsePkcs12(password)
  IN  IF File.size = "empty" THEN Refused({"EMPTY_PFX"}, FALSE)
      ELSE IF File.size = "large" THEN Refused({"PFX_TOO_LARGE"}, FALSE)
      ELSE IF ~parsed.opened \/ File.certs = <<>> THEN parsed
      ELSE [parsed EXCEPT !.paired = Paired, !.cert = Certificate,
              !.ours = upload.expected # "invalid" /\ upload.expected \in Certificate.ids,
              !.reasons = @ \cup CertificateReasons(Certificate)]
Usable(i) == i.opened /\ i.paired /\ i.ours /\ i.reasons = {}

(* ------------------------ over WhatsApp (checkPair) ------------------- *)
Init ==
  /\ upload \in Uploads
  /\ step = "start" /\ left = upload.passwords /\ last = {} /\ seen = Nothing
  /\ case = {} /\ records = {} /\ answer = Nothing

Answer(a) == answer' = a /\ step' = "done"
Read ==
  /\ step = "start" /\ upload.via = "whatsapp"
  /\ IF Route(File.traits) # "CERTIFICATE" THEN Answer(Route(File.traits))
     ELSE IF "noVault" \in File.traits THEN Answer("NOT_USABLE")
     ELSE IF upload.passwords = <<>> THEN Answer("WAITING_PASSWORD")
     ELSE step' = "try" /\ UNCHANGED answer
  /\ UNCHANGED <<upload, left, last, seen, case, records>>
Try ==
  /\ step = "try" /\ left # <<>>
  /\ LET i == InspectMaterial(Head(left))
     IN  IF i.opened THEN seen' = i /\ step' = "opened" /\ UNCHANGED last
         ELSE last' = i.reasons /\ UNCHANGED <<seen, step>>
  /\ left' = Tail(left)
  /\ UNCHANGED <<upload, case, records, answer>>
NoneOpens ==
  /\ step = "try" /\ left = <<>>
  /\ Answer(IF "NOT_PKCS12" \in last THEN "NOT_USABLE" ELSE "PASSWORD_INVALID")
  /\ UNCHANGED <<upload, left, last, seen, case, records>>
Verdict(i) ==
  IF "EXPIRED" \in i.reasons THEN "EXPIRED"
  ELSE IF "IDENTITY_MISMATCH" \in i.reasons THEN "OTHER_PERSON"
  ELSE IF ~Usable(i) THEN "NOT_USABLE" ELSE "OK"
Decide ==
  /\ step = "opened"
  /\ IF Verdict(seen) = "OK" THEN step' = "keep" /\ UNCHANGED answer ELSE Answer(Verdict(seen))
  /\ UNCHANGED <<upload, left, last, seen, case, records>>
Keep ==
  /\ step = "keep"
  /\ records' = records \cup {seen} /\ Answer("OK")
  /\ UNCHANGED <<upload, left, last, seen, case>>

(* ------------------- from the office (phase-one.routes) --------------- *)
(* The version read with the file, the lock and the state of the case.     *)
Load ==
  /\ step = "start" /\ upload.via = "office"
  /\ IF {"lockLost", "moved"} \cap case # {} THEN Answer("CASE_CHANGED_RELOAD")
     ELSE IF case \cap Closed # {} THEN Answer("PHASE_ONE_NOT_ACTIVE")
     ELSE step' = "inspect" /\ UNCHANGED answer
  /\ UNCHANGED <<upload, left, last, seen, case, records>>
Inspect ==
  /\ step = "inspect"
  /\ LET i == InspectMaterial(upload.passwords[1])
     IN  IF Usable(i) THEN seen' = i /\ step' = "save" /\ UNCHANGED answer
         ELSE Answer("CERTIFICATE_PASSWORD_OR_IDENTITY_INVALID") /\ UNCHANGED seen
  /\ UNCHANGED <<upload, left, last, case, records>>
Save ==
  /\ step = "save"
  /\ IF "lockLost" \in case THEN Answer("LOCK_LOST") /\ UNCHANGED records
     ELSE step' = "commit" /\ records' = records \cup {seen} /\ UNCHANGED answer
  /\ UNCHANGED <<upload, left, last, seen, case>>
Recheck ==
  /\ step = "commit"
  /\ IF case \cap {"lockLost", "moved", "optOut", "closed", "expired"} = {}
     THEN step' = "close" /\ UNCHANGED answer
     ELSE Answer("CASE_CHANGED_RELOAD")
  /\ UNCHANGED <<upload, left, last, seen, case, records>>
(* closePhaseOne writes where the version read is still there.             *)
Mut_SameVersion == "closed" \notin case
SameVersion == case \cap {"moved", "closed"} = {}
Close ==
  /\ step = "close"
  /\ IF SameVersion THEN Answer("CERTIFICATE_READY") /\ case' = case \cup {"closed"}
     ELSE Answer("CASE_CHANGED_RELOAD") /\ UNCHANGED case
  /\ UNCHANGED <<upload, left, last, seen, records>>

(* The lock may be lost; an opt-out is written without the lock; the case  *)
(* moves, or phase one is closed, by another holder before the lock is     *)
(* taken or once it is lost; the deadline may pass at any moment.          *)
CaseChanges ==
  /\ upload.via = "office" /\ step # "done"
  /\ \/ case' = case \cup {"lockLost"}
     \/ case' = case \cup {"optOut"}
     \/ case' = case \cup {"expired"}
     \/ /\ step = "start" \/ "lockLost" \in case
        /\ \E c \in {"moved", "closed"} : case' = case \cup {c}
     \/ step = "start" /\ case' = case \cup {"unverified"}
  /\ case' # case
  /\ UNCHANGED <<upload, step, left, last, seen, records, answer>>
Next ==
  \/ Read \/ Try \/ NoneOpens \/ Decide \/ Keep
  \/ Load \/ Inspect \/ Save \/ Recheck \/ Close \/ CaseChanges
Spec == Init /\ [][Next]_vars

(* ------------------------------ properties ---------------------------- *)
(* What the whole archive must be for a browser that is handed it to act   *)
(* as the client of the case and as nobody else: one key, one leaf, of     *)
(* that key, valid today, naming the client alone.                         *)
ClientsOwn(f) ==
  /\ f.size = "fits" /\ f.form = "sealed"
  /\ Len(f.keys) = 1 /\ f.keys[1].rsa /\ f.keys[1].strong
  /\ Cardinality({i \in DOMAIN f.certs : f.certs[i].leaf}) = 1
  /\ \A c \in ToSet(f.certs) :
       c.leaf => c.key = f.keys[1].name /\ c.window = "now" /\ c.ids = {upload.expected}
  /\ upload.expected # "invalid"
(* A pair is kept, and phase one is closed as CERTIFICATE_READY, exactly   *)
(* for an archive that is the client's own and opens with a password that  *)
(* was given; the reasons collected on the way never let another through,  *)
(* whatever the order of its keys and certificates.                        *)
OnlyTheClientsOwn ==
  /\ records # {} \/ answer \in {"OK", "CERTIFICATE_READY"} =>
       ClientsOwn(File) /\ "right" \in ToSet(upload.passwords)
  /\ answer \in {"CERTIFICATE_PASSWORD_OR_IDENTITY_INVALID", "PASSWORD_INVALID", "NOT_USABLE",
                 "EXPIRED", "OTHER_PERSON"} /\ "noVault" \notin File.traits
       => ~ClientsOwn(File) \/ "right" \notin ToSet(upload.passwords)
(* Phase one closes as ready on the case that was read before the slow     *)
(* inspection: nobody moved or closed it meanwhile, even when the lock was *)
(* lost on the way, and the archive that closes it is in the vault.        *)
ClosesAsLoaded == answer' = "CERTIFICATE_READY" => case \cap {"closed", "moved"} = {} /\ records # {}
ReadyAsLoaded == [][ClosesAsLoaded]_vars
=============================================================================
