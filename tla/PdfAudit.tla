------------------------------ MODULE PdfAudit ------------------------------
(***************************************************************************)
(* The structural audit of a power of attorney (pdf-auditor): opening the  *)
(* file against a timeout, its pages, the identity of the client, the full *)
(* name of the representative, the powers it grants (powers), and the      *)
(* verdict; and the check letter of an identity document.                  *)
(*                                                                         *)
(* A text is a sequence of phrases.  A phrase has a width in characters    *)
(* and mentions powers at offsets within it; words of the representative's *)
(* name are phrases too.  A document is                                    *)
(*   magic, size, opens ("yes", "encrypted", "broken", "never"), bad (the  *)
(*   page that cannot be read, 0 for none), pages, cross (the pages the    *)
(*   other parser counts, Unknown if it fails), words (enough of them),    *)
(*   text, ids (the valid identity documents in it), expected, airam, and  *)
(*   number (the one of the identity document expected).                   *)
(***************************************************************************)
EXTENDS Integers, Sequences, FiniteSets

CONSTANTS
  Docs,          \* the documents audited
  MaxTextPages   \* pages beyond this are not read (60 in the code)

Unknown == -1
RequiredPageCount == 5
RequiredPowers == {"pleitos", "allanamiento", "desistimiento", "transaccion", "renuncia", "cobro"}

VARIABLES
  doc,      \* the document
  step,     \* what the audit does next
  page,     \* pages read
  reasons,  \* the machine-readable reasons
  report    \* [status, canViabilize, review], or NoReport
vars == <<doc, step, page, reasons, report>>

(* -------------------------- identity documents ------------------------ *)
(* The letter is one of 23, chosen by the number; a NIE's first letter     *)
(* stands for the digit 0, 1 or 2.                                         *)
Mut_CheckLetter(number) == number % 20
CheckLetter(number) == number % 23
NieNumber(prefix, digits) == prefix * 10000000 + digits
ValidDni(number, letter) == CheckLetter(number) = letter
ValidNie(prefix, digits, letter) == ValidDni(NieNumber(prefix, digits), letter)

(* ------------------------------- the text ----------------------------- *)
(* "molino" stands for a word that ends in a cue: the window may cut it.   *)
Width(phrase) ==
  CASE phrase = "no" -> 2 [] phrase = "molino" -> 6 [] phrase = "pad" -> 30
    [] phrase = "general" -> 26 [] phrase = "allanamiento" -> 12 [] phrase = "special" -> 39
    [] OTHER -> 5
(* "poder general para pleitos" matches a second pattern at "para".        *)
MentionsIn(phrase) ==
  CASE phrase = "general" -> {<<"pleitos", 0>>, <<"pleitos", 14>>}
    [] phrase = "allanamiento" -> {<<"allanamiento", 0>>}
    [] phrase = "special" -> {<<"desistimiento", 0>>, <<"transaccion", 9>>, <<"renuncia", 19>>, <<"cobro", 31>>}
    [] OTHER -> {}
At(text, i) ==
  LET at[k \in 1 .. Len(text) + 1] == IF k = 1 THEN 0 ELSE at[k - 1] + Width(text[k - 1]) + 1 IN at[i]
Mut_NegationWindow == 30
NegationWindow == 48
IsNegatedAt(text, index) ==
  \E i \in DOMAIN text :
    LET from == At(text, i)
        start == index - NegationWindow
    IN  \/ text[i] = "no" /\ from >= start /\ from + 2 <= index
        \/ text[i] = "molino" /\ from + 4 = start
Mentions(text, power) ==
  UNION {{At(text, i) + m[2] : m \in {n \in MentionsIn(text[i]) : n[1] = power}} : i \in DOMAIN text}
Present(text, power) == \E index \in Mentions(text, power) : ~IsNegatedAt(text, index)
Missing(text) == {p \in RequiredPowers : ~Present(text, p)}
Negated(text) == {p \in Missing(text) : Mentions(text, p) # {}}

(* All words of the name within a short window that starts at one of them. *)
Mut_Window(name) == Cardinality(name) + 2
Window(name) == Cardinality(name) + 3
MatchesFullName(text, name) ==
  /\ Cardinality(name) >= 2
  /\ \E i \in DOMAIN text :
       /\ text[i] \in name
       /\ \A n \in name : \E j \in i .. i + Window(name) - 1 : j \in DOMAIN text /\ text[j] = n

(* ------------------------------- the audit ---------------------------- *)
NoReport == [status |-> "none", canViabilize |-> FALSE, review |-> FALSE]
Init ==
  /\ doc \in Docs
  /\ step = "check" /\ page = 0 /\ reasons = {} /\ report = NoReport
Unreadable(why) ==
  /\ step' = "done" /\ reasons' = why
  /\ report' = [status |-> "UNREADABLE_OR_CORRUPT", canViabilize |-> FALSE, review |-> TRUE]
Check ==
  /\ step = "check"
  /\ CASE ~doc.magic -> Unreadable({"NOT_A_PDF"})
       [] doc.magic /\ doc.size = "large" -> Unreadable({"OVERSIZED"})
       [] OTHER -> step' = "open" /\ UNCHANGED <<reasons, report>>
  /\ UNCHANGED <<doc, page>>
(* The parser that only counts pages has seen the encryption before.       *)
FailsWith(why) == Unreadable({why} \cup (IF doc.opens = "encrypted" THEN {"ENCRYPTED"} ELSE {}))
Open ==
  /\ step = "open" /\ doc.opens # "never"
  /\ CASE doc.opens = "encrypted" -> FailsWith("ENCRYPTED")
       [] doc.opens = "broken" -> FailsWith("PARSE_FAILED")
       [] OTHER -> step' = "read" /\ UNCHANGED <<reasons, report>>
  /\ UNCHANGED <<doc, page>>
Limit == IF doc.pages < MaxTextPages THEN doc.pages ELSE MaxTextPages
ReadPage ==
  /\ step = "read" /\ page < Limit
  /\ IF page + 1 = doc.bad THEN FailsWith("PARSE_FAILED") /\ UNCHANGED page
     ELSE page' = page + 1 /\ UNCHANGED <<step, reasons, report>>
  /\ UNCHANGED doc
(* The timer wins the race against pdfjs at any of its steps.              *)
TimesOut ==
  /\ step \in {"open", "read"}
  /\ FailsWith("TIMEOUT")
  /\ UNCHANGED <<doc, page>>
When(condition, reason) == IF condition THEN {reason} ELSE {}
ParserReasons ==
  When(doc.cross # Unknown /\ doc.cross # doc.pages, "PAGE_COUNT_MISMATCH_BETWEEN_PARSERS")
    \cup When(page < doc.pages, "TEXT_EXTRACTION_TRUNCATED")
Extracted ==
  /\ step = "read" /\ page = Limit
  /\ CASE doc.pages = 0 -> Unreadable({"NO_PAGES"})
       [] doc.pages > 0 /\ ~doc.words -> Unreadable({"NO_TEXT_LAYER"} \cup ParserReasons)
       [] OTHER -> step' = "judge" /\ reasons' = ParserReasons /\ UNCHANGED report
  /\ UNCHANGED <<doc, page>>

IdentityMatches == doc.expected \notin {"none", "invalid"} /\ doc.expected \in doc.ids
HasAiram == doc.airam # {} /\ MatchesFullName(doc.text, doc.airam)
FivePages == doc.pages = RequiredPageCount
ContentReasons ==
  When(doc.expected = "none", "EXPECTED_IDENTITY_MISSING")
    \cup When(doc.expected = "invalid", "EXPECTED_IDENTITY_INVALID")
    \cup When(doc.expected \notin {"none", "invalid"} /\ ~IdentityMatches, "IDENTITY_NOT_FOUND")
    \cup When(doc.airam = {}, "AIRAM_NAME_NOT_CONFIGURED")
    \cup When(doc.airam # {} /\ ~HasAiram, "AIRAM_NOT_FOUND")
    \cup When(Missing(doc.text) # {}, "POWERS_MISSING")
    \cup When(Negated(doc.text) # {}, "POWERS_NEGATED")
    \cup When(doc.pages > RequiredPageCount, "PAGE_COUNT_OVER_FIVE")
    \cup When(doc.pages < RequiredPageCount, "PAGE_COUNT_NOT_FIVE")
Anomalies ==
  {"PAGE_COUNT_MISMATCH_BETWEEN_PARSERS", "TEXT_EXTRACTION_TRUNCATED",
   "EXPECTED_IDENTITY_MISSING", "EXPECTED_IDENTITY_INVALID", "POWERS_NEGATED"}
Status ==
  CASE ~HasAiram -> "DEFECTIVE_NO_AIRAM"
    [] HasAiram /\ FivePages /\ Missing(doc.text) = {} /\ IdentityMatches -> "VALID_FULL_5_PAGES"
    [] OTHER -> "DEFECTIVE_WITH_AIRAM"
Judge ==
  /\ step = "judge" /\ step' = "done"
  /\ reasons' = reasons \cup ContentReasons
  /\ report' = [status |-> Status,
                canViabilize |-> Status = "DEFECTIVE_WITH_AIRAM" /\ IdentityMatches
                                   /\ doc.pages < RequiredPageCount,
                review |-> Status # "VALID_FULL_5_PAGES" \/ reasons' \cap Anomalies # {}]
  /\ UNCHANGED <<doc, page>>

Next == Check \/ Open \/ ReadPage \/ TimesOut \/ Extracted \/ Judge
Spec == Init /\ [][Next]_vars

(* ------------------------------ properties ---------------------------- *)
(* A name that is not whole within n + 3 neighbouring words is not the     *)
(* representative's: starting only at words of the name misses nothing.    *)
NameIsWhole ==
  MatchesFullName(doc.text, doc.airam) <=>
    /\ Cardinality(doc.airam) >= 2
    /\ \E s \in SUBSET (DOMAIN doc.text) :
         /\ \A i, j \in s : i - j < Cardinality(doc.airam) + 3
         /\ doc.airam \subseteq {doc.text[i] : i \in s}
(* A cue at most 34 characters before every place that names a power takes *)
(* it away, even where a second pattern matches 14 characters further on.  *)
NegationIsHeard ==
  \A p \in RequiredPowers :
    (\A i \in DOMAIN doc.text : \A m \in MentionsIn(doc.text[i]) :
       m[1] = p /\ m # <<"pleitos", 14>> =>
         \E j \in 1 .. i - 1 :
           doc.text[j] = "no" /\ At(doc.text, i) + m[2] - At(doc.text, j) <= 34)
    => p \in Missing(doc.text)
(* What the office may approve as complete: five pages all of them read,   *)
(* the client's identity, the representative's whole name, no power taken  *)
(* away; and what may go as provisional, the same client with fewer pages. *)
VerdictIsEarned ==
  /\ step = "judge" => NameIsWhole /\ NegationIsHeard
  /\ report.status = "VALID_FULL_5_PAGES" =>
       /\ page = 5 /\ doc.bad \notin 1 .. 5 /\ doc.expected \in doc.ids
       /\ ~report.review => doc.cross \in {5, Unknown}
  /\ report.canViabilize => page < 5 /\ doc.expected \in doc.ids
(* One wrong digit, or two neighbouring digits exchanged, never give       *)
(* another document with the same letter.                                  *)
Places == <<1, 10, 100, 1000, 10000, 100000, 1000000, 10000000>>
Digit(n, k) == (n \div Places[k]) % 10
Typos(n) ==
  {n + (d - Digit(n, k)) * Places[k] : k \in 1 .. 8, d \in 0 .. 9} \ {n}
Swaps(n) ==
  {n + (Digit(n, k) - Digit(n, k + 1)) * (Places[k + 1] - Places[k]) : k \in 1 .. 7} \ {n}
TyposAreCaught ==
  step = "check" => LET n == doc.number
                    IN  \A m \in Typos(n) \cup Swaps(n) : ~ValidDni(m, CheckLetter(n))
=============================================================================
