------------------------------ MODULE MCPdfAudit ------------------------------
(* Texts of up to four phrases, and a good text in documents of every kind. *)
EXTENDS PdfAudit

Texts(phrases, n) == UNION {[1 .. k -> phrases] : k \in 0 .. n}
GoodText == <<"maria", "airam", "general", "allanamiento", "special">>
Good ==
  [magic |-> TRUE, size |-> "fits", opens |-> "yes", bad |-> 0, pages |-> 5, cross |-> 5, words |-> TRUE,
   text |-> GoodText, ids |-> {"client", "lawyer"}, expected |-> "client", airam |-> {"airam", "maria"},
   number |-> 12345678]
AllDocs ==
  {[Good EXCEPT !.text = t, !.pages = 1] : t \in Texts({"no", "molino", "pad", "general", "allanamiento", "special"}, 4)}
    \cup {[Good EXCEPT !.text = t, !.pages = 1] : t \in Texts({"airam", "maria", "word"}, 6)}
    \cup {[Good EXCEPT !.pages = p, !.cross = c, !.bad = b, !.ids = i] :
            p \in {0, 4, 5, 6, 7}, c \in {Unknown, 5}, b \in {0, 5}, i \in {{}, {"lawyer"}, {"client"}}}
    \cup {[Good EXCEPT !.expected = e, !.airam = a, !.words = w] :
            e \in {"none", "invalid", "client"}, a \in {{}, {"airam"}, {"airam", "maria"}}, w \in BOOLEAN}
    \cup {[Good EXCEPT !.magic = m, !.size = s, !.opens = o] :
            m \in BOOLEAN, s \in {"fits", "large"}, o \in {"yes", "encrypted", "broken", "never"}}
    \cup {[Good EXCEPT !.number = n] : n \in {0, 99999999, 10000000, 7654321, 22999977}}
=============================================================================
