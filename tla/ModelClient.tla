------------------------------ MODULE ModelClient ------------------------------
(* One question to the conversation model: examples are retrieved, the       *)
(* provider is asked at most twice, its answer comes as one body or as a     *)
(* stream that is cut into chunks anywhere, and only a whole JSON object is  *)
(* handed on.  Everything else is no answer, and the ladder goes on alone.   *)
EXTENDS Integers, Sequences

CONSTANTS
  Answers,  \* what the provider may mean to say: sequences of pieces
  MaxChunk  \* bound: symbols of a chunk

Pieces == {"{", "}", "x"}
Objects == {<<"{", "}">>, <<"{", "x", "}">>, <<"{", "{", "}", "}">>}
Null == <<>>
Garbage == "garbage"  \* an event that is not JSON

VARIABLES
  streaming,
  phase,   \* retrieve, ask, body, done
  tries,   \* calls so far
  meant,   \* what the provider means to say in this call
  spoilt,  \* a piece of it arrives as garbage
  send,    \* symbols under way
  rest,    \* the remainder: a line that has no end yet
  text,    \* the content so far
  broken,  \* the body did not come to its end
  result   \* what is handed on
vars == <<streaming, phase, tries, meant, spoilt, send, rest, text, broken, result>>

(* One event a line, "data:" before it, and "[DONE]" at the end; the piece g *)
(* is spoilt.                                                                *)
Stream(m, g) ==
  [i \in 1 .. 3 * Len(m) + 3 |->
     LET p == (i - 1) \div 3 + 1
     IN  IF i % 3 = 1 THEN "data:" ELSE IF i % 3 = 0 THEN "nl"
         ELSE IF p > Len(m) THEN "[DONE]" ELSE IF p = g THEN Garbage ELSE m[p]]
(* The content of the lines that are whole in s.                             *)
Starts(s, i) == i = 1 \/ s[i - 1] = "nl"
IsDelta(s, i) == i > 1 /\ s[i] \in Pieces /\ s[i - 1] = "data:" /\ Starts(s, i - 1)
ProcessLines(s) ==
  LET chunks[i \in 0 .. Len(s)] == IF i = 0 THEN <<>>
                                  ELSE IF IsDelta(s, i) THEN Append(chunks[i - 1], s[i]) ELSE chunks[i - 1]
  IN  chunks[Len(s)]
LastEnd(s) == IF \E i \in 1 .. Len(s) : s[i] = "nl"
              THEN CHOOSE i \in 1 .. Len(s) : s[i] = "nl" /\ \A j \in i + 1 .. Len(s) : s[j] # "nl" ELSE 0
Mut_Remainder(s) == <<>>
Remainder(s) == SubSeq(s, LastEnd(s) + 1, Len(s))
Mut_Parsed(t) == IF t # Null /\ t[1] = "{" /\ t[Len(t)] = "}" THEN t ELSE Null
Parsed(t) == IF t \in Objects THEN t ELSE Null

Init ==
  /\ streaming \in BOOLEAN /\ phase = "retrieve" /\ tries = 0 /\ meant = Null /\ spoilt = FALSE
  /\ send = <<>> /\ rest = <<>> /\ text = <<>> /\ broken = FALSE /\ result = Null

(* By meaning or by words; the embedding has a timer of its own and its      *)
(* failure is caught.                                                        *)
Retrieve == phase = "retrieve" /\ phase' = "ask" /\ tries' = 1
            /\ UNCHANGED <<streaming, meant, spoilt, send, rest, text, broken, result>>
(* No answer of the first call: the same question again.                     *)
Complete(r) ==
  /\ result' = r
  /\ IF r = Null /\ tries = 1 THEN phase' = "ask" /\ tries' = 2 ELSE phase' = "done" /\ UNCHANGED tries
(* Refused, redirected, not reached.                                         *)
NoResponse == /\ phase = "ask" /\ broken' = TRUE /\ Complete(Null)
              /\ UNCHANGED <<streaming, meant, spoilt, send, rest, text>>
Responds ==
  /\ phase = "ask" /\ phase' = "body" /\ rest' = <<>> /\ text' = <<>> /\ broken' = FALSE
  /\ \E m \in Answers : \E g \in 0 .. IF streaming THEN Len(m) ELSE 0 :
       meant' = m /\ spoilt' = (g > 0) /\ send' = IF streaming THEN Stream(m, g) ELSE <<>>
  /\ UNCHANGED <<streaming, tries, result>>
Body == phase = "body" /\ UNCHANGED <<streaming, meant, spoilt>>
ReadChunk ==
  /\ Body /\ send # <<>> /\ UNCHANGED <<phase, tries, broken, result>>
  /\ \E n \in 1 .. MaxChunk :
       LET s == rest \o SubSeq(send, 1, n)
       IN  /\ n <= Len(send) /\ send' = SubSeq(send, n + 1, Len(send))
           /\ text' = text \o ProcessLines(SubSeq(s, 1, LastEnd(s))) /\ rest' = Remainder(s)
(* The body ends, perhaps early: the remainder counts as a last line.        *)
ReadStreamingContent ==
  /\ Body /\ streaming /\ broken' = (send # <<>>) /\ Complete(Parsed(text \o ProcessLines(rest)))
  /\ UNCHANGED <<send, rest, text>>
(* One body, whole or not; half a body is no JSON.                           *)
ReadCompletion ==
  /\ Body /\ ~streaming /\ broken' \in BOOLEAN /\ Complete(IF broken' THEN Null ELSE Parsed(meant))
  /\ UNCHANGED <<send, rest, text>>
ConnectionLost == Body /\ broken' = TRUE /\ Complete(Null) /\ UNCHANGED <<send, rest, text>>
(* The timer runs from the request to the end of the body.                   *)
Mut_Armed == phase = "ask"
Armed == phase \in {"ask", "body"}
Abort == /\ Armed /\ broken' = TRUE /\ Complete(Null)
         /\ UNCHANGED <<streaming, meant, spoilt, send, rest, text>>

Provider == NoResponse \/ Responds \/ ReadChunk \/ ReadStreamingContent \/ ReadCompletion \/ ConnectionLost
Next == Retrieve \/ Provider \/ Abort
(* The timers run; nothing is assumed of the provider.                       *)
Spec == Init /\ [][Next]_vars /\ WF_vars(Retrieve) /\ WF_vars(Abort)
-----------------------------------------------------------------------------
TypeOK ==
  /\ streaming \in BOOLEAN /\ phase \in {"retrieve", "ask", "body", "done"} /\ tries \in 0 .. 2
  /\ meant \in Answers \cup {Null} /\ result \in Objects \cup {Null}
(* What is handed on is what the provider meant in one call, from its first  *)
(* piece to its last, wherever the stream was cut and whether or not it      *)
(* broke off: never half an answer that happens to end in a brace, never     *)
(* pieces of two calls.  An answer that did arrive is not lost.  Garbage in  *)
(* the middle of a stream is left out, and what is left may be another       *)
(* object.                                                                   *)
AnswerIsWhole ==
  (phase = "done" /\ ~spoilt) => /\ result \in {Null, meant}
                                 /\ (~broken /\ meant \in Objects) => result = meant
(* Whatever the provider does or leaves undone, the client's message gets an *)
(* answer or the ladder without a model.                                     *)
Ended == phase = "done"
QuestionEnds == <>[]Ended
=============================================================================
