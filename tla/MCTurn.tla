------------------------------- MODULE MCTurn -------------------------------
(* Inputs of the conversation turn: every mark alone in the states a case   *)
(* waits in, and the pairs whose order of the rules matters.               *)
EXTENDS Turn

Snapshot(s, cert, d, k) ==
  [state |-> s, prev |-> "NONE", paused |-> FALSE, optOut |-> FALSE, closed |-> FALSE,
   cert |-> cert, device |-> IF cert = "yes" THEN "PC" ELSE "unset", dHelp |-> d, cHelp |-> k,
   consent |-> s = "MOBILE_ASSIST_PROCESSING", doc |-> NoDoc, approved |-> FALSE,
   reviewed |-> FALSE, audit |-> "none", provisional |-> FALSE, gate |-> "none"]
Text(marks) == [marks |-> marks, options |-> {}, best |-> "tie", check |-> "none"]
Worded(options, best, marks) ==
  [marks |-> marks, options |-> options, best |-> best, check |-> "none"]
Checked(check) == [marks |-> {}, options |-> {}, best |-> "tie", check |-> check]

Rungs == {Ladder[i].on : i \in DOMAIN Ladder} \cup
         {ReviewedLadder[i].on : i \in DOMAIN ReviewedLadder}
Others == {"empty", "injection", "secret", "stop", "leave", "omitted", "sms",
           "greeting", "letter", "?", "refuses", "handsOver", "copyLocated", "yes", "no",
           "device", "yields", "cannot", "asksHelp", "declaresDocument", "asksTheirs",
           "whatCertificate", "supported", "ack", "lawyer"}
Marks == Rungs \cup Others
Hard == {"stop", "secret", "injection", "sms", "file", "omitted"}
Soft == {"?", "death", "illness", "refuses", "whatCertificate", "asksTheirs", "sms",
         "namesCertificate", "leave", "file", "secret", "stop"}
Pairs == {Text({h, m}) : h \in Hard, m \in Soft} \cup
         {Text({"noTengo", "asksHelp"}), Text({"declinesPay", "wantsToPay"}), Text({"leave", "sms"})}
Singles == {Text({m}) : m \in Marks} \cup {Checked(k) : k \in {"OK", "PASSWORD_INVALID", "UNREADABLE"}}
Phrases == {Worded({o}, o, {}) : o \in Options} \cup
  {Worded({o}, o, {"hasCertificate", "namesDevice", "choosesRoute"}) :
     o \in Devices \cup {"COURT_APPOINTMENT", "APUDATA_REQUEST"}} \cup
  {Worded({"HAS_CERT_YES", "DEVICE_PC"}, "tie", {"hasCertificate", "namesDevice"}),
   Worded({"CONSENT_YES", "DEVICE_PC"}, "CONSENT_YES", {}),
   Worded({"DEVICE_PC", "NEEDS_ASSISTANCE"}, "tie", {})}

Fresh == [introduced |-> FALSE, question |-> FALSE, asksPassword |-> FALSE, ack |-> FALSE,
          last |-> "none", heard |-> {}]
Known == [Fresh EXCEPT !.introduced = TRUE]
After(last) == [Known EXCEPT !.last = last, !.question = TRUE, !.asksPassword = TRUE,
                             !.heard = {"HAS_CERT_NO"}]
Full == [phase |-> 3, model |-> TRUE, brain |-> TRUE]
Local == [Full EXCEPT !.brain = FALSE]
Bare == [Local EXCEPT !.model = FALSE]
Early == [Local EXCEPT !.phase = 2]

Main == {Snapshot("WAITING_CERT_RESPONSE", "unknown", 0, 0),
         Snapshot("MOBILE_ASSIST_CONSENT_REQUESTED", "yes", 1, 0),
         Snapshot("PC_TUTORIAL_SENT", "yes", 3, 2)}
Cases == Main \cup
  {Snapshot("INITIAL_TRIAGE", "unknown", 0, 0), Snapshot("WAITING_CERT_RESPONSE", "yes", 0, 0),
   Snapshot("MOBILE_TRIAGE_PC_CHECK", "yes", 0, 0),
   Snapshot("MOBILE_EXPORT_GUIDE_SENT", "yes", 0, 1),
   Snapshot("MOBILE_ASSIST_PROCESSING", "yes", 0, 0),
   Snapshot("CERT_ACQUISITION_LINKS_SENT", "no", 1, 0),
   Snapshot("FALLBACK_OPTIONS", "yes", 2, 0), Snapshot("FALLBACK_OPTIONS", "unknown", 0, 0),
   Snapshot("COURT_FALLBACK_GUIDE_SENT", "unknown", 0, 0),
   Snapshot("REVOCATION_GUIDE_SENT", "yes", 0, 0),
   Snapshot("WAITING_REVOCATION_REISSUE", "yes", 0, 0), Snapshot("AUDITING_DOCUMENT", "yes", 0, 0)}

Turns(texts, cases, pasts, confs) ==
  [text : texts, case : cases, past : pasts, conf : confs]
Everything ==
  Turns(Singles \cup Phrases, Cases, {Known}, {Local}) \cup
  Turns(Pairs, Main, {Fresh}, {Full, Bare}) \cup
  Turns(Singles, Main, {After("goodbye"), [Known EXCEPT !.ack = TRUE]}, {Bare}) \cup
  Turns({Text({m}) : m \in Hard \cup Soft}, Main, {After("goodbye")}, {Full}) \cup
  Turns({Text({"confused"})}, Cases, {Fresh}, {Full}) \cup
  Turns(Singles, Main, {Known}, {Early})
=============================================================================
