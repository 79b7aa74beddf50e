-------------------------------- MODULE Turn --------------------------------
(***************************************************************************)
(* One conversation turn: from the text of a client to the event that the  *)
(* state machine is given (StrictConversationAgent.turn, the brain and the *)
(* policy around them), and the commit of that event to the case.          *)
(*                                                                         *)
(* A text is what the rules can tell of it:                                *)
(*   marks    the expressions it matches, each named for what it means     *)
(*   options  the reply buttons whose phrases it contains                  *)
(*   best     the button with the longest phrase, "tie" if there is none   *)
(*   check    the result in a [CERTIFICADO:...] line of the intake         *)
(* A reply is its name and whether it hands the case to a person.  Wording,*)
(* redaction and the history itself are left out: past keeps what the      *)
(* rules read of it.  The models may answer anything of the right shape.   *)
(***************************************************************************)
EXTENDS CaseFsm, Sequences, FiniteSets

CONSTANTS
  Inputs  \* the turns to decide: [text, case, past, conf]

Mut_SecureButtonOnly == {"CONSENT_NO", "DRAFT_APPROVED", "DRAFT_REJECTED"}
SecureButtonOnly == {"CONSENT_YES", "CONSENT_NO", "DRAFT_APPROVED", "DRAFT_REJECTED"}
OptionEvent ==
  [HAS_CERT_YES |-> "CLIENT_HAS_CERT", HAS_CERT_NO |-> "CLIENT_HAS_NO_CERT",
   DEVICE_PC |-> "CLIENT_HAS_CERT_PC", DEVICE_MOBILE |-> "CLIENT_HAS_CERT_MOBILE",
   HAS_PC |-> "CLIENT_HAS_PC", NO_PC |-> "CLIENT_HAS_NO_PC",
   NEEDS_ASSISTANCE |-> "CLIENT_REQUESTS_ASSISTANCE",
   CONSENT_YES |-> "CLIENT_CONSENT_GRANTED", CONSENT_NO |-> "CLIENT_CONSENT_DENIED",
   DRAFT_APPROVED |-> "CLIENT_DRAFT_APPROVED", DRAFT_REJECTED |-> "CLIENT_DRAFT_REJECTED",
   REVOKED |-> "CLIENT_REVOCATION_DONE", REISSUED |-> "CLIENT_ACKNOWLEDGED",
   COURT_APPOINTMENT |-> "CLIENT_CANNOT_GET_CERT",
   APUDATA_REQUEST |-> "CLIENT_REQUESTS_URGENT_PAID", HUMAN_HELP |-> "CLIENT_REQUESTS_HUMAN"]
Options == DOMAIN OptionEvent
Devices == {"DEVICE_PC", "DEVICE_MOBILE"}
Triage == {"HAS_CERT_YES", "HAS_CERT_NO"} \cup Devices
AllowedOptions(x) ==
  CASE x.state = "INITIAL_TRIAGE" -> Triage
    [] x.state = "WAITING_CERT_RESPONSE" ->
         IF x.cert = "yes" THEN Devices \cup {"NEEDS_ASSISTANCE"} ELSE Triage
    [] x.state \in {"PC_TUTORIAL_SENT", "WAITING_PDF_SUBMISSION"} ->
         {"NEEDS_ASSISTANCE", "HUMAN_HELP"}
    [] x.state = "MOBILE_TRIAGE_PC_CHECK" -> {"HAS_PC", "NO_PC", "DEVICE_PC", "NEEDS_ASSISTANCE"}
    [] x.state = "MOBILE_EXPORT_GUIDE_SENT" -> {"DEVICE_PC", "NEEDS_ASSISTANCE"}
    [] x.state = "MOBILE_ASSIST_CONSENT_REQUESTED" -> {"CONSENT_YES", "CONSENT_NO", "DEVICE_PC"}
    [] x.state = "MOBILE_ASSIST_PROCESSING" -> {"HUMAN_HELP"}
    [] x.state = "CERT_ACQUISITION_LINKS_SENT" ->
         {"HAS_CERT_YES", "NEEDS_ASSISTANCE", "COURT_APPOINTMENT", "APUDATA_REQUEST"} \cup Devices
    [] x.state = "FALLBACK_OPTIONS" -> {"COURT_APPOINTMENT", "APUDATA_REQUEST", "HUMAN_HELP"}
    [] x.state = "COURT_FALLBACK_GUIDE_SENT" -> Triage \cup {"HUMAN_HELP"}
    [] x.state \in {"PROVISIONAL_VIABILIZED", "REVOCATION_GUIDE_SENT"} -> {"REVOKED", "HUMAN_HELP"}
    [] x.state = "WAITING_REVOCATION_REISSUE" -> {"REISSUED", "HUMAN_HELP"}
    [] OTHER -> {}

VARIABLES
  text, case, past, conf,  \* the turn: its text, the snapshot, what was said, the set-up
  step,      \* what the agent does next
  tries,     \* drafts the brain has been asked for
  reply,     \* the reply decided so far: its name and whether a person follows
  turn,      \* the decided event
  asked      \* the models that read the text
vars == <<text, case, past, conf, step, tries, reply, turn, asked>>

Is(m) == m \in text.marks
Some(ms) == text.marks \cap ms # {}
NoReply == [says |-> "none", human |-> FALSE]
Say(says, human) == [says |-> says, human |-> human]
NoTurn == Event("NONE", NoDoc, "none")
Talk(r) == Event("CLIENT_SMALL_TALK", NoDoc,
                 IF r.says = "silent" THEN "silent" ELSE IF r.human THEN "review" ELSE "reply")
Choice(option) == Event(OptionEvent[option], NoDoc, "none")
DecidedAs(e) == turn' = e /\ step' = "decided"

(* ------------------------------ the gate ------------------------------ *)
HardMarks == {"empty", "injection", "secret", "material", "stop"}
RequiresDeterministicHandoff == Some(HardMarks)
(* In a line the system wrote about a file, "PIN" or "clave" is no secret.  *)
GatedMarks == IF Is("file") THEN HardMarks \ {"secret"} ELSE HardMarks
StopWithQuestion == Is("?") /\ ~Some(HardMarks \ {"stop"})
Mut_BrainReads == conf.brain /\ conf.phase = 3 /\ ~Is("omitted")
BrainReads ==
  /\ conf.brain /\ conf.phase = 3 /\ ~Is("omitted")
  /\ ~Some(GatedMarks) \/ StopWithQuestion
  /\ Is("sms") => Is("file")

CertificateReply ==
  CASE text.check = "OK" -> Say("certificate", TRUE)
    [] text.check \in {"WAITING_PASSWORD", "WAITING_CERTIFICATE", "PASSWORD_INVALID",
                       "EXPIRED", "OTHER_PERSON"} -> Say("certificate", FALSE)
    [] OTHER -> Say("certificateUnusable", TRUE)
Begin ==
  /\ step = "start"
  /\ IF text.check # "none" THEN DecidedAs(Talk(CertificateReply))
     ELSE step' = (IF BrainReads THEN "brain" ELSE "ladder") /\ UNCHANGED turn
  /\ UNCHANGED <<text, case, past, conf, tries, reply, asked>>

(* ------------------------------ the brain ----------------------------- *)
BrainSteps == Triage \cup {"HAS_PC", "NO_PC", "COURT_APPOINTMENT"}
TakeOver == Event("CLIENT_REQUESTS_ASSISTANCE", NoDoc, "copyLocated")
StepEvent(s) == IF s = "OFFICE_TAKES_OVER" THEN TakeOver ELSE Choice(s)
Paper == [type |-> "PENDING_REVIEW", filed |-> FALSE]
Decision(e) == Transition(case, Paper, e)
(* Preview: a step the client would not hear about is no step, and neither *)
(* is one whose message was sent already.                                  *)
AvailableSteps ==
  {s \in (BrainSteps \cap AllowedOptions(case))
           \cup (IF case.cert = "yes" THEN {"OFFICE_TAKES_OVER"} ELSE {}) :
     LET d == Decision(StepEvent(s))
     IN  /\ d.to # "ESCALATED_HUMAN" /\ d.act.kind = "SEND"
         /\ s \notin past.heard}
Drafts == [action : {"RESPONDER", "SILENCIO"} \cup BrainSteps \cup {"OFFICE_TAKES_OVER"},
           handoff : BOOLEAN, sound : BOOLEAN]
(* checkDecision and checkReply: the reason to redraft.  A silent draft is  *)
(* sound when neither side asked anything.                                 *)
Usable(d) ==
  /\ d.action \in {"RESPONDER", "SILENCIO"} \cup AvailableSteps
  /\ IF d.action = "SILENCIO" /\ ~d.handoff THEN ~past.question /\ ~Is("?") ELSE d.sound
ToTurn(d) ==
  IF d.handoff THEN Talk(Say("brain", TRUE))
  ELSE IF d.action = "SILENCIO" THEN Talk(Say("silent", FALSE))
  ELSE IF d.action = "RESPONDER" THEN Talk(Say("brain", FALSE)) ELSE StepEvent(d.action)
Facts == {"none", "no", "MOBILE", "PC"}
(* statedFacts, merged into the case with a spoken reply.                  *)
StatedFacts(f) ==
  CASE f = "none" -> case
    [] f = "no" -> [case EXCEPT !.cert = "no", !.device = "NONE"]
    [] OTHER -> [case EXCEPT !.cert = "yes", !.device = f]
Draft ==
  /\ step = "brain" /\ tries < 3
  /\ asked' = asked \cup {"brain"} /\ tries' = tries + 1
  /\ \E d \in Drafts :
       IF Usable(d)
       THEN /\ DecidedAs(ToTurn(d))
            /\ \E f \in Facts :
                 /\ turn'.type # "CLIENT_SMALL_TALK" => f = "none"
                 /\ case' = StatedFacts(f)
       ELSE UNCHANGED <<step, turn, case>>
  /\ UNCHANGED <<text, past, conf, reply>>
(* The first attempt may fail; a later one leaves the turn to the fallback. *)
Unreachable ==
  /\ step = "brain" /\ tries < 3
  /\ asked' = asked \cup {"brain"} /\ tries' = tries + 1
  /\ step' = IF tries = 0 THEN "brain" ELSE "ladder"
  /\ UNCHANGED <<text, case, past, conf, reply, turn>>
ThreeDrafts ==
  /\ step = "brain" /\ tries = 3
  /\ DecidedAs(Talk(Say("brain", TRUE)))
  /\ UNCHANGED <<text, case, past, conf, tries, reply, asked>>

(* --------------------------- the fixed answers ------------------------ *)
(* A rung answers a text that matches its mark, unless it also matches one *)
(* of the others, in the given states, for the given state of the          *)
(* certificate; helped restricts it to clients who were helped before.     *)
Certs == {"unknown", "no", "yes"}
Rung(mark, human) ==
  [on |-> mark, unless |-> {}, states |-> States, certs |-> Certs, helped |-> FALSE,
   answer |-> Say(mark, human)]
Unless(r, marks) == [r EXCEPT !.unless = marks]
When(r, states, certs) == [r EXCEPT !.states = states, !.certs = certs]
NotYes == {"unknown", "no"}
Acquiring == {"CERT_ACQUISITION_LINKS_SENT", "WAITING_CERT_RESPONSE"}
ClaimSide == {"charges", "claimSide"}
EarlyRungs ==
  << Rung("death", TRUE), Rung("person", TRUE), Rung("doubtsUs", TRUE),
     Unless(Rung("wantsHelp", TRUE), {"charges"}), Rung("keepsPaying", TRUE),
     Rung("bankAccount", TRUE), Rung("whatFor", FALSE), Rung("lost", FALSE),
     Rung("availability", FALSE), Rung("whereToSend", FALSE),
     Unless(Rung("sendsNow", FALSE), {"noTengo"}), Unless(Rung("hardTimes", TRUE), {"?"}),
     Rung("illness", TRUE), Unless(Rung("wantsToPay", TRUE), {"declinesPay", "charges"}),
     Rung("signByMail", FALSE), Rung("alreadyDid", TRUE), Rung("callThem", TRUE),
     Rung("withColleague", TRUE), Rung("later", FALSE), Rung("ignoresLender", FALSE),
     Rung("callMe", TRUE), Rung("courtSaid", TRUE), Rung("prefersUs", TRUE),
     Rung("noTime", FALSE), Unless(Rung("sentUs", TRUE), {"?", "filedAlready"}),
     Rung("wroteAndWaits", TRUE), Rung("lostPassword", TRUE),
     When(Rung("offBooks", FALSE), States, NotYes), Rung("howToSign", FALSE),
     When(Unless(Rung("confused", FALSE), ClaimSide \cup {"whatCertificate", "copy"}),
          States, {"yes"}),
     Rung("onPaper", FALSE), Rung("spam", TRUE), Rung("howLong", FALSE),
     Rung("negotiates", TRUE) >>
(* What belongs to another desk: the claim, what others charge or write.    *)
OutsideTopics ==
  << Unless(Rung("claimStatus", FALSE), {"aboutWorkflow"}),
     Unless(Rung("charges", TRUE), {"aboutWorkflow", "asksPrice"}),
     Unless(Rung("charges", FALSE), {"aboutWorkflow"}),
     Unless(Rung("claimScope", FALSE), {"aboutWorkflow"}),
     Unless(Rung("communications", FALSE), {"aboutWorkflow"}),
     Unless(Rung("documents", FALSE), {"aboutWorkflow"}),
     Unless(Rung("claimDetail", FALSE), {"aboutWorkflow"}),
     Unless(Rung("otherCompany", TRUE), {"aboutWorkflow"}) >>
LateRungs ==
  << Rung("howToExport", FALSE),
     [Unless(Rung("blocked", TRUE), {"otherCompany", "signingTool"}) EXCEPT !.helped = TRUE],
     Unless(Rung("blocked", FALSE), {"otherCompany", "signingTool"}),
     Unless(Rung("frustrated", TRUE), {"asksHelp", "money"}), Rung("money", FALSE),
     Rung("needPassword", FALSE), Rung("whoAreYou", FALSE),
     When(Rung("offersCert", FALSE), States, {"yes"}),
     When(Rung("noApp", FALSE), States, {"yes"}), Rung("ordinal", FALSE),
     When(Rung("dnie", FALSE), Acquiring, NotYes), When(Rung("video", FALSE), Acquiring, NotYes),
     When(Rung("hasDni", FALSE), {"CERT_ACQUISITION_LINKS_SENT"}, Certs),
     When(Rung("confused", FALSE), States, NotYes),
     When(Rung("relative", FALSE), States, NotYes),
     When(Rung("cannotGet", FALSE),
          Acquiring \cup {"FALLBACK_OPTIONS", "INITIAL_TRIAGE"}, Certs),
     Rung("scam", FALSE) >>
Ladder == EarlyRungs \o OutsideTopics \o LateRungs

Helped == case.dHelp > 0 \/ case.cHelp > 0
Applies(r) == /\ Is(r.on) /\ ~Some(r.unless)
              /\ case.state \in r.states /\ case.cert \in r.certs
              /\ r.helped => Helped
FirstOf(ladder) ==
  LET hits == SelectSeq(ladder, Applies)
  IN  IF hits = <<>> THEN NoReply ELSE Head(hits).answer

(* pendingConversationText: the question a case is waiting on.             *)
HasPending ==
  case.state \in GuidedStates \cup {"FALLBACK_OPTIONS", "COURT_FALLBACK_GUIDE_SENT"}
Opening == ~past.introduced /\ case.cert # "yes"
           /\ case.state \in {"INITIAL_TRIAGE", "WAITING_CERT_RESPONSE"}
Greeted ==
  IF conf.phase # 3 \/ RequiresDeterministicHandoff THEN NoReply
  ELSE IF Is("greeting") /\ Opening THEN Say("firstContact", FALSE)
  ELSE IF Some({"greeting", "letter"}) /\ HasPending THEN Say("pending", FALSE)
  ELSE NoReply
(* The answer to a stop word, which a word about codes replaces.           *)
Stopped ==
  IF Is("sms") /\ ~RequiresDeterministicHandoff THEN Say("noCodes", FALSE)
  ELSE IF Some({"stop", "leave"}) THEN Say("goodbye", TRUE)
  ELSE Greeted
(* A value that looks like a secret is the password only if it was asked.  *)
Delivered == Some({"omitted", "secret", "material"})
PasswordRequested ==
  \/ case.state \in {"MOBILE_ASSIST_CONSENT_REQUESTED", "MOBILE_ASSIST_PROCESSING"}
  \/ past.asksPassword \/ Is("namesCertificate")
SecretAnswer ==
  CASE Delivered /\ ~Is("asksTheirs") ->
         IF PasswordRequested THEN Say("received", TRUE) ELSE Say("noSecrets", FALSE)
    [] Is("asksTheirs") -> Say("yourPassword", FALSE)
    [] OTHER -> Say("cannotShare", TRUE)
(* The question which certificate is meant replaces what came before it.   *)
LocalReply ==
  IF Is("whatCertificate") THEN Say("whatCertificate", FALSE)
  ELSE IF Stopped # NoReply THEN Stopped
  ELSE IF RequiresDeterministicHandoff \/ Is("omitted") THEN SecretAnswer
  ELSE FirstOf(Ladder)

(* Before any reply: a refusal to share, and an offer to hand it over.      *)
Denied == Event("CLIENT_CONSENT_DENIED", NoDoc, "none")
HandedOver == Event("CLIENT_REQUESTS_ASSISTANCE", NoDoc, "takeover")
(* After it, for a client who was helped with the copy: short answers.      *)
CopyAnswer ==
  IF case.cHelp = 0 THEN NoTurn
  ELSE IF Is("copyLocated") \/ (case.cHelp = 2 /\ Is("yes")) THEN TakeOver
  ELSE IF Is("device") THEN Event("CLIENT_REQUESTS_ASSISTANCE", NoDoc, "none")
  ELSE IF Is("no") THEN Event("CLIENT_EXPORT_FAILED", NoDoc, "none")
  ELSE NoTurn
AnswerLocally ==
  /\ step = "ladder"
  /\ IF Is("refuses") THEN DecidedAs(Denied) /\ UNCHANGED reply
     ELSE IF Is("handsOver") THEN DecidedAs(HandedOver) /\ UNCHANGED reply
     ELSE IF LocalReply # NoReply THEN reply' = LocalReply /\ step' = "close" /\ UNCHANGED turn
     ELSE IF CopyAnswer # NoTurn THEN DecidedAs(CopyAnswer) /\ UNCHANGED reply
     ELSE step' = "intent" /\ UNCHANGED <<reply, turn>>
  /\ UNCHANGED <<text, case, past, conf, tries, asked>>

(* ------------------- what the text means to a model ------------------- *)
SpokenIntents == {"DEFER_LATER", "READY_TO_SEND", "ASKS_WHERE_TO_SEND", "ASKS_WHICH_APP",
                  "WANTS_OFFICE_TO_DO_IT", "REFUSES_TO_SEND", "STUCK", "CONFUSED", "CLAIM_TOPIC"}
HandedIntents == {"ALREADY_DID_IT", "PERSONAL_SITUATION", "ASKS_FOR_CALL", "DOUBTS_IDENTITY"}
Intents == SpokenIntents \cup HandedIntents \cup {"ACK_ONLY", "OTHER"}
ReplyForIntent(i) ==
  IF i \in SpokenIntents \cup HandedIntents
  THEN Say("intent", i \in HandedIntents) ELSE NoReply
Understand ==
  /\ step = "intent"
  /\ IF conf.phase = 3 /\ conf.model
     THEN /\ asked' = asked \cup {"intent"}
          /\ \E i \in Intents \cup {"UNKNOWN"} :  \* not confident, not on the list, no answer
               /\ reply' = IF i = "UNKNOWN" THEN NoReply ELSE ReplyForIntent(i)
               /\ step' = IF reply' = NoReply THEN "guidance" ELSE "close"
     ELSE step' = "guidance" /\ UNCHANGED <<asked, reply>>
  /\ UNCHANGED <<text, case, past, conf, tries, turn>>

(* ------------------------ guidance and reviewed ----------------------- *)
Yields == Is("yields") /\ ~Some({"?", "asksHelp"})
Struggles == Some({"cannot", "asksHelp", "declaresDocument"})
Guidance ==
  IF conf.phase # 3 \/ ~Struggles \/ Some({"asksPrice", "choosesRoute"})
     \/ case.state \notin GuidedStates \cup {"COURT_FALLBACK_GUIDE_SENT", "FALLBACK_OPTIONS"}
  THEN NoTurn
  ELSE IF \/ case.state \notin GuidedStates /\ case.cert = "no"
          \/ /\ case.state \in {"INITIAL_TRIAGE", "WAITING_CERT_RESPONSE"}
             /\ case.cert # "yes" /\ Is("noTengo") /\ ~Is("declaresDocument")
  THEN Choice("HAS_CERT_NO")
  ELSE IF case.state \notin GuidedStates /\ case.cert = "yes"
  THEN Event("CLIENT_REQUESTS_ASSISTANCE", NoDoc, "resumeDigital")
  ELSE Event(IF Is("cannot") THEN "CLIENT_EXPORT_FAILED" ELSE "CLIENT_REQUESTS_ASSISTANCE",
             NoDoc, "none")
PowerSteps == {"PC_TUTORIAL_SENT", "WAITING_PDF_SUBMISSION", "COURT_FALLBACK_GUIDE_SENT",
               "WAITING_REVOCATION_REISSUE"}
IntakeSteps == {"INITIAL_TRIAGE", "WAITING_CERT_RESPONSE", "CERT_ACQUISITION_LINKS_SENT",
                "FALLBACK_OPTIONS"}
ReviewedLadder ==
  << When(Rung("declinesPay", FALSE), PowerSteps \cup IntakeSteps, Certs),
     Rung("asksPrice", FALSE), Rung("numberedOption", FALSE),
     When(Unless(Rung("completed", FALSE), {"negated", "code"}), PowerSteps, Certs),
     When(Unless(Rung("completed", FALSE), {"negated", "code", "namesCertificate"}),
          IntakeSteps, Certs),
     When(Rung("selfService", FALSE), PowerSteps, Certs),
     When(Rung("ack", FALSE), PowerSteps, Certs), Rung("whatIs", FALSE) >>
Reviewed == IF conf.phase = 3 THEN FirstOf(ReviewedLadder) ELSE NoReply
Guide ==
  /\ step = "guidance"
  /\ IF conf.phase = 3 /\ Yields
     THEN reply' = Say("yields", FALSE) /\ step' = "close" /\ UNCHANGED turn
     ELSE IF Guidance # NoTurn THEN DecidedAs(Guidance) /\ UNCHANGED reply
     ELSE IF Reviewed # NoReply THEN reply' = Reviewed /\ step' = "close" /\ UNCHANGED turn
     ELSE step' = "classify" /\ UNCHANGED <<reply, turn>>
  /\ UNCHANGED <<text, case, past, conf, tries, asked>>

(* ----------------------- the options of the state --------------------- *)
(* classifyClientText: the one option the words name, or why there is none. *)
Unsupported == [option |-> "none", why |-> "UNSUPPORTED"]
Because(why) == [Unsupported EXCEPT !.why = why]
Chosen(option) == [option |-> option, why |-> "none"]
Matches == text.options \cap AllowedOptions(case)
YesOption == IF case.state = "MOBILE_TRIAGE_PC_CHECK" THEN "HAS_PC" ELSE "HAS_CERT_YES"
NoOption == IF case.state = "MOBILE_TRIAGE_PC_CHECK" THEN "NO_PC" ELSE "HAS_CERT_NO"
Classified ==
  IF Is("injection") THEN Because("INJECTION")
  ELSE IF Some({"?", "stop", "empty"}) THEN Unsupported
  ELSE IF Is("yes") /\ YesOption \in AllowedOptions(case) THEN Chosen(YesOption)
  ELSE IF Is("no") /\ NoOption \in AllowedOptions(case) THEN Chosen(NoOption)
  ELSE IF Cardinality(Matches) > 1 /\ text.best \in Matches \ SecureButtonOnly
  THEN Chosen(text.best)
  ELSE IF \E o \in Devices : Matches = {o, "HAS_CERT_YES"}
  THEN Chosen(CHOOSE o \in Devices : Matches = {o, "HAS_CERT_YES"})
  ELSE IF Cardinality(Matches) # 1
  THEN IF Matches = {} THEN Unsupported ELSE Because("AMBIGUOUS")
  ELSE LET o == CHOOSE o \in Matches : TRUE
       IN  IF o \in SecureButtonOnly THEN Because("BUTTON_REQUIRED") ELSE Chosen(o)
(* A route has to be chosen and a device named by the client's own words.   *)
DeviceEvidence(c) ==
  IF c.option \in {"COURT_APPOINTMENT", "APUDATA_REQUEST"} /\ ~Is("choosesRoute")
  THEN Unsupported
  ELSE IF c.option \notin Devices \/ case.cert = "yes" THEN c
  ELSE IF ~Is("hasCertificate") THEN Unsupported
  ELSE IF ~Is("namesDevice") THEN Chosen("HAS_CERT_YES")
  ELSE c
Mut_Validated(option) == DeviceEvidence(Chosen(option))
Validated(option) ==
  IF option \in AllowedOptions(case) \ SecureButtonOnly
  THEN DeviceEvidence(Chosen(option)) ELSE Because("BUTTON_REQUIRED")
Settle(c) ==
  IF c.option # "none" THEN DecidedAs(Choice(c.option))
  ELSE step' = "respond" /\ UNCHANGED turn
Classify ==
  /\ step = "classify"
  /\ IF RequiresDeterministicHandoff \/ Is("?") \/ FirstOf(ReviewedLadder) # NoReply
        \/ Is("stillCannot")
     THEN Settle(Unsupported) /\ UNCHANGED asked
     ELSE IF Classified.why # "UNSUPPORTED" \/ ~conf.model
     THEN Settle(DeviceEvidence(Classified)) /\ UNCHANGED asked
     ELSE /\ asked' = asked \cup {"classify"}
          /\ \/ Settle(Unsupported)  \* a failure, or no option proposed
             \/ \E o \in Options : Settle(Validated(o))
  /\ UNCHANGED <<text, case, past, conf, tries, reply>>

(* ------------------------------ the reply ----------------------------- *)
Handoff == Say("handoff", TRUE)
PendingOr(r) == IF HasPending THEN Say("pending", FALSE) ELSE r
(* What the model says of a reply: who has to answer, or one of the routes. *)
Replies == [human : BOOLEAN, routes : BOOLEAN]
Spoken(p) ==
  IF case.state \in GuidedStates /\ ((p.human /\ ~Is("lawyer")) \/ p.routes)
  THEN Say("pending", FALSE) ELSE Say("model", p.human)
(* Phases 1 and 2 only greet, and say what a password is for.              *)
RolloutReply ==
  IF conf.phase < 3 /\ Some({"greeting", "needPassword"}) THEN Say("rollout", FALSE) ELSE NoReply
LocalSupport ==
  IF Is("person") THEN Handoff
  ELSE IF Some({"supported", "ack"}) THEN Say("support", FALSE) ELSE PendingOr(Handoff)
Respond ==
  /\ step = "respond" /\ step' = "close"
  /\ IF Classified.why = "INJECTION" \/ RequiresDeterministicHandoff
        \/ Classified.why = "BUTTON_REQUIRED"
     THEN reply' = Handoff /\ UNCHANGED asked
     ELSE IF Reviewed # NoReply THEN reply' = Reviewed /\ UNCHANGED asked
     ELSE IF Classified.why = "AMBIGUOUS" THEN reply' = PendingOr(Handoff) /\ UNCHANGED asked
     ELSE IF RolloutReply # NoReply THEN reply' = RolloutReply /\ UNCHANGED asked
     ELSE IF ~conf.model THEN reply' = LocalSupport /\ UNCHANGED asked
     ELSE /\ asked' = asked \cup {"reply"}
          /\ \/ reply' = LocalSupport  \* a failure, or wording that is refused
             \/ \E p \in Replies : reply' = Spoken(p)
  /\ UNCHANGED <<text, case, past, conf, tries, turn>>

(* A second bare acknowledgement is left alone; a reply that repeats the    *)
(* last message of the office is replaced.                                 *)
Close ==
  /\ step = "close"
  /\ DecidedAs(Talk(IF Is("ack") /\ past.ack THEN Say("silent", FALSE)
                    ELSE IF reply.says = past.last THEN Say("otherWays", FALSE) ELSE reply))
  /\ UNCHANGED <<text, case, past, conf, tries, reply, asked>>

(* The commit gives the event to the state machine.                        *)
Commit ==
  /\ step = "decided" /\ step' = "done"
  /\ RespectsGates(case, Paper, turn, Decision(turn))
  /\ case' = [Patched(case, Decision(turn).patch) EXCEPT !.state = Decision(turn).to]
  /\ UNCHANGED <<text, past, conf, tries, reply, turn, asked>>

Init ==
  /\ \E i \in Inputs : text = i.text /\ case = i.case /\ past = i.past /\ conf = i.conf
  /\ step = "start" /\ tries = 0 /\ reply = NoReply /\ turn = NoTurn /\ asked = {}
Next ==
  \/ Begin \/ Draft \/ Unreachable \/ ThreeDrafts \/ AnswerLocally \/ Understand
  \/ Guide \/ Classify \/ Respond \/ Close \/ Commit
Done == step = "done" /\ UNCHANGED vars
Spec == Init /\ [][Next \/ Done]_vars
FairSpec == Spec /\ WF_vars(Next)

(* ----------------------------- properties ----------------------------- *)
TypeOK ==
  /\ step \in {"start", "brain", "ladder", "intent", "guidance", "classify", "respond",
               "close", "decided", "done"}
  /\ tries \in 0..3 /\ reply.human \in BOOLEAN
  /\ turn.type \in ClientEvents \cup {"NONE"} /\ case.state \in States
  /\ asked \subseteq {"brain", "intent", "classify", "reply"}

(* Words never give the consent or the review of a draft that only a button *)
(* gives, whatever the models propose (SECURE_BUTTON_ONLY): no turn brings  *)
(* the case a consent or a review it did not have.                         *)
NoConsentInWords ==
  /\ (case'.consent => case.consent) /\ (case'.reviewed => case.reviewed)
  /\ turn'.type \notin {"CLIENT_CONSENT_GRANTED", "CLIENT_DRAFT_APPROVED", "CLIENT_DRAFT_REJECTED"}
WordsNeverConsent == [][NoConsentInWords]_vars

(* What must never depend on a model (the comment of decideTurn) is read by *)
(* none: an override attempt, a secret the client typed, and a stop word    *)
(* outside a question.                                                     *)
GatedTextStaysLocal ==
  Some(GatedMarks) \/ Is("omitted") \/ (Is("sms") /\ ~Is("file")) =>
    asked \subseteq IF StopWithQuestion THEN {"brain"} ELSE {}

(* A text is answered: the client hears of it or a person takes over, but   *)
(* for a silence the agent chose.  Two events of the policy are answered by *)
(* no state and are named here: a refusal outside the states that offer     *)
(* other routes, and a document the client says was sent again; a failed    *)
(* attempt is one more where no guided help is due.                         *)
TextIsAnswered ==
  step = "decided" =>
    \/ turn.says = "silent"
    \/ turn.type \in {"CLIENT_CONSENT_DENIED", "CLIENT_ACKNOWLEDGED", "CLIENT_EXPORT_FAILED"}
    \/ Decision(turn).act # NoOp

(* Every turn comes to a decision the gates of the engine accept: none is   *)
(* rolled back and read again for ever.                                    *)
TurnSettles == <>(step = "done")
=============================================================================
