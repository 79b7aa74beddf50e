------------------------------- MODULE MCOutbox -------------------------------
(* Instances of Outbox for TLC.                                             *)
EXTENDS OutboxInvariant, TLC

CONSTANTS a1, a2, w1, w2

OneStep == a1 :> "STEP"
OneCompletion == a1 :> "COMPLETION"
OneFiling == a1 :> "FILING"
FilingAndReminder == a1 :> "FILING" @@ a2 :> "REMINDER"
MediaAndNotice == a1 :> "MEDIA" @@ a2 :> "HANDOFF"
NoFallback == [a \in Actions |-> NoAction]
NoticeFallback == a1 :> a2 @@ a2 :> NoAction

===============================================================================
