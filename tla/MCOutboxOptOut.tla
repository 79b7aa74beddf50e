---------------------------- MODULE MCOutboxOptOut ----------------------------
(* Instance of OutboxOptOut for TLC: phase one of a case with a message     *)
(* that carries media and the notice that a person takes over.              *)
EXTENDS OutboxOptOut, TLC

CONSTANTS a1, a2, w1

MediaAndNotice == a1 :> "MEDIA" @@ a2 :> "HANDOFF"
NoticeFallback == a1 :> a2 @@ a2 :> NoAction

===============================================================================
