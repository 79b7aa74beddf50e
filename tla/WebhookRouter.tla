---------------------------- MODULE WebhookRouter ----------------------------
(***************************************************************************)
(* How the bot reads an envelope of the WhatsApp platform                  *)
(* (adapters/whatsapp/webhook-router).  An envelope is                     *)
(*   signed   its signature is the platform's                              *)
(*   account  "ours" or "other"                                            *)
(*   field    "messages", or another subject that is skipped               *)
(*   messages in order, each [type, text, button, title, media, caption,   *)
(*            context]: the texts are "none", "plain", "blank", "long" or  *)
(*            "marker" (a note only the bot may write, "[CERTIFICADO:OK]"),*)
(*            media is "none", "full" or "noId"                            *)
(*   statuses in order, "known" or "unknown"                               *)
(***************************************************************************)
EXTENDS Naturals, Sequences, SequencesExt

ReplyButtons == {"CONSENT_YES", "HUMAN_HELP"}   \* of sixteen
Nothing == "none"

(* A client's bracket becomes a parenthesis before anything else sees it. *)
NeutralizeSystemMarkers(text) == IF text = "marker" THEN "defused" ELSE text
Trimmed(text) == IF text = "blank" THEN Nothing ELSE text

Wellformed(m) ==
  /\ m.type = "text" => m.text \notin {"empty", "long"}
  /\ m.type \in {"document", "image", "audio", "video"} => m.media # "noId"
Type(m) == IF m.type \in {"text", "document", "image", "interactive", "button"} THEN m.type ELSE "unsupported"
HasMedia(m) == Type(m) \in {"document", "image"} /\ m.media = "full"
Button(m) == IF m.button \in ReplyButtons THEN m.button ELSE Nothing
Mut_Clean(m) ==
  [type |-> Type(m),
   text |-> IF Type(m) = "text" THEN NeutralizeSystemMarkers(m.text) ELSE Nothing,
   button |-> Button(m),
   title |-> IF Button(m) = Nothing THEN Nothing ELSE NeutralizeSystemMarkers(Trimmed(m.title)),
   media |-> HasMedia(m),
   caption |-> IF HasMedia(m) THEN Trimmed(m.caption) ELSE Nothing,
   context |-> m.context,
   unreadable |-> m.type \in {"audio", "video", "sticker", "voice"}]
Clean(m) ==
  [type |-> Type(m),
   text |-> IF Type(m) = "text" THEN NeutralizeSystemMarkers(m.text) ELSE Nothing,
   button |-> Button(m),
   title |-> IF Button(m) = Nothing THEN Nothing ELSE NeutralizeSystemMarkers(Trimmed(m.title)),
   media |-> HasMedia(m),
   caption |-> IF HasMedia(m) THEN NeutralizeSystemMarkers(Trimmed(m.caption)) ELSE Nothing,
   context |-> m.context,
   unreadable |-> m.type \in {"audio", "video", "sticker", "voice"}]

(* One message or report that cannot be read refuses the whole envelope.  *)
Refusal(e) ==
  IF ~e.signed THEN "INVALID_SIGNATURE"
  ELSE IF e.field # "messages" THEN Nothing
  ELSE IF e.account # "ours" THEN "WRONG_WHATSAPP_ACCOUNT"
  ELSE IF \E i \in DOMAIN e.messages : ~Wellformed(e.messages[i]) THEN "INVALID_WHATSAPP_MESSAGE"
  ELSE IF \E i \in DOMAIN e.statuses : e.statuses[i] # "known" THEN "INVALID_WHATSAPP_STATUS" ELSE Nothing
NormalizeWebhook(e) ==
  IF Refusal(e) # Nothing \/ e.field # "messages" THEN <<>>
  ELSE [i \in DOMAIN e.messages |-> Clean(e.messages[i])]
=============================================================================
