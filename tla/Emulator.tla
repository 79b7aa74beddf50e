------------------------------- MODULE Emulator -------------------------------
(***************************************************************************)
(* The chat emulator of the demonstrations (wce-emulator): the bridge that *)
(* stands in for the WhatsApp platform (bridge/index.js) and the browsers  *)
(* that show the conversation.  The bot posts its messages to the bridge,  *)
(* which puts them into the form of the chat (payloadParser) and emits     *)
(* them; a reply travels back as a webhook (webhookConstructor) that the   *)
(* bot's router reads (WebhookRouter).                                     *)
(*                                                                         *)
(* A browser keeps its chat and the session it belongs to in its storage.  *)
(* A connection that breaks loses what is on it; the bridge may learn of   *)
(* the break later, and until then it counts the dead connection.          *)
(***************************************************************************)
EXTENDS WebhookRouter, FiniteSets

CONSTANTS
  Browsers,
  Outgoing,      \* what the bot sends: [type, subtype, to]
  Replies,       \* what a person does in a browser: [type, text, button, media, under]
  Envelopes,     \* what reaches the bot's webhook from elsewhere
  RecentLimit, ReplayLimit, PendingLimit,  \* 20, 10 and 100 in the bridge
  MaxActs,       \* messages, replies, resets, breaks and envelopes together
  MaxEnvelopes   \* envelopes from elsewhere come among that many first acts

VARIABLES
  session,   \* the bridge's demonstration, renewed by a reset or a restart
  recent,    \* the last messages the bridge emitted
  pending,   \* messages kept because no browser was counted
  counted,   \* browsers whose connection the bridge counts
  ghosts,    \* broken connections the bridge still counts
  frames,    \* frames on the way to each browser
  link,      \* whether a browser is connected
  own,       \* the session each browser keeps, 0 for none
  chat,      \* the bot's messages each browser shows
  warned,    \* browsers told that a reply did not arrive
  posted,    \* webhooks on the way to the bot, with the browser they are from
  inbox,     \* messages the bot has read
  sent,      \* messages emitted, which gives the next one its id
  acts       \* counts towards MaxActs
vars == <<session, recent, pending, counted, ghosts, frames, link, own, chat, warned, posted, inbox, sent, acts>>
ui == <<own, chat, warned>>
bot == <<posted, inbox>>

Act == acts < MaxActs /\ acts' = acts + 1
LastOf(s, n) == IF Len(s) <= n THEN s ELSE SubSeq(s, Len(s) - n + 1, Len(s))

(* ------------------------ the bot's messages --------------------------- *)
(* The chat's name of a message type; the bot's other types are refused.   *)
InteractiveType(subtype) ==
  CASE subtype = "button" -> "interactive_button"
    [] subtype = "list" -> "interactive_list"
    [] subtype = "cta_url" -> "interactive_cta"
    [] subtype = "location_request_message" -> "interactive_location_request"
    [] OTHER -> Nothing
ParseWhatsAppPayload(o) ==
  IF o.type \in {"text", "reaction", "text_preview", "location", "image", "video", "document"} THEN o.type
  ELSE IF o.type = "interactive" THEN InteractiveType(o.subtype)
  ELSE IF o.subtype = "typing" THEN "typing_indicator" ELSE Nothing

To(b, f) == [frames EXCEPT ![b] = Append(@, f)]
ToAll(f) == [b \in Browsers |-> IF b \in counted THEN Append(frames[b], f) ELSE frames[b]]
SessionFrame(s) == [frame |-> "session", session |-> s]
MessageFrame(m) == [frame |-> "message", message |-> m]

EmitUiMessage(m) ==
  /\ recent' = LastOf(Append(recent, m), RecentLimit)
  /\ IF counted = {} /\ ghosts = 0
     THEN pending' = LastOf(Append(pending, m), PendingLimit) /\ UNCHANGED frames
     ELSE frames' = ToAll(MessageFrame(m)) /\ UNCHANGED pending
SendToEmulator(o) ==
  /\ Act
  /\ IF ParseWhatsAppPayload(o) = Nothing \/ o.to # "demo"
     THEN UNCHANGED <<recent, pending, frames>>
     ELSE EmitUiMessage([id |-> sent, type |-> ParseWhatsAppPayload(o), session |-> session])
  /\ sent' = sent + 1
  /\ UNCHANGED <<session, counted, ghosts, link, ui, bot>>

Mut_ClearUi ==
  /\ Act
  /\ session' = session + 1 /\ pending' = <<>>
  /\ frames' = ToAll(SessionFrame(session + 1))
  /\ UNCHANGED <<recent, counted, ghosts, link, ui, bot, sent>>
ClearUi ==
  /\ Act
  /\ session' = session + 1 /\ pending' = <<>> /\ recent' = <<>>
  /\ frames' = ToAll(SessionFrame(session + 1))
  /\ UNCHANGED <<counted, ghosts, link, ui, bot, sent>>
Restart ==
  /\ Act
  /\ session' = session + 1 /\ pending' = <<>> /\ recent' = <<>>
  /\ counted' = {} /\ ghosts' = 0 /\ posted' = {}
  /\ frames' = [b \in Browsers |-> <<>>] /\ link' = [b \in Browsers |-> FALSE]
  /\ UNCHANGED <<ui, inbox, sent>>

(* ----------------------------- connections ----------------------------- *)
Replay == IF pending # <<>> THEN pending ELSE LastOf(recent, ReplayLimit)
Connection(b) ==
  /\ ~link[b]
  /\ link' = [link EXCEPT ![b] = TRUE] /\ counted' = counted \cup {b}
  /\ frames' = [frames EXCEPT ![b] = <<SessionFrame(session)>> \o
                                     [i \in DOMAIN Replay |-> MessageFrame(Replay[i])]]
  /\ pending' = <<>>
  /\ UNCHANGED <<session, recent, ghosts, ui, bot, sent, acts>>
Break(b, noticed) ==
  /\ link[b] /\ Act
  /\ link' = [link EXCEPT ![b] = FALSE] /\ counted' = counted \ {b}
  /\ ghosts' = IF noticed THEN ghosts ELSE ghosts + 1
  /\ frames' = [frames EXCEPT ![b] = <<>>]
  /\ UNCHANGED <<session, recent, pending, ui, bot, sent>>
Notice ==
  /\ ghosts > 0 /\ ghosts' = ghosts - 1
  /\ UNCHANGED <<session, recent, pending, counted, frames, link, ui, bot, sent, acts>>

(* ------------------------------ browsers ------------------------------- *)
OnSession(b, s) ==
  IF own[b] = s THEN UNCHANGED ui
  ELSE own' = [own EXCEPT ![b] = s] /\ chat' = [chat EXCEPT ![b] = <<>>] /\ UNCHANGED warned
Mut_Shown(b, m) == chat[b] # <<>> /\ Last(chat[b]).id = m.id
Shown(b, m) == \E i \in DOMAIN chat[b] : chat[b][i].id = m.id
OnMessage(b, m) ==
  /\ chat' = IF m.type \in {"typing_indicator", "reaction"} \/ Shown(b, m) THEN chat
             ELSE [chat EXCEPT ![b] = Append(@, m)]
  /\ UNCHANGED <<own, warned>>
Receive(b) ==
  /\ frames[b] # <<>>
  /\ LET f == Head(frames[b])
     IN  CASE f.frame = "session" -> OnSession(b, f.session)
           [] f.frame = "message" -> OnMessage(b, f.message)
           [] OTHER -> warned' = warned \cup {b} /\ UNCHANGED <<own, chat>>
  /\ frames' = [frames EXCEPT ![b] = Tail(@)]
  /\ UNCHANGED <<session, recent, pending, counted, ghosts, link, bot, sent, acts>>

(* The webhook of a reply; a tap names the message it stands under by the  *)
(* chat's id, which is not the id the bot was given for it.                *)
ConstructWebhookPayload(r) ==
  [type |-> IF r.type \in {"button_reply", "list_reply"} THEN "interactive" ELSE r.type,
   text |-> r.text, button |-> r.button, title |-> r.text,
   media |-> IF r.type \in {"image", "video", "document"} THEN "noId" ELSE Nothing,
   caption |-> Nothing, context |-> r.under]
Envelope(m) == [signed |-> TRUE, account |-> "ours", field |-> "messages", messages |-> <<m>>, statuses |-> <<>>]
HandleReply(b, r) ==
  /\ Act
  /\ IF link[b] THEN posted' = posted \cup {[from |-> b, envelope |-> Envelope(ConstructWebhookPayload(r))]}
     ELSE UNCHANGED posted
  /\ UNCHANGED <<session, recent, pending, counted, ghosts, frames, link, ui, inbox, sent>>

(* ------------------------------- the bot ------------------------------- *)
Read(e) == inbox' = inbox \cup ToSet(NormalizeWebhook(e))
Refuses(b) == IF link[b] THEN frames' = To(b, [frame |-> "error"]) ELSE UNCHANGED frames
Deliver(p) ==
  /\ p \in posted /\ posted' = posted \ {p}
  /\ \/ Read(p.envelope) /\ IF Refusal(p.envelope) = Nothing THEN UNCHANGED frames ELSE Refuses(p.from)
     \/ UNCHANGED inbox /\ Refuses(p.from)      \* the bot cannot be reached
  /\ UNCHANGED <<session, recent, pending, counted, ghosts, link, ui, sent, acts>>
EnvelopeArrives(e) ==
  /\ Act /\ acts < MaxEnvelopes
  /\ Read(e)
  /\ UNCHANGED <<session, recent, pending, counted, ghosts, frames, link, ui, posted, sent>>

Init ==
  /\ session = 1 /\ recent = <<>> /\ pending = <<>> /\ counted = {} /\ ghosts = 0
  /\ frames = [b \in Browsers |-> <<>>] /\ link = [b \in Browsers |-> FALSE]
  /\ own = [b \in Browsers |-> 0] /\ chat = [b \in Browsers |-> <<>>] /\ warned = {}
  /\ posted = {} /\ inbox = {}
  /\ sent = 0 /\ acts = 0
Next ==
  \/ \E o \in Outgoing : SendToEmulator(o)
  \/ ClearUi \/ Restart \/ Notice
  \/ \E b \in Browsers :
       \/ Connection(b) \/ Receive(b)
       \/ \E noticed \in BOOLEAN : Break(b, noticed)
       \/ \E r \in Replies : HandleReply(b, r)
  \/ \E p \in posted : Deliver(p)
  \/ \E e \in Envelopes : EnvelopeArrives(e)
Spec == Init /\ [][Next]_vars

-----------------------------------------------------------------------------
(* A browser that has taken up the bridge's session shows nothing of an    *)
(* earlier one: what was on the way, kept or replayed at the reset is gone *)
(* (bridge/index.js:104-112).                                              *)
ClearedIsGone ==
  \A b \in Browsers : \A i \in DOMAIN chat[b] : own[b] = session => chat[b][i].session = session

(* Whatever the bridge replays after broken connections, a browser shows a *)
(* message once (Index.tsx:87).                                            *)
ShownOnce ==
  \A b \in Browsers : \A i, j \in DOMAIN chat[b] : chat[b][i].id = chat[b][j].id => i = j

(* No text, button title or caption of a client reaches the case as a note *)
(* of the bot's own (webhook-router.ts:26-30).                             *)
MarkersAreTheBots == \A m \in inbox : "marker" \notin {m.text, m.title, m.caption}
=============================================================================
