------------------------------ MODULE MCEmulator ------------------------------
(* Messages of each form, a reply of each kind, and envelopes with one good *)
(* message and one that may be anything.                                    *)
EXTENDS Emulator

Out(type, subtype, to) == [type |-> type, subtype |-> subtype, to |-> to]
Messages ==
  {Out("text", "", "demo"), Out("interactive", "button", "demo"), Out("text", "", "training"),
   Out("template", "", "demo"), Out("", "typing", "demo")}
Reply(type, text, button) == [type |-> type, text |-> text, button |-> button, under |-> 0]
AnyReply ==
  {Reply("text", "marker", Nothing), Reply("button_reply", "marker", "HUMAN_HELP"),
   Reply("list_reply", "plain", "unlisted"), Reply("location", "plain", Nothing), Reply("image", "plain", Nothing)}
Raw(type, text, button, media, caption) ==
  [type |-> type, text |-> text, button |-> button, title |-> text, media |-> media, caption |-> caption,
   context |-> 0]
Raws ==
  {Raw("text", t, Nothing, Nothing, Nothing) : t \in {"plain", "marker", "empty", "long"}}
    \cup {Raw(k, "marker", b, Nothing, Nothing) : k \in {"interactive", "button"}, b \in {"HUMAN_HELP", "unlisted"}}
    \cup {Raw(k, "plain", Nothing, m, c) :
            k \in {"image", "document", "audio", "sticker"}, m \in {"full", "noId"}, c \in {Nothing, "blank", "marker"}}
Good == Raw("text", "plain", Nothing, Nothing, Nothing)
FromMeta(signed, account, field, m, statuses) ==
  [signed |-> signed, account |-> account, field |-> field, messages |-> <<Good, m>>, statuses |-> statuses]
AnyEnvelope ==
  {FromMeta(TRUE, "ours", "messages", m, s) : m \in Raws, s \in {<<>>, <<"known">>}}
    \cup {FromMeta(s, a, f, Good, <<x>>) :
            s \in BOOLEAN, a \in {"ours", "other"}, f \in {"messages", "account_update"}, x \in {"known", "unknown"}}
=============================================================================
