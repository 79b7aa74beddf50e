----------------------------- MODULE MCCertCheck -----------------------------
(* Archives with up to two keys and certificates, and a file of each kind.  *)
EXTENDS CertCheck

Container == {"sequence", "version3", "pkcs7"}
Key(n) == [name |-> n, rsa |-> n # "ec", strong |-> n # "weak"]
KeySeqs == {<<>>, <<Key("k1")>>, <<Key("ec")>>, <<Key("weak")>>, <<Key("k1"), Key("k2")>>, <<Key("ec"), Key("k1")>>}
Certs == [key : {"k1", "k2"}, leaf : {TRUE}, window : {"now", "past", "future"},
          ids : {{}, {"client"}, {"other"}, {"client", "other"}}]
Ca == [key |-> "ca", leaf |-> FALSE, window |-> "now", ids |-> {}]
Mine == [key |-> "k1", leaf |-> TRUE, window |-> "now", ids |-> {"client"}]
Weak == [Mine EXCEPT !.key = "weak"]
CertSeqs == {<<>>, <<Ca>>, <<Weak>>} \cup {<<c>> : c \in Certs} \cup {<<c, Ca>> : c \in Certs}
              \cup {<<c, Mine>> : c \in Certs} \cup {<<Ca, Mine>>}
Archive(size, form, keys, certs) ==
  [traits |-> Container, size |-> size, form |-> form, keys |-> keys, certs |-> certs]
Archives ==
  {Archive("fits", "sealed", k, c) : k \in KeySeqs, c \in CertSeqs}
    \cup {Archive(s, f, <<Key("k1")>>, <<Mine>>) : s \in {"empty", "fits", "large"}, f \in {"broken", "open", "sealed"}}
Sealed == Archive("fits", "sealed", <<Key("k1")>>, <<Mine>>)
OtherFiles ==
  {[Sealed EXCEPT !.traits = t] :
     t \in {{"pdfMark"} \cup s : s \in SUBSET Signals}
           \cup {{"pdfMark", "short"}, {"pdfMark", "guide"}, {"pdfMark", "unreadable"}, {"pdfMark"} \cup Container,
                 {"imageMark"}, {"ole"}, {"zip"}, {"zip", "office"}, {"html"}, {"sequence"}, {}, {"noMedia"},
                 {"notDownloaded"}, Container \cup {"noVault"}}}
Given == {<<>>, <<"right">>, <<"wrong">>, <<"wrong", "right">>}
U(via, f, p, e) == [via |-> via, file |-> f, passwords |-> p, expected |-> e]
AnyUpload ==
  {U("whatsapp", f, <<"wrong", "right">>, "client") : f \in Archives}
    \cup {U("whatsapp", Sealed, p, e) : p \in Given, e \in {"client", "invalid"}}
    \cup {U("whatsapp", f, <<"right">>, "client") : f \in OtherFiles}
    \cup {U("office", f, <<"right">>, "client") : f \in {g \in Archives : Len(g.certs) = 1 /\ g.certs[1].window = "now"}}
    \cup {U("office", Sealed, <<"wrong">>, e) : e \in {"client", "invalid"}}
=============================================================================
