------------------------------- MODULE MCInbox -------------------------------
EXTENDS Inbox, TLC
AllPairs == {<<a, b>> : a \in Kinds, b \in Kinds}
Longer == {<<"TEXT", "TEXT", "TEXT">>, <<"TEXT", "TAP", "TEXT">>, <<"TEXT", "STOP", "TEXT">>,
  <<"CERT_FILE", "PASSWORD", "TEXT">>, <<"PASSWORD", "CERT_FILE", "CERT_FILE">>}
All == AllPairs \cup Longer
=============================================================================
