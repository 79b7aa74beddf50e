----------------------------- MODULE ChannelProofs -----------------------------
(* What arrives over channels that lose and repeat, and what may be         *)
(* concluded from what is read elsewhere.  The bot commits each message of  *)
(* the gateway's stream once, however it is cut and restarted; the          *)
(* demonstration in the browser shows each message once, in its own         *)
(* session, and no text of a client passes for one of the bot's marks.  The *)
(* record of the firm is written once, read whole and announced only with   *)
(* its document, for every size of the pages and whatever the staff do, is  *)
(* lost or arrives late.  The examples of the agent are ranked with the     *)
(* vectors of their own package, however its files are rebuilt meanwhile.   *)
(* Of the model's answer nothing but the whole is handed on, wherever the   *)
(* stream that brings it is cut.                                            *)
EXTENDS GatewayStream, SequenceTheorems, WellFoundedInduction, TLAPS

(* Beside the stream: the bridge of the demonstration, where emitted numbers *)
(* the messages and arrived are those the bot has read; the record; the     *)
(* index of the examples; and the question to the model.                    *)
CONSTANTS Browsers, Outgoing, Replies, Envelopes, RecentLimit, ReplayLimit, PendingLimit, MaxActs,
          MaxEnvelopes, Page, MaxStaff, MaxCalls, Package, MaxBuilds, MaxStarts, MaxLoads,
          Answers, MaxChunk
VARIABLES session, recent, pending, counted, ghosts, frames, link, own, chat, warned, posted, arrived,
          emitted, acts,
          rows, ids, late, right, call, scan, churn, proof, doubt, asked, blind, slipped, staff, calls,
          meta, vectors, build, mine, load, index, old, last, builds, starts, loads,
          streaming, moment, tries, meant, spoilt, send, rest, text, broken, result
Emu == INSTANCE Emulator WITH sent <- emitted, inbox <- arrived
Rec == INSTANCE KmaleonRecord
Ind == INSTANCE RagIndex
Mod == INSTANCE ModelClient WITH phase <- moment
ModData == INSTANCE MCModelClient WITH phase <- moment

(* ------------------------------- sequences ------------------------------ *)
Entries == [id : Nat, cursor : Nat, from : Nat]

LEMMA Tailed ==
  ASSUME NEW S, NEW q \in Seq(S), q # <<>>
  PROVE  /\ Tail(q) \in Seq(S) /\ Len(Tail(q)) = Len(q) - 1
         /\ 1 \in DOMAIN q /\ Head(q) = q[1]
         /\ \A m \in DOMAIN Tail(q) : m + 1 \in DOMAIN q /\ Tail(q)[m] = q[m + 1]
         /\ \A m \in DOMAIN q : m # 1 => m - 1 \in DOMAIN Tail(q) /\ Tail(q)[m - 1] = q[m]
<1>1. Len(q) \in Nat \ {0} /\ DOMAIN q = 1..Len(q)
  BY EmptySeq, LenProperties
<1>2. Tail(q) \in Seq(S) /\ Len(Tail(q)) = Len(q) - 1
  BY HeadTailProperties
<1>3. \A m \in 1..Len(Tail(q)) : Tail(q)[m] = q[m + 1]
  BY HeadTailProperties
<1>4. DOMAIN Tail(q) = 1..Len(Tail(q))
  BY <1>2, LenProperties
<1> QED BY <1>1, <1>2, <1>3, <1>4

LEMMA Appended ==
  ASSUME NEW S, NEW q \in Seq(S), NEW e \in S
  PROVE  /\ Append(q, e) \in Seq(S) /\ Len(Append(q, e)) = Len(q) + 1
         /\ Len(q) \in Nat /\ DOMAIN q = 1..Len(q) /\ DOMAIN Append(q, e) = 1..Len(q) + 1
         /\ \A m \in 1..Len(q) : Append(q, e)[m] = q[m]
         /\ Append(q, e)[Len(q) + 1] = e
  BY AppendProperties, LenProperties

LEMMA Longer ==
  ASSUME NEW S, NEW q \in Seq(S), NEW e \in S
  PROVE  Append(q, e) # q
<1>1. Len(Append(q, e)) = Len(q) + 1 /\ Len(q) \in Nat
  BY Appended
<1>2. Len(Append(q, e)) # Len(q)
  BY <1>1
<1> QED BY <1>2

(* ------------------------------- the shapes ----------------------------- *)
(* What a step may do to the chain and to what has come and landed. *)
ChainGoes ==
  \/ chain' = chain \/ chain' = <<>>
  \/ chain # <<>> /\ chain' = Tail(chain)
  \/ \E e \in Entries : chain' = Append(chain, e)
SentGoes == sent' = sent \/ \E k \in Kinds : sent' = Append(sent, k)
InboxGoes == inbox' = inbox \/ \E id \in Nat : inbox' = Append(inbox, id)

LEMMA ShapeFacts ==
  ASSUME Shapes
  PROVE  /\ sent \in Seq(Kinds) /\ chain \in Seq(Entries) /\ inbox \in Seq(Nat)
         /\ base \in Nat /\ restarts \in Nat /\ seen \in Nat /\ cursor \in Nat /\ saved \in Nat
         /\ socket.n \in Nat /\ socket.at \in Nat /\ socket.alive \in BOOLEAN
         /\ socket = [n |-> socket.n, at |-> socket.at, alive |-> socket.alive]
         /\ Len(sent) \in Nat /\ Len(chain) \in Nat /\ Len(inbox) \in Nat
         /\ DOMAIN sent = 1..Len(sent) /\ DOMAIN chain = 1..Len(chain) /\ DOMAIN inbox = 1..Len(inbox)
<1>1. sent \in Seq(Kinds) /\ chain \in Seq(Entries) /\ inbox \in Seq(Nat)
  BY DEF Shapes, Entries
<1>2. Len(sent) \in Nat /\ Len(chain) \in Nat /\ Len(inbox) \in Nat
  BY <1>1
<1>3. DOMAIN sent = 1..Len(sent) /\ DOMAIN chain = 1..Len(chain) /\ DOMAIN inbox = 1..Len(inbox)
  BY <1>1
<1>4. base \in Nat /\ restarts \in Nat /\ seen \in Nat /\ cursor \in Nat /\ saved \in Nat
  BY DEF Shapes
<1>5. socket \in [n : Nat, at : Nat, alive : BOOLEAN]
  BY DEF Shapes
<1> QED BY <1>1, <1>2, <1>3, <1>4, <1>5

LEMMA CurIsEntry ==
  ASSUME Shapes, chain # <<>>
  PROVE  Cur \in Entries
<1>1. chain \in Seq(Entries)
  BY DEF Shapes, Entries
<1>2. Head(chain) \in Entries
  BY <1>1, HeadTailProperties
<1> QED BY <1>2 DEF Cur

LEMMA Goes ==
  ASSUME Shapes, [Next]_vars
  PROVE  ChainGoes /\ SentGoes /\ InboxGoes
<1>1. CASE Receives
  BY <1>1 DEF Receives, intake, ChainGoes, SentGoes, InboxGoes
<1>2. CASE Restarts \/ Drops \/ Connecting
  BY <1>2 DEF Restarts, Drops, Connecting, Health, Load, Apply, Reset, Closes, gateway, intake,
     ChainGoes, SentGoes, InboxGoes
<1>3. CASE Carries
  <2> DEFINE e == [id |-> base + socket.at + 1, cursor |-> socket.at + 1, from |-> socket.n]
  <2>0. base \in Nat /\ socket.at \in Nat /\ socket.n \in Nat
    BY DEF Shapes
  <2>1. e \in Entries
    BY <2>0 DEF Entries
  <2> QED BY <1>3, <2>1 DEF Carries, gateway, ChainGoes, SentGoes, InboxGoes
<1>4. CASE Delivering
  <2>1. chain # <<>>
    BY <1>4 DEF Delivering, PassOver, Handle, Commits, SaveCursor, Shapes
  <2>2. Cur.id \in Nat
    BY <2>1, CurIsEntry DEF Entries
  <2> QED BY <1>4, <2>1, <2>2 DEF Delivering, PassOver, Handle, Commits, SaveCursor, gateway, connect,
             ChainGoes, SentGoes, InboxGoes
<1>5. CASE Fails
  BY <1>5 DEF Shapes, Fails, gateway, ChainGoes, SentGoes, InboxGoes
<1>6. CASE Crashes
  BY <1>6 DEF Crashes, gateway, ChainGoes, SentGoes, InboxGoes
<1>7. CASE UNCHANGED vars
  BY <1>7 DEF vars, ChainGoes, SentGoes, InboxGoes
<1> QED
  BY <1>1, <1>2, <1>3, <1>4, <1>5, <1>6, <1>7 DEF Next

LEMMA SequencesShaped ==
  ASSUME Shapes, ChainGoes, SentGoes, InboxGoes
  PROVE  sent' \in Seq(Kinds) /\ chain' \in Seq(Entries) /\ inbox' \in Seq(Nat)
<1>0. sent \in Seq(Kinds) /\ chain \in Seq(Entries) /\ inbox \in Seq(Nat)
  BY ShapeFacts
<1>1. chain' \in Seq(Entries)
  <2>1. ASSUME NEW e \in Entries, chain' = Append(chain, e) PROVE chain' \in Seq(Entries)
    BY <1>0, <2>1, Appended
  <2>2. CASE chain # <<>> /\ chain' = Tail(chain)
    BY <1>0, <2>2, Tailed
  <2>3. CASE chain' = <<>>
    BY <2>3
  <2> QED BY <1>0, <2>1, <2>2, <2>3 DEF ChainGoes
<1>2. sent' \in Seq(Kinds)
  <2>1. ASSUME NEW k \in Kinds, sent' = Append(sent, k) PROVE sent' \in Seq(Kinds)
    BY <1>0, <2>1, Appended
  <2> QED BY <1>0, <2>1 DEF SentGoes
<1>3. inbox' \in Seq(Nat)
  <2>1. ASSUME NEW e \in Nat, inbox' = Append(inbox, e) PROVE inbox' \in Seq(Nat)
    BY <1>0, <2>1, Appended
  <2> QED BY <1>0, <2>1 DEF InboxGoes
<1> QED BY <1>1, <1>2, <1>3

LEMMA SocketShaped ==
  ASSUME Shapes, [Next]_vars
  PROVE  socket' \in [n : Nat, at : Nat, alive : BOOLEAN]
<1> DEFINE Socks == [n : Nat, at : Nat, alive : BOOLEAN]
<1>1. socket \in Socks /\ socket.n + 1 \in Nat /\ socket.at + 1 \in Nat /\ seen \in Nat /\ cursor \in Nat
  BY ShapeFacts
<1>2. /\ [socket EXCEPT !.at = socket.at + 1] \in Socks
      /\ [socket EXCEPT !.alive = FALSE] \in Socks
  BY <1>1
<1>3. Opened(seen) \in Socks /\ Opened(cursor) \in Socks
  BY <1>1 DEF Opened
<1> HIDE DEF Socks
<1>4. socket' \in Socks
  BY <1>1, <1>2, <1>3 DEF Next, Receives, Restarts, Carries, Drops, Connecting, Health, Load, Apply, Reset,
     Closes, Delivering, PassOver, Handle, Commits, SaveCursor, Fails, Crashes, connect, vars
<1> QED BY <1>4 DEF Socks

LEMMA Shaped ==
  ASSUME Shapes, [Next]_vars
  PROVE  Shapes'
<1> DEFINE Marks == {"down", "load", "apply", "reset", "up"}
           Good(ba, re, se, cu, sa, stg, stp, ch) ==
             /\ ba \in Nat /\ re \in Nat /\ se \in Nat /\ cu \in Nat /\ sa \in Nat
             /\ stg \in Marks /\ stp \in {"idle", "handle", "save"}
             /\ stp # "idle" => ch # <<>>
<1>1. sent' \in Seq(Kinds) /\ chain' \in Seq(Entries) /\ inbox' \in Seq(Nat)
  BY Goes, SequencesShaped
<1>2. Cur.cursor \in Nat \/ chain = <<>>
  BY CurIsEntry DEF Entries
<1>3. Good(base, restarts, seen, cursor, saved, stage, step, chain) /\ Len(sent) \in Nat
  BY ShapeFacts DEF Shapes
<1>4. Good(base', restarts', seen', cursor', saved', stage', step', chain')
  <2>1. CASE Receives
    BY <1>3, <2>1 DEF Receives, connect, intake
  <2>2. CASE Restarts
    <3>1. restarts + 1 \in Nat
      BY <1>3
    <3> QED BY <1>3, <2>2, <3>1 DEF Restarts, intake
  <2>3. CASE Carries
    <3> DEFINE e == [id |-> base + socket.at + 1, cursor |-> socket.at + 1, from |-> socket.n]
    <3>1. e \in Entries
      BY ShapeFacts DEF Entries
    <3>2. Len(chain') = Len(chain) + 1 /\ Len(chain) \in Nat
      BY <2>3, <3>1, Appended, ShapeFacts DEF Carries
    <3>3. chain' # <<>>
      BY <3>2
    <3> QED BY <1>3, <2>3, <3>3 DEF Carries, gateway
  <2>4. CASE Drops
    BY <1>3, <2>4 DEF Drops, gateway, intake
  <2>5. CASE Connecting
    BY <1>3, <2>5 DEF Connecting, Health, Load, Apply, Reset, Closes, Opened, gateway, intake
  <2>6. CASE Delivering
    BY <1>2, <1>3, <2>6 DEF Delivering, PassOver, Handle, Commits, SaveCursor, gateway, connect
  <2>7. CASE Fails
    BY <1>3, <2>7 DEF Fails, gateway
  <2>8. CASE Crashes
    BY <1>3, <2>8 DEF Crashes, gateway
  <2>9. CASE UNCHANGED vars
    BY <1>3, <2>9 DEF vars
  <2> QED BY <2>1, <2>2, <2>3, <2>4, <2>5, <2>6, <2>7, <2>8, <2>9 DEF Next
<1> QED BY <1>1, <1>4, SocketShaped DEF Shapes, Entries

(* What landed stays landed; a message keeps its kind.                      *)
LEMMA SentStays ==
  ASSUME Shapes, SentGoes, NEW id \in DOMAIN sent
  PROVE  id \in DOMAIN sent' /\ sent'[id] = sent[id]
<1>1. ASSUME NEW k \in Kinds, sent' = Append(sent, k) PROVE id \in DOMAIN sent' /\ sent'[id] = sent[id]
  BY <1>1, Appended, ShapeFacts
<1> QED BY <1>1 DEF SentGoes

LEMMA LandedStays ==
  ASSUME Shapes, SentGoes, InboxGoes, NEW id, Landed(id)
  PROVE  Landed(id)'
<1>1. id \in DOMAIN sent' /\ sent'[id] = sent[id]
  BY SentStays DEF Landed
<1>2. Range(inbox) \subseteq Range(inbox')
  <2>1. CASE inbox' = inbox
    BY <2>1
  <2>2. ASSUME NEW e \in Nat, inbox' = Append(inbox, e), NEW x \in Range(inbox) PROVE x \in Range(inbox')
    <3>1. PICK n \in DOMAIN inbox : x = inbox[n]
      BY DEF Range
    <3>2. n \in DOMAIN inbox' /\ inbox'[n] = x
      BY <2>2, <3>1, Appended, ShapeFacts
    <3> QED BY <3>2 DEF Range
  <2> QED BY <2>1, <2>2 DEF InboxGoes
<1> QED BY <1>1, <1>2 DEF Landed

LEMMA UpToStays ==
  ASSUME Shapes, SentGoes, InboxGoes, NEW n, LandedUpTo(n)
  PROVE  \A id \in 1..n : Landed(id)'
  BY LandedStays DEF LandedUpTo

(* --------------------- the chain and what is in order ------------------- *)
LEMMA ChainHead ==
  ASSUME Shapes, chain # <<>>
  PROVE  1 \in DOMAIN chain /\ Cur = chain[1] /\ Cur \in Entries
  BY ShapeFacts, Tailed, CurIsEntry DEF Cur

LEMMA HandledIsNext ==
  ASSUME Shapes, NoGap, HeadIsTaken, step # "idle"
  PROVE  LandedUpTo(Cur.id - 1)
<1>1. chain # <<>> /\ 1 \in DOMAIN chain /\ Cur = chain[1]
  BY ChainHead DEF Shapes
<1>2. ASSUME NEW id \in 1..Cur.id - 1 PROVE Landed(id)
  <2>1. Landed(id) \/ Queued(chain, id, chain[1].from, 1)
    BY <1>1, <1>2 DEF NoGap, HeadIsTaken
  <2>2. ~Queued(chain, id, chain[1].from, 1)
    BY ShapeFacts DEF Queued
  <2> QED BY <2>1, <2>2
<1> QED BY <1>2 DEF LandedUpTo

(* The socket stays, or dies. *)
SocketStays == socket' = socket \/ socket' = [socket EXCEPT !.alive = FALSE]

LEMMA GapStays ==
  ASSUME Shapes, SentGoes, InboxGoes, NoGap, SocketStays, chain' = chain, abandoned' = abandoned
  PROVE  NoGap'
<1>1. \A id : Landed(id) => Landed(id)'
  BY LandedStays
<1>3. socket'.alive => socket' = socket
  BY ShapeFacts DEF SocketStays
<1> QED BY <1>1, <1>3 DEF NoGap

LEMMA GapTail ==
  ASSUME Shapes, SentGoes, InboxGoes, NoGap, SocketStays, chain # <<>>, chain' = Tail(chain),
         abandoned \subseteq abandoned',
         NEW head, head = Cur.id, Cur.from \in abandoned' \/ Landed(head)'
  PROVE  NoGap'
<1>1. \A id : Landed(id) => Landed(id)'
  BY LandedStays
<1>2. /\ Cur = chain[1] /\ Len(chain) \in Nat /\ Len(chain') = Len(chain) - 1
      /\ DOMAIN chain = 1..Len(chain)
      /\ \A m \in DOMAIN chain' : m + 1 \in DOMAIN chain /\ chain'[m] = chain[m + 1]
      /\ \A m \in DOMAIN chain : m # 1 => m - 1 \in DOMAIN chain' /\ chain'[m - 1] = chain[m]
  BY Tailed, ChainHead, ShapeFacts
<1>3. ASSUME NEW id, NEW from, from \notin abandoned', NEW m \in Nat, Queued(chain, id, from, m + 1)
      PROVE  Landed(id)' \/ Queued(chain', id, from, m)
  <2>1. PICK n \in DOMAIN chain : n < m + 1 /\ chain[n].id = id /\ chain[n].from = from
    BY <1>3 DEF Queued
  <2>2. CASE n = 1
    BY <1>2, <1>3, <2>1, <2>2
  <2>3. CASE n # 1
    <3>1. n - 1 \in DOMAIN chain' /\ n - 1 < m /\ chain'[n - 1] = chain[n]
      BY <1>2, <2>1, <2>3
    <3> QED BY <2>1, <3>1 DEF Queued
  <2> QED BY <2>2, <2>3
<1>4. ASSUME NEW m \in DOMAIN chain', chain'[m].from \notin abandoned', NEW id \in 1..chain'[m].id - 1
      PROVE  Landed(id)' \/ Queued(chain', id, chain'[m].from, m)
  <2>1. m + 1 \in DOMAIN chain /\ chain'[m] = chain[m + 1] /\ m \in Nat
    BY <1>2, <1>4, SequencesShaped DEF ChainGoes
  <2>2. Landed(id) \/ Queued(chain, id, chain[m + 1].from, m + 1)
    BY <1>4, <2>1 DEF NoGap
  <2> QED BY <1>1, <1>3, <1>4, <2>1, <2>2
<1>5. ASSUME socket'.alive, socket'.n \notin abandoned', NEW id \in 1..socket'.at
      PROVE  Landed(id)' \/ Queued(chain', id, socket'.n, Len(chain') + 1)
  <2>1. socket' = socket
    BY <1>5, ShapeFacts DEF SocketStays
  <2>2. Landed(id) \/ Queued(chain, id, socket.n, Len(chain) + 1)
    BY <1>5, <2>1 DEF NoGap
  <2>3. Len(chain') + 1 = Len(chain) /\ Len(chain') + 1 \in Nat
    BY <1>2, SequencesShaped DEF ChainGoes
  <2> QED BY <1>1, <1>2, <1>3, <1>5, <2>1, <2>2
<1> QED BY <1>4, <1>5 DEF NoGap

(* -------------------------- one step, by conjunct ----------------------- *)
LEMMA NumbersStep ==
  ASSUME Shapes, Unbroken, [Next]_vars, restarts = 0, restarts' = 0
  PROVE  /\ base' = 0 /\ socket'.at <= Len(sent')
         /\ \A m \in DOMAIN chain' : chain'[m].id \in DOMAIN sent' /\ chain'[m].cursor = chain'[m].id
<1>0. SentGoes /\ ChainGoes /\ Len(sent') >= Len(sent) /\ Len(sent) \in Nat
  <2>1. \A k \in Kinds : Len(Append(sent, k)) = Len(sent) + 1 /\ Len(sent) \in Nat
    BY Appended, ShapeFacts
  <2> QED BY <2>1, Goes, ShapeFacts DEF SentGoes
<1>1. ~Restarts
  BY DEF Restarts
<1>2. \A m \in DOMAIN chain : chain[m].id \in DOMAIN sent' /\ chain[m].cursor = chain[m].id
  BY <1>0, SentStays DEF Unbroken
<1>3. CASE Carries
  <2> DEFINE e == [id |-> base + socket.at + 1, cursor |-> socket.at + 1, from |-> socket.n]
  <2>1. base = 0 /\ socket.at + 1 \in 1..Len(sent) /\ e.id = socket.at + 1 /\ e.cursor = socket.at + 1
    BY <1>3, ShapeFacts DEF Carries, Kept, Unbroken
  <2>2. e \in Entries
    BY <2>1, ShapeFacts DEF Entries
  <2>3. chain' = Append(chain, e) /\ sent' = sent /\ base' = base /\ socket'.at = socket.at + 1
    BY <1>3, ShapeFacts DEF Carries, gateway
  <2>4. \A m \in DOMAIN chain' : (m \in DOMAIN chain /\ chain'[m] = chain[m]) \/ chain'[m] = e
    <3>1. chain \in Seq(Entries)
      BY ShapeFacts
    <3> QED BY <2>2, <2>3, <3>1, Appended
  <2>5. e.id \in DOMAIN sent' /\ e.cursor = e.id /\ base' = 0 /\ socket'.at <= Len(sent')
    BY <2>1, <2>3, ShapeFacts
  <2> HIDE DEF e
  <2>6. \A m \in DOMAIN chain' : chain'[m].id \in DOMAIN sent' /\ chain'[m].cursor = chain'[m].id
    BY <1>2, <2>3, <2>4, <2>5, Zenon
  <2> QED BY <2>5, <2>6
<1>4. CASE ~Carries
  <2>1. base' = base
    BY <1>1, <1>4 DEF Next, Receives, Drops, Connecting, Health, Load, Apply, Reset, Closes, Delivering,
      PassOver, Handle, Commits, SaveCursor, Fails, Crashes, gateway, vars
  <2>2. ASSUME ~Connecting PROVE socket'.at <= Len(sent')
    <3>1. SocketStays
      BY <1>1, <1>4, <2>2 DEF Next, Receives, Drops, Delivering, PassOver, Handle, Commits, SaveCursor,
        Fails, Crashes, connect, vars, SocketStays
    <3>2. socket'.at = socket.at
      BY <3>1, ShapeFacts DEF SocketStays
    <3> QED BY <1>0, <3>2, ShapeFacts, SequencesShaped, Goes DEF Unbroken
  <2>3. ASSUME Connecting PROVE socket'.at <= Len(sent')
    <3>1. ASSUME NEW n \in Nat, LandedUpTo(n) PROVE n <= Len(sent)
      <4>1. n = 0 \/ (n \in 1..n /\ n \in DOMAIN sent)
        BY <3>1 DEF LandedUpTo, Landed
      <4> QED BY <4>1, ShapeFacts
    <3>2. /\ cursor <= Len(sent)
          /\ stage = "apply" => seen <= Len(sent)
      BY <3>1, ShapeFacts DEF Unbroken
    <3>0. /\ Opened(seen).at = seen /\ Opened(cursor).at = cursor
          /\ [socket EXCEPT !.alive = FALSE].at = socket.at
      BY ShapeFacts DEF Opened
    <3>3. socket'.at = socket.at \/ socket'.at = cursor \/ (stage = "apply" /\ socket'.at = seen)
      BY <2>3, <3>0 DEF Connecting, Health, Load, Apply, Reset, Closes
    <3>4. socket'.at <= Len(sent) /\ socket'.at \in Nat
      BY <3>2, <3>3, ShapeFacts DEF Unbroken
    <3>5. Len(sent') \in Nat
      BY SequencesShaped, Goes, LenProperties
    <3> QED BY <1>0, <3>4, <3>5
  <2>4. chain' = chain \/ chain' = <<>> \/ (chain # <<>> /\ chain' = Tail(chain))
    BY <1>4 DEF Next, Receives, Restarts, Drops, Connecting, Health, Load, Apply, Reset, Closes,
      Delivering, PassOver, Handle, Commits, SaveCursor, Fails, Crashes, gateway, vars, intake, Shapes
  <2>5. \A m \in DOMAIN chain' : \E n \in DOMAIN chain : chain'[m] = chain[n]
    <3>1. CASE chain' = <<>>
      BY <3>1
    <3>2. CASE chain # <<>> /\ chain' = Tail(chain)
      BY <3>2, Tailed, ShapeFacts
    <3> QED BY <2>4, <3>1, <3>2
  <2>6. socket'.at <= Len(sent')
    BY <2>2, <2>3
  <2> QED BY <1>2, <2>1, <2>5, <2>6 DEF Unbroken
<1> QED BY <1>3, <1>4

(* A delivery that is committed has everything before it committed.         *)
LEMMA CommitLands ==
  ASSUME Shapes, Unbroken, restarts = 0, Commits, NEW head, head = Cur.id
  PROVE  /\ head \in Nat /\ cursor' = head
         /\ \A id \in 1..head : Landed(id)'
         /\ InboxHasNoGap' /\ InOrder'
<1>1. /\ chain # <<>> /\ 1 \in DOMAIN chain /\ Cur = chain[1] /\ head \in DOMAIN sent /\ Cur.cursor = head
      /\ sent[head] \in Kinds /\ sent[head] # "LOST" /\ sent' = sent /\ head \in Nat /\ step # "idle"
  BY ChainHead, ShapeFacts, ElementOfSeq DEF Commits, Shapes, Unbroken, HeadIsTaken, gateway, Entries
<1>2. SentGoes /\ InboxGoes
  BY <1>1 DEF SentGoes, InboxGoes, Commits
<1>3. \A id \in 1..head - 1 : Landed(id)
  BY <1>1, HandledIsNext DEF LandedUpTo, Unbroken
<1>4. inbox \in Seq(Nat) /\ Len(inbox) \in Nat /\ DOMAIN inbox = 1..Len(inbox)
  BY ShapeFacts
<1>5. CASE inbox' = inbox
  <2>1. sent[head] = "GOOD" => head \in Range(inbox)
    <3>0. head \in Nat /\ inbox \in Seq(Nat)
      BY <1>1, <1>4
    <3>1. Append(inbox, head) # inbox
      BY <3>0, Longer
    <3>2. head = Cur.id
      OBVIOUS
    <3> QED BY <1>1, <1>5, <3>1, <3>2 DEF Commits
  <2>2. Landed(head)'
    BY <1>1, <1>5, <2>1 DEF Landed
  <2>3. \A id \in 1..head : Landed(id)'
    BY <1>1, <1>2, <1>3, <2>2, LandedStays
  <2>4. InboxHasNoGap' /\ InOrder'
    BY <1>1, <1>5 DEF Commits, gateway, Unbroken, InboxHasNoGap, InOrder, Landed
  <2> QED BY <1>1, <2>3, <2>4 DEF Commits
<1>6. CASE inbox' # inbox
  <2>1. sent[head] = "GOOD" /\ head \notin Range(inbox) /\ inbox' = Append(inbox, head)
    BY <1>1, <1>6 DEF Commits, Kinds
  <2>2. /\ DOMAIN inbox' = 1..Len(inbox) + 1 /\ inbox'[Len(inbox) + 1] = head
        /\ \A n \in DOMAIN inbox : inbox'[n] = inbox[n]
    BY <1>1, <1>4, <2>1, Appended
  <2>3. head \in Range(inbox')
    BY <1>4, <2>2 DEF Range
  <2>4. Landed(head)'
    BY <1>1, <2>3 DEF Landed
  <2>5. \A id \in 1..head : Landed(id)'
    BY <1>1, <1>2, <1>3, <2>4, LandedStays
  <2>6. \A n \in DOMAIN inbox' : inbox'[n] \in DOMAIN sent' /\ sent'[inbox'[n]] = "GOOD"
    BY <1>1, <1>4, <2>1, <2>2 DEF Unbroken, InboxHasNoGap
  <2>7. ASSUME NEW n \in DOMAIN inbox', NEW id \in 1..inbox'[n] - 1 PROVE Landed(id)'
    <3>1. CASE n \in DOMAIN inbox
      BY <1>2, <2>2, <2>7, <3>1, LandedStays DEF Unbroken, InboxHasNoGap
    <3>2. CASE n = Len(inbox) + 1
      BY <1>1, <2>2, <2>5, <2>7, <3>2
    <3> QED BY <1>4, <2>2, <3>1, <3>2
  <2>8. ASSUME NEW m \in DOMAIN inbox PROVE inbox[m] < head
    <3>1. inbox[m] \in Nat /\ inbox[m] # head
      BY <1>4, <2>1, ElementOfSeq DEF Range
    <3>2. CASE head < inbox[m]
      <4>1. Landed(head)
        BY <1>1, <3>1, <3>2, <1>4, ShapeFacts DEF Unbroken, InboxHasNoGap
      <4> QED BY <2>1, <4>1 DEF Landed
    <3> QED BY <1>1, <3>1, <3>2
  <2>9. \A m, n \in DOMAIN inbox' : m < n => inbox'[m] < inbox'[n]
    <3>1. TAKE m \in DOMAIN inbox', n \in DOMAIN inbox'
    <3>2. CASE n \in DOMAIN inbox
      <4>1. m < n => m \in DOMAIN inbox
        BY <1>4, <2>2, <3>1, <3>2
      <4> QED BY <2>2, <3>1, <3>2, <4>1 DEF Unbroken, InOrder
    <3>3. CASE n = Len(inbox) + 1
      BY <1>4, <2>2, <2>8, <3>1, <3>3
    <3> QED BY <1>4, <2>2, <3>1, <3>2, <3>3
  <2> QED BY <1>1, <2>5, <2>6, <2>7, <2>9 DEF Commits, InboxHasNoGap, InOrder
<1> QED BY <1>5, <1>6

LEMMA CursorsStep ==
  ASSUME Shapes, Unbroken, [Next]_vars, restarts = 0, restarts' = 0
  PROVE  LandedUpTo(cursor)' /\ LandedUpTo(saved)' /\ (stage' = "apply" => LandedUpTo(seen)')
<1> DEFINE All(n) == \A id \in 1..n : Landed(id)'
<1>0. SentGoes /\ InboxGoes
  BY Goes
<1>1. All(0) /\ All(cursor) /\ All(saved) /\ (stage = "apply" => All(seen))
  BY <1>0, UpToStays DEF Unbroken
<1>2. step = "save" => All(Cur.cursor)
  <2>1. ASSUME step = "save" PROVE /\ chain # <<>> /\ Cur.id \in Nat /\ Cur.cursor = Cur.id
                                   /\ LandedUpTo(Cur.id - 1) /\ Landed(Cur.id)
    BY <2>1, ChainHead, HandledIsNext DEF Shapes, Unbroken, HeadIsTaken, Entries
  <2>2. step = "save" => LandedUpTo(Cur.id)
    BY <2>1 DEF LandedUpTo
  <2> QED BY <1>0, <2>1, <2>2, UpToStays
<1> HIDE DEF All
<1>3. All(cursor') /\ All(saved') /\ (stage' = "apply" => All(seen'))
  <2>1. CASE Commits
    <3>1. All(cursor')
      BY <2>1, CommitLands DEF All
    <3> QED BY <1>1, <2>1, <3>1 DEF Commits, connect
  <2>2. CASE SaveCursor
    BY <1>1, <1>2, <2>2 DEF SaveCursor, connect
  <2>3. CASE Connecting
    BY <1>1, <2>3 DEF Connecting, Health, Load, Apply, Reset, Closes, gateway, intake
  <2>4. CASE PassOver \/ Handle \/ Fails \/ Crashes
    BY <1>1, <2>4 DEF PassOver, Handle, Fails, Crashes, connect
  <2>5. CASE Receives \/ Restarts \/ Drops \/ Carries \/ UNCHANGED vars
    BY <1>1, <2>5 DEF Receives, Restarts, Drops, Carries, connect, intake, vars
  <2> QED BY <2>1, <2>2, <2>3, <2>4, <2>5 DEF Next, Delivering
<1> QED BY <1>3 DEF All, LandedUpTo

LEMMA GapOpened ==
  ASSUME Shapes, SentGoes, InboxGoes, NoGap, chain' = chain, abandoned' = abandoned,
         NEW since, LandedUpTo(since), socket' = Opened(since)
  PROVE  NoGap'
<1>1. \A id : Landed(id) => Landed(id)'
  BY LandedStays
<1>2. socket'.at = since
  BY DEF Opened
<1> QED BY <1>1, <1>2 DEF NoGap, LandedUpTo

LEMMA GapCarried ==
  ASSUME Shapes, Unbroken, Carries
  PROVE  NoGap'
<1> DEFINE e == [id |-> base + socket.at + 1, cursor |-> socket.at + 1, from |-> socket.n]
<1>1. /\ e \in Entries /\ e.id = socket.at + 1 /\ e.from = socket.n
      /\ chain' = Append(chain, e) /\ sent' = sent /\ inbox' = inbox /\ abandoned' = abandoned
      /\ socket'.at = socket.at + 1 /\ socket'.n = socket.n /\ socket.alive
  BY ShapeFacts DEF Carries, gateway, Unbroken, Entries
<1>2. /\ chain \in Seq(Entries) /\ Len(chain) \in Nat /\ DOMAIN chain = 1..Len(chain) /\ socket.at \in Nat
  BY ShapeFacts
<1>3. /\ Len(chain') = Len(chain) + 1 /\ DOMAIN chain' = 1..Len(chain) + 1
      /\ \A m \in DOMAIN chain : chain'[m] = chain[m]
      /\ chain'[Len(chain) + 1] = e
  BY <1>1, <1>2, Appended
<1>4. \A id : Landed(id)' <=> Landed(id)
  BY <1>1 DEF Landed
<1>5. ASSUME NEW id, NEW from, NEW m, Queued(chain, id, from, m) PROVE Queued(chain', id, from, m)
  BY <1>2, <1>3, <1>5 DEF Queued
<1>6. ASSUME socket.n \notin abandoned, NEW id \in 1..socket.at
      PROVE  Landed(id) \/ Queued(chain, id, socket.n, Len(chain) + 1)
  BY <1>1, <1>6 DEF NoGap, Unbroken
<1>7. ASSUME NEW m \in DOMAIN chain', chain'[m].from \notin abandoned', NEW id \in 1..chain'[m].id - 1
      PROVE  Landed(id)' \/ Queued(chain', id, chain'[m].from, m)
  <2>1. CASE m \in DOMAIN chain
    <3>1. Landed(id) \/ Queued(chain, id, chain[m].from, m)
      BY <1>1, <1>3, <1>7, <2>1 DEF NoGap, Unbroken
    <3> QED BY <1>3, <1>4, <1>5, <2>1, <3>1
  <2>2. CASE m = Len(chain) + 1
    <3>1. id \in 1..socket.at /\ socket.n \notin abandoned
      BY <1>1, <1>2, <1>3, <1>7, <2>2
    <3> QED BY <1>1, <1>3, <1>4, <1>5, <1>6, <2>2, <3>1
  <2> QED BY <1>2, <1>3, <2>1, <2>2
<1>8. ASSUME socket'.alive, socket'.n \notin abandoned', NEW id \in 1..socket'.at
      PROVE  Landed(id)' \/ Queued(chain', id, socket'.n, Len(chain') + 1)
  <2>1. CASE id = socket.at + 1
    BY <1>1, <1>2, <1>3, <2>1 DEF Queued
  <2>2. CASE id \in 1..socket.at
    <3>1. Landed(id) \/ Queued(chain, id, socket.n, Len(chain) + 1)
      BY <1>1, <1>6, <1>8, <2>2
    <3>2. \A n \in DOMAIN chain : n < Len(chain) + 2
      BY <1>2
    <3> QED BY <1>1, <1>2, <1>3, <1>4, <3>1, <3>2 DEF Queued
  <2> QED BY <1>1, <1>2, <1>8, <2>1, <2>2
<1> QED BY <1>7, <1>8 DEF NoGap

LEMMA GapStep ==
  ASSUME Shapes, Unbroken, [Next]_vars, restarts = 0, restarts' = 0
  PROVE  NoGap'
<1>0. SentGoes /\ InboxGoes /\ NoGap
  BY Goes DEF Unbroken
<1>1. CASE Carries
  BY <1>1, GapCarried
<1>2. CASE Receives \/ Restarts \/ Drops \/ Health \/ Load \/ Closes \/ Handle \/ Commits \/ UNCHANGED vars
  <2>1. SocketStays /\ chain' = chain /\ abandoned' = abandoned
    BY <1>2 DEF Receives, Restarts, Drops, Health, Load, Closes, Handle, Commits, vars, connect, intake,
      SocketStays
  <2> QED BY <1>0, <2>1, GapStays
<1>3. CASE Apply
  <2>1. chain' = chain /\ abandoned' = abandoned
    BY <1>3 DEF Apply
  <2>2. CASE Restarted
    BY <1>0, <1>3, <2>1, <2>2, GapStays DEF Apply, SocketStays
  <2>3. CASE ~Restarted
    BY <1>0, <1>3, <2>1, <2>3, GapOpened DEF Apply, Unbroken
  <2> QED BY <2>2, <2>3
<1>4. CASE Reset
  BY <1>0, <1>4, GapOpened DEF Reset, Unbroken
<1>5. CASE PassOver
  <2>1. PICK head : head = Cur.id
    OBVIOUS
  <2>2. Cur.from \in abandoned' \/ Landed(head)'
    <3>1. chain # <<>> /\ 1 \in DOMAIN chain /\ Cur = chain[1] /\ head \in DOMAIN sent
          /\ Cur.cursor = head /\ head \in Nat
      BY <1>5, <2>1, ChainHead DEF PassOver, Unbroken, Entries
    <3>2. CASE sent[head] = "LOST"
      BY <1>5, <3>1, <3>2 DEF PassOver, gateway, Landed
    <3>3. CASE head <= cursor
      <4>1. 1 <= head
        BY <3>1, ShapeFacts
      <4>2. Landed(head)
        BY <3>1, <3>3, <4>1, ShapeFacts DEF Unbroken, LandedUpTo
      <4> QED BY <1>0, <4>2, LandedStays
    <3> QED BY <1>5, <2>1, <3>1, <3>2, <3>3 DEF PassOver, Passed
  <2>3. SocketStays /\ abandoned' = abandoned /\ chain # <<>> /\ chain' = Tail(chain)
    BY <1>5 DEF PassOver, connect, SocketStays
  <2> QED BY <1>0, <2>1, <2>2, <2>3, GapTail
<1>6. CASE SaveCursor
  <2>1. PICK head : head = Cur.id
    OBVIOUS
  <2>2. Landed(head)'
    <3>1. Landed(head)
      BY <1>6, <2>1 DEF SaveCursor, Unbroken, HeadIsTaken
    <3> QED BY <1>0, <3>1, LandedStays
  <2>3. SocketStays /\ abandoned' = abandoned /\ chain # <<>> /\ chain' = Tail(chain)
    BY <1>6 DEF SaveCursor, connect, SocketStays, Shapes
  <2> QED BY <1>0, <2>1, <2>2, <2>3, GapTail
<1>7. CASE Fails
  <2>1. PICK head : head = Cur.id
    OBVIOUS
  <2>2. Cur.from \in abandoned' /\ abandoned \subseteq abandoned' /\ SocketStays /\ chain # <<>>
        /\ chain' = Tail(chain)
    BY <1>7 DEF Fails, Abandoned, SocketStays, Shapes
  <2> QED BY <1>0, <2>1, <2>2, GapTail
<1>8. CASE Crashes
  <2>1. DOMAIN chain' = {} /\ ~socket'.alive
    BY <1>8, ShapeFacts DEF Crashes
  <2> QED BY <2>1 DEF NoGap
<1> QED BY <1>1, <1>2, <1>3, <1>4, <1>5, <1>6, <1>7, <1>8 DEF Next, Connecting, Delivering

LEMMA HeadStep ==
  ASSUME Shapes, Unbroken, [Next]_vars, restarts = 0, restarts' = 0
  PROVE  HeadIsTaken'
<1>0. SentGoes /\ InboxGoes /\ Shapes'
  BY Goes, Shaped
<1>1. CASE step' = "idle"
  BY <1>1 DEF HeadIsTaken
<1>2. CASE step' # "idle"
  <2>1. chain # <<>> /\ abandoned' = abandoned /\ ~Crashes /\ ~Fails /\ ~SaveCursor /\ ~PassOver
    BY <1>2 DEF Next, Receives, Restarts, Carries, Drops, Connecting, Health, Load, Apply, Reset, Closes,
      Delivering, PassOver, Handle, Commits, SaveCursor, Fails, Crashes, connect, intake, vars, Shapes
  <2>2. 1 \in DOMAIN chain /\ Cur = chain[1] /\ Cur \in Entries /\ Cur.id \in DOMAIN sent
    BY <2>1, ChainHead DEF Unbroken
  <2>3. chain'[1] = chain[1] /\ Cur' = chain'[1]
    <3>1. CASE Carries
      <4>1. PICK e \in Entries : chain' = Append(chain, e)
        <5> DEFINE e == [id |-> base + socket.at + 1, cursor |-> socket.at + 1, from |-> socket.n]
        <5>1. e \in Entries
          BY ShapeFacts DEF Entries
        <5> QED BY <3>1, <5>1 DEF Carries
      <4> QED BY <2>2, <4>1, Appended, ShapeFacts DEF Cur
    <3>2. CASE ~Carries
      <4>1. chain' = chain
        BY <2>1, <3>2 DEF Next, Receives, Restarts, Drops, Connecting, Health, Load, Apply, Reset,
           Closes, Delivering, Handle, Commits, connect, intake, vars
      <4> QED BY <2>1, <2>2, <4>1 DEF Cur
    <3> QED BY <3>1, <3>2
  <2>4. PICK head : head = Cur.id
    OBVIOUS
  <2>5. Cur'.id = head /\ Cur'.from = Cur.from /\ sent'[head] = sent[head]
    BY <1>0, <2>2, <2>3, <2>4, SentStays
  <2>6. Cur.from \notin abandoned /\ sent[head] # "LOST"
    <3>1. CASE step # "idle"
      BY <2>4, <3>1 DEF Unbroken, HeadIsTaken
    <3>2. CASE step = "idle"
      <4>1. Handle
        BY <1>2, <2>1, <3>2 DEF Next, Receives, Restarts, Carries, Drops, Connecting, Health, Load,
          Apply, Reset, Closes, Delivering, Commits, connect, intake, vars
      <4> QED BY <2>4, <4>1 DEF Handle, Passed
    <3> QED BY <3>1, <3>2
  <2>7. step' = "save" => Landed(head)'
    <3>1. CASE Commits
      <4>1. head \in 1..head
        BY <2>2, <2>4, ShapeFacts
      <4> QED BY <2>4, <3>1, <4>1, CommitLands
    <3>2. CASE ~Commits
      <4>1. step' = "save" => step = "save"
        BY <2>1, <3>2 DEF Next, Receives, Restarts, Carries, Drops, Connecting, Health, Load, Apply, Reset,
           Closes, Delivering, Handle, connect, intake, vars
      <4> QED BY <1>0, <2>4, <4>1, LandedStays DEF Unbroken, HeadIsTaken
    <3> QED BY <3>1, <3>2
  <2> QED BY <2>1, <2>5, <2>6, <2>7 DEF HeadIsTaken, Landed
<1> QED BY <1>1, <1>2

LEMMA InboxStep ==
  ASSUME Shapes, Unbroken, [Next]_vars, restarts = 0, restarts' = 0
  PROVE  InboxHasNoGap' /\ InOrder'
<1>1. CASE Commits
  <2>1. PICK head : head = Cur.id
    OBVIOUS
  <2> QED BY <1>1, <2>1, CommitLands
<1>2. CASE ~Commits
  <2>1. inbox' = inbox
    BY <1>2 DEF Next, Receives, Restarts, Carries, Drops, Connecting, Health, Load, Apply, Reset,
       Closes, Delivering, PassOver, Handle, SaveCursor, Fails, Crashes, intake, vars
  <2>2. SentGoes /\ InboxGoes
    BY Goes
  <2>3. \A id : Landed(id) => Landed(id)'
    BY <2>2, LandedStays
  <2>4. \A id \in DOMAIN sent : id \in DOMAIN sent' /\ sent'[id] = sent[id]
    BY <2>2, SentStays
  <2> QED BY <2>1, <2>3, <2>4 DEF Unbroken, InboxHasNoGap, InOrder
<1> QED BY <1>1, <1>2

(* ------------------------------- theorems ------------------------------- *)
LEMMA StreamInit == Init => StreamInv
<1> SUFFICES ASSUME Init PROVE StreamInv
  OBVIOUS
<1>1. Shapes
  BY DEF Init, Shapes
<1>2. DOMAIN chain = {} /\ DOMAIN inbox = {} /\ Len(sent) = 0
  BY DEF Init
<1> QED BY <1>1, <1>2 DEF Init, StreamInv, Unbroken, NoGap, HeadIsTaken, InboxHasNoGap, InOrder, LandedUpTo

LEMMA StreamStep == StreamInv /\ [Next]_vars => StreamInv'
<1> SUFFICES ASSUME StreamInv, [Next]_vars PROVE StreamInv'
  OBVIOUS
<1>1. Shapes'
  BY Shaped DEF StreamInv
<1>2. restarts' = 0 => restarts = 0
  BY ShapeFacts DEF StreamInv, Next, Receives, Restarts, Carries, Drops, Connecting, Health, Load, Apply,
    Reset, Closes, Delivering, PassOver, Handle, Commits, SaveCursor, Fails, Crashes, gateway, vars
<1>3. ASSUME restarts' = 0 PROVE Unbroken'
  BY <1>2, <1>3, NumbersStep, CursorsStep, GapStep, HeadStep, InboxStep DEF StreamInv, Unbroken
<1> QED BY <1>1, <1>3 DEF StreamInv

LEMMA StreamEnough == StreamInv => CursorIsCommitted /\ InOrder
  BY DEF StreamInv, Unbroken, CursorIsCommitted, LandedUpTo, InOrder

(* However many messages come, sockets die, deliveries fail and crashes     *)
(* there are: as long as the gateway keeps its numbering, the saved cursor  *)
(* has nothing uncommitted behind it and the inbox is in order.             *)
THEOREM StreamHolds == Spec => [](CursorIsCommitted /\ InOrder)
<1> QED BY StreamInit, StreamStep, StreamEnough, PTL DEF Spec

(* ---- the demonstration ---- *)
(* The limits of the bridge are numbers.                                    *)
Limits == RecentLimit \in Nat /\ ReplayLimit \in Nat /\ PendingLimit \in Nat

Forms ==
  {"text", "reaction", "text_preview", "location", "image", "video", "document",
   "interactive_button", "interactive_list", "interactive_cta", "interactive_location_request",
   "typing_indicator", "none"}
Message == [id : Nat, type : Forms, session : Nat]
Frame ==
  [frame : {"session"}, session : Nat] \cup [frame : {"message"}, message : Message]
    \cup [frame : {"error"}]
OfSession(s) == {m \in Message : m.session = s}

(* A browser that keeps session o will have taken up session s once it has  *)
(* received the first i frames of fs.                                       *)
TakesUp(fs, o, i, s) ==
  \/ o = s /\ \A k \in 1..i : fs[k].frame # "session"
  \/ \E j \in 1..i : /\ fs[j].frame = "session" /\ fs[j].session = s
                     /\ \A k \in j + 1 .. i : fs[k].frame # "session"
(* It will receive every message in the session the message is of.          *)
Orderly(fs, o) ==
  \A i \in 1..Len(fs) : fs[i].frame = "message" => TakesUp(fs, o, i, fs[i].message.session)

BridgeType ==
  /\ session \in Nat /\ emitted \in Nat
  /\ frames \in [Browsers -> Seq(Frame)] /\ own \in [Browsers -> Nat]
  /\ link \in [Browsers -> BOOLEAN] /\ chat \in [Browsers -> Seq(Message)]
(* What the bridge keeps is of its session, what a browser shows is of its  *)
(* own, and what is on the way to it fits.                                  *)
KeptIsCurrent == recent \in Seq(OfSession(session)) /\ pending \in Seq(OfSession(session))
ChatIsOwn == \A b \in Browsers : chat[b] \in Seq(OfSession(own[b]))
FramesFit == \A b \in Browsers : Orderly(frames[b], own[b])
CountedFollow == \A b \in Browsers : b \in counted => TakesUp(frames[b], own[b], Len(frames[b]), session)
BridgeInv ==
  /\ BridgeType /\ KeptIsCurrent /\ ChatIsOwn /\ FramesFit /\ CountedFollow
  /\ Emu!ShownOnce /\ Emu!MarkersAreTheBots

(* ------------------------------ sequences ------------------------------- *)
LEMMA LastOfStays ==
  ASSUME NEW S, NEW s \in Seq(S), NEW n \in Nat
  PROVE  Emu!LastOf(s, n) \in Seq(S)
<1>1. CASE Len(s) <= n
  BY <1>1 DEF Emu!LastOf
<1>2. CASE Len(s) > n
  <2>1. /\ Len(s) \in Nat /\ Len(s) - n + 1 \in 1..Len(s) + 1
        /\ ~(Len(s) <= n)
    BY <1>2
  <2>2. \A i \in Len(s) - n + 1 .. Len(s) : s[i] \in S
    BY <2>1
  <2>3. SubSeq(s, Len(s) - n + 1, Len(s)) \in Seq(S)
    BY <2>1, <2>2, SubSeqProperties
  <2> QED BY <2>1, <2>3 DEF Emu!LastOf
<1> QED BY <1>1, <1>2

LEMMA AppendKeeps ==
  ASSUME NEW fs \in Seq(Frame), NEW o, NEW f, NEW i \in 0..Len(fs), NEW s, TakesUp(fs, o, i, s)
  PROVE  TakesUp(Append(fs, f), o, i, s)
<1>1. \A k \in 1..i : Append(fs, f)[k] = fs[k]
  OBVIOUS
<1>2. \A j \in 1..i : \A k \in j + 1 .. i : k \in 1..i
  OBVIOUS
<1> QED BY <1>1, <1>2 DEF TakesUp

LEMMA AppendOrderly ==
  ASSUME NEW fs \in Seq(Frame), NEW o, NEW f \in Frame, Orderly(fs, o),
         f.frame = "message" => TakesUp(Append(fs, f), o, Len(fs) + 1, f.message.session)
  PROVE  Orderly(Append(fs, f), o)
<1> SUFFICES ASSUME NEW i \in 1..Len(Append(fs, f)), Append(fs, f)[i].frame = "message"
             PROVE  TakesUp(Append(fs, f), o, i, Append(fs, f)[i].message.session)
  BY DEF Orderly
<1>1. Len(Append(fs, f)) = Len(fs) + 1 /\ Len(fs) \in Nat
  OBVIOUS
<1>2. CASE i = Len(fs) + 1
  <2>1. Append(fs, f)[i] = f
    BY <1>2
  <2> QED BY <2>1, <1>2
<1>3. CASE i \in 1..Len(fs)
  <2>1. Append(fs, f)[i] = fs[i]
    BY <1>3
  <2>2. TakesUp(fs, o, i, fs[i].message.session)
    BY <2>1, <1>3 DEF Orderly
  <2> QED BY <2>1, <2>2, <1>3, AppendKeeps
<1> QED BY <1>1, <1>2, <1>3

LEMMA AppendFollows ==
  ASSUME NEW fs \in Seq(Frame), NEW o, NEW f \in Frame, f.frame # "session", NEW s,
         TakesUp(fs, o, Len(fs), s)
  PROVE  TakesUp(Append(fs, f), o, Len(fs) + 1, s)
<1> DEFINE gs == Append(fs, f)
<1>1. /\ \A k \in 1..Len(fs) : gs[k] = fs[k]
      /\ gs[Len(fs) + 1] = f
      /\ Len(fs) \in Nat
  OBVIOUS
<1>2. \A k \in 1..Len(fs) + 1 : k \in 1..Len(fs) \/ k = Len(fs) + 1
  BY <1>1
<1>3. CASE o = s /\ \A k \in 1..Len(fs) : fs[k].frame # "session"
  <2>1. \A k \in 1..Len(fs) + 1 : gs[k].frame # "session"
    BY <1>1, <1>2, <1>3
  <2> QED BY <1>3, <2>1 DEF TakesUp
<1>4. CASE \E j \in 1..Len(fs) : /\ fs[j].frame = "session" /\ fs[j].session = s
                                 /\ \A k \in j + 1 .. Len(fs) : fs[k].frame # "session"
  <2>1. PICK j \in 1..Len(fs) : /\ fs[j].frame = "session" /\ fs[j].session = s
                                /\ \A k \in j + 1 .. Len(fs) : fs[k].frame # "session"
    BY <1>4
  <2>2. j \in 1..Len(fs) + 1
    BY <1>1
  <2>3. gs[j].frame = "session" /\ gs[j].session = s
    BY <2>1, <1>1
  <2>4. ASSUME NEW k \in j + 1 .. Len(fs) + 1 PROVE gs[k].frame # "session"
    <3>1. k \in j + 1 .. Len(fs) \/ k = Len(fs) + 1
      BY <1>1
    <3>2. k \in j + 1 .. Len(fs) => k \in 1..Len(fs)
      BY <1>1
    <3> QED BY <3>1, <3>2, <2>1, <1>1
  <2> QED BY <2>2, <2>3, <2>4 DEF TakesUp
<1> QED BY <1>3, <1>4 DEF TakesUp

LEMMA AppendSession ==
  ASSUME NEW fs \in Seq(Frame), NEW o, NEW s
  PROVE  TakesUp(Append(fs, Emu!SessionFrame(s)), o, Len(fs) + 1, s)
<1>1. Append(fs, Emu!SessionFrame(s))[Len(fs) + 1] = Emu!SessionFrame(s) /\ Len(fs) \in Nat
  OBVIOUS
<1>2. Len(fs) + 1 \in 1..Len(fs) + 1 /\ (Len(fs) + 1) + 1 .. Len(fs) + 1 = {}
  BY <1>1
<1> QED BY <1>1, <1>2 DEF TakesUp, Emu!SessionFrame

LEMMA TailKeeps ==
  ASSUME NEW fs \in Seq(Frame), fs # <<>>, NEW o, NEW i \in 1..Len(fs), NEW s, TakesUp(fs, o, i, s)
  PROVE  TakesUp(Tail(fs), IF Head(fs).frame = "session" THEN Head(fs).session ELSE o, i - 1, s)
<1> DEFINE gs == Tail(fs)
           p == IF Head(fs).frame = "session" THEN Head(fs).session ELSE o
<1>1. /\ Head(fs) = fs[1] /\ Len(fs) \in Nat /\ 1 \in 1..i
      /\ \A k \in 1..i - 1 : gs[k] = fs[k + 1] /\ k + 1 \in 1..i
  OBVIOUS
<1>2. CASE o = s /\ \A k \in 1..i : fs[k].frame # "session"
  <2>1. p = o
    BY <1>1, <1>2
  <2>2. \A k \in 1..i - 1 : gs[k].frame # "session"
    BY <1>1, <1>2
  <2> QED BY <1>2, <2>1, <2>2 DEF TakesUp
<1>3. CASE \E j \in 1..i : /\ fs[j].frame = "session" /\ fs[j].session = s
                           /\ \A k \in j + 1 .. i : fs[k].frame # "session"
  <2>1. PICK j \in 1..i : /\ fs[j].frame = "session" /\ fs[j].session = s
                          /\ \A k \in j + 1 .. i : fs[k].frame # "session"
    BY <1>3
  <2>2. CASE j = 1
    <3>1. p = s
      BY <1>1, <2>1, <2>2
    <3>2. ASSUME NEW k \in 1..i - 1 PROVE gs[k].frame # "session"
      <4>1. k + 1 \in j + 1 .. i
        BY <2>2
      <4> QED BY <4>1, <2>1, <1>1
    <3> QED BY <3>1, <3>2 DEF TakesUp
  <2>3. CASE j # 1
    <3>1. j - 1 \in 1..i - 1 /\ (j - 1) + 1 = j
      BY <2>3
    <3>2. gs[j - 1] = fs[j]
      BY <3>1, <1>1
    <3>3. ASSUME NEW k \in (j - 1) + 1 .. i - 1 PROVE gs[k].frame # "session"
      <4>1. k + 1 \in j + 1 .. i /\ k \in 1..i - 1
        BY <3>1
      <4> QED BY <4>1, <2>1, <1>1
    <3> QED BY <3>1, <3>2, <3>3, <2>1 DEF TakesUp
  <2> QED BY <2>2, <2>3
<1> QED BY <1>2, <1>3 DEF TakesUp

LEMMA TailOrderly ==
  ASSUME NEW fs \in Seq(Frame), fs # <<>>, NEW o, Orderly(fs, o)
  PROVE  Orderly(Tail(fs), IF Head(fs).frame = "session" THEN Head(fs).session ELSE o)
<1> DEFINE p == IF Head(fs).frame = "session" THEN Head(fs).session ELSE o
<1> SUFFICES ASSUME NEW i \in 1..Len(Tail(fs)), Tail(fs)[i].frame = "message"
             PROVE  TakesUp(Tail(fs), p, i, Tail(fs)[i].message.session)
  BY DEF Orderly
<1>1. /\ i + 1 \in 1..Len(fs) /\ (i + 1) - 1 = i
      /\ Tail(fs)[i] = fs[i + 1]
  OBVIOUS
<1>2. TakesUp(fs, o, i + 1, fs[i + 1].message.session)
  BY <1>1 DEF Orderly
<1>3. TakesUp(Tail(fs), p, (i + 1) - 1, fs[i + 1].message.session)
  BY <1>1, <1>2, TailKeeps
<1> QED BY <1>1, <1>3

(* ------------------------------ the bridge ------------------------------ *)
LEMMA MessageIsMade ==
  ASSUME NEW o, BridgeType
  PROVE  [id |-> emitted, type |-> Emu!ParseWhatsAppPayload(o), session |-> session] \in OfSession(session)
<1>1. Emu!ParseWhatsAppPayload(o) \in Forms
  BY DEF Emu!ParseWhatsAppPayload, Emu!InteractiveType, Emu!Nothing, Forms
<1> QED BY <1>1 DEF OfSession, Message, BridgeType

LEMMA EmitKeeps ==
  ASSUME Limits, BridgeInv, NEW m \in OfSession(session), Emu!EmitUiMessage(m),
         UNCHANGED <<session, own, chat, counted, link>>
  PROVE  /\ frames' \in [Browsers -> Seq(Frame)]
         /\ KeptIsCurrent' /\ FramesFit' /\ CountedFollow'
<1>1. /\ Append(recent, m) \in Seq(OfSession(session))
      /\ Append(pending, m) \in Seq(OfSession(session))
  BY DEF BridgeInv, KeptIsCurrent
<1>2. KeptIsCurrent'
  BY <1>1, LastOfStays DEF Emu!EmitUiMessage, KeptIsCurrent, BridgeInv, Limits, OfSession
<1>3. Emu!MessageFrame(m) \in Frame /\ Emu!MessageFrame(m).frame = "message"
      /\ Emu!MessageFrame(m).message = m /\ m.session = session
  BY DEF Emu!MessageFrame, Frame, OfSession
<1>4. frames' = frames \/ frames' = Emu!ToAll(Emu!MessageFrame(m))
  BY DEF Emu!EmitUiMessage
<1>5. CASE frames' = frames
  BY <1>2, <1>5 DEF BridgeInv, BridgeType, FramesFit, CountedFollow
<1>6. CASE frames' = Emu!ToAll(Emu!MessageFrame(m))
  <2>1. \A b \in Browsers : frames'[b] = IF b \in counted THEN Append(frames[b], Emu!MessageFrame(m)) ELSE frames[b]
    BY <1>6 DEF Emu!ToAll
  <2>2. frames' \in [Browsers -> Seq(Frame)]
    BY <1>3, <1>6 DEF Emu!ToAll, BridgeInv, BridgeType
  <2>3. ASSUME NEW b \in Browsers
        PROVE  /\ Orderly(frames'[b], own'[b])
               /\ b \in counted' => TakesUp(frames'[b], own'[b], Len(frames'[b]), session')
    <3>1. frames[b] \in Seq(Frame) /\ Orderly(frames[b], own[b])
      BY DEF BridgeInv, BridgeType, FramesFit
    <3>2. CASE b \notin counted
      BY <2>1, <3>1, <3>2
    <3>3. CASE b \in counted
      <4>1. TakesUp(frames[b], own[b], Len(frames[b]), session)
        BY <3>3 DEF BridgeInv, CountedFollow
      <4>2. TakesUp(Append(frames[b], Emu!MessageFrame(m)), own[b], Len(frames[b]) + 1, session)
        BY <3>1, <4>1, <1>3, AppendFollows
      <4>3. Orderly(Append(frames[b], Emu!MessageFrame(m)), own[b])
        BY <3>1, <4>2, <1>3, AppendOrderly
      <4>4. Len(Append(frames[b], Emu!MessageFrame(m))) = Len(frames[b]) + 1
        BY <3>1
      <4> QED BY <4>2, <4>3, <4>4, <2>1, <3>3
    <3> QED BY <3>2, <3>3
  <2> QED BY <1>2, <2>2, <2>3 DEF FramesFit, CountedFollow
<1> QED BY <1>4, <1>5, <1>6

LEMMA SendStep ==
  ASSUME Limits, BridgeInv, NEW o, Emu!SendToEmulator(o)
  PROVE  BridgeInv'
<1>1. /\ UNCHANGED <<session, own, chat, counted, link, arrived>> /\ emitted' = emitted + 1
  BY DEF Emu!SendToEmulator, Emu!ui, Emu!bot
<1>2. Emu!ShownOnce' /\ Emu!MarkersAreTheBots' /\ ChatIsOwn'
  BY <1>1 DEF BridgeInv, Emu!ShownOnce, Emu!MarkersAreTheBots, ChatIsOwn, OfSession
<1>3. /\ frames' \in [Browsers -> Seq(Frame)]
      /\ KeptIsCurrent' /\ FramesFit' /\ CountedFollow'
  <2>1. CASE UNCHANGED <<recent, pending, frames>>
    BY <1>1, <2>1 DEF BridgeInv, BridgeType, KeptIsCurrent, FramesFit, CountedFollow, OfSession
  <2>2. CASE Emu!EmitUiMessage([id |-> emitted, type |-> Emu!ParseWhatsAppPayload(o), session |-> session])
    <3>1. [id |-> emitted, type |-> Emu!ParseWhatsAppPayload(o), session |-> session] \in OfSession(session)
      BY MessageIsMade DEF BridgeInv
    <3> QED BY <1>1, <2>2, <3>1, EmitKeeps
  <2> QED BY <2>1, <2>2 DEF Emu!SendToEmulator
<1> QED BY <1>1, <1>2, <1>3 DEF BridgeInv, BridgeType

LEMMA ClearStep ==
  ASSUME BridgeInv, Emu!ClearUi
  PROVE  BridgeInv'
<1>1. /\ UNCHANGED <<own, chat, counted, link, arrived, emitted>> /\ session' = session + 1
      /\ recent' = <<>> /\ pending' = <<>> /\ frames' = Emu!ToAll(Emu!SessionFrame(session'))
      /\ session' \in Nat
  BY DEF Emu!ClearUi, Emu!ui, Emu!bot, BridgeInv, BridgeType
<1>2. Emu!ShownOnce' /\ Emu!MarkersAreTheBots' /\ ChatIsOwn' /\ KeptIsCurrent'
  <2>1. Emu!ShownOnce' /\ Emu!MarkersAreTheBots'
    BY <1>1 DEF BridgeInv, Emu!ShownOnce, Emu!MarkersAreTheBots
  <2>2. ChatIsOwn'
    BY <1>1 DEF BridgeInv, ChatIsOwn, OfSession
  <2>3. <<>> \in Seq(OfSession(session')) /\ recent' = <<>> /\ pending' = <<>>
    BY <1>1
  <2>4. KeptIsCurrent'
    BY <2>3 DEF KeptIsCurrent, OfSession
  <2> QED BY <2>1, <2>2, <2>4
<1> DEFINE f == Emu!SessionFrame(session')
<1>3. f \in Frame /\ f.frame = "session"
  BY <1>1 DEF Emu!SessionFrame, Frame
<1>4. \A b \in Browsers : frames'[b] = IF b \in counted THEN Append(frames[b], f) ELSE frames[b]
  BY <1>1 DEF Emu!ToAll
<1>5. frames' \in [Browsers -> Seq(Frame)]
  BY <1>1, <1>3 DEF Emu!ToAll, BridgeInv, BridgeType
<1>6. ASSUME NEW b \in Browsers
      PROVE  /\ Orderly(frames'[b], own'[b])
             /\ b \in counted' => TakesUp(frames'[b], own'[b], Len(frames'[b]), session')
  <2>1. frames[b] \in Seq(Frame) /\ Orderly(frames[b], own[b])
    BY DEF BridgeInv, BridgeType, FramesFit
  <2>2. TakesUp(Append(frames[b], f), own[b], Len(frames[b]) + 1, session')
    BY <2>1, AppendSession
  <2>3. Orderly(Append(frames[b], f), own[b])
    BY <2>1, <1>3, AppendOrderly
  <2>4. Len(Append(frames[b], f)) = Len(frames[b]) + 1
    BY <2>1
  <2> HIDE DEF f
  <2> QED BY <1>1, <1>4, <2>1, <2>2, <2>3, <2>4
<1> QED BY <1>1, <1>2, <1>5, <1>6 DEF BridgeInv, BridgeType, FramesFit, CountedFollow

LEMMA EmptyFits == \A o : Orderly(<<>>, o) /\ <<>> \in Seq(Frame)
  BY DEF Orderly

LEMMA RestartStep ==
  ASSUME BridgeInv, Emu!Restart
  PROVE  BridgeInv'
<1>1. /\ UNCHANGED <<own, chat, arrived, emitted>> /\ session' = session + 1
      /\ recent' = <<>> /\ pending' = <<>> /\ counted' = {}
      /\ frames' = [b \in Browsers |-> <<>>] /\ link' = [b \in Browsers |-> FALSE]
  BY DEF Emu!Restart, Emu!ui
<1>2. Emu!ShownOnce' /\ Emu!MarkersAreTheBots' /\ ChatIsOwn' /\ KeptIsCurrent'
  <2>1. Emu!ShownOnce' /\ Emu!MarkersAreTheBots'
    BY <1>1 DEF BridgeInv, Emu!ShownOnce, Emu!MarkersAreTheBots
  <2>2. ChatIsOwn'
    BY <1>1 DEF BridgeInv, ChatIsOwn, OfSession
  <2>3. <<>> \in Seq(OfSession(session')) /\ recent' = <<>> /\ pending' = <<>>
    BY <1>1
  <2>4. KeptIsCurrent'
    BY <2>3 DEF KeptIsCurrent, OfSession
  <2> QED BY <2>1, <2>2, <2>4
<1>3. FramesFit' /\ CountedFollow'
  BY <1>1, EmptyFits DEF FramesFit, CountedFollow
<1>4. BridgeType'
  BY <1>1, EmptyFits DEF BridgeInv, BridgeType
<1> QED BY <1>2, <1>3, <1>4 DEF BridgeInv

(* ---------------------------- the connections --------------------------- *)
LEMMA ReplayFits ==
  ASSUME NEW r \in Seq(OfSession(session)), NEW o, session \in Nat
  PROVE  LET fs == <<Emu!SessionFrame(session)>> \o [i \in DOMAIN r |-> Emu!MessageFrame(r[i])]
         IN  fs \in Seq(Frame) /\ Orderly(fs, o) /\ TakesUp(fs, o, Len(fs), session)
<1> DEFINE ms == [i \in DOMAIN r |-> Emu!MessageFrame(r[i])]
           fs == <<Emu!SessionFrame(session)>> \o ms
<1>1. \A i \in 1..Len(r) : r[i] \in Message /\ r[i].session = session
  BY DEF OfSession
<1>2. ms \in Seq(Frame) /\ Len(ms) = Len(r) /\ \A i \in 1..Len(r) : ms[i] = Emu!MessageFrame(r[i])
  <2>1. \A i \in 1..Len(r) : Emu!MessageFrame(r[i]) \in Frame
    BY <1>1 DEF Emu!MessageFrame, Frame
  <2>2. DOMAIN r = 1..Len(r) /\ Len(r) \in Nat
    OBVIOUS
  <2> QED BY <2>1, <2>2
<1>3. <<Emu!SessionFrame(session)>> \in Seq(Frame)
  BY DEF Emu!SessionFrame, Frame
<1> HIDE DEF ms
<1>4. /\ fs \in Seq(Frame) /\ Len(fs) = Len(r) + 1 /\ fs[1] = Emu!SessionFrame(session)
      /\ \A i \in 2..Len(r) + 1 : fs[i] = ms[i - 1]
  BY <1>2, <1>3
<1>5. \A i \in 2..Len(r) + 1 : /\ fs[i].frame = "message" /\ fs[i].message.session = session
                               /\ i - 1 \in 1..Len(r)
  <2>1. ASSUME NEW i \in 2..Len(r) + 1 PROVE i - 1 \in 1..Len(r)
    OBVIOUS
  <2> HIDE DEF fs
  <2>2. ASSUME NEW i \in 2..Len(r) + 1 PROVE fs[i] = Emu!MessageFrame(r[i - 1]) /\ r[i - 1].session = session
    BY <2>1, <1>1, <1>2, <1>4
  <2>3. \A m : Emu!MessageFrame(m).frame = "message" /\ Emu!MessageFrame(m).message = m
    BY DEF Emu!MessageFrame
  <2> QED BY <2>1, <2>2, <2>3
<1> HIDE DEF fs
<1>6. fs[1].frame = "session" /\ fs[1].session = session
  BY <1>4 DEF Emu!SessionFrame
<1>7. ASSUME NEW i \in 1..Len(r) + 1 PROVE TakesUp(fs, o, i, session)
  <2>1. 1 \in 1..i /\ \A k \in 1 + 1 .. i : k \in 2..Len(r) + 1
    OBVIOUS
  <2>2. \A k \in 1 + 1 .. i : fs[k].frame # "session"
    BY <2>1, <1>5
  <2> QED BY <2>1, <2>2, <1>6 DEF TakesUp
<1>8. \A i \in 1..Len(fs) : i = 1 \/ i \in 2..Len(r) + 1
  BY <1>4
<1>9. Orderly(fs, o)
  BY <1>4, <1>5, <1>6, <1>7, <1>8 DEF Orderly
<1>10. Len(fs) \in 1..Len(r) + 1
  BY <1>4
<1>11. TakesUp(fs, o, Len(fs), session)
  BY <1>7, <1>10
<1> QED BY <1>4, <1>9, <1>11 DEF fs, ms

LEMMA ConnectionStep ==
  ASSUME Limits, BridgeInv, NEW b \in Browsers, Emu!Connection(b)
  PROVE  BridgeInv'
<1>1. /\ UNCHANGED <<session, own, chat, arrived, emitted, recent>> /\ pending' = <<>>
      /\ counted' = counted \cup {b} /\ link' = [link EXCEPT ![b] = TRUE]
  BY DEF Emu!Connection, Emu!ui, Emu!bot
<1>2. Emu!ShownOnce' /\ Emu!MarkersAreTheBots' /\ ChatIsOwn' /\ KeptIsCurrent'
  <2>1. Emu!ShownOnce' /\ Emu!MarkersAreTheBots' /\ ChatIsOwn'
    BY <1>1 DEF BridgeInv, Emu!ShownOnce, Emu!MarkersAreTheBots, ChatIsOwn, OfSession
  <2>2. OfSession(session)' = OfSession(session) /\ <<>> \in Seq(OfSession(session))
    BY <1>1 DEF OfSession
  <2> QED BY <1>1, <2>1, <2>2 DEF BridgeInv, KeptIsCurrent
<1> DEFINE fs == <<Emu!SessionFrame(session)>> \o [i \in DOMAIN Emu!Replay |-> Emu!MessageFrame(Emu!Replay[i])]
<1>3. Emu!Replay \in Seq(OfSession(session))
  BY LastOfStays DEF Emu!Replay, BridgeInv, KeptIsCurrent, Limits
<1>4. fs \in Seq(Frame) /\ Orderly(fs, own[b]) /\ TakesUp(fs, own[b], Len(fs), session)
  BY <1>3, ReplayFits DEF BridgeInv, BridgeType
<1>5. frames' = [frames EXCEPT ![b] = fs]
  BY DEF Emu!Connection
<1> HIDE DEF fs
<1>6. BridgeType'
  BY <1>1, <1>4, <1>5 DEF BridgeInv, BridgeType
<1>7. FramesFit' /\ CountedFollow'
  BY <1>1, <1>4, <1>5 DEF BridgeInv, BridgeType, FramesFit, CountedFollow
<1> QED BY <1>2, <1>6, <1>7 DEF BridgeInv

LEMMA BreakStep ==
  ASSUME BridgeInv, NEW b \in Browsers, NEW noticed, Emu!Break(b, noticed)
  PROVE  BridgeInv'
<1>1. /\ UNCHANGED <<session, own, chat, arrived, emitted, recent, pending>>
      /\ counted' = counted \ {b} /\ link' = [link EXCEPT ![b] = FALSE]
      /\ frames' = [frames EXCEPT ![b] = <<>>]
  BY DEF Emu!Break, Emu!ui, Emu!bot
<1>2. Emu!ShownOnce' /\ Emu!MarkersAreTheBots' /\ ChatIsOwn' /\ KeptIsCurrent'
  BY <1>1 DEF BridgeInv, Emu!ShownOnce, Emu!MarkersAreTheBots, ChatIsOwn, KeptIsCurrent, OfSession
<1>3. BridgeType' /\ FramesFit' /\ CountedFollow'
  BY <1>1, EmptyFits DEF BridgeInv, BridgeType, FramesFit, CountedFollow
<1> QED BY <1>2, <1>3 DEF BridgeInv

(* Frames unchanged but for a refusal that is told to one browser.          *)
LEMMA RefusesKeeps ==
  ASSUME BridgeInv, NEW b, Emu!Refuses(b), UNCHANGED <<session, own, counted>>
  PROVE  frames' \in [Browsers -> Seq(Frame)] /\ FramesFit' /\ CountedFollow'
<1> DEFINE f == [frame |-> "error"]
<1>1. f \in Frame /\ f.frame = "error"
  BY DEF Frame
<1>2. CASE UNCHANGED frames
  BY <1>2 DEF BridgeInv, BridgeType, FramesFit, CountedFollow
<1>3. CASE frames' = [frames EXCEPT ![b] = Append(@, f)]
  <2>1. frames' \in [Browsers -> Seq(Frame)]
    <3> HIDE DEF f
    <3>1. \A d \in Browsers : Append(frames[d], f) \in Seq(Frame)
      BY <1>1 DEF BridgeInv, BridgeType
    <3> QED BY <3>1, <1>3 DEF BridgeInv, BridgeType
  <2>2. ASSUME NEW d \in Browsers
        PROVE  /\ Orderly(frames'[d], own'[d])
               /\ d \in counted' => TakesUp(frames'[d], own'[d], Len(frames'[d]), session')
    <3>1. frames[d] \in Seq(Frame) /\ Orderly(frames[d], own[d])
      BY DEF BridgeInv, BridgeType, FramesFit
    <3>2. d \in counted => TakesUp(frames[d], own[d], Len(frames[d]), session)
      BY DEF BridgeInv, CountedFollow
    <3>3. d # b => frames'[d] = frames[d]
      BY <1>3 DEF BridgeInv, BridgeType
    <3>4. CASE d = b
      <4>1. frames'[d] = Append(frames[d], f)
        BY <1>3, <3>4 DEF BridgeInv, BridgeType
      <4> HIDE DEF f
      <4>2. Orderly(Append(frames[d], f), own[d])
        BY <1>1, <3>1, AppendOrderly
      <4>3. d \in counted => TakesUp(Append(frames[d], f), own[d], Len(frames[d]) + 1, session)
        BY <1>1, <3>1, <3>2, AppendFollows
      <4>4. Len(Append(frames[d], f)) = Len(frames[d]) + 1
        BY <3>1
      <4> QED BY <4>1, <4>2, <4>3, <4>4
    <3> QED BY <3>1, <3>2, <3>3, <3>4
  <2> QED BY <2>1, <2>2 DEF FramesFit, CountedFollow
<1> QED BY <1>2, <1>3 DEF Emu!Refuses, Emu!To

(* ------------------------------ a browser ------------------------------- *)
LEMMA ReceiveStep ==
  ASSUME BridgeInv, NEW b \in Browsers, Emu!Receive(b)
  PROVE  BridgeInv'
<1> DEFINE fs == frames[b]
           f == Head(fs)
           p == IF f.frame = "session" THEN f.session ELSE own[b]
<1>1. /\ UNCHANGED <<session, recent, pending, counted, link, arrived, emitted>>
      /\ fs # <<>> /\ frames' = [frames EXCEPT ![b] = Tail(@)]
  BY DEF Emu!Receive, Emu!bot
<1>2. fs \in Seq(Frame) /\ f \in Frame /\ f = fs[1] /\ Len(fs) \in Nat /\ 1 \in 1..Len(fs)
  BY <1>1 DEF BridgeInv, BridgeType
<1>3. /\ f.frame = "session" => f.session \in Nat
      /\ f.frame = "message" => f.message \in Message
      /\ f.frame \in {"session", "message", "error"}
  BY <1>2 DEF Frame
<1>4. Tail(fs) \in Seq(Frame) /\ Len(Tail(fs)) = Len(fs) - 1
  BY <1>1, <1>2
<1>5. frames' \in [Browsers -> Seq(Frame)] /\ frames'[b] = Tail(fs)
      /\ \A d \in Browsers : d # b => frames'[d] = frames[d]
  BY <1>1, <1>4 DEF BridgeInv, BridgeType
<1>6. Orderly(Tail(fs), p)
  BY <1>1, <1>2, TailOrderly DEF BridgeInv, FramesFit
<1>7. b \in counted => TakesUp(Tail(fs), p, Len(Tail(fs)), session)
  <2>1. SUFFICES ASSUME b \in counted PROVE TakesUp(Tail(fs), p, Len(fs) - 1, session)
    BY <1>4
  <2>2. TakesUp(fs, own[b], Len(fs), session)
    BY <2>1 DEF BridgeInv, CountedFollow
  <2>3. Len(fs) \in 1..Len(fs)
    BY <1>2
  <2> QED BY <2>2, <2>3, <1>1, <1>2, TailKeeps
<1>8. /\ own' \in [Browsers -> Nat] /\ own'[b] = p
      /\ \A d \in Browsers : d # b => own'[d] = own[d]
      /\ chat' \in [Browsers -> Seq(Message)] /\ ChatIsOwn' /\ Emu!ShownOnce'
  <2>1. CASE f.frame = "session"
    <3>1. Emu!OnSession(b, f.session)
      BY <2>1 DEF Emu!Receive
    <3>2. CASE own[b] = f.session
      <4>1. UNCHANGED <<own, chat>>
        BY <3>1, <3>2 DEF Emu!OnSession, Emu!ui
      <4> QED
        BY <4>1, <3>2, <2>1 DEF BridgeInv, BridgeType, ChatIsOwn, Emu!ShownOnce, OfSession
    <3>3. CASE own[b] # f.session
      <4>1. own' = [own EXCEPT ![b] = f.session] /\ chat' = [chat EXCEPT ![b] = <<>>]
        BY <3>1, <3>3 DEF Emu!OnSession
      <4>2. /\ own'[b] = p /\ chat'[b] = <<>> /\ own' \in [Browsers -> Nat]
            /\ chat' \in [Browsers -> Seq(Message)]
            /\ \A d \in Browsers : d # b => own'[d] = own[d] /\ chat'[d] = chat[d]
        BY <4>1, <1>3, <2>1 DEF BridgeInv, BridgeType
      <4>3. ChatIsOwn'
        <5>1. \A d \in Browsers : chat'[d] = <<>> \/ (chat'[d] = chat[d] /\ own'[d] = own[d])
          BY <4>2
        <5>2. \A d \in Browsers : chat[d] \in Seq(OfSession(own[d]))
          BY DEF BridgeInv, ChatIsOwn
        <5>3. ASSUME NEW d \in Browsers PROVE chat'[d] \in Seq(OfSession(own'[d]))
          <6>1. CASE chat'[d] = <<>>
            BY <6>1
          <6>2. CASE chat'[d] = chat[d] /\ own'[d] = own[d]
            BY <5>2, <6>2
          <6> QED BY <5>1, <6>1, <6>2
        <5>4. ChatIsOwn' <=> \A d \in Browsers : chat'[d] \in Seq(OfSession(own'[d]))
          BY DEF ChatIsOwn, OfSession
        <5> QED BY <5>3, <5>4
      <4>4. Emu!ShownOnce'
        <5>1. \A d \in Browsers : DOMAIN chat'[d] = {} \/ chat'[d] = chat[d]
          BY <4>2
        <5> QED BY <5>1 DEF BridgeInv, Emu!ShownOnce
      <4> QED BY <4>2, <4>3, <4>4
    <3> QED BY <3>2, <3>3
  <2>2. CASE f.frame = "message"
    <3>1. Emu!OnMessage(b, f.message)
      BY <2>2 DEF Emu!Receive
    <3>2. own' = own /\ p = own[b]
      BY <3>1, <2>2 DEF Emu!OnMessage
    <3>3. f.message.session = own[b]
      <4>1. TakesUp(fs, own[b], 1, f.message.session)
        BY <1>2, <2>2 DEF BridgeInv, FramesFit, Orderly
      <4>2. \A j \in 1..1 : fs[j].frame # "session"
        BY <1>2, <2>2
      <4> QED BY <4>1, <4>2 DEF TakesUp
    <3>4. f.message \in OfSession(own[b])
      BY <1>3, <2>2, <3>3 DEF OfSession
    <3>5. CASE chat' = chat
      BY <3>2, <3>5 DEF BridgeInv, BridgeType, ChatIsOwn, Emu!ShownOnce, OfSession
    <3>6. CASE ~Emu!Shown(b, f.message) /\ chat' = [chat EXCEPT ![b] = Append(@, f.message)]
      <4>1. chat[b] \in Seq(Message) /\ chat[b] \in Seq(OfSession(own[b]))
        BY DEF BridgeInv, BridgeType, ChatIsOwn
      <4>2. /\ chat'[b] = Append(chat[b], f.message) /\ chat' \in [Browsers -> Seq(Message)]
            /\ \A d \in Browsers : d # b => chat'[d] = chat[d]
        BY <3>6, <1>3, <2>2 DEF BridgeInv, BridgeType
      <4>3. Append(chat[b], f.message) \in Seq(OfSession(own[b]))
        BY <3>4, <4>1
      <4>4. ChatIsOwn'
        BY <3>2, <4>2, <4>3 DEF BridgeInv, ChatIsOwn, OfSession
      <4>5. ASSUME NEW i \in DOMAIN chat'[b], NEW j \in DOMAIN chat'[b], chat'[b][i].id = chat'[b][j].id
            PROVE  i = j
        <5>1. /\ Len(chat[b]) \in Nat /\ DOMAIN chat[b] = 1..Len(chat[b])
              /\ DOMAIN chat'[b] = 1..Len(chat[b]) + 1
              /\ chat'[b][Len(chat[b]) + 1] = f.message
              /\ \A k \in 1..Len(chat[b]) : chat'[b][k] = chat[b][k]
          BY <4>1, <4>2
        <5>2. \A k \in 1..Len(chat[b]) : chat[b][k].id # f.message.id
          BY <3>6, <5>1 DEF Emu!Shown
        <5>3. \A k, l \in 1..Len(chat[b]) : chat[b][k].id = chat[b][l].id => k = l
          BY <5>1 DEF BridgeInv, Emu!ShownOnce
        <5>4. \A k \in 1..Len(chat[b]) + 1 : k \in 1..Len(chat[b]) \/ k = Len(chat[b]) + 1
          BY <5>1
        <5>5. (i \in 1..Len(chat[b]) \/ i = Len(chat[b]) + 1) /\ (j \in 1..Len(chat[b]) \/ j = Len(chat[b]) + 1)
          BY <5>1, <5>4
        <5> QED BY <4>5, <5>1, <5>2, <5>3, <5>5
      <4>6. Emu!ShownOnce'
        BY <4>2, <4>5 DEF BridgeInv, Emu!ShownOnce
      <4> QED BY <3>2, <4>2, <4>4, <4>6 DEF BridgeInv, BridgeType
    <3> QED BY <3>1, <3>5, <3>6 DEF Emu!OnMessage
  <2>3. CASE f.frame = "error"
    <3>1. UNCHANGED <<own, chat>> /\ p = own[b]
      BY <2>3 DEF Emu!Receive
    <3> QED BY <3>1 DEF BridgeInv, BridgeType, ChatIsOwn, Emu!ShownOnce, OfSession
  <2> QED BY <1>3, <2>1, <2>2, <2>3
<1> HIDE DEF p
<1>9. FramesFit' /\ CountedFollow'
  BY <1>1, <1>5, <1>6, <1>7, <1>8 DEF BridgeInv, FramesFit, CountedFollow
<1>10. KeptIsCurrent' /\ Emu!MarkersAreTheBots'
  BY <1>1 DEF BridgeInv, KeptIsCurrent, Emu!MarkersAreTheBots, OfSession
<1>11. BridgeType'
  BY <1>1, <1>5, <1>8 DEF BridgeInv, BridgeType
<1> QED BY <1>8, <1>9, <1>10, <1>11 DEF BridgeInv

(* ------------------------------- the bot -------------------------------- *)
LEMMA ReadClean ==
  ASSUME Emu!MarkersAreTheBots, NEW e, Emu!Read(e)
  PROVE  Emu!MarkersAreTheBots'
<1>1. \A m : "marker" \notin {Emu!Clean(m).text, Emu!Clean(m).title, Emu!Clean(m).caption}
  BY DEF Emu!Clean, Emu!NeutralizeSystemMarkers, Emu!Nothing
<1>2. \A m \in Emu!ToSet(Emu!NormalizeWebhook(e)) : \E n : m = Emu!Clean(n)
  <2>1. CASE Emu!NormalizeWebhook(e) = <<>>
    BY <2>1 DEF Emu!ToSet
  <2>2. CASE Emu!NormalizeWebhook(e) = [i \in DOMAIN e.messages |-> Emu!Clean(e.messages[i])]
    BY <2>2 DEF Emu!ToSet
  <2> QED BY <2>1, <2>2 DEF Emu!NormalizeWebhook
<1>3. \A m \in arrived' : m \in arrived \/ \E n : m = Emu!Clean(n)
  BY <1>2 DEF Emu!Read
<1> QED BY <1>1, <1>3 DEF Emu!MarkersAreTheBots

(* What moves nothing but the way of a reply keeps the rest.                *)
LEMMA QuietKeeps ==
  ASSUME BridgeInv, UNCHANGED <<session, recent, pending, counted, link, own, chat, emitted>>,
         frames' \in [Browsers -> Seq(Frame)] /\ FramesFit' /\ CountedFollow', Emu!MarkersAreTheBots'
  PROVE  BridgeInv'
<1>1. Emu!ShownOnce' /\ ChatIsOwn' /\ KeptIsCurrent'
  BY DEF BridgeInv, Emu!ShownOnce, ChatIsOwn, KeptIsCurrent, OfSession
<1> QED BY <1>1 DEF BridgeInv, BridgeType

LEMMA StillFits ==
  ASSUME BridgeInv, UNCHANGED <<session, counted, own, frames>>
  PROVE  frames' \in [Browsers -> Seq(Frame)] /\ FramesFit' /\ CountedFollow'
  BY DEF BridgeInv, BridgeType, FramesFit, CountedFollow

LEMMA BotSteps ==
  ASSUME BridgeInv, \/ Emu!Notice
                    \/ \E b \in Browsers : \E r \in Replies : Emu!HandleReply(b, r)
                    \/ \E p \in posted : Emu!Deliver(p)
                    \/ \E e \in Envelopes : Emu!EnvelopeArrives(e)
  PROVE  BridgeInv'
<1>1. UNCHANGED <<session, recent, pending, counted, link, own, chat, emitted>>
  BY DEF Emu!Notice, Emu!HandleReply, Emu!Deliver, Emu!EnvelopeArrives, Emu!ui, Emu!bot
<1>2. Emu!MarkersAreTheBots
  BY DEF BridgeInv
<1>3. CASE Emu!Notice \/ \E b \in Browsers : \E r \in Replies : Emu!HandleReply(b, r)
  <2>1. UNCHANGED <<frames, arrived>>
    BY <1>3 DEF Emu!Notice, Emu!HandleReply, Emu!ui, Emu!bot
  <2> QED BY <1>1, <1>2, <2>1, StillFits, QuietKeeps DEF Emu!MarkersAreTheBots
<1>4. CASE \E p \in posted : Emu!Deliver(p)
  <2>1. PICK p \in posted : Emu!Deliver(p)
    BY <1>4
  <2>2. UNCHANGED arrived \/ Emu!Read(p.envelope)
    BY <2>1 DEF Emu!Deliver
  <2>3. Emu!MarkersAreTheBots'
    BY <1>2, <2>2, ReadClean DEF Emu!MarkersAreTheBots
  <2>4. UNCHANGED frames \/ Emu!Refuses(p.from)
    BY <2>1 DEF Emu!Deliver
  <2>5. frames' \in [Browsers -> Seq(Frame)] /\ FramesFit' /\ CountedFollow'
    BY <1>1, <2>4, StillFits, RefusesKeeps
  <2> QED BY <1>1, <2>3, <2>5, QuietKeeps
<1>5. CASE \E e \in Envelopes : Emu!EnvelopeArrives(e)
  <2>1. UNCHANGED frames /\ Emu!MarkersAreTheBots'
    BY <1>2, <1>5, ReadClean DEF Emu!EnvelopeArrives
  <2> QED BY <1>1, <2>1, StillFits, QuietKeeps
<1> QED BY <1>3, <1>4, <1>5

LEMMA BridgeInit == Emu!Init => BridgeInv
<1> SUFFICES ASSUME Emu!Init PROVE BridgeInv
  OBVIOUS
<1>1. BridgeType
  BY EmptyFits DEF Emu!Init, BridgeType
<1>2. KeptIsCurrent /\ ChatIsOwn /\ Emu!ShownOnce /\ Emu!MarkersAreTheBots
  BY DEF Emu!Init, KeptIsCurrent, ChatIsOwn, Emu!ShownOnce, Emu!MarkersAreTheBots
<1>3. FramesFit /\ CountedFollow
  BY EmptyFits DEF Emu!Init, FramesFit, CountedFollow
<1> QED BY <1>1, <1>2, <1>3 DEF BridgeInv

LEMMA BridgeStep == Limits /\ BridgeInv /\ [Emu!Next]_(Emu!vars) => BridgeInv'
<1> SUFFICES ASSUME Limits, BridgeInv, [Emu!Next]_(Emu!vars) PROVE BridgeInv'
  OBVIOUS
<1>1. CASE Emu!Next
  <2>1. CASE \E o \in Outgoing : Emu!SendToEmulator(o)
    BY <2>1, SendStep
  <2>2. CASE Emu!ClearUi \/ Emu!Restart
    BY <2>2, ClearStep, RestartStep
  <2>3. CASE \E b \in Browsers : Emu!Connection(b) \/ Emu!Receive(b)
             \/ \E noticed \in BOOLEAN : Emu!Break(b, noticed)
    BY <2>3, ConnectionStep, ReceiveStep, BreakStep
  <2> QED BY <1>1, <2>1, <2>2, <2>3, BotSteps DEF Emu!Next
<1>2. CASE UNCHANGED Emu!vars
  <2>1. UNCHANGED <<session, recent, pending, counted, link, own, chat, emitted, frames, arrived>>
    BY <1>2 DEF Emu!vars
  <2> QED BY <2>1, StillFits, QuietKeeps DEF BridgeInv, Emu!MarkersAreTheBots
<1> QED BY <1>1, <1>2

LEMMA BridgeEnough == BridgeInv => Emu!ClearedIsGone /\ Emu!ShownOnce /\ Emu!MarkersAreTheBots
<1>1. BridgeInv => Emu!ClearedIsGone
  <2> SUFFICES ASSUME BridgeInv, NEW b \in Browsers, NEW i \in DOMAIN chat[b], own[b] = session
               PROVE  chat[b][i].session = session
    BY DEF Emu!ClearedIsGone
  <2>1. chat[b] \in Seq(OfSession(own[b]))
    BY DEF BridgeInv, ChatIsOwn
  <2>2. chat[b][i] \in OfSession(own[b])
    BY <2>1
  <2> QED BY <2>2 DEF OfSession
<1> QED BY <1>1 DEF BridgeInv

(* However many browsers connect, break and come back to a bridge that is   *)
(* reset and restarted: none shows what a reset cleared away, none shows a  *)
(* message twice, and no client writes a note of the bot's own              *)
(* (bridge/index.js, Index.tsx, webhook-router.ts).                         *)
THEOREM BridgeHolds == Limits /\ Emu!Spec => [](Emu!ClearedIsGone /\ Emu!ShownOnce /\ Emu!MarkersAreTheBots)
<1> SUFFICES ASSUME Limits PROVE Emu!Spec => [](Emu!ClearedIsGone /\ Emu!ShownOnce /\ Emu!MarkersAreTheBots)
  OBVIOUS
<1>1. BridgeInv /\ [Emu!Next]_(Emu!vars) => BridgeInv'
  BY BridgeStep
<1> QED BY BridgeInit, <1>1, BridgeEnough, PTL DEF Emu!Spec

(* ---- the record ---- *)
(* ------------------------------- the rows ------------------------------- *)
LEMMA RowFacts ==
  ASSUME Rec!Shapes
  PROVE  /\ rows \in Seq(Rec!Row) /\ Len(rows) \in Nat /\ DOMAIN rows = 1..Len(rows)
         /\ \A n \in 1..Len(rows) : rows[n] \in Rec!Row /\ rows[n].id \in Nat
         /\ scan.got \in Seq(Rec!Row) /\ Len(scan.got) \in Nat /\ DOMAIN scan.got = 1..Len(scan.got)
         /\ \A n \in 1..Len(scan.got) : scan.got[n] \in Rec!Row /\ scan.got[n].id \in Nat
         /\ scan.page \in Nat /\ scan.total \in Int /\ ids \in Nat
         /\ scan = [page |-> scan.page, got |-> scan.got, total |-> scan.total]
<1>1. rows \in Seq(Rec!Row) /\ ids \in Nat /\ scan \in [page : Nat, got : Seq(Rec!Row), total : Int]
  BY DEF Rec!Shapes
<1>2. scan.got \in Seq(Rec!Row) /\ scan.page \in Nat /\ scan.total \in Int
      /\ scan = [page |-> scan.page, got |-> scan.got, total |-> scan.total]
  BY <1>1
<1>3. \A S, q : q \in Seq(S) => Len(q) \in Nat /\ DOMAIN q = 1..Len(q) /\ \A n \in 1..Len(q) : q[n] \in S
  BY LenProperties
<1>4. \A r \in Rec!Row : r.id \in Nat
  BY DEF Rec!Row
<1> QED BY <1>1, <1>2, <1>3, <1>4

(* A row is added at either end, under a new id. *)
Grows ==
  /\ rows' \in Seq(Rec!Row) /\ Len(rows') = Len(rows) + 1
  /\ ids' = ids + 1 /\ Rec!Standing' = Rec!Standing \cup {ids + 1}
LEMMA AddedGrows ==
  ASSUME Rec!Shapes, NEW kind \in Rec!Kinds, Rec!Added(kind), ids' = ids + 1
  PROVE  Grows
<1> DEFINE e == [id |-> ids + 1, kind |-> kind]
<1>0. rows \in Seq(Rec!Row) /\ Len(rows) \in Nat /\ DOMAIN rows = 1..Len(rows) /\ e \in Rec!Row
      /\ e.id = ids + 1
  BY RowFacts DEF Rec!Row
<1>3. rows' = Append(rows, e) \/ rows' = <<e>> \o rows
  BY DEF Rec!Added
<1> HIDE DEF e
<1>1. CASE rows' = Append(rows, e)
  <2>1. /\ rows' \in Seq(Rec!Row) /\ Len(rows') = Len(rows) + 1 /\ rows'[Len(rows) + 1] = e
        /\ \A n \in 1..Len(rows) : rows'[n] = rows[n]
    BY <1>0, <1>1, AppendProperties
  <2>2. DOMAIN rows' = 1..(Len(rows) + 1)
    BY <2>1, LenProperties
  <2>3. Rec!Standing' = Rec!Standing \cup {ids + 1}
    BY <1>0, <2>1, <2>2 DEF Rec!Standing
  <2> QED BY <2>1, <2>3 DEF Grows
<1>2. CASE rows' = <<e>> \o rows
  <2>0. <<e>> \in Seq(Rec!Row) /\ Len(<<e>>) = 1 /\ <<e>>[1] = e
    BY <1>0
  <2>1. /\ rows' \in Seq(Rec!Row) /\ Len(rows') = Len(rows) + 1
        /\ \A n \in 1..(Len(rows) + 1) : rows'[n] = IF n <= 1 THEN <<e>>[n] ELSE rows[n - 1]
    BY <1>0, <1>2, <2>0, ConcatProperties
  <2>2. DOMAIN rows' = 1..(Len(rows) + 1)
    BY <2>1, LenProperties
  <2>3. rows'[1] = e /\ \A n \in 1..Len(rows) : rows'[n + 1] = rows[n]
    BY <1>0, <2>0, <2>1
  <2>4. \A n \in 2..(Len(rows) + 1) : rows'[n] = rows[n - 1]
    BY <1>0, <2>1
  <2>5. Rec!Standing' \subseteq Rec!Standing \cup {ids + 1}
    <3>1. ASSUME NEW n \in 1..(Len(rows) + 1) PROVE rows'[n].id \in Rec!Standing \cup {ids + 1}
      <4>1. CASE n = 1
        BY <1>0, <2>3, <4>1
      <4>2. CASE n # 1
        <5>1. n \in 2..(Len(rows) + 1) /\ n - 1 \in DOMAIN rows
          BY <1>0, <4>2
        <5>2. rows'[n].id = rows[n - 1].id
          BY <2>4, <5>1
        <5> QED BY <5>1, <5>2 DEF Rec!Standing
      <4> QED BY <4>1, <4>2
    <3> QED BY <2>2, <3>1 DEF Rec!Standing
  <2>6. Rec!Standing \cup {ids + 1} \subseteq Rec!Standing'
    <3>1. 1 \in DOMAIN rows' /\ \A n \in 1..Len(rows) : n + 1 \in DOMAIN rows'
      BY <1>0, <2>2
    <3> QED BY <1>0, <2>3, <3>1 DEF Rec!Standing
  <2> QED BY <2>1, <2>5, <2>6 DEF Grows
<1> QED BY <1>1, <1>2, <1>3

(* A row is removed, and no other. *)
LEMMA RemovedShrinks ==
  ASSUME Rec!Shapes, NEW n \in DOMAIN rows, rows' = Rec!RemoveAt(rows, n)
  PROVE  /\ rows' \in Seq(Rec!Row) /\ Len(rows') = Len(rows) - 1
         /\ Rec!Standing' \subseteq Rec!Standing /\ Rec!Standing \ {rows[n].id} \subseteq Rec!Standing'
<1> DEFINE a == SubSeq(rows, 1, n - 1)
           b == SubSeq(rows, n + 1, Len(rows))
<1>0. /\ rows \in Seq(Rec!Row) /\ Len(rows) \in Nat /\ DOMAIN rows = 1..Len(rows) /\ n \in 1..Len(rows)
      /\ \A m \in 1..Len(rows) : rows[m] \in Rec!Row
  BY RowFacts
<1>1. a \in Seq(Rec!Row) /\ Len(a) = n - 1 /\ \A m \in 1..n - 1 : a[m] = rows[m]
  <2>1. \A m \in 1..n - 1 : rows[m] \in Rec!Row
    BY <1>0
  <2>2. /\ a \in Seq(Rec!Row) /\ Len(a) = IF 1 <= n - 1 THEN n - 1 - 1 + 1 ELSE 0
        /\ \A m \in 1..n - 1 - 1 + 1 : a[m] = rows[1 + m - 1]
    BY <1>0, <2>1, SubSeqProperties
  <2> HIDE DEF a
  <2> QED BY <1>0, <2>2
<1>2. b \in Seq(Rec!Row) /\ Len(b) = Len(rows) - n /\ \A m \in 1..Len(rows) - n : b[m] = rows[n + m]
  <2>1. \A m \in n + 1..Len(rows) : rows[m] \in Rec!Row
    BY <1>0
  <2>2. /\ b \in Seq(Rec!Row) /\ Len(b) = IF n + 1 <= Len(rows) THEN Len(rows) - (n + 1) + 1 ELSE 0
        /\ \A m \in 1..Len(rows) - (n + 1) + 1 : b[m] = rows[n + 1 + m - 1]
    BY <1>0, <2>1, SubSeqProperties
  <2> HIDE DEF b
  <2>3. Len(b) = Len(rows) - n
    BY <1>0, <2>2
  <2>4. ASSUME NEW m \in 1..Len(rows) - n PROVE b[m] = rows[n + m]
    <3>1. m \in 1..Len(rows) - (n + 1) + 1 /\ n + 1 + m - 1 = n + m
      BY <1>0
    <3> QED BY <2>2, <3>1
  <2> QED BY <2>2, <2>3, <2>4
<1>3. rows' = a \o b
  BY DEF Rec!RemoveAt
<1> HIDE DEF a, b
<1>4. /\ rows' \in Seq(Rec!Row) /\ Len(rows') = Len(rows) - 1
      /\ \A m \in 1..Len(rows) - 1 : rows'[m] = IF m <= n - 1 THEN a[m] ELSE b[m - (n - 1)]
  <2>1. /\ a \o b \in Seq(Rec!Row) /\ Len(a \o b) = Len(a) + Len(b)
        /\ \A m \in 1..Len(a) + Len(b) : (a \o b)[m] = IF m <= Len(a) THEN a[m] ELSE b[m - Len(a)]
    BY <1>1, <1>2, ConcatProperties
  <2>2. Len(a) + Len(b) = Len(rows) - 1 /\ Len(a) = n - 1
    BY <1>0, <1>1, <1>2
  <2> QED BY <1>3, <2>1, <2>2, Zenon
<1>5. DOMAIN rows' = 1..Len(rows) - 1
  BY <1>4, LenProperties
<1>6. \A m \in 1..Len(rows) - 1 : rows'[m] = IF m < n THEN rows[m] ELSE rows[m + 1]
  <2> TAKE m \in 1..Len(rows) - 1
  <2>1. CASE m < n
    <3>1. m <= n - 1 /\ m \in 1..n - 1
      BY <1>0, <2>1
    <3> QED BY <1>1, <1>4, <2>1, <3>1
  <2>2. CASE m >= n
    <3>1. m - (n - 1) \in 1..Len(rows) - n /\ n + (m - (n - 1)) = m + 1 /\ ~(m <= n - 1)
      BY <1>0, <2>2
    <3>2. b[m - (n - 1)] = rows[m + 1]
      BY <1>2, <3>1
    <3>3. rows'[m] = b[m - (n - 1)] /\ ~(m < n)
      BY <1>0, <1>4, <2>2, <3>1
    <3> QED BY <3>2, <3>3
  <2> QED BY <1>0, <2>1, <2>2
<1>7. Rec!Standing' \subseteq Rec!Standing
  <2>1. ASSUME NEW m \in 1..Len(rows) - 1 PROVE rows'[m].id \in Rec!Standing
    <3>1. m \in DOMAIN rows /\ m + 1 \in DOMAIN rows
      BY <1>0
    <3>2. rows'[m] = rows[m] \/ rows'[m] = rows[m + 1]
      BY <1>6
    <3> QED BY <3>1, <3>2 DEF Rec!Standing
  <2> QED BY <1>5, <2>1, Zenon DEF Rec!Standing
<1>8. ASSUME NEW m \in 1..Len(rows), m # n PROVE rows[m].id \in Rec!Standing'
  <2>1. CASE m < n
    <3>1. m \in DOMAIN rows' /\ rows'[m] = rows[m]
      BY <1>0, <1>5, <1>6, <2>1
    <3> QED BY <3>1 DEF Rec!Standing
  <2>2. CASE m > n
    <3>1. m - 1 \in DOMAIN rows' /\ rows'[m - 1] = rows[m]
      BY <1>0, <1>5, <1>6, <2>2
    <3> QED BY <3>1 DEF Rec!Standing
  <2> QED BY <1>0, <1>8, <2>1, <2>2
<1>9. Rec!Standing \ {rows[n].id} \subseteq Rec!Standing'
  <2>1. \A id \in Rec!Standing \ {rows[n].id} : \E m \in 1..Len(rows) : m # n /\ id = rows[m].id
    BY <1>0 DEF Rec!Standing
  <2> QED BY <1>8, <2>1
<1> QED BY <1>4, <1>7, <1>9

(* A row is changed in its place. *)
LEMMA AlteredStays ==
  ASSUME Rec!Shapes, Rec!StaffAlter
  PROVE  /\ rows' \in Seq(Rec!Row) /\ Len(rows') = Len(rows) /\ Rec!Standing' = Rec!Standing
         /\ \A n \in DOMAIN rows : n \in DOMAIN rows' /\ rows'[n].id = rows[n].id
<1>0. rows \in Seq(Rec!Row) /\ Len(rows) \in Nat /\ DOMAIN rows = 1..Len(rows)
  BY RowFacts
<1>1. PICK n \in DOMAIN rows : rows[n].kind \in Rec!Ours /\ rows' = [rows EXCEPT ![n].kind = Rec!Altered(@)]
  BY DEF Rec!StaffAlter
<1> DEFINE e == [rows[n] EXCEPT !.kind = Rec!Altered(rows[n].kind)]
<1>2. e \in Rec!Row /\ e.id = rows[n].id
  <2>1. rows[n] \in Rec!Row /\ Rec!Altered(rows[n].kind) \in Rec!Kinds
    BY <1>0, RowFacts DEF Rec!Altered, Rec!Kinds
  <2> QED BY <2>1 DEF Rec!Row
<1>3. rows' = [rows EXCEPT ![n] = e]
  BY <1>1
<1> HIDE DEF e
<1>4. /\ rows' \in Seq(Rec!Row) /\ Len(rows') = Len(rows)
      /\ \A m \in 1..Len(rows) : rows'[m] = IF m = n THEN e ELSE rows[m]
  BY <1>0, <1>2, <1>3, ExceptSeq
<1>5. DOMAIN rows' = 1..Len(rows)
  BY <1>4, LenProperties
<1>6. \A m \in DOMAIN rows : m \in DOMAIN rows' /\ rows'[m].id = rows[m].id
  BY <1>0, <1>2, <1>4, <1>5
<1> QED BY <1>0, <1>4, <1>5, <1>6 DEF Rec!Standing

(* ------------------------------- the pages ------------------------------ *)
LEMMA MinFacts ==
  ASSUME NEW a \in Int, NEW b \in Int
  PROVE  Rec!Min({a, b}) \in {a, b} /\ Rec!Min({a, b}) <= b
<1> DEFINE x == IF a <= b THEN a ELSE b
<1>1. x \in {a, b} /\ \A y \in {a, b} : x <= y
  OBVIOUS
<1>2. \E z \in {a, b} : \A y \in {a, b} : z <= y
  BY <1>1
<1>3. Rec!Min({a, b}) \in {a, b} /\ \A y \in {a, b} : Rec!Min({a, b}) <= y
  BY <1>2, Zenon DEF Rec!Min
<1> QED BY <1>3

LEMMA PageFacts ==
  ASSUME Rec!Shapes, Page \in Nat
  PROVE  /\ Rec!PageOf(scan.page) \in Seq(Rec!Row)
         /\ \A m \in 1..Len(Rec!PageOf(scan.page)) :
              /\ scan.page * Page + m \in DOMAIN rows
              /\ Rec!PageOf(scan.page)[m] = rows[scan.page * Page + m]
<1> DEFINE lo == scan.page * Page
           hi == Rec!Min({(scan.page + 1) * Page, Len(rows)})
<1>0. /\ rows \in Seq(Rec!Row) /\ Len(rows) \in Nat /\ DOMAIN rows = 1..Len(rows)
      /\ \A m \in 1..Len(rows) : rows[m] \in Rec!Row
      /\ scan.page \in Nat
  BY RowFacts
<1>1. lo \in Nat /\ (scan.page + 1) * Page \in Nat
  BY <1>0
<1>2. hi \in Int /\ hi <= Len(rows)
  <2>1. (scan.page + 1) * Page \in Int /\ Len(rows) \in Int
    BY <1>0, <1>1
  <2>2. hi \in {(scan.page + 1) * Page, Len(rows)} /\ hi <= Len(rows)
    BY <2>1, MinFacts
  <2> QED BY <2>1, <2>2
<1>3. Rec!PageOf(scan.page) = SubSeq(rows, lo + 1, hi)
  BY DEF Rec!PageOf
<1> HIDE DEF lo, hi
<1>4. \A m \in lo + 1..hi : rows[m] \in Rec!Row
  BY <1>0, <1>1, <1>2
<1>5. /\ SubSeq(rows, lo + 1, hi) \in Seq(Rec!Row)
      /\ Len(SubSeq(rows, lo + 1, hi)) = IF lo + 1 <= hi THEN hi - (lo + 1) + 1 ELSE 0
      /\ \A m \in 1..hi - (lo + 1) + 1 : SubSeq(rows, lo + 1, hi)[m] = rows[lo + 1 + m - 1]
  BY <1>0, <1>1, <1>2, <1>4, SubSeqProperties
<1>6. ASSUME NEW m \in 1..Len(Rec!PageOf(scan.page))
      PROVE  lo + m \in DOMAIN rows /\ Rec!PageOf(scan.page)[m] = rows[lo + m]
  <2>1. lo + 1 <= hi /\ m \in 1..hi - (lo + 1) + 1
    BY <1>1, <1>2, <1>3, <1>5
  <2>2. lo + 1 + m - 1 = lo + m /\ lo + m \in 1..Len(rows)
    BY <1>0, <1>1, <1>2, <2>1
  <2> QED BY <1>0, <1>3, <1>5, <2>1, <2>2
<1> QED BY <1>3, <1>5, <1>6 DEF lo

LEMMA GotFacts ==
  ASSUME Rec!Shapes, Page \in Nat
  PROVE  /\ Rec!Got \in Seq(Rec!Row) /\ Len(Rec!Got) \in Nat /\ DOMAIN Rec!Got = 1..Len(Rec!Got)
         /\ Len(Rec!Got) = Len(scan.got) + Len(Rec!PageOf(scan.page)) /\ Len(Rec!PageOf(scan.page)) \in Nat
         /\ \A n \in 1..Len(scan.got) : Rec!Got[n] = scan.got[n]
         /\ \A n \in 1..Len(Rec!Got) : ~(n <= Len(scan.got)) =>
              /\ n - Len(scan.got) \in 1..Len(Rec!PageOf(scan.page))
              /\ Rec!Got[n] = Rec!PageOf(scan.page)[n - Len(scan.got)]
<1>0. scan.got \in Seq(Rec!Row) /\ Len(scan.got) \in Nat /\ Rec!PageOf(scan.page) \in Seq(Rec!Row)
      /\ Len(Rec!PageOf(scan.page)) \in Nat
  BY RowFacts, PageFacts, LenProperties
<1>1. Rec!Got = scan.got \o Rec!PageOf(scan.page)
  BY DEF Rec!Got
<1>2. /\ Rec!Got \in Seq(Rec!Row) /\ Len(Rec!Got) = Len(scan.got) + Len(Rec!PageOf(scan.page))
      /\ \A n \in 1..Len(scan.got) + Len(Rec!PageOf(scan.page)) :
           Rec!Got[n] = IF n <= Len(scan.got) THEN scan.got[n] ELSE Rec!PageOf(scan.page)[n - Len(scan.got)]
  BY <1>0, <1>1, ConcatProperties
<1>3. Len(Rec!Got) \in Nat /\ DOMAIN Rec!Got = 1..Len(Rec!Got)
  BY <1>2, LenProperties
<1>4. /\ \A n \in 1..Len(scan.got) : n \in 1..Len(scan.got) + Len(Rec!PageOf(scan.page)) /\ n <= Len(scan.got)
      /\ \A n \in 1..Len(Rec!Got) : ~(n <= Len(scan.got)) => n - Len(scan.got) \in 1..Len(Rec!PageOf(scan.page))
  <2>1. \A a, b \in Nat : /\ \A n \in 1..a : n \in 1..a + b /\ n <= a
                          /\ \A n \in 1..a + b : ~(n <= a) => n - a \in 1..b
    OBVIOUS
  <2>2. Len(scan.got) \in Nat /\ Len(Rec!PageOf(scan.page)) \in Nat
    BY <1>0
  <2> QED BY <1>2, <2>1, <2>2
<1>5. \A n \in 1..Len(scan.got) : Rec!Got[n] = scan.got[n]
  BY <1>2, <1>4
<1>6. \A n \in 1..Len(Rec!Got) : ~(n <= Len(scan.got)) => Rec!Got[n] = Rec!PageOf(scan.page)[n - Len(scan.got)]
  BY <1>2
<1> QED BY <1>0, <1>2, <1>3, <1>4, <1>5, <1>6

(* What was read stood on the record, now or at an earlier page. *)
LEMMA GotIsGiven ==
  ASSUME Rec!Shapes, Page \in Nat, NEW r \in Rec!ToSet(Rec!Got)
  PROVE  r \in Rec!Row /\ r.id \in Rec!ReadIds \cup Rec!Standing
<1>1. PICK n \in 1..Len(Rec!Got) : r = Rec!Got[n]
  BY GotFacts DEF Rec!ToSet
<1>2. CASE n <= Len(scan.got)
  <2>1. n \in 1..Len(scan.got)
    BY <1>2, RowFacts
  <2> QED BY <1>1, <2>1, GotFacts, RowFacts DEF Rec!ReadIds
<1>3. CASE ~(n <= Len(scan.got))
  <2>1. n - Len(scan.got) \in 1..Len(Rec!PageOf(scan.page)) /\ r = Rec!PageOf(scan.page)[n - Len(scan.got)]
    BY <1>1, <1>3, GotFacts
  <2>2. \E m \in DOMAIN rows : r = rows[m]
    BY <2>1, PageFacts
  <2> QED BY <2>2, RowFacts DEF Rec!Standing
<1> QED BY <1>2, <1>3

(* Pages whose rows are in their places make a scan whose rows are.         *)
LEMMA GotInPlace ==
  ASSUME Rec!Shapes, Page \in Nat, Len(scan.got) = scan.page * Page, Rec!InPlace
  PROVE  \A n \in DOMAIN Rec!Got : n \in DOMAIN rows /\ Rec!Got[n].id = rows[n].id
<1> SUFFICES ASSUME NEW n \in DOMAIN Rec!Got
             PROVE  n \in DOMAIN rows /\ Rec!Got[n].id = rows[n].id
  OBVIOUS
<1>0. n \in 1..Len(Rec!Got) /\ n \in Nat /\ Len(scan.got) \in Nat /\ DOMAIN scan.got = 1..Len(scan.got)
  BY GotFacts, RowFacts
<1>1. CASE n <= Len(scan.got)
  <2>1. n \in DOMAIN scan.got
    BY <1>0, <1>1
  <2> QED BY <1>0, <2>1, GotFacts DEF Rec!InPlace
<1>2. CASE ~(n <= Len(scan.got))
  <2>1. n - Len(scan.got) \in 1..Len(Rec!PageOf(scan.page))
        /\ Rec!Got[n] = Rec!PageOf(scan.page)[n - Len(scan.got)]
    BY <1>0, <1>2, GotFacts
  <2>2. scan.page * Page + (n - Len(scan.got)) \in DOMAIN rows
        /\ Rec!Got[n] = rows[scan.page * Page + (n - Len(scan.got))]
    BY <2>1, PageFacts
  <2>3. scan.page * Page + (n - Len(scan.got)) = n
    BY <1>0
  <2> QED BY <2>2, <2>3
<1> QED BY <1>1, <1>2

(* -------------------- steps of the staff and the provider --------------- *)
Churns == [began : SUBSET Nat, stood : SUBSET Nat, added : BOOLEAN, removed : BOOLEAN]
LEMMA ChurnUpdates ==
  ASSUME NEW c \in Churns
  PROVE  /\ LET d == [c EXCEPT !.added = TRUE]
            IN  d \in Churns /\ d.added /\ d.removed = c.removed /\ d.began = c.began /\ d.stood = c.stood
         /\ \A id : LET d == [c EXCEPT !.removed = TRUE, !.stood = @ \ {id}]
                    IN  d \in Churns /\ d.removed /\ d.added = c.added /\ d.began = c.began
                        /\ d.stood = c.stood \ {id}
  BY DEF Churns

Bystander == UNCHANGED <<call, scan, proof, doubt, asked, blind, slipped>>

(* The total the scan was told gives an added row away.                     *)
LEMMA AddedStep ==
  ASSUME Rec!RecordInv, Grows, late' \subseteq Rec!Ours, churn' = [churn EXCEPT !.added = TRUE], Bystander
  PROVE  Rec!RecordInv'
<1>0. /\ Rec!Shapes /\ Rec!IdsAreGiven /\ Rec!ScanFollows /\ Rec!AskedIsKnown /\ Rec!DocumentStood
      /\ Rec!WrittenOnce
      /\ Rec!NoticeHasDocument
  BY DEF Rec!RecordInv
<1>1. /\ rows' \in Seq(Rec!Row) /\ Len(rows') = Len(rows) + 1 /\ ids' = ids + 1
      /\ Rec!Standing' = Rec!Standing \cup {ids + 1} /\ ids \in Nat /\ ids' \in Nat /\ Len(rows) \in Nat
  BY <1>0, RowFacts DEF Grows
<1>2. /\ churn' \in Churns /\ churn'.added /\ churn'.removed = churn.removed
      /\ churn'.began = churn.began /\ churn'.stood = churn.stood
  BY <1>0, ChurnUpdates DEF Rec!Shapes, Churns
<1>3. Rec!ReadIds' = Rec!ReadIds /\ Rec!Scanning' = Rec!Scanning
  BY DEF Bystander, Rec!ReadIds, Rec!Scanning
<1>4. Rec!Shapes'
  BY <1>0, <1>1, <1>2 DEF Rec!Shapes, Bystander, Churns
<1>5. Rec!IdsAreGiven'
  <2>1. \A id \in (Rec!Standing \cup {ids + 1}) \cup Rec!ReadIds : id \in 1..ids + 1
    BY <1>0, <1>1 DEF Rec!IdsAreGiven
  <2>2. \A op \in Rec!Ours : proof[op] <= ids + 1
    BY <1>0, <1>1 DEF Rec!IdsAreGiven, Rec!Shapes
  <2> QED BY <1>1, <1>3, <2>1, <2>2 DEF Rec!IdsAreGiven, Bystander
<1>6. Rec!ScanFollows'
  <2>1. churn'.stood \subseteq Rec!Standing'
    BY <1>0, <1>1, <1>2 DEF Rec!ScanFollows
  <2>2. ASSUME Rec!Scanning
        PROVE  /\ Len(scan.got) = scan.page * Page
               /\ scan.page = 0 <=> scan.total = -1
               /\ scan.page > 0 => /\ ~churn.removed => scan.total <= Len(rows) + 1
                                   /\ ~churn.removed => scan.total # Len(rows) + 1
    BY <1>0, <1>1, <2>2, RowFacts DEF Rec!ScanFollows
  <2> QED BY <1>1, <1>2, <1>3, <2>1, <2>2 DEF Rec!ScanFollows, Bystander
<1>7. Rec!AskedIsKnown' /\ Rec!WrittenOnce' /\ Rec!NoticeHasDocument'
  BY <1>0 DEF Rec!AskedIsKnown, Rec!WrittenOnce, Rec!NoticeHasDocument, Bystander
<1>8. Rec!DocumentStood'
  <2>1. proof["document"] # ids + 1
    BY <1>0, <1>1 DEF Rec!IdsAreGiven, Rec!Shapes, Rec!Ours
  <2> QED BY <1>0, <1>1, <1>2, <1>3, <2>1 DEF Rec!DocumentStood, Bystander
<1> QED BY <1>4, <1>5, <1>6, <1>7, <1>8 DEF Rec!RecordInv

(* And it gives a removed row away.                                         *)
LEMMA RemovedStep ==
  ASSUME Rec!RecordInv, Rec!StaffRemove
  PROVE  Rec!RecordInv'
<1>0. /\ Rec!Shapes /\ Rec!IdsAreGiven /\ Rec!ScanFollows /\ Rec!AskedIsKnown /\ Rec!DocumentStood
      /\ Rec!WrittenOnce
      /\ Rec!NoticeHasDocument /\ Bystander /\ UNCHANGED <<ids, late>>
  BY DEF Rec!RecordInv, Rec!StaffRemove, Rec!Acts, Bystander
<1>1. PICK n \in DOMAIN rows : /\ rows' = Rec!RemoveAt(rows, n)
                               /\ churn' = [churn EXCEPT !.removed = TRUE, !.stood = @ \ {rows[n].id}]
  BY DEF Rec!StaffRemove
<1>2. /\ rows' \in Seq(Rec!Row) /\ Len(rows') = Len(rows) - 1 /\ Len(rows) \in Nat
      /\ Rec!Standing' \subseteq Rec!Standing /\ Rec!Standing \ {rows[n].id} \subseteq Rec!Standing'
  BY <1>0, <1>1, RemovedShrinks, RowFacts
<1>3. /\ churn' \in Churns /\ churn'.removed /\ churn'.added = churn.added
      /\ churn'.began = churn.began /\ churn'.stood = churn.stood \ {rows[n].id}
  BY <1>0, <1>1, ChurnUpdates DEF Rec!Shapes, Churns
<1>4. Rec!ReadIds' = Rec!ReadIds /\ Rec!Scanning' = Rec!Scanning
  BY <1>0 DEF Bystander, Rec!ReadIds, Rec!Scanning
<1>5. Rec!Shapes'
  BY <1>0, <1>2, <1>3 DEF Rec!Shapes, Bystander, Churns
<1>6. Rec!IdsAreGiven'
  BY <1>0, <1>2, <1>4 DEF Rec!IdsAreGiven, Bystander
<1>7. Rec!ScanFollows'
  <2>1. churn'.stood \subseteq Rec!Standing'
    BY <1>0, <1>2, <1>3 DEF Rec!ScanFollows
  <2>2. ASSUME Rec!Scanning
        PROVE  /\ Len(scan.got) = scan.page * Page
               /\ scan.page = 0 <=> scan.total = -1
               /\ scan.page > 0 => /\ ~churn.added => Len(rows) - 1 <= scan.total
                                   /\ ~churn.added => scan.total # Len(rows) - 1
    BY <1>0, <1>2, <2>2, RowFacts DEF Rec!ScanFollows
  <2> QED BY <1>0, <1>2, <1>3, <1>4, <2>1, <2>2 DEF Rec!ScanFollows, Bystander
<1>8. Rec!AskedIsKnown' /\ Rec!WrittenOnce' /\ Rec!NoticeHasDocument'
  BY <1>0 DEF Rec!AskedIsKnown, Rec!WrittenOnce, Rec!NoticeHasDocument, Bystander
<1>9. Rec!DocumentStood'
  BY <1>0, <1>2, <1>3, <1>4 DEF Rec!DocumentStood, Bystander
<1> QED BY <1>5, <1>6, <1>7, <1>8, <1>9 DEF Rec!RecordInv

LEMMA AlteredStep ==
  ASSUME Rec!RecordInv, Rec!StaffAlter
  PROVE  Rec!RecordInv'
<1>0. /\ Rec!Shapes /\ Rec!IdsAreGiven /\ Rec!ScanFollows /\ Rec!AskedIsKnown /\ Rec!DocumentStood
      /\ Rec!WrittenOnce
      /\ Rec!NoticeHasDocument /\ Bystander /\ UNCHANGED <<ids, late, churn>>
  BY DEF Rec!RecordInv, Rec!StaffAlter, Rec!Acts, Bystander
<1>1. /\ rows' \in Seq(Rec!Row) /\ Len(rows') = Len(rows) /\ Rec!Standing' = Rec!Standing
      /\ \A n \in DOMAIN rows : n \in DOMAIN rows' /\ rows'[n].id = rows[n].id
  BY <1>0, AlteredStays
<1>2. Rec!ReadIds' = Rec!ReadIds /\ Rec!Scanning' = Rec!Scanning
  BY <1>0 DEF Bystander, Rec!ReadIds, Rec!Scanning
<1>3. Rec!InPlace => Rec!InPlace'
  BY <1>0, <1>1 DEF Rec!InPlace, Bystander
<1>4. Rec!Shapes'
  BY <1>0, <1>1 DEF Rec!Shapes, Bystander
<1>5. Rec!IdsAreGiven'
  BY <1>0, <1>1, <1>2 DEF Rec!IdsAreGiven, Bystander
<1>6. Rec!ScanFollows'
  BY <1>0, <1>1, <1>2, <1>3 DEF Rec!ScanFollows, Bystander
<1>7. Rec!AskedIsKnown' /\ Rec!WrittenOnce' /\ Rec!NoticeHasDocument'
  BY <1>0 DEF Rec!AskedIsKnown, Rec!WrittenOnce, Rec!NoticeHasDocument, Bystander
<1>8. Rec!DocumentStood'
  BY <1>0, <1>1, <1>2 DEF Rec!DocumentStood, Bystander
<1> QED BY <1>4, <1>5, <1>6, <1>7, <1>8 DEF Rec!RecordInv

LEMMA OutsideStep ==
  ASSUME Rec!RecordInv, Rec!Staff \/ Rec!Arrives
  PROVE  Rec!RecordInv'
<1>0. Rec!Shapes
  BY DEF Rec!RecordInv
<1>1. CASE Rec!StaffAdd
  <2>1. Grows
    BY <1>0, <1>1, AddedGrows DEF Rec!StaffAdd, Rec!Kinds
  <2> QED BY <1>0, <1>1, <2>1, AddedStep DEF Rec!StaffAdd, Rec!Acts, Bystander, Rec!Shapes
<1>2. CASE Rec!Arrives
  <2>1. PICK op \in late : late' = late \ {op} /\ Rec!Added(op)
    BY <1>2 DEF Rec!Arrives
  <2>2. op \in Rec!Kinds /\ late' \subseteq Rec!Ours
    BY <1>0, <2>1 DEF Rec!Shapes, Rec!Kinds
  <2>3. Grows
    BY <1>0, <1>2, <2>1, <2>2, AddedGrows DEF Rec!Arrives
  <2> QED BY <1>2, <2>2, <2>3, AddedStep DEF Rec!Arrives, Bystander, Rec!history
<1>3. CASE Rec!StaffRelink
  BY <1>3 DEF Rec!StaffRelink, Rec!Acts, Rec!RecordInv, Rec!Shapes, Rec!IdsAreGiven, Rec!Standing,
    Rec!ReadIds, Rec!ScanFollows, Rec!Scanning, Rec!InPlace, Rec!AskedIsKnown, Rec!DocumentStood,
    Rec!WrittenOnce, Rec!NoticeHasDocument
<1> QED BY <1>1, <1>2, <1>3, RemovedStep, AlteredStep DEF Rec!Staff

(* -------------------------- steps of the gateway ------------------------ *)
Calls == [op : Rec!Ours \cup {"none"}, phase : Rec!Phases, look : BOOLEAN, try : Int]
Scans == [page : Nat, got : Seq(Rec!Row), total : Int]

LEMMA NothingRead ==
  ASSUME scan' = Rec!NoScan
  PROVE  scan' \in Scans /\ Rec!ReadIds' = {} /\ Len(scan'.got) = 0 /\ scan'.page = 0 /\ scan'.total = -1
<1>1. scan'.got = <<>> /\ scan'.page = 0 /\ scan'.total = -1 /\ scan' = [page |-> 0, got |-> <<>>, total |-> -1]
  BY DEF Rec!NoScan
<1>2. <<>> \in Seq(Rec!Row) /\ Len(<<>>) = 0 /\ DOMAIN <<>> = {}
  OBVIOUS
<1>3. scan' \in Scans
  BY <1>1, <1>2 DEF Scans
<1> QED BY <1>1, <1>2, <1>3 DEF Rec!ReadIds

LEMMA CallUpdates ==
  ASSUME NEW c \in Calls, NEW phase \in Rec!Phases
  PROVE  /\ [c EXCEPT !.phase = phase] \in Calls
         /\ [c EXCEPT !.phase = phase].phase = phase
         /\ [c EXCEPT !.phase = phase].op = c.op /\ [c EXCEPT !.phase = phase].look = c.look
         /\ \A try \in Int : LET d == [c EXCEPT !.phase = phase, !.try = try]
                             IN  d \in Calls /\ d.phase = phase /\ d.op = c.op /\ d.look = c.look
         /\ c.try \in Int
  BY DEF Calls

(* A call that ends leaves nothing under way; what it knows it has noted.   *)
LEMMA EndsStep ==
  ASSUME Rec!RecordInv, UNCHANGED <<Rec!provider, churn, asked, blind>>, slipped => slipped',
         NEW op \in Rec!Ours, NEW outcome, Rec!Ends(outcome, op), call.op = op,
         proof' \in [Rec!Ours -> Nat], \A o \in Rec!Ours : proof'[o] <= ids /\ (o # op => proof'[o] = proof[o]),
         asked[op] > 0 /\ ~slipped' => proof'[op] # 0 \/ doubt[op] \/ outcome = "uncertain"
  PROVE  Rec!RecordInv'
<1>0. /\ Rec!Shapes /\ Rec!IdsAreGiven /\ Rec!ScanFollows /\ Rec!AskedIsKnown /\ Rec!DocumentStood
      /\ Rec!WrittenOnce
      /\ Rec!NoticeHasDocument /\ UNCHANGED <<rows, ids, late, churn, asked, blind>>
  BY DEF Rec!RecordInv, Rec!provider
<1>1. call' = Rec!Idle /\ scan' = Rec!NoScan /\ doubt' = [doubt EXCEPT ![op] = @ \/ outcome = "uncertain"]
  BY DEF Rec!Ends
<1>2. scan' \in Scans /\ Rec!ReadIds' = {} /\ Rec!Standing' = Rec!Standing
  BY <1>0, <1>1, NothingRead DEF Rec!Standing
<1>3. call' \in Calls /\ call'.phase = "idle" /\ call'.op = "none"
  BY <1>1 DEF Rec!Idle, Calls, Rec!Phases
<1>4. doubt' \in [Rec!Ours -> BOOLEAN]
      /\ \A o \in Rec!Ours : doubt'[o] <=> doubt[o] \/ (o = op /\ outcome = "uncertain")
  BY <1>0, <1>1 DEF Rec!Shapes
<1>5. Rec!Shapes'
  BY <1>0, <1>2, <1>3, <1>4 DEF Rec!Shapes, Calls, Scans
<1>6. Rec!IdsAreGiven'
  BY <1>0, <1>2 DEF Rec!IdsAreGiven
<1>7. Rec!ScanFollows' /\ Rec!DocumentStood'
  BY <1>0, <1>2, <1>3 DEF Rec!ScanFollows, Rec!DocumentStood, Rec!Scanning
<1>8. Rec!AskedIsKnown'
  BY <1>0, <1>3, <1>4 DEF Rec!AskedIsKnown
<1>9. Rec!WrittenOnce' /\ Rec!NoticeHasDocument'
  BY <1>0 DEF Rec!WrittenOnce, Rec!NoticeHasDocument
<1> QED BY <1>5, <1>6, <1>7, <1>8, <1>9 DEF Rec!RecordInv

LEMMA UnknownIsNotAsked ==
  ASSUME Rec!RecordInv, call.phase \in {"identity", "before", "write"}
  PROVE  call.op \in Rec!Ours /\ (asked[call.op] > 0 /\ ~slipped => proof[call.op] # 0 \/ doubt[call.op])
  BY DEF Rec!RecordInv, Rec!Shapes, Rec!AskedIsKnown

LEMMA ProofStays ==
  ASSUME Rec!RecordInv, UNCHANGED proof
  PROVE  proof' \in [Rec!Ours -> Nat] /\ \A o \in Rec!Ours : proof'[o] <= ids /\ proof'[o] = proof[o]
  BY DEF Rec!RecordInv, Rec!Shapes, Rec!IdsAreGiven

LEMMA ProvedGiven ==
  ASSUME Rec!RecordInv, Page \in Nat, NEW op \in Rec!Ours, Rec!Proves(op), proof' = Rec!ProvedRow(op)
  PROVE  /\ proof' \in [Rec!Ours -> Nat] /\ proof'[op] # 0
         /\ \A o \in Rec!Ours : proof'[o] <= ids /\ (o # op => proof'[o] = proof[o])
<1> DEFINE r == CHOOSE r \in Rec!Of(op) : TRUE
<1>1. r \in Rec!Of(op)
  BY DEF Rec!Proves
<1>2. r \in Rec!ToSet(Rec!Got)
  BY <1>1 DEF Rec!Of
<1>3. Rec!Shapes /\ Rec!IdsAreGiven /\ proof' = [proof EXCEPT ![op] = r.id]
  BY DEF Rec!RecordInv, Rec!ProvedRow
<1> HIDE DEF r
<1>4. r.id \in 1..ids /\ ids \in Nat
  BY <1>2, <1>3, GotIsGiven, RowFacts DEF Rec!IdsAreGiven
<1> QED BY <1>3, <1>4 DEF Rec!Shapes, Rec!IdsAreGiven

LEMMA ReadPageStep ==
  ASSUME Rec!RecordInv, Page \in Nat, Rec!ReadPage
  PROVE  Rec!RecordInv'
<1>0. /\ Rec!Shapes /\ Rec!IdsAreGiven /\ Rec!ScanFollows /\ Rec!AskedIsKnown /\ Rec!DocumentStood
      /\ Rec!WrittenOnce
      /\ Rec!NoticeHasDocument
      /\ UNCHANGED <<rows, ids, late, call, churn, proof, doubt, asked, blind, slipped>>
      /\ scan' = [page |-> scan.page + 1, got |-> Rec!Got, total |-> Len(rows)]
      /\ Rec!Scanning /\ ~Rec!Broken /\ ~Rec!Whole
  BY DEF Rec!RecordInv, Rec!ReadPage, Rec!provider, Rec!history
<1>1. /\ scan.page \in Nat /\ scan.total \in Int /\ Len(rows) \in Nat /\ Len(scan.got) \in Nat
      /\ Rec!Got \in Seq(Rec!Row) /\ Len(Rec!Got) \in Nat
      /\ Len(Rec!Got) = Len(scan.got) + Len(Rec!PageOf(scan.page))
  BY <1>0, RowFacts, GotFacts
<1>2. scan' \in Scans /\ scan'.page = scan.page + 1 /\ scan'.got = Rec!Got /\ scan'.total = Len(rows)
  BY <1>0, <1>1 DEF Scans
<1>3. Len(Rec!PageOf(scan.page)) = Page /\ (scan.page > 0 => scan.total = Len(rows))
  <2>1. ~(Len(Rec!Got) > Len(rows)) /\ Len(Rec!Got) # Len(rows) /\ ~Rec!Changed
    BY <1>0 DEF Rec!Broken, Rec!Whole
  <2>2. Len(Rec!Got) < Len(rows)
    <3>1. \A a, b \in Nat : ~(a > b) /\ a # b => a < b
      OBVIOUS
    <3>2. Len(Rec!Got) \in Nat /\ Len(rows) \in Nat
      BY <1>1
    <3> QED BY <2>1, <3>1, <3>2
  <2>3. Len(Rec!PageOf(scan.page)) = Page
    BY <1>0, <2>2 DEF Rec!Broken
  <2>4. scan.page > 0 => scan.total # -1
    BY <1>0, <1>1 DEF Rec!ScanFollows
  <2> QED BY <2>1, <2>3, <2>4 DEF Rec!Changed
<1>4. Rec!Standing' = Rec!Standing /\ Rec!Scanning' = Rec!Scanning
  BY <1>0 DEF Rec!Standing, Rec!Scanning
<1>5. Rec!ReadIds' \subseteq Rec!ReadIds \cup Rec!Standing
  <2>1. \A n \in DOMAIN Rec!Got : Rec!Got[n] \in Rec!ToSet(Rec!Got)
    BY DEF Rec!ToSet
  <2>2. Rec!ReadIds' = {Rec!Got[n].id : n \in DOMAIN Rec!Got}
    BY <1>2 DEF Rec!ReadIds
  <2> QED BY <1>0, <2>1, <2>2, GotIsGiven
<1>6. Rec!Shapes'
  BY <1>0, <1>2 DEF Rec!Shapes, Scans
<1>7. Rec!IdsAreGiven'
  BY <1>0, <1>4, <1>5 DEF Rec!IdsAreGiven
<1>8. Rec!ScanFollows'
  <2>1. Len(Rec!Got) = (scan.page + 1) * Page
    <3>1. Len(scan.got) = scan.page * Page
      BY <1>0 DEF Rec!ScanFollows
    <3> QED BY <1>1, <1>3, <3>1
  <2>2. ~(churn.added /\ churn.removed) => Rec!InPlace'
    <3>1. ASSUME ~(churn.added /\ churn.removed) PROVE Rec!InPlace
      <4>1. CASE scan.page = 0
        <5>1. scan.page * Page = 0
          BY <4>1
        <5>2. Len(scan.got) = 0 /\ DOMAIN scan.got = 1..Len(scan.got)
          BY <1>0, <5>1, RowFacts DEF Rec!ScanFollows
        <5> QED BY <5>2 DEF Rec!InPlace
      <4>2. CASE scan.page > 0
        BY <1>0, <1>3, <3>1, <4>2 DEF Rec!ScanFollows
      <4> QED BY <1>1, <4>1, <4>2
    <3>2. Len(scan.got) = scan.page * Page
      BY <1>0 DEF Rec!ScanFollows
    <3>3. Rec!InPlace => \A n \in DOMAIN Rec!Got : n \in DOMAIN rows /\ Rec!Got[n].id = rows[n].id
      BY <1>0, <3>2, GotInPlace
    <3> QED BY <1>0, <1>2, <3>1, <3>3 DEF Rec!InPlace
  <2>3. scan'.page > 0 /\ scan'.page # 0 /\ scan'.total # -1 /\ scan'.total = Len(rows')
        /\ Len(scan'.got) = scan'.page * Page
    BY <1>0, <1>1, <1>2, <2>1
  <2>4. churn'.stood \subseteq Rec!Standing' /\ Len(rows') \in Nat
    BY <1>0, <1>1, <1>4 DEF Rec!ScanFollows
  <2> QED BY <1>0, <2>2, <2>3, <2>4 DEF Rec!ScanFollows
<1>9. Rec!AskedIsKnown' /\ Rec!WrittenOnce' /\ Rec!NoticeHasDocument'
  BY <1>0 DEF Rec!AskedIsKnown, Rec!WrittenOnce, Rec!NoticeHasDocument
<1>10. Rec!DocumentStood'
  BY <1>0, <1>4, <1>5 DEF Rec!DocumentStood
<1> QED BY <1>6, <1>7, <1>8, <1>9, <1>10 DEF Rec!RecordInv

(* The record is read whole before the gateway decides.  It writes only if  *)
(* no write of its kind may have gone out, and only a notice whose document *)
(* it has just read.                                                        *)
LEMMA DecideStep ==
  ASSUME Rec!RecordInv, Page \in Nat, Rec!Decide
  PROVE  Rec!RecordInv'
<1>0. /\ call.phase = "before" /\ UNCHANGED <<Rec!provider, churn, asked, blind, slipped>>
      /\ call.op \in Rec!Ours /\ (asked[call.op] > 0 /\ ~slipped => proof[call.op] # 0 \/ doubt[call.op])
  BY UnknownIsNotAsked DEF Rec!Decide
<1>1. ASSUME NEW outcome, Rec!Ends(outcome, call.op), UNCHANGED proof
      PROVE  Rec!RecordInv'
  BY <1>0, <1>1, EndsStep, ProofStays
<1>2. ASSUME Rec!Proves(call.op), Rec!Ends("proved", call.op), proof' = Rec!ProvedRow(call.op)
      PROVE  Rec!RecordInv'
  BY <1>0, <1>2, EndsStep, ProvedGiven
<1>3. ASSUME ~Rec!Refuses, Rec!MayWrite, call' = [call EXCEPT !.phase = "write"], UNCHANGED <<scan, doubt,
             proof>>
      PROVE  Rec!RecordInv'
  <2>0. /\ Rec!Shapes /\ Rec!IdsAreGiven /\ Rec!ScanFollows /\ Rec!AskedIsKnown /\ Rec!DocumentStood
        /\ Rec!WrittenOnce
        /\ Rec!NoticeHasDocument
        /\ UNCHANGED <<rows, ids, late, churn, asked, blind, slipped, scan, doubt, proof>>
    BY <1>0, <1>3 DEF Rec!RecordInv, Rec!provider
  <2>1. call' \in Calls /\ call'.phase = "write" /\ call'.op = call.op /\ call'.look = call.look
    <3>1. call \in Calls
      BY <2>0 DEF Rec!Shapes, Calls
    <3>2. "write" \in Rec!Phases
      BY DEF Rec!Phases
    <3>3. call' = [call EXCEPT !.phase = "write"]
      BY <1>3
    <3> QED BY <3>1, <3>2, <3>3, CallUpdates
  <2>2. Rec!Standing' = Rec!Standing /\ Rec!ReadIds' = Rec!ReadIds
    BY <2>0 DEF Rec!Standing, Rec!ReadIds
  <2>3. Rec!Shapes'
    BY <1>0, <2>0, <2>1 DEF Rec!Shapes, Calls
  <2>4. Rec!IdsAreGiven' /\ Rec!ScanFollows' /\ Rec!WrittenOnce' /\ Rec!NoticeHasDocument'
    BY <2>0, <2>1, <2>2 DEF Rec!IdsAreGiven, Rec!ScanFollows, Rec!Scanning, Rec!WrittenOnce,
      Rec!NoticeHasDocument
  <2>5. Rec!AskedIsKnown'
    BY <1>0, <1>3, <2>0, <2>1 DEF Rec!AskedIsKnown, Rec!MayWrite
  <2>6. call.op = "notice" => proof["document"] \in churn.began
    <3> SUFFICES ASSUME call.op = "notice" PROVE proof["document"] \in churn.began
      OBVIOUS
    <3>1. PICK r \in Rec!Of("document") : r.id = proof["document"]
      BY <1>3 DEF Rec!Refuses, Rec!Stale
    <3>2. r.id \in Rec!ReadIds \cup Rec!Standing
      BY <2>0, GotIsGiven DEF Rec!Of
    <3> QED BY <1>0, <2>0, <3>1, <3>2 DEF Rec!DocumentStood
  <2>7. Rec!DocumentStood'
    BY <2>0, <2>1, <2>6 DEF Rec!DocumentStood
  <2> QED BY <2>3, <2>4, <2>5, <2>7 DEF Rec!RecordInv
<1>4. CASE Rec!Broken /\ Rec!Ends("failed", call.op) /\ UNCHANGED proof
  BY <1>1, <1>4
<1>5. CASE /\ Rec!Whole /\ Rec!Refuses /\ UNCHANGED proof
           /\ Rec!Ends(IF Rec!Stale /\ ~Rec!Duplicate("document") THEN "failed" ELSE "uncertain", call.op)
  BY <1>1, <1>5
<1>6. CASE /\ Rec!Whole /\ ~Rec!Refuses /\ Rec!Proves(call.op)
           /\ Rec!Ends("proved", call.op) /\ proof' = Rec!ProvedRow(call.op)
  BY <1>2, <1>6
<1>7. CASE /\ Rec!Whole /\ ~Rec!Refuses /\ Rec!Of(call.op) = {} /\ UNCHANGED proof
           /\ IF Rec!MayWrite THEN call' = [call EXCEPT !.phase = "write"] /\ UNCHANGED <<scan, doubt>>
              ELSE Rec!Ends("uncertain", call.op)
  BY <1>1, <1>3, <1>7
<1> QED BY <1>4, <1>5, <1>6, <1>7 DEF Rec!Decide

(* A request goes out, and is remembered as one that may have.              *)
LEMMA WriteStep ==
  ASSUME Rec!RecordInv, Rec!Write
  PROVE  Rec!RecordInv'
<1>0. /\ Rec!Shapes /\ Rec!IdsAreGiven /\ Rec!ScanFollows /\ Rec!AskedIsKnown /\ Rec!DocumentStood
      /\ Rec!WrittenOnce
      /\ Rec!NoticeHasDocument /\ UNCHANGED <<churn, proof, slipped, doubt>>
      /\ call.phase = "write" /\ call.op \in Rec!Ours /\ scan' = Rec!NoScan
      /\ call' = [call EXCEPT !.phase = "again", !.try = 1]
  BY UnknownIsNotAsked DEF Rec!RecordInv, Rec!Write, Rec!AfterWrite
<1>1. call' \in Calls /\ call'.phase = "again" /\ call'.op = call.op
  <2>1. call \in Calls /\ "again" \in Rec!Phases /\ 1 \in Int
    BY <1>0 DEF Rec!Shapes, Calls, Rec!Phases
  <2>2. LET d == [call EXCEPT !.phase = "again", !.try = 1]
        IN  d \in Calls /\ d.phase = "again" /\ d.op = call.op
    BY <2>1 DEF Calls
  <2> QED BY <1>0, <2>2
<1>2. scan' \in Scans /\ Rec!ReadIds' = {}
  BY <1>0, NothingRead
<1>3. /\ rows' \in Seq(Rec!Row) /\ ids' \in Nat /\ ids \in Nat /\ ids' >= ids /\ late' \subseteq Rec!Ours
      /\ Rec!Standing \subseteq Rec!Standing' /\ Rec!Standing' \subseteq Rec!Standing \cup {ids'}
      /\ ids' = ids => Rec!Standing' = Rec!Standing
  <2>1. CASE Rec!Applies
    <3>1. Grows /\ late' = late
      BY <1>0, <2>1, AddedGrows DEF Rec!Applies, Rec!Kinds
    <3>2. ids \in Nat /\ ids' = ids + 1 /\ rows' \in Seq(Rec!Row) /\ late \subseteq Rec!Ours
      BY <1>0, <3>1 DEF Grows, Rec!Shapes
    <3>3. ids' \in Nat /\ ids' >= ids /\ ids' # ids
      BY <3>2
    <3>4. Rec!Standing' = Rec!Standing \cup {ids'}
      BY <1>0, <3>1, <3>2, RowFacts DEF Grows, Rec!Shapes
    <3> HIDE DEF Grows
    <3> QED BY <3>1, <3>2, <3>3, <3>4
  <2>2. CASE UNCHANGED <<rows, ids>> /\ late' \in {late, late \cup {call.op}}
    BY <1>0, <2>2 DEF Rec!Shapes, Rec!Standing
  <2> QED BY <2>1, <2>2 DEF Rec!Write, Rec!Lost, Rec!Delayed, Rec!provider
<1>4. asked' = [asked EXCEPT ![call.op] = @ + 1] /\ ~blind'
  BY <1>0 DEF Rec!Write, Rec!Ask, Rec!DocumentStood, Rec!NoticeHasDocument
<1>5. /\ asked' \in [Rec!Ours -> Nat]
      /\ \A o \in Rec!Ours : asked'[o] = IF o = call.op THEN asked[o] + 1 ELSE asked[o]
  BY <1>0, <1>4 DEF Rec!Shapes
<1>6. asked[call.op] = 0 \/ slipped
  BY <1>0 DEF Rec!AskedIsKnown
<1>7. Rec!Shapes'
  BY <1>0, <1>1, <1>2, <1>3, <1>5 DEF Rec!Shapes, Calls, Scans
<1>8. Rec!IdsAreGiven'
  <2>1. \A id \in Rec!Standing' : id \in 1..ids'
    BY <1>0, <1>3 DEF Rec!IdsAreGiven
  <2>2. \A o \in Rec!Ours : proof[o] <= ids'
    BY <1>0, <1>3 DEF Rec!IdsAreGiven, Rec!Shapes
  <2> QED BY <1>0, <1>2, <2>1, <2>2 DEF Rec!IdsAreGiven
<1>9. Rec!ScanFollows' /\ Rec!DocumentStood'
  BY <1>0, <1>1, <1>3 DEF Rec!ScanFollows, Rec!DocumentStood, Rec!Scanning
<1>10. Rec!AskedIsKnown'
  BY <1>0, <1>1, <1>5 DEF Rec!AskedIsKnown
<1>11. Rec!WrittenOnce' /\ Rec!NoticeHasDocument'
  BY <1>0, <1>4, <1>5, <1>6 DEF Rec!WrittenOnce, Rec!NoticeHasDocument, Rec!Shapes
<1> QED BY <1>7, <1>8, <1>9, <1>10, <1>11 DEF Rec!RecordInv

(* A scan begins over what stands then.                                     *)
LEMMA BeginStep ==
  ASSUME Rec!RecordInv, Page \in Nat, UNCHANGED <<Rec!provider, proof, doubt, asked, blind, slipped>>,
         NEW phase \in {"before", "after"}, Rec!Begin([call EXCEPT !.phase = phase]),
         \/ phase = "before" /\ call.phase = "identity"
         \/ phase = "after" /\ call.phase = "again"
  PROVE  Rec!RecordInv'
<1>0. /\ Rec!Shapes /\ Rec!IdsAreGiven /\ Rec!ScanFollows /\ Rec!AskedIsKnown /\ Rec!DocumentStood
      /\ Rec!WrittenOnce
      /\ Rec!NoticeHasDocument /\ UNCHANGED <<rows, ids, late, proof, doubt, asked, blind, slipped>>
      /\ call.op \in Rec!Ours /\ scan' = Rec!NoScan /\ call' = [call EXCEPT !.phase = phase]
      /\ churn' = [began |-> Rec!Standing, stood |-> Rec!Standing, added |-> FALSE, removed |-> FALSE]
  BY DEF Rec!RecordInv, Rec!Shapes, Rec!Begin, Rec!provider
<1>1. call' \in Calls /\ call'.phase = phase /\ call'.op = call.op /\ call'.look = call.look
  <2>1. call \in Calls
    BY <1>0 DEF Rec!Shapes, Calls
  <2>2. phase \in Rec!Phases
    BY DEF Rec!Phases
  <2> QED BY <1>0, <2>1, <2>2, CallUpdates
<1>2. scan' \in Scans /\ Rec!ReadIds' = {} /\ Len(scan'.got) = 0 /\ scan'.page = 0 /\ scan'.total = -1
  BY <1>0, NothingRead
<1>3. Rec!Standing' = Rec!Standing /\ Rec!Standing \subseteq Nat
  BY <1>0, RowFacts DEF Rec!Standing
<1>4. churn' \in Churns /\ churn'.began = Rec!Standing /\ churn'.stood = Rec!Standing
  BY <1>0, <1>3 DEF Churns
<1>5. Rec!Shapes'
  BY <1>0, <1>1, <1>2, <1>4 DEF Rec!Shapes, Calls, Scans, Churns
<1>6. Rec!IdsAreGiven'
  BY <1>0, <1>2, <1>3 DEF Rec!IdsAreGiven
<1>7. Rec!ScanFollows'
  <2>1. scan'.page * Page = 0
    BY <1>2
  <2> QED BY <1>2, <1>3, <1>4, <2>1 DEF Rec!ScanFollows
<1>8. Rec!AskedIsKnown' /\ Rec!WrittenOnce' /\ Rec!NoticeHasDocument'
  BY <1>0, <1>1 DEF Rec!AskedIsKnown, Rec!WrittenOnce, Rec!NoticeHasDocument
<1>9. Rec!DocumentStood'
  BY <1>0, <1>1, <1>2, <1>3, <1>4 DEF Rec!DocumentStood
<1> QED BY <1>5, <1>6, <1>7, <1>8, <1>9 DEF Rec!RecordInv

LEMMA CheckStep ==
  ASSUME Rec!RecordInv, Page \in Nat,
         Rec!CheckIdentity \/ Rec!CheckAgain \/ Rec!NotSent \/ Rec!VerifyCatalogue \/ Rec!Crash
  PROVE  Rec!RecordInv'
<1>1. call.phase # "idle" /\ call.op \in Rec!Ours
  BY DEF Rec!RecordInv, Rec!Shapes, Rec!CheckIdentity, Rec!CheckAgain, Rec!NotSent, Rec!VerifyCatalogue,
    Rec!Crash
<1>2. CASE Rec!CheckIdentity /\ Rec!IdentityMatches
  BY <1>2, BeginStep DEF Rec!CheckIdentity
<1>3. CASE Rec!CheckAgain /\ Rec!IdentityMatches
  BY <1>3, BeginStep DEF Rec!CheckAgain
<1>4. CASE Rec!CheckIdentity /\ ~Rec!IdentityMatches
  BY <1>1, <1>4, EndsStep, ProofStays, UnknownIsNotAsked DEF Rec!CheckIdentity
<1>5. CASE Rec!CheckAgain /\ ~Rec!IdentityMatches
  BY <1>1, <1>5, EndsStep, ProofStays DEF Rec!CheckAgain
<1>6. CASE Rec!NotSent
  BY <1>1, <1>6, EndsStep, ProofStays, UnknownIsNotAsked DEF Rec!NotSent
<1>7. CASE Rec!VerifyCatalogue
  BY <1>1, <1>7, EndsStep, ProofStays, UnknownIsNotAsked DEF Rec!VerifyCatalogue
<1>8. CASE Rec!Crash
  BY <1>1, <1>8, EndsStep, ProofStays DEF Rec!Crash
<1> QED BY <1>2, <1>3, <1>4, <1>5, <1>6, <1>7, <1>8

LEMMA ReadBackStep ==
  ASSUME Rec!RecordInv, Page \in Nat, Rec!ReadBack
  PROVE  Rec!RecordInv'
<1>0. /\ call.phase = "after" /\ call.op \in Rec!Ours
      /\ UNCHANGED <<Rec!provider, churn, asked, blind, slipped>>
  BY DEF Rec!RecordInv, Rec!Shapes, Rec!ReadBack
<1>1. ASSUME Rec!Ends("uncertain", call.op), UNCHANGED proof
      PROVE  Rec!RecordInv'
  BY <1>0, <1>1, EndsStep, ProofStays
<1>2. ASSUME Rec!Proves(call.op), Rec!Ends("proved", call.op), proof' = Rec!ProvedRow(call.op)
      PROVE  Rec!RecordInv'
  BY <1>0, <1>2, EndsStep, ProvedGiven
<1>3. ASSUME call' = [call EXCEPT !.phase = "again", !.try = @ + 1], scan' = Rec!NoScan, UNCHANGED <<proof,
             doubt>>
      PROVE  Rec!RecordInv'
  <2>0. /\ Rec!Shapes /\ Rec!IdsAreGiven /\ Rec!ScanFollows /\ Rec!AskedIsKnown /\ Rec!DocumentStood
        /\ Rec!WrittenOnce
        /\ Rec!NoticeHasDocument /\ UNCHANGED <<rows, ids, late, churn, asked, blind, slipped, doubt, proof>>
    BY <1>0, <1>3 DEF Rec!RecordInv, Rec!provider
  <2>1. call' \in Calls /\ call'.phase = "again" /\ call'.op = call.op
    <3>1. call \in Calls /\ "again" \in Rec!Phases
      BY <2>0 DEF Rec!Shapes, Calls, Rec!Phases
    <3>2. call.try \in Int
      BY <3>1, CallUpdates
    <3>3. call.try + 1 \in Int
      BY <3>2
    <3> QED BY <1>3, <3>1, <3>3, CallUpdates
  <2>2. scan' \in Scans /\ Rec!ReadIds' = {} /\ Rec!Standing' = Rec!Standing
    BY <1>3, <2>0, NothingRead DEF Rec!Standing
  <2>3. Rec!Shapes'
    BY <1>0, <2>0, <2>1, <2>2 DEF Rec!Shapes, Calls, Scans
  <2>4. Rec!IdsAreGiven' /\ Rec!ScanFollows' /\ Rec!DocumentStood'
    BY <2>0, <2>1, <2>2 DEF Rec!IdsAreGiven, Rec!ScanFollows, Rec!Scanning, Rec!DocumentStood
  <2>5. Rec!AskedIsKnown'
    BY <1>0, <2>0, <2>1 DEF Rec!AskedIsKnown
  <2>6. Rec!WrittenOnce' /\ Rec!NoticeHasDocument'
    BY <2>0 DEF Rec!WrittenOnce, Rec!NoticeHasDocument
  <2> QED BY <2>3, <2>4, <2>5, <2>6 DEF Rec!RecordInv
<1> QED BY <1>1, <1>2, <1>3 DEF Rec!ReadBack

(* The executor only looks once a write may have gone out.                  *)
LEMMA CallStep ==
  ASSUME Rec!RecordInv, Rec!Call
  PROVE  Rec!RecordInv'
<1>0. /\ Rec!Shapes /\ Rec!IdsAreGiven /\ Rec!ScanFollows /\ Rec!AskedIsKnown /\ Rec!DocumentStood
      /\ Rec!WrittenOnce
      /\ Rec!NoticeHasDocument
      /\ UNCHANGED <<rows, ids, late, scan, churn, proof, doubt, asked, blind, slipped>>
      /\ call.phase = "idle"
  BY DEF Rec!RecordInv, Rec!Call, Rec!provider
<1>1. PICK op \in Rec!Ours :
        proof[op] = 0 /\ call' = [op |-> op, phase |-> "identity", look |-> doubt[op], try |-> 0]
  BY DEF Rec!Call
<1>2. call' \in Calls /\ call'.phase = "identity" /\ call'.op = op /\ call'.look = doubt[op]
  BY <1>0, <1>1 DEF Calls, Rec!Phases, Rec!Shapes
<1>3. Rec!Standing' = Rec!Standing /\ Rec!ReadIds' = Rec!ReadIds
  BY <1>0 DEF Rec!Standing, Rec!ReadIds
<1>4. Rec!Shapes'
  BY <1>0, <1>2 DEF Rec!Shapes, Calls
<1>5. Rec!IdsAreGiven' /\ Rec!ScanFollows' /\ Rec!DocumentStood'
  BY <1>0, <1>2, <1>3 DEF Rec!IdsAreGiven, Rec!ScanFollows, Rec!Scanning, Rec!DocumentStood
<1>6. Rec!AskedIsKnown'
  <2>1. asked[op] > 0 /\ ~slipped => doubt[op]
    BY <1>0, <1>1 DEF Rec!AskedIsKnown
  <2>2. asked[op] = 0 \/ asked[op] > 0
    BY <1>0 DEF Rec!Shapes
  <2> QED BY <1>0, <1>2, <2>1, <2>2 DEF Rec!AskedIsKnown
<1>7. Rec!WrittenOnce' /\ Rec!NoticeHasDocument'
  BY <1>0 DEF Rec!WrittenOnce, Rec!NoticeHasDocument
<1> QED BY <1>4, <1>5, <1>6, <1>7 DEF Rec!RecordInv

(* ------------------------------- theorems ------------------------------- *)
LEMMA RecordInit == Rec!Init => Rec!RecordInv
<1> SUFFICES ASSUME Rec!Init PROVE Rec!RecordInv
  OBVIOUS
<1> DEFINE r == [id |-> 1, kind |-> "note"]
<1>0. rows = <<r>> /\ r \in Rec!Row /\ r.id = 1 /\ scan = Rec!NoScan /\ call = Rec!Idle /\ ids = 1
  BY DEF Rec!Init, Rec!Row, Rec!Kinds
<1> HIDE DEF r
<1>1. rows \in Seq(Rec!Row) /\ DOMAIN rows = {1} /\ rows[1] = r
  BY <1>0
<1>2. Rec!Standing = {1}
  BY <1>0, <1>1 DEF Rec!Standing
<1>3. /\ scan \in [page : Nat, got : Seq(Rec!Row), total : Int] /\ Rec!ReadIds = {}
      /\ Len(scan.got) = 0 /\ scan.page = 0 /\ scan.total = -1
  BY <1>0 DEF Rec!NoScan, Rec!ReadIds
<1>4. call.phase = "idle" /\ call.op = "none"
      /\ call \in [op : Rec!Ours \cup {"none"}, phase : Rec!Phases, look : BOOLEAN, try : Int]
  BY <1>0 DEF Rec!Idle, Rec!Phases
<1>5. /\ churn \in [began : SUBSET Nat, stood : SUBSET Nat, added : BOOLEAN, removed : BOOLEAN]
      /\ churn.stood = {}
  BY DEF Rec!Init
<1>6. /\ proof = [o \in Rec!Ours |-> 0] /\ doubt = [o \in Rec!Ours |-> FALSE] /\ asked = [o \in Rec!Ours |-> 0]
      /\ ~blind /\ late = {}
  BY DEF Rec!Init
<1>7. Rec!Shapes
  BY <1>0, <1>1, <1>3, <1>4, <1>5, <1>6 DEF Rec!Shapes
<1>8. Rec!IdsAreGiven /\ Rec!ScanFollows
  BY <1>0, <1>2, <1>3, <1>4, <1>5, <1>6 DEF Rec!IdsAreGiven, Rec!ScanFollows, Rec!Scanning
<1>9. Rec!AskedIsKnown /\ Rec!DocumentStood /\ Rec!WrittenOnce /\ Rec!NoticeHasDocument
  BY <1>4, <1>6 DEF Rec!AskedIsKnown, Rec!DocumentStood, Rec!WrittenOnce, Rec!NoticeHasDocument
<1> QED BY <1>7, <1>8, <1>9 DEF Rec!RecordInv

LEMMA RecordStep ==
  ASSUME Page \in Nat
  PROVE  Rec!RecordInv /\ [Rec!Next]_(Rec!vars) => Rec!RecordInv'
<1> SUFFICES ASSUME Rec!RecordInv, [Rec!Next]_(Rec!vars) PROVE Rec!RecordInv'
  OBVIOUS
<1>1. CASE Rec!Gateway
  BY <1>1, ReadPageStep, DecideStep, WriteStep, CheckStep, ReadBackStep DEF Rec!Gateway
<1>2. CASE UNCHANGED Rec!vars
  BY <1>2 DEF Rec!vars, Rec!RecordInv, Rec!Shapes, Rec!IdsAreGiven, Rec!Standing, Rec!ReadIds,
    Rec!ScanFollows, Rec!Scanning, Rec!InPlace, Rec!AskedIsKnown, Rec!DocumentStood, Rec!WrittenOnce,
    Rec!NoticeHasDocument
<1> QED BY <1>1, <1>2, OutsideStep, CallStep, CheckStep DEF Rec!Next

LEMMA ReadWhole ==
  ASSUME Page \in Nat
  PROVE  Rec!RecordInv => Rec!ScanIsWhole
<1> SUFFICES ASSUME Rec!RecordInv, Rec!Scanning, Rec!Whole, ~(churn.added /\ churn.removed)
             PROVE  churn.stood \subseteq {r.id : r \in Rec!ToSet(Rec!Got)}
  BY DEF Rec!ScanIsWhole
<1>0. Rec!Shapes /\ Rec!ScanFollows /\ churn.stood \subseteq Rec!Standing /\ Len(scan.got) = scan.page * Page
  BY DEF Rec!RecordInv, Rec!ScanFollows
<1>1. Rec!InPlace
  <2>1. CASE scan.page = 0
    <3>1. scan.page * Page = 0
      BY <2>1
    <3>2. Len(scan.got) = 0 /\ DOMAIN scan.got = 1..Len(scan.got)
      BY <1>0, <3>1, RowFacts
    <3> QED BY <3>2 DEF Rec!InPlace
  <2>2. CASE scan.page > 0
    <3>1. scan.total # -1
      BY <1>0, <2>2, RowFacts DEF Rec!ScanFollows
    <3>2. scan.total = Len(rows)
      BY <3>1 DEF Rec!Whole, Rec!Broken, Rec!Changed
    <3> QED BY <1>0, <2>2, <3>2 DEF Rec!ScanFollows
  <2> QED BY <1>0, <2>1, <2>2, RowFacts
<1>2. \A n \in DOMAIN Rec!Got : Rec!Got[n] \in Rec!ToSet(Rec!Got) /\ Rec!Got[n].id = rows[n].id
  BY <1>0, <1>1, GotInPlace DEF Rec!ToSet
<1>3. DOMAIN Rec!Got = DOMAIN rows
  BY <1>0, GotFacts, RowFacts DEF Rec!Whole
<1> QED BY <1>0, <1>2, <1>3 DEF Rec!Standing

(* However often the executor calls, crashes or hears nothing, the provider *)
(* is asked once for the document and once for the notice (unless a call    *)
(* gave up on the identity after its write); no notice goes out without its *)
(* document; and a scan taken as whole holds every row that stood.          *)
THEOREM RecordHolds ==
  ASSUME Page \in Nat
  PROVE  Rec!Spec => [](Rec!WrittenOnce /\ Rec!NoticeHasDocument /\ Rec!ScanIsWhole)
<1>1. Rec!RecordInv /\ [Rec!Next]_(Rec!vars) => Rec!RecordInv'
  BY RecordStep
<1>2. Rec!RecordInv => Rec!WrittenOnce /\ Rec!NoticeHasDocument /\ Rec!ScanIsWhole
  BY ReadWhole DEF Rec!RecordInv
<1> QED BY RecordInit, <1>1, <1>2, PTL DEF Rec!Spec

(* ---- the examples ---- *)
(* Why the examples are ranked by vectors of the service's own package: the *)
(* answer was ranked by the index the service keeps; that index, unless it  *)
(* was read across two builds, is of its package; and while it serves none  *)
(* is being read.                                                           *)
AnsweredFromIndex == last[1] = "RAG" => index.status = "LOADED" /\ last[2] = index.vectors
IndexIsOwn == (index.status = "LOADED" /\ ~index.mixed) => index.vectors = mine
IndexRests == index.status = "LOADED" => load.phase = "idle"
IndexInv ==
  /\ load \in [phase : {"idle", "meta", "vectors"}, meta : Package \cup {Ind!None, Ind!Torn},
               saw : Package \cup {Ind!None, Ind!Torn}]
  /\ meta \in Package \cup {Ind!None, Ind!Torn} /\ vectors \in Package \cup {Ind!None, Ind!Torn}
  /\ build \in [phase : {"idle", "embed", "vectors", "meta"}, of : Package \cup {Ind!None}]
  /\ build.phase # "idle" => build.of \in Package
  /\ index \in [status : {"never", "MISSING", "STALE", "LOADED"}, vectors : Package \cup {Ind!None, Ind!Torn},
                mixed : BOOLEAN]
  /\ AnsweredFromIndex /\ IndexIsOwn /\ IndexRests

LEMMA IndexInit == Ind!Init => IndexInv
  BY DEF Ind!Init, IndexInv, AnsweredFromIndex, IndexIsOwn, IndexRests, Ind!NoIndex, Ind!Unloaded,
    Ind!Resting, Ind!None, Ind!Torn

(* The script writes its two files and nothing the service keeps.           *)
LEMMA ScriptStep == IndexInv /\ Ind!Script => IndexInv'
<1> SUFFICES ASSUME IndexInv, Ind!Script PROVE IndexInv'
  OBVIOUS
<1>1. UNCHANGED <<mine, load, index, last>>
  BY DEF Ind!Script, Ind!Starts, Ind!Embeds, Ind!Writes, Ind!WritesMeta, Ind!Fails, Ind!service
<1>2. /\ AnsweredFromIndex' /\ IndexIsOwn' /\ IndexRests'
  BY <1>1 DEF IndexInv, AnsweredFromIndex, IndexIsOwn, IndexRests
<1>3. /\ meta' \in Package \cup {Ind!None, Ind!Torn} /\ vectors' \in Package \cup {Ind!None, Ind!Torn}
      /\ build' \in [phase : {"idle", "embed", "vectors", "meta"}, of : Package \cup {Ind!None}]
      /\ build'.phase # "idle" => build'.of \in Package
  BY DEF Ind!Script, Ind!Starts, Ind!Embeds, Ind!Writes, Ind!WritesMeta, Ind!Fails, Ind!service,
    IndexInv, Ind!Resting
<1> QED BY <1>1, <1>2, <1>3 DEF IndexInv

(* A load keeps as LOADED only what is of the service's package: the vectors *)
(* there were when it read what they are of, and that says its own package. *)
LEMMA ReadStep == IndexInv /\ (Ind!ReadMeta \/ Ind!ReadVectors) => IndexInv'
<1> SUFFICES ASSUME IndexInv, Ind!ReadMeta \/ Ind!ReadVectors PROVE IndexInv'
  OBVIOUS
<1>1. UNCHANGED <<meta, vectors, build, mine, last>> /\ index.status # "LOADED" /\ last[1] # "RAG"
  BY DEF Ind!ReadMeta, Ind!ReadVectors, Ind!disk, IndexInv, IndexRests, AnsweredFromIndex
<1>2. CASE Ind!ReadMeta
  <2>1. CASE Ind!Keeps("MISSING") /\ load' = Ind!Unloaded
    BY <1>1, <2>1 DEF Ind!Keeps, Ind!Unloaded, IndexInv, AnsweredFromIndex, IndexIsOwn, IndexRests
  <2>2. CASE load' = [phase |-> "vectors", meta |-> meta, saw |-> vectors] /\ UNCHANGED index
    BY <1>1, <2>2 DEF IndexInv, AnsweredFromIndex, IndexIsOwn, IndexRests
  <2> QED BY <1>2, <2>1, <2>2 DEF Ind!ReadMeta
<1>3. CASE Ind!ReadVectors
  <2>1. PICK status \in {"MISSING", "STALE", "LOADED"} :
          Ind!Keeps(status) /\ (status = "LOADED" => Ind!Usable(load.meta))
    BY <1>3 DEF Ind!ReadVectors
  <2>2. load' = Ind!Unloaded
    BY <1>3 DEF Ind!ReadVectors
  <2>3.
        /\ index' \in [status : {"never", "MISSING", "STALE", "LOADED"}, vectors : Package \cup {Ind!None, Ind!Torn},
                       mixed : BOOLEAN]
        /\ index'.status = "LOADED" => /\ index'.vectors = vectors /\ load.meta = mine
                                       /\ ~index'.mixed => load.meta = load.saw /\ vectors = load.saw
    BY <2>1 DEF Ind!Keeps, Ind!Usable, IndexInv
  <2> QED
    BY <1>1, <2>2, <2>3 DEF Ind!Unloaded, IndexInv, AnsweredFromIndex, IndexIsOwn, IndexRests
<1> QED BY <1>2, <1>3

LEMMA IndexStep == IndexInv /\ [Ind!Next]_(Ind!vars) => IndexInv'
<1> SUFFICES ASSUME IndexInv, [Ind!Next]_(Ind!vars) PROVE IndexInv'
  OBVIOUS
<1>1. CASE Ind!Reload
  BY <1>1 DEF Ind!Reload, Ind!Rests, Ind!Unloaded, Ind!disk, IndexInv, AnsweredFromIndex, IndexIsOwn,
    IndexRests
<1>2. CASE Ind!Examples
  BY <1>2 DEF Ind!Examples, Ind!disk, IndexInv, AnsweredFromIndex, IndexIsOwn, IndexRests
<1>3. CASE Ind!FiveMinutes \/ UNCHANGED Ind!vars
  BY <1>3 DEF Ind!FiveMinutes, Ind!vars, Ind!disk, IndexInv, AnsweredFromIndex, IndexIsOwn, IndexRests
<1>4. CASE Ind!Restart
  BY <1>4 DEF Ind!Restart, Ind!Unloaded, Ind!NoIndex, Ind!disk, Ind!None, Ind!Torn, IndexInv,
    AnsweredFromIndex, IndexIsOwn, IndexRests
<1> QED BY <1>1, <1>2, <1>3, <1>4, ScriptStep, ReadStep DEF Ind!Next, Ind!Service

LEMMA IndexEnough == IndexInv => Ind!RankedByOwn
  BY DEF IndexInv, AnsweredFromIndex, IndexIsOwn, Ind!RankedByOwn

(* However often the script and the service are stopped: examples are       *)
(* ranked with the vectors of the package they are taken from, unless the   *)
(* two files were of different builds when they were read (rag-index.ts).   *)
THEOREM ExamplesAreOwn == Ind!Spec => []Ind!RankedByOwn
<1> QED BY IndexInit, IndexStep, IndexEnough, PTL DEF Ind!Spec

(* ----------------------- the answer of the model ------------------------ *)
LEMMA Smallest ==
  ASSUME NEW S, S \subseteq Nat, S # {}
  PROVE  \E n \in S : \A m \in S : n <= m
<1> DEFINE R == OpToRel(<, Nat)
<1>1. IsWellFoundedOn(R, Nat)
  BY NatLessThanWellFounded
<1>2. \A y, x \in Nat : y < x => <<y, x>> \in R
  BY DEF OpToRel
<1> HIDE DEF R
<1>3. PICK x \in S : \A y \in S : ~(<<y, x>> \in R)
  BY <1>1, WFMin, Zenon
<1>4. ASSUME NEW y \in S
      PROVE  x <= y
  <2>1. x \in Nat /\ y \in Nat /\ ~(y < x)
    BY <1>2, <1>3
  <2> QED BY <2>1
<1> QED BY <1>4

(* The provider says pieces, and says no more after an object: what is cut  *)
(* off then is no object (it would be one if text came after the object).   *)
SaysOneThing ==
  /\ Answers \subseteq Seq(Mod!Pieces) /\ MaxChunk \in Nat
  /\ \A m \in Answers : \A k \in 0..Len(m) - 1 : SubSeq(m, 1, k) \notin Mod!Objects

(* So it is with what it says in the runs.                                  *)
LEMMA TheAnswersOfTheRuns ==
  /\ ModData!Said \subseteq Seq(Mod!Pieces)
  /\ \A m \in ModData!Said : \A k \in 0..Len(m) - 1 : SubSeq(m, 1, k) \notin Mod!Objects
<1>1. ModData!Said \subseteq Seq(Mod!Pieces)
  BY DEF ModData!Said, Mod!Pieces
<1>2. /\ Len(<<"x">>) = 1 /\ Len(<<"{", "x", "}">>) = 3 /\ Len(<<"{", "{", "}", "}">>) = 4 /\ Len(<<"{", "}">>) = 2
      /\ <<"{", "x", "}">>[2] = "x" /\ <<"{", "{", "}", "}">>[2] = "{" /\ <<"{", "}">>[2] = "}"
  OBVIOUS
<1>3. ASSUME NEW m \in ModData!Said
      PROVE  Len(m) = 1 \/ (Len(m) = 3 /\ m[2] = "x") \/ (Len(m) = 4 /\ m[2] = "{")
  <2>1. CASE m = <<"{", "x", "}">>
    <3>1. Len(m) = 3 /\ m[2] = "x"
      BY <1>2, <2>1, Zenon
    <3> QED BY <3>1
  <2>2. CASE m = <<"{", "{", "}", "}">>
    <3>1. Len(m) = 4 /\ m[2] = "{"
      BY <1>2, <2>2, Zenon
    <3> QED BY <3>1
  <2>3. CASE m = <<"x">>
    <3>1. Len(m) = 1
      BY <1>2, <2>3, Zenon
    <3> QED BY <3>1
  <2> QED BY <2>1, <2>2, <2>3 DEF ModData!Said
<1>4. ASSUME NEW o \in Mod!Objects
      PROVE  (Len(o) = 2 /\ o[2] = "}") \/ (Len(o) = 3 /\ o[2] = "x") \/ Len(o) = 4
  <2>1. CASE o = <<"{", "x", "}">>
    <3>1. Len(o) = 3 /\ o[2] = "x"
      BY <1>2, <2>1, Zenon
    <3> QED BY <3>1
  <2>2. CASE o = <<"{", "{", "}", "}">>
    <3>1. Len(o) = 4
      BY <1>2, <2>2, Zenon
    <3> QED BY <3>1
  <2>3. CASE o = <<"{", "}">>
    <3>1. Len(o) = 2 /\ o[2] = "}"
      BY <1>2, <2>3, Zenon
    <3> QED BY <3>1
  <2> QED BY <2>1, <2>2, <2>3 DEF Mod!Objects
<1>5. ASSUME NEW m \in ModData!Said, NEW k \in 0..Len(m) - 1
      PROVE  SubSeq(m, 1, k) \notin Mod!Objects
  <2> DEFINE o == SubSeq(m, 1, k)
  <2>1. m \in Seq(Mod!Pieces) /\ k \in 0..Len(m) /\ Len(m) \in Nat /\ k \in Nat /\ k < Len(m)
    BY <1>1
  <2>2. Len(o) = k /\ (k >= 2 => o[2] = m[2])
    <3>1. \A i \in 1..k : m[i] \in Mod!Pieces
      BY <2>1
    <3>2. /\ Len(SubSeq(m, 1, k)) = IF 1 <= k THEN k - 1 + 1 ELSE 0
          /\ \A i \in 1..k - 1 + 1 : SubSeq(m, 1, k)[i] = m[1 + i - 1]
      BY <2>1, <3>1, SubSeqProperties
    <3>3. k >= 2 => 2 \in 1..k - 1 + 1
      BY <2>1
    <3> HIDE DEF o
    <3>4. Len(o) = k
      BY <2>1, <3>2 DEF o
    <3>5. k >= 2 => o[2] = m[1 + 2 - 1]
      BY <3>2, <3>3 DEF o
    <3> QED BY <3>4, <3>5
  <2> HIDE DEF o
  <2>3. ASSUME o \in Mod!Objects PROVE FALSE
    <3> DEFINE l == Len(m)
               second == m[2]
               kept == o[2]
    <3>1. l = 1 \/ (l = 3 /\ second = "x") \/ (l = 4 /\ second = "{")
      BY <1>3
    <3>2. (k = 2 /\ kept = "}") \/ (k = 3 /\ kept = "x") \/ k = 4
      <4>1. (Len(o) = 2 /\ o[2] = "}") \/ (Len(o) = 3 /\ o[2] = "x") \/ Len(o) = 4
        BY <1>4, <2>3
      <4> QED BY <2>2, <4>1, Zenon
    <3>3. k \in Nat /\ l \in Nat /\ k < l /\ (k >= 2 => kept = second)
      BY <2>1, <2>2
    <3> HIDE DEF l, second, kept
    <3>4. l = 1 \/ l = 3 \/ l = 4
      BY <3>1, Zenon
    <3>5. k \in Nat /\ l \in Nat /\ k < l /\ 2 >= 2 /\ 3 >= 2
      BY <3>3
    <3>6. k # 4 /\ (k = 2 => l # 1) /\ (k = 3 => l # 1 /\ l # 3)
      BY <3>4, <3>5
    <3>7. "}" # "x" /\ "}" # "{" /\ "x" # "{"
      OBVIOUS
    <3>8. CASE k = 2 /\ kept = "}"
      BY <3>1, <3>3, <3>5, <3>6, <3>7, <3>8, Zenon
    <3>9. CASE k = 3 /\ kept = "x"
      BY <3>1, <3>3, <3>5, <3>6, <3>7, <3>9, Zenon
    <3> QED BY <3>2, <3>6, <3>8, <3>9, Zenon
  <2> QED BY <2>3 DEF o
<1> QED BY <1>1, <1>5

(* --------------------------- a part of a part --------------------------- *)
LEMMA PartOf ==
  ASSUME NEW S, NEW q \in Seq(S), NEW i \in 0..Len(q), NEW j \in i..Len(q)
  PROVE  /\ SubSeq(q, i + 1, j) \in Seq(S) /\ Len(SubSeq(q, i + 1, j)) = j - i
         /\ \A k \in 1..j - i : SubSeq(q, i + 1, j)[k] = q[i + k]
<1>1. i \in Int /\ j \in Int /\ i + 1 \in Int /\ \A k \in i + 1..j : q[k] \in S
  OBVIOUS
<1>2. /\ SubSeq(q, i + 1, j) \in Seq(S)
      /\ Len(SubSeq(q, i + 1, j)) = IF i + 1 <= j THEN j - (i + 1) + 1 ELSE 0
      /\ \A k \in 1..j - (i + 1) + 1 : SubSeq(q, i + 1, j)[k] = q[i + 1 + k - 1]
  BY <1>1, SubSeqProperties
<1>3. j - (i + 1) + 1 = j - i /\ (i + 1 <= j \/ j - i = 0)
  OBVIOUS
<1>4. \A k \in 1..j - i : i + 1 + k - 1 = i + k
  OBVIOUS
<1> QED BY <1>2, <1>3, <1>4

LEMMA PartOfPart ==
  ASSUME NEW S, NEW q \in Seq(S), NEW i \in 0..Len(q), NEW j \in i..Len(q), NEW k \in 0..j - i, NEW l \in k..j - i
  PROVE  SubSeq(SubSeq(q, i + 1, j), k + 1, l) = SubSeq(q, i + k + 1, i + l)
<1> DEFINE p == SubSeq(q, i + 1, j)
           u == SubSeq(p, k + 1, l)
           v == SubSeq(q, i + k + 1, i + l)
<1>1. p \in Seq(S) /\ Len(p) = j - i /\ \A h \in 1..j - i : p[h] = q[i + h]
  BY PartOf
<1>2. u \in Seq(S) /\ Len(u) = l - k /\ \A h \in 1..l - k : u[h] = p[k + h]
  <2>1. k \in 0..Len(p) /\ l \in k..Len(p)
    BY <1>1
  <2> HIDE DEF p
  <2> QED BY <1>1, <2>1, PartOf
<1>3. v \in Seq(S) /\ Len(v) = l - k /\ \A h \in 1..l - k : v[h] = q[i + k + h]
  <2>1. i + k \in 0..Len(q) /\ i + l \in i + k..Len(q) /\ i + l - (i + k) = l - k
    OBVIOUS
  <2> QED BY <2>1, PartOf
<1>4. ASSUME NEW h \in 1..l - k PROVE u[h] = v[h]
  <2>1. k + h \in 1..j - i /\ i + (k + h) = i + k + h
    OBVIOUS
  <2> HIDE DEF p, u, v
  <2> QED BY <1>1, <1>2, <1>3, <2>1
<1> HIDE DEF p, u, v
<1>5. Len(u) = Len(v) /\ \A h \in 1..Len(u) : u[h] = v[h]
  BY <1>2, <1>3, <1>4
<1>6. u = v
  BY <1>2, <1>3, <1>5, SeqEqual
<1> QED BY <1>6 DEF p, u, v

LEMMA Joined ==
  ASSUME NEW S, NEW q \in Seq(S), NEW i \in 0..Len(q), NEW j \in i..Len(q), NEW k \in j..Len(q)
  PROVE  SubSeq(q, i + 1, j) \o SubSeq(q, j + 1, k) = SubSeq(q, i + 1, k)
<1>1. i + 1 \in 1..Len(q) + 1 /\ j \in (i + 1) - 1..Len(q)
  OBVIOUS
<1> QED BY <1>1, ConcatAdjacentSubSeq

(* ------------------------------ the stream ------------------------------ *)
Symbols == Mod!Pieces \cup {"data:", "nl", "[DONE]"}
StreamOf(m) == Mod!Stream(m, 0)
Size(m) == 3 * Len(m) + 3

LEMMA StreamIs ==
  ASSUME NEW m \in Seq(Mod!Pieces)
  PROVE  /\ StreamOf(m) \in Seq(Symbols) /\ Len(StreamOf(m)) = Size(m) /\ Size(m) \in Nat
         /\ \A c \in 0..Len(m) :
              /\ StreamOf(m)[3 * c + 1] = "data:" /\ StreamOf(m)[3 * c + 3] = "nl"
              /\ StreamOf(m)[3 * c + 2] = IF c = Len(m) THEN "[DONE]" ELSE m[c + 1]
<1> DEFINE T == StreamOf(m)
           L == Len(m)
<1>1. L \in Nat /\ Size(m) \in Nat /\ \A i \in 1..L : m[i] \in Mod!Pieces
  BY DEF Size
<1>2. T = [i \in 1..Size(m) |-> IF i % 3 = 1 THEN "data:" ELSE IF i % 3 = 0 THEN "nl"
                                ELSE IF (i - 1) \div 3 + 1 > L THEN "[DONE]"
                                ELSE IF (i - 1) \div 3 + 1 = 0 THEN Mod!Garbage ELSE m[(i - 1) \div 3 + 1]]
  BY DEF StreamOf, Mod!Stream, Size
<1>3. ASSUME NEW i \in 1..Size(m) PROVE (i - 1) \div 3 + 1 \in Nat \ {0}
  BY <1>1
<1>4. ASSUME NEW i \in 1..Size(m) PROVE T[i] \in Symbols
  <2> HIDE DEF T, L
  <2>1. (i - 1) \div 3 + 1 > L \/ (i - 1) \div 3 + 1 \in 1..L
    BY <1>1, <1>3
  <2> QED BY <1>1, <1>2, <1>3, <2>1 DEF Symbols
<1>5. T \in Seq(Symbols) /\ Len(T) = Size(m)
  <2> HIDE DEF T
  <2>1. T \in [1..Size(m) -> Symbols]
    BY <1>2, <1>4
  <2> QED BY <1>1, <2>1
<1>6. ASSUME NEW c \in 0..L
      PROVE  T[3 * c + 1] = "data:" /\ T[3 * c + 3] = "nl" /\ T[3 * c + 2] = IF c = L THEN "[DONE]" ELSE m[c + 1]
  <2>1. /\ (3 * c + 1) % 3 = 1 /\ (3 * c + 3) % 3 = 0 /\ (3 * c + 2) % 3 = 2
        /\ ((3 * c + 2) - 1) \div 3 + 1 = c + 1
    BY <1>1
  <2>2. 3 * c + 1 \in 1..Size(m) /\ 3 * c + 2 \in 1..Size(m) /\ 3 * c + 3 \in 1..Size(m)
    BY <1>1 DEF Size
  <2>3. c + 1 > L <=> c = L
    BY <1>1
  <2> HIDE DEF T, L
  <2> QED BY <1>2, <1>3, <2>1, <2>2, <2>3
<1> QED BY <1>1, <1>5, <1>6

(* What has arrived since the first a lines, r symbols into the stream.     *)
Arrived(m, a, r) == SubSeq(StreamOf(m), 3 * a + 1, r)

(* Its symbol i is the symbol h of line c + 1.                              *)
Shows(m, a, r, i, c, h) ==
  /\ i = 3 * (c - a) + h
  /\ Arrived(m, a, r)[i] = IF h = 1 THEN "data:" ELSE IF h = 3 THEN "nl"
                           ELSE IF c = Len(m) THEN "[DONE]" ELSE m[c + 1]

LEMMA SymbolAt ==
  ASSUME NEW m \in Seq(Mod!Pieces), NEW a \in 0..Len(m) + 1, NEW r \in 3 * a..Size(m)
  PROVE  /\ Arrived(m, a, r) \in Seq(Symbols) /\ Len(Arrived(m, a, r)) = r - 3 * a
         /\ \A i \in 1..r - 3 * a : \E c \in a..Len(m), h \in 1..3 : Shows(m, a, r, i, c, h)
<1> DEFINE T == StreamOf(m)
           L == Len(m)
           s == Arrived(m, a, r)
<1>1. L \in Nat /\ T \in Seq(Symbols) /\ Len(T) = Size(m) /\ Size(m) = 3 * L + 3
  BY StreamIs DEF Size
<1>2. 3 * a \in 0..Len(T) /\ r \in 3 * a..Len(T) /\ r \in Nat /\ a \in Nat
  BY <1>1
<1>3. s \in Seq(Symbols) /\ Len(s) = r - 3 * a /\ \A i \in 1..r - 3 * a : s[i] = T[3 * a + i]
  <2> HIDE DEF T
  <2> SUFFICES SubSeq(T, 3 * a + 1, r) \in Seq(Symbols) /\ Len(SubSeq(T, 3 * a + 1, r)) = r - 3 * a
               /\ \A i \in 1..r - 3 * a : SubSeq(T, 3 * a + 1, r)[i] = T[3 * a + i]
    BY DEF Arrived, T
  <2> QED BY <1>1, <1>2, PartOf
<1>4. ASSUME NEW i \in 1..r - 3 * a
      PROVE  \E c \in a..L, h \in 1..3 : Shows(m, a, r, i, c, h)
  <2> DEFINE d == (i - 1) \div 3
             h == i - 3 * d
  <2>1. d \in Nat /\ h \in 1..3 /\ i = 3 * d + h
    BY <1>2
  <2>2. a + d \in 0..L /\ a + d \in a..L /\ (a + d) - a = d
    <3> HIDE DEF d, h
    <3>1. 3 * a + 3 * d + h <= 3 * L + 3
      BY <1>1, <1>2, <2>1
    <3> QED BY <1>1, <1>2, <2>1, <3>1
  <2>3. s[i] = T[3 * (a + d) + h]
    <3>1. 3 * a + i = 3 * (a + d) + h
      <4> HIDE DEF d, h
      <4> QED BY <1>2, <2>1
    <3> HIDE DEF s, T, d, h
    <3> QED BY <1>3, <3>1
  <2>4. /\ T[3 * (a + d) + 1] = "data:" /\ T[3 * (a + d) + 3] = "nl"
        /\ T[3 * (a + d) + 2] = IF a + d = L THEN "[DONE]" ELSE m[a + d + 1]
    <3> HIDE DEF d, h
    <3> QED BY <2>2, StreamIs
  <2>5. s[i] = IF h = 1 THEN "data:" ELSE IF h = 3 THEN "nl" ELSE IF a + d = L THEN "[DONE]" ELSE m[a + d + 1]
    <3>1. h = 1 \/ h = 2 \/ h = 3
      BY <2>1
    <3> HIDE DEF s, T, d, h, L
    <3> QED BY <2>3, <2>4, <3>1
  <2>6. Shows(m, a, r, i, a + d, h)
    <3>1. i = 3 * ((a + d) - a) + h
      <4> HIDE DEF d, h
      <4> QED BY <2>1, <2>2
    <3> HIDE DEF d, h, T
    <3> QED BY <2>5, <3>1 DEF Shows
  <2> HIDE DEF s, T, d, h, L
  <2> QED BY <2>1, <2>2, <2>6
<1> QED BY <1>3, <1>4

(* A symbol is a piece of the answer where a line of data has its second    *)
(* symbol, and only there.                                                  *)
LEMMA DeltaAt ==
  ASSUME NEW m \in Seq(Mod!Pieces), NEW a \in 0..Len(m) + 1, NEW r \in 3 * a..Size(m),
         NEW i \in 1..r - 3 * a, NEW c \in a..Len(m), NEW h \in 1..3, i = 3 * (c - a) + h
  PROVE  /\ Mod!IsDelta(Arrived(m, a, r), i) <=> h = 2 /\ c # Len(m)
         /\ h = 2 /\ c # Len(m) => Arrived(m, a, r)[i] = m[c + 1]
         /\ Arrived(m, a, r)[i] = "nl" <=> h = 3
<1> DEFINE L == Len(m)
           s == Arrived(m, a, r)
           Holds(k, d, g) == Shows(m, a, r, k, d, g)
<1>1. L \in Nat /\ r \in Nat /\ a \in Nat /\ c \in Nat
  BY DEF Size
<1>2. ASSUME NEW d \in a..L, NEW g \in 1..3, 3 * (d - a) + g <= r - 3 * a
      PROVE  Holds(3 * (d - a) + g, d, g)
  <2> DEFINE k == 3 * (d - a) + g
  <2>1. k \in 1..r - 3 * a
    BY <1>1, <1>2
  <2>2. PICK e \in a..L, f \in 1..3 : Holds(k, e, f)
    <3>1. \A j \in 1..r - 3 * a : \E e \in a..L, f \in 1..3 : Holds(j, e, f)
      BY SymbolAt
    <3> HIDE DEF k, Holds
    <3> QED BY <2>1, <3>1
  <2>3. e = d /\ f = g
    <3>1. k = 3 * (e - a) + f
      BY <2>2 DEF Shows
    <3> HIDE DEF Holds
    <3> QED BY <1>1, <3>1
  <2> HIDE DEF Holds, k
  <2>4. Holds(k, d, g)
    BY <2>2, <2>3
  <2> QED BY <2>4 DEF k
<1>3. Holds(i, c, h)
  <2>1. Holds(3 * (c - a) + h, c, h)
    <3>1. 3 * (c - a) + h <= r - 3 * a
      BY <1>1
    <3> HIDE DEF Holds
    <3> QED BY <1>2, <3>1, Zenon
  <2> HIDE DEF Holds
  <2> QED BY <2>1
<1>4. c # L => c + 1 \in 1..L /\ m[c + 1] \in Mod!Pieces
  <2>1. c # L => c + 1 \in 1..L
    BY <1>1
  <2> QED BY <2>1
<1>5. h \in {1, 2, 3} /\ i \in Nat /\ i >= 1
  BY <1>1
<1>11. s[i] = IF h = 1 THEN "data:" ELSE IF h = 3 THEN "nl" ELSE IF c = L THEN "[DONE]" ELSE m[c + 1]
  BY <1>3 DEF Shows
<1>8. h = 2 /\ c # L => s[i] = m[c + 1]
  <2> HIDE DEF s, L
  <2> QED BY <1>11
<1>6. s[i] \in Mod!Pieces <=> h = 2 /\ c # L
  <2> HIDE DEF s, L, Holds
  <2>1. {"data:", "nl", "[DONE]"} \cap Mod!Pieces = {}
    BY DEF Mod!Pieces
  <2>2. CASE h = 1
    BY <1>11, <2>1, <2>2
  <2>3. CASE h = 3
    BY <1>11, <2>1, <2>3
  <2>4. CASE h = 2
    BY <1>11, <1>4, <2>1, <2>4
  <2> QED BY <1>5, <2>2, <2>3, <2>4
<1>7. s[i] = "nl" <=> h = 3
  <2> HIDE DEF s, L, Holds
  <2>1. "nl" \notin Mod!Pieces
    BY DEF Mod!Pieces
  <2>2. CASE h = 2 /\ c # L
    BY <1>4, <1>8, <2>1, <2>2
  <2>3. CASE ~(h = 2 /\ c # L)
    BY <1>11, <1>5, <2>3
  <2> QED BY <2>2, <2>3
<1>9. ASSUME h = 2
      PROVE  i > 1 /\ s[i - 1] = "data:" /\ Mod!Starts(s, i - 1)
  <2>1. i > 1 /\ i - 1 = 3 * (c - a) + 1
    BY <1>1, <1>9
  <2>2. s[i - 1] = "data:"
    <3>1. Holds(3 * (c - a) + 1, c, 1)
      <4>1. 3 * (c - a) + 1 <= r - 3 * a
        BY <1>1, <1>9
      <4> HIDE DEF Holds
      <4> QED BY <1>1, <1>2, <4>1
    <3>2. s[3 * (c - a) + 1] = "data:"
      BY <3>1 DEF Shows
    <3> HIDE DEF s, Holds
    <3> QED BY <2>1, <3>2
  <2>3. CASE c = a
    <3>1. i - 1 = 1
      BY <1>1, <2>1, <2>3
    <3> QED BY <2>1, <2>2, <3>1 DEF Mod!Starts
  <2>4. CASE c # a
    <3>1. c - 1 \in a..L /\ 3 * ((c - 1) - a) + 3 <= r - 3 * a /\ (i - 1) - 1 = 3 * ((c - 1) - a) + 3
      BY <1>1, <1>9, <2>1, <2>4
    <3>2. Holds(3 * ((c - 1) - a) + 3, c - 1, 3)
      <4> HIDE DEF Holds
      <4> QED BY <1>2, <3>1
    <3>3. s[(i - 1) - 1] = "nl"
      <4>1. s[3 * ((c - 1) - a) + 3] = "nl"
        BY <3>2 DEF Shows
      <4> HIDE DEF s, Holds
      <4> QED BY <3>1, <4>1
    <3> HIDE DEF s
    <3> QED BY <2>1, <2>2, <3>3 DEF Mod!Starts
  <2> QED BY <2>3, <2>4
<1>10. Mod!IsDelta(s, i) <=> h = 2 /\ c # L
  <2> HIDE DEF s
  <2> QED BY <1>6, <1>9 DEF Mod!IsDelta
<1> HIDE DEF Holds
<1> QED BY <1>7, <1>8, <1>10

(* ------------------------- what the lines say --------------------------- *)
(* The answer has so many pieces, the lines one more: what a lines have     *)
(* said, what i symbols after them say, and the content chunk by chunk.     *)
Upto(m, k) == IF k <= Len(m) THEN k ELSE Len(m)
Told(m, a, i) == SubSeq(m, a + 1, Upto(m, a + (i + 1) \div 3))
Chunks(s, f) == f = [i \in 0..Len(s) |-> IF i = 0 THEN <<>>
                                         ELSE IF Mod!IsDelta(s, i) THEN Append(f[i - 1], s[i]) ELSE f[i - 1]]

LEMMA ToldOneMore ==
  ASSUME NEW m \in Seq(Mod!Pieces), NEW a \in 0..Len(m), NEW c \in a..Len(m) - 1
  PROVE  SubSeq(m, a + 1, c + 1) = Append(SubSeq(m, a + 1, c), m[c + 1])
<1> DEFINE u == SubSeq(m, a + 1, c)
<1>1. c + 1 \in a + 1..Len(m) /\ a + 1 \in 1..Len(m) /\ (c + 1) - 1 = c /\ c \in a..Len(m) /\ c + 1 \in 1..Len(m)
  OBVIOUS
<1>2. SubSeq(m, a + 1, c + 1) = u \o <<m[c + 1]>>
  BY <1>1, SubSeqRecursiveSecond
<1>3. u \in Seq(Mod!Pieces) /\ m[c + 1] \in Mod!Pieces
  BY <1>1, PartOf
<1> HIDE DEF u
<1>4. Append(u, m[c + 1]) = u \o <<m[c + 1]>>
  BY <1>3, AppendIsConcat
<1> QED BY <1>2, <1>4 DEF u

LEMMA ToldStep ==
  ASSUME NEW m \in Seq(Mod!Pieces), NEW a \in 0..Len(m) + 1, NEW r \in 3 * a..Size(m), NEW i \in 1..r - 3 * a
  PROVE  Told(m, a, i) = IF Mod!IsDelta(Arrived(m, a, r), i)
                         THEN Append(Told(m, a, i - 1), Arrived(m, a, r)[i]) ELSE Told(m, a, i - 1)
<1> DEFINE L == Len(m)
           s == Arrived(m, a, r)
<1>1. L \in Nat /\ a \in Nat /\ r \in Nat /\ i \in Nat
  BY DEF Size
<1>2. PICK c \in a..L, h \in 1..3 : i = 3 * (c - a) + h
  <2>1. \A j \in 1..r - 3 * a : \E c \in a..L, h \in 1..3 : Shows(m, a, r, j, c, h)
    BY SymbolAt
  <2>2. PICK c \in a..L, h \in 1..3 : Shows(m, a, r, i, c, h)
    BY <2>1
  <2> QED BY <2>2 DEF Shows
<1>3. c \in Nat /\ a <= c /\ c <= L /\ (h = 1 \/ h = 2 \/ h = 3)
  BY <1>1
<1>4. /\ Mod!IsDelta(s, i) <=> h = 2 /\ c # L
      /\ h = 2 /\ c # L => s[i] = m[c + 1]
  <2> HIDE DEF s
  <2> QED BY <1>2, DeltaAt DEF s
<1>5. CASE h = 2
  <2>1. a + (i + 1) \div 3 = c + 1 /\ a + ((i - 1) + 1) \div 3 = c
    BY <1>1, <1>2, <1>3, <1>5
  <2>2. Told(m, a, i) = SubSeq(m, a + 1, Upto(m, c + 1)) /\ Told(m, a, i - 1) = SubSeq(m, a + 1, Upto(m, c))
    BY <2>1 DEF Told
  <2>3. CASE c = L
    <3>1. Upto(m, c + 1) = Upto(m, c)
      BY <1>1, <2>3 DEF Upto
    <3> QED BY <1>4, <2>2, <2>3, <3>1
  <2>4. CASE c # L
    <3>1. Upto(m, c + 1) = c + 1 /\ Upto(m, c) = c /\ a \in 0..L /\ c \in a..L - 1
      BY <1>1, <1>3, <2>4 DEF Upto
    <3>2. SubSeq(m, a + 1, c + 1) = Append(SubSeq(m, a + 1, c), m[c + 1])
      BY <3>1, ToldOneMore
    <3> HIDE DEF s
    <3> QED BY <1>4, <1>5, <2>2, <2>4, <3>1, <3>2 DEF s
  <2> QED BY <2>3, <2>4
<1>6. CASE h # 2
  <2>1. (i + 1) \div 3 = ((i - 1) + 1) \div 3
    BY <1>1, <1>2, <1>3, <1>6
  <2> QED BY <1>4, <1>6, <2>1 DEF Told
<1> QED BY <1>5, <1>6

LEMMA LinesSay ==
  ASSUME NEW m \in Seq(Mod!Pieces), NEW a \in 0..Len(m) + 1, NEW r \in 3 * a..Size(m)
  PROVE  Mod!ProcessLines(Arrived(m, a, r)) = Told(m, a, r - 3 * a)
<1> DEFINE s == Arrived(m, a, r)
           n == r - 3 * a
           g == [i \in 0..n |-> Told(m, a, i)]
           chunks == CHOOSE f : Chunks(s, f)
<1>1. n \in Nat /\ Len(s) = n /\ a \in Nat /\ Len(m) \in Nat
  BY SymbolAt DEF Size
<1>2. g[0] = <<>>
  <2>1. (0 + 1) \div 3 = 0 /\ 0 \in 0..n
    BY <1>1
  <2>2. Upto(m, a + 0) < a + 1 /\ Upto(m, a + 0) \in Int
    BY <1>1 DEF Upto
  <2>3. SubSeq(m, a + 1, Upto(m, a + 0)) = <<>>
    BY <1>1, <2>2, SubSeqEmpty
  <2> QED BY <2>1, <2>3 DEF Told
<1>3. ASSUME NEW i \in 1..n
      PROVE  g[i] = IF Mod!IsDelta(s, i) THEN Append(g[i - 1], s[i]) ELSE g[i - 1]
  <2>1. i \in 0..n /\ i - 1 \in 0..n /\ g[i] = Told(m, a, i) /\ g[i - 1] = Told(m, a, i - 1)
    BY <1>1
  <2>2. Told(m, a, i) = IF Mod!IsDelta(s, i) THEN Append(Told(m, a, i - 1), s[i]) ELSE Told(m, a, i - 1)
    BY ToldStep
  <2> HIDE DEF g, s
  <2> QED BY <2>1, <2>2
<1>4. Chunks(s, g)
  <2> DEFINE body == [i \in 0..n |-> IF i = 0 THEN <<>>
                                     ELSE IF Mod!IsDelta(s, i) THEN Append(g[i - 1], s[i]) ELSE g[i - 1]]
  <2>1. ASSUME NEW i \in 0..n
        PROVE  g[i] = body[i]
    <3>1. i = 0 \/ i \in 1..n
      BY <1>1
    <3>2. body[i] = IF i = 0 THEN <<>> ELSE IF Mod!IsDelta(s, i) THEN Append(g[i - 1], s[i]) ELSE g[i - 1]
      <4> HIDE DEF g, s
      <4> QED OBVIOUS
    <3> HIDE DEF g, s, body
    <3> QED BY <1>2, <1>3, <3>1, <3>2
  <2>2. g = body
    <3>1. g = [i \in 0..n |-> g[i]] /\ body = [i \in 0..n |-> body[i]]
      OBVIOUS
    <3> HIDE DEF g, body
    <3> QED BY <2>1, <3>1
  <2> HIDE DEF g
  <2> QED BY <1>1, <2>2 DEF Chunks
<1>5. Chunks(s, chunks)
  <2> HIDE DEF g, s
  <2>1. \E f : Chunks(s, f)
    BY <1>4
  <2> QED BY <2>1
<1>6. Mod!ProcessLines(s) = chunks[n]
  <2> HIDE DEF s, g
  <2>1. Mod!ProcessLines(s) = chunks[Len(s)]
    BY DEF Mod!ProcessLines, Chunks
  <2> HIDE DEF chunks
  <2> QED BY <1>1, <2>1
<1>7. \A i \in 0..n : chunks[i] = g[i]
  <2> DEFINE Bad == {i \in 0..n : chunks[i] # g[i]}
  <2>1. SUFFICES ASSUME Bad # {}
                 PROVE  FALSE
    OBVIOUS
  <2>2. PICK i \in Bad : \A j \in Bad : i <= j
    <3>1. Bad \subseteq Nat
      BY <1>1
    <3> HIDE DEF Bad
    <3> QED BY <2>1, <3>1, Smallest
  <2>3. i \in 0..n /\ chunks[i] # g[i]
    OBVIOUS
  <2>4. chunks[i] = IF i = 0 THEN <<>>
                    ELSE IF Mod!IsDelta(s, i) THEN Append(chunks[i - 1], s[i]) ELSE chunks[i - 1]
    <3> HIDE DEF chunks, s, g, Bad
    <3> QED BY <1>1, <1>5, <2>3 DEF Chunks
  <2>5. i # 0
    <3> HIDE DEF chunks, s, g, Bad
    <3> QED BY <1>2, <2>3, <2>4
  <2>6. i \in 1..n /\ chunks[i - 1] = g[i - 1]
    <3>1. i \in 1..n /\ i - 1 \in 0..n /\ ~(i <= i - 1)
      BY <1>1, <2>3, <2>5
    <3>2. i - 1 \notin Bad
      <4> HIDE DEF Bad
      <4> QED BY <2>2, <3>1
    <3> QED BY <3>1, <3>2
  <2> HIDE DEF chunks, s, g, Bad
  <2> QED BY <1>3, <2>3, <2>4, <2>5, <2>6
<1>8. n \in 0..n /\ g[n] = Told(m, a, n)
  BY <1>1
<1> HIDE DEF chunks, g, s
<1> QED BY <1>6, <1>7, <1>8 DEF s, n

(* The last line that has an end.                                           *)
LEMMA LastEndIs ==
  ASSUME NEW m \in Seq(Mod!Pieces), NEW a \in 0..Len(m) + 1, NEW r \in 3 * a..Size(m),
         NEW b \in a..Len(m) + 1, 3 * b <= r, r < 3 * b + 3
  PROVE  Mod!LastEnd(Arrived(m, a, r)) = 3 * (b - a)
<1> DEFINE L == Len(m)
           s == Arrived(m, a, r)
           n == r - 3 * a
           e == 3 * (b - a)
           Ends(i) == i \in 1..Len(s) /\ s[i] = "nl" /\ \A j \in i + 1..Len(s) : s[j] # "nl"
<1>1. L \in Nat /\ a \in Nat /\ r \in Nat /\ b \in Nat /\ a <= b /\ b <= L + 1 /\ n \in Nat /\ Len(s) = n /\ e \in 0..n
  <2>1. Len(s) = n
    BY SymbolAt
  <2>2. L \in Nat /\ a \in Nat /\ r \in Nat /\ b \in Nat /\ a <= b /\ b <= L + 1
    BY DEF Size
  <2> HIDE DEF s, L
  <2> QED BY <2>1, <2>2
<1>2. ASSUME NEW i \in 1..n, s[i] = "nl"
      PROVE  i <= e
  <2>1. \A j \in 1..n : \E c \in a..L, h \in 1..3 : Shows(m, a, r, j, c, h)
    BY SymbolAt
  <2>2. PICK c \in a..L, h \in 1..3 : Shows(m, a, r, i, c, h)
    BY <2>1
  <2>3. i = 3 * (c - a) + h
    BY <2>2 DEF Shows
  <2>4. h = 3
    <3> HIDE DEF s
    <3> QED BY <1>2, <2>3, DeltaAt DEF s
  <2>5. c \in Nat /\ a <= c
    BY <1>1
  <2> HIDE DEF s, L
  <2> QED BY <1>1, <2>3, <2>4, <2>5
<1>3. ASSUME a # b
      PROVE  Ends(e)
  <2>1. e \in 1..n /\ b - 1 \in a..L /\ e = 3 * ((b - 1) - a) + 3 /\ 3 \in 1..3
    <3> HIDE DEF s, L
    <3> QED BY <1>1, <1>3
  <2>2. s[e] = "nl"
    <3>1. PICK d \in a..L, h \in 1..3 : e = 3 * (d - a) + h /\ h = 3
      <4> HIDE DEF s, e, L
      <4> QED BY <2>1
    <3> HIDE DEF s, e
    <3> QED BY <2>1, <3>1, DeltaAt DEF s
  <2>3. ASSUME NEW j \in e + 1..n PROVE s[j] # "nl"
    <3>1. j \in 1..n /\ ~(j <= e)
      <4> HIDE DEF s, L
      <4> QED BY <1>1
    <3> HIDE DEF s, e, n
    <3> QED BY <1>2, <3>1
  <2> HIDE DEF s, e, n
  <2> QED BY <1>1, <2>1, <2>2, <2>3
<1>4. CASE a = b
  <2>1. e = 0
    BY <1>1, <1>4
  <2>2. \A i \in 1..Len(s) : s[i] # "nl"
    <3>1. \A i \in 1..n : ~(i <= e)
      BY <2>1
    <3> HIDE DEF s, e, n
    <3> QED BY <1>1, <1>2, <3>1
  <2> HIDE DEF s, e
  <2>3. Mod!LastEnd(s) = 0
    BY <2>2 DEF Mod!LastEnd
  <2> QED BY <2>1, <2>3 DEF e, s
<1>5. CASE a # b
  <2> DEFINE x == CHOOSE i \in 1..Len(s) : s[i] = "nl" /\ \A j \in i + 1..Len(s) : s[j] # "nl"
  <2>1. Ends(e) /\ \E i \in 1..Len(s) : s[i] = "nl" /\ \A j \in i + 1..Len(s) : s[j] # "nl"
    <3> HIDE DEF s, e
    <3> QED BY <1>3, <1>5
  <2>2. Ends(x)
    <3> HIDE DEF s, e
    <3> QED BY <2>1
  <2>3. Mod!LastEnd(s) = x
    <3> HIDE DEF s, e
    <3>1. \E i \in 1..Len(s) : s[i] = "nl"
      BY <2>1
    <3> QED BY <3>1 DEF Mod!LastEnd
  <2>4. x \in 1..n /\ x <= e
    <3>1. x \in 1..n /\ s[x] = "nl"
      <4> HIDE DEF s, e, n, x
      <4> QED BY <1>1, <2>2
    <3> HIDE DEF s, e, n, x
    <3> QED BY <1>2, <3>1
  <2>5. ~(x < e)
    <3>1. s[e] = "nl" /\ e \in 1..n
      <4> HIDE DEF s, e, n, x
      <4> QED BY <1>1, <2>1
    <3>2. \A j \in x + 1..n : s[j] # "nl"
      <4> HIDE DEF s, e, n, x
      <4> QED BY <1>1, <2>2
    <3> HIDE DEF s, e, x
    <3>3. x < e => e \in x + 1..n
      BY <1>1, <2>4, <3>1
    <3> QED BY <3>1, <3>2, <3>3
  <2> HIDE DEF s, x
  <2>6. x = e
    BY <1>1, <2>4, <2>5
  <2> QED BY <2>3, <2>6 DEF s
<1> QED BY <1>4, <1>5

(* A chunk more: the lines that are whole now, what they say, and the rest. *)
LEMMA ChunkRead ==
  ASSUME NEW m \in Seq(Mod!Pieces), NEW a \in 0..Len(m) + 1, NEW r \in 3 * a..Size(m), r < 3 * a + 3,
         NEW k \in Nat \ {0}, r + k <= Size(m)
  PROVE  \E b \in a..Len(m) + 1 :
           /\ r + k \in 3 * b..Size(m) /\ r + k < 3 * b + 3
           /\ Mod!Remainder(Arrived(m, a, r + k)) = Arrived(m, b, r + k)
           /\ SubSeq(m, 1, Upto(m, a))
                \o Mod!ProcessLines(SubSeq(Arrived(m, a, r + k), 1, Mod!LastEnd(Arrived(m, a, r + k))))
              = SubSeq(m, 1, Upto(m, b))
<1> DEFINE L == Len(m)
           T == StreamOf(m)
           s == Arrived(m, a, r + k)
           b == (r + k) \div 3
<1>1. L \in Nat /\ a \in Nat /\ r \in Nat /\ T \in Seq(Symbols) /\ Len(T) = Size(m) /\ Size(m) = 3 * L + 3
  BY StreamIs DEF Size
<1>2. /\ b \in Nat /\ 3 * b <= r + k /\ r + k < 3 * b + 3 /\ r + k \in Nat
      /\ a <= b /\ b <= L + 1 /\ a <= L /\ b \in a..L + 1 /\ r + k \in 3 * b..Size(m)
      /\ r + k \in 3 * a..Size(m) /\ 3 * b \in 3 * a..Size(m)
  <2>1. 3 * b <= r + k /\ r + k < 3 * b + 3 /\ r + k \in Nat /\ b \in Nat
    BY <1>1
  <2> HIDE DEF b, L, T
  <2> QED BY <1>1, <2>1
<1> HIDE DEF b
<1>3. Mod!LastEnd(s) = 3 * (b - a) /\ Len(s) = r + k - 3 * a
  <2> HIDE DEF L, T, s
  <2> QED BY <1>2, LastEndIs, SymbolAt DEF s, L
<1>4. SubSeq(s, 1, Mod!LastEnd(s)) = Arrived(m, a, 3 * b)
  <2>1. /\ 3 * a \in 0..Len(T) /\ r + k \in 3 * a..Len(T) /\ 0 \in 0..r + k - 3 * a
        /\ 3 * (b - a) \in 0..r + k - 3 * a /\ 0 + 1 = 1
        /\ 3 * a + 0 + 1 = 3 * a + 1 /\ 3 * a + 3 * (b - a) = 3 * b
    <3> HIDE DEF T, L, s
    <3> QED BY <1>1, <1>2
  <2> HIDE DEF T
  <2>2. SubSeq(SubSeq(T, 3 * a + 1, r + k), 0 + 1, 3 * (b - a)) = SubSeq(T, 3 * a + 0 + 1, 3 * a + 3 * (b - a))
    <3> DEFINE from == 3 * a
               to == r + k
               whole == 3 * (b - a)
    <3>1. /\ T \in Seq(Symbols) /\ from \in 0..Len(T) /\ to \in from..Len(T)
          /\ 0 \in 0..to - from /\ whole \in 0..to - from
      BY <1>1, <2>1
    <3> HIDE DEF from, to, whole
    <3>2. SubSeq(SubSeq(T, from + 1, to), 0 + 1, whole) = SubSeq(T, from + 0 + 1, from + whole)
      BY <3>1, PartOfPart
    <3> QED BY <3>2 DEF from, to, whole
  <2>3. SubSeq(SubSeq(T, 3 * a + 1, r + k), 1, 3 * (b - a)) = SubSeq(T, 3 * a + 1, 3 * b)
    BY <2>1, <2>2, Zenon
  <2>4. s = SubSeq(T, 3 * a + 1, r + k) /\ Arrived(m, a, 3 * b) = SubSeq(T, 3 * a + 1, 3 * b)
    BY DEF Arrived, T
  <2> HIDE DEF s
  <2> QED BY <1>3, <2>3, <2>4, Zenon
<1>5. Mod!Remainder(s) = Arrived(m, b, r + k)
  <2>1. /\ 3 * a \in 0..Len(T) /\ r + k \in 3 * a..Len(T) /\ 3 * (b - a) \in 0..r + k - 3 * a
        /\ r + k - 3 * a \in 3 * (b - a)..r + k - 3 * a
        /\ 3 * a + 3 * (b - a) + 1 = 3 * b + 1 /\ 3 * a + (r + k - 3 * a) = r + k
    <3> HIDE DEF T, L, s
    <3> QED BY <1>1, <1>2
  <2> HIDE DEF T
  <2>2. SubSeq(SubSeq(T, 3 * a + 1, r + k), 3 * (b - a) + 1, r + k - 3 * a)
          = SubSeq(T, 3 * a + 3 * (b - a) + 1, 3 * a + (r + k - 3 * a))
    <3> DEFINE from == 3 * a
               to == r + k
               whole == 3 * (b - a)
               all == r + k - 3 * a
    <3>1. /\ T \in Seq(Symbols) /\ from \in 0..Len(T) /\ to \in from..Len(T)
          /\ whole \in 0..to - from /\ all \in whole..to - from
      BY <1>1, <2>1
    <3> HIDE DEF from, to, whole, all
    <3>2. SubSeq(SubSeq(T, from + 1, to), whole + 1, all) = SubSeq(T, from + whole + 1, from + all)
      BY <3>1, PartOfPart
    <3> QED BY <3>2 DEF from, to, whole, all
  <2>3. SubSeq(SubSeq(T, 3 * a + 1, r + k), 3 * (b - a) + 1, r + k - 3 * a) = SubSeq(T, 3 * b + 1, r + k)
    BY <2>1, <2>2, Zenon
  <2>4. s = SubSeq(T, 3 * a + 1, r + k) /\ Arrived(m, b, r + k) = SubSeq(T, 3 * b + 1, r + k)
    BY DEF Arrived, T
  <2> HIDE DEF s
  <2> QED BY <1>3, <2>3, <2>4, Zenon DEF Mod!Remainder
<1>6. Mod!ProcessLines(Arrived(m, a, 3 * b)) = SubSeq(m, a + 1, Upto(m, b))
  <2>1. Mod!ProcessLines(Arrived(m, a, 3 * b)) = Told(m, a, 3 * b - 3 * a)
    <3> HIDE DEF T, s
    <3> QED BY <1>2, LinesSay
  <2>2. a + ((3 * b - 3 * a) + 1) \div 3 = b
    <3> HIDE DEF T, s, L
    <3> QED BY <1>1, <1>2
  <2> QED BY <2>1, <2>2 DEF Told
<1>7. SubSeq(m, 1, Upto(m, a)) \o SubSeq(m, a + 1, Upto(m, b)) = SubSeq(m, 1, Upto(m, b))
  <2>1. Upto(m, a) = a /\ 0 \in 0..Len(m) /\ 0 + 1 = 1 /\ a \in 0..Len(m) /\ Upto(m, b) \in a..Len(m)
    <3> HIDE DEF T, s
    <3> QED BY <1>1, <1>2 DEF Upto
  <2>2. SubSeq(m, 0 + 1, a) \o SubSeq(m, a + 1, Upto(m, b)) = SubSeq(m, 0 + 1, Upto(m, b))
    <3> HIDE DEF T, s, L
    <3> QED BY <2>1, Joined
  <2> QED BY <2>1, <2>2, Zenon
<1> HIDE DEF s, T, L
<1>8. SubSeq(m, 1, Upto(m, a)) \o Mod!ProcessLines(SubSeq(s, 1, Mod!LastEnd(s))) = SubSeq(m, 1, Upto(m, b))
  BY <1>4, <1>6, <1>7, Zenon
<1> QED BY <1>2, <1>5, <1>8 DEF s, L

(* What is said when the body ends: a beginning of the answer, and all of   *)
(* it when the stream came to its end.                                      *)
LEMMA EndRead ==
  ASSUME NEW m \in Seq(Mod!Pieces), NEW a \in 0..Len(m) + 1, NEW r \in 3 * a..Size(m), r < 3 * a + 3
  PROVE  \E k \in 0..Len(m) :
           /\ SubSeq(m, 1, Upto(m, a)) \o Mod!ProcessLines(Arrived(m, a, r)) = SubSeq(m, 1, k)
           /\ r = Size(m) => k = Len(m)
<1> DEFINE L == Len(m)
           c == a + ((r - 3 * a) + 1) \div 3
           k == Upto(m, c)
<1>1. L \in Nat /\ a \in Nat /\ r \in Nat /\ Size(m) = 3 * L + 3
  BY DEF Size
<1>2. Mod!ProcessLines(Arrived(m, a, r)) = SubSeq(m, a + 1, k)
  BY LinesSay DEF Told
<1>3. c \in Nat /\ a <= c /\ c <= a + 1
  <2>1. r - 3 * a \in {0, 1, 2}
    BY <1>1
  <2> QED BY <1>1, <2>1
<1> HIDE DEF c
<1>4. k \in 0..L
  BY <1>1, <1>3 DEF Upto
<1>5. r = Size(m) => a = L + 1 /\ k = L
  BY <1>1, <1>3 DEF Upto
<1>6. SubSeq(m, 1, Upto(m, a)) \o SubSeq(m, a + 1, k) = SubSeq(m, 1, k)
  <2>1. CASE a <= L
    <3>1. Upto(m, a) = a /\ 0 \in 0..Len(m) /\ 0 + 1 = 1 /\ a \in 0..Len(m) /\ k \in a..Len(m)
      BY <1>1, <1>3, <2>1 DEF Upto
    <3> HIDE DEF k, L
    <3>2. SubSeq(m, 0 + 1, a) \o SubSeq(m, a + 1, k) = SubSeq(m, 0 + 1, k)
      BY <3>1, Joined
    <3> QED BY <3>1, <3>2, Zenon
  <2>2. CASE a = L + 1
    <3>1. Upto(m, a) = L /\ k = L /\ k < a + 1
      BY <1>1, <1>3, <2>2 DEF Upto
    <3>2. SubSeq(m, a + 1, k) = <<>>
      BY <1>1, <3>1, SubSeqEmpty
    <3>3. SubSeq(m, 1, L) = m
      BY SubSeqFull
    <3>4. m \o <<>> = m
      BY ConcatEmptySeq
    <3> HIDE DEF k
    <3> QED BY <3>1, <3>2, <3>3, <3>4, Zenon
  <2>3. a <= L \/ a = L + 1
    BY <1>1
  <2> QED BY <2>1, <2>2, <2>3
<1> HIDE DEF k
<1>7. SubSeq(m, 1, Upto(m, a)) \o Mod!ProcessLines(Arrived(m, a, r)) = SubSeq(m, 1, k)
  BY <1>2, <1>6, Zenon
<1> QED BY <1>4, <1>5, <1>7

(* Where the reading stands: a lines are read, r symbols have arrived.      *)
Stands(m, a, r) ==
  /\ a \in 0..Len(m) + 1 /\ r \in 3 * a..Size(m) /\ r < 3 * a + 3
  /\ rest = Arrived(m, a, r) /\ send = SubSeq(StreamOf(m), r + 1, Size(m))
  /\ text = SubSeq(m, 1, Upto(m, a))
AnswerInv ==
  /\ moment = "body" => meant \in Answers
  /\ moment = "body" /\ streaming /\ ~spoilt => \E a, r \in Nat : Stands(meant, a, r)
  /\ Mod!AnswerIsWhole

LEMMA AnswerInit ==
  ASSUME Mod!Init
  PROVE  AnswerInv
BY DEF Mod!Init, AnswerInv, Mod!AnswerIsWhole

LEMMA AnswerResponds ==
  ASSUME SaysOneThing, Mod!Responds
  PROVE  AnswerInv'
<1>1. /\ moment' = "body" /\ rest' = <<>> /\ text' = <<>> /\ streaming' = streaming
  BY DEF Mod!Responds
<1>2. PICK m \in Answers : \E g \in 0..IF streaming THEN Len(m) ELSE 0 :
        meant' = m /\ spoilt' = (g > 0) /\ send' = IF streaming THEN Mod!Stream(m, g) ELSE <<>>
  BY DEF Mod!Responds
<1>3. PICK g \in 0..IF streaming THEN Len(m) ELSE 0 :
        meant' = m /\ spoilt' = (g > 0) /\ send' = IF streaming THEN Mod!Stream(m, g) ELSE <<>>
  BY <1>2
<1>4. ASSUME streaming, ~spoilt'
      PROVE  Stands(m, 0, 0)'
  <2>1. m \in Seq(Mod!Pieces) /\ Len(m) \in Nat
    BY DEF SaysOneThing
  <2>2. g = 0
    <3>1. ~(g > 0)
      BY <1>3, <1>4, Zenon
    <3>2. g \in 0..Len(m)
      BY <1>4
    <3> QED BY <2>1, <3>1, <3>2
  <2>3. send' = StreamOf(m)
    BY <1>3, <1>4, <2>2 DEF StreamOf
  <2>4. StreamOf(m) \in Seq(Symbols) /\ Len(StreamOf(m)) = Size(m) /\ Size(m) \in Nat
    BY <2>1, StreamIs
  <2>5. SubSeq(StreamOf(m), 1, Size(m)) = StreamOf(m)
    BY <2>4, SubSeqFull
  <2>6. SubSeq(StreamOf(m), 3 * 0 + 1, 0) = <<>> /\ SubSeq(m, 1, 0) = <<>>
    BY SubSeqEmpty
  <2>7. 0 \in 0..Len(m) + 1 /\ 0 \in 3 * 0..Size(m) /\ 0 < 3 * 0 + 3 /\ 0 + 1 = 1 /\ Upto(m, 0) = 0
    BY <2>1, <2>4 DEF Upto
  <2>8. rest' = Arrived(m, 0, 0)
    BY <1>1, <2>6 DEF Arrived
  <2>9. send' = SubSeq(StreamOf(m), 0 + 1, Size(m)) /\ text' = SubSeq(m, 1, Upto(m, 0))
    BY <1>1, <2>3, <2>5, <2>6, <2>7, Zenon
  <2> QED BY <2>7, <2>8, <2>9 DEF Stands
<1>5. moment' = "body" /\ streaming' /\ ~spoilt' => \E a, r \in Nat : Stands(meant, a, r)'
  <2>1. 0 \in Nat
    OBVIOUS
  <2> QED BY <1>1, <1>3, <1>4, <2>1, Zenon DEF Stands
<1> QED BY <1>1, <1>3, <1>5 DEF AnswerInv, Mod!AnswerIsWhole

LEMMA AnswerChunk ==
  ASSUME SaysOneThing, AnswerInv, Mod!ReadChunk
  PROVE  AnswerInv'
<1>1. /\ moment = "body" /\ moment' = moment /\ streaming' = streaming /\ meant' = meant /\ spoilt' = spoilt
  BY DEF Mod!ReadChunk, Mod!Body
<1>2. ASSUME streaming, ~spoilt
      PROVE  \E a, r \in Nat : Stands(meant, a, r)'
  <2> DEFINE m == meant
  <2>1. m \in Seq(Mod!Pieces) /\ Len(m) \in Nat
    BY <1>1 DEF SaysOneThing, AnswerInv
  <2>2. PICK a, r \in Nat : Stands(m, a, r)
    BY <1>1, <1>2 DEF AnswerInv
  <2>3. PICK k \in 1..MaxChunk :
          LET s == rest \o SubSeq(send, 1, k)
          IN  /\ k <= Len(send) /\ send' = SubSeq(send, k + 1, Len(send))
              /\ text' = text \o Mod!ProcessLines(SubSeq(s, 1, Mod!LastEnd(s))) /\ rest' = Mod!Remainder(s)
    BY DEF Mod!ReadChunk
  <2> DEFINE T == StreamOf(m)
             N == Size(m)
  <2>4. T \in Seq(Symbols) /\ Len(T) = N /\ N \in Nat
    BY <2>1, StreamIs
  <2>5. /\ a \in 0..Len(m) + 1 /\ r \in 3 * a..N /\ r < 3 * a + 3
        /\ rest = SubSeq(T, 3 * a + 1, r) /\ send = SubSeq(T, r + 1, N) /\ text = SubSeq(m, 1, Upto(m, a))
    BY <2>2 DEF Stands, Arrived
  <2> HIDE DEF T, N
  <2>6. Len(send) = N - r /\ k \in Nat \ {0} /\ r + k <= N /\ k \in 0..N - r /\ r \in 0..Len(T) /\ N \in r..Len(T)
    <3>1. r \in 0..Len(T) /\ N \in r..Len(T)
      BY <2>4, <2>5
    <3>2. Len(SubSeq(T, r + 1, N)) = N - r
      BY <2>4, <3>1, PartOf
    <3>3. Len(send) = N - r
      BY <2>5, <3>2, Zenon
    <3>4. k \in Nat \ {0} /\ k <= N - r
      BY <2>3, <3>3 DEF SaysOneThing
    <3> QED BY <2>4, <3>1, <3>3, <3>4
  <2>7. send' = SubSeq(T, r + k + 1, N)
    <3>1. SubSeq(SubSeq(T, r + 1, N), k + 1, N - r) = SubSeq(T, r + k + 1, r + (N - r))
      <4>1. N - r \in k..N - r
        BY <2>4, <2>6
      <4> QED BY <2>4, <2>6, <4>1, PartOfPart
    <3>2. r + (N - r) = N
      BY <2>4
    <3>3. send' = SubSeq(send, k + 1, Len(send))
      BY <2>3
    <3> QED BY <2>5, <2>6, <3>1, <3>2, <3>3, Zenon
  <2>8. rest \o SubSeq(send, 1, k) = Arrived(m, a, r + k)
    <3>1. SubSeq(SubSeq(T, r + 1, N), 0 + 1, k) = SubSeq(T, r + 0 + 1, r + k)
      <4>1. 0 \in 0..N - r /\ k \in 0..N - r
        BY <2>4, <2>6
      <4> QED BY <2>4, <2>6, <4>1, PartOfPart
    <3>2. SubSeq(send, 1, k) = SubSeq(T, r + 1, r + k)
      <4>1. 0 + 1 = 1 /\ r + 0 + 1 = r + 1
        OBVIOUS
      <4> QED BY <2>5, <3>1, <4>1, Zenon
    <3>3. SubSeq(T, 3 * a + 1, r) \o SubSeq(T, r + 1, r + k) = SubSeq(T, 3 * a + 1, r + k)
      <4> DEFINE from == 3 * a
                 to == r + k
      <4>1. from \in 0..Len(T) /\ r \in from..Len(T) /\ to \in r..Len(T)
        BY <2>4, <2>5, <2>6
      <4> HIDE DEF from, to
      <4>2. SubSeq(T, from + 1, r) \o SubSeq(T, r + 1, to) = SubSeq(T, from + 1, to)
        BY <2>4, <4>1, Joined
      <4> QED BY <4>2 DEF from, to
    <3>4. Arrived(m, a, r + k) = SubSeq(T, 3 * a + 1, r + k)
      BY DEF Arrived, T
    <3> QED BY <2>5, <3>2, <3>3, <3>4, Zenon
  <2>9. PICK b \in a..Len(m) + 1 :
          /\ r + k \in 3 * b..N /\ r + k < 3 * b + 3
          /\ Mod!Remainder(Arrived(m, a, r + k)) = Arrived(m, b, r + k)
          /\ SubSeq(m, 1, Upto(m, a))
               \o Mod!ProcessLines(SubSeq(Arrived(m, a, r + k), 1, Mod!LastEnd(Arrived(m, a, r + k))))
             = SubSeq(m, 1, Upto(m, b))
    <3> HIDE DEF m
    <3> QED BY <2>1, <2>5, <2>6, ChunkRead DEF N
  <2>10. rest' = Arrived(m, b, r + k) /\ text' = SubSeq(m, 1, Upto(m, b))
    <3> DEFINE s == Arrived(m, a, r + k)
    <3>1. text' = text \o Mod!ProcessLines(SubSeq(s, 1, Mod!LastEnd(s))) /\ rest' = Mod!Remainder(s)
      BY <2>3, <2>8, Zenon
    <3> HIDE DEF s, m
    <3>2. Mod!Remainder(s) = Arrived(m, b, r + k)
      BY <2>9 DEF s
    <3>3. SubSeq(m, 1, Upto(m, a)) \o Mod!ProcessLines(SubSeq(s, 1, Mod!LastEnd(s))) = SubSeq(m, 1, Upto(m, b))
      BY <2>9 DEF s
    <3> QED BY <2>5, <3>1, <3>2, <3>3, Zenon
  <2>11. b \in 0..Len(m) + 1 /\ b \in Nat /\ r + k \in Nat
    BY <2>1, <2>5, <2>6
  <2>12. m' = m
    BY <1>1
  <2>13. Stands(meant, b, r + k)'
    BY <1>1, <2>7, <2>9, <2>10, <2>11 DEF Stands, T, N
  <2> QED BY <2>11, <2>13
<1> QED BY <1>1, <1>2 DEF AnswerInv, Mod!AnswerIsWhole

LEMMA AnswerEnds ==
  ASSUME SaysOneThing, AnswerInv, Mod!ReadStreamingContent
  PROVE  AnswerInv'
<1> DEFINE said == text \o Mod!ProcessLines(rest)
<1>1. /\ moment = "body" /\ streaming /\ streaming' = streaming /\ meant' = meant /\ spoilt' = spoilt
      /\ broken' = (send # <<>>) /\ result' = Mod!Parsed(said) /\ moment' \in {"ask", "done"}
  BY DEF Mod!ReadStreamingContent, Mod!Body, Mod!Complete
<1>2. ASSUME ~spoilt
      PROVE  /\ result' \in {Mod!Null, meant}
             /\ (~broken' /\ meant \in Mod!Objects) => result' = meant
  <2> DEFINE m == meant
             T == StreamOf(m)
             N == Size(m)
  <2>1. m \in Answers /\ m \in Seq(Mod!Pieces) /\ Len(m) \in Nat
    BY <1>1 DEF SaysOneThing, AnswerInv
  <2>2. PICK a, r \in Nat : Stands(m, a, r)
    BY <1>1, <1>2 DEF AnswerInv
  <2>3. /\ a \in 0..Len(m) + 1 /\ r \in 3 * a..N /\ r < 3 * a + 3
        /\ rest = Arrived(m, a, r) /\ send = SubSeq(T, r + 1, N) /\ text = SubSeq(m, 1, Upto(m, a))
    BY <2>2 DEF Stands
  <2>4. T \in Seq(Symbols) /\ Len(T) = N /\ N \in Nat
    BY <2>1, StreamIs
  <2> HIDE DEF m, T, N
  <2>5. PICK k \in 0..Len(m) :
          /\ SubSeq(m, 1, Upto(m, a)) \o Mod!ProcessLines(Arrived(m, a, r)) = SubSeq(m, 1, k)
          /\ r = N => k = Len(m)
    BY <2>1, <2>3, EndRead DEF N
  <2>6. said = SubSeq(m, 1, k)
    BY <2>3, <2>5, Zenon
  <2> HIDE DEF said
  <2>7. SubSeq(m, 1, Len(m)) = m
    BY <2>1, SubSeqFull
  <2>8. said \in Mod!Objects => said = m
    <3>1. k \in 0..Len(m) - 1 \/ k = Len(m)
      BY <2>1
    <3>2. k \in 0..Len(m) - 1 => SubSeq(m, 1, k) \notin Mod!Objects
      BY <2>1 DEF SaysOneThing
    <3> QED BY <2>6, <2>7, <3>1, <3>2, Zenon
  <2>9. ASSUME send = <<>>
        PROVE  said = m
    <3>1. r = N
      <4>1. r \in 0..Len(T) /\ N \in r..Len(T)
        BY <2>3, <2>4
      <4>2. Len(SubSeq(T, r + 1, N)) = N - r
        BY <2>4, <4>1, PartOf
      <4>3. Len(<<>>) = 0
        OBVIOUS
      <4>4. N - r = 0
        BY <2>3, <2>9, <4>2, <4>3, Zenon
      <4> QED BY <2>3, <2>4, <4>4
    <3> QED BY <2>5, <2>6, <2>7, <3>1, Zenon
  <2>10. result' = IF said \in Mod!Objects THEN said ELSE Mod!Null
    BY <1>1 DEF Mod!Parsed
  <2>11. result' \in {Mod!Null, m}
    BY <2>8, <2>10
  <2>12. ~broken' /\ m \in Mod!Objects => result' = m
    BY <1>1, <2>9, <2>10
  <2> QED BY <2>11, <2>12 DEF m
<1> HIDE DEF said
<1>3. (moment' = "done" /\ ~spoilt') =>
        result' \in {Mod!Null, meant'} /\ ((~broken' /\ meant' \in Mod!Objects) => result' = meant')
  BY <1>1, <1>2, Zenon
<1>4. moment' # "body"
  BY <1>1
<1>5. Mod!AnswerIsWhole'
  BY <1>3 DEF Mod!AnswerIsWhole
<1> QED BY <1>4, <1>5 DEF AnswerInv

LEMMA AnswerStep ==
  ASSUME SaysOneThing, AnswerInv, [Mod!Next]_(Mod!vars)
  PROVE  AnswerInv'
<1>1. CASE UNCHANGED Mod!vars
  BY <1>1 DEF AnswerInv, Mod!vars, Mod!AnswerIsWhole, Stands
<1>2. CASE Mod!Retrieve
  BY <1>2 DEF AnswerInv, Mod!Retrieve, Mod!AnswerIsWhole
<1>3. CASE Mod!NoResponse \/ Mod!ConnectionLost \/ Mod!Abort
  BY <1>3 DEF AnswerInv, Mod!NoResponse, Mod!ConnectionLost, Mod!Abort, Mod!Body, Mod!Complete, Mod!AnswerIsWhole
<1>4. CASE Mod!ReadCompletion
  <2>1. /\ meant' = meant /\ moment' \in {"ask", "done"}
        /\ result' = IF broken' THEN Mod!Null ELSE Mod!Parsed(meant)
    BY <1>4 DEF Mod!ReadCompletion, Mod!Body, Mod!Complete
  <2>2. result' \in {Mod!Null, meant} /\ ((~broken' /\ meant \in Mod!Objects) => result' = meant)
    BY <2>1 DEF Mod!Parsed
  <2> QED BY <2>1, <2>2 DEF AnswerInv, Mod!AnswerIsWhole
<1>5. CASE Mod!Responds
  BY <1>5, AnswerResponds
<1>6. CASE Mod!ReadChunk
  BY <1>6, AnswerChunk
<1>7. CASE Mod!ReadStreamingContent
  BY <1>7, AnswerEnds
<1> QED BY <1>1, <1>2, <1>3, <1>4, <1>5, <1>6, <1>7 DEF Mod!Next, Mod!Provider

(* Half an answer is never handed on as one, wherever the stream is cut.    *)
THEOREM AnswerHolds == SaysOneThing /\ Mod!Spec => []Mod!AnswerIsWhole
<1> SUFFICES ASSUME SaysOneThing PROVE Mod!Spec => []Mod!AnswerIsWhole
  OBVIOUS
<1>1. Mod!Init => AnswerInv
  BY AnswerInit
<1>2. AnswerInv /\ [Mod!Next]_(Mod!vars) => AnswerInv'
  BY AnswerStep
<1>3. AnswerInv => Mod!AnswerIsWhole
  BY DEF AnswerInv
<1> QED BY <1>1, <1>2, <1>3, PTL DEF Mod!Spec
================================================================================
