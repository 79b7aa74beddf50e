---------------------------- MODULE GatewayStream ----------------------------
(* How the messages that the WhatsApp gateway keeps reach the inbox of the  *)
(* bot: one socket that replays from a cursor, a chain that hands over one  *)
(* delivery at a time, and the cursor saved in Redis after each.  The       *)
(* gateway numbers what it keeps from 1 and starts again when it restarts;  *)
(* the inbox drops the message ids it already has.                          *)
EXTENDS Integers, Sequences, FiniteSets, SequencesExt

CONSTANTS
  MaxMessages,   \* bound: messages the gateway receives
  MaxSockets,    \* bound: sockets that fail, each of them once
  MaxRestarts,   \* bound: restarts of the gateway
  MaxFailures    \* bound: deliveries that fail, and crashes of the bot

(* LOST: the schema cannot read it; REJECTED: the validation of the bot     *)
(* refuses it, this time and every other.                                   *)
Kinds == {"GOOD", "REJECTED", "LOST"}

VARIABLES
  sent,      \* the kinds of all messages, in the order the gateway got them
  base,      \* those it forgot in a restart: message base + n has cursor n
  restarts,
  stage,     \* the connect: down, load, apply, reset, up
  latest,    \* the cursor that /health told this connect
  seen,      \* the cursor this connect read in Redis
  socket,    \* its number, the cursor it carried last, whether it is alive
  abandoned, \* a delivery of this socket failed: its later ones are dropped
  chain,     \* what arrived: [id, cursor, from]
  step,      \* the delivery at the head of the chain: idle, handle, save
  cursor, saved,
  inbox,     \* the ids committed, in order
  failures
vars == <<sent, base, restarts, stage, latest, seen, socket, abandoned, chain, step,
          cursor, saved, inbox, failures>>
gateway == <<sent, base, restarts>>
connect == <<stage, latest, seen, socket>>
intake == <<abandoned, chain, step, cursor, saved, inbox>>

Init ==
  /\ sent = <<>> /\ base = 0 /\ restarts = 0
  /\ stage = "down" /\ latest = 0 /\ seen = 0 /\ socket = [n |-> 0, at |-> 0, alive |-> FALSE]
  /\ abandoned = {} /\ chain = <<>> /\ step = "idle"
  /\ cursor = 0 /\ saved = 0 /\ inbox = <<>> /\ failures = 0

(* ---------------- the gateway, as the bot knows it ---------------------- *)
Kept == Len(sent) - base
Receives ==
  /\ Len(sent) < MaxMessages /\ \E k \in Kinds : sent' = Append(sent, k)
  /\ UNCHANGED <<base, restarts, connect, intake, failures>>
Restarts ==
  /\ restarts < MaxRestarts /\ restarts' = restarts + 1
  /\ base' = Len(sent) /\ socket' = [socket EXCEPT !.alive = FALSE]
  /\ UNCHANGED <<sent, stage, latest, seen, intake, failures>>
Carries ==
  /\ socket.alive /\ socket.at < Kept
  /\ socket' = [socket EXCEPT !.at = @ + 1]
  /\ chain' = Append(chain, [id |-> base + socket.at + 1, cursor |-> socket.at + 1,
                             from |-> socket.n])
  /\ UNCHANGED <<gateway, stage, latest, seen, abandoned, step, cursor, saved, inbox, failures>>
(* A socket dies without a word, as on a free plan that goes to sleep.      *)
Drops ==
  /\ socket.alive /\ socket.n <= MaxSockets /\ socket' = [socket EXCEPT !.alive = FALSE]
  /\ UNCHANGED <<gateway, stage, latest, seen, intake, failures>>

(* -------------------------------- connect ------------------------------- *)
Health ==
  /\ stage = "down" /\ stage' = "load" /\ latest' = Kept
  /\ UNCHANGED <<gateway, seen, socket, intake, failures>>
Load ==
  /\ stage = "load" /\ stage' = "apply" /\ seen' = saved
  /\ UNCHANGED <<gateway, latest, socket, intake, failures>>
Mut_Opened(since) == [n |-> socket.n + 1, at |-> latest, alive |-> TRUE]
Opened(since) == [n |-> socket.n + 1, at |-> since, alive |-> TRUE]
Restarted == seen > latest
Apply ==
  /\ stage = "apply"
  /\ IF Restarted THEN cursor' = 0 /\ stage' = "reset" /\ UNCHANGED socket
     ELSE cursor' = seen /\ stage' = "up" /\ socket' = Opened(seen)
  /\ UNCHANGED <<gateway, latest, seen, abandoned, chain, step, saved, inbox, failures>>
Reset ==
  /\ stage = "reset" /\ saved' = 0 /\ stage' = "up" /\ socket' = Opened(cursor)
  /\ UNCHANGED <<gateway, latest, seen, abandoned, chain, step, cursor, inbox, failures>>
(* onclose, and the periodic check that closes a socket nobody listens to.  *)
Closes ==
  /\ stage = "up" /\ ~socket.alive /\ stage' = "down"
  /\ UNCHANGED <<gateway, latest, seen, socket, intake, failures>>

(* ------------------------------- deliver -------------------------------- *)
Cur == Head(chain)
Passed == Cur.from \in abandoned \/ sent[Cur.id] = "LOST" \/ Cur.cursor <= cursor
PassOver ==
  /\ step = "idle" /\ chain # <<>> /\ Passed /\ chain' = Tail(chain)
  /\ UNCHANGED <<gateway, connect, abandoned, step, cursor, saved, inbox, failures>>
Handle ==
  /\ step = "idle" /\ chain # <<>> /\ ~Passed /\ step' = "handle"
  /\ UNCHANGED <<gateway, connect, abandoned, chain, cursor, saved, inbox, failures>>
Commits ==
  /\ step = "handle" /\ step' = "save" /\ cursor' = Cur.cursor
  /\ inbox' = IF sent[Cur.id] = "REJECTED" \/ Cur.id \in Range(inbox) THEN inbox
              ELSE Append(inbox, Cur.id)
  /\ UNCHANGED <<gateway, connect, abandoned, chain, saved, failures>>
Mut_Abandoned == abandoned
Abandoned == abandoned \cup {Cur.from}
(* The rest of that socket waits for the replay, and the socket closes.     *)
Fails ==
  /\ step = "handle" /\ sent[Cur.id] # "REJECTED" /\ failures < MaxFailures
  /\ failures' = failures + 1 /\ step' = "idle" /\ chain' = Tail(chain)
  /\ abandoned' = Abandoned
  /\ socket' = IF socket.n = Cur.from THEN [socket EXCEPT !.alive = FALSE] ELSE socket
  /\ UNCHANGED <<gateway, stage, latest, seen, cursor, saved, inbox>>
SaveCursor ==
  /\ step = "save" /\ step' = "idle" /\ chain' = Tail(chain) /\ saved' = Cur.cursor
  /\ UNCHANGED <<gateway, connect, abandoned, cursor, inbox, failures>>
Crashes ==
  /\ failures < MaxFailures /\ failures' = failures + 1
  /\ stage' = "down" /\ socket' = [socket EXCEPT !.alive = FALSE]
  /\ chain' = <<>> /\ step' = "idle" /\ cursor' = 0
  /\ UNCHANGED <<gateway, latest, seen, abandoned, saved, inbox>>

Connecting == Health \/ Load \/ Apply \/ Reset \/ Closes
Delivering == PassOver \/ Handle \/ Commits \/ SaveCursor
Next == Receives \/ Restarts \/ Carries \/ Drops \/ Connecting \/ Delivering \/ Fails \/ Crashes
Spec == Init /\ [][Next]_vars
(* Retries and the periodic check are timers; a socket that is alive        *)
(* carries what the gateway keeps; nothing else has to happen.              *)
FairSpec == Spec /\ WF_vars(Connecting) /\ WF_vars(Delivering) /\ WF_vars(Carries)
-----------------------------------------------------------------------------
TypeOK ==
  /\ sent \in Seq(Kinds) /\ base \in 0..Len(sent) /\ {latest, seen, cursor, saved} \subseteq 0..MaxMessages
  /\ \A n \in DOMAIN chain : chain[n].id \in DOMAIN sent /\ chain[n].cursor <= chain[n].id
  /\ Range(inbox) \subseteq DOMAIN sent
Landed(id) == id \in DOMAIN sent /\ (sent[id] = "GOOD" => id \in Range(inbox))
(* The cursor is in Redis only once everything up to it is committed, so a  *)
(* crash or a dropped socket replays and skips nothing; a delivery that     *)
(* failed is not jumped over by those that came behind it on its socket.    *)
CursorIsCommitted == restarts = 0 => \A id \in 1..saved : Landed(id)
(* The inbox gets the messages in the order the gateway got them, over      *)
(* replays, dying sockets and an old socket whose deliveries still queue.   *)
InOrder == restarts = 0 => \A m, n \in DOMAIN inbox : m < n => inbox[m] < inbox[n]
Numbered == restarts = 0
Due(id) == id \in DOMAIN sent /\ id > base /\ ~Landed(id)
AllLanded == \A id \in 1..MaxMessages : ~Due(id)
(* While the gateway keeps its numbering, what it got lands in the end,     *)
(* whatever sockets die without a word and wherever the bot crashes.        *)
ReplayLands == (<>[]Numbered) => <>[]AllLanded
(* What the gateway keeps after a restart lands too: the bot is told of the *)
(* restart by a cursor that starts again at 0.                              *)
EveryDeliveryLands == <>[]AllLanded
-----------------------------------------------------------------------------
(* Why the two hold: what arrived from a socket that did not fail has no    *)
(* gap, from the cursor the socket was opened with to what it carried last. *)
Shapes ==
  /\ sent \in Seq(Kinds) /\ {base, restarts, seen, cursor, saved} \subseteq Nat
  /\ stage \in {"down", "load", "apply", "reset", "up"}
  /\ socket \in [n : Nat, at : Nat, alive : BOOLEAN]
  /\ chain \in Seq([id : Nat, cursor : Nat, from : Nat])
  /\ step \in {"idle", "handle", "save"} /\ (step # "idle" => chain # <<>>)
  /\ inbox \in Seq(Nat)
LandedUpTo(n) == \A id \in 1..n : Landed(id)
(* The message is on its way from this socket, before place m of the chain. *)
Queued(q, id, from, m) == \E n \in DOMAIN q : n < m /\ q[n].id = id /\ q[n].from = from
NoGap ==
  /\ \A m \in DOMAIN chain : chain[m].from \notin abandoned =>
       \A id \in 1..chain[m].id - 1 : Landed(id) \/ Queued(chain, id, chain[m].from, m)
  /\ socket.alive /\ socket.n \notin abandoned =>
       \A id \in 1..socket.at : Landed(id) \/ Queued(chain, id, socket.n, Len(chain) + 1)
HeadIsTaken ==
  step # "idle" =>
    /\ Cur.from \notin abandoned /\ sent[Cur.id] # "LOST"
    /\ step = "save" => Landed(Cur.id)
InboxHasNoGap ==
  /\ \A n \in DOMAIN inbox : inbox[n] \in DOMAIN sent /\ sent[inbox[n]] = "GOOD"
  /\ \A n \in DOMAIN inbox : \A id \in 1..inbox[n] - 1 : Landed(id)
(* Without a restart a message keeps its number, and every cursor has only  *)
(* messages behind it that landed.                                          *)
Unbroken ==
  /\ base = 0 /\ socket.at <= Len(sent)
  /\ \A m \in DOMAIN chain : chain[m].id \in DOMAIN sent /\ chain[m].cursor = chain[m].id
  /\ LandedUpTo(cursor) /\ LandedUpTo(saved) /\ (stage = "apply" => LandedUpTo(seen))
  /\ NoGap /\ HeadIsTaken /\ InboxHasNoGap /\ InOrder
(* StreamInv: the inductive invariant (gateway-stream.ts:60-125).           *)
StreamInv == Shapes /\ (restarts = 0 => Unbroken)
=============================================================================
