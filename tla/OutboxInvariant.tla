---------------------------- MODULE OutboxInvariant ----------------------------
(***************************************************************************)
(* The inductive invariant behind AtMostOnce and RestartIsSafe.            *)
(*                                                                         *)
(* A worker holds attempt number att of its row; it is the row's starter   *)
(* when it may send, that is, when it does not merely reconcile.  All      *)
(* turns on one fact: while a starter lives, whether or not its lock or    *)
(* its row was taken from it, the row cannot be started afresh, so it has  *)
(* no second starter, and every other attempt's outcome is known.          *)
(***************************************************************************)
EXTENDS OutboxRefinement

Holds(w, a) == run[w].act = a /\ run[w].att > 0
Starter(w, a) == Holds(w, a) /\ ~run[w].rec

(* Attempts are numbered by the claims of their row; only messages have a   *)
(* receipt that reports are matched with.                                   *)
Numbering ==
  /\ \A w \in Workers :
       /\ run[w].pc \in {"idle", "claim"} => run[w].att = 0
       /\ run[w].pc \in {"prepare", "upload", "send", "wait", "commit"} => run[w].att > 0
       /\ run[w].act \in Actions =>
            /\ run[w].att <= row[run[w].act].retry
            /\ run[w].prior <= row[run[w].act].retry
            /\ run[w].res <= row[run[w].act].retry
  /\ \A a \in Actions :
       /\ row[a].msg <= row[a].retry /\ row[a].saved <= row[a].retry
       /\ row[a].msg # 0 => IsWhatsApp(a)
       /\ row[a].status = "ABSENT" => row[a].retry = 0
       /\ \A n \in Attempts : wire[a][n] # "none" => n <= row[a].retry

(* No two workers hold the same attempt, and one that has not sent yet      *)
(* holds an attempt without request.                                        *)
Distinct ==
  /\ \A v, w \in Workers : v # w /\ run[v].act = run[w].act /\ run[v].att > 0 =>
       run[v].att # run[w].att
  /\ \A w \in Workers : run[w].pc \in {"prepare", "upload", "send"} =>
       wire[run[w].act][run[w].att] = "none"

(* Nobody else knows the message of an attempt that is still held. *)
Private ==
  \A w \in Workers, a \in Actions : Holds(w, a) /\ IsWhatsApp(a) =>
    /\ row[a].msg # run[w].att /\ row[a].saved # run[w].att
    /\ \A v \in Workers : v # w /\ run[v].act = a =>
         run[v].prior # run[w].att /\ run[v].res # run[w].att

(* A row with a starter cannot be started afresh. *)
Claimable ==
  \A w \in Workers, a \in Actions :
    Starter(w, a) => row[a].status \notin Restartable

OneStarter ==
  \A v, w \in Workers, a \in Actions : Starter(v, a) /\ Starter(w, a) => v = w

(* Beside a starter's own request nothing is open. *)
Alone ==
  \A w \in Workers, a \in Actions : Starter(w, a) /\ Covered(a) =>
    \A n \in Attempts : n # run[w].att => ~Open(a, n)

(* A starter about to report a failure has no request, or a refused one. *)
Honest ==
  \A w \in Workers, a \in Actions :
    Starter(w, a) /\ Covered(a) /\ At(w, "catch") /\ ~Uncertain(run[w]) =>
      wire[a][run[w].att] \in {"none", "refused"}

Rekeys == budget.rekeys <= MaxRekeys

(* IInv: the inductive invariant; see the head of the module               *)
(* (action-executor.ts:108-112, 140-148, 262-287, workers.ts:37-38).       *)
IInv ==
  /\ TypeOK /\ Rekeys /\ Numbering /\ Distinct /\ Private
  /\ Claimable /\ OneStarter /\ Alone /\ Honest
  /\ AtMostOnce /\ RestartIsSafe

-------------------------------------------------------------------------------
(* What the evidence behind a settled row rests on.                         *)

(* A result that a worker or a row keeps is that of a request which was     *)
(* applied, and only messages are delivered or bounce.                      *)
Evidence ==
  /\ \A w \in Workers :
       /\ At(w, "commit") => run[w].res # 0
       /\ run[w].act \in Actions =>
            \A n \in {run[w].prior, run[w].res} \ {0} : Applied(run[w].act, n)
  /\ \A a \in Actions :
       /\ row[a].saved # 0 => Applied(a, row[a].saved)
       /\ row[a].status = "EXECUTED" /\ IsWhatsApp(a) => row[a].msg # 0
       /\ ~IsWhatsApp(a) =>
            \A n \in Attempts : wire[a][n] \notin {"delivered", "bounced", "buried"}

(* EvInv: inductive beside IInv (action-executor.ts:112, 117, 138, 281-282). *)
EvInv == Evidence /\ DoneIsBacked /\ AdvanceIsBacked

(* As long as no lock was lost, the worker that is not idle has the lock,   *)
(* its row exists, and until it has sent, the case is as it was decided for *)
(* (action-executor.ts:55-60, 76-79, 101).                                  *)
LocksKept == budget.losses = MaxLosses
Unsent == {"claim", "prepare", "upload", "send"}
InTime ==
  /\ budget.losses <= MaxLosses
  /\ \A w \in Workers : ~At(w, "idle") => row[run[w].act].status # "ABSENT"
  /\ LocksKept =>
       \A w \in Workers : ~At(w, "idle") =>
         /\ lock = w
         /\ ~run[w].rec /\ run[w].pc \in Unsent => DecidedFor(run[w].act)

(* SentWhileLocked: SentAsDecided for every number of lost locks: up to the *)
(* first loss a request leaves only for what it was decided for.            *)
SentWhileLocked ==
  [][LocksKept => \A a \in Actions, n \in Attempts :
       wire[a][n] = "none" /\ wire'[a][n] = "flying" => DecidedFor(a)]_vars

===============================================================================
