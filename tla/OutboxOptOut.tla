----------------------------- MODULE OutboxOptOut -----------------------------
(* What the outbox owes a client who opts out.  The webhook records an      *)
(* opt-out without the case lock, so it may come between any two steps of a *)
(* worker, and a request already past beforeEffect cannot be called back.   *)
EXTENDS Outbox

(* about to send a request of its own, past its last look at the case *)
Sending(w) == At(w, "send") /\ ~run[w].rec

(* OptOutHonoured: while a client is opted out, no worker gets past its     *)
(* last check, wherever the opt-out met it before: not after preparing the  *)
(* message, not after uploading its media, and not with the notice that a   *)
(* person takes over, which a pause lets through.  Only a request whose     *)
(* last check had passed before the opt-out still leaves                    *)
(* (action-executor.ts:67, 100, debounce-buffer.ts:29).                     *)
OptOutHonoured ==
  [][\A w \in Workers :
       kase.optOut /\ kase'.optOut /\ ~Sending(w) => ~Sending(w)']_vars

===============================================================================
