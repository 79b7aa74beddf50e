------------------------------ MODULE EffectOnce ------------------------------
(***************************************************************************)
(* What the outbox promises about the outside world, without rows, locks,  *)
(* versions or workers.  A remote effect (a message to the client, a       *)
(* document filed in Kmaleon, an order placed with the partner) needs a    *)
(* permit; starting it uses the permit up; a new permit is given only once *)
(* the request that was made is known to have failed.                      *)
(***************************************************************************)
CONSTANTS Effects, Requests

VARIABLES
  permits,  \* effects that may be started afresh
  pending   \* [Effects -> SUBSET Requests]: requests that may take effect

vars == <<permits, pending>>

Init == permits = Effects /\ pending = [e \in Effects |-> {}]

(* Effects are started, put aside or given up: their permits are gone. *)
Take ==
  /\ permits' \subseteq permits
  /\ UNCHANGED pending

(* The one request of a started effect. *)
Request(e, r) ==
  /\ e \notin permits /\ pending[e] = {}
  /\ pending' = [pending EXCEPT ![e] = {r}]
  /\ UNCHANGED permits

(* The request failed for certain, which may be learned with a new permit. *)
Fail(e) ==
  /\ pending' = [pending EXCEPT ![e] = {}]
  /\ permits' \in {permits, permits \cup {e}}

(* Nothing was ever requested, or it is known to have failed. *)
Permit(e) ==
  /\ pending[e] = {}
  /\ permits' = permits \cup {e}
  /\ UNCHANGED pending

Next ==
  \/ Take
  \/ \E e \in Effects : Fail(e) \/ Permit(e) \/ \E r \in Requests : Request(e, r)

Spec == Init /\ [][Next]_vars

===============================================================================
