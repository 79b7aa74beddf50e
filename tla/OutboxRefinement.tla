--------------------------- MODULE OutboxRefinement ---------------------------
(* The outbox implements EffectOnce: a permit is a row that may be started  *)
(* afresh, a pending request one whose outcome is open.                     *)
EXTENDS Outbox

(* Kmaleon writes whose project may change identity are left out. *)
Guarded == {a \in Actions : Searchable(a) => MaxRekeys = 0}
Permits == {a \in Guarded : row[a].status \in Restartable}
Pending == [a \in Guarded |-> {n \in Attempts : Open(a, n)}]

Once == INSTANCE EffectOnce WITH
  Effects <- Guarded, Requests <- Attempts, permits <- Permits, pending <- Pending

(* EffectOnce: rows, locks, versions, crashes and late answers together     *)
(* never start an effect without a permit, never request one twice and      *)
(* never give a permit back while a request may still take effect           *)
(* (action-executor.ts:108-148, workers.ts:37-38, server.ts:187-194).       *)
ImplementsEffectOnce == Once!Spec

===============================================================================
