------------------------------ MODULE OutboxProofs ------------------------------
(* What the outbox does to its rows, for every set of actions and workers,  *)
(* every kind of row and every bound on faults.  It is type correct, never  *)
(* restarts an effect whose outcome is open, and implements EffectOnce.     *)
(* What is settled is backed by evidence, what is sent was decided for the  *)
(* case as it is, and nothing passes the last check while a client is opted *)
(* out.                                                                     *)
EXTENDS OutboxInvariant, OutboxOptOut, TLAPS

-------------------------------------------------------------------------------
(* Type correctness.                                                        *)

RunTypes ==
  /\ run \in [Workers -> Runs]
  /\ \A w \in Workers : ~At(w, "idle") => run[w].act \in Actions
WellTyped(rows) ==
  /\ rows \in [Actions -> Rows]
  /\ \A a \in Actions : rows[a].retry > 0 => rows[a].ctx # NoVersion
RowTypes == WellTyped(row)
WireTypes == wire \in [Actions -> [Attempts -> WireStates]]
Marks == history \subseteq Actions /\ fired \subseteq Actions
Locks == lock \in Workers \cup {Free}
BudgetTypes == budget \in Budgets
CaseTypes == kase \in Cases

-------------------------------------------------------------------------------
(* Type correctness, part by part.                                          *)

LEMMA TypeParts ==
  TypeOK <=> /\ CaseTypes /\ RowTypes /\ WireTypes /\ Marks
             /\ Locks /\ RunTypes /\ BudgetTypes
  BY DEF TypeOK, CaseTypes, RowTypes, WellTyped, WireTypes, Marks, Locks, RunTypes, BudgetTypes

LEMMA TypePartsNext ==
  TypeOK' <=> /\ CaseTypes' /\ RowTypes' /\ WireTypes' /\ Marks'
              /\ Locks' /\ RunTypes' /\ BudgetTypes'
  BY DEF TypeOK, CaseTypes, RowTypes, WellTyped, WireTypes, Marks, Locks, RunTypes, BudgetTypes

LEMMA TypeInit == Init => TypeOK
  BY OutboxAssumption, SMTT(25) DEF Init, TypeOK, Cases, Rows, Runs, Budgets, NewRow, Idle,
     Statuses, WireStates, PCs, Errors, NoVersion, At, Attempts

LEMMA IdleType == Idle \in Runs /\ Idle.pc = "idle"
  BY OutboxAssumption DEF Idle, Runs, PCs, Errors

LEMMA RunUpdate ==
  ASSUME RunTypes, NEW w \in Workers, NEW r \in Runs,
         r.pc # "idle" => r.act \in Actions,
         run' = [run EXCEPT ![w] = r]
  PROVE  RunTypes'
  BY DEF RunTypes, At

LEMMA RunGoes ==
  ASSUME RunTypes, NEW w \in Workers, NEW pc \in PCs, ~At(w, "idle"),
         run' = Go(w, pc)
  PROVE  RunTypes'
<1> DEFINE r == [run[w] EXCEPT !.pc = pc]
<1>1. r \in Runs /\ r.act \in Actions
  BY DEF RunTypes, Runs, At
<1>2. run' = [run EXCEPT ![w] = r]
  BY DEF Go
<1> QED
  BY <1>1, <1>2, RunUpdate

LEMMA RunThrows ==
  ASSUME RunTypes, NEW w \in Workers, NEW err \in Errors, ~At(w, "idle"),
         run' = Throw(w, err)
  PROVE  RunTypes'
<1> DEFINE r == [run[w] EXCEPT !.pc = "catch", !.err = err]
<1>1. r \in Runs /\ r.act \in Actions
  BY ZenonT(60) DEF RunTypes, Runs, At, PCs
<1>2. run' = [run EXCEPT ![w] = r]
  BY DEF Throw
<1> QED
  BY <1>1, <1>2, RunUpdate

LEMMA RunResult ==
  ASSUME RunTypes, NEW w \in Workers, NEW n \in 0 .. MaxAttempts, ~At(w, "idle"),
         run' = [run EXCEPT ![w].pc = "commit", ![w].res = n]
  PROVE  RunTypes'
<1> DEFINE r == [run[w] EXCEPT !.pc = "commit", !.res = n]
<1>1. r \in Runs /\ r.act \in Actions
  BY ZenonT(60) DEF RunTypes, Runs, At, PCs
<1> QED
  BY <1>1, RunUpdate, ZenonT(60)

LEMMA RunEnds ==
  ASSUME RunTypes, Locks, NEW w \in Workers,
         run' = [run EXCEPT ![w] = Idle], lock' = Release(w)
  PROVE  RunTypes' /\ Locks'
  BY IdleType, RunUpdate DEF Release, Locks

LEMMA SpendType ==
  ASSUME BudgetTypes,
         NEW kind \in {"losses", "crashes", "faults", "stalls", "rekeys"}, Spend(kind)
  PROVE  BudgetTypes' /\ budget'.rekeys <= budget.rekeys
<1>1. CASE kind = "losses"  BY <1>1 DEF BudgetTypes, Budgets, Spend
<1>2. CASE kind = "crashes" BY <1>2 DEF BudgetTypes, Budgets, Spend
<1>3. CASE kind = "faults"  BY <1>3 DEF BudgetTypes, Budgets, Spend
<1>4. CASE kind = "stalls"  BY <1>4 DEF BudgetTypes, Budgets, Spend
<1>5. CASE kind = "rekeys"  BY <1>5 DEF BudgetTypes, Budgets, Spend
<1> QED
  BY <1>1, <1>2, <1>3, <1>4, <1>5

LEMMA RowUpdate ==
  ASSUME NEW rows, WellTyped(rows), NEW a \in Actions, NEW r \in Rows,
         r.retry > 0 => r.ctx # NoVersion
  PROVE  WellTyped([rows EXCEPT ![a] = r])
  BY DEF WellTyped

LEMMA StatusUpdate ==
  ASSUME NEW rows, WellTyped(rows), NEW a \in Actions, NEW s \in Statuses
  PROVE  WellTyped([rows EXCEPT ![a].status = s])
<1> DEFINE r == [rows[a] EXCEPT !.status = s]
<1>1. r \in Rows /\ (r.retry > 0 => r.ctx # NoVersion)
  BY DEF WellTyped, Rows
<1> QED
  BY <1>1, RowUpdate

LEMMA NewRowType ==
  ASSUME CaseTypes, NEW version \in Nat, NEW step \in Nat
  PROVE  NewRow(version, step) \in Rows /\ NewRow(version, step).retry = 0
  BY OutboxAssumption DEF NewRow, Rows, CaseTypes, Cases, Statuses

LEMMA RowsNext ==
  ASSUME WellTyped(row') PROVE RowTypes'
  BY DEF RowTypes, WellTyped

LEMMA CaseNumbers ==
  ASSUME CaseTypes
  PROVE  /\ kase.version \in Nat /\ kase.step \in Nat /\ kase.cycle \in Nat
         /\ kase.version + 1 \in Nat /\ kase.cycle + 1 \in Nat
  BY DEF CaseTypes, Cases

LEMMA ClosedType == CaseTypes => ClosedCase \in Cases
  BY CaseNumbers DEF ClosedCase, CaseTypes, Cases

LEMMA DecidedType ==
  ASSUME NEW rows, WellTyped(rows), CaseTypes, NEW version \in Nat, NEW step \in Nat,
         NEW q \in Decided(rows, version, step)
  PROVE  WellTyped(q)
<1>1. CASE q = rows
  BY <1>1
<1>2. CASE \E b \in Actions : q = [rows EXCEPT ![b] = NewRow(version, step)]
  <2>1. PICK b \in Actions : q = [rows EXCEPT ![b] = NewRow(version, step)]
    BY <1>2
  <2>2. /\ NewRow(version, step) \in Rows
        /\ NewRow(version, step).retry > 0 => NewRow(version, step).ctx # NoVersion
    BY NewRowType
  <2> QED
    BY <2>1, <2>2, RowUpdate
<1> QED
  BY <1>1, <1>2 DEF Decided

LEMMA CancelledType ==
  ASSUME RowTypes, NEW S
  PROVE  WellTyped(Cancelled(S))
<1>1. \A a \in Actions :
        LET r == [row[a] EXCEPT !.status = "CANCELLED"] IN
          r \in Rows /\ (r.retry > 0 => r.ctx # NoVersion)
  BY DEF RowTypes, WellTyped, Rows, Statuses
<1> QED
  BY <1>1 DEF Cancelled, WellTyped, RowTypes

LEMMA AdvanceType ==
  ASSUME NEW rows, WellTyped(rows), CaseTypes, Marks, NEW a \in Actions, Advance(a, rows)
  PROVE  CaseTypes' /\ RowTypes' /\ fired' \subseteq Actions
<1>1. PICK s \in {kase.step, kase.step + 1} :
         /\ kase' = [kase EXCEPT !.version = @ + 1, !.step = s,
                                 !.cycle = @ + (s - kase.step)]
         /\ row' \in Decided(rows, kase.version + 1, s)
  BY DEF Advance
<1>2. s \in Nat /\ kase.version + 1 \in Nat /\ kase.cycle + (s - kase.step) \in Nat
  BY DEF CaseTypes, Cases
<1>3. CaseTypes'
  BY <1>1, <1>2 DEF CaseTypes, Cases
<1>4. RowTypes'
  BY <1>1, <1>2, DecidedType DEF RowTypes, WellTyped
<1> QED
  BY <1>3, <1>4 DEF Advance, Marks

LEMMA TypeBegin ==
  ASSUME TypeOK, NEW w \in Workers, NEW a \in Actions, Begin(w, a)
  PROVE  TypeOK'
<1>0. row[a] \in Rows /\ kase \in Cases
  BY DEF TypeOK
<1>1. /\ PinnedVersion(a, kase) \in Nat /\ kase.version \in Nat
      /\ kase.step \in Nat /\ row[a].retry \in 0 .. MaxAttempts
  BY <1>0 DEF PinnedVersion, Rows, Cases, NoVersion
<1>2. 0 \in 0 .. MaxAttempts /\ "claim" \in PCs /\ "none" \in Errors
  BY OutboxAssumption DEF PCs, Errors
<1>3. /\ (ForTeam(a) /\ kase.escalated) \in BOOLEAN
      /\ (row[a].status = "UNCERTAIN") \in BOOLEAN
  BY DEF ForTeam
<1> DEFINE r == [Idle EXCEPT !.pc = "claim", !.act = a,
                    !.rec = (row[a].status = "UNCERTAIN"), !.seen = row[a].retry,
                    !.ver = IF row[a].status = "UNCERTAIN"
                            THEN PinnedVersion(a, kase) ELSE kase.version,
                    !.step = kase.step,
                    !.team = ForTeam(a) /\ kase.escalated]
<1>4. r \in Runs /\ r.act \in Actions
  BY <1>1, <1>2, <1>3 DEF Runs, Idle
<1>5. run' = [run EXCEPT ![w] = r]
  BY DEF Begin
<1>6. RunTypes'
  BY <1>4, <1>5, TypeParts, RunUpdate
<1> QED
  BY <1>6, TypeParts, TypePartsNext DEF Begin, CaseTypes, RowTypes, WireTypes, Marks,
     Locks, BudgetTypes

(* Steps of execute that change only the worker, its lock and the budget.   *)
Inside(w) ==
  \/ PreClaimFails(w) \/ AbortBeforeClaim(w) \/ ClaimLost(w) \/ Replay(w)
  \/ RefuseReconcile(w) \/ PrepareFails(w) \/ BeforeEffect(w) \/ UploadFails(w)
  \/ SearchFinds(w) \/ SearchUnresolved(w) \/ AdapterRefuses(w) \/ AnswerAccepted(w)
  \/ AnswerRefused(w) \/ AnswerLost(w) \/ ReadbackMismatch(w) \/ CommitFails(w)

LEMMA InsideType ==
  ASSUME TypeOK, NEW w \in Workers, Inside(w)
  PROVE  TypeOK'
<1>0. RunTypes /\ Locks /\ BudgetTypes
  BY TypeParts
<1>1. RunTypes' /\ Locks' /\ BudgetTypes'
  <2> USE <1>0
  <2>1. CASE PreClaimFails(w)
    <3>1. ~At(w, "idle") /\ UNCHANGED lock
      BY <2>1 DEF PreClaimFails, At
    <3>2. \E err \in Errors : run' = Throw(w, err)
      BY <2>1 DEF PreClaimFails, Errors
    <3>3. BudgetTypes'
      BY <2>1, SpendType DEF PreClaimFails
    <3> QED
      BY <3>1, <3>2, <3>3, RunThrows DEF Locks
  <2>2. CASE AbortBeforeClaim(w)
    BY <2>2, RunEnds DEF AbortBeforeClaim, BudgetTypes
  <2>3. CASE ClaimLost(w)
    BY <2>3, RunEnds DEF ClaimLost, BudgetTypes
  <2>4. CASE Replay(w)
    <3>1. run[w].prior \in 0 .. MaxAttempts /\ ~At(w, "idle")
      BY <2>4 DEF Replay, RunTypes, Runs, At
    <3> QED
      BY <2>4, <3>1, RunResult DEF Replay, BudgetTypes, Locks
  <2>5. CASE RefuseReconcile(w)
    BY <2>5, RunThrows DEF RefuseReconcile, At, Errors, BudgetTypes, Locks
  <2>6. CASE PrepareFails(w)
    <3>1. ~At(w, "idle") /\ UNCHANGED lock
      BY <2>6 DEF PrepareFails, At
    <3>2. \E err \in Errors : run' = Throw(w, err)
      BY <2>6 DEF PrepareFails, Errors
    <3>3. BudgetTypes'
      BY <2>6, SpendType DEF PrepareFails, BudgetTypes
    <3> QED
      BY <3>1, <3>2, <3>3, RunThrows DEF Locks
  <2>7. CASE BeforeEffect(w)
    <3>1. ~At(w, "idle") /\ UNCHANGED <<lock, budget>>
      BY <2>7 DEF BeforeEffect, At
    <3>2. CASE Halt(w) # "none"
      BY <2>7, <3>1, <3>2, RunThrows DEF BeforeEffect, Halt, Errors, BudgetTypes, Locks
    <3>3. CASE Halt(w) = "none"
      <4> DEFINE r == [run[w] EXCEPT !.tried = TRUE,
             !.pc = IF Kind[run[w].act] = "MEDIA" /\ At(w, "prepare")
                    THEN "upload" ELSE "send"]
      <4>0. r.pc \in PCs
        BY <3>1 DEF RunTypes, Runs, PCs, At
      <4>1. r \in Runs /\ r.act \in Actions
        BY <3>1, <4>0, ZenonT(60) DEF RunTypes, Runs
      <4>2. run' = [run EXCEPT ![w] = r]
        BY <2>7, <3>3 DEF BeforeEffect
      <4> QED
        BY <3>1, <4>1, <4>2, RunUpdate DEF BudgetTypes, Locks
    <3> QED
      BY <3>2, <3>3
  <2>8. CASE UploadFails(w)
    BY <2>8, RunThrows, SpendType DEF UploadFails, At, Errors, Locks
  <2>9. CASE SearchFinds(w)
    <3>1. ~At(w, "idle") /\ UNCHANGED <<lock, budget>>
      BY <2>9 DEF SearchFinds, At
    <3>2. PICK n \in FoundPrior(run[w].act) :
            run' = [run EXCEPT ![w].pc = "commit", ![w].res = n]
      BY <2>9 DEF SearchFinds
    <3>3. n \in 0 .. MaxAttempts
      BY OutboxAssumption DEF FoundPrior, Attempts
    <3> QED
      BY <3>1, <3>2, <3>3, RunResult DEF BudgetTypes, Locks
  <2>10. CASE SearchUnresolved(w)
    BY <2>10, RunThrows DEF SearchUnresolved, At, Errors, BudgetTypes, Locks
  <2>11. CASE AdapterRefuses(w)
    BY <2>11, RunThrows, SpendType DEF AdapterRefuses, At, Errors, Locks
  <2>12. CASE AnswerAccepted(w)
    <3>1. run[w].att \in 0 .. MaxAttempts /\ ~At(w, "idle")
      BY <2>12 DEF AnswerAccepted, RunTypes, Runs, At
    <3> QED
      BY <2>12, <3>1, RunResult DEF AnswerAccepted, BudgetTypes, Locks
  <2>13. CASE AnswerRefused(w)
    BY <2>13, RunThrows DEF AnswerRefused, At, Errors, BudgetTypes, Locks
  <2>14. CASE AnswerLost(w)
    BY <2>14, RunThrows DEF AnswerLost, At, Errors, BudgetTypes, Locks
  <2>15. CASE ReadbackMismatch(w)
    BY <2>15, RunThrows, SpendType DEF ReadbackMismatch, At, Errors, Locks
  <2>16. CASE CommitFails(w)
    <3>1. ~At(w, "idle") /\ UNCHANGED lock /\ run' = Throw(w, "uncertain")
      BY <2>16 DEF CommitFails, At
    <3>2. BudgetTypes'
      BY <2>16, SpendType DEF CommitFails, BudgetTypes
    <3> QED
      BY <3>1, <3>2, RunThrows DEF Locks, Errors
  <2> QED
    BY <2>1, <2>2, <2>3, <2>4, <2>5, <2>6, <2>7, <2>8, <2>9, <2>10, <2>11, <2>12,
       <2>13, <2>14, <2>15, <2>16 DEF Inside
<1>2. UNCHANGED <<kase, row, wire, history, fired>>
  BY DEF Inside, PreClaimFails, AbortBeforeClaim, ClaimLost, Replay, RefuseReconcile,
     PrepareFails, BeforeEffect, UploadFails, SearchFinds, SearchUnresolved,
     AdapterRefuses, AnswerAccepted, AnswerRefused, AnswerLost, ReadbackMismatch, CommitFails
<1> QED
  BY <1>1, <1>2, TypeParts, TypePartsNext DEF CaseTypes, RowTypes, WireTypes, Marks

LEMMA ClaimType ==
  ASSUME TypeOK, NEW w \in Workers, Claim(w)
  PROVE  TypeOK'
<1> DEFINE a == run[w].act
           r == [run[w] EXCEPT !.att = row[a].retry + 1, !.prior = row[a].saved,
                               !.pc = "prepare"]
<1>0. /\ run[w] \in Runs /\ a \in Actions /\ row[a] \in Rows
      /\ run[w].ver # NoVersion
  BY DEF TypeOK, Claim, At, Runs, NoVersion
<1>1. row[a].retry + 1 \in 0 .. MaxAttempts /\ row[a].saved \in 0 .. MaxAttempts
  BY <1>0, OutboxAssumption DEF Claim, Rows
<1>2. RunTypes'
  <2>1. r \in Runs /\ r.act \in Actions
    BY <1>0, <1>1 DEF Runs, PCs
  <2>2. run' = [run EXCEPT ![w] = r]
    BY DEF Claim
  <2> QED
    BY <2>1, <2>2, RunUpdate, TypeParts
<1>3. RowTypes'
  <2>1. /\ Claimed(run[w]) \in Rows
        /\ Claimed(run[w]).ctx # NoVersion
    BY <1>0, <1>1 DEF Claimed, Rows, Runs, Statuses
  <2>2. row' = [row EXCEPT ![a] = Claimed(run[w])]
    BY DEF Claim
  <2> QED
    BY <1>0, <2>1, <2>2, RowUpdate, TypeParts DEF RowTypes, WellTyped
<1> QED
  BY <1>2, <1>3, TypeParts, TypePartsNext DEF Claim, CaseTypes, WireTypes, Marks,
     Locks, BudgetTypes

LEMMA IssueType ==
  ASSUME TypeOK, NEW w \in Workers, Issue(w)
  PROVE  TypeOK'
<1>1. RunTypes'
  BY RunGoes, TypeParts DEF Issue, At, PCs
<1>2. WireTypes'
  BY DEF Issue, TypeOK, WireTypes, WireStates, At
<1> QED
  BY <1>1, <1>2, TypeParts, TypePartsNext DEF Issue, CaseTypes, RowTypes, WellTyped, Marks,
     Locks, BudgetTypes

LEMMA CommitType ==
  ASSUME TypeOK, NEW w \in Workers, Commit(w)
  PROVE  TypeOK'
<1> DEFINE a == run[w].act
           settled == [row EXCEPT ![a] = Settled(run[w])]
<1>0. run[w] \in Runs /\ a \in Actions /\ row[a] \in Rows /\ kase \in Cases
  BY DEF TypeOK, Commit, At
<1>1. WellTyped(settled)
  <2>0. 0 \in 0 .. MaxAttempts /\ run[w].res \in 0 .. MaxAttempts
        /\ run[w].ver \in Nat
    BY <1>0, OutboxAssumption DEF Runs
  <2>1. Settled(run[w]) \in Rows /\ Settled(run[w]).ctx = run[w].ver
    BY <1>0, <2>0 DEF Settled, Rows, Statuses
  <2>2. run[w].ver # NoVersion
    BY <1>0 DEF Runs, NoVersion
  <2> QED
    BY <1>0, <2>1, <2>2, RowUpdate, TypeParts DEF RowTypes
<1>2. RunTypes' /\ Locks'
  BY RunEnds, TypeParts DEF Commit
<1>3. history' \subseteq Actions
  BY <1>0 DEF Commit, TypeOK
<1>4. CaseTypes' /\ RowTypes' /\ fired' \subseteq Actions
  <2>1. CASE Advance(a, settled)
    BY <1>0, <1>1, <2>1, AdvanceType, TypeParts
  <2>2. CASE /\ row' = settled /\ UNCHANGED fired
             /\ \E active \in Contacted(IsWhatsApp(a)) :
                  kase' = [kase EXCEPT !.active = active]
    <3>1. Contacted(IsWhatsApp(a)) \subseteq BOOLEAN
      BY <1>0 DEF Contacted, Cases
    <3>2. CaseTypes'
      BY <1>0, <2>2, <3>1 DEF CaseTypes, Cases
    <3>3. RowTypes'
      BY <1>1, <2>2 DEF RowTypes, WellTyped
    <3> QED
      BY <2>2, <3>2, <3>3 DEF TypeOK
  <2> QED
    BY <2>1, <2>2 DEF Commit
<1> QED
  BY <1>2, <1>3, <1>4, TypeParts, TypePartsNext DEF Commit, WireTypes, Marks, BudgetTypes

LEMMA CatchType ==
  ASSUME TypeOK, NEW w \in Workers, Catch(w)
  PROVE  TypeOK'
<1> DEFINE r == run[w]
           a == r.act
           settled == [row EXCEPT ![a] = Written(r)]
<1>0. run[w] \in Runs /\ a \in Actions /\ row[a] \in Rows /\ Outcome(r) \in Statuses
  BY DEF TypeOK, Catch, At, Outcome, Statuses
<1>1. WellTyped(settled)
  <2>1. Written(r) \in Rows /\ Written(r).ctx = r.ver
    BY <1>0 DEF Written, Rows, Runs
  <2>2. r.ver # NoVersion
    BY <1>0 DEF Runs, NoVersion
  <2> QED
    BY <1>0, <2>1, <2>2, RowUpdate, TypeParts DEF RowTypes
<1>2. \A b \in Actions : WellTyped([settled EXCEPT ![b] = NewRow(r.ver, r.step)])
  <2>1. r.ver \in Nat /\ r.step \in Nat
    BY <1>0 DEF Runs
  <2>2. /\ NewRow(r.ver, r.step) \in Rows
        /\ NewRow(r.ver, r.step).retry > 0 => NewRow(r.ver, r.step).ctx # NoVersion
    BY <2>1, NewRowType, TypeParts
  <2> HIDE DEF settled
  <2> QED
    BY <1>1, <2>2, RowUpdate
<1>3. RowTypes'
  <2>1. CASE row' = row
    BY <2>1, TypeParts DEF RowTypes, WellTyped
  <2>2. CASE row' = settled
    BY <2>2, <1>1 DEF RowTypes, WellTyped
  <2>3. CASE /\ NoticeDue(a, Outcome(r))
             /\ row' = [row EXCEPT ![a] = Written(r), ![Notice(a)] = NewRow(r.ver, r.step)]
    <3>1. Notice(a) \in Actions
      BY <1>0, <2>3, OutboxAssumption DEF NoticeDue, Notice
    <3>2. row' = [settled EXCEPT ![Notice(a)] = NewRow(r.ver, r.step)]
      BY <2>3
    <3> QED
      BY <1>2, <3>1, <3>2 DEF RowTypes, WellTyped
  <2> QED
    BY <2>1, <2>2, <2>3 DEF Catch
<1>4. RunTypes' /\ Locks'
  BY RunEnds, TypeParts DEF Catch
<1> QED
  BY <1>3, <1>4, TypeParts, TypePartsNext DEF Catch, CaseTypes, WireTypes, Marks, BudgetTypes

LEMMA FaultType ==
  ASSUME TypeOK, NEW w \in Workers, Crash(w) \/ LoseLock(w) \/ NoticeLoss(w)
  PROVE  TypeOK'
<1>0. RunTypes /\ Locks /\ BudgetTypes
  BY TypeParts
<1>1. RunTypes' /\ Locks' /\ BudgetTypes'
  <2>1. CASE Crash(w)
    BY <1>0, <2>1, RunEnds, SpendType DEF Crash
  <2>2. CASE LoseLock(w)
    BY <1>0, <2>2, SpendType DEF LoseLock, RunTypes, Locks, At
  <2>3. CASE NoticeLoss(w)
    <3> DEFINE r == [run[w] EXCEPT !.aborted = TRUE]
    <3>1. r \in Runs /\ r.act \in Actions
      BY <1>0, <2>3, ZenonT(60) DEF NoticeLoss, RunTypes, Runs
    <3> QED
      BY <1>0, <2>3, <3>1, RunUpdate DEF NoticeLoss, Locks, BudgetTypes
  <2> QED
    BY <2>1, <2>2, <2>3
<1> QED
  BY <1>1, TypeParts, TypePartsNext DEF Crash, LoseLock, NoticeLoss,
     CaseTypes, RowTypes, WireTypes, Marks

(* Steps on one row taken under the lock or by the dispatcher.              *)
LEMMA UpkeepType ==
  ASSUME TypeOK, NEW a \in Actions, Upkeep(a)
  PROVE  TypeOK'
<1>0. /\ CaseTypes /\ RowTypes /\ WireTypes /\ Marks /\ Locks /\ RunTypes /\ BudgetTypes
      /\ row[a] \in Rows
  BY TypeParts DEF RowTypes, WellTyped
<1>1. CASE TurnAway(a)
  <2>1. Verdict(a, kase) \in Statuses
    BY <1>1 DEF TurnAway, Verdict, FreshVerdict, ReconcileVerdict, Statuses
  <2>2. RowTypes'
    BY <1>0, <1>1, <2>1, StatusUpdate, RowsNext DEF TurnAway, RowTypes
  <2> QED
    BY <1>0, <1>1, <2>2, TypePartsNext DEF TurnAway, CaseTypes, WireTypes, Marks,
       Locks, RunTypes, At, BudgetTypes
<1>2. CASE CloseAtDeadline(a)
  <2>1. CaseTypes'
    BY <1>0, <1>2, ClosedType DEF CloseAtDeadline, CaseTypes
  <2>2. RowTypes'
    BY <1>0, <1>2, CancelledType, RowsNext DEF CloseAtDeadline
  <2> QED
    BY <1>0, <1>2, <2>1, <2>2, TypePartsNext DEF CloseAtDeadline, WireTypes, Marks,
       Locks, RunTypes, At, BudgetTypes
<1>3. CASE DeliveryFailed(a)
  <2>1. RowTypes'
    BY <1>0, <1>3, StatusUpdate, RowsNext DEF DeliveryFailed, RowTypes, Statuses
  <2>2. WireTypes'
    BY <1>0, <1>3 DEF DeliveryFailed, MarkProcessed, Reports, WireTypes, WireStates
  <2> QED
    BY <1>0, <1>3, <2>1, <2>2, TypePartsNext DEF DeliveryFailed, CaseTypes, Marks,
       Locks, RunTypes, At, BudgetTypes
<1>4. CASE DeliveryConfirmed(a)
  <2> DEFINE settled == [row EXCEPT ![a].status = "EXECUTED"]
  <2>1. WellTyped(settled)
    BY <1>0, StatusUpdate DEF RowTypes, Statuses
  <2>2. CASE Advance(a, settled)
    BY <1>0, <1>4, <2>1, <2>2, AdvanceType, TypePartsNext DEF DeliveryConfirmed, WireTypes,
       Marks, Locks, RunTypes, At, BudgetTypes
  <2>3. CASE row' = settled /\ UNCHANGED <<kase, fired>>
    BY <1>0, <1>4, <2>1, <2>3, TypePartsNext DEF DeliveryConfirmed, CaseTypes, RowTypes,
       WellTyped, WireTypes, Marks, Locks, RunTypes, At, BudgetTypes
  <2> QED
    BY <1>4, <2>2, <2>3 DEF DeliveryConfirmed
<1>5. CASE RecoverStale(a)
  <2>1. RowTypes'
    BY <1>0, <1>5, StatusUpdate, RowsNext DEF RecoverStale, AfterCrash, RowTypes, Statuses
  <2>2. BudgetTypes'
    BY <1>0, <1>5, SpendType DEF RecoverStale, BudgetTypes
  <2> QED
    BY <1>0, <1>5, <2>1, <2>2, TypePartsNext DEF RecoverStale, CaseTypes, WireTypes, Marks,
       Locks, RunTypes, At
<1>6. CASE OperatorRetry(a)
  <2>1. RowTypes'
    BY <1>0, <1>6, StatusUpdate, RowsNext DEF OperatorRetry, RowTypes, Statuses
  <2> QED
    BY <1>0, <1>6, <2>1, TypePartsNext DEF OperatorRetry, CaseTypes, WireTypes, Marks,
       Locks, RunTypes, At, BudgetTypes
<1> QED
  BY <1>1, <1>2, <1>3, <1>4, <1>5, <1>6 DEF Upkeep

LEMMA ProposeType ==
  ASSUME CaseTypes, RowTypes, NEW a \in Actions, NEW version \in Nat, NEW step \in Nat,
         Propose(a, version, step)
  PROVE  RowTypes'
<1>1. /\ NewRow(version, step) \in Rows
      /\ NewRow(version, step).retry > 0 => NewRow(version, step).ctx # NoVersion
  BY NewRowType
<1>2. WellTyped([row EXCEPT ![a] = NewRow(version, step)])
  BY <1>1, RowUpdate DEF RowTypes
<1> QED
  BY <1>2 DEF Propose, RowTypes, WellTyped

(* Steps of clients, operators and time: the case, and new rows.            *)
Outside ==
  \/ Clients
  \/ \E a \in Actions : Others(a)
  \/ \E a \in Actions \cup {NoAction} : Escalate(a)

LEMMA TransitionType ==
  ASSUME CaseTypes, RowTypes, Transition
  PROVE  CaseTypes' /\ RowTypes'
<1>1. PICK s \in {kase.step, kase.step + 1} :
         /\ kase' = [kase EXCEPT !.version = @ + 1, !.step = s,
                                 !.cycle = @ + (s - kase.step)]
         /\ row' \in Decided(row, kase.version + 1, s)
  BY DEF Transition
<1>2. s \in Nat /\ kase.version + 1 \in Nat /\ kase.cycle + (s - kase.step) \in Nat
  BY DEF CaseTypes, Cases
<1>3. CaseTypes'
  BY <1>1, <1>2 DEF CaseTypes, Cases
<1>4. WellTyped(row')
  BY <1>1, <1>2, DecidedType DEF RowTypes
<1> QED
  BY <1>3, <1>4 DEF RowTypes, WellTyped

LEMMA OutsideType ==
  ASSUME TypeOK, Outside
  PROVE  TypeOK'
<1>0. /\ CaseTypes /\ RowTypes
      /\ kase.version \in Nat /\ kase.step \in Nat /\ kase.cycle \in Nat
      /\ kase.version + 1 \in Nat /\ kase.cycle + 1 \in Nat
  BY TypeParts, CaseNumbers
<1>1. CaseTypes' /\ RowTypes'
  <2> USE <1>0
  <2>1. CASE ClientTurn
    BY <2>1, TransitionType DEF ClientTurn
  <2>2. CASE OperatorEvent
    BY <2>2, TransitionType DEF OperatorEvent
  <2>3. CASE RecoverCase
    BY <2>3, CancelledType, RowsNext DEF RecoverCase, CaseTypes, Cases
  <2>4. ASSUME NEW paused \in BOOLEAN, SetAutomation(paused) PROVE CaseTypes' /\ RowTypes'
    BY <2>4 DEF SetAutomation, CaseTypes, Cases, RowTypes, WellTyped
  <2>5. CASE OptOut
    BY <2>5 DEF OptOut, CaseTypes, Cases, RowTypes, WellTyped
  <2>6. CASE Inbound
    BY <2>6 DEF Inbound, CaseTypes, Cases, RowTypes, WellTyped
  <2>7. CASE ClosePhaseOne
    BY <2>7, CancelledType, ClosedType, RowsNext DEF ClosePhaseOne, CaseTypes
  <2>8. CASE DeadlinePasses
    BY <2>8 DEF DeadlinePasses, CaseTypes, Cases, RowTypes, WellTyped
  <2>9. CASE DayPasses
    BY <2>9 DEF DayPasses, CaseTypes, Cases, RowTypes, WellTyped
  <2>12. CASE Reengage
    BY <2>12 DEF Reengage, CaseTypes, Cases, RowTypes, WellTyped
  <2>10. ASSUME NEW a \in Actions, Others(a) PROVE CaseTypes' /\ RowTypes'
    BY <2>10, ProposeType DEF Others, HeldAck, ScheduleReminder, CaseTypes
  <2>11. ASSUME NEW a \in Actions \cup {NoAction}, Escalate(a) PROVE CaseTypes' /\ RowTypes'
    <3>1. CaseTypes'
      BY <2>11 DEF Escalate, CaseTypes, Cases
    <3>2. RowTypes'
      BY <2>11, ProposeType DEF Escalate, RowTypes, WellTyped
    <3> QED
      BY <3>1, <3>2
  <2> QED
    BY <2>1, <2>2, <2>3, <2>4, <2>5, <2>6, <2>7, <2>8, <2>9, <2>10, <2>11, <2>12
       DEF Outside, Clients
<1>2. UNCHANGED caseRest
  BY DEF Outside, Clients, Others, ClientTurn, OperatorEvent, Transition, RecoverCase,
     SetAutomation, OptOut, Inbound, Reengage, ClosePhaseOne, DeadlinePasses, DayPasses, HeldAck,
     ScheduleReminder, Escalate
<1> QED
  BY <1>1, <1>2, TypeParts, TypePartsNext DEF caseRest, WireTypes, Marks, Locks, RunTypes,
     At, BudgetTypes

LEMMA CarrierType ==
  ASSUME TypeOK, NEW a \in Actions, NEW n \in Attempts, Carrier(a, n)
  PROVE  TypeOK'
<1>1. WireTypes'
  BY TypeParts DEF Carrier, Accept, Refuse, Deliver, Bounce, CarrierMoves, WireTypes, WireStates
<1> QED
  BY <1>1, TypeParts, TypePartsNext DEF Carrier, Accept, Refuse, Deliver, Bounce,
     CarrierMoves, CaseTypes, RowTypes, WellTyped, Marks, Locks, RunTypes, At, BudgetTypes

LEMMA TypeStep == TypeOK /\ [Next]_vars => TypeOK'
<1> SUFFICES ASSUME TypeOK, [Next]_vars PROVE TypeOK'
  OBVIOUS
<1>1. CASE UNCHANGED vars
  BY <1>1, TypeParts, TypePartsNext DEF vars, CaseTypes, RowTypes, WellTyped, WireTypes,
     Marks, Locks, RunTypes, At, BudgetTypes
<1>2. ASSUME NEW w \in Workers, NEW a \in Actions, Begin(w, a) PROVE TypeOK'
  BY <1>2, TypeBegin
<1>3. ASSUME NEW w \in Workers, Execute(w) PROVE TypeOK'
  BY <1>3, InsideType, ClaimType, IssueType, CommitType, CatchType DEF Execute, Inside
<1>4. ASSUME NEW w \in Workers, Crash(w) \/ LoseLock(w) \/ NoticeLoss(w) PROVE TypeOK'
  BY <1>4, FaultType
<1>5. ASSUME NEW a \in Actions, Upkeep(a) PROVE TypeOK'
  BY <1>5, UpkeepType
<1>6. ASSUME NEW a \in Actions, NEW n \in Attempts, Carrier(a, n) PROVE TypeOK'
  BY <1>6, CarrierType
<1>7. CASE Outside
  BY <1>7, OutsideType
<1> QED
  BY <1>1, <1>2, <1>3, <1>4, <1>5, <1>6, <1>7 DEF Next, Outside

(* TypeCorrect: no interleaving of workers, callbacks, crashes, operators   *)
(* and clients takes a variable out of its type, and a claimed row always   *)
(* has the context that its reconciliation will need.                       *)
THEOREM TypeCorrect == Spec => []TypeOK
  BY TypeInit, TypeStep, PTL DEF Spec

-------------------------------------------------------------------------------
(* Attempts.                                                                *)

QuietRow(a) ==
  /\ row'[a].retry = row[a].retry
  /\ row'[a].msg = row[a].msg /\ row'[a].saved = row[a].saved
  /\ row'[a].status \in Restartable => row[a].status \in Restartable
  /\ row'[a].status = "ABSENT" => row[a].status = "ABSENT"
QuietRows == \A a \in Actions : QuietRow(a)

LEMMA Numbers ==
  ASSUME TypeOK
  PROVE  /\ \A w \in Workers : run[w] \in Runs
         /\ \A w \in Workers : /\ run[w].att \in Nat /\ run[w].prior \in Nat
                               /\ run[w].res \in Nat
         /\ \A a \in Actions : /\ row[a] \in Rows
                               /\ row[a].retry \in Nat /\ row[a].msg \in Nat
                               /\ row[a].saved \in Nat
         /\ budget.rekeys \in Nat
  BY DEF TypeOK, Runs, Rows, Budgets

LEMMA AttemptRange ==
  ASSUME TypeOK, NEW w \in Workers, run[w].att > 0
  PROVE  run[w].att \in Attempts
<1>1. run[w].att \in 0 .. MaxAttempts
  BY DEF TypeOK, Runs
<1> QED
  BY <1>1, OutboxAssumption DEF Attempts

LEMMA CoveredBack ==
  ASSUME TypeOK, TypeOK', Rekeys, budget'.rekeys <= budget.rekeys,
         NEW a \in Actions, Covered(a)'
  PROVE  Covered(a)
<1>1. MaxRekeys \in Nat /\ budget.rekeys \in Nat /\ budget'.rekeys \in Nat
  BY OutboxAssumption DEF TypeOK, Budgets
<1>2. CASE Searchable(a)
  <2>1. budget'.rekeys = MaxRekeys
    BY <1>2 DEF Covered, Searchable
  <2> QED
    BY <1>1, <2>1 DEF Covered, Rekeys
<1> QED
  BY <1>2 DEF Covered

LEMMA RekeysBack ==
  ASSUME TypeOK, TypeOK', Rekeys, budget'.rekeys <= budget.rekeys
  PROVE  Rekeys'
  BY OutboxAssumption DEF TypeOK, Budgets, Rekeys

(* Rows change quietly and workers at most end: nothing is lost. *)
LEMMA Frame ==
  ASSUME IInv, TypeOK', QuietRows, UNCHANGED wire, budget'.rekeys <= budget.rekeys,
         \A w \in Workers : run'[w] \in {run[w], Idle}
  PROVE  IInv'
<1>0. /\ TypeOK /\ Rekeys /\ Numbering /\ Distinct /\ Private
      /\ Claimable /\ OneStarter /\ Alone /\ Honest /\ AtMostOnce /\ RestartIsSafe
  BY DEF IInv
<1>1. /\ Idle.att = 0 /\ Idle.prior = 0 /\ Idle.res = 0 /\ Idle.act = NoAction
      /\ Idle.pc = "idle" /\ NoAction \notin Actions
  BY OutboxAssumption DEF Idle
<1>2. \A a \in Actions : Covered(a)' => Covered(a)
  BY <1>0, CoveredBack
<1>3. Rekeys'
  BY <1>0, RekeysBack
<1>4. Numbering'
  BY <1>0, <1>1, Numbers DEF Numbering, QuietRows, QuietRow
<1>5. Distinct'
  BY <1>0, <1>1 DEF Distinct
<1>6. Private'
  BY <1>0, <1>1 DEF Private, Holds, QuietRows, QuietRow
<1>7. Claimable'
  BY <1>0, <1>1 DEF Claimable, Starter, Holds, QuietRows, QuietRow
<1>8. OneStarter'
  BY <1>0, <1>1 DEF OneStarter, Starter, Holds
<1>9. Alone'
  BY <1>0, <1>1, <1>2 DEF Alone, Starter, Holds, Open
<1>10. Honest'
  BY <1>0, <1>1, <1>2 DEF Honest, Starter, Holds, At, Uncertain
<1>11. AtMostOnce'
  BY <1>0, <1>2 DEF AtMostOnce, Open
<1>12. RestartIsSafe'
  BY <1>0, <1>2 DEF RestartIsSafe, Open, QuietRows, QuietRow
<1> QED
  BY <1>3, <1>4, <1>5, <1>6, <1>7, <1>8, <1>9, <1>10, <1>11, <1>12 DEF IInv

Early == {"prepare", "upload", "send"}
Running == Early \cup {"wait", "commit"}

(* A worker goes on with the attempt it has. *)
LEMMA GoesOn ==
  ASSUME IInv, TypeOK', UNCHANGED <<row, wire>>, budget'.rekeys <= budget.rekeys,
         NEW w \in Workers, NEW r \in Runs, run' = [run EXCEPT ![w] = r],
         NEW a \in Actions, run[w].act = a,
         r.act = a, r.att = run[w].att, r.rec = run[w].rec, r.prior = run[w].prior,
         r.pc \in {"idle", "claim"} => r.att = 0,
         r.pc \in Running => r.att > 0,
         r.pc \in Early => run[w].pc \in Early,
         r.res <= row[a].retry,
         IsWhatsApp(a) => \A v \in Workers : v # w /\ Holds(v, a) => r.res # run[v].att,
         Starter(w, a) /\ Covered(a)' /\ r.pc = "catch" /\ ~Uncertain(r) =>
           wire[a][r.att] \in {"none", "refused"}
  PROVE  IInv'
<1>0. /\ TypeOK /\ Rekeys /\ Numbering /\ Distinct /\ Private
      /\ Claimable /\ OneStarter /\ Alone /\ Honest /\ AtMostOnce /\ RestartIsSafe
  BY DEF IInv
<1>1. run \in [Workers -> Runs]
  BY <1>0 DEF TypeOK
<1>2. \A b \in Actions : Covered(b)' => Covered(b)
  BY <1>0, CoveredBack
<1>3. Rekeys'
  BY <1>0, RekeysBack
<1>4. Numbering'
  BY <1>0, <1>1, Numbers DEF Numbering, Running, Early
<1>5. Distinct'
  BY <1>0, <1>1 DEF Distinct, Early
<1>6. Private'
  BY <1>0, <1>1 DEF Private, Holds
<1>7. Claimable'
  BY <1>0, <1>1 DEF Claimable, Starter, Holds
<1>8. OneStarter'
  BY <1>0, <1>1 DEF OneStarter, Starter, Holds
<1>9. Alone'
  BY <1>0, <1>1, <1>2 DEF Alone, Starter, Holds, Open
<1>10. Honest'
  BY <1>0, <1>1, <1>2 DEF Honest, Starter, Holds, At, Uncertain
<1>11. AtMostOnce'
  BY <1>0, <1>2 DEF AtMostOnce, Open
<1>12. RestartIsSafe'
  BY <1>0, <1>2 DEF RestartIsSafe, Open
<1> QED
  BY <1>3, <1>4, <1>5, <1>6, <1>7, <1>8, <1>9, <1>10, <1>11, <1>12 DEF IInv

LEMMA Throws ==
  ASSUME IInv, TypeOK', UNCHANGED <<row, wire>>, budget'.rekeys <= budget.rekeys,
         NEW w \in Workers, ~At(w, "idle"), NEW err \in Errors, run' = Throw(w, err),
         NEW a \in Actions, run[w].act = a,
         \/ err = "uncertain" \/ run[w].att = 0 \/ run[w].pc \in Early
         \/ wire[a][run[w].att] = "refused" \/ ~Covered(a)'
  PROVE  IInv'
<1> DEFINE r == [run[w] EXCEPT !.pc = "catch", !.err = err]
<1>0. TypeOK /\ Numbering /\ Distinct /\ Private /\ run[w] \in Runs
  BY DEF IInv, TypeOK
<1>1. r \in Runs /\ run' = [run EXCEPT ![w] = r]
  BY <1>0 DEF Runs, PCs, Throw
<1>2. /\ r.act = a /\ r.att = run[w].att /\ r.rec = run[w].rec /\ r.prior = run[w].prior
      /\ r.res = run[w].res /\ r.pc = "catch" /\ r.err = err
  BY <1>0 DEF Runs
<1>3. r.res <= row[a].retry
  BY <1>0, <1>2 DEF Numbering
<1>4. IsWhatsApp(a) => \A v \in Workers : v # w /\ Holds(v, a) => r.res # run[v].att
  BY <1>0, <1>2 DEF Private
<1>5. Starter(w, a) /\ Covered(a)' /\ ~Uncertain(r) => wire[a][r.att] \in {"none", "refused"}
  <2>1. err = "uncertain" => Uncertain(r)
    BY <1>2 DEF Uncertain
  <2>2. run[w].att = 0 => ~Starter(w, a)
    BY DEF Starter, Holds
  <2>3. run[w].pc \in Early => wire[a][r.att] = "none"
    BY <1>0, <1>2 DEF Distinct, Early
  <2> QED
    BY <1>2, <2>1, <2>2, <2>3
<1> HIDE DEF r
<1> QED
  BY <1>0, <1>1, <1>2, <1>3, <1>4, <1>5, GoesOn DEF Running, Early

LEMMA Succeeds ==
  ASSUME IInv, TypeOK', UNCHANGED <<row, wire, budget>>,
         NEW w \in Workers, run[w].pc \in Running, NEW n \in 0 .. MaxAttempts,
         run' = [run EXCEPT ![w].pc = "commit", ![w].res = n],
         n <= row[run[w].act].retry,
         n \in {run[w].att, run[w].prior} \/ ~IsWhatsApp(run[w].act)
  PROVE  IInv'
<1> DEFINE a == run[w].act
           r == [run[w] EXCEPT !.pc = "commit", !.res = n]
<1>0. /\ TypeOK /\ Numbering /\ Distinct /\ Private /\ run[w] \in Runs /\ a \in Actions
      /\ run[w].att > 0
  BY DEF IInv, TypeOK, Running, Early, At, Numbering
<1>1. r \in Runs /\ run' = [run EXCEPT ![w] = r]
  BY <1>0 DEF Runs, PCs
<1>2. /\ r.act = a /\ r.att = run[w].att /\ r.rec = run[w].rec /\ r.prior = run[w].prior
      /\ r.res = n /\ r.pc = "commit"
  BY <1>0 DEF Runs
<1>3. IsWhatsApp(a) => \A v \in Workers : v # w /\ Holds(v, a) => r.res # run[v].att
  BY <1>0, <1>2 DEF Private, Distinct, Holds
<1>4. budget'.rekeys <= budget.rekeys
  BY <1>0, Numbers
<1> HIDE DEF r
<1> QED
  BY <1>0, <1>1, <1>2, <1>3, <1>4, GoesOn DEF Running, Early

LEMMA InsideStep ==
  ASSUME IInv, TypeOK', NEW w \in Workers, Inside(w)
  PROVE  IInv'
<1>0. TypeOK /\ BudgetTypes /\ RunTypes /\ Numbering
  BY TypeParts DEF IInv
<1> DEFINE a == run[w].act
<1>a. ~At(w, "idle") /\ a \in Actions
  BY <1>0 DEF Inside, PreClaimFails, AbortBeforeClaim, ClaimLost, Replay, RefuseReconcile,
     PrepareFails, BeforeEffect, UploadFails, SearchFinds, SearchUnresolved,
     AdapterRefuses, AnswerAccepted, AnswerRefused, AnswerLost, ReadbackMismatch,
     CommitFails, At, RunTypes
<1>1. UNCHANGED <<row, wire>>
  BY DEF Inside, PreClaimFails, AbortBeforeClaim, ClaimLost, Replay, RefuseReconcile,
     PrepareFails, BeforeEffect, UploadFails, SearchFinds, SearchUnresolved,
     AdapterRefuses, AnswerAccepted, AnswerRefused, AnswerLost, ReadbackMismatch, CommitFails
<1>2. budget' = budget => budget'.rekeys <= budget.rekeys
  BY <1>0, Numbers
<1>3. CASE AbortBeforeClaim(w) \/ ClaimLost(w)
  <2>1. \A v \in Workers : run'[v] \in {run[v], Idle}
    BY <1>0, <1>3 DEF AbortBeforeClaim, ClaimLost, RunTypes
  <2> QED
    BY <1>1, <1>2, <1>3, <2>1, Frame DEF QuietRows, QuietRow, AbortBeforeClaim, ClaimLost
<1>4. CASE PreClaimFails(w)
  <2>1. run[w].att = 0 /\ ~At(w, "idle") /\ \E err \in Errors : run' = Throw(w, err)
    BY <1>0, <1>4 DEF PreClaimFails, At, Numbering, Errors
  <2>2. budget'.rekeys <= budget.rekeys
    BY <1>0, <1>4, SpendType DEF PreClaimFails
  <2> QED
    BY <1>1, <2>1, <2>2, <1>a, Throws
<1>5. CASE Replay(w)
  <2>1. /\ run[w].pc \in Running /\ run[w].prior \in 0 .. MaxAttempts
        /\ run[w].act \in Actions /\ run[w].prior <= row[run[w].act].retry
    BY <1>0, <1>5 DEF Replay, At, Running, Early, RunTypes, Runs, Numbering
  <2> QED
    BY <1>1, <1>5, <2>1, Succeeds DEF Replay
<1>6. CASE RefuseReconcile(w) \/ SearchUnresolved(w) \/ AnswerLost(w)
  <2>1. ~At(w, "idle") /\ run' = Throw(w, "uncertain") /\ budget' = budget
    BY <1>6 DEF RefuseReconcile, SearchUnresolved, AnswerLost, At
  <2> QED
    BY <1>1, <1>2, <2>1, <1>a, Throws DEF Errors
<1>7. CASE PrepareFails(w)
  <2>1. run[w].pc \in Early /\ ~At(w, "idle") /\ \E err \in Errors : run' = Throw(w, err)
    BY <1>7 DEF PrepareFails, At, Early, Errors
  <2>2. budget'.rekeys <= budget.rekeys
    BY <1>0, <1>2, <1>7, SpendType DEF PrepareFails
  <2> QED
    BY <1>1, <2>1, <2>2, <1>a, Throws
<1>8. CASE BeforeEffect(w)
  <2>1. run[w].pc \in Early /\ ~At(w, "idle") /\ budget' = budget
    BY <1>8 DEF BeforeEffect, At, Early
  <2>2. CASE Halt(w) # "none"
    <3>1. Halt(w) \in Errors /\ run' = Throw(w, Halt(w))
      BY <1>8, <2>2 DEF BeforeEffect, Halt, Errors
    <3> QED
      BY <1>1, <1>2, <2>1, <3>1, <1>a, Throws
  <2>3. CASE Halt(w) = "none"
    <3> DEFINE pc == IF Kind[a] = "MEDIA" /\ At(w, "prepare") THEN "upload" ELSE "send"
               r == [run[w] EXCEPT !.tried = TRUE, !.pc = pc]
    <3>1. pc \in {"upload", "send"}
      OBVIOUS
    <3> HIDE DEF pc
    <3>2. r \in Runs /\ a \in Actions
      BY <1>0, <2>1, <3>1, ZenonT(60) DEF RunTypes, Runs, PCs
    <3>3. /\ r.act = a /\ r.att = run[w].att /\ r.rec = run[w].rec
          /\ r.prior = run[w].prior /\ r.res = run[w].res /\ r.pc = pc
      BY <1>0 DEF RunTypes, Runs
    <3>4. run' = [run EXCEPT ![w] = r]
      BY <1>8, <2>3 DEF BeforeEffect, pc
    <3>5. r.att > 0 /\ r.res <= row[a].retry
      BY <1>0, <2>1, <3>2, <3>3 DEF Numbering, Early
    <3>6. IsWhatsApp(a) => \A v \in Workers : v # w /\ Holds(v, a) => r.res # run[v].att
      BY <3>2, <3>3 DEF IInv, Private
    <3>7. r.pc \in Early /\ r.pc \in Running /\ r.pc \notin {"idle", "claim", "catch"}
      BY <3>1, <3>3 DEF Early, Running
    <3> HIDE DEF r
    <3> QED
      BY <1>1, <1>2, <2>1, <3>2, <3>3, <3>4, <3>5, <3>6, <3>7, GoesOn
  <2> QED
    BY <2>2, <2>3
<1>9. CASE UploadFails(w)
  <2>1. run[w].pc \in Early /\ ~At(w, "idle") /\ \E err \in Errors : run' = Throw(w, err)
    BY <1>9 DEF UploadFails, At, Early, Errors
  <2>2. budget'.rekeys <= budget.rekeys
    BY <1>0, <1>9, SpendType DEF UploadFails
  <2> QED
    BY <1>1, <2>1, <2>2, <1>a, Throws
<1>10. CASE SearchFinds(w)
  <2>1. PICK n \in FoundPrior(run[w].act) :
          run' = [run EXCEPT ![w].pc = "commit", ![w].res = n]
    BY <1>10 DEF SearchFinds
  <2>2. run[w].pc \in Running /\ run[w].act \in Actions /\ ~IsWhatsApp(run[w].act)
    BY <1>0, <1>10 DEF SearchFinds, At, Running, Early, RunTypes, Searchable, IsWhatsApp
  <2>3. n \in 0 .. MaxAttempts /\ n <= row[run[w].act].retry
    BY <1>0, <2>2, OutboxAssumption DEF FoundPrior, Attempts, Numbering, Applied
  <2> QED
    BY <1>1, <1>10, <2>1, <2>2, <2>3, Succeeds DEF SearchFinds
<1>11. CASE AdapterRefuses(w)
  <2>1. /\ ~At(w, "idle") /\ run[w].pc \in Early /\ run' = Throw(w, "refused")
        /\ budget'.rekeys <= budget.rekeys
    BY <1>0, <1>11, SpendType DEF AdapterRefuses, At, Early
  <2> QED
    BY <1>1, <2>1, <1>a, Throws DEF Errors
<1>12. CASE AnswerAccepted(w)
  <2>1. /\ run[w].pc \in Running /\ run[w].att \in 0 .. MaxAttempts
        /\ run[w].act \in Actions /\ run[w].att <= row[run[w].act].retry
    BY <1>0, <1>12 DEF AnswerAccepted, At, Running, Early, RunTypes, Runs, Numbering
  <2> QED
    BY <1>1, <1>12, <2>1, Succeeds DEF AnswerAccepted
<1>13. CASE AnswerRefused(w)
  BY <1>1, <1>2, <1>13, <1>a, Throws DEF AnswerRefused, At, Errors
<1>14. CASE ReadbackMismatch(w)
  <2>1. budget'.rekeys <= budget.rekeys /\ budget'.rekeys # budget.rekeys
    BY <1>0, <1>14, SpendType DEF ReadbackMismatch, Spend, BudgetTypes, Budgets
  <2>2. ASSUME NEW b \in Actions, b = a PROVE ~Covered(b)'
    <3>1. MaxRekeys \in Nat /\ budget.rekeys \in Nat /\ budget'.rekeys \in Nat
      BY <1>0, OutboxAssumption DEF TypeOK, Budgets
    <3>2. budget.rekeys <= MaxRekeys
      BY DEF IInv, Rekeys
    <3>3. budget'.rekeys # MaxRekeys
      BY <2>1, <3>1, <3>2
    <3>4. Searchable(b)
      BY <1>14, <2>2 DEF ReadbackMismatch
    <3> QED
      BY <3>3, <3>4 DEF Covered, Searchable
  <2> QED
    BY <1>1, <1>14, <2>1, <2>2, <1>a, Throws DEF ReadbackMismatch, At, Errors
<1>15. CASE CommitFails(w)
  <2>1. ~At(w, "idle") /\ run' = Throw(w, "uncertain")
    BY <1>15 DEF CommitFails, At
  <2>2. budget'.rekeys <= budget.rekeys
    BY <1>0, <1>2, <1>15, SpendType DEF CommitFails
  <2> QED
    BY <1>1, <2>1, <2>2, <1>a, Throws DEF Errors
<1> QED
  BY <1>3, <1>4, <1>5, <1>6, <1>7, <1>8, <1>9, <1>10, <1>11, <1>12, <1>13, <1>14, <1>15
     DEF Inside

LEMMA InvInit == Init => IInv
<1> SUFFICES ASSUME Init PROVE IInv
  OBVIOUS
<1>1. TypeOK
  BY TypeInit
<1>2. /\ \A w \in Workers : run[w].att = 0 /\ run[w].pc = "idle" /\ run[w].act \notin Actions
      /\ \A a \in Actions : /\ row[a].retry = 0 /\ row[a].msg = 0 /\ row[a].saved = 0
                            /\ \A n \in Attempts : wire[a][n] = "none"
      /\ budget.rekeys = MaxRekeys /\ MaxRekeys \in Nat
  BY OutboxAssumption DEF Init, Idle, NewRow
<1>3. /\ \A w \in Workers, a \in Actions : ~Starter(w, a) /\ ~Holds(w, a)
      /\ \A a \in Actions, n \in Attempts : ~Open(a, n)
  BY <1>2 DEF Starter, Holds, Open
<1>4. Rekeys /\ Numbering /\ Distinct
  BY <1>2 DEF Rekeys, Numbering, Distinct
<1>5. Private /\ Claimable /\ OneStarter /\ Alone /\ Honest /\ AtMostOnce /\ RestartIsSafe
  BY <1>3 DEF Private, Claimable, OneStarter, Alone, Honest, AtMostOnce, RestartIsSafe
<1> QED
  BY <1>1, <1>4, <1>5 DEF IInv

LEMMA BeginStep ==
  ASSUME IInv, TypeOK', NEW w \in Workers, NEW a \in Actions, Begin(w, a)
  PROVE  IInv'
<1>0. /\ TypeOK /\ Rekeys /\ Numbering /\ Distinct /\ Private
      /\ Claimable /\ OneStarter /\ Alone /\ Honest /\ AtMostOnce /\ RestartIsSafe
  BY DEF IInv
<1>1. /\ run \in [Workers -> Runs] /\ run' \in [Workers -> Runs]
      /\ \A v \in Workers : v # w => run'[v] = run[v]
      /\ run'[w].pc = "claim" /\ run'[w].att = 0 /\ run'[w].prior = 0
      /\ run'[w].res = 0 /\ run'[w].act = a
  BY <1>0 DEF Begin, TypeOK, Idle
<1>2. UNCHANGED <<row, wire, budget>>
  BY DEF Begin
<1>3. Rekeys'
  BY <1>0, <1>2 DEF Rekeys
<1>4. Numbering'
  BY <1>0, <1>1, <1>2, Numbers DEF Numbering
<1>5. Distinct'
  BY <1>0, <1>1, <1>2 DEF Distinct
<1>6. Private'
  BY <1>0, <1>1, <1>2 DEF Private, Holds
<1>7. Claimable'
  BY <1>0, <1>1, <1>2 DEF Claimable, Starter, Holds
<1>8. OneStarter'
  BY <1>0, <1>1 DEF OneStarter, Starter, Holds
<1>9. Alone'
  BY <1>0, <1>1, <1>2 DEF Alone, Starter, Holds, Open, Covered
<1>10. Honest'
  BY <1>0, <1>1, <1>2 DEF Honest, Starter, Holds, At, Uncertain, Covered
<1>11. AtMostOnce' /\ RestartIsSafe'
  BY <1>0, <1>2 DEF AtMostOnce, RestartIsSafe, Open, Covered
<1> QED
  BY <1>3, <1>4, <1>5, <1>6, <1>7, <1>8, <1>9, <1>10, <1>11 DEF IInv

LEMMA ClaimStep ==
  ASSUME IInv, TypeOK', NEW w \in Workers, Claim(w)
  PROVE  IInv'
<1>0. /\ TypeOK /\ Rekeys /\ Numbering /\ Distinct /\ Private
      /\ Claimable /\ OneStarter /\ Alone /\ Honest /\ AtMostOnce /\ RestartIsSafe
  BY DEF IInv
<1>a. PICK a \in Actions : run[w].act = a
  BY <1>0 DEF Claim, At, TypeOK
<1>b. PICK k \in Nat : k = row[a].retry + 1 /\ row[a].retry \in Nat
  BY <1>0, Numbers
<1>1. /\ run \in [Workers -> Runs] /\ run' \in [Workers -> Runs]
      /\ \A v \in Workers : v # w => run'[v] = run[v]
      /\ run'[w].pc = "prepare" /\ run'[w].att = k /\ run'[w].prior = row[a].saved
      /\ run'[w].res = run[w].res /\ run'[w].act = a /\ run'[w].rec = run[w].rec
  BY <1>0, <1>a, <1>b, ZenonT(60) DEF Claim, TypeOK, Runs
<1>2. /\ UNCHANGED <<wire, budget>>
      /\ \A b \in Actions : b # a => row'[b] = row[b]
      /\ row'[a].status = "RUNNING" /\ row'[a].retry = k
      /\ row'[a].msg = row[a].msg /\ row'[a].saved = row[a].saved
  BY <1>0, <1>a, <1>b DEF Claim, Claimed, TypeOK, Rows
<1>3. k \in Attempts /\ k > 0 /\ row[a].retry < k
  BY <1>a, <1>b, OutboxAssumption DEF Claim, Attempts
<1>4. \A v \in Workers : run[v].act = a =>
        run[v].att < k /\ run[v].prior < k /\ run[v].res < k
  BY <1>0, <1>3, <1>b, Numbers DEF Numbering
<1>5. row[a].msg < k /\ row[a].saved < k /\ run[w].res <= row[a].retry
  BY <1>0, <1>3, <1>a, <1>b, Numbers DEF Numbering
<1>6. wire[a][k] = "none"
  BY <1>0, <1>3, <1>b DEF Numbering
<1>7. ~run[w].rec => /\ row[a].status = "PENDING"
                     /\ \A v \in Workers : ~Starter(v, a)
                     /\ Covered(a) => \A n \in Attempts : ~Open(a, n)
  <2>1. ~run[w].rec => row[a].status = "PENDING"
    BY <1>a DEF Claim, ClaimWins, SameStatus
  <2> QED
    BY <1>0, <2>1 DEF Claimable, RestartIsSafe, Restartable
<1>8. Rekeys'
  BY <1>0, <1>2 DEF Rekeys
<1>9. Numbering'
  <2>1. \A v \in Workers :
          /\ run'[v].pc \in {"idle", "claim"} => run'[v].att = 0
          /\ run'[v].pc \in {"prepare", "upload", "send", "wait", "commit"} => run'[v].att > 0
    BY <1>0, <1>1, <1>3 DEF Numbering
  <2>2. ASSUME NEW v \in Workers, run'[v].act \in Actions
        PROVE  /\ run'[v].att <= row'[run'[v].act].retry
               /\ run'[v].prior <= row'[run'[v].act].retry
               /\ run'[v].res <= row'[run'[v].act].retry
    <3>1. CASE v = w
      BY <1>0, <1>1, <1>2, <1>3, <1>5, <1>b, <3>1, Numbers
    <3>2. CASE v # w /\ run[v].act = a
      BY <1>0, <1>1, <1>2, <1>4, <3>2, Numbers
    <3>3. CASE v # w /\ run[v].act # a
      BY <1>0, <1>1, <1>2, <2>2, <3>3 DEF Numbering
    <3> QED
      BY <3>1, <3>2, <3>3
  <2>3. ASSUME NEW b \in Actions
        PROVE  /\ row'[b].msg <= row'[b].retry /\ row'[b].saved <= row'[b].retry
               /\ row'[b].msg # 0 => IsWhatsApp(b)
               /\ row'[b].status = "ABSENT" => row'[b].retry = 0
               /\ \A n \in Attempts : wire'[b][n] # "none" => n <= row'[b].retry
    <3>1. CASE b # a
      BY <1>0, <1>2, <3>1 DEF Numbering
    <3>2. CASE b = a
      <4>1. ASSUME NEW n \in Attempts, wire[a][n] # "none" PROVE n <= k
        <5>1. n \in Nat
          BY OutboxAssumption DEF Attempts
        <5>2. n <= row[a].retry
          BY <1>0, <4>1 DEF Numbering
        <5> QED
          BY <1>3, <1>b, <5>1, <5>2
      <4> QED
        BY <1>0, <1>2, <1>3, <1>5, <3>2, <4>1, Numbers DEF Numbering
    <3> QED
      BY <3>1, <3>2
  <2> QED
    BY <2>1, <2>2, <2>3 DEF Numbering
<1>10. Distinct'
  <2>1. \A u, v \in Workers : u # v /\ run'[u].act = run'[v].act /\ run'[u].att > 0 =>
          run'[u].att # run'[v].att
    BY <1>0, <1>1, <1>4, Numbers DEF Distinct
  <2>2. \A v \in Workers : run'[v].pc \in {"prepare", "upload", "send"} =>
          wire'[run'[v].act][run'[v].att] = "none"
    BY <1>0, <1>1, <1>2, <1>6 DEF Distinct
  <2> QED
    BY <2>1, <2>2 DEF Distinct
<1>11. Private'
  <2> SUFFICES ASSUME NEW v \in Workers, NEW b \in Actions, Holds(v, b)', IsWhatsApp(b)
               PROVE  /\ row'[b].msg # run'[v].att /\ row'[b].saved # run'[v].att
                      /\ \A u \in Workers : u # v /\ run'[u].act = b =>
                           run'[u].prior # run'[v].att /\ run'[u].res # run'[v].att
    BY DEF Private
  <2>1. CASE v = w
    <3>1. b = a /\ run'[v].att = k
      BY <1>1, <2>1 DEF Holds
    <3>2. row'[b].msg # k /\ row'[b].saved # k
      BY <1>0, <1>2, <1>5, <3>1, Numbers
    <3>3. ASSUME NEW u \in Workers, u # v, run'[u].act = b
          PROVE  run'[u].prior # k /\ run'[u].res # k
      <4>1. run'[u] = run[u] /\ run[u].act = a
        BY <1>1, <2>1, <3>1, <3>3
      <4> QED
        BY <1>0, <1>4, <4>1, Numbers
    <3> QED
      BY <3>1, <3>2, <3>3
  <2>2. CASE v # w
    <3>1. Holds(v, b) /\ run'[v].att = run[v].att
      BY <1>1, <2>2 DEF Holds
    <3>2. /\ row[b].msg # run[v].att /\ row[b].saved # run[v].att
          /\ \A u \in Workers : u # v /\ run[u].act = b =>
               run[u].prior # run[v].att /\ run[u].res # run[v].att
      BY <1>0, <3>1 DEF Private
    <3> QED
      BY <1>1, <1>2, <1>a, <3>1, <3>2
  <2> QED
    BY <2>1, <2>2
<1>12. Claimable'
  BY <1>0, <1>1, <1>2 DEF Claimable, Starter, Holds, Restartable
<1>13. OneStarter'
  BY <1>0, <1>1, <1>7 DEF OneStarter, Starter, Holds
<1>14. Alone'
  BY <1>0, <1>1, <1>2, <1>7 DEF Alone, Starter, Holds, Open, Covered
<1>15. Honest'
  BY <1>0, <1>1, <1>2 DEF Honest, Starter, Holds, At, Uncertain, Covered
<1>16. AtMostOnce' /\ RestartIsSafe'
  BY <1>0, <1>2 DEF AtMostOnce, RestartIsSafe, Restartable, Open, Covered
<1> QED
  BY <1>8, <1>9, <1>10, <1>11, <1>12, <1>13, <1>14, <1>15, <1>16 DEF IInv

LEMMA IssueStep ==
  ASSUME IInv, TypeOK', NEW w \in Workers, Issue(w)
  PROVE  IInv'
<1>0. /\ TypeOK /\ Rekeys /\ Numbering /\ Distinct /\ Private
      /\ Claimable /\ OneStarter /\ Alone /\ Honest /\ AtMostOnce /\ RestartIsSafe
  BY DEF IInv
<1>a. PICK a \in Actions : run[w].act = a
  BY <1>0 DEF Issue, At, TypeOK
<1>b. PICK k \in Attempts : run[w].att = k
  <2>1. run[w].att > 0
    BY <1>0 DEF Issue, At, Numbering
  <2> QED
    BY <1>0, <2>1, AttemptRange
<1>1. /\ run \in [Workers -> Runs] /\ run' \in [Workers -> Runs]
      /\ \A v \in Workers : v # w => run'[v] = run[v]
      /\ run'[w].pc = "wait" /\ run'[w].att = k /\ run'[w].prior = run[w].prior
      /\ run'[w].res = run[w].res /\ run'[w].act = a /\ run'[w].rec = run[w].rec
      /\ run[w].pc = "send" /\ ~run[w].rec
  BY <1>0, <1>a, <1>b DEF Issue, Go, At, TypeOK, Runs
<1>2. /\ UNCHANGED <<row, budget>>
      /\ wire'[a][k] = "flying"
      /\ \A b \in Actions, n \in Attempts : b # a \/ n # k => wire'[b][n] = wire[b][n]
  BY <1>0, <1>a, <1>b DEF Issue, TypeOK
<1>3. Starter(w, a) /\ k > 0 /\ k <= row[a].retry
  BY <1>0, <1>1, <1>a, <1>b DEF Numbering, Starter, Holds
<1>4. \A v \in Workers : Starter(v, a) => v = w
  BY <1>0, <1>3 DEF OneStarter
<1>5. Covered(a) => \A n \in Attempts : n # k => ~Open(a, n)
  BY <1>0, <1>3, <1>b DEF Alone
<1>6. \A b \in Actions, n \in Attempts : Open(b, n)' => Open(b, n) \/ (b = a /\ n = k)
  BY <1>2 DEF Open
<1>7. \A v \in Workers, b \in Actions : Starter(v, b)' <=> Starter(v, b)
  BY <1>1, <1>a, <1>b DEF Starter, Holds
<1>8. \A b \in Actions : Covered(b)' <=> Covered(b)
  BY <1>2 DEF Covered
<1>9. Rekeys'
  BY <1>0, <1>2 DEF Rekeys
<1>10. Numbering'
  BY <1>0, <1>1, <1>2, <1>3, <1>a, <1>b DEF Numbering
<1>11. Distinct'
  <2>1. \A u, v \in Workers : u # v /\ run'[u].act = run'[v].act /\ run'[u].att > 0 =>
          run'[u].att # run'[v].att
    BY <1>0, <1>1, <1>a, <1>b DEF Distinct
  <2>2. ASSUME NEW v \in Workers, run'[v].pc \in {"prepare", "upload", "send"}
        PROVE  wire'[run'[v].act][run'[v].att] = "none"
    <3>1. v # w /\ run'[v] = run[v] /\ wire[run[v].act][run[v].att] = "none"
      BY <1>0, <1>1, <2>2 DEF Distinct
    <3>2. run[v].act \in Actions /\ run[v].att > 0
      BY <1>0, <2>2, <3>1 DEF TypeOK, At, Numbering
    <3>4. run[v].att \in Attempts
      BY <1>0, <3>2, AttemptRange
    <3>3. run[v].act # a \/ run[v].att # k
      BY <1>0, <1>3, <1>a, <1>b, <3>1 DEF Distinct
    <3> QED
      BY <1>2, <3>1, <3>2, <3>3, <3>4
  <2> QED
    BY <2>1, <2>2 DEF Distinct
<1>12. Private'
  BY <1>0, <1>1, <1>2, <1>a, <1>b DEF Private, Holds
<1>13. Claimable' /\ OneStarter'
  BY <1>0, <1>2, <1>7 DEF Claimable, OneStarter
<1>14. Alone'
  <2> SUFFICES ASSUME NEW v \in Workers, NEW b \in Actions, Starter(v, b), Covered(b),
                      NEW n \in Attempts, n # run'[v].att, Open(b, n)'
               PROVE  FALSE
    BY <1>7, <1>8 DEF Alone
  <2>1. run'[v].att = run[v].att
    BY <1>1, <1>b
  <2>2. ~Open(b, n)
    BY <1>0, <2>1 DEF Alone
  <2> QED
    BY <1>1, <1>4, <1>6, <2>2
<1>15. Honest'
  <2> SUFFICES ASSUME NEW v \in Workers, NEW b \in Actions, Starter(v, b), Covered(b),
                      At(v, "catch")', ~Uncertain(run'[v])
               PROVE  wire'[b][run'[v].att] \in {"none", "refused"}
    BY <1>7, <1>8 DEF Honest
  <2>1. v # w /\ run'[v] = run[v] /\ At(v, "catch") /\ b # a
    BY <1>1, <1>4 DEF At
  <2>2. run[v].att \in Attempts
    BY <1>0, AttemptRange DEF Starter, Holds
  <2>3. ~Uncertain(run[v])
    BY <2>1
  <2>4. wire[b][run[v].att] \in {"none", "refused"}
    BY <1>0, <2>1, <2>3 DEF Honest
  <2> QED
    BY <1>2, <2>1, <2>2, <2>4
<1>16. AtMostOnce'
  BY <1>0, <1>5, <1>6, <1>8 DEF AtMostOnce
<1>17. RestartIsSafe'
  BY <1>0, <1>2, <1>3, <1>6, <1>8 DEF RestartIsSafe, Claimable
<1> QED
  BY <1>9, <1>10, <1>11, <1>12, <1>13, <1>14, <1>15, <1>16, <1>17 DEF IInv

(* A worker ends.  The row it leaves may be started afresh only if it might *)
(* be before, or the worker's own request is known not to have applied.     *)
LEMMA Ends ==
  ASSUME IInv, TypeOK', UNCHANGED <<wire, budget>>,
         NEW w \in Workers, NEW a \in Actions, run[w].act = a,
         run' = [run EXCEPT ![w] = Idle],
         \A b \in Actions : b # a => QuietRow(b),
         row'[a].retry = row[a].retry, row'[a].status # "ABSENT",
         row'[a].msg = row[a].msg \/ (row'[a].msg = run[w].res /\ IsWhatsApp(a)),
         row'[a].saved \in {0, row[a].saved, run[w].res},
         row'[a].status \in Restartable =>
           \/ row[a].status \in Restartable
           \/ Starter(w, a) /\ (Covered(a) => wire[a][run[w].att] \in {"none", "refused"})
  PROVE  IInv'
<1>0. /\ TypeOK /\ Rekeys /\ Numbering /\ Distinct /\ Private
      /\ Claimable /\ OneStarter /\ Alone /\ Honest /\ AtMostOnce /\ RestartIsSafe
  BY DEF IInv
<1>1. /\ Idle.att = 0 /\ Idle.prior = 0 /\ Idle.res = 0 /\ Idle.act = NoAction
      /\ Idle.pc = "idle" /\ NoAction \notin Actions
  BY OutboxAssumption DEF Idle
<1>2. run'[w] = Idle /\ \A v \in Workers : v # w => run'[v] = run[v]
  BY <1>0 DEF TypeOK
<1>3. \A v \in Workers, b \in Actions :
        /\ Holds(v, b)' => v # w /\ Holds(v, b)
        /\ Starter(v, b)' => v # w /\ Starter(v, b)
  BY <1>1, <1>2 DEF Holds, Starter
<1>4. \A b \in Actions : Covered(b)' <=> Covered(b)
  BY DEF Covered
<1>5. \A b \in Actions, n \in Attempts : Open(b, n)' <=> Open(b, n)
  BY DEF Open
<1>6. Rekeys'
  BY <1>0 DEF Rekeys
<1>7. Numbering'
  <2>1. \A b \in Actions : row'[b].retry = row[b].retry
    BY DEF QuietRow
  <2>2. ASSUME NEW v \in Workers
        PROVE  /\ run'[v].pc \in {"idle", "claim"} => run'[v].att = 0
               /\ run'[v].pc \in {"prepare", "upload", "send", "wait", "commit"} =>
                    run'[v].att > 0
               /\ run'[v].act \in Actions =>
                    /\ run'[v].att <= row'[run'[v].act].retry
                    /\ run'[v].prior <= row'[run'[v].act].retry
                    /\ run'[v].res <= row'[run'[v].act].retry
    BY <1>0, <1>1, <1>2, <2>1 DEF Numbering
  <2>3. ASSUME NEW b \in Actions
        PROVE  /\ row'[b].msg <= row'[b].retry /\ row'[b].saved <= row'[b].retry
               /\ row'[b].msg # 0 => IsWhatsApp(b)
               /\ row'[b].status = "ABSENT" => row'[b].retry = 0
               /\ \A n \in Attempts : wire'[b][n] # "none" => n <= row'[b].retry
    <3>1. CASE b # a
      BY <1>0, <2>1, <3>1 DEF Numbering, QuietRow
    <3>2. CASE b = a
      BY <1>0, <2>1, <3>2, Numbers DEF Numbering
    <3> QED
      BY <3>1, <3>2
  <2> QED
    BY <2>2, <2>3 DEF Numbering
<1>8. Distinct'
  BY <1>0, <1>1, <1>2 DEF Distinct
<1>9. Private'
  <2> SUFFICES ASSUME NEW v \in Workers, NEW b \in Actions, Holds(v, b)', IsWhatsApp(b)
               PROVE  /\ row'[b].msg # run'[v].att /\ row'[b].saved # run'[v].att
                      /\ \A u \in Workers : u # v /\ run'[u].act = b =>
                           run'[u].prior # run'[v].att /\ run'[u].res # run'[v].att
    BY DEF Private
  <2>1. v # w /\ Holds(v, b) /\ run'[v] = run[v] /\ run[v].att > 0
    BY <1>2, <1>3 DEF Holds
  <2>2. /\ row[b].msg # run[v].att /\ row[b].saved # run[v].att
        /\ \A u \in Workers : u # v /\ run[u].act = b =>
             run[u].prior # run[v].att /\ run[u].res # run[v].att
    BY <1>0, <2>1 DEF Private
  <2>3. row'[b].msg # run[v].att /\ row'[b].saved # run[v].att
    BY <1>0, <2>1, <2>2, Numbers DEF QuietRow
  <2>4. \A u \in Workers : u # v /\ run'[u].act = b =>
          run'[u].prior # run[v].att /\ run'[u].res # run[v].att
    BY <1>1, <1>2, <2>2
  <2> QED
    BY <2>1, <2>3, <2>4
<1>10. Claimable'
  <2> SUFFICES ASSUME NEW v \in Workers, NEW b \in Actions, Starter(v, b)',
                      row'[b].status \in Restartable
               PROVE  FALSE
    BY DEF Claimable
  <2>1. v # w /\ Starter(v, b) /\ row[b].status \notin Restartable
    BY <1>0, <1>3 DEF Claimable
  <2> QED
    BY <1>0, <2>1 DEF OneStarter, QuietRow
<1>11. OneStarter'
  BY <1>0, <1>3 DEF OneStarter
<1>12. Alone'
  BY <1>0, <1>2, <1>3, <1>4, <1>5 DEF Alone
<1>13. Honest'
  BY <1>0, <1>2, <1>3, <1>4 DEF Honest, At, Uncertain
<1>14. AtMostOnce'
  BY <1>0, <1>4, <1>5 DEF AtMostOnce
<1>15. RestartIsSafe'
  <2> SUFFICES ASSUME NEW b \in Actions, Covered(b), row'[b].status \in Restartable,
                      NEW n \in Attempts, Open(b, n)
               PROVE  FALSE
    BY <1>4, <1>5 DEF RestartIsSafe
  <2>1. row[b].status \notin Restartable
    BY <1>0 DEF RestartIsSafe
  <2>2. b = a /\ Starter(w, a) /\ wire[a][run[w].att] \in {"none", "refused"}
    BY <2>1 DEF QuietRow
  <2> QED
    BY <1>0, <2>2 DEF Alone, Open
<1> QED
  BY <1>6, <1>7, <1>8, <1>9, <1>10, <1>11, <1>12, <1>13, <1>14, <1>15 DEF IInv

LEMMA DecidedSame ==
  ASSUME NEW rows, rows \in [Actions -> Rows], NEW version, NEW step,
         NEW q \in Decided(rows, version, step), NEW b \in Actions
  PROVE  q[b] = rows[b] \/ (rows[b].status = "ABSENT" /\ q[b] = NewRow(version, step))
  BY DEF Decided

LEMMA FreshQuiet ==
  ASSUME TypeOK, Numbering, NEW b \in Actions, NEW version, NEW step,
         row[b].status = "ABSENT", row'[b] = NewRow(version, step)
  PROVE  QuietRow(b)
<1>1. row[b].retry = 0 /\ row[b].msg <= 0 /\ row[b].saved <= 0
  BY DEF Numbering
<1>2. row[b].msg = 0 /\ row[b].saved = 0
  BY <1>1, Numbers
<1>3. /\ row'[b].retry = 0 /\ row'[b].msg = 0 /\ row'[b].saved = 0
      /\ row'[b].status = "PENDING"
  BY DEF NewRow
<1> QED
  BY <1>1, <1>2, <1>3 DEF QuietRow, Restartable

LEMMA CommitRows ==
  ASSUME IInv, NEW w \in Workers, Commit(w), NEW a \in Actions, run[w].act = a
  PROVE  /\ row'[a].status \in {"AWAITING_DELIVERY", "EXECUTED"}
         /\ row'[a].retry = row[a].retry /\ row'[a].saved = 0
         /\ row'[a].msg = IF IsWhatsApp(a) THEN run[w].res ELSE row[a].msg
         /\ \A b \in Actions : b # a => QuietRow(b)
<1> DEFINE settled == [row EXCEPT ![run[w].act] = Settled(run[w])]
<1>0. TypeOK /\ Numbering
  BY DEF IInv
<1>1. /\ settled \in [Actions -> Rows]
      /\ settled[a] = Settled(run[w]) /\ \A b \in Actions : b # a => settled[b] = row[b]
  <2>1. run[w].res \in 0 .. MaxAttempts /\ run[w].ver \in Nat /\ 0 \in 0 .. MaxAttempts
    BY <1>0, OutboxAssumption DEF TypeOK, Runs
  <2>0. row[run[w].act] \in Rows
    BY <1>0 DEF TypeOK
  <2>2. Settled(run[w]) \in Rows
    BY <2>0, <2>1 DEF Settled, Rows, Statuses
  <2> QED
    BY <1>0, <2>2 DEF TypeOK
<1>2. /\ Settled(run[w]).status \in {"AWAITING_DELIVERY", "EXECUTED"}
      /\ Settled(run[w]).retry = row[a].retry
      /\ Settled(run[w]).msg = IF IsWhatsApp(a) THEN run[w].res ELSE row[a].msg
      /\ Settled(run[w]).saved = 0
  BY <1>0 DEF TypeOK, Rows, Settled
<1> HIDE DEF settled
<1>3. row' = settled \/ \E s : row' \in Decided(settled, kase.version + 1, s)
  BY DEF Commit, Advance, settled
<1>4. row'[a] = Settled(run[w])
  BY <1>1, <1>2, <1>3, DecidedSame
<1>5. ASSUME NEW b \in Actions, b # a PROVE QuietRow(b)
  <2>1. \/ row'[b] = row[b]
        \/ row[b].status = "ABSENT" /\ \E s : row'[b] = NewRow(kase.version + 1, s)
    BY <1>1, <1>3, <1>5, DecidedSame
  <2> QED
    BY <1>0, <2>1, FreshQuiet DEF QuietRow
<1> QED
  BY <1>2, <1>4, <1>5

LEMMA CommitStep ==
  ASSUME IInv, TypeOK', NEW w \in Workers, Commit(w)
  PROVE  IInv'
<1>a. PICK a \in Actions : run[w].act = a
  BY DEF IInv, Commit, At, TypeOK
<1>1. UNCHANGED <<wire, budget>> /\ run' = [run EXCEPT ![w] = Idle]
  BY DEF Commit
<1>2. row'[a].status \notin Restartable /\ row'[a].status # "ABSENT"
  BY <1>a, CommitRows DEF Restartable
<1> QED
  BY <1>a, <1>1, <1>2, CommitRows, Ends

LEMMA CatchRows ==
  ASSUME IInv, NEW w \in Workers, Catch(w), NEW a \in Actions, run[w].act = a
  PROVE  \/ row' = row
         \/ /\ row'[a].retry = row[a].retry /\ row'[a].status # "ABSENT"
            /\ row'[a].msg = row[a].msg \/ (row'[a].msg = run[w].res /\ IsWhatsApp(a))
            /\ row'[a].saved \in {row[a].saved, run[w].res}
            /\ row'[a].status \in Restartable =>
                 \/ row[a].status \in Restartable
                 \/ Starter(w, a) /\ (Covered(a) => wire[a][run[w].att] \in {"none", "refused"})
            /\ \A b \in Actions : b # a =>
                 QuietRow(b) /\ (row[b].status \in Restartable => row'[b].status \in Restartable)
<1>0. TypeOK /\ Numbering /\ Honest /\ At(w, "catch")
  BY DEF IInv, Catch
<1> SUFFICES ASSUME CatchWrites(w), row' # row
             PROVE  /\ row'[a].retry = row[a].retry /\ row'[a].status # "ABSENT"
                    /\ row'[a].msg = row[a].msg \/ (row'[a].msg = run[w].res /\ IsWhatsApp(a))
                    /\ row'[a].saved \in {row[a].saved, run[w].res}
                    /\ row'[a].status \in Restartable =>
                         \/ row[a].status \in Restartable
                         \/ /\ Starter(w, a)
                            /\ Covered(a) => wire[a][run[w].att] \in {"none", "refused"}
                    /\ \A b \in Actions : b # a =>
                         /\ QuietRow(b)
                         /\ row[b].status \in Restartable => row'[b].status \in Restartable
  BY DEF Catch
<1>1. /\ row'[a] = Written(run[w])
      /\ \A b \in Actions : b # a =>
           QuietRow(b) /\ (row[b].status \in Restartable => row'[b].status \in Restartable)
  <2>1. CASE row' = [row EXCEPT ![a] = Written(run[w])]
    BY <1>0, <2>1 DEF TypeOK, QuietRow
  <2>2. CASE /\ NoticeDue(a, Outcome(run[w]))
             /\ row' = [row EXCEPT ![a] = Written(run[w]),
                                   ![Notice(a)] = NewRow(run[w].ver, run[w].step)]
    <3>1. Notice(a) \in Actions /\ Notice(a) # a /\ row[Notice(a)].status = "ABSENT"
      BY <2>2, OutboxAssumption DEF NoticeDue, Notice
    <3>2. /\ row'[a] = Written(run[w])
          /\ row'[Notice(a)] = NewRow(run[w].ver, run[w].step)
          /\ \A b \in Actions : b # a /\ b # Notice(a) => row'[b] = row[b]
      BY <1>0, <2>2, <3>1 DEF TypeOK
    <3>3. QuietRow(Notice(a)) /\ row'[Notice(a)].status \in Restartable
      BY <1>0, <3>1, <3>2, FreshQuiet DEF NewRow, Restartable
    <3> QED
      BY <3>2, <3>3 DEF QuietRow
  <2> QED
    BY <2>1, <2>2 DEF Catch
<1>2. Outcome(run[w]) # "ABSENT"
  BY DEF Outcome
<1>3. /\ row'[a].retry = row[a].retry /\ row'[a].status = Outcome(run[w])
      /\ row'[a].msg = IF run[w].res # 0 /\ IsWhatsApp(a) THEN run[w].res ELSE row[a].msg
      /\ row'[a].saved = IF run[w].res # 0 THEN run[w].res ELSE row[a].saved
  BY <1>0, <1>1 DEF TypeOK, Written, Rows
<1>4. row'[a].status \in Restartable => ~Uncertain(run[w]) /\ ~run[w].rec
  BY <1>3 DEF Outcome, Uncertain, Restartable
<1>5. row'[a].status \in Restartable =>
        \/ row[a].status \in Restartable
        \/ Starter(w, a) /\ (Covered(a) => wire[a][run[w].att] \in {"none", "refused"})
  <2>1. CASE run[w].att > 0
    BY <1>0, <1>4, <2>1 DEF Honest, Starter, Holds
  <2>2. CASE ~(run[w].att > 0)
    BY <1>4, <2>2 DEF CatchWrites, SameStatus, Restartable
  <2> QED
    BY <2>1, <2>2
<1> QED
  BY <1>1, <1>2, <1>3, <1>5

LEMMA CatchStep ==
  ASSUME IInv, TypeOK', NEW w \in Workers, Catch(w)
  PROVE  IInv'
<1>0. TypeOK
  BY DEF IInv
<1>a. PICK a \in Actions : run[w].act = a
  BY <1>0 DEF Catch, At, TypeOK
<1>1. UNCHANGED <<wire, budget>> /\ run' = [run EXCEPT ![w] = Idle]
  BY DEF Catch
<1>2. CASE row' = row
  <2>1. \A v \in Workers : run'[v] \in {run[v], Idle}
    BY <1>0, <1>1 DEF TypeOK
  <2>2. budget'.rekeys <= budget.rekeys
    BY <1>0, <1>1, Numbers
  <2> QED
    BY <1>1, <1>2, <2>1, <2>2, Frame DEF QuietRows, QuietRow
<1>3. CASE row' # row
  BY <1>1, <1>3, <1>a, CatchRows, Ends
<1> QED
  BY <1>2, <1>3

LEMMA FaultStep ==
  ASSUME IInv, TypeOK', NEW w \in Workers, Crash(w) \/ LoseLock(w) \/ NoticeLoss(w)
  PROVE  IInv'
<1>0. /\ TypeOK /\ BudgetTypes /\ Numbering /\ Distinct /\ Private /\ Honest
      /\ run[w] \in Runs /\ run \in [Workers -> Runs]
  BY TypeParts DEF IInv, TypeOK
<1>1. CASE Crash(w) \/ LoseLock(w)
  <2>1. budget'.rekeys <= budget.rekeys
    BY <1>0, <1>1, SpendType DEF Crash, LoseLock
  <2>2. UNCHANGED <<row, wire>> /\ \A v \in Workers : run'[v] \in {run[v], Idle}
    BY <1>0, <1>1 DEF Crash, LoseLock
  <2> QED
    BY <2>1, <2>2, Frame DEF QuietRows, QuietRow
<1>2. CASE NoticeLoss(w)
  <2> DEFINE r == [run[w] EXCEPT !.aborted = TRUE]
  <2>1. UNCHANGED <<row, wire, budget>> /\ ~At(w, "idle") /\ run' = [run EXCEPT ![w] = r]
    BY <1>2 DEF NoticeLoss
  <2>2. PICK a \in Actions : run[w].act = a
    BY <1>0, <2>1 DEF TypeOK
  <2>3. /\ r \in Runs /\ r.act = a /\ r.att = run[w].att /\ r.rec = run[w].rec
        /\ r.prior = run[w].prior /\ r.res = run[w].res /\ r.pc = run[w].pc
        /\ r.err = run[w].err /\ r.tried = run[w].tried
    BY <1>0, <2>2 DEF Runs
  <2> HIDE DEF r
  <2>4. r.res <= row[a].retry /\ (r.pc \in {"idle", "claim"} => r.att = 0)
        /\ (r.pc \in Running => r.att > 0)
    BY <1>0, <2>2, <2>3 DEF Numbering, Running, Early
  <2>5. IsWhatsApp(a) => \A v \in Workers : v # w /\ Holds(v, a) => r.res # run[v].att
    BY <1>0, <2>2, <2>3 DEF Private
  <2>6. Uncertain(r) <=> Uncertain(run[w])
    BY <2>3 DEF Uncertain
  <2>7. Starter(w, a) /\ Covered(a)' /\ r.pc = "catch" /\ ~Uncertain(r) =>
          wire[a][r.att] \in {"none", "refused"}
    BY <1>0, <2>1, <2>3, <2>6 DEF Honest, At, Covered
  <2>8. budget'.rekeys <= budget.rekeys
    BY <1>0, <2>1, Numbers
  <2> QED
    BY <2>1, <2>2, <2>3, <2>4, <2>5, <2>7, <2>8, GoesOn
<1> QED
  BY <1>1, <1>2

(* Requests move on, none is made and none is lost. *)
LEMMA CarrierStep ==
  ASSUME IInv, TypeOK', NEW a \in Actions, NEW n \in Attempts, Carrier(a, n)
  PROVE  IInv'
<1>0. /\ TypeOK /\ Rekeys /\ Numbering /\ Distinct /\ Private
      /\ Claimable /\ OneStarter /\ Alone /\ Honest /\ AtMostOnce /\ RestartIsSafe
  BY DEF IInv
<1>1. UNCHANGED <<row, run, budget>>
  BY DEF Carrier, Accept, Refuse, Deliver, Bounce, CarrierMoves
<1>2. /\ Open(a, n)
      /\ wire'[a][n] \in {"accepted", "refused", "delivered", "bounced"}
      /\ \A b \in Actions, m \in Attempts : b # a \/ m # n => wire'[b][m] = wire[b][m]
  BY <1>0 DEF TypeOK, Carrier, Accept, Refuse, Deliver, Bounce, CarrierMoves, Open
<1>3. \A b \in Actions, m \in Attempts :
        /\ Open(b, m)' => Open(b, m)
        /\ wire'[b][m] # "none" => wire[b][m] # "none"
        /\ wire[b][m] \in {"none", "refused"} => wire'[b][m] = wire[b][m]
  <2>1. \A b \in Actions, m \in Attempts : (b = a /\ m = n) \/ wire'[b][m] = wire[b][m]
    BY <1>2
  <2> QED
    BY <1>2, <2>1 DEF Open
<1>4. \A b \in Actions : Covered(b)' <=> Covered(b)
  BY <1>1 DEF Covered
<1>5. \A v \in Workers, b \in Actions : Starter(v, b)' <=> Starter(v, b)
  BY <1>1 DEF Starter, Holds
<1>6. Rekeys' /\ Private' /\ Claimable' /\ OneStarter'
  BY <1>0, <1>1, <1>5 DEF Rekeys, Private, Holds, Claimable, OneStarter
<1>7. Numbering'
  BY <1>0, <1>1, <1>3 DEF Numbering
<1>8. Distinct'
  <2>1. ASSUME NEW v \in Workers, run[v].pc \in {"prepare", "upload", "send"}
        PROVE  wire'[run[v].act][run[v].att] = "none"
    <3>1. /\ wire[run[v].act][run[v].att] = "none" /\ run[v].act \in Actions
          /\ run[v].att > 0
      BY <1>0, <2>1 DEF Distinct, Numbering, TypeOK, At
    <3>2. run[v].att \in Attempts
      BY <1>0, <3>1, AttemptRange
    <3> QED
      BY <1>3, <3>1, <3>2
  <2> QED
    BY <1>0, <1>1, <2>1 DEF Distinct
<1>9. Alone' /\ AtMostOnce' /\ RestartIsSafe'
  BY <1>0, <1>1, <1>3, <1>4, <1>5 DEF Alone, AtMostOnce, RestartIsSafe
<1>10. Honest'
  <2> SUFFICES ASSUME NEW v \in Workers, NEW b \in Actions, Starter(v, b), Covered(b),
                      At(v, "catch"), ~Uncertain(run[v])
               PROVE  wire'[b][run[v].att] \in {"none", "refused"}
    BY <1>1, <1>4, <1>5 DEF Honest, At
  <2>1. wire[b][run[v].att] \in {"none", "refused"}
    BY <1>0 DEF Honest
  <2>2. run[v].att \in Attempts
    BY <1>0, AttemptRange DEF Starter, Holds
  <2> QED
    BY <1>3, <2>1, <2>2
<1> QED
  BY <1>6, <1>7, <1>8, <1>9, <1>10 DEF IInv

(* A failure report: the request it is about was the only one, and no       *)
(* worker can be holding it.                                                *)
LEMMA FailedStep ==
  ASSUME IInv, TypeOK', NEW a \in Actions, DeliveryFailed(a)
  PROVE  IInv'
<1>0. /\ TypeOK /\ Rekeys /\ Numbering /\ Distinct /\ Private
      /\ Claimable /\ OneStarter /\ Alone /\ Honest /\ AtMostOnce /\ RestartIsSafe
  BY DEF IInv
<1>a. PICK k \in Attempts : row[a].msg = k /\ wire[a][k] = "bounced"
  BY DEF DeliveryFailed, Reports
<1>1. /\ UNCHANGED <<run, budget>>
      /\ row'[a].status = "FAILED"
      /\ \A b \in Actions : /\ b # a => row'[b] = row[b]
                            /\ row'[b].retry = row[b].retry /\ row'[b].msg = row[b].msg
                            /\ row'[b].saved = row[b].saved
  BY <1>0 DEF DeliveryFailed, TypeOK, Rows
<1>2. /\ wire'[a][k] = "buried"
      /\ \A b \in Actions, m \in Attempts : b # a \/ m # k => wire'[b][m] = wire[b][m]
  BY <1>0, <1>a DEF DeliveryFailed, MarkProcessed, TypeOK
<1>3. Open(a, k) /\ ~Open(a, k)' /\ IsWhatsApp(a) /\ Covered(a)
  <2>1. k # 0
    BY OutboxAssumption DEF Attempts
  <2>2. IsWhatsApp(a)
    BY <1>0, <1>a, <2>1 DEF Numbering
  <2>3. ~Searchable(a)
    BY <2>2 DEF IsWhatsApp, Searchable
  <2> QED
    BY <1>2, <1>a, <2>2, <2>3 DEF Open, Covered
<1>4. \A w \in Workers : ~Starter(w, a)
  <2>1. \A w \in Workers : Starter(w, a) => run[w].att # k
    BY <1>0, <1>3, <1>a DEF Private, Starter
  <2> QED
    BY <1>0, <1>3, <2>1 DEF Alone
<1>5. \A b \in Actions, m \in Attempts :
        /\ Open(b, m)' => Open(b, m)
        /\ wire'[b][m] # "none" => wire[b][m] # "none"
        /\ wire[b][m] \in {"none", "refused"} => wire'[b][m] = wire[b][m]
  <2>1. \A b \in Actions, m \in Attempts : (b = a /\ m = k) \/ wire'[b][m] = wire[b][m]
    BY <1>2
  <2> QED
    BY <1>2, <1>3, <1>a, <2>1 DEF Open
<1>6. \A b \in Actions : Covered(b)' <=> Covered(b)
  BY <1>1 DEF Covered
<1>7. \A v \in Workers, b \in Actions : Starter(v, b)' <=> Starter(v, b)
  BY <1>1 DEF Starter, Holds
<1>8. Rekeys' /\ Private' /\ OneStarter'
  BY <1>0, <1>1, <1>7 DEF Rekeys, Private, Holds, OneStarter
<1>9. Numbering'
  BY <1>0, <1>1, <1>5 DEF Numbering
<1>10. Distinct'
  <2>1. ASSUME NEW v \in Workers, run[v].pc \in {"prepare", "upload", "send"}
        PROVE  wire'[run[v].act][run[v].att] = "none"
    <3>1. /\ wire[run[v].act][run[v].att] = "none" /\ run[v].act \in Actions
          /\ run[v].att > 0
      BY <1>0, <2>1 DEF Distinct, Numbering, TypeOK, At
    <3>2. run[v].att \in Attempts
      BY <1>0, <3>1, AttemptRange
    <3> QED
      BY <1>5, <3>1, <3>2
  <2> QED
    BY <1>0, <1>1, <2>1 DEF Distinct
<1>11. Claimable'
  BY <1>0, <1>1, <1>4, <1>7 DEF Claimable
<1>12. Alone' /\ AtMostOnce'
  BY <1>0, <1>1, <1>5, <1>6, <1>7 DEF Alone, AtMostOnce
<1>13. Honest'
  <2> SUFFICES ASSUME NEW v \in Workers, NEW b \in Actions, Starter(v, b), Covered(b),
                      At(v, "catch"), ~Uncertain(run[v])
               PROVE  wire'[b][run[v].att] \in {"none", "refused"}
    BY <1>1, <1>6, <1>7 DEF Honest, At
  <2>1. wire[b][run[v].att] \in {"none", "refused"}
    BY <1>0 DEF Honest
  <2>2. run[v].att \in Attempts
    BY <1>0, AttemptRange DEF Starter, Holds
  <2> QED
    BY <1>5, <2>1, <2>2
<1>14. RestartIsSafe'
  <2> SUFFICES ASSUME NEW b \in Actions, Covered(b), row'[b].status \in Restartable,
                      NEW m \in Attempts, Open(b, m)'
               PROVE  FALSE
    BY <1>6 DEF RestartIsSafe
  <2>1. CASE b = a
    BY <1>0, <1>3, <1>5, <2>1 DEF AtMostOnce
  <2>2. CASE b # a
    BY <1>0, <1>1, <1>5, <2>2 DEF RestartIsSafe
  <2> QED
    BY <2>1, <2>2
<1> QED
  BY <1>8, <1>9, <1>10, <1>11, <1>12, <1>13, <1>14 DEF IInv

LEMMA DecidedQuiet ==
  ASSUME TypeOK, Numbering, NEW a \in Actions, NEW st \in Statuses \ Restartable,
         NEW version, NEW step,
         row' \in Decided([row EXCEPT ![a].status = st], version, step)
  PROVE  QuietRows
<1> DEFINE rows == [row EXCEPT ![a].status = st]
<1>1. /\ rows \in [Actions -> Rows] /\ rows[a].status = st
      /\ rows[a].retry = row[a].retry /\ rows[a].msg = row[a].msg
      /\ rows[a].saved = row[a].saved
      /\ \A b \in Actions : b # a => rows[b] = row[b]
  BY DEF TypeOK, Rows
<1>4. row' \in Decided(rows, version, step)
  OBVIOUS
<1> HIDE DEF rows
<1>2. st \notin Restartable /\ st # "ABSENT"
  BY DEF Restartable
<1>3. ASSUME NEW b \in Actions PROVE QuietRow(b)
  <2>1. CASE row'[b] = rows[b]
    BY <1>1, <1>2, <2>1 DEF QuietRow
  <2>2. CASE rows[b].status = "ABSENT" /\ row'[b] = NewRow(version, step)
    BY <1>1, <1>2, <2>2, FreshQuiet
  <2> QED
    BY <1>1, <1>4, <2>1, <2>2, DecidedSame
<1> QED
  BY <1>3 DEF QuietRows

LEMMA StatusQuiet ==
  ASSUME TypeOK, NEW a \in Actions, NEW st \in Statuses \ {"ABSENT"},
         row' = [row EXCEPT ![a].status = st],
         st \in Restartable => row[a].status \in Restartable
  PROVE  QuietRows
<1>1. ASSUME NEW b \in Actions PROVE QuietRow(b)
  BY DEF QuietRow, TypeOK, Rows
<1> QED
  BY <1>1 DEF QuietRows

LEMMA CancelledQuiet ==
  ASSUME TypeOK, NEW S, row' = Cancelled(S)
  PROVE  QuietRows
<1>1. ASSUME NEW b \in Actions PROVE QuietRow(b)
  BY DEF QuietRow, TypeOK, Rows, Cancelled, Restartable
<1> QED
  BY <1>1 DEF QuietRows

LEMMA ProposeQuiet ==
  ASSUME TypeOK, Numbering, NEW a \in Actions, NEW version, NEW step,
         Propose(a, version, step)
  PROVE  QuietRows
<1>1. /\ row[a].status = "ABSENT" /\ row'[a] = NewRow(version, step)
      /\ \A b \in Actions : b # a => row'[b] = row[b]
  BY DEF Propose, TypeOK
<1> QED
  BY <1>1, FreshQuiet DEF QuietRows, QuietRow

LEMMA SameQuiet == UNCHANGED row => QuietRows
  BY DEF QuietRows, QuietRow

(* Everything done to rows but a failure report is quiet. *)
LEMMA UpkeepQuiet ==
  ASSUME IInv, NEW a \in Actions, Upkeep(a), ~DeliveryFailed(a)
  PROVE  QuietRows
<1>0. TypeOK /\ Numbering
  BY DEF IInv
<1>1. CASE TurnAway(a)
  <2>1. Verdict(a, kase) \in {"CANCELLED", "STALE", "HUMAN_REQUIRED"}
    BY <1>1 DEF TurnAway, Verdict, FreshVerdict, ReconcileVerdict
  <2> QED
    BY <1>0, <1>1, <2>1, StatusQuiet DEF TurnAway, Statuses, Restartable
<1>2. CASE CloseAtDeadline(a)
  BY <1>0, <1>2, CancelledQuiet DEF CloseAtDeadline
<1>3. CASE DeliveryConfirmed(a)
  <2>1. "EXECUTED" \in Statuses \ Restartable
    BY DEF Statuses, Restartable
  <2>2. CASE Advance(a, [row EXCEPT ![a].status = "EXECUTED"])
    BY <1>0, <2>1, <2>2, DecidedQuiet DEF Advance
  <2>3. CASE row' = [row EXCEPT ![a].status = "EXECUTED"]
    BY <1>0, <2>1, <2>3, StatusQuiet DEF Restartable
  <2> QED
    BY <1>3, <2>2, <2>3 DEF DeliveryConfirmed
<1>4. CASE RecoverStale(a)
  BY <1>0, <1>4, StatusQuiet DEF RecoverStale, AfterCrash, Statuses, Restartable
<1>5. CASE OperatorRetry(a)
  BY <1>0, <1>5, StatusQuiet DEF OperatorRetry, Retryable, Statuses, Restartable
<1> QED
  BY <1>1, <1>2, <1>3, <1>4, <1>5 DEF Upkeep

LEMMA UpkeepStep ==
  ASSUME IInv, TypeOK', NEW a \in Actions, Upkeep(a)
  PROVE  IInv'
<1>1. CASE DeliveryFailed(a)
  BY <1>1, FailedStep
<1>2. CASE ~DeliveryFailed(a)
  <2>1. UNCHANGED <<wire, run>> /\ (budget' = budget \/ Spend("stalls"))
    BY <1>2 DEF Upkeep, TurnAway, CloseAtDeadline, DeliveryConfirmed, RecoverStale,
       OperatorRetry
  <2>2. budget'.rekeys <= budget.rekeys
    BY <2>1, SpendType, Numbers, TypeParts DEF IInv
  <2> QED
    BY <1>2, <2>1, <2>2, UpkeepQuiet, Frame
<1> QED
  BY <1>1, <1>2

LEMMA OutsideQuiet ==
  ASSUME IInv, Outside
  PROVE  QuietRows
<1>0. TypeOK /\ Numbering
  BY DEF IInv
<1>1. ASSUME Transition PROVE QuietRows
  <2>1. PICK s : row' \in Decided(row, kase.version + 1, s)
    BY <1>1 DEF Transition
  <2>2. row \in [Actions -> Rows]
    BY <1>0 DEF TypeOK
  <2>3. ASSUME NEW b \in Actions PROVE QuietRow(b)
    <3>1. CASE row'[b] = row[b]
      BY <3>1 DEF QuietRow
    <3>2. CASE row[b].status = "ABSENT" /\ row'[b] = NewRow(kase.version + 1, s)
      BY <1>0, <3>2, FreshQuiet
    <3> QED
      BY <2>1, <2>2, <3>1, <3>2, DecidedSame
  <2> QED
    BY <2>3 DEF QuietRows
<1>2. CASE RecoverCase \/ ClosePhaseOne
  BY <1>0, <1>2, CancelledQuiet DEF RecoverCase, ClosePhaseOne
<1>3. CASE SetAutomation(TRUE) \/ SetAutomation(FALSE) \/ OptOut \/ Inbound \/ Reengage
           \/ DeadlinePasses \/ DayPasses
  BY <1>3, SameQuiet DEF SetAutomation, OptOut, Inbound, Reengage, DeadlinePasses, DayPasses
<1>4. ASSUME NEW a \in Actions, Others(a) PROVE QuietRows
  BY <1>0, <1>4, ProposeQuiet DEF Others, HeldAck, ScheduleReminder
<1>5. ASSUME NEW a \in Actions \cup {NoAction}, Escalate(a) PROVE QuietRows
  BY <1>0, <1>5, ProposeQuiet, SameQuiet DEF Escalate
<1> QED
  BY <1>1, <1>2, <1>3, <1>4, <1>5 DEF Outside, Clients, ClientTurn, OperatorEvent

LEMMA OutsideStep ==
  ASSUME IInv, TypeOK', Outside
  PROVE  IInv'
<1>1. UNCHANGED <<wire, run, budget>>
  BY DEF Outside, Clients, Others, ClientTurn, OperatorEvent, Transition, RecoverCase,
     SetAutomation, OptOut, Inbound, Reengage, ClosePhaseOne, DeadlinePasses, DayPasses, HeldAck,
     ScheduleReminder, Escalate, caseRest
<1>2. budget'.rekeys <= budget.rekeys
  BY <1>1, Numbers DEF IInv
<1> QED
  BY <1>1, <1>2, OutsideQuiet, Frame

LEMMA IInvStep == IInv /\ [Next]_vars => IInv'
<1> SUFFICES ASSUME IInv, [Next]_vars PROVE IInv'
  OBVIOUS
<1>0. TypeOK /\ TypeOK'
  BY TypeStep DEF IInv
<1>1. CASE UNCHANGED vars
  <2>1. budget'.rekeys <= budget.rekeys
    BY <1>0, <1>1, Numbers DEF vars
  <2> QED
    BY <1>0, <1>1, <2>1, SameQuiet, Frame DEF vars
<1>2. ASSUME NEW w \in Workers, NEW a \in Actions, Begin(w, a) PROVE IInv'
  BY <1>0, <1>2, BeginStep
<1>3. ASSUME NEW w \in Workers, Execute(w) PROVE IInv'
  BY <1>0, <1>3, InsideStep, ClaimStep, IssueStep, CommitStep, CatchStep DEF Execute, Inside
<1>4. ASSUME NEW w \in Workers, Crash(w) \/ LoseLock(w) \/ NoticeLoss(w) PROVE IInv'
  BY <1>0, <1>4, FaultStep
<1>5. ASSUME NEW a \in Actions, Upkeep(a) PROVE IInv'
  BY <1>0, <1>5, UpkeepStep
<1>6. ASSUME NEW a \in Actions, NEW n \in Attempts, Carrier(a, n) PROVE IInv'
  BY <1>0, <1>6, CarrierStep
<1>7. CASE Outside
  BY <1>0, <1>7, OutsideStep
<1> QED
  BY <1>1, <1>2, <1>3, <1>4, <1>5, <1>6, <1>7 DEF Next, Outside

(* InvariantHolds: the invariant holds in every reachable state. *)
THEOREM InvariantHolds == Spec => []IInv
  BY InvInit, IInvStep, PTL DEF Spec

(* EffectsAtMostOnce: whatever the workers, carriers, callbacks, crashes,   *)
(* lost locks and operators do, at most one request of an action may have   *)
(* taken effect.                                                            *)
THEOREM EffectsAtMostOnce == Spec => []AtMostOnce
<1>1. IInv => AtMostOnce
  BY DEF IInv
<1> QED
  BY InvInit, IInvStep, <1>1, PTL DEF Spec

(* RestartsSafe: a row that waits for a first attempt, was blocked or       *)
(* failed never has a request that may still take effect.                   *)
THEOREM RestartsSafe == Spec => []RestartIsSafe
<1>1. IInv => RestartIsSafe
  BY DEF IInv
<1> QED
  BY InvInit, IInvStep, <1>1, PTL DEF Spec

-------------------------------------------------------------------------------
(* The outbox implements EffectOnce, and what is uncertain keeps its        *)
(* evidence, for every set of actions and workers and every bound.          *)

Restarts(a) == row[a].status \in Restartable

LEMMA GuardedCovered ==
  ASSUME IInv, NEW a \in Guarded
  PROVE  a \in Actions /\ Covered(a)
<1>1. MaxRekeys \in Nat /\ budget.rekeys \in Nat /\ budget.rekeys <= MaxRekeys
  BY OutboxAssumption, Numbers DEF IInv, Rekeys
<1> QED
  BY <1>1 DEF Guarded, Covered

(* Requests are as before and no row becomes restartable. *)
LEMMA Taken ==
  ASSUME \A a \in Actions : Restarts(a)' => Restarts(a),
         \A a \in Actions, n \in Attempts : Open(a, n)' <=> Open(a, n)
  PROVE  Once!Take
<1>1. Permits' \subseteq Permits
  BY DEF Permits, Guarded, Restarts
<1>2. Pending' = Pending
  BY DEF Pending, Guarded
<1> QED
  BY <1>1, <1>2 DEF Once!Take

LEMMA QuietTaken ==
  ASSUME QuietRows, UNCHANGED wire
  PROVE  Once!Take
  BY Taken DEF QuietRows, QuietRow, Restarts, Open

LEMMA ClaimTakes ==
  ASSUME IInv, NEW w \in Workers, Claim(w)
  PROVE  Once!Take
<1>1. TypeOK /\ run[w].act \in Actions
  BY DEF IInv, TypeOK, Claim, At
<1>2. /\ row'[run[w].act].status = "RUNNING" /\ UNCHANGED wire
      /\ \A b \in Actions : b # run[w].act => row'[b] = row[b]
  BY <1>1 DEF Claim, Claimed, TypeOK, Rows
<1> QED
  BY <1>2, Taken DEF Restarts, Restartable, Open

LEMMA CommitTakes ==
  ASSUME IInv, NEW w \in Workers, Commit(w)
  PROVE  Once!Take
<1>1. PICK a \in Actions : run[w].act = a
  BY DEF IInv, TypeOK, Commit, At
<1>2. \A b \in Actions : Restarts(b)' => Restarts(b)
  BY <1>1, CommitRows DEF Restarts, Restartable, QuietRow
<1>3. UNCHANGED wire
  BY DEF Commit
<1> QED
  BY <1>2, <1>3, Taken DEF Open

LEMMA CatchPermits ==
  ASSUME IInv, NEW w \in Workers, Catch(w)
  PROVE  Once!Take \/ \E e \in Guarded : Once!Permit(e)
<1>1. PICK a \in Actions : run[w].act = a
  BY DEF IInv, TypeOK, Catch, At
<1>2. UNCHANGED wire
  BY DEF Catch
<1>3. CASE \A b \in Actions : Restarts(b)' => Restarts(b)
  BY <1>2, <1>3, Taken DEF Open
<1>4. CASE ~ \A b \in Actions : Restarts(b)' => Restarts(b)
  <2>1. row' # row
    BY <1>4 DEF Restarts
  <2>2. \A b \in Actions : b # a => (Restarts(b)' <=> Restarts(b))
    BY <1>1, <2>1, CatchRows DEF Restarts, QuietRow
  <2>3. Restarts(a)' /\ ~Restarts(a)
    BY <1>4, <2>2
  <2>4. Starter(w, a) /\ (Covered(a) => wire[a][run[w].att] \in {"none", "refused"})
    BY <1>1, <2>1, <2>3, CatchRows DEF Restarts
  <2>5. CASE a \in Guarded
    <3>1. \A n \in Attempts : ~Open(a, n)
      BY <2>4, <2>5, GuardedCovered DEF IInv, Alone, Open
    <3>2. Pending[a] = {} /\ Pending' = Pending
      BY <1>2, <2>5, <3>1 DEF Pending, Guarded, Open
    <3>3. Permits' = Permits \cup {a}
      BY <2>2, <2>3, <2>5 DEF Permits, Restarts, Guarded
    <3> QED
      BY <2>5, <3>2, <3>3 DEF Once!Permit
  <2>6. CASE a \notin Guarded
    <3>1. Permits' = Permits
      BY <2>2, <2>6 DEF Permits, Restarts, Guarded
    <3>2. Pending' = Pending
      BY <1>2 DEF Pending, Guarded, Open
    <3> QED
      BY <3>1, <3>2 DEF Once!Take
  <2> QED
    BY <2>5, <2>6
<1> QED
  BY <1>3, <1>4

LEMMA IssueRequests ==
  ASSUME IInv, NEW w \in Workers, Issue(w)
  PROVE  Once!Take \/ \E e \in Guarded, r \in Attempts : Once!Request(e, r)
<1>0. TypeOK /\ Numbering /\ Distinct /\ Claimable /\ Alone
  BY DEF IInv
<1>1. PICK a \in Actions : run[w].act = a
  BY <1>0 DEF TypeOK, Issue, At
<1>2. PICK k \in Attempts : run[w].att = k
  <2>1. run[w].att > 0
    BY <1>0 DEF Issue, At, Numbering
  <2> QED
    BY <1>0, <2>1, AttemptRange
<1>3. Starter(w, a) /\ wire[a][k] = "none"
  BY <1>0, <1>1, <1>2 DEF Issue, At, Starter, Holds, Numbering, Distinct
<1>4. /\ UNCHANGED row /\ wire'[a][k] = "flying"
      /\ \A b \in Actions, n \in Attempts : b # a \/ n # k => wire'[b][n] = wire[b][n]
  BY <1>0, <1>1, <1>2 DEF Issue, TypeOK
<1>5. Permits' = Permits /\ ~Restarts(a)
  BY <1>0, <1>3, <1>4 DEF Permits, Guarded, Claimable, Restarts
<1>6. CASE a \in Guarded
  <2>1. \A n \in Attempts : ~Open(a, n)
    BY <1>0, <1>2, <1>3, <1>6, GuardedCovered DEF Alone, Open
  <2>2. \A n \in Attempts : Open(a, n)' <=> n = k
    BY <1>4, <2>1 DEF Open
  <2>3. \A b \in Guarded : b # a => \A n \in Attempts : Open(b, n)' <=> Open(b, n)
    BY <1>4 DEF Open, Guarded
  <2>4. Pending' = [Pending EXCEPT ![a] = {k}]
    BY <1>2, <1>6, <2>2, <2>3 DEF Pending, Guarded
  <2>5. a \notin Permits /\ Pending[a] = {}
    BY <1>5, <1>6, <2>1 DEF Permits, Restarts, Pending
  <2> QED
    BY <1>2, <1>5, <1>6, <2>4, <2>5 DEF Once!Request
<1>7. CASE a \notin Guarded
  <2>1. \A b \in Guarded, n \in Attempts : Open(b, n)' <=> Open(b, n)
    BY <1>4, <1>7 DEF Open, Guarded
  <2>2. Pending' = Pending
    BY <2>1 DEF Pending, Guarded
  <2> QED
    BY <1>5, <2>2 DEF Once!Take
<1> QED
  BY <1>6, <1>7

LEMMA CarrierFails ==
  ASSUME IInv, NEW a \in Actions, NEW n \in Attempts, Carrier(a, n)
  PROVE  Once!Take \/ \E e \in Guarded : Once!Fail(e)
<1>0. TypeOK /\ AtMostOnce
  BY DEF IInv
<1>1. UNCHANGED row
  BY DEF Carrier, Accept, Refuse, Deliver, Bounce, CarrierMoves
<1>2. CASE ~Refuse(a, n)
  <2>1. Open(a, n) /\ Open(a, n)'
    BY <1>0, <1>2 DEF TypeOK, Carrier, Accept, Deliver, Bounce, CarrierMoves, Open
  <2>2. \A b \in Actions, m \in Attempts : b # a \/ m # n => wire'[b][m] = wire[b][m]
    BY <1>0, <1>2 DEF TypeOK, Carrier, Accept, Deliver, Bounce, CarrierMoves
  <2>3. \A b \in Actions, m \in Attempts : Open(b, m)' <=> Open(b, m)
    <3>1. \A b \in Actions, m \in Attempts : (b = a /\ m = n) \/ wire'[b][m] = wire[b][m]
      BY <2>2
    <3> QED
      BY <2>1, <3>1 DEF Open
  <2> QED
    BY <1>1, <2>3, Taken DEF Restarts
<1>3. CASE Refuse(a, n)
  <2>1. /\ Open(a, n) /\ ~Open(a, n)'
        /\ \A b \in Actions, m \in Attempts : b # a \/ m # n => wire'[b][m] = wire[b][m]
    BY <1>0, <1>3 DEF TypeOK, Refuse, CarrierMoves, Open
  <2>2. Permits' = Permits
    BY <1>1 DEF Permits, Guarded
  <2>3. \A b \in Guarded : b # a => \A m \in Attempts : Open(b, m)' <=> Open(b, m)
    BY <2>1 DEF Open, Guarded
  <2>4. CASE a \in Guarded
    <3>1. \A m \in Attempts : ~Open(a, m)'
      <4>1. \A m \in Attempts : m # n => ~Open(a, m)
        BY <1>0, <2>1, <2>4, GuardedCovered DEF AtMostOnce
      <4> QED
        BY <2>1, <4>1 DEF Open
    <3>2. Pending' = [Pending EXCEPT ![a] = {}]
      BY <2>3, <2>4, <3>1 DEF Pending, Guarded
    <3> QED
      BY <2>2, <2>4, <3>2 DEF Once!Fail
  <2>5. CASE a \notin Guarded
    <3>1. Pending' = Pending
      BY <2>3, <2>5 DEF Pending, Guarded
    <3> QED
      BY <2>2, <3>1 DEF Once!Take
  <2> QED
    BY <2>4, <2>5
<1> QED
  BY <1>2, <1>3

LEMMA ReportFails ==
  ASSUME IInv, NEW a \in Actions, DeliveryFailed(a)
  PROVE  \E e \in Guarded : Once!Fail(e)
<1>0. TypeOK /\ Numbering /\ AtMostOnce
  BY DEF IInv
<1>1. PICK k \in Attempts : row[a].msg = k /\ wire[a][k] = "bounced"
  BY DEF DeliveryFailed, Reports
<1>2. a \in Guarded
  <2>1. k # 0
    BY OutboxAssumption DEF Attempts
  <2> QED
    BY <1>0, <1>1, <2>1 DEF Numbering, IsWhatsApp, Searchable, Guarded
<1>3. /\ Restarts(a)'
      /\ \A b \in Actions : b # a => row'[b] = row[b]
  BY <1>0 DEF DeliveryFailed, TypeOK, Restarts, Restartable, Rows
<1>4. /\ Open(a, k) /\ ~Open(a, k)'
      /\ \A b \in Actions, m \in Attempts : b # a \/ m # k => wire'[b][m] = wire[b][m]
  BY <1>0, <1>1 DEF DeliveryFailed, MarkProcessed, TypeOK, Open
<1>5. \A m \in Attempts : ~Open(a, m)'
  <2>1. \A m \in Attempts : m # k => ~Open(a, m)
    BY <1>0, <1>2, <1>4, GuardedCovered DEF AtMostOnce
  <2> QED
    BY <1>4, <2>1 DEF Open
<1>6. \A b \in Guarded : b # a => \A m \in Attempts : Open(b, m)' <=> Open(b, m)
  BY <1>4 DEF Open, Guarded
<1>7. Pending' = [Pending EXCEPT ![a] = {}]
  BY <1>2, <1>5, <1>6 DEF Pending, Guarded
<1>8. Permits' = Permits \cup {a}
  BY <1>2, <1>3 DEF Permits, Restarts, Guarded
<1> QED
  BY <1>2, <1>7, <1>8 DEF Once!Fail

LEMMA OnceStep ==
  ASSUME IInv, [Next]_vars
  PROVE  [Once!Next]_(Once!vars)
<1>1. CASE UNCHANGED vars
  BY <1>1 DEF vars, Once!vars, Permits, Pending, Guarded, Open
<1>2. ASSUME NEW w \in Workers, NEW a \in Actions, Begin(w, a) PROVE Once!Take
  BY <1>2, QuietTaken, SameQuiet DEF Begin
<1>3. ASSUME NEW w \in Workers, Execute(w) PROVE Once!Next
  <2>1. CASE Inside(w)
    <3>1. UNCHANGED <<row, wire>>
      BY <2>1 DEF Inside, PreClaimFails, AbortBeforeClaim, ClaimLost, Replay,
         RefuseReconcile, PrepareFails, BeforeEffect, UploadFails, SearchFinds,
         SearchUnresolved, AdapterRefuses, AnswerAccepted, AnswerRefused, AnswerLost,
         ReadbackMismatch, CommitFails
    <3> QED
      BY <3>1, QuietTaken, SameQuiet DEF Once!Next
  <2>2. CASE ~Inside(w)
    BY <1>3, <2>2, ClaimTakes, IssueRequests, CommitTakes, CatchPermits
       DEF Execute, Inside, Once!Next
  <2> QED
    BY <2>1, <2>2
<1>4. ASSUME NEW w \in Workers, Crash(w) \/ LoseLock(w) \/ NoticeLoss(w) PROVE Once!Take
  BY <1>4, QuietTaken, SameQuiet DEF Crash, LoseLock, NoticeLoss
<1>5. ASSUME NEW a \in Actions, Upkeep(a) PROVE Once!Next
  <2>1. CASE DeliveryFailed(a)
    BY <2>1, ReportFails DEF Once!Next
  <2>2. CASE ~DeliveryFailed(a)
    <3>1. UNCHANGED wire
      BY <1>5, <2>2 DEF Upkeep, TurnAway, CloseAtDeadline, DeliveryConfirmed,
         RecoverStale, OperatorRetry
    <3> QED
      BY <1>5, <2>2, <3>1, UpkeepQuiet, QuietTaken DEF Once!Next
  <2> QED
    BY <2>1, <2>2
<1>6. ASSUME NEW a \in Actions, NEW n \in Attempts, Carrier(a, n) PROVE Once!Next
  BY <1>6, CarrierFails DEF Once!Next
<1>7. ASSUME Outside PROVE Once!Take
  <2>1. UNCHANGED wire
    BY <1>7 DEF Outside, Clients, Others, ClientTurn, OperatorEvent, Transition,
       RecoverCase, SetAutomation, OptOut, Inbound, Reengage, ClosePhaseOne, DeadlinePasses,
       DayPasses, HeldAck, ScheduleReminder, Escalate, caseRest
  <2> QED
    BY <1>7, <2>1, OutsideQuiet, QuietTaken
<1> QED
  BY <1>1, <1>2, <1>3, <1>4, <1>5, <1>6, <1>7 DEF Next, Outside, Once!Next

LEMMA OnceInit == Init => Once!Init
<1> SUFFICES ASSUME Init PROVE Once!Init
  OBVIOUS
<1>1. \A a \in Actions : /\ row[a].status = "ABSENT"
                         /\ \A n \in Attempts : wire[a][n] = "none"
  BY DEF Init, NewRow
<1>2. Permits = Guarded
  BY <1>1 DEF Permits, Guarded, Restartable
<1>3. Pending = [a \in Guarded |-> {}]
  BY <1>1 DEF Pending, Guarded, Open
<1> QED
  BY <1>2, <1>3 DEF Once!Init

(* OutboxImplements: every behaviour of the outbox, workers, carrier and    *)
(* operators included, is one of EffectOnce: an effect is requested only    *)
(* after its permit was used up, and the permit returns only when the       *)
(* request is known to have failed.                                         *)
THEOREM OutboxImplements == Spec => ImplementsEffectOnce
  BY OnceInit, OnceStep, InvInit, IInvStep, PTL
     DEF Spec, ImplementsEffectOnce, Once!Spec

-------------------------------------------------------------------------------
(* What is uncertain is settled by evidence or by a person.                 *)

Kept(a) ==
  row[a].status = "UNCERTAIN" =>
    \/ row'[a].status \in {"UNCERTAIN", "RUNNING", "EXECUTED", "HUMAN_REQUIRED"}
    \/ row'[a].status = "FAILED" /\ \E n \in Attempts :
         wire[a][n] = "bounced" /\ wire'[a][n] = "buried"
AllKept == \A a \in Actions : Kept(a)

LEMMA SameKept == UNCHANGED row => AllKept
  BY DEF AllKept, Kept

LEMMA FreshKept ==
  ASSUME NEW b \in Actions, row'[b] = row[b] \/ row[b].status = "ABSENT"
  PROVE  Kept(b)
  BY DEF Kept

LEMMA StatusKept ==
  ASSUME TypeOK, NEW a \in Actions,
         NEW st \in {"UNCERTAIN", "RUNNING", "EXECUTED", "HUMAN_REQUIRED"},
         row' = [row EXCEPT ![a].status = st]
  PROVE  AllKept
<1>1. row'[a].status = st /\ \A b \in Actions : b # a => row'[b] = row[b]
  BY DEF TypeOK, Rows
<1> QED
  BY <1>1 DEF AllKept, Kept

LEMMA ClaimKeeps ==
  ASSUME IInv, NEW w \in Workers, Claim(w)
  PROVE  AllKept
<1>1. TypeOK /\ run[w].act \in Actions
  BY DEF IInv, TypeOK, Claim, At
<1>2. /\ row'[run[w].act].status = "RUNNING"
      /\ \A b \in Actions : b # run[w].act => row'[b] = row[b]
  BY <1>1 DEF Claim, Claimed, TypeOK, Rows
<1> QED
  BY <1>2 DEF AllKept, Kept

LEMMA CommitKeeps ==
  ASSUME IInv, NEW w \in Workers, Commit(w)
  PROVE  AllKept
<1> DEFINE settled == [row EXCEPT ![run[w].act] = Settled(run[w])]
<1>0. TypeOK /\ run[w].act \in Actions
  BY DEF IInv, TypeOK, Commit, At
<1>1. row[run[w].act].status = "RUNNING"
  BY DEF Commit, OwnsAttempt
<1>2. \A b \in Actions : b # run[w].act => settled[b] = row[b]
  BY <1>0 DEF TypeOK
<1>3. settled \in [Actions -> Rows]
  <2>1. run[w].res \in 0 .. MaxAttempts /\ run[w].ver \in Nat /\ 0 \in 0 .. MaxAttempts
    BY <1>0, OutboxAssumption DEF TypeOK, Runs
  <2>2. row[run[w].act] \in Rows
    BY <1>0 DEF TypeOK
  <2>3. Settled(run[w]) \in Rows
    BY <2>1, <2>2 DEF Settled, Rows, Statuses
  <2> QED
    BY <1>0, <2>3 DEF TypeOK
<1> HIDE DEF settled
<1>4. row' = settled \/ \E s : row' \in Decided(settled, kase.version + 1, s)
  BY DEF Commit, Advance, settled
<1>5. ASSUME NEW b \in Actions PROVE Kept(b)
  <2>1. CASE b = run[w].act
    BY <1>1, <2>1 DEF Kept
  <2>2. CASE b # run[w].act
    BY <1>2, <1>3, <1>4, <2>2, DecidedSame, FreshKept
  <2> QED
    BY <2>1, <2>2
<1> QED
  BY <1>5 DEF AllKept

LEMMA CatchKeeps ==
  ASSUME IInv, NEW w \in Workers, Catch(w)
  PROVE  AllKept
<1>0. TypeOK /\ run[w].act \in Actions
  BY DEF IInv, TypeOK, Catch, At
<1>1. CASE row' = row
  BY <1>1, SameKept
<1>2. CASE CatchWrites(w) /\ row' # row
  <2>1. /\ row'[run[w].act].status = Outcome(run[w])
        /\ \A b \in Actions : b # run[w].act => row'[b] = row[b] \/ row[b].status = "ABSENT"
    <3>1. CASE row' = [row EXCEPT ![run[w].act] = Written(run[w])]
      BY <1>0, <3>1 DEF TypeOK, Written, Rows
    <3>2. CASE /\ NoticeDue(run[w].act, Outcome(run[w]))
               /\ row' = [row EXCEPT ![run[w].act] = Written(run[w]),
                                     ![Notice(run[w].act)] = NewRow(run[w].ver, run[w].step)]
      <4>1. /\ Notice(run[w].act) \in Actions /\ Notice(run[w].act) # run[w].act
            /\ row[Notice(run[w].act)].status = "ABSENT"
        BY <1>0, <3>2, OutboxAssumption DEF NoticeDue, Notice
      <4>2. /\ row'[run[w].act] = Written(run[w])
            /\ \A b \in Actions : b # run[w].act /\ b # Notice(run[w].act) => row'[b] = row[b]
        BY <1>0, <3>2, <4>1 DEF TypeOK
      <4>3. Written(run[w]).status = Outcome(run[w])
        BY <1>0 DEF TypeOK, Written, Rows
      <4> QED
        BY <4>1, <4>2, <4>3
    <3> QED
      BY <1>2, <3>1, <3>2 DEF Catch
  <2>2. row[run[w].act].status = "UNCERTAIN" => run[w].rec
    BY <1>2 DEF CatchWrites, OwnsAttempt, SameStatus
  <2>3. run[w].rec => Outcome(run[w]) \in {"UNCERTAIN", "HUMAN_REQUIRED"}
    BY DEF Outcome, Uncertain
  <2> QED
    BY <2>1, <2>2, <2>3, FreshKept DEF AllKept, Kept
<1> QED
  BY <1>1, <1>2 DEF Catch

LEMMA CancelledKeeps ==
  ASSUME TypeOK, NEW S, "UNCERTAIN" \notin S, row' = Cancelled(S)
  PROVE  AllKept
  BY DEF AllKept, Kept, Cancelled

LEMMA UpkeepKeeps ==
  ASSUME IInv, NEW a \in Actions, Upkeep(a)
  PROVE  AllKept
<1>0. TypeOK
  BY DEF IInv
<1>1. CASE TurnAway(a)
  <2>1. row' = [row EXCEPT ![a].status = Verdict(a, kase)] /\ Verdict(a, kase) # "GO"
    BY <1>1 DEF TurnAway
  <2>2. CASE row[a].status = "UNCERTAIN"
    <3>1. Verdict(a, kase) = "HUMAN_REQUIRED"
      BY <2>1, <2>2 DEF Verdict, ReconcileVerdict
    <3> QED
      BY <1>0, <2>1, <3>1, StatusKept
  <2>3. CASE row[a].status # "UNCERTAIN"
    BY <1>0, <2>1, <2>3 DEF AllKept, Kept, TypeOK
  <2> QED
    BY <2>2, <2>3
<1>2. CASE CloseAtDeadline(a)
  BY <1>0, <1>2, CancelledKeeps DEF CloseAtDeadline, CancelledOnClose
<1>3. CASE DeliveryFailed(a)
  <2>1. PICK k \in Attempts : row[a].msg = k /\ wire[a][k] = "bounced"
    BY <1>3 DEF DeliveryFailed, Reports
  <2>2. /\ row'[a].status = "FAILED" /\ wire'[a][k] = "buried"
        /\ \A b \in Actions : b # a => row'[b] = row[b]
    BY <1>0, <1>3, <2>1 DEF DeliveryFailed, MarkProcessed, TypeOK, Rows
  <2> QED
    BY <2>1, <2>2 DEF AllKept, Kept
<1>4. CASE DeliveryConfirmed(a)
  <2> DEFINE rows == [row EXCEPT ![a].status = "EXECUTED"]
  <2>1. /\ rows \in [Actions -> Rows] /\ rows[a].status = "EXECUTED"
        /\ \A b \in Actions : b # a => rows[b] = row[b]
    BY <1>0 DEF TypeOK, Rows, Statuses
  <2>2. row' = rows \/ \E s : row' \in Decided(rows, kase.version + 1, s)
    BY <1>4 DEF DeliveryConfirmed, Advance
  <2> HIDE DEF rows
  <2>3. ASSUME NEW b \in Actions PROVE Kept(b)
    <3>1. CASE b = a
      BY <2>1, <2>2, <3>1, DecidedSame DEF Kept
    <3>2. CASE b # a
      BY <2>1, <2>2, <3>2, DecidedSame, FreshKept
    <3> QED
      BY <3>1, <3>2
  <2> QED
    BY <2>3 DEF AllKept
<1>5. CASE RecoverStale(a)
  BY <1>0, <1>5, StatusKept DEF RecoverStale, AfterCrash
<1>6. CASE OperatorRetry(a)
  BY <1>0, <1>6 DEF OperatorRetry, Retryable, TypeOK, AllKept, Kept
<1> QED
  BY <1>1, <1>2, <1>3, <1>4, <1>5, <1>6 DEF Upkeep

LEMMA OutsideKeeps ==
  ASSUME IInv, Outside
  PROVE  AllKept
<1>0. TypeOK
  BY DEF IInv
<1>1. ASSUME Transition PROVE AllKept
  <2>1. PICK s : row' \in Decided(row, kase.version + 1, s)
    BY <1>1 DEF Transition
  <2>2. row \in [Actions -> Rows]
    BY <1>0 DEF TypeOK
  <2> QED
    BY <2>1, <2>2, DecidedSame, FreshKept DEF AllKept
<1>2. CASE RecoverCase \/ ClosePhaseOne
  BY <1>0, <1>2, CancelledKeeps DEF RecoverCase, ClosePhaseOne, CancelledOnResume,
     CancelledOnClose
<1>3. CASE SetAutomation(TRUE) \/ SetAutomation(FALSE) \/ OptOut \/ Inbound \/ Reengage
           \/ DeadlinePasses \/ DayPasses
  BY <1>3, SameKept DEF SetAutomation, OptOut, Inbound, Reengage, DeadlinePasses, DayPasses
<1>4. ASSUME NEW a \in Actions, NEW version, NEW step, Propose(a, version, step)
      PROVE  AllKept
  BY <1>0, <1>4 DEF Propose, TypeOK, AllKept, Kept
<1>5. ASSUME NEW a \in Actions, Others(a) PROVE AllKept
  BY <1>4, <1>5 DEF Others, HeldAck, ScheduleReminder
<1>6. ASSUME NEW a \in Actions \cup {NoAction}, Escalate(a) PROVE AllKept
  BY <1>4, <1>6, SameKept DEF Escalate
<1> QED
  BY <1>1, <1>2, <1>3, <1>5, <1>6 DEF Outside, Clients, ClientTurn, OperatorEvent

LEMMA KeptStep ==
  ASSUME IInv, [Next]_vars
  PROVE  AllKept
<1>1. CASE UNCHANGED vars
  BY <1>1, SameKept DEF vars
<1>2. ASSUME NEW w \in Workers, NEW a \in Actions, Begin(w, a) PROVE AllKept
  BY <1>2, SameKept DEF Begin
<1>3. ASSUME NEW w \in Workers, Execute(w) PROVE AllKept
  <2>1. CASE Inside(w) \/ Issue(w)
    BY <2>1, SameKept DEF Issue, Inside, PreClaimFails, AbortBeforeClaim, ClaimLost, Replay,
       RefuseReconcile, PrepareFails, BeforeEffect, UploadFails, SearchFinds,
       SearchUnresolved, AdapterRefuses, AnswerAccepted, AnswerRefused, AnswerLost,
       ReadbackMismatch, CommitFails
  <2>2. CASE ~Inside(w) /\ ~Issue(w)
    BY <1>3, <2>2, ClaimKeeps, CommitKeeps, CatchKeeps DEF Execute, Inside
  <2> QED
    BY <2>1, <2>2
<1>4. ASSUME NEW w \in Workers, Crash(w) \/ LoseLock(w) \/ NoticeLoss(w) PROVE AllKept
  BY <1>4, SameKept DEF Crash, LoseLock, NoticeLoss
<1>5. ASSUME NEW a \in Actions, Upkeep(a) PROVE AllKept
  BY <1>5, UpkeepKeeps
<1>6. ASSUME NEW a \in Actions, NEW n \in Attempts, Carrier(a, n) PROVE AllKept
  BY <1>6, SameKept DEF Carrier, Accept, Refuse, Deliver, Bounce, CarrierMoves
<1>7. CASE Outside
  BY <1>7, OutsideKeeps
<1> QED
  BY <1>1, <1>2, <1>3, <1>4, <1>5, <1>6, <1>7 DEF Next, Outside

(* EvidenceKept: an uncertain effect is never blocked, restarted, cancelled *)
(* or declared stale; it is reconciled, delivered, handed to a person, or   *)
(* fails by the provider's own report.                                      *)
THEOREM EvidenceKept == Spec => UncertainKeepsEvidence
<1>1. IInv /\ [Next]_vars =>
        [\A a \in Actions : row[a].status = "UNCERTAIN" =>
           \/ row'[a].status \in {"UNCERTAIN", "RUNNING", "EXECUTED", "HUMAN_REQUIRED"}
           \/ row'[a].status = "FAILED" /\ \E n \in Attempts :
                wire[a][n] = "bounced" /\ wire'[a][n] = "buried"]_vars
  BY KeptStep DEF AllKept, Kept
<1> QED
  BY <1>1, InvInit, IInvStep, PTL DEF Spec, UncertainKeepsEvidence


-------------------------------------------------------------------------------
(* How a request's fate may change in one step.                             *)

WireGoes(a, n) ==
  \/ wire'[a][n] = wire[a][n]
  \/ wire[a][n] = "none" /\ wire'[a][n] = "flying"
  \/ wire[a][n] = "flying" /\ wire'[a][n] \in {"accepted", "refused"}
  \/ IsWhatsApp(a) /\ wire[a][n] = "accepted" /\ wire'[a][n] \in {"delivered", "bounced"}
  \/ IsWhatsApp(a) /\ wire[a][n] = "bounced" /\ wire'[a][n] = "buried"

LEMMA WireStep ==
  ASSUME IInv, [Next]_vars, NEW a \in Actions, NEW n \in Attempts
  PROVE  WireGoes(a, n)
<1>0. TypeOK /\ Numbering /\ Distinct
  BY DEF IInv
<1>1. CASE UNCHANGED wire
  BY <1>1 DEF WireGoes
<1>2. ASSUME NEW w \in Workers, Issue(w) PROVE WireGoes(a, n)
  <2>1. wire[run[w].act][run[w].att] = "none"
    BY <1>0, <1>2 DEF Issue, At, Distinct
  <2>2. wire' = [wire EXCEPT ![run[w].act][run[w].att] = "flying"]
    BY <1>2 DEF Issue
  <2> QED
    BY <1>0, <2>1, <2>2 DEF WireGoes, TypeOK
<1>3. ASSUME NEW b \in Actions, NEW k \in Attempts, Carrier(b, k) PROVE WireGoes(a, n)
  BY <1>0, <1>3 DEF Carrier, Accept, Refuse, Deliver, Bounce, CarrierMoves, WireGoes, TypeOK
<1>4. ASSUME NEW b \in Actions, DeliveryFailed(b) PROVE WireGoes(a, n)
  <2>1. PICK k \in Attempts : row[b].msg = k /\ wire[b][k] = "bounced"
    BY <1>4 DEF DeliveryFailed, Reports
  <2>2. IsWhatsApp(b)
    BY <1>0, <2>1 DEF Numbering, Attempts
  <2>3. wire' = [wire EXCEPT ![b][k] = "buried"]
    BY <1>4, <2>1 DEF DeliveryFailed, MarkProcessed
  <2> QED
    BY <1>0, <2>1, <2>2, <2>3 DEF WireGoes, TypeOK
<1>5. ASSUME NEW w \in Workers, Execute(w), ~Issue(w) PROVE UNCHANGED wire
  BY <1>5 DEF Execute, PreClaimFails, AbortBeforeClaim, Claim, ClaimLost, Replay,
     RefuseReconcile, PrepareFails, BeforeEffect, UploadFails, SearchFinds,
     SearchUnresolved, AdapterRefuses, AnswerAccepted, AnswerRefused, AnswerLost,
     ReadbackMismatch, Commit, CommitFails, Catch
<1>6. ASSUME NEW b \in Actions, Upkeep(b), ~DeliveryFailed(b) PROVE UNCHANGED wire
  BY <1>6 DEF Upkeep, TurnAway, CloseAtDeadline, DeliveryConfirmed, RecoverStale, OperatorRetry
<1>7. ASSUME Outside PROVE UNCHANGED wire
  BY <1>7 DEF Outside, Clients, ClientTurn, OperatorEvent, Transition, RecoverCase,
     SetAutomation, OptOut, Inbound, Reengage, ClosePhaseOne, DeadlinePasses, DayPasses,
     Others, HeldAck, ScheduleReminder, Escalate, caseRest
<1>8. ASSUME NEW w \in Workers, NEW b \in Actions,
             Begin(w, b) \/ Crash(w) \/ LoseLock(w) \/ NoticeLoss(w)
      PROVE  UNCHANGED wire
  BY <1>8 DEF Begin, Crash, LoseLock, NoticeLoss
<1>9. ASSUME NEW w \in Workers, Crash(w) \/ LoseLock(w) \/ NoticeLoss(w)
      PROVE  UNCHANGED wire
  BY <1>9 DEF Crash, LoseLock, NoticeLoss
<1>10. CASE UNCHANGED vars
  BY <1>10, <1>1 DEF vars
<1> QED
  BY <1>1, <1>2, <1>3, <1>4, <1>5, <1>6, <1>7, <1>8, <1>9, <1>10 DEF Next, Outside

(* What was applied stays so, a delivery is final, and what is no message   *)
(* is never delivered or bounced.                                           *)
LEMMA AppliedStays ==
  ASSUME IInv, [Next]_vars, NEW a \in Actions, NEW n \in Attempts, Applied(a, n)
  PROVE  Applied(a, n)'
  BY WireStep DEF WireGoes, Applied

LEMMA DeliveryStays ==
  ASSUME IInv, [Next]_vars, NEW a \in Actions, NEW n \in Attempts,
         wire[a][n] = "delivered"
  PROVE  wire'[a][n] = "delivered"
  BY WireStep DEF WireGoes

LEMMA FilingStays ==
  ASSUME IInv, [Next]_vars, NEW a \in Actions, NEW n \in Attempts, ~IsWhatsApp(a)
  PROVE  /\ wire[a][n] = "accepted" => wire'[a][n] = "accepted"
         /\ wire'[a][n] \in {"delivered", "bounced", "buried"} => wire'[a][n] = wire[a][n]
  BY WireStep DEF WireGoes

-------------------------------------------------------------------------------
(* What a worker knows after one step.                                      *)

Knows(r) ==
  /\ r.pc = "commit" => r.res # 0
  /\ r.act \in Actions => \A n \in {r.prior, r.res} \ {0} : Applied(r.act, n)
AllKnow == \A v \in Workers : Knows(run'[v])

LEMMA Known ==
  ASSUME TypeOK, Evidence, NEW w \in Workers, run[w].act \in Actions
  PROVE  /\ run[w].res # 0 => run[w].res \in Attempts /\ Applied(run[w].act, run[w].res)
         /\ run[w].prior # 0 =>
              run[w].prior \in Attempts /\ Applied(run[w].act, run[w].prior)
<1>1. run[w].res \in 0 .. MaxAttempts /\ run[w].prior \in 0 .. MaxAttempts
  BY DEF TypeOK, Runs
<1>2. \A n \in 0 .. MaxAttempts : n # 0 => n \in Attempts
  BY OutboxAssumption DEF Attempts
<1>3. \A n \in {run[w].prior, run[w].res} \ {0} : Applied(run[w].act, n)
  BY DEF Evidence
<1> QED
  BY <1>1, <1>2, <1>3

LEMMA IdleKnows == Knows(Idle)
  BY OutboxAssumption DEF Knows, Idle

LEMMA OneKnows ==
  ASSUME TypeOK, Evidence, NEW w \in Workers, NEW r, Knows(r), run' = [run EXCEPT ![w] = r]
  PROVE  AllKnow
<1>1. \A v \in Workers : Knows(run[v])
  BY DEF Evidence, Knows, At
<1>2. \A v \in Workers : run'[v] = IF v = w THEN r ELSE run[v]
  BY DEF TypeOK
<1> QED
  BY <1>1, <1>2 DEF AllKnow

LEMMA SameKnow == Evidence /\ UNCHANGED run => AllKnow
  BY DEF Evidence, Knows, At, AllKnow

(* A worker that goes on without a result, or throws, learns nothing.       *)
LEMMA GoKnows ==
  ASSUME TypeOK, Evidence, NEW w \in Workers, NEW r \in Runs, r.pc # "commit",
         r.act = run[w].act, r.prior = run[w].prior, r.res = run[w].res,
         run' = [run EXCEPT ![w] = r]
  PROVE  AllKnow
<1>1. Knows(r)
  BY DEF Evidence, Knows, At
<1> QED
  BY <1>1, OneKnows

LEMMA ThrowKnows ==
  ASSUME TypeOK, Evidence, NEW w \in Workers, NEW err \in Errors, run' = Throw(w, err)
  PROVE  AllKnow
<1> DEFINE r == [run[w] EXCEPT !.pc = "catch", !.err = err]
<1>1. /\ r \in Runs /\ r.pc = "catch" /\ r.act = run[w].act
      /\ r.prior = run[w].prior /\ r.res = run[w].res
  BY ZenonT(60) DEF TypeOK, Runs, PCs
<1>2. run' = [run EXCEPT ![w] = r]
  BY DEF Throw
<1> HIDE DEF r
<1> QED
  BY <1>1, <1>2, GoKnows

LEMMA ResultKnows ==
  ASSUME TypeOK, Evidence, NEW w \in Workers, NEW n \in Attempts,
         Applied(run[w].act, n), run' = [run EXCEPT ![w].pc = "commit", ![w].res = n]
  PROVE  AllKnow
<1> DEFINE r == [run[w] EXCEPT !.pc = "commit", !.res = n]
<1>1. /\ r.pc = "commit" /\ r.act = run[w].act
      /\ r.prior = run[w].prior /\ r.res = n
  BY DEF TypeOK, Runs
<1> HIDE DEF r
<1>2. Knows(r)
  <2>1. n # 0
    BY OutboxAssumption DEF Attempts
  <2>2. ASSUME run[w].act \in Actions, run[w].prior # 0
        PROVE  Applied(run[w].act, run[w].prior)
    BY <2>2, Known
  <2> QED
    BY <1>1, <2>1, <2>2 DEF Knows
<1>3. run' = [run EXCEPT ![w] = r]
  BY DEF r
<1> QED
  BY <1>2, <1>3, OneKnows

LEMMA InsideKnows ==
  ASSUME IInv, Evidence, NEW w \in Workers, Inside(w)
  PROVE  AllKnow
<1>0. TypeOK /\ Numbering
  BY DEF IInv
<1>1. CASE AbortBeforeClaim(w) \/ ClaimLost(w)
  BY <1>0, <1>1, IdleKnows, OneKnows DEF AbortBeforeClaim, ClaimLost
<1>2. CASE Replay(w)
  <2>1. run[w].act \in Actions /\ run[w].prior # 0
    BY <1>0, <1>2 DEF Replay, TypeOK, At
  <2> QED
    BY <1>0, <1>2, <2>1, Known, ResultKnows DEF Replay
<1>3. CASE SearchFinds(w)
  BY <1>0, <1>3, ResultKnows DEF SearchFinds, FoundPrior
<1>4. CASE AnswerAccepted(w)
  <2>1. run[w].att > 0
    BY <1>0, <1>4 DEF AnswerAccepted, At, Numbering
  <2> QED
    BY <1>0, <1>4, <2>1, AttemptRange, ResultKnows DEF AnswerAccepted
<1>5. CASE BeforeEffect(w) /\ Halt(w) = "none"
  <2> DEFINE pc == IF Kind[run[w].act] = "MEDIA" /\ At(w, "prepare") THEN "upload" ELSE "send"
             r == [run[w] EXCEPT !.tried = TRUE, !.pc = pc]
  <2>1. pc \in {"upload", "send"}
    OBVIOUS
  <2> HIDE DEF pc
  <2>2. /\ r \in Runs /\ r.pc # "commit" /\ r.act = run[w].act
        /\ r.prior = run[w].prior /\ r.res = run[w].res
    BY <1>0, <2>1, ZenonT(60) DEF TypeOK, Runs, PCs
  <2>3. run' = [run EXCEPT ![w] = r]
    BY <1>5 DEF BeforeEffect, pc
  <2> HIDE DEF r
  <2> QED
    BY <1>0, <2>2, <2>3, GoKnows
<1>6. CASE BeforeEffect(w) /\ Halt(w) # "none"
  <2>1. run' = Throw(w, Halt(w)) /\ Halt(w) \in Errors
    BY <1>6 DEF BeforeEffect, Halt, Errors
  <2> QED
    BY <1>0, <2>1, ThrowKnows
<1>7. CASE \/ PreClaimFails(w) \/ RefuseReconcile(w) \/ PrepareFails(w) \/ UploadFails(w)
           \/ SearchUnresolved(w) \/ AdapterRefuses(w) \/ AnswerRefused(w) \/ AnswerLost(w)
           \/ ReadbackMismatch(w) \/ CommitFails(w)
  <2>1. \E err \in Errors : run' = Throw(w, err)
    BY <1>7 DEF Errors, PreClaimFails, RefuseReconcile, PrepareFails, UploadFails,
       SearchUnresolved, AdapterRefuses, AnswerRefused, AnswerLost, ReadbackMismatch,
       CommitFails
  <2> QED
    BY <1>0, <2>1, ThrowKnows
<1> QED
  BY <1>1, <1>2, <1>3, <1>4, <1>5, <1>6, <1>7 DEF Inside

LEMMA KnowsStep ==
  ASSUME IInv, Evidence, [Next]_vars
  PROVE  AllKnow
<1>0. TypeOK /\ Numbering
  BY DEF IInv
<1>1. ASSUME NEW w \in Workers, NEW a \in Actions, Begin(w, a) PROVE AllKnow
  <2> DEFINE r == [Idle EXCEPT !.pc = "claim", !.act = a,
                    !.rec = (row[a].status = "UNCERTAIN"), !.seen = row[a].retry,
                    !.ver = IF row[a].status = "UNCERTAIN"
                            THEN PinnedVersion(a, kase) ELSE kase.version,
                    !.step = kase.step,
                    !.team = ForTeam(a) /\ kase.escalated]
  <2>1. r.pc = "claim" /\ r.prior = 0 /\ r.res = 0
    BY DEF Idle
  <2>2. run' = [run EXCEPT ![w] = r]
    BY <1>1 DEF Begin
  <2> HIDE DEF r
  <2>3. Knows(r)
    BY <2>1 DEF Knows
  <2> QED
    BY <1>0, <2>2, <2>3, OneKnows
<1>2. ASSUME NEW w \in Workers, Claim(w) PROVE AllKnow
  <2> DEFINE a == run[w].act
             r == [run[w] EXCEPT !.att = row[a].retry + 1, !.prior = row[a].saved,
                                 !.pc = "prepare"]
  <2>1. /\ r.pc = "prepare" /\ r.act = a /\ r.prior = row[a].saved
        /\ r.res = run[w].res
    BY <1>0 DEF TypeOK, Runs
  <2>2. run' = [run EXCEPT ![w] = r]
    BY <1>2 DEF Claim
  <2>3. a \in Actions
    BY <1>0, <1>2 DEF Claim, TypeOK, At
  <2> HIDE DEF r, a
  <2>4. Knows(r)
    BY <2>1, <2>3 DEF Knows, Evidence, a
  <2> QED
    BY <1>0, <2>2, <2>4, OneKnows
<1>3. ASSUME NEW w \in Workers, Issue(w) PROVE AllKnow
  <2> DEFINE r == [run[w] EXCEPT !.pc = "wait"]
  <2>1. /\ r \in Runs /\ r.pc # "commit" /\ r.act = run[w].act
        /\ r.prior = run[w].prior /\ r.res = run[w].res
    BY <1>0 DEF TypeOK, Runs, PCs
  <2>2. run' = [run EXCEPT ![w] = r]
    BY <1>3 DEF Issue, Go
  <2> HIDE DEF r
  <2> QED
    BY <1>0, <2>1, <2>2, GoKnows
<1>4. ASSUME NEW w \in Workers, Commit(w) \/ Catch(w) \/ Crash(w) PROVE AllKnow
  BY <1>0, <1>4, IdleKnows, OneKnows DEF Commit, Catch, Crash
<1>5. ASSUME NEW w \in Workers, NoticeLoss(w) PROVE AllKnow
  <2> DEFINE r == [run[w] EXCEPT !.aborted = TRUE]
  <2>1. /\ r.pc = run[w].pc /\ r.act = run[w].act
        /\ r.prior = run[w].prior /\ r.res = run[w].res
    BY <1>0 DEF TypeOK, Runs
  <2>2. run' = [run EXCEPT ![w] = r]
    BY <1>5 DEF NoticeLoss
  <2> HIDE DEF r
  <2>3. Knows(r)
    BY <2>1 DEF Knows, Evidence, At
  <2> QED
    BY <1>0, <2>2, <2>3, OneKnows
<1>6. ASSUME NEW w \in Workers, LoseLock(w) PROVE AllKnow
  BY <1>6, SameKnow DEF LoseLock
<1>7. ASSUME NEW a \in Actions, Upkeep(a) PROVE AllKnow
  BY <1>7, SameKnow DEF Upkeep, TurnAway, CloseAtDeadline, DeliveryFailed,
     DeliveryConfirmed, RecoverStale, OperatorRetry
<1>8. ASSUME NEW a \in Actions, NEW n \in Attempts, Carrier(a, n) PROVE AllKnow
  BY <1>8, SameKnow DEF Carrier, Accept, Refuse, Deliver, Bounce, CarrierMoves
<1>9. CASE Outside
  BY <1>9, SameKnow DEF Outside, Clients, ClientTurn, OperatorEvent, Transition, RecoverCase,
     SetAutomation, OptOut, Inbound, Reengage, ClosePhaseOne, DeadlinePasses, DayPasses,
     Others, HeldAck, ScheduleReminder, Escalate, caseRest
<1>10. CASE UNCHANGED vars
  BY <1>10, SameKnow DEF vars
<1>11. ASSUME NEW w \in Workers, Execute(w) PROVE AllKnow
  BY <1>2, <1>3, <1>4, <1>11, InsideKnows DEF Execute, Inside
<1> QED
  BY <1>1, <1>4, <1>5, <1>6, <1>7, <1>8, <1>9, <1>10, <1>11 DEF Next, Outside

-------------------------------------------------------------------------------
(* What becomes of a row in one step: it keeps what it was decided for, and *)
(* what it newly shows has evidence.                                        *)

Backed(a, new) ==
  IF IsWhatsApp(a) THEN new.msg \in Attempts /\ wire[a][new.msg] = "delivered"
  ELSE \E n \in Attempts : Applied(a, n)
RowGoes(a, new) ==
  /\ row[a].status # "ABSENT" =>
       new.status # "ABSENT" /\ new.expected = row[a].expected /\ new.step = row[a].step
  /\ new.saved \in {0, row[a].saved} \/ (new.saved \in Attempts /\ Applied(a, new.saved))
  /\ new.status = "EXECUTED" =>
       (row[a].status = "EXECUTED" /\ new.msg = row[a].msg) \/ Backed(a, new)
RowsGo(rows) == \A a \in Actions : RowGoes(a, rows[a])

LEMMA SameGoes == ASSUME NEW a \in Actions PROVE RowGoes(a, row[a])
  BY DEF RowGoes

LEMMA SameRowsGo == UNCHANGED row => RowsGo(row')
  BY SameGoes DEF RowsGo

LEMMA NewGoes ==
  ASSUME NEW a \in Actions, row[a].status = "ABSENT", NEW version, NEW step
  PROVE  RowGoes(a, NewRow(version, step))
<1>1. NewRow(version, step).saved = 0 /\ NewRow(version, step).status = "PENDING"
  BY DEF NewRow
<1> QED
  BY <1>1 DEF RowGoes

LEMMA OneGoes ==
  ASSUME TypeOK, NEW a \in Actions, NEW r, RowGoes(a, r), row' = [row EXCEPT ![a] = r]
  PROVE  RowsGo(row')
<1>1. \A b \in Actions : row'[b] = IF b = a THEN r ELSE row[b]
  BY DEF TypeOK
<1> QED
  BY <1>1, SameGoes DEF RowsGo

LEMMA StatusGoes ==
  ASSUME TypeOK, NEW a \in Actions, NEW st, st \notin {"ABSENT", "EXECUTED"},
         row' = [row EXCEPT ![a].status = st]
  PROVE  RowsGo(row')
<1> DEFINE r == [row[a] EXCEPT !.status = st]
<1>1. /\ r.status = st /\ r.expected = row[a].expected /\ r.step = row[a].step
      /\ r.saved = row[a].saved
  BY DEF TypeOK, Rows
<1> HIDE DEF r
<1>2. RowGoes(a, r)
  BY <1>1 DEF RowGoes
<1>3. row' = [row EXCEPT ![a] = r]
  BY DEF r
<1> QED
  BY <1>2, <1>3, OneGoes

LEMMA CancelledGo ==
  ASSUME TypeOK, NEW S, row' = Cancelled(S)
  PROVE  RowsGo(row')
<1> SUFFICES ASSUME NEW a \in Actions PROVE RowGoes(a, row'[a])
  BY DEF RowsGo
<1> DEFINE r == [row[a] EXCEPT !.status = "CANCELLED"]
<1>1. row'[a] = r \/ row'[a] = row[a]
  BY DEF Cancelled
<1>2. /\ r.status = "CANCELLED" /\ r.expected = row[a].expected
      /\ r.step = row[a].step /\ r.saved = row[a].saved
  BY DEF TypeOK, Rows
<1> HIDE DEF r
<1>3. RowGoes(a, r)
  BY <1>2 DEF RowGoes
<1> QED
  BY <1>1, <1>3, SameGoes

(* A decision queued beside a settled row. *)
LEMMA DecidedGo ==
  ASSUME TypeOK, NEW a \in Actions, NEW r \in Rows, RowGoes(a, r), r.status # "ABSENT",
         NEW version, NEW step,
         row' \in Decided([row EXCEPT ![a] = r], version, step)
  PROVE  RowsGo(row')
<1> DEFINE rows == [row EXCEPT ![a] = r]
<1>1. rows \in [Actions -> Rows] /\ \A b \in Actions : rows[b] = IF b = a THEN r ELSE row[b]
  BY DEF TypeOK
<1> HIDE DEF rows
<1>2. row' \in Decided(rows, version, step)
  BY DEF rows
<1> SUFFICES ASSUME NEW b \in Actions PROVE RowGoes(b, row'[b])
  BY DEF RowsGo
<1>3. row'[b] = rows[b] \/ (rows[b].status = "ABSENT" /\ row'[b] = NewRow(version, step))
  BY <1>1, <1>2, DecidedSame
<1> QED
  BY <1>1, <1>3, NewGoes, SameGoes

LEMMA ProposeGoes ==
  ASSUME TypeOK, NEW a \in Actions, NEW version, NEW step, Propose(a, version, step)
  PROVE  RowsGo(row')
<1>1. row[a].status = "ABSENT" /\ row' = [row EXCEPT ![a] = NewRow(version, step)]
  BY DEF Propose
<1> QED
  BY <1>1, NewGoes, OneGoes

LEMMA ClaimGoes ==
  ASSUME IInv, NEW w \in Workers, Claim(w)
  PROVE  RowsGo(row')
<1>0. TypeOK /\ run[w].act \in Actions
  BY DEF IInv, TypeOK, Claim, At
<1> DEFINE r == Claimed(run[w])
<1>1. /\ r.status = "RUNNING" /\ r.expected = row[run[w].act].expected
      /\ r.step = row[run[w].act].step /\ r.saved = row[run[w].act].saved
  BY <1>0 DEF Claimed, TypeOK, Rows
<1>2. row' = [row EXCEPT ![run[w].act] = r]
  BY DEF Claim
<1> HIDE DEF r
<1>3. RowGoes(run[w].act, r)
  BY <1>1 DEF RowGoes
<1> QED
  BY <1>0, <1>2, <1>3, OneGoes

LEMMA CommitGoes ==
  ASSUME IInv, Evidence, NEW w \in Workers, Commit(w)
  PROVE  RowsGo(row')
<1> DEFINE a == run[w].act
           r == Settled(run[w])
<1>0. TypeOK /\ a \in Actions
  BY DEF IInv, TypeOK, Commit, At
<1>1. row[a] \in Rows /\ run[w].res \in 0 .. MaxAttempts /\ run[w].ver \in Nat
  BY <1>0 DEF TypeOK, Runs
<1>2. r \in Rows
  <2>1. 0 \in 0 .. MaxAttempts
    BY OutboxAssumption
  <2> QED
    BY <1>1, <2>1 DEF Settled, Rows, Statuses
<1>3. /\ r.status = IF IsWhatsApp(a) THEN "AWAITING_DELIVERY" ELSE "EXECUTED"
      /\ r.expected = row[a].expected /\ r.step = row[a].step /\ r.saved = 0
  BY <1>1 DEF Settled, Rows
<1>4. run[w].res \in Attempts /\ Applied(a, run[w].res)
  <2>1. run[w].res # 0
    BY DEF Commit, Evidence
  <2> QED
    BY <1>0, <2>1, Known
<1>5. row' = [row EXCEPT ![a] = r] \/ \E s : row' \in Decided([row EXCEPT ![a] = r], kase.version + 1, s)
  BY DEF Commit, Advance
<1> HIDE DEF r, a
<1>6. RowGoes(a, r)
  BY <1>3, <1>4 DEF RowGoes, Backed
<1> QED
  BY <1>0, <1>2, <1>3, <1>5, <1>6, OneGoes, DecidedGo

LEMMA CatchGoes ==
  ASSUME IInv, Evidence, NEW w \in Workers, Catch(w)
  PROVE  RowsGo(row')
<1> DEFINE a == run[w].act
           r == Written(run[w])
<1>0. TypeOK /\ a \in Actions
  BY DEF IInv, TypeOK, Catch, At
<1>1. row[a] \in Rows /\ run[w].res \in 0 .. MaxAttempts
  BY <1>0 DEF TypeOK, Runs
<1>2. /\ r.status = Outcome(run[w]) /\ r.expected = row[a].expected /\ r.step = row[a].step
      /\ r.saved = IF run[w].res # 0 THEN run[w].res ELSE row[a].saved
  BY <1>1 DEF Written, Rows
<1>3. Outcome(run[w]) \notin {"ABSENT", "EXECUTED"}
  BY DEF Outcome
<1>4. run[w].res # 0 => run[w].res \in Attempts /\ Applied(a, run[w].res)
  BY <1>0, Known
<1>5. \/ row' = row \/ row' = [row EXCEPT ![a] = r]
      \/ /\ NoticeDue(a, Outcome(run[w]))
         /\ row' = [row EXCEPT ![a] = r, ![Notice(a)] = NewRow(run[w].ver, run[w].step)]
  BY DEF Catch
<1> HIDE DEF r, a
<1>6. RowGoes(a, r)
  BY <1>2, <1>3, <1>4 DEF RowGoes
<1>7. CASE /\ NoticeDue(a, Outcome(run[w]))
           /\ row' = [row EXCEPT ![a] = r, ![Notice(a)] = NewRow(run[w].ver, run[w].step)]
  <2>1. Notice(a) \in Actions /\ Notice(a) # a /\ row[Notice(a)].status = "ABSENT"
    BY <1>0, <1>7, OutboxAssumption DEF NoticeDue, Notice
  <2>2. \A b \in Actions : row'[b] = IF b = Notice(a) THEN NewRow(run[w].ver, run[w].step)
                                     ELSE IF b = a THEN r ELSE row[b]
    BY <1>0, <1>7, <2>1 DEF TypeOK
  <2> QED
    BY <1>6, <2>1, <2>2, NewGoes, SameGoes DEF RowsGo
<1> QED
  BY <1>0, <1>5, <1>6, <1>7, OneGoes, SameRowsGo

LEMMA ConfirmedGoes ==
  ASSUME IInv, NEW a \in Actions, DeliveryConfirmed(a)
  PROVE  RowsGo(row')
<1> DEFINE r == [row[a] EXCEPT !.status = "EXECUTED"]
<1>0. TypeOK /\ Numbering
  BY DEF IInv
<1>1. row[a].msg \in Attempts /\ wire[a][row[a].msg] = "delivered" /\ row[a].status # "ABSENT"
  BY DEF DeliveryConfirmed, Reports, Confirms, TakesReports
<1>2. IsWhatsApp(a)
  BY <1>0, <1>1 DEF Numbering, Attempts
<1>3. /\ r \in Rows /\ r.status = "EXECUTED" /\ r.msg = row[a].msg
      /\ r.expected = row[a].expected /\ r.step = row[a].step /\ r.saved = row[a].saved
  BY <1>0 DEF TypeOK, Rows, Statuses
<1>4. row' = [row EXCEPT ![a] = r] \/ \E s : row' \in Decided([row EXCEPT ![a] = r], kase.version + 1, s)
  BY DEF DeliveryConfirmed, Advance
<1> HIDE DEF r
<1>5. RowGoes(a, r)
  BY <1>1, <1>2, <1>3 DEF RowGoes, Backed
<1> QED
  BY <1>0, <1>3, <1>4, <1>5, OneGoes, DecidedGo

LEMMA UpkeepGoes ==
  ASSUME IInv, NEW a \in Actions, Upkeep(a)
  PROVE  RowsGo(row')
<1>0. TypeOK
  BY DEF IInv
<1>1. CASE TurnAway(a)
  <2>1. Verdict(a, kase) \notin {"ABSENT", "EXECUTED"}
    BY DEF Verdict, ReconcileVerdict, FreshVerdict
  <2> QED
    BY <1>0, <1>1, <2>1, StatusGoes DEF TurnAway
<1>2. CASE DeliveryFailed(a) \/ RecoverStale(a) \/ OperatorRetry(a)
  BY <1>0, <1>2, StatusGoes DEF DeliveryFailed, RecoverStale, OperatorRetry, AfterCrash
<1> QED
  BY <1>0, <1>1, <1>2, ConfirmedGoes, CancelledGo DEF Upkeep, CloseAtDeadline

LEMMA OutsideGoes ==
  ASSUME IInv, Outside
  PROVE  RowsGo(row')
<1>0. TypeOK
  BY DEF IInv
<1>1. ASSUME Transition PROVE RowsGo(row')
  <2>1. PICK s : row' \in Decided(row, kase.version + 1, s)
    BY <1>1 DEF Transition
  <2>2. ASSUME NEW b \in Actions PROVE RowGoes(b, row'[b])
    BY <1>0, <2>1, DecidedSame, NewGoes, SameGoes DEF TypeOK
  <2> QED
    BY <2>2 DEF RowsGo
<1>2. CASE RecoverCase \/ ClosePhaseOne
  BY <1>0, <1>2, CancelledGo DEF RecoverCase, ClosePhaseOne
<1>3. CASE SetAutomation(TRUE) \/ SetAutomation(FALSE) \/ OptOut \/ Inbound \/ Reengage
           \/ DeadlinePasses \/ DayPasses
  BY <1>3, SameRowsGo DEF SetAutomation, OptOut, Inbound, Reengage, DeadlinePasses, DayPasses
<1>4. ASSUME NEW a \in Actions, Others(a) PROVE RowsGo(row')
  BY <1>0, <1>4, ProposeGoes DEF Others, HeldAck, ScheduleReminder
<1>5. ASSUME NEW a \in Actions \cup {NoAction}, Escalate(a) PROVE RowsGo(row')
  BY <1>0, <1>5, ProposeGoes, SameRowsGo DEF Escalate
<1> QED
  BY <1>1, <1>2, <1>3, <1>4, <1>5 DEF Outside, Clients, ClientTurn, OperatorEvent

LEMMA RowsStep ==
  ASSUME IInv, Evidence, [Next]_vars
  PROVE  RowsGo(row')
<1>1. CASE UNCHANGED vars
  BY <1>1, SameRowsGo DEF vars
<1>2. ASSUME NEW w \in Workers, NEW a \in Actions, Begin(w, a) PROVE RowsGo(row')
  BY <1>2, SameRowsGo DEF Begin
<1>3. ASSUME NEW w \in Workers, Execute(w) PROVE RowsGo(row')
  <2>1. CASE Inside(w) \/ Issue(w)
    BY <2>1, SameRowsGo DEF Issue, Inside, PreClaimFails, AbortBeforeClaim, ClaimLost, Replay,
       RefuseReconcile, PrepareFails, BeforeEffect, UploadFails, SearchFinds,
       SearchUnresolved, AdapterRefuses, AnswerAccepted, AnswerRefused, AnswerLost,
       ReadbackMismatch, CommitFails
  <2>2. CASE ~Inside(w) /\ ~Issue(w)
    BY <1>3, <2>2, ClaimGoes, CommitGoes, CatchGoes DEF Execute, Inside
  <2> QED
    BY <2>1, <2>2
<1>4. ASSUME NEW w \in Workers, Crash(w) \/ LoseLock(w) \/ NoticeLoss(w) PROVE RowsGo(row')
  BY <1>4, SameRowsGo DEF Crash, LoseLock, NoticeLoss
<1>5. ASSUME NEW a \in Actions, Upkeep(a) PROVE RowsGo(row')
  BY <1>5, UpkeepGoes
<1>6. ASSUME NEW a \in Actions, NEW n \in Attempts, Carrier(a, n) PROVE RowsGo(row')
  BY <1>6, SameRowsGo DEF Carrier, Accept, Refuse, Deliver, Bounce, CarrierMoves
<1>7. CASE Outside
  BY <1>7, OutsideGoes
<1> QED
  BY <1>1, <1>2, <1>3, <1>4, <1>5, <1>6, <1>7 DEF Next, Outside

-------------------------------------------------------------------------------
(* Evidence is kept.                                                        *)

Proved(a) == \E n \in Attempts :
  wire[a][n] = (IF IsWhatsApp(a) THEN "delivered" ELSE "accepted")

LEMMA ProofStays ==
  ASSUME IInv, [Next]_vars, NEW a \in Actions, Proved(a)
  PROVE  Proved(a)'
<1>1. PICK n \in Attempts : wire[a][n] = (IF IsWhatsApp(a) THEN "delivered" ELSE "accepted")
  BY DEF Proved
<1>2. wire'[a][n] = (IF IsWhatsApp(a) THEN "delivered" ELSE "accepted")
  BY <1>1, DeliveryStays, FilingStays
<1> QED
  BY <1>2 DEF Proved, IsWhatsApp

(* An effect's event moves the case only with its evidence at hand. *)
LEMMA FiredStep ==
  ASSUME IInv, Evidence, [Next]_vars, NEW a \in fired', a \notin fired
  PROVE  a \in Actions /\ Proved(a)
<1>0. TypeOK /\ Numbering
  BY DEF IInv
<1>1. ASSUME NEW w \in Workers, Commit(w) PROVE a \in Actions /\ Proved(a)
  <2>1. a = run[w].act /\ ~IsWhatsApp(a) /\ run[w].res # 0 /\ a \in Actions
    BY <1>0, <1>1 DEF Commit, Advance, FiresOnCommit, Evidence, TypeOK, At
  <2>2. run[w].res \in Attempts /\ Applied(a, run[w].res)
    BY <1>0, <2>1, Known
  <2>3. wire[a][run[w].res] = "accepted"
    BY <2>1, <2>2 DEF Evidence, Applied
  <2> QED
    BY <2>1, <2>2, <2>3 DEF Proved
<1>2. ASSUME NEW b \in Actions, DeliveryConfirmed(b) PROVE a \in Actions /\ Proved(a)
  <2>1. a = b
    BY <1>2 DEF DeliveryConfirmed, Advance
  <2>2. row[b].msg \in Attempts /\ wire[b][row[b].msg] = "delivered"
    BY <1>2 DEF DeliveryConfirmed, Reports, Confirms
  <2>3. IsWhatsApp(b)
    BY <1>0, <2>2 DEF Numbering, Attempts
  <2> QED
    BY <2>1, <2>2, <2>3 DEF Proved
<1>3. ASSUME NEW w \in Workers, Execute(w), ~Commit(w) PROVE FALSE
  BY <1>3 DEF Execute, PreClaimFails, AbortBeforeClaim, Claim, ClaimLost, Replay,
     RefuseReconcile, PrepareFails, BeforeEffect, UploadFails, SearchFinds,
     SearchUnresolved, AdapterRefuses, Issue, AnswerAccepted, AnswerRefused, AnswerLost,
     ReadbackMismatch, CommitFails, Catch
<1>4. ASSUME NEW b \in Actions, Upkeep(b), ~DeliveryConfirmed(b) PROVE FALSE
  BY <1>4 DEF Upkeep, TurnAway, CloseAtDeadline, DeliveryFailed, RecoverStale, OperatorRetry
<1>5. ASSUME NEW b \in Actions, NEW n \in Attempts, Carrier(b, n) PROVE FALSE
  BY <1>5 DEF Carrier, Accept, Refuse, Deliver, Bounce, CarrierMoves
<1>6. ASSUME Outside PROVE FALSE
  BY <1>6 DEF Outside, Clients, ClientTurn, OperatorEvent, Transition, RecoverCase,
     SetAutomation, OptOut, Inbound, Reengage, ClosePhaseOne, DeadlinePasses, DayPasses,
     Others, HeldAck, ScheduleReminder, Escalate, caseRest
<1>7. ASSUME NEW w \in Workers, NEW b \in Actions, Begin(w, b) PROVE FALSE
  BY <1>7 DEF Begin
<1>8. ASSUME NEW w \in Workers, Crash(w) \/ LoseLock(w) \/ NoticeLoss(w) PROVE FALSE
  BY <1>8 DEF Crash, LoseLock, NoticeLoss
<1>9. ASSUME UNCHANGED vars PROVE FALSE
  BY <1>9 DEF vars
<1> QED
  BY <1>1, <1>2, <1>3, <1>4, <1>5, <1>6, <1>7, <1>8, <1>9 DEF Next, Outside

LEMMA EvidenceStep ==
  ASSUME IInv, IInv', EvInv, [Next]_vars
  PROVE  Evidence'
<1>0. TypeOK /\ TypeOK' /\ Evidence /\ DoneIsBacked
  BY DEF IInv, EvInv
<1>1. AllKnow /\ RowsGo(row')
  BY <1>0, KnowsStep, RowsStep
<1>2. ASSUME NEW a \in Actions, NEW n \in 0 .. MaxAttempts, n # 0, Applied(a, n)
      PROVE  Applied(a, n)'
  <2>1. n \in Attempts
    BY <1>2, OutboxAssumption DEF Attempts
  <2> QED
    BY <1>2, <2>1, AppliedStays
<1>3. ASSUME NEW w \in Workers
      PROVE  /\ run'[w].pc = "commit" => run'[w].res # 0
             /\ run'[w].act \in Actions =>
                  \A n \in {run'[w].prior, run'[w].res} \ {0} :
                    wire'[run'[w].act][n] \in {"accepted", "delivered", "bounced", "buried"}
  <2>1. run'[w].prior \in 0 .. MaxAttempts /\ run'[w].res \in 0 .. MaxAttempts
    BY <1>0 DEF TypeOK, Runs
  <2>2. Knows(run'[w])
    BY <1>1 DEF AllKnow
  <2>3. run'[w].pc = "commit" => run'[w].res # 0
    BY <2>2 DEF Knows
  <2>4. ASSUME run'[w].act \in Actions, NEW n \in {run'[w].prior, run'[w].res} \ {0}
        PROVE  wire'[run'[w].act][n] \in {"accepted", "delivered", "bounced", "buried"}
    <3>1. n \in 0 .. MaxAttempts /\ n # 0
      BY <2>1
    <3>2. Applied(run'[w].act, n)
      BY <2>2, <2>4 DEF Knows
    <3> QED
      BY <1>2, <2>4, <3>1, <3>2 DEF Applied
  <2> QED
    BY <2>3, <2>4
<1>4. ASSUME NEW a \in Actions
      PROVE  /\ row'[a].saved # 0 =>
                  wire'[a][row'[a].saved] \in {"accepted", "delivered", "bounced", "buried"}
             /\ row'[a].status = "EXECUTED" /\ IsWhatsApp(a) => row'[a].msg # 0
             /\ ~IsWhatsApp(a) =>
                  \A n \in Attempts : wire'[a][n] \notin {"delivered", "bounced", "buried"}
  <2>1. RowGoes(a, row'[a])
    BY <1>1 DEF RowsGo
  <2>2. ASSUME row'[a].saved # 0
        PROVE  wire'[a][row'[a].saved] \in {"accepted", "delivered", "bounced", "buried"}
    <3>1. row[a].saved \in 0 .. MaxAttempts
      BY <1>0 DEF TypeOK, Rows
    <3>2. row[a].saved # 0 => row[a].saved \in Attempts /\ Applied(a, row[a].saved)
      BY <1>0, <3>1, OutboxAssumption DEF Evidence, Attempts
    <3>3. row'[a].saved \in Attempts /\ Applied(a, row'[a].saved)
      BY <2>1, <2>2, <3>2 DEF RowGoes
    <3> QED
      BY <3>3, AppliedStays DEF Applied
  <2>3. ASSUME row'[a].status = "EXECUTED", IsWhatsApp(a) PROVE row'[a].msg # 0
    <3>1. CASE row[a].status = "EXECUTED" /\ row'[a].msg = row[a].msg
      BY <1>0, <2>3, <3>1 DEF Evidence
    <3>2. CASE Backed(a, row'[a])
      BY <2>3, <3>2, OutboxAssumption DEF Backed, Attempts
    <3> QED
      BY <2>1, <2>3, <3>1, <3>2 DEF RowGoes
  <2>4. ~IsWhatsApp(a) =>
          \A n \in Attempts : wire'[a][n] \notin {"delivered", "bounced", "buried"}
    BY <1>0, FilingStays DEF Evidence
  <2> QED
    BY <2>2, <2>3, <2>4
<1> QED
  BY <1>3, <1>4 DEF Evidence, At, IsWhatsApp, Applied

LEMMA DoneStep ==
  ASSUME IInv, IInv', EvInv, [Next]_vars
  PROVE  DoneIsBacked'
<1>0. TypeOK /\ Evidence /\ DoneIsBacked
  BY DEF IInv, EvInv
<1> SUFFICES ASSUME NEW a \in Actions, row'[a].status = "EXECUTED"
             PROVE  IF IsWhatsApp(a) THEN wire'[a][row'[a].msg] = "delivered"
                    ELSE \E n \in Attempts : Applied(a, n)'
  BY DEF DoneIsBacked, IsWhatsApp
<1>1. RowGoes(a, row'[a])
  BY <1>0, RowsStep DEF RowsGo
<1>2. CASE Backed(a, row'[a])
  BY <1>2, AppliedStays, DeliveryStays DEF Backed
<1>3. CASE row[a].status = "EXECUTED" /\ row'[a].msg = row[a].msg
  <2>1. IsWhatsApp(a) => row[a].msg \in Attempts
    <3>1. row[a].msg \in 0 .. MaxAttempts
      BY <1>0 DEF TypeOK, Rows
    <3> QED
      BY <1>0, <1>3, <3>1, OutboxAssumption DEF Evidence, Attempts
  <2> QED
    BY <1>0, <1>3, <2>1, AppliedStays, DeliveryStays DEF DoneIsBacked
<1> QED
  BY <1>1, <1>2, <1>3 DEF RowGoes

LEMMA AdvanceStep ==
  ASSUME IInv, EvInv, [Next]_vars
  PROVE  AdvanceIsBacked'
<1> SUFFICES ASSUME NEW a \in fired' PROVE Proved(a)'
  BY DEF AdvanceIsBacked, Proved, IsWhatsApp
<1>1. a \in Actions /\ Proved(a)
  <2>1. CASE a \in fired
    BY <2>1 DEF IInv, TypeOK, EvInv, AdvanceIsBacked, Proved
  <2> QED
    BY <2>1, FiredStep DEF EvInv
<1> QED
  BY <1>1, ProofStays

LEMMA EvInit == Init => EvInv
  BY OutboxAssumption DEF Init, EvInv, Evidence, DoneIsBacked, AdvanceIsBacked, NewRow, Idle, At

LEMMA EvStep == IInv /\ EvInv /\ [Next]_vars => EvInv'
<1> SUFFICES ASSUME IInv, EvInv, [Next]_vars PROVE EvInv'
  OBVIOUS
<1>1. IInv'
  BY IInvStep
<1> QED
  BY <1>1, EvidenceStep, DoneStep, AdvanceStep DEF EvInv

(* DoneBacked: whatever fails, a message the outbox shows as executed was   *)
(* delivered, and an effect it shows as executed was applied.               *)
THEOREM DoneBacked == Spec => []DoneIsBacked
<1>1. EvInv => DoneIsBacked
  BY DEF EvInv
<1> QED
  BY InvInit, IInvStep, EvInit, EvStep, <1>1, PTL DEF Spec

(* AdvanceBacked: an event of an effect never moves the case without a      *)
(* delivered message or an accepted filing.                                 *)
THEOREM AdvanceBacked == Spec => []AdvanceIsBacked
<1>1. EvInv => AdvanceIsBacked
  BY DEF EvInv
<1> QED
  BY InvInit, IInvStep, EvInit, EvStep, <1>1, PTL DEF Spec

-------------------------------------------------------------------------------
(* Opt-out.                                                                 *)

LEMMA IdleDoesNotSend == Idle.pc = "idle"
  BY DEF Idle

LEMMA Becomes ==
  ASSUME TypeOK, NEW v \in Workers, NEW w \in Workers, ~Sending(w),
         NEW r, r.pc # "send" \/ r.rec, run' = [run EXCEPT ![v] = r]
  PROVE  ~Sending(w)'
  BY DEF Sending, At, TypeOK

LEMMA ThrowDoesNotSend ==
  ASSUME TypeOK, NEW v \in Workers, NEW w \in Workers, ~Sending(w),
         NEW err, run' = Throw(v, err)
  PROVE  ~Sending(w)'
<1> DEFINE r == [run[v] EXCEPT !.pc = "catch", !.err = err]
<1>1. run' = [run EXCEPT ![v] = r]
  BY DEF Throw
<1>2. r.pc = "catch"
  BY DEF TypeOK, Runs
<1> QED
  BY <1>1, <1>2, Becomes

LEMMA OthersDoNotSend ==
  ASSUME TypeOK, NEW v \in Workers, Execute(v), ~BeforeEffect(v),
         NEW w \in Workers, ~Sending(w)
  PROVE  ~Sending(w)'
<1>0. run[v] \in Runs
  BY DEF TypeOK
<1>1. CASE \E err \in Errors : run' = Throw(v, err)
  BY <1>1, ThrowDoesNotSend
<1>2. CASE run' = [run EXCEPT ![v] = Idle]
  BY <1>2, IdleDoesNotSend, Becomes
<1>3. CASE Claim(v)
  <2> DEFINE r == [run[v] EXCEPT !.att = row[run[v].act].retry + 1,
                                 !.prior = row[run[v].act].saved, !.pc = "prepare"]
  <2>1. run' = [run EXCEPT ![v] = r] /\ r.pc = "prepare"
    BY <1>0, <1>3 DEF Claim, Runs
  <2> QED
    BY <2>1, Becomes
<1>4. CASE Replay(v) \/ SearchFinds(v) \/ AnswerAccepted(v)
  <2>1. PICK n : run' = [run EXCEPT ![v].pc = "commit", ![v].res = n]
    BY <1>4 DEF Replay, SearchFinds, AnswerAccepted
  <2> DEFINE r == [run[v] EXCEPT !.pc = "commit", !.res = n]
  <2>2. run' = [run EXCEPT ![v] = r] /\ r.pc = "commit"
    BY <1>0, <2>1 DEF Runs
  <2> QED
    BY <2>2, Becomes
<1>5. CASE Issue(v)
  <2> DEFINE r == [run[v] EXCEPT !.pc = "wait"]
  <2>1. run' = [run EXCEPT ![v] = r] /\ r.pc = "wait"
    BY <1>0, <1>5 DEF Issue, Go, Runs
  <2> QED
    BY <2>1, Becomes
<1> QED
  BY <1>1, <1>2, <1>3, <1>4, <1>5 DEF Execute, PreClaimFails, AbortBeforeClaim, ClaimLost,
     RefuseReconcile, PrepareFails, UploadFails, SearchUnresolved, AdapterRefuses,
     AnswerRefused, AnswerLost, ReadbackMismatch, Commit, CommitFails, Catch, Errors

(* Only beforeEffect lets a worker send, and it looks at the opt-out. *)
LEMMA LastLook ==
  ASSUME TypeOK, NEW v \in Workers, BeforeEffect(v), kase.optOut,
         NEW w \in Workers, ~Sending(w)
  PROVE  ~Sending(w)'
<1>0. run[v] \in Runs
  BY DEF TypeOK
<1>1. CASE Halt(v) # "none"
  BY <1>1, ThrowDoesNotSend DEF BeforeEffect
<1>2. CASE Halt(v) = "none"
  <2>1. run[v].rec
    BY <1>2 DEF Halt, Silenced
  <2>2. PICK pc : run' = [run EXCEPT ![v].tried = TRUE, ![v].pc = pc]
    BY <1>2 DEF BeforeEffect
  <2> DEFINE r == [run[v] EXCEPT !.tried = TRUE, !.pc = pc]
  <2>3. run' = [run EXCEPT ![v] = r] /\ r.rec
    BY <1>0, <2>1, <2>2 DEF Runs
  <2> QED
    BY <2>3, Becomes
<1> QED
  BY <1>1, <1>2

LEMMA OptOutStep ==
  ASSUME TypeOK, [Next]_vars, NEW w \in Workers, kase.optOut, ~Sending(w)
  PROVE  ~Sending(w)'
<1>1. CASE UNCHANGED run
  BY <1>1 DEF Sending, At
<1>2. ASSUME NEW v \in Workers, Execute(v) PROVE ~Sending(w)'
  BY <1>2, OthersDoNotSend, LastLook
<1>3. ASSUME NEW v \in Workers, NEW a \in Actions, Begin(v, a) PROVE ~Sending(w)'
  <2> DEFINE r == [Idle EXCEPT
        !.pc = "claim", !.act = a,
        !.rec = (row[a].status = "UNCERTAIN"), !.seen = row[a].retry,
        !.ver = IF row[a].status = "UNCERTAIN" THEN PinnedVersion(a, kase) ELSE kase.version,
        !.step = kase.step, !.team = ForTeam(a) /\ kase.escalated]
  <2>1. run' = [run EXCEPT ![v] = r]
    BY <1>3 DEF Begin
  <2>2. r.pc = "claim"
    BY DEF Idle
  <2> QED
    BY <2>1, <2>2, Becomes
<1>4. ASSUME NEW v \in Workers, Crash(v) PROVE ~Sending(w)'
  BY <1>4, IdleDoesNotSend, Becomes DEF Crash
<1>5. ASSUME NEW v \in Workers, NoticeLoss(v) PROVE ~Sending(w)'
  <2> DEFINE r == [run[v] EXCEPT !.aborted = TRUE]
  <2>1. run' = [run EXCEPT ![v] = r] /\ run[v] \in Runs
    BY <1>5 DEF NoticeLoss, TypeOK
  <2>2. r.pc = run[v].pc /\ r.rec = run[v].rec
    BY <2>1 DEF Runs
  <2>3. CASE v = w
    BY <2>1, <2>2, <2>3 DEF Sending, At, TypeOK
  <2>4. CASE v # w
    BY <2>1, <2>4 DEF Sending, At, TypeOK
  <2> QED
    BY <2>3, <2>4
<1>6. ASSUME NEW a \in Actions, Upkeep(a) PROVE UNCHANGED run
  BY <1>6 DEF Upkeep, TurnAway, CloseAtDeadline, DeliveryFailed, DeliveryConfirmed,
     RecoverStale, OperatorRetry
<1>7. ASSUME NEW a \in Actions, NEW n \in Attempts, Carrier(a, n) PROVE UNCHANGED run
  BY <1>7 DEF Carrier, Accept, Refuse, Deliver, Bounce, CarrierMoves
<1>8. ASSUME Outside PROVE UNCHANGED run
  BY <1>8 DEF Outside, Clients, ClientTurn, OperatorEvent, Transition, RecoverCase,
     SetAutomation, OptOut, Inbound, Reengage, ClosePhaseOne, DeadlinePasses, DayPasses,
     Others, HeldAck, ScheduleReminder, Escalate, caseRest
<1>9. ASSUME NEW v \in Workers, LoseLock(v) PROVE UNCHANGED run
  BY <1>9 DEF LoseLock
<1>10. CASE UNCHANGED vars
  BY <1>1, <1>10 DEF vars
<1> QED
  BY <1>1, <1>2, <1>3, <1>4, <1>5, <1>6, <1>7, <1>8, <1>9, <1>10 DEF Next, Outside

(* OptOutKept: while a client is opted out, no worker passes its last       *)
(* check, whatever it was doing when the opt-out came.                      *)
THEOREM OptOutKept == Spec => OptOutHonoured
<1>1. TypeOK /\ [Next]_vars =>
        \A w \in Workers : kase.optOut /\ kase'.optOut /\ ~Sending(w) => ~Sending(w)'
  BY OptOutStep
<1>2. UNCHANGED vars => \A w \in Workers : ~Sending(w) => ~Sending(w)'
  BY DEF vars, Sending, At
<1> QED
  BY TypeCorrect, <1>1, <1>2, PTL DEF Spec, OptOutHonoured

-------------------------------------------------------------------------------
(* What is sent was decided for the case as it is.                          *)

(* A worker ends, goes on with its row without returning to what comes      *)
(* before the request, or begins.                                           *)
WorkerGoes(w) ==
  \/ run'[w].pc = "idle"
  \/ /\ run[w].pc # "idle" /\ run'[w].act = run[w].act /\ run'[w].rec = run[w].rec
     /\ run'[w].pc \in Unsent => run[w].pc \in Unsent
  \/ \E a \in Actions : Begin(w, a)
WorkersGo == \A w \in Workers : WorkerGoes(w)

LEMMA SameGo == UNCHANGED run => WorkersGo
  BY DEF WorkersGo, WorkerGoes

LEMMA OneGoesOn ==
  ASSUME TypeOK, NEW v \in Workers, NEW r, run' = [run EXCEPT ![v] = r],
         \/ r.pc = "idle"
         \/ /\ run[v].pc # "idle" /\ r.act = run[v].act /\ r.rec = run[v].rec
            /\ r.pc \in Unsent => run[v].pc \in Unsent
  PROVE  WorkersGo
<1>1. \A w \in Workers : run'[w] = IF w = v THEN r ELSE run[w]
  BY DEF TypeOK
<1> QED
  BY <1>1 DEF WorkersGo, WorkerGoes

LEMMA ThrowGoesOn ==
  ASSUME TypeOK, NEW v \in Workers, ~At(v, "idle"), NEW err, run' = Throw(v, err)
  PROVE  WorkersGo
<1> DEFINE r == [run[v] EXCEPT !.pc = "catch", !.err = err]
<1>1. run' = [run EXCEPT ![v] = r]
  BY DEF Throw
<1>2. r.pc = "catch" /\ r.act = run[v].act /\ r.rec = run[v].rec
  BY DEF TypeOK, Runs
<1> QED
  BY <1>1, <1>2, OneGoesOn DEF At, Unsent

LEMMA ExecuteGoesOn ==
  ASSUME TypeOK, NEW v \in Workers, Execute(v)
  PROVE  WorkersGo
<1>0. run[v] \in Runs /\ ~At(v, "idle")
  BY DEF TypeOK, Execute, PreClaimFails, AbortBeforeClaim, Claim, ClaimLost, Replay,
     RefuseReconcile, PrepareFails, BeforeEffect, UploadFails, SearchFinds,
     SearchUnresolved, AdapterRefuses, Issue, AnswerAccepted, AnswerRefused, AnswerLost,
     ReadbackMismatch, Commit, CommitFails, Catch, At
<1>1. CASE \E err \in Errors : run' = Throw(v, err)
  BY <1>0, <1>1, ThrowGoesOn
<1>2. CASE run' = [run EXCEPT ![v] = Idle]
  BY <1>2, IdleDoesNotSend, OneGoesOn
<1>3. CASE Claim(v)
  <2> DEFINE r == [run[v] EXCEPT !.att = row[run[v].act].retry + 1,
                                 !.prior = row[run[v].act].saved, !.pc = "prepare"]
  <2>1. /\ run' = [run EXCEPT ![v] = r] /\ r.act = run[v].act /\ r.rec = run[v].rec
        /\ run[v].pc = "claim"
    BY <1>0, <1>3 DEF Claim, Runs, At
  <2> QED
    BY <2>1, OneGoesOn DEF Unsent
<1>4. CASE Replay(v) \/ SearchFinds(v) \/ AnswerAccepted(v)
  <2>1. PICK n : run' = [run EXCEPT ![v].pc = "commit", ![v].res = n]
    BY <1>4 DEF Replay, SearchFinds, AnswerAccepted
  <2> DEFINE r == [run[v] EXCEPT !.pc = "commit", !.res = n]
  <2>2. /\ run' = [run EXCEPT ![v] = r] /\ r.pc = "commit"
        /\ r.act = run[v].act /\ r.rec = run[v].rec
    BY <1>0, <2>1 DEF Runs
  <2> QED
    BY <1>0, <2>2, OneGoesOn DEF Unsent, At
<1>5. CASE Issue(v)
  <2> DEFINE r == [run[v] EXCEPT !.pc = "wait"]
  <2>1. /\ run' = [run EXCEPT ![v] = r] /\ r.pc = "wait"
        /\ r.act = run[v].act /\ r.rec = run[v].rec
    BY <1>0, <1>5 DEF Issue, Go, Runs
  <2> QED
    BY <1>0, <2>1, OneGoesOn DEF Unsent, At
<1>6. CASE BeforeEffect(v) /\ Halt(v) = "none"
  <2>1. PICK pc : run' = [run EXCEPT ![v].tried = TRUE, ![v].pc = pc]
    BY <1>6 DEF BeforeEffect
  <2> DEFINE r == [run[v] EXCEPT !.tried = TRUE, !.pc = pc]
  <2>2. /\ run' = [run EXCEPT ![v] = r] /\ r.act = run[v].act /\ r.rec = run[v].rec
        /\ run[v].pc \in {"prepare", "upload"}
    BY <1>0, <1>6, <2>1 DEF Runs, BeforeEffect, At
  <2> QED
    BY <2>2, OneGoesOn DEF Unsent
<1>7. CASE BeforeEffect(v) /\ Halt(v) # "none"
  BY <1>0, <1>7, ThrowGoesOn DEF BeforeEffect
<1> QED
  BY <1>1, <1>2, <1>3, <1>4, <1>5, <1>6, <1>7 DEF Execute, PreClaimFails, AbortBeforeClaim,
     ClaimLost, RefuseReconcile, PrepareFails, UploadFails, SearchUnresolved, AdapterRefuses,
     AnswerRefused, AnswerLost, ReadbackMismatch, Commit, CommitFails, Catch, Errors

LEMMA WorkersStep ==
  ASSUME TypeOK, [Next]_vars
  PROVE  WorkersGo
<1>1. ASSUME NEW v \in Workers, NEW a \in Actions, Begin(v, a) PROVE WorkersGo
  <2>1. \A w \in Workers : w # v => run'[w] = run[w]
    BY <1>1 DEF Begin, TypeOK
  <2> QED
    BY <1>1, <2>1 DEF WorkersGo, WorkerGoes
<1>2. ASSUME NEW v \in Workers, Execute(v) PROVE WorkersGo
  BY <1>2, ExecuteGoesOn
<1>3. ASSUME NEW v \in Workers, Crash(v) PROVE WorkersGo
  BY <1>3, IdleDoesNotSend, OneGoesOn DEF Crash
<1>4. ASSUME NEW v \in Workers, NoticeLoss(v) PROVE WorkersGo
  <2> DEFINE r == [run[v] EXCEPT !.aborted = TRUE]
  <2>1. /\ run' = [run EXCEPT ![v] = r] /\ run[v] \in Runs /\ run[v].pc # "idle"
    BY <1>4 DEF NoticeLoss, TypeOK, At
  <2>2. r.pc = run[v].pc /\ r.rec = run[v].rec /\ r.act = run[v].act
    BY <2>1 DEF Runs
  <2> QED
    BY <2>1, <2>2, OneGoesOn
<1>5. ASSUME NEW v \in Workers, LoseLock(v) PROVE UNCHANGED run
  BY <1>5 DEF LoseLock
<1>6. ASSUME NEW a \in Actions, Upkeep(a) PROVE UNCHANGED run
  BY <1>6 DEF Upkeep, TurnAway, CloseAtDeadline, DeliveryFailed, DeliveryConfirmed,
     RecoverStale, OperatorRetry
<1>7. ASSUME NEW a \in Actions, NEW n \in Attempts, Carrier(a, n) PROVE UNCHANGED run
  BY <1>7 DEF Carrier, Accept, Refuse, Deliver, Bounce, CarrierMoves
<1>8. ASSUME Outside PROVE UNCHANGED run
  BY <1>8 DEF Outside, Clients, ClientTurn, OperatorEvent, Transition, RecoverCase,
     SetAutomation, OptOut, Inbound, Reengage, ClosePhaseOne, DeadlinePasses, DayPasses,
     Others, HeldAck, ScheduleReminder, Escalate, caseRest
<1> QED
  BY <1>1, <1>2, <1>3, <1>4, <1>5, <1>6, <1>7, <1>8, SameGo DEF Next, Outside, vars

(* The lock passes from nobody to a worker that begins and back when one    *)
(* ends; only a loss takes it from one that goes on.                        *)
Ending(v) == run[v].pc # "idle" /\ run'[v].pc = "idle"
LockGoes ==
  \/ lock' = lock
  \/ lock = Free
  \/ budget'.losses < budget.losses
  \/ \E v \in Workers : Ending(v) /\ lock' = Release(v)

LEMMA LockStep ==
  ASSUME TypeOK, [Next]_vars
  PROVE  LockGoes /\ budget'.losses \in Nat /\ budget'.losses <= budget.losses
<1>0. budget.losses \in Nat
  BY DEF TypeOK, Budgets
<1>1. ASSUME NEW kind \in {"crashes", "faults", "stalls", "rekeys"}, Spend(kind)
      PROVE  budget'.losses = budget.losses
  BY <1>1 DEF Spend, TypeOK, Budgets
<1>2. ASSUME NEW v \in Workers, LoseLock(v)
      PROVE  LockGoes /\ budget'.losses \in Nat /\ budget'.losses <= budget.losses
  BY <1>2 DEF LoseLock, Spend, TypeOK, Budgets, LockGoes
<1>3. ASSUME NEW v \in Workers, Execute(v)
      PROVE  LockGoes /\ budget'.losses = budget.losses
  <2>1. lock' = lock \/ (run' = [run EXCEPT ![v] = Idle] /\ lock' = Release(v))
    BY <1>3 DEF Execute, PreClaimFails, AbortBeforeClaim, Claim, ClaimLost, Replay,
       RefuseReconcile, PrepareFails, BeforeEffect, UploadFails, SearchFinds,
       SearchUnresolved, AdapterRefuses, Issue, AnswerAccepted, AnswerRefused, AnswerLost,
       ReadbackMismatch, Commit, CommitFails, Catch
  <2>2. UNCHANGED budget \/ Spend("faults") \/ Spend("rekeys")
    BY <1>3 DEF Execute, PreClaimFails, AbortBeforeClaim, Claim, ClaimLost, Replay,
       RefuseReconcile, PrepareFails, BeforeEffect, UploadFails, SearchFinds,
       SearchUnresolved, AdapterRefuses, Issue, AnswerAccepted, AnswerRefused, AnswerLost,
       ReadbackMismatch, Commit, CommitFails, Catch
  <2>3. run[v].pc # "idle"
    BY <1>3 DEF Execute, PreClaimFails, AbortBeforeClaim, Claim, ClaimLost, Replay,
       RefuseReconcile, PrepareFails, BeforeEffect, UploadFails, SearchFinds,
       SearchUnresolved, AdapterRefuses, Issue, AnswerAccepted, AnswerRefused, AnswerLost,
       ReadbackMismatch, Commit, CommitFails, Catch, At
  <2>4. run' = [run EXCEPT ![v] = Idle] => run'[v].pc = "idle"
    BY IdleDoesNotSend DEF TypeOK
  <2> QED
    BY <1>1, <2>1, <2>2, <2>3, <2>4 DEF LockGoes, Ending
<1>4. ASSUME NEW v \in Workers, Crash(v)
      PROVE  LockGoes /\ budget'.losses = budget.losses
  <2>1. run[v].pc # "idle" /\ run' = [run EXCEPT ![v] = Idle] /\ lock' = Release(v)
        /\ Spend("crashes")
    BY <1>4 DEF Crash, At
  <2>2. run'[v].pc = "idle"
    BY <2>1, IdleDoesNotSend DEF TypeOK
  <2> QED
    BY <1>1, <2>1, <2>2 DEF LockGoes, Ending
<1>5. ASSUME NEW v \in Workers, NEW a \in Actions, Begin(v, a)
      PROVE  LockGoes /\ UNCHANGED budget
  BY <1>5 DEF Begin, LockGoes
<1>6. ASSUME NEW v \in Workers, NoticeLoss(v) PROVE LockGoes /\ UNCHANGED budget
  BY <1>6 DEF NoticeLoss, LockGoes
<1>7. ASSUME NEW a \in Actions, Upkeep(a)
      PROVE  LockGoes /\ budget'.losses = budget.losses
  BY <1>1, <1>7 DEF Upkeep, TurnAway, CloseAtDeadline, DeliveryFailed, DeliveryConfirmed,
     RecoverStale, OperatorRetry, LockGoes
<1>8. ASSUME NEW a \in Actions, NEW n \in Attempts, Carrier(a, n)
      PROVE  LockGoes /\ UNCHANGED budget
  BY <1>8 DEF Carrier, Accept, Refuse, Deliver, Bounce, CarrierMoves, LockGoes
<1>9. ASSUME Outside PROVE LockGoes /\ UNCHANGED budget
  BY <1>9 DEF Outside, Clients, ClientTurn, OperatorEvent, Transition, RecoverCase,
     SetAutomation, OptOut, Inbound, Reengage, ClosePhaseOne, DeadlinePasses, DayPasses,
     Others, HeldAck, ScheduleReminder, Escalate, caseRest, LockGoes
<1>10. UNCHANGED vars => LockGoes /\ UNCHANGED budget
  BY DEF vars, LockGoes
<1>11. (\E v \in Workers : LoseLock(v)) \/ (LockGoes /\ budget'.losses = budget.losses)
  BY <1>3, <1>4, <1>5, <1>6, <1>7, <1>8, <1>9, <1>10 DEF Next, Outside
<1> QED
  BY <1>0, <1>2, <1>11

(* Version and step move under the case lock: by somebody who found it      *)
(* free, or by the commit that ends its holder.                             *)
CaseStays == kase'.version = kase.version /\ kase'.step = kase.step
CaseGoes == CaseStays \/ lock = Free \/ \E v \in Workers : Ending(v)

LEMMA CaseStep ==
  ASSUME TypeOK, [Next]_vars
  PROVE  CaseGoes
<1>0. kase \in Cases
  BY DEF TypeOK
<1>1. CASE UNCHANGED kase
  BY <1>1 DEF CaseGoes, CaseStays
<1>2. CASE lock = Free
  BY <1>2 DEF CaseGoes
<1>3. ASSUME NEW v \in Workers, Commit(v) PROVE CaseGoes
  <2>1. run[v].pc = "commit" /\ run' = [run EXCEPT ![v] = Idle]
    BY <1>3 DEF Commit, At
  <2>2. run'[v].pc = "idle"
    BY <2>1, IdleDoesNotSend DEF TypeOK
  <2> QED
    BY <2>1, <2>2 DEF CaseGoes, Ending
<1>4. CASE OptOut \/ Inbound \/ Reengage \/ DeadlinePasses \/ DayPasses
  BY <1>0, <1>4 DEF OptOut, Inbound, Reengage, DeadlinePasses, DayPasses, Cases,
     CaseGoes, CaseStays
<1>5. ASSUME NEW v \in Workers, Execute(v), ~Commit(v) PROVE UNCHANGED kase
  BY <1>5 DEF Execute, PreClaimFails, AbortBeforeClaim, Claim, ClaimLost, Replay,
     RefuseReconcile, PrepareFails, BeforeEffect, UploadFails, SearchFinds,
     SearchUnresolved, AdapterRefuses, Issue, AnswerAccepted, AnswerRefused, AnswerLost,
     ReadbackMismatch, CommitFails, Catch
<1>6. ASSUME NEW v \in Workers, NEW a \in Actions, Begin(v, a) PROVE UNCHANGED kase
  BY <1>6 DEF Begin
<1>7. ASSUME NEW v \in Workers, Crash(v) \/ LoseLock(v) \/ NoticeLoss(v)
      PROVE  UNCHANGED kase
  BY <1>7 DEF Crash, LoseLock, NoticeLoss
<1>8. ASSUME NEW a \in Actions, Upkeep(a) PROVE UNCHANGED kase \/ lock = Free
  BY <1>8 DEF Upkeep, TurnAway, CloseAtDeadline, DeliveryFailed, DeliveryConfirmed,
     RecoverStale, OperatorRetry, Reports
<1>9. ASSUME NEW a \in Actions, NEW n \in Attempts, Carrier(a, n) PROVE UNCHANGED kase
  BY <1>9 DEF Carrier, Accept, Refuse, Deliver, Bounce, CarrierMoves
<1>10. CASE Outside
  BY <1>2, <1>4, <1>10 DEF Outside, Clients, ClientTurn, OperatorEvent, Transition,
     RecoverCase, SetAutomation, ClosePhaseOne, Others, HeldAck, ScheduleReminder, Escalate
<1> QED
  BY <1>1, <1>2, <1>3, <1>5, <1>6, <1>7, <1>8, <1>9, <1>10 DEF Next, Outside, vars

(* A row whose worker begins afresh is one the case still stands for. *)
LEMMA BegunInTime ==
  ASSUME NEW w \in Workers, NEW a \in Actions, Begin(w, a), TypeOK
  PROVE  /\ run'[w].act = a /\ lock' = w /\ row[a].status # "ABSENT"
         /\ ~run'[w].rec => DecidedFor(a)
<1> DEFINE r == [Idle EXCEPT
      !.pc = "claim", !.act = a,
      !.rec = (row[a].status = "UNCERTAIN"), !.seen = row[a].retry,
      !.ver = IF row[a].status = "UNCERTAIN" THEN PinnedVersion(a, kase) ELSE kase.version,
      !.step = kase.step, !.team = ForTeam(a) /\ kase.escalated]
<1>1. run'[w] = r /\ lock' = w /\ row[a].status # "ABSENT"
  BY DEF Begin, TypeOK
<1>2. r.act = a /\ r.rec = (row[a].status = "UNCERTAIN")
  BY DEF Idle
<1>3. ASSUME row[a].status # "UNCERTAIN" PROVE DecidedFor(a)
  <2>1. FreshVerdict(a, kase) = "GO"
    BY <1>3 DEF Begin, Verdict
  <2> QED
    BY <2>1 DEF FreshVerdict, Outdated, DecidedFor
<1> QED
  BY <1>1, <1>2, <1>3

(* DecidedFor in the next state *)
DecidedNow(a) ==
  IF IsReply(a) THEN row'[a].step = kase'.step
  ELSE IsReminder(a) \/ row'[a].expected = kase'.version

LEMMA InTimeInit == Init => InTime
<1> SUFFICES ASSUME Init PROVE InTime
  OBVIOUS
<1>1. budget.losses = MaxLosses /\ MaxLosses \in Nat
  BY OutboxAssumption DEF Init
<1>2. \A w \in Workers : At(w, "idle")
  BY IdleDoesNotSend DEF Init, At
<1> QED
  BY <1>1, <1>2 DEF InTime

LEMMA InTimeStep == IInv /\ EvInv /\ InTime /\ [Next]_vars => InTime'
<1> SUFFICES ASSUME IInv, EvInv, InTime, [Next]_vars PROVE InTime'
  OBVIOUS
<1>0. TypeOK /\ Evidence /\ budget.losses \in Nat /\ MaxLosses \in Nat
  BY OutboxAssumption DEF IInv, EvInv, TypeOK, Budgets
<1>1. /\ WorkersGo /\ LockGoes /\ CaseGoes /\ RowsGo(row')
      /\ budget'.losses \in Nat /\ budget'.losses <= budget.losses
  BY <1>0, WorkersStep, LockStep, CaseStep, RowsStep
<1>2. ASSUME NEW w \in Workers, NEW a \in Actions, Begin(w, a)
      PROVE  /\ row'[run'[w].act].status # "ABSENT" /\ lock' = w
             /\ ~run'[w].rec => DecidedNow(run'[w].act)
  <2>1. UNCHANGED <<row, kase>>
    BY <1>2 DEF Begin
  <2> QED
    BY <1>0, <1>2, <2>1, BegunInTime DEF DecidedFor, DecidedNow
<1>3. ASSUME NEW w \in Workers, run'[w].pc # "idle", ~(\E a \in Actions : Begin(w, a))
      PROVE  /\ run[w].pc # "idle" /\ run'[w].act = run[w].act /\ run'[w].rec = run[w].rec
             /\ run'[w].pc \in Unsent => run[w].pc \in Unsent
             /\ run[w].act \in Actions /\ row[run[w].act].status # "ABSENT"
             /\ RowGoes(run[w].act, row'[run[w].act])
  <2>1. /\ run[w].pc # "idle" /\ run'[w].act = run[w].act /\ run'[w].rec = run[w].rec
        /\ run'[w].pc \in Unsent => run[w].pc \in Unsent
    BY <1>1, <1>3 DEF WorkersGo, WorkerGoes
  <2>2. run[w].act \in Actions /\ row[run[w].act].status # "ABSENT"
    BY <1>0, <2>1 DEF TypeOK, InTime, At
  <2> QED
    BY <1>1, <2>1, <2>2 DEF RowsGo
<1>4. \A w \in Workers : run'[w].pc # "idle" => row'[run'[w].act].status # "ABSENT"
  BY <1>2, <1>3 DEF RowGoes
<1>5. ASSUME budget'.losses = MaxLosses, NEW w \in Workers, run'[w].pc # "idle",
             ~(\E a \in Actions : Begin(w, a))
      PROVE  /\ lock' = w
             /\ ~run'[w].rec /\ run'[w].pc \in Unsent => DecidedNow(run'[w].act)
  <2>1. budget.losses = MaxLosses
    BY <1>0, <1>1, <1>5 DEF InTime
  <2>2. \A v \in Workers : run[v].pc # "idle" => lock = v
    BY <2>1 DEF InTime, LocksKept, At
  <2>3. lock = w /\ lock # Free
    BY <1>3, <1>5, <2>2, OutboxAssumption
  <2>4. ~(\E v \in Workers : Ending(v))
    BY <1>5, <2>2, <2>3 DEF Ending
  <2>5. lock' = w
    BY <1>0, <1>1, <1>5, <2>1, <2>3, <2>4 DEF LockGoes
  <2>6. CaseStays
    BY <1>1, <2>3, <2>4 DEF CaseGoes
  <2>7. ASSUME ~run'[w].rec, run'[w].pc \in Unsent PROVE DecidedNow(run'[w].act)
    <3>1. DecidedFor(run[w].act)
      BY <1>3, <1>5, <2>1, <2>7 DEF InTime, LocksKept, At
    <3>2. /\ row'[run[w].act].expected = row[run[w].act].expected
          /\ row'[run[w].act].step = row[run[w].act].step
      BY <1>3, <1>5 DEF RowGoes
    <3> QED
      BY <1>3, <1>5, <2>6, <3>1, <3>2 DEF DecidedFor, DecidedNow, CaseStays
  <2> QED
    BY <2>5, <2>7
<1>6. budget'.losses <= MaxLosses
  BY <1>0, <1>1 DEF InTime
<1> QED
  BY <1>2, <1>4, <1>5, <1>6 DEF InTime, LocksKept, At, DecidedFor, DecidedNow, IsReply, IsReminder

(* Only a worker at its remote call makes a request. *)
LEMMA OnlyIssueSends ==
  ASSUME TypeOK, [Next]_vars, NEW a \in Actions, NEW n \in Attempts,
         wire[a][n] = "none", wire'[a][n] = "flying"
  PROVE  \E w \in Workers : run[w].pc = "send" /\ ~run[w].rec /\ run[w].act = a
<1>1. ASSUME NEW w \in Workers, Issue(w)
      PROVE  run[w].pc = "send" /\ ~run[w].rec /\ run[w].act = a
  <2>1. wire' = [wire EXCEPT ![run[w].act][run[w].att] = "flying"]
    BY <1>1 DEF Issue
  <2>2. run[w].act # a => wire'[a] = wire[a]
    BY <2>1 DEF TypeOK
  <2> QED
    BY <1>1, <2>2 DEF Issue, At
<1>2. ASSUME NEW w \in Workers, Execute(w), ~Issue(w) PROVE UNCHANGED wire
  BY <1>2 DEF Execute, PreClaimFails, AbortBeforeClaim, Claim, ClaimLost, Replay,
     RefuseReconcile, PrepareFails, BeforeEffect, UploadFails, SearchFinds,
     SearchUnresolved, AdapterRefuses, AnswerAccepted, AnswerRefused, AnswerLost,
     ReadbackMismatch, Commit, CommitFails, Catch
<1>3. ASSUME NEW b \in Actions, Upkeep(b), ~DeliveryFailed(b) PROVE UNCHANGED wire
  BY <1>3 DEF Upkeep, TurnAway, CloseAtDeadline, DeliveryConfirmed, RecoverStale, OperatorRetry
<1>4. ASSUME NEW b \in Actions, DeliveryFailed(b) PROVE FALSE
  BY <1>4 DEF DeliveryFailed, MarkProcessed, TypeOK
<1>5. ASSUME NEW b \in Actions, NEW k \in Attempts, Carrier(b, k) PROVE FALSE
  BY <1>5 DEF Carrier, Accept, Refuse, Deliver, Bounce, CarrierMoves, TypeOK
<1>6. ASSUME Outside PROVE UNCHANGED wire
  BY <1>6 DEF Outside, Clients, ClientTurn, OperatorEvent, Transition, RecoverCase,
     SetAutomation, OptOut, Inbound, Reengage, ClosePhaseOne, DeadlinePasses, DayPasses,
     Others, HeldAck, ScheduleReminder, Escalate, caseRest
<1>7. ASSUME NEW w \in Workers, NEW b \in Actions, Begin(w, b) PROVE UNCHANGED wire
  BY <1>7 DEF Begin
<1>8. ASSUME NEW w \in Workers, Crash(w) \/ LoseLock(w) \/ NoticeLoss(w)
      PROVE  UNCHANGED wire
  BY <1>8 DEF Crash, LoseLock, NoticeLoss
<1> QED
  BY <1>1, <1>2, <1>3, <1>4, <1>5, <1>6, <1>7, <1>8 DEF Next, Outside, vars

LEMMA SentInTime ==
  ASSUME IInv, InTime, [Next]_vars, LocksKept, NEW a \in Actions, NEW n \in Attempts,
         wire[a][n] = "none", wire'[a][n] = "flying"
  PROVE  DecidedFor(a)
<1>1. TypeOK
  BY DEF IInv
<1>2. PICK w \in Workers : run[w].pc = "send" /\ ~run[w].rec /\ run[w].act = a
  BY <1>1, OnlyIssueSends
<1> QED
  BY <1>2 DEF InTime, LocksKept, Unsent, At

(* InTimeHolds: until a lock is lost, a worker that is not idle holds it,   *)
(* and its row was decided for the case as it is until its request leaves.  *)
THEOREM InTimeHolds == Spec => []InTime
  BY InvInit, IInvStep, EvInit, EvStep, InTimeInit, InTimeStep, PTL DEF Spec

(* LockedSends: however many locks may be lost, no request leaves for a     *)
(* version or step the case has left before the first one was.              *)
THEOREM LockedSends == Spec => SentWhileLocked
<1>1. IInv /\ InTime /\ [Next]_vars =>
        [LocksKept => \A a \in Actions, n \in Attempts :
           wire[a][n] = "none" /\ wire'[a][n] = "flying" => DecidedFor(a)]_vars
  BY SentInTime
<1> QED
  BY InvariantHolds, InTimeHolds, <1>1, PTL DEF Spec, SentWhileLocked

(* DecidedSends: where no lock is lost, every request leaves for what it    *)
(* was decided for.                                                         *)
THEOREM DecidedSends == ASSUME MaxLosses = 0 PROVE Spec => SentAsDecided
<1>1. IInv /\ InTime => LocksKept
  BY DEF IInv, TypeOK, Budgets, InTime, LocksKept
<1>2. IInv /\ InTime /\ [Next]_vars =>
        [\A a \in Actions, n \in Attempts :
           wire[a][n] = "none" /\ wire'[a][n] = "flying" => DecidedFor(a)]_vars
  BY <1>1, SentInTime
<1> QED
  BY InvariantHolds, InTimeHolds, <1>2, PTL DEF Spec, SentAsDecided

===============================================================================
