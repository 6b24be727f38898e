-------------------------- MODULE CIStore_proofs --------------------------
(***************************************************************************)
(* Theorems about CIStore, for any number of runs, steps, refs, targets    *)
(* and workers: type correctness, the inductive invariant, and what        *)
(* follows from it.                                                        *)
(*                                                                         *)
(* Most transactions only end runs, settle steps, mark containers removed  *)
(* or release targets: Shrink says so, and one lemma shows that whatever   *)
(* shrinks preserves the invariant.  Three more only move a running run on *)
(* (Grow).  The rest, claiming, beginning a deployment, a receipt,         *)
(* creating a run, pruning and deleting, have a lemma each.                *)
(***************************************************************************)
EXTENDS CIStore, FiniteSetTheorems, TLAPS

----------------------------------------------------------------------------
(* Type correctness.                                                       *)

\* The rows a new run is made of are rows.
LEMMA NewRows ==
  /\ AbsentRun \in Run
  /\ NoSteps \in [Steps -> Step]
  /\ FreeTarget \in Target
  /\ \A s \in StepStatus, k \in Kinds : StepRow(s, k) \in Step
BY ConstantsOK DEF AbsentRun, Run, NoSteps, StepRow, Step, FreeTarget, Target,
   RunStatus, StepStatus, Kinds, Codes, NoCode, NoGen, Ended, Open

\* Marking, stopping and settling a step row keeps it a row.
LEMMA StepOps ==
  ASSUME NEW s \in Step, NEW a \in StepStatus, NEW b \in StepStatus
  PROVE  /\ RemoveMark(s) \in Step
         /\ StopDeploy(s) \in Step
         /\ SettleStep(s, a, b) \in Step
BY DEF RemoveMark, StopDeploy, SettleStep, Step, StepStatus, Ended

\* What CreateTx writes for a planned run has the type of its rows.
LEMMA CreateRows ==
  ASSUME NEW p \in Plans
  PROVE  /\ CreateStatus(p) \in {"queued", "passed", "failed"}
         /\ CreateSteps(p) \in [Steps -> Step]
<1>1. CreateStatus(p) \in {"queued", "passed", "failed"}
  BY DEF CreateStatus, PlanStatus
<1>2. p.kind \in [Steps -> Kinds]
  BY ConstantsOK DEF Plan
<1>3. CreateSteps(p) \in [Steps -> Step]
  <2>1. {"none", "pending", "skipped"} \subseteq StepStatus
    BY DEF StepStatus, Open
  <2>2. \A i \in Steps : p.kind[i] \in Kinds /\ "none" \in Kinds
    BY <1>2 DEF Kinds
  <2>. QED BY NewRows, <2>1, <2>2 DEF CreateSteps
<1>. QED BY <1>1, <1>3

\* CreateTx keeps the tables it writes typed.
LEMMA TypeCreate ==
  ASSUME TypeOK, NEW f \in Refs, NEW tr \in {"push", "manual"}, NEW p \in Plans,
         CreateTx(f, tr, p)
  PROVE  /\ runs' \in [Runs -> Run]
         /\ steps' \in [Runs -> [Steps -> Step]]
         /\ counter' \in 0 .. MaxRuns
<1>1. counter' \in 0 .. MaxRuns
  BY ConstantsOK DEF CreateTx, TypeOK
<1>2. p.target \in Targets \cup {NoTarget}
  BY ConstantsOK DEF Plan
<1>3. runs' \in [Runs -> Run]
  <2> DEFINE row == [AbsentRun EXCEPT !.status = CreateStatus(p), !.ref = f,
                       !.trigger = tr, !.target = IF p.problem THEN NoTarget ELSE p.target]
  <2>1. row \in Run
    BY <1>2, NewRows, CreateRows DEF Run, RunStatus, Ended
  <2>2. \A q \in Runs : [runs[q] EXCEPT !.status = "cancelled"] \in Run
    BY DEF TypeOK, Run, RunStatus, Ended
  <2> HIDE DEF row
  <2>3. runs' = [q \in Runs |->
          IF q = counter + 1 THEN row
          ELSE IF q \in Superseded(f, counter + 1) THEN [runs[q] EXCEPT !.status = "cancelled"] ELSE runs[q]]
    BY DEF CreateTx, row
  <2>. QED BY <2>1, <2>2, <2>3 DEF TypeOK
<1>4. \A q \in Runs : Supersede(steps[q]) \in [Steps -> Step]
  BY StepOps DEF TypeOK, Supersede, Settle, StepStatus, Ended, Open
<1>5. steps' \in [Runs -> [Steps -> Step]]
  BY <1>4, CreateRows DEF CreateTx, TypeOK
<1>. QED BY <1>1, <1>3, <1>5

\* The calls of a worker about a step keep every table typed.
LEMMA TypeStep ==
  ASSUME TypeOK, NEW r \in Runs, NEW i \in Steps, StepNext(r, i)
  PROVE  TypeOK'
<1>. USE DEF TypeOK
<1>0. steps[r][i] \in Step
  OBVIOUS
<1>a. ASSUME NEW s \in Step, SetStep(r, i, s) PROVE TypeOK'
  BY <1>a DEF SetStep
<1>1. CASE StepStarted(r, i)
  BY <1>0, <1>1, <1>a DEF StepStarted, Step, StepStatus, Open
<1>2. CASE PlanContainer(r, i)
  BY <1>0, <1>2, <1>a DEF PlanContainer, Step
<1>3. CASE BeginDeployment(r, i)
  <2>1. runs[r].target \in Targets
    BY <1>3 DEF BeginDeployment, BeginAnswer, Run
  <2> DEFINE t == runs[r].target
             g == IF targets[t].owner = NoOwner THEN targets[t].gen + 1 ELSE targets[t].gen
  <2>2. g \in Nat
    BY <2>1 DEF Target
  <2> HIDE DEF g
  <2>3. targets' = [targets EXCEPT ![t].owner = <<r, i>>, ![t].gen = g]
        /\ steps' = [steps EXCEPT ![r][i].gen = g]
    BY <1>3 DEF BeginDeployment, g
  <2>4. targets' \in [Targets -> Target]
    BY <2>1, <2>2, <2>3 DEF Target
  <2>5. steps' \in [Runs -> [Steps -> Step]]
    BY <1>0, <2>2, <2>3 DEF Step
  <2>. QED BY <1>3, <2>4, <2>5 DEF BeginDeployment
<1>4. CASE ContainerCreated(r, i)
  BY <1>0, <1>4, <1>a DEF ContainerCreated, Step
<1>b. ASSUME NEW status \in StepStatus, NEW code \in Codes, NEW b \in BOOLEAN,
             Receipt(r, i, status, code, b)
      PROVE  TypeOK'
  <2>1. steps' \in [Runs -> [Steps -> Step]]
    BY <1>0, <1>b DEF Receipt, Step
  <2>2. targets' \in [Targets -> Target]
    BY <1>b, ConstantsOK DEF Receipt, Raised, Target, Runs
  <2>3. deployments' \in SUBSET (Targets \X Runs \X Steps)
    BY <1>b DEF Receipt, Shipped, DeployProven, Run
  <2>. QED BY <1>b, <2>1, <2>2, <2>3 DEF Receipt
<1>5. CASE \E x \in Results : StepFinished(r, i, x)
  <2>1. PICK x \in Results : Receipt(r, i, x[1], x[2], FALSE)
    BY <1>5 DEF StepFinished
  <2>2. x[1] \in StepStatus /\ x[2] \in Codes
    BY DEF Results, StepStatus, Ended, Codes
  <2>. QED BY <2>1, <2>2, <1>b
<1>6. CASE \E code \in Codes \ {NoCode} : RecoverStepExit(r, i, code)
  BY <1>6, <1>b DEF RecoverStepExit, StepStatus, Ended
<1>7. CASE ContainerRemoved(r, i)
  BY <1>0, <1>7, <1>a, StepOps DEF ContainerRemoved, StepStatus, Open
<1>. QED BY <1>1, <1>2, <1>3, <1>4, <1>5, <1>6, <1>7 DEF StepNext

\* Releasing targets keeps them targets, ending runs keeps runs and steps.
LEMMA TypeEffects ==
  ASSUME TypeOK, NEW S, NEW a \in StepStatus, NEW b \in StepStatus, NEW st \in RunStatus
  PROVE  /\ Released(S) \in [Targets -> Target]
         /\ \A r \in Runs : Settle(steps[r], a, b) \in [Steps -> Step]
         /\ \A r \in Runs : [runs[r] EXCEPT !.status = st] \in Run
         /\ \A r \in Runs : [runs[r] EXCEPT !.status = st, !.token = FALSE] \in Run
         /\ FinishRuns(S, st, a, b) =>
              runs' \in [Runs -> Run] /\ steps' \in [Runs -> [Steps -> Step]]
<1>1. Released(S) \in [Targets -> Target]
  BY DEF Released, TypeOK, Target
<1>2. \A r \in Runs : Settle(steps[r], a, b) \in [Steps -> Step]
  BY StepOps DEF Settle, TypeOK
<1>3. \A r \in Runs : /\ [runs[r] EXCEPT !.status = st] \in Run
                      /\ [runs[r] EXCEPT !.status = st, !.token = FALSE] \in Run
  BY DEF TypeOK, Run
<1>. QED BY <1>1, <1>2, <1>3 DEF FinishRuns, TypeOK

\* The calls about a run keep every table typed.
LEMMA TypeRun ==
  ASSUME TypeOK, NEW r \in Runs, RunNext(r)
  PROVE  TypeOK'
<1>. USE DEF TypeOK
<1>0. Ended \subseteq StepStatus /\ Ended \subseteq RunStatus /\ "skipped" \in StepStatus
  BY DEF StepStatus, RunStatus
<1>1. CASE \E w \in Workers : ClaimNext(w, r)
  <2>1. PICK w \in Workers : ClaimNext(w, r)
    BY <1>1
  <2>2. [runs[r] EXCEPT !.status = "running", !.worker = w, !.token = TRUE] \in Run
    BY DEF Run, RunStatus
  <2>3. runs' \in [Runs -> Run]
    BY <2>1, <2>2 DEF ClaimNext
  <2>. QED BY <2>1, <2>3 DEF ClaimNext
<1>2. CASE DeadlinePasses(r)
  BY <1>2 DEF DeadlinePasses, Run
<1>3. CASE \E i \in Steps : StepNext(r, i)
  BY <1>3, TypeStep
<1>4. CASE AllRemoved(r)
  BY <1>4, <1>0, StepOps DEF AllRemoved
<1>5. CASE ConfirmExecutionStopped(r)
  <2>1. targets' \in [Targets -> Target]
    BY <1>5, <1>0, TypeEffects DEF ConfirmExecutionStopped, Ended
  <2>2. \A s \in Step : StopDeploy(s) \in Step
    BY <1>0, StepOps
  <2>. QED BY <1>5, <2>1, <2>2 DEF ConfirmExecutionStopped
<1>6. CASE \E status \in Ended : Finish(r, status)
  <2>1. PICK status \in Ended : Finish(r, status)
    BY <1>6
  <2>2. CASE status = "cancelled"
    BY <2>1, <2>2, <1>0, TypeEffects DEF Finish, Ended
  <2>3. CASE status # "cancelled"
    BY <2>1, <2>3, <1>0, TypeEffects DEF Finish, Ended
  <2>. QED BY <2>2, <2>3
<1>7. CASE Cancel(r)
  <2>1. /\ [runs[r] EXCEPT !.cancel = TRUE] \in Run
        /\ [runs[r] EXCEPT !.status = "cancelled"] \in Run
    BY DEF Run, RunStatus, Ended
  <2>2. Settle(steps[r], "cancelled", "cancelled") \in [Steps -> Step]
    BY <1>0, TypeEffects DEF Ended
  <2>. QED BY <1>7, <2>1, <2>2 DEF Cancel
<1>8. CASE PruneRun(r)
  <2>1. [AbsentRun EXCEPT !.status = "pruned"] \in Run
    BY NewRows DEF Run, RunStatus
  <2>. QED BY <1>8, <2>1, NewRows DEF PruneRun
<1>. QED BY <1>1, <1>2, <1>3, <1>4, <1>5, <1>6, <1>7, <1>8 DEF RunNext

\* The calls about a worker keep every table typed.
LEMMA TypeWorker ==
  ASSUME TypeOK, NEW w \in Workers, WorkerNext(w)
  PROVE  TypeOK'
<1>. USE DEF TypeOK
<1>a. ASSUME NEW row \in {"up", "stopped", "absent"}, NEW beat \in {"fresh", "late", "lost"},
             SetWorker(w, row, beat)
      PROVE  TypeOK'
  BY <1>a DEF SetWorker, Worker
<1>b. workers[w] \in Worker
  OBVIOUS
<1>1. CASE RegisterWorker(w)
  BY <1>1, <1>a DEF RegisterWorker
<1>2. CASE Heartbeat(w)
  BY <1>2, <1>a, <1>b DEF Heartbeat, Worker
<1>3. CASE StopWorker(w)
  BY <1>3, <1>a, <1>b DEF StopWorker, Worker
<1>4. CASE BeatAges(w)
  BY <1>4, <1>a, <1>b DEF BeatAges, Worker
<1>5. CASE \E only \in {Runs} \cup {{r} : r \in Runs} : ReleaseLostWorker(w, only)
  <2>0. {"failed", "skipped"} \subseteq StepStatus /\ "failed" \in RunStatus
    BY DEF StepStatus, RunStatus, Ended
  <2>1. \A r \in Runs : [runs[r] EXCEPT !.status = "failed", !.token = FALSE] \in Run
    BY <2>0, TypeEffects
  <2>2. \A s \in Step : /\ RemoveMark(StopDeploy(SettleStep(s, "failed", "skipped"))) \in Step
                        /\ RemoveMark(s) \in Step
    BY <2>0, StepOps
  <2>3. \A S : Released(S) \in [Targets -> Target]
    BY <2>0, TypeEffects
  <2>4. \A row \in {"stopped", "absent"} : [workers[w] EXCEPT !.row = row] \in Worker
    BY <1>b DEF Worker
  <2>x. PICK only : ReleaseLostWorker(w, only)
    BY <1>5
  <2> DEFINE own == {r \in only : runs[r].worker = w}
             listed == {r \in own : runs[r].status = "running" \/ HasContainer(r)}
             failed == {r \in listed : runs[r].status = "running"}
  <2>y. /\ runs' = [r \in Runs |->
             IF r \in failed THEN [runs[r] EXCEPT !.status = "failed", !.token = FALSE]
             ELSE runs[r]]
        /\ steps' = [r \in Runs |-> [i \in Steps |->
             IF r \in failed
             THEN RemoveMark(StopDeploy(SettleStep(steps[r][i], "failed", "skipped")))
             ELSE IF r \in listed THEN RemoveMark(steps[r][i]) ELSE steps[r][i]]]
        /\ targets' = Released(own)
        /\ workers' = [workers EXCEPT ![w].row = "stopped"]
        /\ UNCHANGED <<deployments, counter, maintenance, op>>
    BY <2>x DEF ReleaseLostWorker
  <2> HIDE DEF own, listed, failed
  <2>5. workers' \in [Workers -> Worker]
    BY <2>y, <2>4
  <2>6. runs' \in [Runs -> Run]
    BY <2>y, <2>1
  <2>7. steps' \in [Runs -> [Steps -> Step]]
    BY <2>y, <2>2
  <2>8. targets' \in [Targets -> Target]
    BY <2>y, <2>3
  <2>. QED BY <2>y, <2>5, <2>6, <2>7, <2>8
<1>6. CASE PruneWorker(w)
  <2>1. workers' \in [Workers -> Worker]
    BY <1>6, <1>b DEF PruneWorker, Worker
  <2>2. \A r \in Runs : [runs[r] EXCEPT !.worker = NoWorker] \in Run
    BY DEF Run
  <2>. QED BY <1>6, <2>1, <2>2 DEF PruneWorker
<1>. QED BY <1>1, <1>2, <1>3, <1>4, <1>5, <1>6 DEF WorkerNext

\* The calls about the repository keep every table typed.
LEMMA TypeRepo ==
  ASSUME TypeOK, RepoNext
  PROVE  TypeOK'
<1>. USE DEF TypeOK
<1>0. {"failed", "skipped", "cancelled", "running"} \subseteq StepStatus
      /\ {"failed", "cancelled"} \subseteq RunStatus
  BY DEF StepStatus, RunStatus, Ended, Open
<1>1. ASSUME NEW f \in Refs, NEW p \in Plans, Start(f, p) PROVE TypeOK'
  <2>1. CreateTx(f, "manual", p) /\ op' = op
    BY <1>1 DEF Start
  <2>2. /\ runs' \in [Runs -> Run]
        /\ steps' \in [Runs -> [Steps -> Step]]
        /\ counter' \in 0 .. MaxRuns
    BY <2>1, TypeCreate
  <2>. QED BY <2>1, <2>2 DEF CreateTx
<1>2. ASSUME NEW f \in Refs, NEW p \in Plans, PushRun(f, p) PROVE TypeOK'
  <2>1. CreateTx(f, "push", p) /\ op' = "none"
    BY <1>2 DEF PushRun
  <2>2. /\ runs' \in [Runs -> Run]
        /\ steps' \in [Runs -> [Steps -> Step]]
        /\ counter' \in 0 .. MaxRuns
    BY <2>1, TypeCreate
  <2>. QED BY <2>1, <2>2 DEF CreateTx, Ops
<1>3. ASSUME NEW f \in Refs, PushDeletesRef(f) PROVE TypeOK'
  BY <1>0, <1>3, TypeEffects DEF PushDeletesRef, Supersede, Ops
<1>4. ASSUME NEW S \in SUBSET Runs, FailLostRuns(S) PROVE TypeOK'
  BY <1>0, <1>4, TypeEffects DEF FailLostRuns
<1>5. ASSUME NEW kind \in {"push", "change", "delete"}, BeginOperation(kind) PROVE TypeOK'
  BY <1>5 DEF BeginOperation, Ops
<1>6. CASE EndOperation
  BY <1>6 DEF EndOperation, Ops
<1>7. CASE DeleteRepo
  <2>1. \A st \in RunStatus : [AbsentRun EXCEPT !.status = st] \in Run
    BY NewRows DEF Run
  <2>2. "absent" \in RunStatus /\ "pruned" \in RunStatus
    BY DEF RunStatus
  <2>. QED BY <1>7, <2>1, <2>2, NewRows DEF DeleteRepo, Ops
<1>8. CASE SetMaintenance(~maintenance)
  <2>1. maintenance' \in BOOLEAN
    BY <1>8, Zenon DEF SetMaintenance
  <2>. QED BY <1>8, <2>1 DEF SetMaintenance
<1>9. ASSUME NEW d \in deployments, PruneDeployment(d) PROVE TypeOK'
  BY <1>9 DEF PruneDeployment
<1>. QED BY <1>1, <1>2, <1>3, <1>4, <1>5, <1>6, <1>7, <1>8, <1>9 DEF RepoNext

\* The empty tables are typed.
LEMMA TypeInit == Init => TypeOK
<1>1. Init => maintenance \in BOOLEAN
  BY Zenon DEF Init
<1>2. Init => counter \in 0 .. MaxRuns /\ op \in Ops
  BY ConstantsOK DEF Init, Ops
<1>3. Init => workers \in [Workers -> Worker]
  BY DEF Init, Worker
<1>. QED BY <1>1, <1>2, <1>3, NewRows DEF Init, TypeOK

\* Every transaction keeps every table typed.
LEMMA TypeNext == TypeOK /\ [Next]_store => TypeOK'
<1>1. TypeOK /\ Next => TypeOK'
  BY TypeRun, TypeWorker, TypeRepo DEF Next
<1>2. TypeOK /\ UNCHANGED store => TypeOK'
  BY DEF store, TypeOK
<1>. QED BY <1>1, <1>2

\* The tables keep their types under every transaction of the store.
THEOREM TypeCorrect == Spec => []TypeOK
BY TypeInit, TypeNext, PTL DEF Spec

----------------------------------------------------------------------------
(* Transactions that only end, settle, mark or release.                    *)

\* A run row is kept, or ends; its token does not come back.
RunShrinks(a, b) ==
  /\ a.ref = b.ref /\ a.trigger = b.trigger /\ a.target = b.target /\ a.worker = b.worker
  /\ \/ a.status = b.status
     \/ a.status \in {"queued", "running"} /\ b.status \in Ended
  /\ b.token => a.token /\ (a.status = "running" => b.status = "running")
  /\ a.token /\ b.status = "running" => b.token

\* A step row is kept, or settles without a receipt; its container may be
\* marked removed.
StepShrinks(a, b) ==
  /\ a.kind = b.kind /\ a.code = b.code /\ a.gen = b.gen
  /\ (b.planned => a.planned) /\ (b.created => a.created)
  /\ (a.removed => b.removed)
  /\ \/ a.status = b.status
     \/ a.status \in Open /\ b.status \in {"failed", "cancelled", "skipped"}

\* What these transactions have in common.
Shrink ==
  /\ \A q \in Runs :
       /\ RunShrinks(runs[q], runs'[q])
       /\ runs'[q].status # runs[q].status =>
            \A j \in Steps : steps'[q][j].status \notin Open
  /\ \A q \in Runs, j \in Steps : StepShrinks(steps[q][j], steps'[q][j])
  /\ \A t \in Targets :
       /\ targets'[t].gen = targets[t].gen /\ targets'[t].latest = targets[t].latest
       /\ targets'[t].owner \in {targets[t].owner, NoOwner}
       /\ \A q \in Runs, j \in Steps :
            targets[t].owner = <<q, j>> /\ targets'[t].owner # <<q, j>> =>
               steps'[q][j].status \notin Open
  /\ \A w \in Workers : workers[w].row # "absent" => workers'[w].row # "absent"
  /\ deployments' = deployments /\ counter' = counter
  /\ op' \in {op, "none"}

\* NoOwner names no step: run numbers start at 1.
LEMMA NoOwnerIsNone == \A r \in Runs, i \in Steps : NoOwner # <<r, i>>
BY ConstantsOK DEF NoOwner, Runs

\* How the status sets overlap.
LEMMA StatusFacts ==
  /\ "queued" \notin Ended /\ "running" \notin Ended /\ "absent" \notin Ended
  /\ "pruned" \notin Ended /\ "none" \notin Open /\ "passed" \notin Open
  /\ "passed" \in Ended /\ "failed" \in Ended /\ "cancelled" \in Ended
  /\ Open = {"pending", "running"} /\ \A s \in Ended : s \notin Open
BY DEF Ended, Open

\* What shrinks keeps the invariant.
LEMMA ShrinkKeeps ==
  ASSUME IInv, TypeOK', Shrink
  PROVE  IInv'
<1>t. \A q \in Runs : runs[q].worker \in Workers \cup {NoWorker}
  BY DEF IInv, TypeOK, Run
<1>o. ASSUME NEW t \in Targets, NEW r \in Runs, NEW i \in Steps, targets'[t].owner = <<r, i>>
      PROVE  targets[t].owner = <<r, i>>
  <2>1. targets'[t].owner = targets[t].owner \/ targets'[t].owner = NoOwner
    BY DEF Shrink
  <2>. QED BY <1>o, <2>1, NoOwnerIsNone, Zenon
<1>1. Unborn'
  BY StatusFacts DEF IInv, Unborn, Shrink, RunShrinks, StepShrinks
<1>2. EndedSettled'
  BY StatusFacts DEF IInv, EndedSettled, Shrink, RunShrinks, StepShrinks, Ended, Open
<1>3. RunningAccounted'
  BY <1>t, StatusFacts DEF IInv, RunningAccounted, WorkerKnown, Shrink, RunShrinks, StepShrinks
<1>4. ReceiptShape'
  BY DEF IInv, ReceiptShape, Shrink, RunShrinks, StepShrinks, Ended, Open
<1>5. StartedClaimed'
  BY StatusFacts DEF IInv, StartedClaimed, Shrink, RunShrinks, StepShrinks
<1>6. ContainersRecoverable'
  BY <1>t DEF IInv, ContainersRecoverable, WorkerKnown, HasContainer, Unremoved, Shrink, RunShrinks, StepShrinks
<1>7. OwnerConsistent'
  <2> SUFFICES ASSUME NEW t \in Targets, NEW r \in Runs, NEW i \in Steps,
                      targets'[t].owner = <<r, i>>
               PROVE  OwnerOK(t, r, i)'
    BY DEF OwnerConsistent
  <2>. QED BY <1>t, <1>o DEF IInv, OwnerConsistent, OwnerOK, WorkerKnown, Shrink, RunShrinks, StepShrinks
<1>8. DeploymentsPassed'
  BY StatusFacts DEF IInv, DeploymentsPassed, Shrink, RunShrinks, StepShrinks
<1>9. LatestCovers'
  BY <1>o DEF IInv, LatestCovers, Shrink, RunShrinks, StepShrinks
<1>10. DeleteQuiesced'
  BY StatusFacts DEF IInv, DeleteQuiesced, Quiet, HasContainer, Unremoved, Shrink, RunShrinks, StepShrinks
<1>11. OneQueuedPerRef'
  BY StatusFacts DEF IInv, OneQueuedPerRef, QueuedOn, Shrink, RunShrinks, StepShrinks
<1>. QED BY <1>1, <1>2, <1>3, <1>4, <1>5, <1>6, <1>7, <1>8, <1>9, <1>10, <1>11 DEF IInv

\* The changes made to a run row by ending, expiring and cancelling.
LEMMA RowShrinks ==
  ASSUME NEW a \in Run
  PROVE  /\ RunShrinks(a, a)
         /\ RunShrinks(a, [a EXCEPT !.expired = TRUE])
         /\ RunShrinks(a, [a EXCEPT !.cancel = TRUE])
         /\ a.status = "queued" => RunShrinks(a, [a EXCEPT !.status = "cancelled"])
         /\ \A st \in Ended : a.status = "running" =>
               RunShrinks(a, [a EXCEPT !.status = st, !.token = FALSE])
<1>1. RunShrinks(a, a)
  BY DEF RunShrinks
<1>2. RunShrinks(a, [a EXCEPT !.expired = TRUE])
  BY DEF RunShrinks, Run
<1>3. RunShrinks(a, [a EXCEPT !.cancel = TRUE])
  BY DEF RunShrinks, Run
<1>4. a.status = "queued" => RunShrinks(a, [a EXCEPT !.status = "cancelled"])
  BY DEF RunShrinks, Run, Ended
<1>5. \A st \in Ended : a.status = "running" =>
         RunShrinks(a, [a EXCEPT !.status = st, !.token = FALSE])
  BY DEF RunShrinks, Run, Ended
<1>. QED BY <1>1, <1>2, <1>3, <1>4, <1>5

\* The changes made to a step row by settling, stopping and marking.
LEMMA StepRowShrinks ==
  ASSUME NEW s \in Step
  PROVE  /\ StepShrinks(s, s)
         /\ StepShrinks(s, RemoveMark(s))
         /\ StepShrinks(s, StopDeploy(s))
         /\ \A x, y \in {"failed", "cancelled", "skipped"} :
               /\ StepShrinks(s, SettleStep(s, x, y))
               /\ SettleStep(s, x, y).status \notin Open
               /\ StepShrinks(s, RemoveMark(StopDeploy(SettleStep(s, x, y))))
               /\ RemoveMark(StopDeploy(SettleStep(s, x, y))).status \notin Open
         /\ s.status # "running" =>
               /\ StepShrinks(s, SettleStep(s, "running", "cancelled"))
               /\ SettleStep(s, "running", "cancelled").status \notin Open
BY DEF StepShrinks, RemoveMark, StopDeploy, SettleStep, Step, Open

\* The transactions that only end, settle, mark or release.
LEMMA RunNextShrinks ==
  ASSUME IInv, NEW r \in Runs,
         \/ DeadlinePasses(r)
         \/ \E i \in Steps : ContainerRemoved(r, i)
         \/ AllRemoved(r)
         \/ ConfirmExecutionStopped(r)
         \/ \E status \in Ended : Finish(r, status)
         \/ Cancel(r)
  PROVE  Shrink
<1>. USE DEF IInv, TypeOK
<1>r. \A q \in Runs : runs[q] \in Run /\ RunShrinks(runs[q], runs[q])
  BY RowShrinks
<1>s. \A q \in Runs, j \in Steps : steps[q][j] \in Step /\ StepShrinks(steps[q][j], steps[q][j])
  BY StepRowShrinks
<1>1. CASE DeadlinePasses(r)
  BY <1>1, <1>r, <1>s, RowShrinks DEF DeadlinePasses, Shrink, Run
<1>2. CASE \E i \in Steps : ContainerRemoved(r, i)
  BY <1>2, <1>r, <1>s, StepRowShrinks DEF ContainerRemoved, SetStep, Shrink
<1>3. CASE AllRemoved(r)
  BY <1>3, <1>r, <1>s, StepRowShrinks DEF AllRemoved, Shrink
<1>4. CASE ConfirmExecutionStopped(r)
  <2>1. /\ steps' = [steps EXCEPT ![r] = [j \in Steps |-> StopDeploy(steps[r][j])]]
        /\ targets' = Released({r})
        /\ UNCHANGED <<runs, deployments, workers, counter, op>>
    BY <1>4 DEF ConfirmExecutionStopped
  <2>2. \A q \in Runs, j \in Steps : StepShrinks(steps[q][j], steps'[q][j])
    BY <2>1, <1>s, StepRowShrinks
  <2>3. \A t \in Targets :
       /\ targets'[t].gen = targets[t].gen /\ targets'[t].latest = targets[t].latest
       /\ targets'[t].owner \in {targets[t].owner, NoOwner}
    BY <2>1 DEF Released, Target
  <2>4. ASSUME NEW t \in Targets, NEW q \in Runs, NEW j \in Steps,
               targets[t].owner = <<q, j>>, targets'[t].owner # <<q, j>>
        PROVE  steps'[q][j].status \notin Open
    <3>1. q = r
      BY <2>1, <2>4 DEF Released
    <3>2. steps[r][j].kind = "deploy" /\ steps[r][j].status # "pending"
      BY <2>4, <3>1 DEF OwnerConsistent, OwnerOK, ReceiptShape
    <3>3. steps'[r][j] = StopDeploy(steps[r][j])
      BY <2>1
    <3>. QED BY <3>1, <3>2, <3>3, <1>s DEF StopDeploy, Step, Open
  <2>. QED BY <2>1, <2>2, <2>3, <2>4, <1>r DEF Shrink
<1>5. CASE \E status \in Ended : Finish(r, status)
  <2>1. PICK status \in Ended : Finish(r, status)
    BY <1>5
  <2>2. PICK x \in {"failed", "cancelled"}, y \in {"skipped", "cancelled"} :
          FinishRuns({r}, status, x, y)
    BY <2>1 DEF Finish
  <2>. QED BY <2>1, <2>2, <1>r, <1>s, RowShrinks, StepRowShrinks
           DEF Finish, MayFinish, FinishRuns, Settle, Shrink
<1>6. CASE Cancel(r)
  <2>0. UNCHANGED <<targets, deployments, workers, counter, op>>
    BY <1>6 DEF Cancel
  <2>1. CASE runs[r].status = "queued"
    <3>1. /\ runs' = [runs EXCEPT ![r] = [runs[r] EXCEPT !.status = "cancelled"]]
          /\ steps' = [steps EXCEPT ![r] = Settle(steps[r], "cancelled", "cancelled")]
      BY <1>6, <2>1 DEF Cancel
    <3>2. \A q \in Runs : RunShrinks(runs[q], runs'[q])
      BY <2>1, <3>1, <1>r, RowShrinks
    <3>3. \A j \in Steps : steps'[r][j].status \notin Open
      BY <3>1, <1>s, StepRowShrinks DEF Settle
    <3>4. \A q \in Runs, j \in Steps : StepShrinks(steps[q][j], steps'[q][j])
      BY <3>1, <1>s, StepRowShrinks DEF Settle
    <3>. QED BY <2>0, <3>1, <3>2, <3>3, <3>4 DEF Shrink
  <2>2. CASE runs[r].status = "running"
    <3>1. runs' = [runs EXCEPT ![r] = [runs[r] EXCEPT !.cancel = TRUE]] /\ steps' = steps
      BY <1>6, <2>2 DEF Cancel
    <3>2. \A q \in Runs : RunShrinks(runs[q], runs'[q])
      BY <3>1, <1>r, RowShrinks
    <3>3. \A q \in Runs : runs'[q].status = runs[q].status
      BY <3>1, <1>r DEF Run
    <3>. QED BY <2>0, <3>1, <3>2, <3>3, <1>s DEF Shrink
  <2>. QED BY <1>6, <2>1, <2>2 DEF Cancel
<1>. QED BY <1>1, <1>2, <1>3, <1>4, <1>5, <1>6

\* Registration, heartbeats and the release of a lost worker shrink.
LEMMA WorkerNextShrinks ==
  ASSUME IInv, NEW w \in Workers,
         \/ RegisterWorker(w)
         \/ Heartbeat(w)
         \/ StopWorker(w)
         \/ BeatAges(w)
         \/ \E only \in {Runs} \cup {{r} : r \in Runs} : ReleaseLostWorker(w, only)
  PROVE  Shrink
<1>. USE DEF IInv, TypeOK
<1>r. \A q \in Runs : runs[q] \in Run /\ RunShrinks(runs[q], runs[q])
  BY RowShrinks
<1>s. \A q \in Runs, j \in Steps : steps[q][j] \in Step /\ StepShrinks(steps[q][j], steps[q][j])
  BY StepRowShrinks
<1>1. CASE RegisterWorker(w) \/ Heartbeat(w) \/ StopWorker(w) \/ BeatAges(w)
  <2>1. \A v \in Workers : workers[v].row # "absent" => workers'[v].row # "absent"
    BY <1>1 DEF RegisterWorker, Heartbeat, StopWorker, BeatAges, SetWorker, Worker
  <2>2. UNCHANGED <<runs, steps, targets, deployments, counter, op>>
    BY <1>1 DEF RegisterWorker, Heartbeat, StopWorker, BeatAges, SetWorker
  <2>. QED BY <2>1, <2>2, <1>r, <1>s DEF Shrink
<1>2. CASE \E only \in {Runs} \cup {{r} : r \in Runs} : ReleaseLostWorker(w, only)
  <2>x. PICK only : ReleaseLostWorker(w, only)
    BY <1>2
  <2> DEFINE own == {r \in only : runs[r].worker = w}
             listed == {r \in own : runs[r].status = "running" \/ HasContainer(r)}
             failed == {r \in listed : runs[r].status = "running"}
  <2>y. /\ runs' = [r \in Runs |->
             IF r \in failed THEN [runs[r] EXCEPT !.status = "failed", !.token = FALSE]
             ELSE runs[r]]
        /\ steps' = [r \in Runs |-> [i \in Steps |->
             IF r \in failed
             THEN RemoveMark(StopDeploy(SettleStep(steps[r][i], "failed", "skipped")))
             ELSE IF r \in listed THEN RemoveMark(steps[r][i]) ELSE steps[r][i]]]
        /\ targets' = Released(own)
        /\ workers' = [workers EXCEPT ![w].row = "stopped"]
        /\ UNCHANGED <<deployments, counter, maintenance, op>>
    BY <2>x DEF ReleaseLostWorker
  <2>z. \A r \in failed : runs[r].status = "running"
    OBVIOUS
  <2> HIDE DEF own, listed, failed
  <2>1. \A q \in Runs :
       /\ RunShrinks(runs[q], runs'[q])
       /\ runs'[q].status # runs[q].status =>
            \A j \in Steps : steps'[q][j].status \notin Open
    BY <2>y, <2>z, <1>r, <1>s, RowShrinks, StepRowShrinks DEF Ended
  <2>2. \A q \in Runs, j \in Steps : StepShrinks(steps[q][j], steps'[q][j])
    BY <2>y, <1>s, StepRowShrinks
  <2>3. \A t \in Targets :
       /\ targets'[t].gen = targets[t].gen /\ targets'[t].latest = targets[t].latest
       /\ targets'[t].owner \in {targets[t].owner, NoOwner}
    BY <2>y DEF Released, Target
  <2>5. ASSUME NEW t \in Targets, NEW q \in Runs, NEW j \in Steps,
               targets[t].owner = <<q, j>>, targets'[t].owner # <<q, j>>
        PROVE  steps'[q][j].status \notin Open
    <3>1. q \in own
      <4>1. targets'[t] = IF targets[t].owner[1] \in own
                          THEN [targets[t] EXCEPT !.owner = NoOwner] ELSE targets[t]
        BY <2>y DEF Released
      <4>2. targets[t].owner[1] = q
        BY <2>5
      <4>3. q \notin own => targets'[t].owner = targets[t].owner
        BY <4>1, <4>2, Zenon
      <4>. QED BY <4>3, <2>5
    <3>2. runs[q].status \in Ended \cup {"running"}
      BY <2>5 DEF OwnerConsistent, OwnerOK, StartedClaimed
    <3>3. CASE runs[q].status = "running"
      <4>1. q \in failed
        BY <3>1, <3>3 DEF failed, listed
      <4>2. steps'[q][j] = RemoveMark(StopDeploy(SettleStep(steps[q][j], "failed", "skipped")))
        BY <2>y, <4>1
      <4>. QED BY <4>2, <1>s, StepRowShrinks
    <3>4. CASE runs[q].status \in Ended
      <4>1. steps[q][j].status \notin Open
        BY <3>4 DEF EndedSettled
      <4>. QED BY <4>1, <2>2 DEF StepShrinks
    <3>. QED BY <3>2, <3>3, <3>4
  <2>4. \A v \in Workers : workers[v].row # "absent" => workers'[v].row # "absent"
    BY <2>y DEF Worker
  <2>. QED BY <2>1, <2>2, <2>3, <2>4, <2>5, <2>y DEF Shrink
<1>. QED BY <1>1, <1>2

\* A ref deletion, the reaper and the end of an operation shrink.
LEMMA RepoNextShrinks ==
  ASSUME IInv,
         \/ \E f \in Refs : PushDeletesRef(f)
         \/ \E S \in SUBSET Runs : FailLostRuns(S)
         \/ EndOperation
         \/ SetMaintenance(~maintenance)
  PROVE  Shrink
<1>. USE DEF IInv, TypeOK
<1>r. \A q \in Runs : runs[q] \in Run /\ RunShrinks(runs[q], runs[q])
  BY RowShrinks
<1>s. \A q \in Runs, j \in Steps : steps[q][j] \in Step /\ StepShrinks(steps[q][j], steps[q][j])
  BY StepRowShrinks
<1>q. \A q \in Runs : runs[q].status = "queued" => \A j \in Steps : steps[q][j].status # "running"
  BY DEF StartedClaimed, Ended
<1>1. ASSUME NEW f \in Refs, PushDeletesRef(f) PROVE Shrink
  <2>1. \A q \in Runs :
       /\ RunShrinks(runs[q], runs'[q])
       /\ runs'[q].status # runs[q].status =>
            \A j \in Steps : steps'[q][j].status \notin Open
    BY <1>1, <1>r, <1>s, <1>q, RowShrinks, StepRowShrinks
       DEF PushDeletesRef, Superseded, QueuedOn, Supersede, Settle
  <2>2. \A q \in Runs, j \in Steps : StepShrinks(steps[q][j], steps'[q][j])
    BY <1>1, <1>s, <1>q, StepRowShrinks DEF PushDeletesRef, Superseded, QueuedOn, Supersede, Settle
  <2>. QED BY <1>1, <2>1, <2>2 DEF PushDeletesRef, Shrink
<1>2. ASSUME NEW S \in SUBSET Runs, FailLostRuns(S) PROVE Shrink
  <2>1. \A q \in Runs :
       /\ RunShrinks(runs[q], runs'[q])
       /\ runs'[q].status # runs[q].status =>
            \A j \in Steps : steps'[q][j].status \notin Open
    BY <1>2, <1>r, <1>s, RowShrinks, StepRowShrinks
       DEF FailLostRuns, LostRuns, FinishRuns, Settle, Ended
  <2>2. \A q \in Runs, j \in Steps : StepShrinks(steps[q][j], steps'[q][j])
    BY <1>2, <1>s, StepRowShrinks DEF FailLostRuns, FinishRuns, Settle
  <2>. QED BY <1>2, <2>1, <2>2 DEF FailLostRuns, Shrink
<1>3. CASE EndOperation \/ SetMaintenance(~maintenance)
  BY <1>3, <1>r, <1>s DEF EndOperation, SetMaintenance, Shrink
<1>. QED BY <1>1, <1>2, <1>3

\* A run that proceeds records more about its steps.
StepGrows(a, b) ==
  /\ a.kind = b.kind /\ a.code = b.code /\ a.gen = b.gen
  /\ a.removed => b.removed
  /\ \/ a.status = b.status
     \/ a.status = "pending" /\ b.status = "running"

\* What StepStarted, PlanContainer and ContainerCreated have in common.
Grow(r) ==
  /\ runs[r].status = "running"
  /\ \A q \in Runs, j \in Steps :
       /\ StepGrows(steps[q][j], steps'[q][j])
       /\ q # r => steps'[q][j] = steps[q][j]
  /\ UNCHANGED <<runs, targets, deployments, workers, counter, op>>

\* Moving a running run on keeps the invariant.
LEMMA GrowKeeps ==
  ASSUME IInv, TypeOK', NEW r \in Runs, Grow(r)
  PROVE  IInv'
<1>1. Unborn'
  BY DEF IInv, Unborn, Grow
<1>2. EndedSettled'
  BY StatusFacts DEF IInv, EndedSettled, Grow
<1>3. RunningAccounted'
  BY DEF IInv, RunningAccounted, WorkerKnown, Grow
<1>4. ReceiptShape'
  BY DEF IInv, ReceiptShape, Grow, StepGrows, Ended
<1>5. StartedClaimed'
  BY DEF IInv, StartedClaimed, Grow
<1>6. ContainersRecoverable'
  BY DEF IInv, ContainersRecoverable, RunningAccounted, WorkerKnown, HasContainer, Unremoved, Grow
<1>7. OwnerConsistent'
  BY DEF IInv, OwnerConsistent, OwnerOK, WorkerKnown, Grow, StepGrows
<1>8. DeploymentsPassed'
  BY DEF IInv, DeploymentsPassed, Grow, StepGrows
<1>9. LatestCovers'
  BY DEF IInv, LatestCovers, Grow
<1>10. DeleteQuiesced'
  BY DEF IInv, DeleteQuiesced, Quiet, Grow
<1>11. OneQueuedPerRef'
  BY DEF IInv, OneQueuedPerRef, QueuedOn, Grow
<1>. QED BY <1>1, <1>2, <1>3, <1>4, <1>5, <1>6, <1>7, <1>8, <1>9, <1>10, <1>11 DEF IInv

\* The three calls move a running run on.
LEMMA StepNextGrows ==
  ASSUME IInv, NEW r \in Runs, NEW i \in Steps,
         StepStarted(r, i) \/ PlanContainer(r, i) \/ ContainerCreated(r, i)
  PROVE  Grow(r)
<1>1. \A q \in Runs, j \in Steps : steps[q][j] \in Step
  BY DEF IInv, TypeOK
<1>2. PICK s \in {[steps[r][i] EXCEPT !.status = "running"], [steps[r][i] EXCEPT !.planned = TRUE],
                  [steps[r][i] EXCEPT !.created = TRUE]} :
        SetStep(r, i, s) /\ StepGrows(steps[r][i], s)
  BY <1>1 DEF StepStarted, MayStart, PlanContainer, ContainerCreated, StepGrows, Step
<1>3. runs[r].status = "running"
  BY DEF StepStarted, MayStart, PlanContainer, MayPlan, ContainerCreated, MayCreate, Proceeds
<1>4. \A q \in Runs, j \in Steps : StepGrows(steps[q][j], steps[q][j])
  BY DEF StepGrows
<1>. QED BY <1>1, <1>2, <1>3, <1>4 DEF SetStep, Grow, IInv, TypeOK

\* ClaimNext keeps the invariant.
LEMMA ClaimKeeps ==
  ASSUME IInv, TypeOK', NEW w \in Workers, NEW r \in Runs, ClaimNext(w, r)
  PROVE  IInv'
<1>1. \A q \in Runs : q # r => runs'[q] = runs[q]
  BY DEF ClaimNext, IInv, TypeOK
<1>2. /\ runs'[r].status = "running" /\ runs'[r].worker = w /\ runs'[r].token
      /\ runs'[r].ref = runs[r].ref /\ runs'[r].trigger = runs[r].trigger
      /\ runs'[r].target = runs[r].target
  BY DEF ClaimNext, IInv, TypeOK, Run
<1>3. /\ runs[r].status = "queued" /\ op = "none" /\ workers[w].row # "absent" /\ w # NoWorker
      /\ UNCHANGED <<steps, targets, deployments, workers, counter, op>>
  BY ConstantsOK DEF ClaimNext, Claimable
<1>4. Unborn'
  BY <1>1, <1>2, <1>3 DEF IInv, Unborn
<1>5. EndedSettled'
  BY <1>1, <1>2, <1>3, StatusFacts DEF IInv, EndedSettled
<1>6. RunningAccounted'
  BY <1>1, <1>2, <1>3 DEF IInv, RunningAccounted, WorkerKnown
<1>7. ReceiptShape'
  BY <1>3 DEF IInv, ReceiptShape
<1>8. StartedClaimed'
  BY <1>1, <1>2, <1>3 DEF IInv, StartedClaimed
<1>9. ContainersRecoverable'
  BY <1>1, <1>2, <1>3 DEF IInv, ContainersRecoverable, WorkerKnown, HasContainer, Unremoved
<1>10. OwnerConsistent'
  BY <1>1, <1>2, <1>3 DEF IInv, OwnerConsistent, OwnerOK, WorkerKnown
<1>11. DeploymentsPassed'
  BY <1>1, <1>2, <1>3 DEF IInv, DeploymentsPassed
<1>12. LatestCovers'
  BY <1>1, <1>2, <1>3 DEF IInv, LatestCovers
<1>13. DeleteQuiesced'
  BY <1>3 DEF DeleteQuiesced
<1>14. OneQueuedPerRef'
  BY <1>1, <1>2, <1>3 DEF IInv, OneQueuedPerRef, QueuedOn
<1>. QED BY <1>4, <1>5, <1>6, <1>7, <1>8, <1>9, <1>10, <1>11, <1>12, <1>13, <1>14 DEF IInv

\* BeginDeployment keeps the invariant: the generation it writes is above 0
\* and the same in both rows.
LEMMA BeginKeeps ==
  ASSUME IInv, TypeOK', NEW r \in Runs, NEW i \in Steps, BeginDeployment(r, i)
  PROVE  IInv'
<1> DEFINE t == runs[r].target
           g == IF targets[t].owner = NoOwner THEN targets[t].gen + 1 ELSE targets[t].gen
<1>1. /\ runs[r].status = "running" /\ t \in Targets
      /\ steps[r][i].status = "running" /\ steps[r][i].kind = "deploy"
      /\ runs[r].trigger = "push" => ~(r < targets[t].latest)
      /\ targets[t].owner \in {NoOwner, <<r, i>>}
      /\ UNCHANGED <<runs, deployments, workers, counter, op>>
  BY DEF BeginDeployment, BeginAnswer, Proceeds, IInv, TypeOK, Run
<1>2. g \in Nat /\ g # NoGen
  <2>1. CASE targets[t].owner = NoOwner
    BY <1>1, <2>1 DEF IInv, TypeOK, Target, NoGen
  <2>2. CASE targets[t].owner # NoOwner
    <3>1. targets[t].owner = <<r, i>>
      BY <1>1, <2>2, Zenon
    <3>2. OwnerOK(t, r, i)
      BY <1>1, <3>1 DEF IInv, OwnerConsistent
    <3>. QED BY <1>1, <2>2, <3>2 DEF IInv, TypeOK, Target, OwnerOK
  <2>. QED BY <2>1, <2>2
<1>3. /\ targets' = [targets EXCEPT ![t].owner = <<r, i>>, ![t].gen = g]
      /\ steps' = [steps EXCEPT ![r][i].gen = g]
  BY DEF BeginDeployment
<1> HIDE DEF g
<1>4. /\ \A u \in Targets : targets'[u].latest = targets[u].latest
      /\ \A u \in Targets : u # t => targets'[u] = targets[u]
      /\ targets'[t].owner = <<r, i>> /\ targets'[t].gen = g
  BY <1>1, <1>3 DEF IInv, TypeOK, Target
<1>5. /\ \A q \in Runs, j \in Steps : <<q, j>> # <<r, i>> => steps'[q][j] = steps[q][j]
      /\ steps'[r][i].gen = g /\ steps'[r][i].kind = "deploy" /\ steps'[r][i].status = "running"
      /\ steps'[r][i].code = steps[r][i].code
      /\ steps'[r][i].planned = steps[r][i].planned /\ steps'[r][i].removed = steps[r][i].removed
  BY <1>1, <1>3 DEF IInv, TypeOK, Step
<1>6. steps[r][i].code = NoCode /\ WorkerKnown(r)
  BY <1>1 DEF IInv, ReceiptShape, RunningAccounted, Ended
<1>7. Unborn'
  BY <1>1, <1>5 DEF IInv, Unborn
<1>8. EndedSettled'
  BY <1>1, <1>5, StatusFacts DEF IInv, EndedSettled
<1>9. RunningAccounted'
  BY <1>1 DEF IInv, RunningAccounted, WorkerKnown
<1>10. ReceiptShape'
  BY <1>1, <1>5, <1>6 DEF IInv, ReceiptShape
<1>11. StartedClaimed'
  BY <1>1, <1>5 DEF IInv, StartedClaimed
<1>12. ContainersRecoverable'
  BY <1>1, <1>5, <1>6 DEF IInv, ContainersRecoverable, WorkerKnown, HasContainer, Unremoved
<1>13. OwnerConsistent'
  <2> SUFFICES ASSUME NEW u \in Targets, NEW q \in Runs, NEW j \in Steps,
                      targets'[u].owner = <<q, j>>
               PROVE  OwnerOK(u, q, j)'
    BY DEF OwnerConsistent
  <2>1. CASE u = t
    <3>1. q = r /\ j = i
      BY <2>1, <1>4
    <3>. QED BY <2>1, <3>1, <1>1, <1>2, <1>4, <1>5, <1>6 DEF OwnerOK, WorkerKnown
  <2>2. CASE u # t
    <3>1. OwnerOK(u, q, j) /\ runs[q].target = u
      BY <2>2, <1>4 DEF IInv, OwnerConsistent, OwnerOK
    <3>2. <<q, j>> # <<r, i>>
      BY <2>2, <3>1
    <3>. QED BY <2>2, <3>1, <3>2, <1>1, <1>4, <1>5 DEF OwnerOK, WorkerKnown
  <2>. QED BY <2>1, <2>2
<1>14. DeploymentsPassed'
  BY <1>1, <1>5 DEF IInv, DeploymentsPassed
<1>15. LatestCovers'
  <2>1. \A u \in Targets, q \in Runs, j \in Steps :
           <<u, q, j>> \in deployments' => q <= targets'[u].latest
    <3>1. \A u \in Targets, q \in Runs, j \in Steps :
             <<u, q, j>> \in deployments => q <= targets[u].latest
      BY DEF IInv, LatestCovers
    <3>. QED BY <1>1, <1>4, <3>1
  <2>2. ASSUME NEW u \in Targets, NEW q \in Runs, NEW j \in Steps,
               targets'[u].owner = <<q, j>>, runs'[q].trigger = "push"
        PROVE  targets'[u].latest <= q
    <3>1. CASE u = t
      <4>1. q = r
        BY <3>1, <2>2, <1>4
      <4>. QED BY <3>1, <4>1, <2>2, <1>1, <1>4 DEF IInv, TypeOK, Target, Runs
    <3>2. CASE u # t
      BY <3>2, <2>2, <1>1, <1>4 DEF IInv, LatestCovers
    <3>. QED BY <3>1, <3>2
  <2>. QED BY <2>1, <2>2 DEF LatestCovers
<1>16. DeleteQuiesced'
  BY <1>1 DEF IInv, DeleteQuiesced, Quiet
<1>17. OneQueuedPerRef'
  BY <1>1 DEF IInv, OneQueuedPerRef, QueuedOn
<1>. QED BY <1>7, <1>8, <1>9, <1>10, <1>11, <1>12, <1>13, <1>14, <1>15, <1>16, <1>17 DEF IInv

\* A receipt keeps the invariant: the deployment, the step and the release
\* of the target are one transaction.
LEMMA ReceiptKeeps ==
  ASSUME IInv, TypeOK', NEW r \in Runs, NEW i \in Steps,
         NEW status \in StepStatus, NEW code \in Codes, NEW rec \in BOOLEAN,
         status \notin Open, status # "none",
         status = "passed" => code = 0,
         code # NoCode => status \in Ended,
         Receipt(r, i, status, code, rec)
  PROVE  IInv'
<1> DEFINE shipped == steps[r][i].kind = "deploy" /\ status = "passed"
           t == runs[r].target
<1>z. Shipped(r, i, status) <=> shipped
  BY DEF Shipped
<1>0. UNCHANGED <<runs, workers, counter, op>>
  BY DEF Receipt
<1>1. /\ steps[r][i].status # "none" /\ runs[r].status \notin {"absent", "pruned"}
      /\ steps[r][i].status \in Open \/ steps[r][i].code = NoCode
      /\ steps[r][i].status # "passed"
  BY StatusFacts DEF Receipt, ReceiptKept, IInv, Unborn, ReceiptShape, NoCode
<1>2. shipped => t \in Targets /\ Owns(t, r, i) /\ steps[r][i].gen # NoGen
  BY <1>z DEF Receipt, DeployProven, IInv, TypeOK, Run
<1>3. deployments' = IF shipped THEN deployments \cup {<<t, r, i>>} ELSE deployments
  BY <1>z DEF Receipt
<1>4. /\ \A q \in Runs, j \in Steps : <<q, j>> # <<r, i>> => steps'[q][j] = steps[q][j]
      /\ steps'[r][i].status = status /\ steps'[r][i].code = code
      /\ steps'[r][i].kind = steps[r][i].kind /\ steps'[r][i].gen = steps[r][i].gen
      /\ steps'[r][i].planned = steps[r][i].planned /\ steps'[r][i].created = steps[r][i].created
      /\ steps'[r][i].removed = steps[r][i].removed
  BY DEF Receipt, IInv, TypeOK, Step
<1>5. \A u \in Targets :
         /\ targets'[u].gen = targets[u].gen
         /\ targets'[u].latest = IF shipped /\ u = t
                                 THEN Raised(targets[u].latest, r) ELSE targets[u].latest
         /\ targets'[u].owner = IF /\ steps[r][i].kind = "deploy"
                                   /\ steps[r][i].gen # NoGen /\ Owns(u, r, i)
                                THEN NoOwner ELSE targets[u].owner
  BY <1>z DEF Receipt, Freed
<1>6. \A u \in Targets : targets'[u].owner # <<r, i>>
  <2> SUFFICES ASSUME NEW u \in Targets, targets'[u].owner = <<r, i>> PROVE FALSE
    OBVIOUS
  <2>1. targets[u].owner = <<r, i>>
    BY <1>5, NoOwnerIsNone
  <2>2. OwnerOK(u, r, i)
    BY <2>1 DEF IInv, OwnerConsistent
  <2>3. Owns(u, r, i) /\ steps[r][i].kind = "deploy" /\ steps[r][i].gen # NoGen
    BY <2>1, <2>2 DEF OwnerOK, Owns
  <2>4. targets'[u].owner = NoOwner
    BY <2>3, <1>5
  <2>. QED BY <2>4, NoOwnerIsNone
<1>7. ASSUME NEW u \in Targets, NEW q \in Runs, NEW j \in Steps, targets'[u].owner = <<q, j>>
      PROVE  targets[u].owner = <<q, j>> /\ <<q, j>> # <<r, i>>
  BY <1>5, <1>6, <1>7, NoOwnerIsNone
<1> HIDE DEF shipped
<1>8. Unborn'
  BY <1>0, <1>1, <1>4 DEF IInv, Unborn
<1>9. EndedSettled'
  BY <1>0, <1>4 DEF IInv, EndedSettled
<1>10. RunningAccounted'
  BY <1>0 DEF IInv, RunningAccounted, WorkerKnown
<1>11. ReceiptShape'
  BY <1>4, StatusFacts DEF IInv, ReceiptShape
<1>12. StartedClaimed'
  BY <1>0, <1>4, StatusFacts DEF IInv, StartedClaimed
<1>13. ContainersRecoverable'
  BY <1>0, <1>4 DEF IInv, ContainersRecoverable, WorkerKnown, HasContainer, Unremoved
<1>14. OwnerConsistent'
  BY <1>0, <1>4, <1>5, <1>7 DEF IInv, OwnerConsistent, OwnerOK, WorkerKnown
<1>15. DeploymentsPassed'
  <2> SUFFICES ASSUME NEW q \in Runs, NEW j \in Steps
               PROVE  /\ steps'[q][j].kind = "deploy" /\ steps'[q][j].status = "passed" =>
                           \E p \in Runs, k \in Steps : <<runs[q].target, p, k>> \in deployments'
                      /\ \A u \in Targets : <<u, q, j>> \in deployments' =>
                           \/ runs[q].status = "pruned"
                           \/ steps'[q][j].kind = "deploy" /\ steps'[q][j].status = "passed"
    BY <1>0 DEF DeploymentsPassed
  <2>1. CASE <<q, j>> # <<r, i>>
    <3>1. deployments \subseteq deployments'
      BY <1>3
    <3>2. steps'[q][j] = steps[q][j]
      BY <2>1, <1>4
    <3>3. \A u \in Targets : <<u, q, j>> \in deployments' => <<u, q, j>> \in deployments
      BY <2>1, <1>3
    <3>. QED BY <3>1, <3>2, <3>3 DEF IInv, DeploymentsPassed
  <2>2. CASE q = r /\ j = i
    BY <2>2, <1>1, <1>3, <1>4 DEF IInv, DeploymentsPassed, shipped
  <2>. QED BY <2>1, <2>2
<1>16. LatestCovers'
  <2>1. ASSUME NEW u \in Targets, NEW q \in Runs, NEW j \in Steps, <<u, q, j>> \in deployments'
        PROVE  q <= targets'[u].latest
    <3>1. u \in Targets /\ targets[u].latest \in Nat /\ q \in Nat /\ r \in Nat
      BY DEF IInv, TypeOK, Target, Runs
    <3>2. CASE <<u, q, j>> \in deployments
      <4>1. q <= targets[u].latest
        BY <3>2 DEF IInv, LatestCovers
      <4>. QED BY <3>1, <4>1, <1>5 DEF Raised
    <3>3. CASE <<u, q, j>> \notin deployments
      <4>1. shipped /\ u = t /\ q = r
        BY <2>1, <3>3, <1>3
      <4>. QED BY <3>1, <4>1, <1>5 DEF Raised
    <3>. QED BY <3>2, <3>3
  <2>2. ASSUME NEW u \in Targets, NEW q \in Runs, NEW j \in Steps,
               targets'[u].owner = <<q, j>>, runs'[q].trigger = "push"
        PROVE  targets'[u].latest <= q
    <3>1. targets[u].owner = <<q, j>> /\ <<q, j>> # <<r, i>>
      BY <2>2, <1>7
    <3>2. ~(shipped /\ u = t)
      BY <3>1, <1>2 DEF Owns
    <3>3. targets[u].latest <= q
      BY <2>2, <3>1, <1>0 DEF IInv, LatestCovers
    <3>. QED BY <3>2, <3>3, <1>5
  <2>. QED BY <2>1, <2>2 DEF LatestCovers
<1>17. DeleteQuiesced'
  <2>1. \A u \in Targets : targets[u].owner = NoOwner => targets'[u].owner = NoOwner
    BY <1>5
  <2>. QED BY <2>1, <1>0, <1>4 DEF IInv, DeleteQuiesced, Quiet, HasContainer, Unremoved
<1>18. OneQueuedPerRef'
  BY <1>0 DEF IInv, OneQueuedPerRef, QueuedOn
<1>. QED BY <1>8, <1>9, <1>10, <1>11, <1>12, <1>13, <1>14, <1>15, <1>16, <1>17, <1>18 DEF IInv

\* Retention of deployments keeps the invariant: the target keeps one.
LEMMA PruneDeploymentKeeps ==
  ASSUME IInv, TypeOK', NEW d \in deployments, PruneDeployment(d)
  PROVE  IInv'
<1>1. /\ deployments' = deployments \ {d}
      /\ UNCHANGED <<runs, steps, targets, workers, counter, maintenance, op>>
  BY DEF PruneDeployment
<1>2. PICK e \in deployments : e # d /\ e[1] = d[1]
  BY DEF PruneDeployment
<1>3. PICK u \in Targets, p \in Runs, k \in Steps : e = <<u, p, k>>
  BY <1>2 DEF IInv, TypeOK
<1>4. \A v, q, j : <<v, q, j>> \in deployments =>
         <<v, q, j>> \in deployments' \/ <<v, p, k>> \in deployments'
  BY <1>1, <1>2, <1>3
<1>5. DeploymentsPassed'
  BY <1>1, <1>4 DEF IInv, DeploymentsPassed
<1>6. LatestCovers'
  BY <1>1 DEF IInv, LatestCovers
<1>. QED BY <1>1, <1>5, <1>6
     DEF IInv, Unborn, EndedSettled, RunningAccounted, WorkerKnown, ReceiptShape, StartedClaimed,
         ContainersRecoverable, HasContainer, OwnerConsistent, OwnerOK, DeleteQuiesced, Quiet,
         OneQueuedPerRef, QueuedOn

\* Retention of runs keeps the invariant.
LEMMA PruneRunKeeps ==
  ASSUME IInv, TypeOK', NEW r \in Runs, PruneRun(r)
  PROVE  IInv'
<1>1. /\ \A q \in Runs : q # r => runs'[q] = runs[q] /\ steps'[q] = steps[q]
      /\ runs'[r].status = "pruned" /\ runs'[r].token = FALSE
      /\ \A j \in Steps : /\ steps'[r][j].status = "none" /\ steps'[r][j].kind = "none"
                          /\ steps'[r][j].code = NoCode /\ steps'[r][j].gen = NoGen
                          /\ ~steps'[r][j].planned /\ ~steps'[r][j].created
      /\ UNCHANGED <<targets, deployments, workers, counter, op>>
  BY DEF PruneRun, IInv, TypeOK, AbsentRun, NoSteps, StepRow
<1>2. \A u \in Targets, j \in Steps : targets[u].owner # <<r, j>>
  BY DEF PruneRun, Owned
<1>3. runs[r].status \in Ended
  BY DEF PruneRun
<1>4. Unborn'
  BY <1>1, <1>3, StatusFacts DEF IInv, Unborn
<1>5. EndedSettled'
  BY <1>1, StatusFacts DEF IInv, EndedSettled
<1>6. RunningAccounted'
  BY <1>1 DEF IInv, RunningAccounted, WorkerKnown
<1>7. ReceiptShape'
  BY <1>1 DEF IInv, ReceiptShape
<1>8. StartedClaimed'
  BY <1>1 DEF IInv, StartedClaimed
<1>9. ContainersRecoverable'
  BY <1>1 DEF IInv, ContainersRecoverable, WorkerKnown, HasContainer, Unremoved
<1>10. OwnerConsistent'
  BY <1>1, <1>2 DEF IInv, OwnerConsistent, OwnerOK, WorkerKnown
<1>11. DeploymentsPassed'
  BY <1>1 DEF IInv, DeploymentsPassed
<1>12. LatestCovers'
  BY <1>1, <1>2 DEF IInv, LatestCovers
<1>13. DeleteQuiesced'
  BY <1>1 DEF IInv, DeleteQuiesced, Quiet, HasContainer, Unremoved
<1>14. OneQueuedPerRef'
  BY <1>1 DEF IInv, OneQueuedPerRef, QueuedOn
<1>. QED BY <1>4, <1>5, <1>6, <1>7, <1>8, <1>9, <1>10, <1>11, <1>12, <1>13, <1>14 DEF IInv

\* Retention of workers keeps the invariant.
LEMMA PruneWorkerKeeps ==
  ASSUME IInv, TypeOK', NEW w \in Workers, PruneWorker(w)
  PROVE  IInv'
<1>1. /\ \A q \in Runs :
            /\ runs'[q].status = runs[q].status /\ runs'[q].ref = runs[q].ref
            /\ runs'[q].trigger = runs[q].trigger /\ runs'[q].target = runs[q].target
            /\ runs'[q].token = runs[q].token
            /\ runs[q].worker # w => runs'[q].worker = runs[q].worker
      /\ \A v \in Workers : v # w => workers'[v] = workers[v]
      /\ UNCHANGED <<steps, targets, deployments, counter, op>>
  BY DEF PruneWorker, IInv, TypeOK, Run
<1>2. \A q \in Runs : runs[q].worker = w => runs[q].status # "running" /\ ~HasContainer(q)
  BY DEF PruneWorker, Unused
<1>3. \A q \in Runs, j \in Steps, u \in Targets :
         runs[q].worker = w => targets[u].owner # <<q, j>>
  BY DEF PruneWorker, Unused, Owned
<1>4. \A q \in Runs : runs[q].worker # w /\ WorkerKnown(q) => WorkerKnown(q)'
  BY <1>1 DEF WorkerKnown, IInv, TypeOK, Run
<1>5. Unborn' /\ EndedSettled'
  BY <1>1 DEF IInv, Unborn, EndedSettled
<1>6. RunningAccounted'
  BY <1>1, <1>2, <1>4 DEF IInv, RunningAccounted
<1>7. ReceiptShape' /\ StartedClaimed'
  BY <1>1 DEF IInv, ReceiptShape, StartedClaimed
<1>8. ContainersRecoverable'
  BY <1>1, <1>2, <1>4 DEF IInv, ContainersRecoverable, HasContainer
<1>9. OwnerConsistent'
  BY <1>1, <1>3, <1>4 DEF IInv, OwnerConsistent, OwnerOK
<1>10. DeploymentsPassed'
  BY <1>1 DEF IInv, DeploymentsPassed
<1>11. LatestCovers'
  BY <1>1 DEF IInv, LatestCovers
<1>12. DeleteQuiesced'
  BY <1>1 DEF IInv, DeleteQuiesced, Quiet, HasContainer
<1>13. OneQueuedPerRef'
  BY <1>1 DEF IInv, OneQueuedPerRef, QueuedOn
<1>. QED BY <1>5, <1>6, <1>7, <1>8, <1>9, <1>10, <1>11, <1>12, <1>13 DEF IInv

\* CreateTx keeps the invariant.
LEMMA CreateKeeps ==
  ASSUME IInv, TypeOK', NEW f \in Refs, NEW tr \in {"push", "manual"}, NEW p \in Plans,
         op \in {"none", "push"}, op' = "none", CreateTx(f, tr, p)
  PROVE  IInv'
<1> DEFINE r == counter + 1
<1>0. /\ r \in Runs /\ counter' = r /\ counter \in Int
      /\ UNCHANGED <<targets, deployments, workers>>
  BY ConstantsOK DEF CreateTx, IInv, TypeOK, Runs
<1>1. \A q \in Runs : q > r => q > counter /\ q # r
  BY <1>0 DEF Runs
<1>2. runs[r].status = "absent" /\ \A j \in Steps : steps[r][j].status = "none" /\ steps[r][j].kind = "none"
  BY <1>0 DEF IInv, Unborn
<1>3. \A q \in QueuedOn(f) : /\ q \in Runs /\ runs[q].status = "queued" /\ q # r
                             /\ \A j \in Steps : steps[q][j].status # "running"
  BY <1>2 DEF QueuedOn, IInv, StartedClaimed, Ended
<1>s. Superseded(f, r) = QueuedOn(f)
  <2>1. \A q \in QueuedOn(f) : q \in Int /\ ~(q > counter)
    BY <1>3 DEF IInv, Unborn, Runs
  <2>. QED BY <2>1, <1>0 DEF Superseded
<1>4. \A q \in Runs : q # r =>
         runs'[q] = IF q \in QueuedOn(f) THEN [runs[q] EXCEPT !.status = "cancelled"] ELSE runs[q]
  BY <1>s DEF CreateTx
<1>5. \A q \in Runs : q # r =>
         steps'[q] = IF q \in QueuedOn(f) THEN Supersede(steps[q]) ELSE steps[q]
  BY <1>s DEF CreateTx
<1>6. \A q \in Runs : q # r => RunShrinks(runs[q], runs'[q])
  BY <1>3, <1>4, RowShrinks DEF IInv, TypeOK
<1>7. \A q \in Runs : q # r => \A j \in Steps : StepShrinks(steps[q][j], steps'[q][j])
  <2> SUFFICES ASSUME NEW q \in Runs, q # r, NEW j \in Steps
               PROVE  StepShrinks(steps[q][j], steps'[q][j])
    OBVIOUS
  <2>1. steps[q][j] \in Step
    BY DEF IInv, TypeOK
  <2>2. CASE q \in QueuedOn(f)
    <3>1. steps'[q][j] = SettleStep(steps[q][j], "running", "cancelled")
      BY <1>5, <2>2 DEF Supersede, Settle
    <3>. QED BY <1>3, <2>1, <2>2, <3>1, StepRowShrinks
  <2>3. CASE q \notin QueuedOn(f)
    BY <1>5, <2>1, <2>3, StepRowShrinks
  <2>. QED BY <2>2, <2>3
<1>8. \A q \in Runs : q # r /\ runs'[q].status # runs[q].status =>
         \A j \in Steps : steps'[q][j].status \notin Open
  <2> SUFFICES ASSUME NEW q \in Runs, q # r, runs'[q].status # runs[q].status, NEW j \in Steps
               PROVE  steps'[q][j].status \notin Open
    OBVIOUS
  <2>1. steps[q][j] \in Step
    BY DEF IInv, TypeOK
  <2>2. q \in QueuedOn(f)
    BY <1>4
  <2>3. steps'[q][j] = SettleStep(steps[q][j], "running", "cancelled")
    BY <1>5, <2>2 DEF Supersede, Settle
  <2>. QED BY <1>3, <2>1, <2>2, <2>3, StepRowShrinks
<1>9. /\ runs'[r].status \in {"queued", "passed", "failed"} /\ runs'[r].ref = f
      /\ runs'[r].token = FALSE /\ runs'[r].status = CreateStatus(p)
  BY <1>0, CreateRows DEF CreateTx, AbsentRun
<1>10. \A j \in Steps :
         /\ steps'[r][j].status \in {"none", "pending", "skipped"}
         /\ steps'[r][j].status = "pending" => CreateStatus(p) = "queued"
         /\ steps'[r][j].code = NoCode /\ steps'[r][j].gen = NoGen
         /\ ~steps'[r][j].planned /\ ~steps'[r][j].created
  <2>1. steps'[r] = CreateSteps(p)
    BY <1>0 DEF CreateTx
  <2>. QED BY <2>1 DEF CreateSteps, NoSteps, StepRow
<1>11. \A q \in Runs : runs[q].worker \in Workers \cup {NoWorker}
  BY DEF IInv, TypeOK, Run
<1> HIDE DEF r
<1>12. \A q \in Runs : q # r /\ runs[q].ref = f => runs'[q].status # "queued"
  BY <1>4 DEF QueuedOn, IInv, TypeOK, Run
<1>13. Unborn'
  BY <1>0, <1>1, <1>6, <1>7, <1>9, StatusFacts DEF IInv, Unborn, RunShrinks, StepShrinks
<1>14. EndedSettled'
  BY <1>6, <1>7, <1>8, <1>9, <1>10, StatusFacts DEF IInv, EndedSettled, RunShrinks, StepShrinks
<1>15. RunningAccounted'
  BY <1>0, <1>6, <1>9, <1>11, StatusFacts DEF IInv, RunningAccounted, WorkerKnown, RunShrinks
<1>16. ReceiptShape'
  BY <1>7, <1>10, StatusFacts DEF IInv, ReceiptShape, StepShrinks
<1>17. StartedClaimed'
  BY <1>6, <1>7, <1>10, StatusFacts DEF IInv, StartedClaimed, RunShrinks, StepShrinks
<1>18. ContainersRecoverable'
  BY <1>0, <1>6, <1>7, <1>10
     DEF IInv, ContainersRecoverable, WorkerKnown, HasContainer, Unremoved, RunShrinks, StepShrinks
<1>19. \A u \in Targets, j \in Steps : targets[u].owner # <<r, j>>
  BY <1>0, <1>2 DEF IInv, OwnerConsistent, OwnerOK
<1>20. OwnerConsistent'
  BY <1>0, <1>6, <1>7, <1>19
     DEF IInv, OwnerConsistent, OwnerOK, WorkerKnown, RunShrinks, StepShrinks
<1>21. DeploymentsPassed'
  <2>1. \A u \in Targets, j \in Steps : <<u, r, j>> \notin deployments
    BY <1>0, <1>2 DEF IInv, DeploymentsPassed
  <2>2. ASSUME NEW q \in Runs, NEW j \in Steps,
               steps'[q][j].kind = "deploy" /\ steps'[q][j].status = "passed"
        PROVE  \E z \in Runs, k \in Steps : <<runs'[q].target, z, k>> \in deployments'
    <3>1. q # r
      BY <2>2, <1>10, StatusFacts
    <3>2. steps[q][j].kind = "deploy" /\ steps[q][j].status = "passed"
      BY <2>2, <3>1, <1>7, StatusFacts DEF StepShrinks
    <3>3. runs'[q].target = runs[q].target
      BY <3>1, <1>6 DEF RunShrinks
    <3>. QED BY <3>2, <3>3, <1>0 DEF IInv, DeploymentsPassed
  <2>3. ASSUME NEW q \in Runs, NEW j \in Steps, NEW u \in Targets, <<u, q, j>> \in deployments'
        PROVE  \/ runs'[q].status = "pruned"
               \/ steps'[q][j].kind = "deploy" /\ steps'[q][j].status = "passed"
    BY <2>3, <1>0, <1>6, <1>7, <2>1, StatusFacts DEF IInv, DeploymentsPassed, RunShrinks, StepShrinks
  <2>. QED BY <2>2, <2>3 DEF DeploymentsPassed
<1>22. LatestCovers'
  BY <1>0, <1>6, <1>19 DEF IInv, LatestCovers, RunShrinks
<1>23. DeleteQuiesced'
  BY DEF DeleteQuiesced
<1>24. OneQueuedPerRef'
  BY <1>6, <1>9, <1>12, StatusFacts DEF IInv, OneQueuedPerRef, QueuedOn, RunShrinks
<1>. QED BY <1>13, <1>14, <1>15, <1>16, <1>17, <1>18, <1>20, <1>21, <1>22, <1>23, <1>24 DEF IInv

\* Beginning an operation and deleting the repository keep the invariant.
LEMMA OperationKeeps ==
  ASSUME IInv, TypeOK',
         \/ \E kind \in {"push", "change", "delete"} : BeginOperation(kind)
         \/ DeleteRepo
  PROVE  IInv'
<1>1. ASSUME NEW kind \in {"push", "change", "delete"}, BeginOperation(kind) PROVE IInv'
  <2>1. /\ op' = kind
        /\ kind = "delete" => Quiet
        /\ UNCHANGED <<runs, steps, targets, deployments, workers, counter>>
    BY <1>1 DEF BeginOperation
  <2>2. DeleteQuiesced'
    BY <2>1 DEF DeleteQuiesced, Quiet, HasContainer
  <2>. QED BY <2>1, <2>2
       DEF IInv, Unborn, EndedSettled, RunningAccounted, ReceiptShape, StartedClaimed,
           ContainersRecoverable, OwnerConsistent, OwnerOK, WorkerKnown, HasContainer,
           DeploymentsPassed, LatestCovers, OneQueuedPerRef, QueuedOn
<1>2. CASE DeleteRepo
  <2>1. /\ \A q \in Runs :
             /\ runs'[q].status \in {"absent", "pruned"} /\ ~runs'[q].token
             /\ runs[q].status = "absent" => runs'[q].status = "absent"
        /\ \A q \in Runs, j \in Steps :
             /\ steps'[q][j].status = "none" /\ steps'[q][j].kind = "none"
             /\ steps'[q][j].code = NoCode /\ steps'[q][j].gen = NoGen
             /\ ~steps'[q][j].planned /\ ~steps'[q][j].created
        /\ \A u \in Targets : targets'[u].owner = NoOwner
        /\ deployments' = {} /\ counter' = counter
    BY <1>2 DEF DeleteRepo, AbsentRun, NoSteps, StepRow, FreeTarget
  <2>2. Unborn' /\ EndedSettled' /\ RunningAccounted' /\ ReceiptShape' /\ StartedClaimed'
    BY <2>1, StatusFacts
       DEF IInv, Unborn, EndedSettled, RunningAccounted, ReceiptShape, StartedClaimed
  <2>3. ContainersRecoverable' /\ DeleteQuiesced'
    BY <2>1 DEF ContainersRecoverable, DeleteQuiesced, Quiet, HasContainer, Unremoved
  <2>4. OwnerConsistent'
    BY <2>1, NoOwnerIsNone DEF OwnerConsistent
  <2>5. LatestCovers'
    BY <2>1, NoOwnerIsNone DEF LatestCovers
  <2>6. DeploymentsPassed' /\ OneQueuedPerRef'
    BY <2>1 DEF DeploymentsPassed, OneQueuedPerRef, QueuedOn
  <2>. QED BY <2>2, <2>3, <2>4, <2>5, <2>6 DEF IInv
<1>. QED BY <1>1, <1>2

\* The empty store satisfies the invariant.
LEMMA InitIInv == Init => IInv
<1> SUFFICES ASSUME Init PROVE IInv
  OBVIOUS
<1>1. TypeOK
  BY TypeInit
<1>2. /\ \A q \in Runs : runs[q].status = "absent" /\ ~runs[q].token
      /\ \A q \in Runs, j \in Steps :
           /\ steps[q][j].status = "none" /\ steps[q][j].kind = "none"
           /\ steps[q][j].code = NoCode /\ steps[q][j].gen = NoGen
           /\ ~steps[q][j].planned /\ ~steps[q][j].created
      /\ \A u \in Targets : targets[u].owner = NoOwner
      /\ deployments = {} /\ op = "none"
  BY DEF Init, AbsentRun, NoSteps, StepRow, FreeTarget
<1>3. Unborn /\ EndedSettled /\ RunningAccounted /\ ReceiptShape /\ StartedClaimed
  BY <1>2, StatusFacts DEF Unborn, EndedSettled, RunningAccounted, ReceiptShape, StartedClaimed
<1>4. ContainersRecoverable /\ DeleteQuiesced
  BY <1>2 DEF ContainersRecoverable, DeleteQuiesced, HasContainer, Unremoved
<1>5. OwnerConsistent
  BY <1>2, NoOwnerIsNone DEF OwnerConsistent
<1>6. LatestCovers
  BY <1>2, NoOwnerIsNone DEF LatestCovers
<1>7. DeploymentsPassed /\ OneQueuedPerRef
  BY <1>2 DEF DeploymentsPassed, OneQueuedPerRef, QueuedOn
<1>. QED BY <1>1, <1>3, <1>4, <1>5, <1>6, <1>7 DEF IInv

\* Every transaction preserves the invariant.
LEMMA NextIInv == IInv /\ [Next]_store => IInv'
<1> SUFFICES ASSUME IInv, [Next]_store PROVE IInv'
  OBVIOUS
<1>0. TypeOK'
  BY TypeNext DEF IInv
<1>s. Shrink => IInv'
  BY <1>0, ShrinkKeeps
<1>1. ASSUME NEW r \in Runs, RunNext(r) PROVE IInv'
  <2>1. ASSUME NEW i \in Steps, StepNext(r, i) PROVE IInv'
    <3>1. CASE StepStarted(r, i) \/ PlanContainer(r, i) \/ ContainerCreated(r, i)
      BY <3>1, <1>0, StepNextGrows, GrowKeeps
    <3>2. CASE BeginDeployment(r, i)
      BY <3>2, <1>0, BeginKeeps
    <3>3. CASE \E x \in Results : StepFinished(r, i, x)
      <4>1. PICK x \in Results : Receipt(r, i, x[1], x[2], FALSE)
        BY <3>3 DEF StepFinished
      <4>2. /\ x[1] \in StepStatus /\ x[2] \in Codes
            /\ x[1] \notin Open /\ x[1] # "none"
            /\ x[1] = "passed" => x[2] = 0
            /\ x[2] # NoCode => x[1] \in Ended
        BY DEF Results, StepStatus, Ended, Open, Codes, NoCode
      <4>. QED BY <4>1, <4>2, <1>0, ReceiptKeeps
    <3>4. CASE \E code \in Codes \ {NoCode} : RecoverStepExit(r, i, code)
      <4>1. PICK code \in Codes \ {NoCode} :
              Receipt(r, i, IF code = 0 THEN "passed" ELSE "failed", code, TRUE)
        BY <3>4 DEF RecoverStepExit
      <4> DEFINE status == IF code = 0 THEN "passed" ELSE "failed"
      <4>2. /\ status \in StepStatus /\ status \notin Open /\ status # "none"
            /\ status = "passed" => code = 0
            /\ status \in Ended
        BY DEF StepStatus, Ended, Open
      <4> HIDE DEF status
      <4>3. Receipt(r, i, status, code, TRUE)
        BY <4>1 DEF status
      <4>. QED BY <4>2, <4>3, <1>0, ReceiptKeeps
    <3>5. CASE ContainerRemoved(r, i)
      BY <3>5, <1>s, RunNextShrinks
    <3>. QED BY <2>1, <3>1, <3>2, <3>3, <3>4, <3>5 DEF StepNext
  <2>2. CASE \E w \in Workers : ClaimNext(w, r)
    BY <2>2, <1>0, ClaimKeeps
  <2>3. CASE PruneRun(r)
    BY <2>3, <1>0, PruneRunKeeps
  <2>4. CASE \/ DeadlinePasses(r) \/ AllRemoved(r) \/ ConfirmExecutionStopped(r)
             \/ Cancel(r) \/ \E status \in Ended : Finish(r, status)
    BY <2>4, <1>s, RunNextShrinks
  <2>. QED BY <1>1, <2>1, <2>2, <2>3, <2>4 DEF RunNext
<1>2. ASSUME NEW w \in Workers, WorkerNext(w) PROVE IInv'
  BY <1>2, <1>0, <1>s, WorkerNextShrinks, PruneWorkerKeeps DEF WorkerNext
<1>3. CASE RepoNext
  <2>1. ASSUME NEW f \in Refs, NEW p \in Plans, Start(f, p) \/ PushRun(f, p) PROVE IInv'
    <3>1. PICK tr \in {"push", "manual"} : CreateTx(f, tr, p)
      BY <2>1 DEF Start, PushRun
    <3>2. op \in {"none", "push"} /\ op' = "none"
      BY <2>1 DEF Start, PushRun
    <3>. QED BY <3>1, <3>2, <1>0, CreateKeeps
  <2>. QED BY <1>3, <2>1, <1>0, <1>s, RepoNextShrinks, OperationKeeps, PruneDeploymentKeeps DEF RepoNext
<1>4. CASE UNCHANGED store
  BY <1>4, <1>s, RowShrinks, StepRowShrinks DEF store, Shrink, IInv, TypeOK
<1>. QED BY <1>1, <1>2, <1>3, <1>4 DEF Next

----------------------------------------------------------------------------
(* What a step may never do.                                               *)

\* The five action properties.
StepSafe ==
  EndedIsFinal /\ ReceiptIsFinal /\ OwnerHandover /\ NewerDeploymentWins /\ DeployRecorded

\* A transaction that only ends, settles, marks or releases is safe.
LEMMA ShrinkSafe ==
  ASSUME IInv, Shrink
  PROVE  StepSafe
<1>1. EndedIsFinal
  BY StatusFacts DEF Shrink, RunShrinks, EndedIsFinal
<1>2. ReceiptIsFinal
  BY StatusFacts DEF Shrink, StepShrinks, ReceiptIsFinal, IInv, ReceiptShape
<1>3. OwnerHandover
  <2> SUFFICES ASSUME NEW t \in Targets, NEW r \in Runs, NEW i \in Steps,
                      targets[t].owner = <<r, i>>, targets'[t].owner # <<r, i>>
               PROVE  targets'[t].owner = NoOwner /\ steps'[r][i].status \notin Open
    BY DEF OwnerHandover
  <2>1. targets'[t].owner = targets[t].owner \/ targets'[t].owner = NoOwner
    BY DEF Shrink
  <2>2. targets'[t].owner = NoOwner
    BY <2>1, Zenon
  <2>. QED BY <2>2 DEF Shrink
<1>4. NewerDeploymentWins /\ DeployRecorded
  BY DEF Shrink, StepShrinks, NewerDeploymentWins, DeployRecorded
<1>. QED BY <1>1, <1>2, <1>3, <1>4 DEF StepSafe

\* A transaction that moves a run on is safe.
LEMMA GrowSafe ==
  ASSUME IInv, NEW r \in Runs, Grow(r)
  PROVE  StepSafe
<1>1. EndedIsFinal /\ NewerDeploymentWins /\ OwnerHandover /\ DeployRecorded
  BY DEF Grow, StepGrows, EndedIsFinal, NewerDeploymentWins, OwnerHandover, DeployRecorded
<1>2. ReceiptIsFinal
  BY StatusFacts DEF Grow, StepGrows, ReceiptIsFinal, IInv, ReceiptShape, Ended
<1>. QED BY <1>1, <1>2 DEF StepSafe

\* Handing out a run is safe.
LEMMA ClaimSafe ==
  ASSUME IInv, NEW w \in Workers, NEW r \in Runs, ClaimNext(w, r)
  PROVE  StepSafe
<1>1. /\ \A q \in Runs : q # r => runs'[q] = runs[q]
      /\ runs[r].status = "queued"
      /\ UNCHANGED <<steps, targets, deployments>>
  BY DEF ClaimNext, Claimable, IInv, TypeOK
<1>. QED BY <1>1, StatusFacts
     DEF StepSafe, EndedIsFinal, ReceiptIsFinal, OwnerHandover, NewerDeploymentWins,
         DeployRecorded

\* Taking a target is safe: it was free, or the step's own.
LEMMA BeginSafe ==
  ASSUME IInv, NEW r \in Runs, NEW i \in Steps, BeginDeployment(r, i)
  PROVE  StepSafe
<1> DEFINE t == runs[r].target
<1>1. /\ t \in Targets /\ targets[t].owner \in {NoOwner, <<r, i>>}
      /\ UNCHANGED <<runs, deployments>>
  BY DEF BeginDeployment, BeginAnswer, IInv, TypeOK, Run
<1>2. /\ \A u \in Targets : u # t => targets'[u] = targets[u]
      /\ targets'[t].owner = <<r, i>>
  BY <1>1 DEF BeginDeployment, IInv, TypeOK, Target
<1>3. \A q \in Runs, j \in Steps :
        steps'[q][j].code = steps[q][j].code /\ steps'[q][j].status = steps[q][j].status
  BY DEF BeginDeployment, IInv, TypeOK, Step
<1>4. EndedIsFinal /\ ReceiptIsFinal /\ NewerDeploymentWins /\ DeployRecorded
  BY <1>1, <1>3 DEF EndedIsFinal, ReceiptIsFinal, NewerDeploymentWins, DeployRecorded
<1>5. OwnerHandover
  <2> SUFFICES ASSUME NEW u \in Targets, NEW q \in Runs, NEW j \in Steps,
                      targets[u].owner = <<q, j>>, targets'[u].owner # <<q, j>>
               PROVE  FALSE
    BY DEF OwnerHandover
  <2>1. u = t
    BY <1>2
  <2>2. targets[t].owner = <<r, i>>
    BY <1>1, <2>1, NoOwnerIsNone
  <2>. QED BY <1>2, <2>1, <2>2
<1>. QED BY <1>4, <1>5 DEF StepSafe

\* A receipt is safe: it is recorded once, it releases only its own target,
\* and a deployment was allowed to begin only if no newer one had shipped.
LEMMA ReceiptSafe ==
  ASSUME IInv, NEW r \in Runs, NEW i \in Steps,
         NEW status, NEW code, NEW rec \in BOOLEAN,
         status \notin Open, Receipt(r, i, status, code, rec)
  PROVE  StepSafe
<1> DEFINE shipped == steps[r][i].kind = "deploy" /\ status = "passed"
           t == runs[r].target
<1>0. runs' = runs
  BY DEF Receipt
<1>1. /\ steps[r][i].code = NoCode
      /\ \A q \in Runs, j \in Steps : <<q, j>> # <<r, i>> => steps'[q][j] = steps[q][j]
      /\ steps'[r][i].status = status
  BY StatusFacts DEF Receipt, ReceiptKept, IInv, ReceiptShape, TypeOK, Step
<1>2. EndedIsFinal /\ ReceiptIsFinal
  BY <1>0, <1>1 DEF EndedIsFinal, ReceiptIsFinal
<1>3. OwnerHandover
  <2> SUFFICES ASSUME NEW u \in Targets, NEW q \in Runs, NEW j \in Steps,
                      targets[u].owner = <<q, j>>, targets'[u].owner # <<q, j>>
               PROVE  targets'[u].owner = NoOwner /\ steps'[q][j].status \notin Open
    BY DEF OwnerHandover
  <2>1. targets'[u].owner = IF u \in Freed(r, i) THEN NoOwner ELSE targets[u].owner
    BY DEF Receipt
  <2>2. u \in Freed(r, i)
    BY <2>1, Zenon
  <2>3. q = r /\ j = i
    BY <2>2 DEF Freed, Owns
  <2>. QED BY <1>1, <2>1, <2>2, <2>3
<1>4. NewerDeploymentWins
  <2> SUFFICES ASSUME NEW u \in Targets, NEW q \in Runs, NEW z \in Runs,
                      NEW j \in Steps, NEW k \in Steps,
                      <<u, q, j>> \in deployments' \ deployments,
                      runs[q].trigger = "push", <<u, z, k>> \in deployments
               PROVE  z <= q
    BY DEF NewerDeploymentWins
  <2>1. shipped /\ u = t /\ q = r
    BY DEF Receipt, Shipped
  <2>2. targets[t].owner = <<r, i>>
    BY <2>1 DEF Receipt, Shipped, DeployProven, Owns
  <2>3. targets[t].latest <= r /\ z <= targets[t].latest
    BY <2>1, <2>2 DEF IInv, LatestCovers
  <2>. QED BY <2>1, <2>3 DEF IInv, TypeOK, Target, Runs
<1>5. DeployRecorded
  BY <1>1 DEF Receipt, Shipped, DeployRecorded
<1>. QED BY <1>2, <1>3, <1>4, <1>5 DEF StepSafe

\* Creating a run is safe: it cancels only queued runs.
LEMMA CreateSafe ==
  ASSUME IInv, NEW f \in Refs, NEW tr, NEW p \in Plans, CreateTx(f, tr, p)
  PROVE  StepSafe
<1> DEFINE r == counter + 1
<1>1. /\ r \in Runs /\ runs[r].status = "absent"
      /\ \A j \in Steps : steps[r][j].status = "none"
      /\ UNCHANGED <<targets, deployments>>
  <2>1. r \in Runs /\ r > counter /\ UNCHANGED <<targets, deployments>>
    BY ConstantsOK DEF CreateTx, IInv, TypeOK, Runs
  <2>. QED BY <2>1 DEF IInv, Unborn
<1>2. \A q \in Runs : q # r =>
        \/ runs'[q].status = runs[q].status
        \/ runs[q].status = "queued"
  BY DEF CreateTx, Superseded, QueuedOn
<1>3. ASSUME NEW q \in Runs, NEW j \in Steps, steps[q][j].code # NoCode
      PROVE  /\ steps'[q][j].code = steps[q][j].code
             /\ steps'[q][j].status = steps[q][j].status
  <2>1. steps[q][j].status \in Ended /\ steps[q][j] \in Step
    BY <1>3 DEF IInv, ReceiptShape, TypeOK
  <2>2. q # r
    BY <1>1, <2>1 DEF Ended
  <2>3. steps'[q][j] \in {steps[q][j], SettleStep(steps[q][j], "running", "cancelled")}
    BY <2>2 DEF CreateTx, Supersede, Settle
  <2>. QED BY <2>1, <2>3 DEF SettleStep, Step, Ended
<1>4. DeployRecorded
  <2> SUFFICES ASSUME NEW q \in Runs, NEW j \in Steps, steps[q][j].kind = "deploy",
                      steps'[q][j].status = "passed"
               PROVE  steps[q][j].status = "passed"
    BY DEF DeployRecorded
  <2>1. q # r /\ steps[q][j] \in Step
    BY <1>1 DEF IInv, TypeOK, Unborn
  <2>2. steps'[q][j] \in {steps[q][j], SettleStep(steps[q][j], "running", "cancelled")}
    BY <2>1 DEF CreateTx, Supersede, Settle
  <2>. QED BY <2>1, <2>2 DEF SettleStep, Step
<1>. QED BY <1>1, <1>2, <1>3, <1>4, StatusFacts
     DEF StepSafe, EndedIsFinal, ReceiptIsFinal, OwnerHandover, NewerDeploymentWins

\* Pruning and deleting take only what is settled.
LEMMA PruneSafe ==
  ASSUME IInv,
         \/ \E r \in Runs : PruneRun(r)
         \/ \E w \in Workers : PruneWorker(w)
         \/ \E kind \in {"push", "change", "delete"} : BeginOperation(kind)
         \/ DeleteRepo
         \/ \E d \in deployments : PruneDeployment(d)
  PROVE  StepSafe
<1>1. ASSUME NEW r \in Runs, PruneRun(r) PROVE StepSafe
  <2>1. /\ \A q \in Runs : q # r => runs'[q] = runs[q] /\ steps'[q] = steps[q]
        /\ runs'[r].status = "pruned" /\ UNCHANGED <<targets, deployments>>
        /\ \A j \in Steps : steps'[r][j].status = "none"
    BY <1>1 DEF PruneRun, IInv, TypeOK, AbsentRun, NoSteps, StepRow
  <2>. QED BY <2>1 DEF StepSafe, EndedIsFinal, ReceiptIsFinal, OwnerHandover, NewerDeploymentWins,
         DeployRecorded
<1>2. ASSUME NEW w \in Workers, PruneWorker(w) PROVE StepSafe
  <2>1. /\ \A q \in Runs : runs'[q].status = runs[q].status
        /\ UNCHANGED <<steps, targets, deployments>>
    BY <1>2 DEF PruneWorker, IInv, TypeOK, Run
  <2>. QED BY <2>1 DEF StepSafe, EndedIsFinal, ReceiptIsFinal, OwnerHandover, NewerDeploymentWins,
         DeployRecorded
<1>3. CASE \E kind \in {"push", "change", "delete"} : BeginOperation(kind)
  BY <1>3 DEF BeginOperation, StepSafe, EndedIsFinal, ReceiptIsFinal, OwnerHandover, NewerDeploymentWins,
         DeployRecorded
<1>4. CASE DeleteRepo
  <2>1. /\ \A q \in Runs : runs[q].status # "absent" => runs'[q].status = "pruned"
        /\ deployments' = {} /\ op = "delete"
    BY <1>4 DEF DeleteRepo, AbsentRun
  <2>2. EndedIsFinal /\ NewerDeploymentWins /\ DeployRecorded
    BY <2>1, <1>4, StatusFacts
       DEF EndedIsFinal, NewerDeploymentWins, DeployRecorded, DeleteRepo, NoSteps, StepRow
  <2>3. ReceiptIsFinal
    BY <2>1 DEF ReceiptIsFinal, IInv, ReceiptShape, Unborn, Ended
  <2>4. OwnerHandover
    BY <2>1, NoOwnerIsNone DEF OwnerHandover, IInv, DeleteQuiesced, Quiet
  <2>. QED BY <2>2, <2>3, <2>4 DEF StepSafe
<1>5. CASE \E d \in deployments : PruneDeployment(d)
  BY <1>5 DEF PruneDeployment, StepSafe, EndedIsFinal, ReceiptIsFinal, OwnerHandover,
              NewerDeploymentWins, DeployRecorded
<1>. QED BY <1>1, <1>2, <1>3, <1>4, <1>5

\* Every transaction is safe.
LEMMA NextSafe == IInv /\ [Next]_store => StepSafe
<1> SUFFICES ASSUME IInv, [Next]_store PROVE StepSafe
  OBVIOUS
<1>1. ASSUME NEW r \in Runs, RunNext(r) PROVE StepSafe
  <2>1. ASSUME NEW i \in Steps, StepNext(r, i) PROVE StepSafe
    <3>1. CASE StepStarted(r, i) \/ PlanContainer(r, i) \/ ContainerCreated(r, i)
      BY <3>1, StepNextGrows, GrowSafe
    <3>2. CASE BeginDeployment(r, i)
      BY <3>2, BeginSafe
    <3>3. CASE \E x \in Results : StepFinished(r, i, x)
      <4>1. PICK x \in Results : Receipt(r, i, x[1], x[2], FALSE)
        BY <3>3 DEF StepFinished
      <4>2. x[1] \notin Open
        BY DEF Results, Open
      <4>. QED BY <4>1, <4>2, ReceiptSafe
    <3>4. CASE \E code \in Codes \ {NoCode} : RecoverStepExit(r, i, code)
      <4>1. PICK code \in Codes \ {NoCode} :
              Receipt(r, i, IF code = 0 THEN "passed" ELSE "failed", code, TRUE)
        BY <3>4 DEF RecoverStepExit
      <4>2. (IF code = 0 THEN "passed" ELSE "failed") \notin Open
        BY DEF Open
      <4>. QED BY <4>1, <4>2, ReceiptSafe
    <3>5. CASE ContainerRemoved(r, i)
      BY <3>5, RunNextShrinks, ShrinkSafe
    <3>. QED BY <2>1, <3>1, <3>2, <3>3, <3>4, <3>5 DEF StepNext
  <2>2. CASE \E w \in Workers : ClaimNext(w, r)
    BY <2>2, ClaimSafe
  <2>3. CASE PruneRun(r)
    BY <2>3, PruneSafe
  <2>4. CASE \/ DeadlinePasses(r) \/ AllRemoved(r) \/ ConfirmExecutionStopped(r)
             \/ Cancel(r) \/ \E status \in Ended : Finish(r, status)
    BY <2>4, RunNextShrinks, ShrinkSafe
  <2>. QED BY <1>1, <2>1, <2>2, <2>3, <2>4 DEF RunNext
<1>2. ASSUME NEW w \in Workers, WorkerNext(w) PROVE StepSafe
  BY <1>2, WorkerNextShrinks, ShrinkSafe, PruneSafe DEF WorkerNext
<1>3. CASE RepoNext
  <2>1. ASSUME NEW f \in Refs, NEW p \in Plans, Start(f, p) \/ PushRun(f, p) PROVE StepSafe
    BY <2>1, CreateSafe DEF Start, PushRun
  <2>. QED BY <1>3, <2>1, RepoNextShrinks, ShrinkSafe, PruneSafe DEF RepoNext
<1>4. CASE UNCHANGED store
  BY <1>4 DEF store, StepSafe, EndedIsFinal, ReceiptIsFinal, OwnerHandover, NewerDeploymentWins,
         DeployRecorded
<1>. QED BY <1>1, <1>2, <1>3, <1>4 DEF Next

----------------------------------------------------------------------------
(* The pending-run budget.                                                 *)

\* The run numbers are finitely many: the budget counts them.
LEMMA RunNumbersFinite == IsFiniteSet(1 .. MaxRuns)
<1>1. 1 \in Int /\ MaxRuns \in Int
  BY ConstantsOK
<1>. QED BY <1>1, FS_Interval

\* A step adds a pending run only when the count was below the budget.
LEMMA PendingStep ==
  IInv /\ [Next]_store =>
     \/ PendingRuns' \subseteq PendingRuns
     \/ Cardinality(PendingRuns) < MaxPending /\ \E r \in Runs : PendingRuns' \subseteq PendingRuns \cup {r}
<1> SUFFICES ASSUME IInv, [Next]_store
             PROVE  \/ PendingRuns' \subseteq PendingRuns
                    \/ /\ Cardinality(PendingRuns) < MaxPending
                       /\ \E r \in Runs : PendingRuns' \subseteq PendingRuns \cup {r}
  OBVIOUS
<1>s. Shrink => PendingRuns' \subseteq PendingRuns
  BY StatusFacts DEF Shrink, RunShrinks, PendingRuns
<1>g. (\E r \in Runs : Grow(r)) => PendingRuns' \subseteq PendingRuns
  BY DEF Grow, PendingRuns
<1>u. runs' = runs => PendingRuns' \subseteq PendingRuns
  BY DEF PendingRuns
<1>1. ASSUME NEW r \in Runs, RunNext(r) PROVE PendingRuns' \subseteq PendingRuns
  <2>1. ASSUME NEW i \in Steps, StepNext(r, i) PROVE PendingRuns' \subseteq PendingRuns
    BY <2>1, <1>u DEF StepNext, StepStarted, PlanContainer, BeginDeployment, ContainerCreated,
       StepFinished, RecoverStepExit, Receipt, ContainerRemoved, SetStep
  <2>2. CASE \E w \in Workers : ClaimNext(w, r)
    BY <2>2 DEF ClaimNext, Claimable, PendingRuns, IInv, TypeOK
  <2>3. CASE PruneRun(r)
    BY <2>3 DEF PruneRun, PendingRuns, AbsentRun, IInv, TypeOK
  <2>4. CASE \/ DeadlinePasses(r) \/ AllRemoved(r) \/ ConfirmExecutionStopped(r)
             \/ Cancel(r) \/ \E status \in Ended : Finish(r, status)
    BY <2>4, <1>s, RunNextShrinks
  <2>. QED BY <1>1, <2>1, <2>2, <2>3, <2>4 DEF RunNext
<1>2. ASSUME NEW w \in Workers, WorkerNext(w) PROVE PendingRuns' \subseteq PendingRuns
  <2>1. CASE PruneWorker(w)
    BY <2>1 DEF PruneWorker, PendingRuns, IInv, TypeOK, Run
  <2>. QED BY <1>2, <2>1, <1>s, WorkerNextShrinks DEF WorkerNext
<1>3. ASSUME NEW f \in Refs, NEW p \in Plans, NEW tr, CreateTx(f, tr, p)
      PROVE  \/ PendingRuns' \subseteq PendingRuns
             \/ /\ Cardinality(PendingRuns) < MaxPending
                /\ \E r \in Runs : PendingRuns' \subseteq PendingRuns \cup {r}
  <2> DEFINE r == counter + 1
  <2>1. r \in Runs
    BY <1>3, ConstantsOK DEF CreateTx, IInv, TypeOK, Runs
  <2>2. runs'[r].status = CreateStatus(p)
    BY <1>3, <2>1 DEF CreateTx, AbsentRun
  <2>3. \A q \in Runs : q # r /\ runs'[q].status \in {"queued", "running"} =>
           runs[q].status \in {"queued", "running"}
    BY <1>3 DEF CreateTx, Superseded, QueuedOn
  <2> HIDE DEF r
  <2>4. CASE CreateStatus(p) # "queued"
    <3>1. CreateStatus(p) # "running"
      BY CreateRows
    <3>. QED BY <2>2, <2>3, <2>4, <3>1 DEF PendingRuns
  <2>5. CASE CreateStatus(p) = "queued"
    <3>1. ~(Cardinality(PendingRuns) >= MaxPending)
      BY <2>5 DEF CreateStatus
    <3>2. Cardinality(PendingRuns) \in Nat
      <4>1. PendingRuns \subseteq 1 .. MaxRuns
        BY DEF PendingRuns, Runs
      <4>2. IsFiniteSet(1 .. MaxRuns)
        BY RunNumbersFinite
      <4>. QED BY <4>1, <4>2, FS_Subset, FS_CardinalityType
    <3>3. PendingRuns' \subseteq PendingRuns \cup {r}
      BY <2>3 DEF PendingRuns
    <3>. QED BY <2>1, <3>1, <3>2, <3>3, ConstantsOK
  <2>. QED BY <2>4, <2>5
<1>4. CASE RepoNext
  <2>1. ASSUME NEW f \in Refs, NEW p \in Plans, Start(f, p) \/ PushRun(f, p)
        PROVE  \/ PendingRuns' \subseteq PendingRuns
               \/ /\ Cardinality(PendingRuns) < MaxPending
                  /\ \E r \in Runs : PendingRuns' \subseteq PendingRuns \cup {r}
    BY <1>3, <2>1 DEF Start, PushRun
  <2>2. CASE \E kind \in {"push", "change", "delete"} : BeginOperation(kind)
    BY <2>2, <1>u DEF BeginOperation
  <2>3. CASE DeleteRepo
    BY <2>3 DEF DeleteRepo, PendingRuns, AbsentRun
  <2>4. CASE \E d \in deployments : PruneDeployment(d)
    BY <2>4, <1>u DEF PruneDeployment
  <2>. QED BY <1>4, <2>1, <2>2, <2>3, <2>4, <1>s, RepoNextShrinks DEF RepoNext
<1>5. CASE UNCHANGED store
  BY <1>5, <1>u DEF store
<1>. QED BY <1>1, <1>2, <1>4, <1>5 DEF Next

\* The budget is kept.
LEMMA PendingKept == IInv /\ PendingBounded /\ [Next]_store => PendingBounded'
<1> SUFFICES ASSUME IInv, PendingBounded, [Next]_store PROVE PendingBounded'
  OBVIOUS
<1>1. /\ IsFiniteSet(PendingRuns) /\ Cardinality(PendingRuns) \in Nat /\ MaxPending \in Nat
      /\ IsFiniteSet(PendingRuns') /\ Cardinality(PendingRuns') \in Nat
  <2>1. PendingRuns \subseteq 1 .. MaxRuns /\ PendingRuns' \subseteq 1 .. MaxRuns
    BY DEF PendingRuns, Runs
  <2>2. IsFiniteSet(1 .. MaxRuns)
    BY RunNumbersFinite
  <2>. QED BY <2>1, <2>2, FS_Subset, FS_CardinalityType, ConstantsOK
<1>2. CASE PendingRuns' \subseteq PendingRuns
  <2>1. Cardinality(PendingRuns') <= Cardinality(PendingRuns)
    BY <1>1, <1>2, FS_Subset
  <2>. QED BY <1>1, <2>1 DEF PendingBounded
<1>3. ASSUME Cardinality(PendingRuns) < MaxPending, NEW r \in Runs,
             PendingRuns' \subseteq PendingRuns \cup {r}
      PROVE  PendingBounded'
  <2>1. /\ IsFiniteSet(PendingRuns \cup {r})
        /\ Cardinality(PendingRuns \cup {r}) <= Cardinality(PendingRuns) + 1
    <3>1. /\ IsFiniteSet(PendingRuns \cup {r})
          /\ Cardinality(PendingRuns \cup {r}) =
               IF r \in PendingRuns THEN Cardinality(PendingRuns) ELSE Cardinality(PendingRuns) + 1
      BY <1>1, FS_AddElement, Zenon
    <3>. QED BY <1>1, <3>1
  <2>2. /\ Cardinality(PendingRuns \cup {r}) \in Nat
        /\ Cardinality(PendingRuns') <= Cardinality(PendingRuns \cup {r})
    BY <2>1, <1>3, FS_Subset, FS_CardinalityType
  <2>. QED BY <1>1, <1>3, <2>1, <2>2 DEF PendingBounded
<1>. QED BY <1>2, <1>3, PendingStep

----------------------------------------------------------------------------
(* The theorems.                                                           *)

\* The inductive invariant holds in every reachable state of the store,
\* whatever transactions its clients call and in whatever order.
THEOREM StoreInvariant == Spec => []IInv
<1>1. Init => IInv
  BY InitIInv
<1>2. IInv /\ [Next]_store => IInv'
  BY NextIInv
<1>. QED BY <1>1, <1>2, PTL DEF Spec

\* A run that ended has no step left pending or running.
THEOREM EndedRunsSettled == Spec => []EndedSettled
<1>1. IInv => EndedSettled
  BY DEF IInv
<1>. QED BY <1>1, StoreInvariant, PTL

\* Every running run has its fetch token and a worker whose row exists.
THEOREM RunningRunsAccounted == Spec => []RunningAccounted
<1>1. IInv => RunningAccounted
  BY DEF IInv
<1>. QED BY <1>1, StoreInvariant, PTL

\* Every target's owner is a deploy step of a run for that target, with the
\* current generation and no receipt, whose worker can still be released.
THEOREM TargetOwnersConsistent == Spec => []OwnerConsistent
<1>1. IInv => OwnerConsistent
  BY DEF IInv
<1>. QED BY <1>1, StoreInvariant, PTL

\* Recovery can still find every container not confirmed removed.
THEOREM ContainersStayRecoverable == Spec => []ContainersRecoverable
<1>1. IInv => ContainersRecoverable
  BY DEF IInv
<1>. QED BY <1>1, StoreInvariant, PTL

\* Exactly the passed deploy steps are recorded as deployments.
THEOREM DeploymentsAreReceipts == Spec => []DeploymentsPassed
<1>1. IInv => DeploymentsPassed
  BY DEF IInv
<1>. QED BY <1>1, StoreInvariant, PTL

\* latest_run_number is above every deployment, and below an automatic owner.
THEOREM LatestIsCovering == Spec => []LatestCovers
<1>1. IInv => LatestCovers
  BY DEF IInv
<1>. QED BY <1>1, StoreInvariant, PTL

\* Nothing of a repository runs from the intent to delete it on.
THEOREM DeletionQuiesced == Spec => []DeleteQuiesced
<1>1. IInv => DeleteQuiesced
  BY DEF IInv
<1>. QED BY <1>1, StoreInvariant, PTL

\* At most one run of a ref waits.
THEOREM QueueSuperseded == Spec => []OneQueuedPerRef
<1>1. IInv => OneQueuedPerRef
  BY DEF IInv
<1>. QED BY <1>1, StoreInvariant, PTL

\* The pending runs of a repository never exceed the budget.
THEOREM QueueBounded == Spec => []PendingBounded
<1>1. Init => PendingBounded
  <2> SUFFICES ASSUME Init PROVE PendingBounded
    OBVIOUS
  <2>1. PendingRuns = {}
    BY DEF Init, PendingRuns, AbsentRun
  <2>. QED BY <2>1, FS_EmptySet, ConstantsOK DEF PendingBounded
<1>2. IInv /\ PendingBounded /\ [Next]_store => PendingBounded'
  BY PendingKept
<1>. QED BY <1>1, <1>2, StoreInvariant, PTL DEF Spec

\* The result of a run is never rewritten.
THEOREM ResultsAreFinal == Spec => EndedStaysFinal
<1>1. IInv /\ [Next]_store => [EndedIsFinal]_store
  BY NextSafe DEF StepSafe
<1>. QED BY <1>1, StoreInvariant, PTL DEF Spec, EndedStaysFinal

\* A receipt is never rewritten.
THEOREM ReceiptsAreFinal == Spec => ReceiptStaysFinal
<1>1. IInv /\ [Next]_store => [ReceiptIsFinal]_store
  BY NextSafe DEF StepSafe
<1>. QED BY <1>1, StoreInvariant, PTL DEF Spec, ReceiptStaysFinal

\* Ownership of a target ends only with its step settled.
THEOREM OwnershipHandedOver == Spec => OwnerHandedOver
<1>1. IInv /\ [Next]_store => [OwnerHandover]_store
  BY NextSafe DEF StepSafe
<1>. QED BY <1>1, StoreInvariant, PTL DEF Spec, OwnerHandedOver

\* No automatic run is deployed over a newer one.
THEOREM NewerDeploymentsStay == Spec => NewerDeploymentStays
<1>1. IInv /\ [Next]_store => [NewerDeploymentWins]_store
  BY NextSafe DEF StepSafe
<1>. QED BY <1>1, StoreInvariant, PTL DEF Spec, NewerDeploymentStays

\* A deploy step passes only in the transaction that records its deployment.
THEOREM DeploymentsRecorded == Spec => DeploysRecorded
<1>1. IInv /\ [Next]_store => [DeployRecorded]_store
  BY NextSafe DEF StepSafe
<1>. QED BY <1>1, StoreInvariant, PTL DEF Spec, DeploysRecorded
============================================================================
