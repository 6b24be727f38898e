------------------------- MODULE Execution_proofs -------------------------
(***************************************************************************)
(* Theorems about Execution, for any number of runs, steps, hosts and      *)
(* workers, and any faults: the workers only make transactions of the run  *)
(* queue, a run is executed by one worker, and what happens to it on a     *)
(* host happens under its lock and is traced by what the rows say.  Where  *)
(* heartbeats arrive in time and nobody stops beside a cleanup pass,       *)
(* scripts own their targets until they are gone, and their exits are on   *)
(* record.                                                                 *)
(***************************************************************************)
EXTENDS Execution, CIStore_proofs, WellFoundedInduction

----------------------------------------------------------------------------
(* What the actions are made of.                                           *)

\* A set of numbers that is not empty has a least one.
LEMMA LeastExists ==
  ASSUME NEW S \in SUBSET Nat, S # {}
  PROVE  \E x \in S : \A y \in S : x <= y
<1> DEFINE R == {ss \in Nat \X Nat : ss[1] < ss[2]}
<1>1. IsWellFoundedOn(R, Nat)
  BY NatLessThanWellFounded DEF OpToRel
<1>2. \A x, y \in Nat : <<x, y>> \in R <=> x < y
  OBVIOUS
<1> HIDE DEF R
<1>3. PICK x \in S : \A y \in S : ~ (<<y, x>> \in R)
  BY <1>1, WFMin
<1>4. \A y \in S : ~ (y < x)
  BY <1>2, <1>3
<1>. QED BY <1>4

\* The current step is one of the steps to do.
LEMMA CurrentStepIsStep ==
  ASSUME ExecTypeOK, NEW w \in Workers, proc[w].todo # {}
  PROVE  CurrentStep(w) \in proc[w].todo /\ CurrentStep(w) \in Steps
<1>1. proc[w].todo \in SUBSET Nat
  BY DEF ExecTypeOK, Process, Steps
<1>2. proc[w].todo \subseteq Steps
  BY DEF ExecTypeOK, Process
<1>3. \E x \in proc[w].todo : \A y \in proc[w].todo : x <= y
  BY <1>1, LeastExists
<1>. QED BY <1>2, <1>3 DEF CurrentStep

\* Where a worker stands it knows its run and its step.
LEMMA StandsOn ==
  ASSUME ExecInv, NEW w \in Workers
  PROVE  /\ proc[w].pc \in Claimed \cup Recovering => Mine(w) \in Runs
         /\ proc[w].pc \in Stepping => CurrentStep(w) \in Steps
BY CurrentStepIsStep DEF ExecInv, Placed, Mine

\* A run that was handed out stays with its worker, and never waits again.
RunsKept ==
  \A r \in Runs : runs[r].status \in Ended \cup {"running"} =>
     /\ runs'[r].worker = runs[r].worker
     /\ runs'[r].status \in Ended \cup {"running"}

\* A step of a run that was handed out keeps its kind, its container's marks and
\* its receipt.
RowGrows(a, b) ==
  /\ b.kind = a.kind
  /\ (a.planned => b.planned) /\ (a.created => b.created) /\ (a.removed => b.removed)
  /\ a.code # NoCode => b.code = a.code

\* Nothing is marked removed that was not planned.
RowsKept ==
  \A r \in Runs, i \in Steps :
     /\ HandedOut(r) => RowGrows(steps[r][i], steps'[r][i])
     /\ steps'[r][i].removed => steps[r][i].removed \/ steps[r][i].planned

\* A step of the store, or none, that hands no run to another worker and forgets
\* nothing about the steps of a run that was handed out.
Transacts == [Next]_store /\ RunsKept /\ RowsKept

\* Steps whose rows are left alone keep what they say.
LEMMA SameRows ==
  ASSUME steps' = steps PROVE RowsKept
BY DEF RowsKept, RowGrows

\* Settling, stopping and marking a step forgets nothing.
LEMMA RowsGrow ==
  ASSUME NEW s \in Step
  PROVE  /\ RowGrows(s, s)
         /\ RowGrows(s, RemoveMark(s)) /\ (RemoveMark(s).removed => s.removed \/ s.planned)
         /\ RowGrows(s, StopDeploy(s)) /\ StopDeploy(s).removed = s.removed
         /\ \A x, y : /\ RowGrows(s, SettleStep(s, x, y))
                      /\ SettleStep(s, x, y).removed = s.removed
         /\ \A x, y : LET b == RemoveMark(StopDeploy(SettleStep(s, x, y)))
                      IN RowGrows(s, b) /\ (b.removed => s.removed \/ s.planned)
BY DEF RowGrows, RemoveMark, StopDeploy, SettleStep, Step

\* Setting a field of a step forgets nothing, unless it is a receipt given up.
LEMMA FieldsGrow ==
  ASSUME NEW s \in Step, NEW x
  PROVE  /\ LET b == [s EXCEPT !.status = x] IN RowGrows(s, b) /\ b.removed = s.removed
         /\ LET b == [s EXCEPT !.gen = x] IN RowGrows(s, b) /\ b.removed = s.removed
         /\ LET b == [s EXCEPT !.planned = TRUE] IN RowGrows(s, b) /\ b.removed = s.removed
         /\ LET b == [s EXCEPT !.created = TRUE] IN RowGrows(s, b) /\ b.removed = s.removed
         /\ \A y : LET b == [s EXCEPT !.status = x, !.code = y]
                  IN (s.code # NoCode => y = s.code) => RowGrows(s, b) /\ b.removed = s.removed
BY DEF RowGrows, Step

\* Settling some runs forgets nothing.
LEMMA SettledRows ==
  ASSUME steps \in [Runs -> [Steps -> Step]], NEW S, NEW x, NEW y,
         steps' = [q \in Runs |-> IF q \in S THEN Settle(steps[q], x, y) ELSE steps[q]]
  PROVE  RowsKept
<1>1. ASSUME NEW q \in Runs, NEW i \in Steps
      PROVE  /\ RowGrows(steps[q][i], steps'[q][i])
             /\ steps'[q][i].removed = steps[q][i].removed
  <2>1. steps'[q][i] \in {steps[q][i], SettleStep(steps[q][i], x, y)}
    BY DEF Settle
  <2>2. steps[q][i] \in Step
    OBVIOUS
  <2>. QED BY <2>1, <2>2, RowsGrow
<1>. QED BY <1>1 DEF RowsKept

\* Nothing but the host or a process changes.
LEMMA StoreIdle == UNCHANGED store => Transacts
BY SameRows DEF Transacts, store, RunsKept

\* The calls about a step leave the runs alone.
LEMMA StepCalls ==
  ASSUME IInv, NEW r \in Runs, NEW i \in Steps, StepNext(r, i)
  PROVE  Transacts
<1>1. UNCHANGED runs
  BY DEF StepNext, StepStarted, PlanContainer, BeginDeployment, ContainerCreated, StepFinished,
     RecoverStepExit, Receipt, ContainerRemoved, SetStep
<1>t. steps \in [Runs -> [Steps -> Step]] /\ steps[r][i] \in Step
  BY DEF IInv, TypeOK
<1> DEFINE Grows(s) == /\ RowGrows(steps[r][i], s)
                       /\ s.removed => steps[r][i].removed \/ steps[r][i].planned
<1>2. PICK s : steps' = [steps EXCEPT ![r][i] = s] /\ Grows(s)
  <2> DEFINE Goal == \E s : steps' = [steps EXCEPT ![r][i] = s] /\ Grows(s)
  <2>s. ASSUME NEW s, steps' = [steps EXCEPT ![r][i] = s], RowGrows(steps[r][i], s),
               s.removed = steps[r][i].removed
        PROVE  Goal
    BY <2>s
  <2>1. StepStarted(r, i) \/ PlanContainer(r, i) \/ ContainerCreated(r, i) => Goal
    BY <1>t, <2>s, FieldsGrow DEF StepStarted, PlanContainer, ContainerCreated, SetStep
  <2>2. ASSUME BeginDeployment(r, i) PROVE Goal
    <3>1. PICK g : steps' = [steps EXCEPT ![r][i].gen = g]
      BY <2>2 DEF BeginDeployment
    <3>2. steps' = [steps EXCEPT ![r][i] = [steps[r][i] EXCEPT !.gen = g]]
      BY <1>t, <3>1
    <3>. QED BY <1>t, <2>s, <3>2, FieldsGrow
  <2>3. ASSUME NEW x, NEW code, NEW rec, Receipt(r, i, x, code, rec),
               steps[r][i].code # NoCode => code = steps[r][i].code
        PROVE  Goal
    <3>1. steps' = [steps EXCEPT ![r][i].status = x, ![r][i].code = code]
      BY <2>3 DEF Receipt
    <3>2. steps' = [steps EXCEPT ![r][i] = [steps[r][i] EXCEPT !.status = x, !.code = code]]
      BY <1>t, <3>1
    <3>. QED BY <1>t, <2>3, <2>s, <3>2, FieldsGrow
  <2>4. steps[r][i].code # NoCode => ReceiptKept(r, i, TRUE) /\ ReceiptKept(r, i, FALSE)
    BY StatusFacts DEF ReceiptKept, IInv, ReceiptShape
  <2>5. \A x \in Results : StepFinished(r, i, x) => Goal
    BY <2>3, <2>4 DEF StepFinished, Receipt
  <2>6. ASSUME NEW code \in Codes, RecoverStepExit(r, i, code) PROVE Goal
    <3>1. PICK x : Receipt(r, i, x, code, TRUE)
      BY <2>6 DEF RecoverStepExit
    <3>2. ~ReceiptKept(r, i, TRUE)
      BY <3>1 DEF Receipt
    <3>. QED BY <2>3, <2>4, <3>1, <3>2
  <2>7. ContainerRemoved(r, i) => Goal
    BY <1>t, RowsGrow DEF ContainerRemoved, SetStep
  <2>. QED BY <2>1, <2>2, <2>5, <2>6, <2>7 DEF StepNext
<1>3. RowsKept
  BY <1>t, <1>2, RowsGrow DEF RowsKept
<1>. QED BY <1>1, <1>3 DEF Transacts, RunsKept, Next, RunNext

\* The transactions of a worker about a run keep every run that was handed out.
LEMMA StoreCalls ==
  ASSUME IInv, NEW r \in Runs
  PROVE  /\ \A w \in Workers : ClaimNext(w, r) => Transacts
         /\ DeadlinePasses(r) => Transacts
         /\ AllRemoved(r) => Transacts
         /\ ConfirmExecutionStopped(r) => Transacts
         /\ \A s \in Ended : Finish(r, s) => Transacts
         /\ Cancel(r) => Transacts
<1>. USE DEF IInv, TypeOK, Run
<1>1. ASSUME NEW w \in Workers, ClaimNext(w, r)
      PROVE  RunsKept
  BY <1>1 DEF ClaimNext, Claimable, RunsKept, Ended
<1>2. DeadlinePasses(r) => RunsKept
  BY DEF DeadlinePasses, RunsKept
<1>3. AllRemoved(r) \/ ConfirmExecutionStopped(r) => RunsKept
  BY DEF AllRemoved, ConfirmExecutionStopped, RunsKept
<1>4. ASSUME NEW s \in Ended, Finish(r, s)
      PROVE  RunsKept
  <2>1. runs' = [q \in Runs |->
          IF q \in {r} THEN [runs[q] EXCEPT !.status = s, !.token = FALSE] ELSE runs[q]]
    BY <1>4 DEF Finish, FinishRuns
  <2>. QED BY <2>1 DEF RunsKept
<1>5. Cancel(r) => RunsKept
  BY DEF Cancel, RunsKept, Ended
<1>t. \A q \in Runs, i \in Steps : steps[q][i] \in Step
  OBVIOUS
<1>6. \A w \in Workers : ClaimNext(w, r) \/ DeadlinePasses(r) => RowsKept
  BY SameRows DEF ClaimNext, DeadlinePasses
<1>7. DeadlinePasses(r) => RowsKept
  BY SameRows DEF DeadlinePasses
<1>8. AllRemoved(r) \/ ConfirmExecutionStopped(r) => RowsKept
  BY <1>t, RowsGrow DEF AllRemoved, ConfirmExecutionStopped, RowsKept
<1>9. ASSUME NEW s \in Ended, Finish(r, s) PROVE RowsKept
  <2>1. PICK x, y : FinishRuns({r}, s, x, y)
    BY <1>9 DEF Finish
  <2>2. steps \in [Runs -> [Steps -> Step]]
    OBVIOUS
  <2>3. steps' = [q \in Runs |-> IF q \in {r} THEN Settle(steps[q], x, y) ELSE steps[q]]
    BY <2>1 DEF FinishRuns
  <2>. QED BY ONLY <2>2, <2>3, SettledRows
<1>10. Cancel(r) => RowsKept
  BY <1>t, RowsGrow, SameRows DEF Cancel, Settle, RowsKept
<1>. QED BY <1>1, <1>2, <1>3, <1>4, <1>5, <1>6, <1>7, <1>8, <1>9, <1>10 DEF Transacts, Next, RunNext

\* What recovery and cleanup do with an exit is a call about its step, or none.
LEMMA ExitCalls ==
  ASSUME NEW r \in Runs, NEW i \in Steps, NEW s, ExitRecorded(r, i, s)
  PROVE  UNCHANGED store \/ StepNext(r, i)
<1>1. ExitCode(s) \in Codes \ {NoCode}
  BY DEF ExitCode, Codes, NoCode
<1>. QED BY <1>1 DEF ExitRecorded, StepNext

\* Ending a run is a step of the store, or none.
LEMMA StoreEnding ==
  ASSUME IInv, NEW r \in Runs, NEW s \in Ended, Ending(r, s)
  PROVE  Transacts
BY StoreCalls, StoreIdle DEF Ending

----------------------------------------------------------------------------
(* Every step of the workers and of the world is one of the store, or none. *)

\* The calls a worker makes about the run it recovers.
LEMMA RecoverCalls ==
  ASSUME ExecInv, NEW w \in Workers, RecoverNext(w)
  PROVE  \/ UNCHANGED store
         \/ /\ Mine(w) \in Runs
            /\ \/ ConfirmExecutionStopped(Mine(w))
               \/ Ending(Mine(w), "failed")
               \/ \E i \in Steps : StepNext(Mine(w), i)
<1>0. proc[w].pc \in Recovering => Mine(w) \in Runs
  BY StandsOn
<1>1. CASE Survey(w) \/ RecoverLock(w) \/ RecoverSweep(w) \/ RecoverAbort(w)
  BY <1>1 DEF Survey, RecoverLock, RecoverSweep, RecoverAbort
<1>2. CASE RecoverBox(w)
  <2>0. Mine(w) \in Runs
    BY <1>0, <1>2 DEF RecoverBox, At, Recovering
  <2>1. PICK i \in proc[w].todo :
          UNCHANGED store \/ ExitRecorded(Mine(w), i, box[Engine[w]][Mine(w)][i])
    BY <1>2 DEF RecoverBox, Call
  <2>2. i \in Steps
    BY DEF ExecInv, ExecTypeOK, Process
  <2>. QED BY <2>0, <2>1, <2>2, ExitCalls
<1>3. CASE RecoverStopped(w)
  BY <1>0, <1>3 DEF RecoverStopped, At, Recovering, Call
<1>4. CASE RecoverFinish(w)
  BY <1>0, <1>4 DEF RecoverFinish, At, Recovering, Call
<1>5. CASE RecoverRemove(w)
  <2>0. Mine(w) \in Runs
    BY <1>0, <1>5 DEF RecoverRemove, At, Recovering
  <2>1. PICK i \in proc[w].todo : UNCHANGED store \/ ContainerRemoved(Mine(w), i)
    BY <1>5 DEF RecoverRemove, Call
  <2>2. i \in Steps
    BY DEF ExecInv, ExecTypeOK, Process
  <2>. QED BY <2>0, <2>1, <2>2 DEF StepNext
<1>. QED BY <1>1, <1>2, <1>3, <1>4, <1>5 DEF RecoverNext

\* Recovery makes transactions of the store.
LEMMA RecoverStore ==
  ASSUME ExecInv, IInv, NEW w \in Workers, RecoverNext(w)
  PROVE  Transacts
BY RecoverCalls, StoreCalls, StepCalls, StoreEnding, StoreIdle DEF Ended

\* The calls a worker makes about the run it executes.
LEMMA ExecuteCalls ==
  ASSUME ExecInv, NEW w \in Workers, ExecuteNext(w)
  PROVE  \/ UNCHANGED store
         \/ \E r \in Runs : ClaimNext(w, r)
         \/ /\ Mine(w) \in Runs
            /\ \/ \E i \in Steps : StepNext(Mine(w), i)
               \/ \E s \in Ended : Ending(Mine(w), s)
<1>0. /\ proc[w].pc \in Claimed => Mine(w) \in Runs
      /\ proc[w].pc \in Stepping => CurrentStep(w) \in Steps
      /\ At(w, "next") /\ proc[w].todo # {} => CurrentStep(w) \in Steps
  BY StandsOn, CurrentStepIsStep DEF ExecInv
<1>1. CASE \/ ClaimNothing(w) \/ Enter(w) \/ Fetch(w) \/ Create(w) \/ StartBox(w) \/ Wait(w)
           \/ Cleanup(w) \/ RemoveBox(w) \/ SweepRun(w)
  BY <1>1 DEF ClaimNothing, Enter, Fetch, Create, StartBox, Wait, Cleanup, RemoveBox, SweepRun
<1>2. CASE Claim(w)
  BY <1>2 DEF Claim, Call
<1>3. CASE StartStep(w)
  <2>1. \/ UNCHANGED store
        \/ proc[w].todo # {} /\ At(w, "next") /\ StepStarted(Mine(w), CurrentStep(w))
    BY <1>3 DEF StartStep, Call
  <2>. QED BY <1>0, <2>1 DEF StepNext, At, Claimed, Inside
<1>4. CASE PlanBox(w)
  <2>1. UNCHANGED store \/ (At(w, "plan") /\ PlanContainer(Mine(w), CurrentStep(w)))
    BY <1>4 DEF PlanBox, RunCall, Call
  <2>. QED BY <1>0, <2>1 DEF StepNext, At, Claimed, Stepping, Inside
<1>5. CASE Begin(w)
  <2>1. UNCHANGED store \/ (At(w, "begin") /\ BeginDeployment(Mine(w), CurrentStep(w)))
    BY <1>5 DEF Begin, RunCall, Call
  <2>. QED BY <1>0, <2>1 DEF StepNext, At, Claimed, Stepping, Inside
<1>6. CASE Created(w)
  <2>1. UNCHANGED store \/ (At(w, "created") /\ ContainerCreated(Mine(w), CurrentStep(w)))
    BY <1>6 DEF Created, RunCall, Call
  <2>. QED BY <1>0, <2>1 DEF StepNext, At, Claimed, Stepping, Inside
<1>7. CASE Record(w)
  <2>1. UNCHANGED store \/ (At(w, "receipt") /\ StepFinished(Mine(w), CurrentStep(w), proc[w].x))
    BY <1>7 DEF Record, Call
  <2>2. At(w, "receipt") => proc[w].x \in Results
    BY DEF ExecInv, Placed, At
  <2>. QED BY <1>0, <2>1, <2>2 DEF StepNext, At, Claimed, Stepping, Inside
<1>8. CASE Removed(w)
  <2>1. UNCHANGED store \/ (At(w, "removed") /\ ContainerRemoved(Mine(w), CurrentStep(w)))
    BY <1>8 DEF Removed, Call
  <2>. QED BY <1>0, <2>1 DEF StepNext, At, Claimed, Stepping, Inside
<1>9. CASE FinishRun(w)
  <2>1. At(w, "finish") /\ (UNCHANGED store \/ Ending(Mine(w), proc[w].out))
    BY <1>9 DEF FinishRun, Call
  <2>2. Mine(w) \in Runs /\ proc[w].out \in Ended
    BY <1>0, <2>1 DEF ExecInv, Placed, At, Claimed
  <2>. QED BY <2>1, <2>2
<1>. QED BY <1>1, <1>2, <1>3, <1>4, <1>5, <1>6, <1>7, <1>8, <1>9 DEF ExecuteNext

\* Executing a run makes transactions of the store.
LEMMA ExecuteStore ==
  ASSUME ExecInv, IInv, NEW w \in Workers, ExecuteNext(w)
  PROVE  Transacts
BY ExecuteCalls, StoreCalls, StepCalls, StoreEnding, StoreIdle

\* The calls a cleanup pass makes about the runs it locked.
LEMMA SweepCalls ==
  ASSUME ExecInv, NEW w \in Workers, SweepNext(w)
  PROVE  \/ UNCHANGED store
         \/ \E r \in clean[w].held :
              /\ r \in Runs
              /\ \/ ConfirmExecutionStopped(r) \/ AllRemoved(r)
                 \/ \E i \in Steps : StepNext(r, i)
<1>0. /\ clean[w].boxes \subseteq Runs \X Steps /\ clean[w].held \subseteq Runs
      /\ clean[w].pc = "stop" => \A b \in clean[w].boxes : b[1] \in clean[w].held
  BY DEF ExecInv, ExecTypeOK, Sweep, HoldsLock
<1>1. CASE SweepList(w) \/ SweepQuery(w) \/ SweepLock(w) \/ SweepDirs(w) \/ SweepAbort(w)
  BY <1>1 DEF SweepList, SweepQuery, SweepLock, SweepDirs, SweepAbort
<1>2. CASE SweepBox(w)
  <2>1. PICK b \in clean[w].boxes :
          UNCHANGED store \/ ExitRecorded(b[1], b[2], box[Engine[w]][b[1]][b[2]])
    BY <1>2 DEF SweepBox, Call
  <2>2. b[1] \in clean[w].held /\ b[1] \in Runs /\ b[2] \in Steps
    BY <1>0, <1>2 DEF SweepBox
  <2>. QED BY <2>1, <2>2, ExitCalls
<1>3. CASE SweepConfirm(w)
  <2>1. PICK r \in clean[w].held \ clean[w].done :
          UNCHANGED store \/ ConfirmExecutionStopped(r) \/ AllRemoved(r)
    BY <1>3 DEF SweepConfirm, Call
  <2>. QED BY <1>0, <2>1
<1>. QED BY <1>1, <1>2, <1>3 DEF SweepNext

\* A cleanup pass makes transactions of the store.
LEMMA SweepStore ==
  ASSUME ExecInv, IInv, NEW w \in Workers, SweepNext(w)
  PROVE  Transacts
BY SweepCalls, StoreCalls, StepCalls, StoreIdle

\* A transaction about workers keeps every run that was handed out.
LEMMA WorkerCalls ==
  ASSUME IInv, NEW w \in Workers,
         \/ RegisterWorker(w) \/ Heartbeat(w) \/ StopWorker(w) \/ BeatAges(w)
         \/ ReleaseLostWorker(w, Runs)
  PROVE  Transacts
<1>1. Next
  BY DEF Next, WorkerNext
<1>2. CASE RegisterWorker(w) \/ Heartbeat(w) \/ StopWorker(w) \/ BeatAges(w)
  BY <1>1, <1>2, SameRows
     DEF RegisterWorker, Heartbeat, StopWorker, BeatAges, SetWorker, Transacts, RunsKept
<1>3. CASE ReleaseLostWorker(w, Runs)
  <2>1. PICK S \in SUBSET Runs : runs' = [r \in Runs |->
          IF r \in S THEN [runs[r] EXCEPT !.status = "failed", !.token = FALSE] ELSE runs[r]]
    BY <1>3 DEF ReleaseLostWorker
  <2>2. RunsKept
    BY <2>1 DEF RunsKept, IInv, TypeOK, Run, Ended
  <2>3. \A r \in Runs, i \in Steps :
          LET s == steps[r][i]
          IN steps'[r][i] \in {s, RemoveMark(s), RemoveMark(StopDeploy(SettleStep(s, "failed", "skipped")))}
    BY <1>3 DEF ReleaseLostWorker
  <2>4. RowsKept
    BY <2>3, RowsGrow DEF RowsKept, IInv, TypeOK
  <2>. QED BY <1>1, <2>2, <2>4 DEF Transacts
<1>. QED BY <1>2, <1>3

\* Creating a run keeps every run that was handed out.
LEMMA SubmitCalls ==
  ASSUME IInv,
         \/ \E f \in Refs, p \in Plans : Start(f, p) \/ PushRun(f, p)
         \/ BeginOperation("push")
  PROVE  Transacts
<1>1. Next
  BY DEF Next, RepoNext
<1>2. CASE BeginOperation("push")
  BY <1>1, <1>2, SameRows DEF BeginOperation, Transacts, RunsKept
<1>3. ASSUME NEW f \in Refs, NEW p \in Plans, NEW tr, CreateTx(f, tr, p)
      PROVE  RunsKept /\ RowsKept
  <2>1. counter + 1 \in Runs /\ runs[counter + 1].status = "absent"
    BY <1>3, ConstantsOK DEF CreateTx, IInv, TypeOK, Unborn, Runs
  <2>2. \A q \in Runs : runs[q].status \in Ended \cup {"running"} => runs'[q] = runs[q]
    BY <1>3, <2>1 DEF CreateTx, Superseded, QueuedOn, Ended
  <2>3. \A q \in Runs, i \in Steps :
          LET s == steps[q][i]
          IN \/ steps'[q][i] \in {s, SettleStep(s, "running", "cancelled")}
             \/ q = counter + 1 /\ steps'[q][i].removed = FALSE
    <3>1. \A i \in Steps : CreateSteps(p)[i].removed = FALSE
      BY DEF CreateSteps, NoSteps, StepRow
    <3>. QED BY <1>3, <3>1 DEF CreateTx, Supersede, Settle
  <2>4. RowsKept
    <3> SUFFICES ASSUME NEW q \in Runs, NEW i \in Steps
                 PROVE  /\ HandedOut(q) => RowGrows(steps[q][i], steps'[q][i])
                        /\ steps'[q][i].removed => steps[q][i].removed \/ steps[q][i].planned
      BY DEF RowsKept
    <3>1. CASE steps'[q][i] \in {steps[q][i], SettleStep(steps[q][i], "running", "cancelled")}
      <4>1. steps[q][i] \in Step
        BY DEF IInv, TypeOK
      <4>. QED BY <3>1, <4>1, RowsGrow
    <3>2. CASE q = counter + 1 /\ steps'[q][i].removed = FALSE
      BY <2>1, <3>2 DEF HandedOut, Ended
    <3>. QED BY <2>3, <3>1, <3>2
  <2>. QED BY <2>2, <2>4 DEF RunsKept
<1>. QED BY <1>1, <1>2, <1>3 DEF Start, PushRun, Transacts

\* The reaper keeps every run that was handed out.
LEMMA ReapCalls ==
  ASSUME IInv, FailLostRuns(LostRuns)
  PROVE  Transacts
<1>1. Next
  BY DEF Next, RepoNext, LostRuns
<1>2. RunsKept
  BY DEF FailLostRuns, FinishRuns, RunsKept, IInv, TypeOK, Run, Ended
<1>3. RowsKept
  BY SettledRows DEF FailLostRuns, FinishRuns, IInv, TypeOK
<1>. QED BY <1>1, <1>2, <1>3 DEF Transacts

\* Heartbeats, stops, the operator and the people using the program make
\* transactions of the store.
LEMMA WorldStore ==
  ASSUME ExecInv, IInv,
         \/ \E w \in Workers : \/ Boot(w) \/ Exit(w) \/ BeatNext(w) \/ SignalNext(w)
                               \/ FaultNext(w) \/ Heal(w) \/ Age(w)
         \/ \E r \in Runs : CancelRun(r) \/ Deadline(r)
         \/ \E e \in Engines, r \in Runs, i \in Steps : ScriptExits(e, r, i)
         \/ Submit
  PROVE  Transacts
<1>1. ASSUME NEW w \in Workers, Boot(w) \/ Exit(w)
      PROVE  Transacts
  BY <1>1, WorkerCalls, StoreIdle DEF Boot, Exit
<1>2. ASSUME NEW w \in Workers, BeatNext(w)
      PROVE  Transacts
  BY <1>2, WorkerCalls, StoreIdle, ReapCalls DEF BeatNext, Beat, Mature, Reap
<1>3. ASSUME NEW w \in Workers, SignalNext(w) \/ Heal(w)
      PROVE  Transacts
  BY <1>3, StoreIdle DEF SignalNext, Watch, Interrupt, Heal
<1>4. ASSUME NEW w \in Workers, FaultNext(w)
      PROVE  Transacts
  BY <1>4, WorkerCalls, StoreIdle DEF FaultNext, Cut, Crash, Shutdown, DiskBudget, Release
<1>5. ASSUME NEW w \in Workers, Age(w)
      PROVE  Transacts
  BY <1>5, WorkerCalls DEF Age
<1>6. ASSUME NEW r \in Runs, CancelRun(r) \/ Deadline(r)
      PROVE  Transacts
  BY <1>6, StoreCalls DEF CancelRun, Deadline
<1>7. ASSUME NEW e, NEW r, NEW i, ScriptExits(e, r, i)
      PROVE  Transacts
  BY <1>7, StoreIdle DEF ScriptExits
<1>8. Submit => Transacts
  BY SubmitCalls DEF Submit
<1>. QED BY <1>1, <1>2, <1>3, <1>4, <1>5, <1>6, <1>7, <1>8

\* Every step of execution is a transaction of the store, or changes nothing
\* of it, and takes no run from its worker.
LEMMA StoreStep == ExecInv /\ IInv /\ [ExecNext]_vars => Transacts
<1> SUFFICES ASSUME ExecInv, IInv, [ExecNext]_vars PROVE Transacts
  OBVIOUS
<1>1. CASE UNCHANGED vars
  BY <1>1, StoreIdle DEF vars
<1>2. CASE ExecNext
  BY <1>2, RecoverStore, ExecuteStore, SweepStore, WorldStore DEF ExecNext, MainNext
<1>. QED BY <1>1, <1>2

----------------------------------------------------------------------------
(* Typed hosts.                                                            *)

BoxesTyped == box \in [Engines -> [Runs -> [Steps -> BoxState]]]
LocksTyped == lock \in [Engines -> [Runs -> {Free} \cup (Workers \X {"main", "clean"})]]
DirsTyped == ws \in [Engines -> [Runs -> BOOLEAN]]

\* A worker's engine is one of the hosts.
LEMMA EngineTyped == \A w \in Workers : Engine[w] \in Engines
BY ExecConstantsOK

\* Setting a container keeps the engines typed.
LEMMA SetBoxTyped ==
  ASSUME BoxesTyped, NEW w \in Workers, NEW r \in Runs, NEW i \in Steps, NEW s \in BoxState,
         SetBox(w, r, i, s)
  PROVE  BoxesTyped'
BY EngineTyped DEF BoxesTyped, SetBox

\* Releasing the locks of one goroutine keeps them typed.
LEMMA UnlockedTyped ==
  ASSUME LocksTyped, NEW w \in Workers, NEW who, lock' = Unlocked(w, who, Runs)
  PROVE  LocksTyped'
BY DEF LocksTyped, Unlocked

\* Making or deleting a workspace keeps them typed.
LEMMA DirTyped ==
  ASSUME DirsTyped, NEW w \in Workers, NEW r \in Runs, NEW b \in BOOLEAN,
         ws' = [ws EXCEPT ![Engine[w]][r] = b]
  PROVE  /\ DirsTyped'
         /\ \A e \in Engines, q \in Runs :
              ws'[e][q] = IF e = Engine[w] /\ q = r THEN b ELSE ws[e][q]
BY EngineTyped DEF DirsTyped

----------------------------------------------------------------------------
(* What a step of the main loop does to its process and its host.          *)

Locked == Inside \cup Recovering     \* the main loop holds its run's lock
Fenced == Inside \ {"fetch"}         \* the main loop has a workspace

\* The run's lock is kept, taken, or released with all others of the loop.
LockMove(w, p) ==
  \/ /\ UNCHANGED lock
     /\ p.pc \in Locked => proc[w].pc \in Locked /\ p.run = Mine(w)
  \/ /\ p.run \in Runs /\ lock[Engine[w]][p.run] = Free
     /\ lock' = [lock EXCEPT ![Engine[w]][p.run] = Held(w, "main")]
  \/ p.pc \notin Locked /\ lock' = Unlocked(w, "main", Runs)

\* The workspaces are left alone, or the run's own one is made or deleted.
DirMove(w, p) ==
  \/ /\ UNCHANGED ws
     /\ p.pc \in Fenced => proc[w].pc \in Fenced /\ p.run = Mine(w)
  \/ /\ proc[w].pc \in Claimed \cup Recovering
     /\ \E b \in BOOLEAN : /\ ws' = [ws EXCEPT ![Engine[w]][Mine(w)] = b]
                           /\ p.pc \in Fenced => b /\ p.run = Mine(w)

\* The loop works on the run it worked on, or on the one it claims.
ClaimMove(w, p) ==
  p.pc \in Claimed => \/ proc[w].pc \in Claimed /\ p.run = Mine(w)
                      \/ runs'[p.run].worker = w /\ runs'[p.run].status = "running"

Moves(w, p) ==
  /\ p \in Process /\ Placed(p)
  /\ proc' = [proc EXCEPT ![w] = p]
  /\ LockMove(w, p) /\ DirMove(w, p) /\ ClaimMove(w, p)

MainMoves(w) == BoxesTyped' /\ \E p : Moves(w, p)

\* A worker's process is one.
LEMMA ProcTyped ==
  ASSUME ExecInv, NEW w \in Workers
  PROVE  /\ proc[w] \in Process /\ Placed(proc[w])
         /\ BoxesTyped /\ LocksTyped /\ DirsTyped
         /\ UNCHANGED host => BoxesTyped'
BY DEF ExecInv, ExecTypeOK, BoxesTyped, LocksTyped, DirsTyped, host

\* Going on to p, in the same region of the loop.
LEMMA GoMoves ==
  ASSUME ExecInv, NEW w \in Workers, NEW p \in Process, Placed(p), Go(w, p),
         p.run = Mine(w),
         p.pc \in Locked => proc[w].pc \in Locked,
         p.pc \in Fenced => proc[w].pc \in Fenced,
         p.pc \in Claimed => proc[w].pc \in Claimed
  PROVE  MainMoves(w)
<1>1. Moves(w, p)
  BY DEF Moves, Go, host, LockMove, DirMove, ClaimMove
<1>. QED BY <1>1, ProcTyped DEF MainMoves, Go

\* Going back to drain.
LEMMA BackMoves ==
  ASSUME ExecInv, NEW w \in Workers, Back(w)
  PROVE  MainMoves(w)
<1> DEFINE p == Sleeping("idle", proc[w].quit)
<1>1. p \in Process /\ Placed(p) /\ p.pc = "idle"
  BY ProcTyped DEF Sleeping, Placed, Process, MainPC, NoRun, NoOutcome, NoResult,
     Claimed, Inside, Recovering, Stepping
<1>2. Moves(w, p)
  BY <1>1 DEF Back, Moves, LockMove, DirMove, ClaimMove, Locked, Fenced, Claimed, Inside, Recovering
<1>3. BoxesTyped'
  BY ProcTyped DEF Back, BoxesTyped
<1>. QED BY <1>2, <1>3 DEF MainMoves

\* Leaving execute with an outcome.
LEMMA LeaveMoves ==
  ASSUME ExecInv, NEW w \in Workers, NEW o \in Ended, proc[w].pc \in Claimed, Leave(w, o)
  PROVE  MainMoves(w)
<1> DEFINE p == [proc[w] EXCEPT !.pc = "finish", !.out = o, !.x = NoResult]
<1>1. p \in Process /\ Placed(p) /\ p.pc = "finish" /\ p.run = Mine(w)
  BY ProcTyped DEF Placed, Process, MainPC, Claimed, Inside, Recovering, Stepping, Mine
<1>2. proc' = [proc EXCEPT ![w] = p]
  BY DEF Leave, ExecInv, ExecTypeOK
<1> HIDE DEF p
<1>3. Moves(w, p)
  BY <1>1, <1>2 DEF Leave, Moves, LockMove, DirMove, ClaimMove, Locked, Fenced, Inside, Recovering
<1>4. BoxesTyped'
  BY ProcTyped DEF Leave, BoxesTyped
<1>. QED BY <1>3, <1>4 DEF MainMoves

\* runStep returns.
LEMMA ReturnMoves ==
  ASSUME ExecInv, NEW w \in Workers, NEW x \in Results, NEW o \in Ended \cup {NoOutcome},
         proc[w].pc \in Stepping, Return(w, x, o)
  PROVE  MainMoves(w)
<1> DEFINE p == [proc[w] EXCEPT !.pc = "receipt", !.x = x, !.out = o]
<1>1. p \in Process /\ Placed(p) /\ p.pc = "receipt" /\ p.run = Mine(w)
  BY ProcTyped DEF Placed, Process, MainPC, Claimed, Inside, Recovering, Stepping, Mine
<1> HIDE DEF p
<1>. QED BY <1>1, GoMoves DEF Return, p, Stepping, Locked, Fenced, Claimed, Inside

\* Going on to another place of runStep, at the same step.
LEMMA StageMoves ==
  ASSUME ExecInv, NEW w \in Workers, NEW pc \in Stepping \ {"receipt"}, proc[w].pc \in Fenced,
         proc[w].todo # {}, Go(w, [proc[w] EXCEPT !.pc = pc])
  PROVE  MainMoves(w)
<1> DEFINE p == [proc[w] EXCEPT !.pc = pc]
<1>1. p \in Process /\ Placed(p) /\ p.pc = pc /\ p.run = Mine(w)
  BY ProcTyped DEF Placed, Process, MainPC, Claimed, Inside, Recovering, Stepping, Fenced, Mine
<1> HIDE DEF p
<1>. QED BY <1>1, GoMoves DEF p, Stepping, Locked, Fenced, Claimed, Inside

----------------------------------------------------------------------------
(* The steps of the main loop.                                             *)

\* A step of the main loop leaves the other goroutines alone.
MainFrame == /\ UNCHANGED <<clean, link>>
             /\ faults' = faults \/ (faults < MaxFaults /\ faults' = faults + 1)

\* Booting, recovering and executing leave the other goroutines alone.
LEMMA MainFrames ==
  ASSUME NEW w \in Workers, Boot(w) \/ RecoverNext(w) \/ ExecuteNext(w)
  PROVE  MainFrame
<1>. USE DEF MainFrame, Call, RunCall, Fault
<1>1. CASE Boot(w)
  BY <1>1 DEF Boot
<1>2. CASE RecoverNext(w)
  BY <1>2 DEF RecoverNext, Survey, RecoverLock, RecoverBox, RecoverStopped, RecoverFinish,
     RecoverRemove, RecoverSweep, RecoverAbort
<1>3. CASE ExecuteNext(w)
  <2>1. CASE \/ Claim(w) \/ ClaimNothing(w) \/ Enter(w) \/ Fetch(w) \/ StartStep(w) \/ PlanBox(w)
             \/ Begin(w) \/ Create(w) \/ Created(w)
    BY <2>1 DEF Claim, ClaimNothing, Enter, Fetch, StartStep, PlanBox, Begin, Create, Created
  <2>2. CASE \/ StartBox(w) \/ Wait(w) \/ Cleanup(w) \/ Record(w) \/ RemoveBox(w) \/ Removed(w)
             \/ FinishRun(w) \/ SweepRun(w)
    BY <2>2 DEF StartBox, Wait, Cleanup, Record, RemoveBox, Removed, FinishRun, SweepRun
  <2>. QED BY <1>3, <2>1, <2>2 DEF ExecuteNext
<1>. QED BY <1>1, <1>2, <1>3

\* A step that only touches one container of the worker's own host.
LEMMA BoxMoves ==
  ASSUME ExecInv, NEW w \in Workers, NEW r \in Runs, NEW i \in Steps, NEW s \in BoxState,
         SetBox(w, r, i, s), UNCHANGED <<proc, lock, ws>>
  PROVE  MainMoves(w)
<1>1. proc' = [proc EXCEPT ![w] = proc[w]]
  BY DEF ExecInv, ExecTypeOK
<1>2. Moves(w, proc[w])
  BY <1>1, ProcTyped DEF Moves, LockMove, DirMove, ClaimMove, Mine
<1>. QED BY <1>2, ProcTyped, SetBoxTyped DEF MainMoves

\* Recovery.
LEMMA RecoverMoves ==
  ASSUME ExecInv, NEW w \in Workers, RecoverNext(w)
  PROVE  MainMoves(w)
<1>t. /\ proc[w] \in Process /\ Placed(proc[w])
      /\ proc[w].pc \in Recovering => Mine(w) \in Runs
      /\ proc[w].todo \subseteq Steps
  BY ProcTyped, StandsOn DEF Process
<1>b. Back(w) => MainMoves(w)
  BY BackMoves
<1>h. ASSUME NEW i, At(w, "rstop") \/ At(w, "rremove"), Go(w, Handled(w, i))
      PROVE  MainMoves(w)
  <2>1. Handled(w, i) \in Process /\ Placed(Handled(w, i)) /\ Handled(w, i).run = Mine(w)
        /\ Handled(w, i).pc = proc[w].pc
    BY <1>t, <1>h DEF Handled, Process, Placed, Mine, At, Stepping, Inside
  <2>. QED BY <1>h, <2>1, GoMoves
<1>1. CASE Survey(w)
  <2> DEFINE p == [proc[w] EXCEPT !.pc = IF RecoveryRuns(w) = {} THEN "ready" ELSE "recover",
                                  !.list = RecoveryRuns(w)]
  <2>1. RecoveryRuns(w) \subseteq Interrupted
    <3>1. \A B \in SUBSET Steps, r \in Runs, f \in BOOLEAN :
            [run |-> r, boxes |-> B, foreign |-> f] \in Interrupted
      BY DEF Interrupted
    <3>2. \A r \in Runs : {i \in Steps : Unremoved(steps[r][i])} \in SUBSET Steps
      OBVIOUS
    <3>3. \A r \in Runs : (runs[r].worker # w) \in BOOLEAN
      OBVIOUS
    <3>. QED BY <3>1, <3>2, <3>3 DEF RecoveryRuns
  <2>2. p \in Process /\ Placed(p) /\ p.run = Mine(w) /\ p.pc \in {"ready", "recover"}
    BY <1>t, <2>1 DEF Process, Placed, Mine, MainPC, Claimed, Recovering, Stepping, Inside
  <2>3. Go(w, p)
    BY <1>1 DEF Survey
  <2> HIDE DEF p
  <2>. QED BY <2>2, <2>3, GoMoves DEF Locked, Fenced, Claimed, Inside, Recovering
<1>2. CASE RecoverLock(w)
  <2>1. PICK d \in proc[w].list :
          \/ Back(w)
          \/ /\ lock[Engine[w]][d.run] = Free
             /\ proc' = [proc EXCEPT ![w].pc = "rstop", ![w].list = @ \ {d}, ![w].run = d.run,
                                    ![w].todo = d.boxes, ![w].all = d.boxes]
             /\ lock' = [lock EXCEPT ![Engine[w]][d.run] = Held(w, "main")]
             /\ UNCHANGED <<box, ws>>
    BY <1>2 DEF RecoverLock
  <2>2. d \in Interrupted
    BY <1>t DEF Process
  <2> DEFINE p == [proc[w] EXCEPT !.pc = "rstop", !.list = @ \ {d}, !.run = d.run,
                                  !.todo = d.boxes, !.all = d.boxes]
  <2>3. p \in Process /\ Placed(p) /\ p.run = d.run /\ d.run \in Runs /\ p.pc = "rstop"
    BY <1>t, <2>2 DEF Process, Placed, MainPC, Claimed, Recovering, Stepping, Inside, Interrupted
  <2>4. CASE ~Back(w)
    <3>1. proc' = [proc EXCEPT ![w] = p]
      BY <2>1, <2>4 DEF ExecInv, ExecTypeOK
    <3> HIDE DEF p
    <3>2. Moves(w, p)
      BY <2>1, <2>3, <2>4, <3>1
         DEF Moves, LockMove, DirMove, ClaimMove, Fenced, Claimed, Inside
    <3>. QED BY <2>1, <2>4, <3>2, ProcTyped DEF MainMoves, BoxesTyped
  <2>. QED BY <1>b, <2>4
<1>3. CASE RecoverBox(w)
  <2>1. PICK i \in proc[w].todo :
          \/ Go(w, Handled(w, i))
          \/ Back(w)
          \/ SetBox(w, Mine(w), i, "exited1") /\ UNCHANGED <<proc, lock, ws>>
    BY <1>3 DEF RecoverBox, Call
  <2>2. At(w, "rstop") /\ Mine(w) \in Runs /\ i \in Steps
    BY <1>3, <1>t DEF RecoverBox, At, Recovering
  <2>. QED BY <1>b, <1>h, <2>1, <2>2, BoxMoves DEF BoxState
<1>4. CASE RecoverStopped(w)
  <2> DEFINE p == [proc[w] EXCEPT !.pc = "rfinish"]
  <2>1. At(w, "rstop") /\ (Go(w, p) \/ Back(w))
    BY <1>4 DEF RecoverStopped, Call
  <2>2. p \in Process /\ Placed(p) /\ p.run = Mine(w) /\ p.pc = "rfinish"
    BY <1>t, <2>1 DEF Process, Placed, Mine, At, MainPC, Claimed, Recovering, Stepping, Inside
  <2> HIDE DEF p
  <2>. QED BY <1>b, <2>1, <2>2, GoMoves DEF At, Locked, Fenced, Claimed, Inside, Recovering
<1>5. CASE RecoverFinish(w)
  <2> DEFINE p == [proc[w] EXCEPT !.pc = "rremove", !.todo = proc[w].all]
  <2>1. At(w, "rfinish") /\ (Go(w, p) \/ Back(w))
    BY <1>5 DEF RecoverFinish, Call
  <2>2. p \in Process /\ Placed(p) /\ p.run = Mine(w) /\ p.pc = "rremove"
    BY <1>t, <2>1 DEF Process, Placed, Mine, At, MainPC, Claimed, Recovering, Stepping, Inside
  <2> HIDE DEF p
  <2>. QED BY <1>b, <2>1, <2>2, GoMoves DEF At, Locked, Fenced, Claimed, Inside, Recovering
<1>6. CASE RecoverRemove(w)
  <2>1. PICK i \in proc[w].todo :
          \/ Go(w, Handled(w, i))
          \/ Back(w)
          \/ SetBox(w, Mine(w), i, "none") /\ UNCHANGED <<proc, lock, ws>>
    BY <1>6 DEF RecoverRemove, Call
  <2>2. At(w, "rremove") /\ Mine(w) \in Runs /\ i \in Steps
    BY <1>6, <1>t DEF RecoverRemove, At, Recovering
  <2>. QED BY <1>b, <1>h, <2>1, <2>2, BoxMoves DEF BoxState
<1>7. CASE RecoverSweep(w)
  <2> DEFINE p == IF proc[w].list # {}
                  THEN [proc[w] EXCEPT !.pc = "recover", !.run = NoRun, !.all = {}]
                  ELSE Sleeping("ready", proc[w].quit)
  <2>1. p \in Process /\ Placed(p) /\ p.pc \in {"recover", "ready"}
    BY <1>t DEF Process, Placed, MainPC, Claimed, Recovering, Stepping, Inside, Sleeping,
       NoRun, NoOutcome, NoResult
  <2>2. /\ At(w, "rremove") /\ UNCHANGED box
        /\ ws' = [ws EXCEPT ![Engine[w]][Mine(w)] = FALSE]
        /\ UNCHANGED lock \/ lock' = Unlocked(w, "main", Runs)
        /\ proc' = [proc EXCEPT ![w] = p]
    BY <1>7 DEF RecoverSweep, ExecInv, ExecTypeOK
  <2> HIDE DEF p
  <2>3. Moves(w, p)
    BY <2>1, <2>2 DEF Moves, LockMove, DirMove, ClaimMove, At, Locked, Fenced, Claimed, Inside,
       Recovering
  <2>. QED BY <2>2, <2>3, ProcTyped DEF MainMoves, BoxesTyped
<1>8. RecoverAbort(w) => MainMoves(w)
  BY <1>b DEF RecoverAbort
<1>. QED BY <1>1, <1>2, <1>3, <1>4, <1>5, <1>6, <1>7, <1>8 DEF RecoverNext

\* Executing a run.
LEMMA ExecuteMoves ==
  ASSUME ExecInv, IInv, NEW w \in Workers, ExecuteNext(w)
  PROVE  MainMoves(w)
<1>t. /\ proc[w] \in Process /\ Placed(proc[w])
      /\ proc[w].pc \in Claimed => Mine(w) \in Runs
      /\ proc[w].pc \in Stepping => CurrentStep(w) \in Steps
      /\ proc \in [Workers -> Process]
  BY ProcTyped, StandsOn DEF ExecInv, ExecTypeOK
<1>p. ASSUME NEW pc, At(w, pc)
      PROVE  /\ pc \in Stepping => /\ proc[w].pc \in Stepping \cap Claimed \cap Fenced \cap Locked
                                   /\ proc[w].todo # {}
             /\ pc \in Claimed => proc[w].pc \in Claimed
  BY <1>t, <1>p DEF At, Placed, Stepping, Claimed, Fenced, Locked
<1>b. Back(w) \/ RecoveryRequired(w) => MainMoves(w)
  BY BackMoves DEF RecoveryRequired
<1>l. ASSUME NEW o \in Ended, proc[w].pc \in Claimed, Leave(w, o)
      PROVE  MainMoves(w)
  BY <1>l, LeaveMoves
<1>s. StopOutcome(w) \in Ended /\ "failed" \in Ended /\ "passed" \in Ended /\ "cancelled" \in Ended
  BY DEF StopOutcome, Ended
<1>x. /\ Failed \in Results /\ Cancelled \in Results /\ <<"skipped", NoCode>> \in Results
      /\ \A s : <<ExitStatus(s), ExitCode(s)>> \in Results
  BY DEF Failed, Cancelled, Results, ExitStatus, ExitCode
<1>r. ASSUME NEW x \in Results, NEW o \in Ended \cup {NoOutcome}, proc[w].pc \in Stepping,
             Return(w, x, o)
      PROVE  MainMoves(w)
  BY <1>r, ReturnMoves
<1>g. ASSUME NEW pc \in Stepping \ {"receipt"}, proc[w].pc \in Fenced, proc[w].todo # {},
             Go(w, [proc[w] EXCEPT !.pc = pc])
      PROVE  MainMoves(w)
  BY <1>g, StageMoves
<1>c. ASSUME NEW s \in BoxState, NEW p \in Process, Placed(p), p.run = Mine(w),
             proc[w].pc \in Stepping, p.pc \in Stepping, proc' = [proc EXCEPT ![w] = p],
             SetBox(w, Mine(w), CurrentStep(w), s) \/ UNCHANGED box, UNCHANGED <<lock, ws>>
      PROVE  MainMoves(w)
  <2>1. Moves(w, p)
    BY <1>c DEF Moves, LockMove, DirMove, ClaimMove, Stepping, Fenced, Locked, Claimed
  <2>2. Mine(w) \in Runs /\ CurrentStep(w) \in Steps
    BY <1>t, <1>c DEF Stepping, Claimed
  <2>3. BoxesTyped'
    BY <1>c, <2>2, ProcTyped, SetBoxTyped DEF BoxesTyped
  <2>. QED BY <2>1, <2>3 DEF MainMoves
<1>1. CASE Claim(w)
  <2>1. PICK r \in Runs :
          \/ Back(w)
          \/ ClaimNext(w, r)
             /\ Go(w, [proc[w] EXCEPT !.pc = "claimed", !.run = r, !.todo = PendingSteps(r)])
    BY <1>1 DEF Claim, Call
  <2> DEFINE p == [proc[w] EXCEPT !.pc = "claimed", !.run = r, !.todo = PendingSteps(r)]
  <2>2. p \in Process /\ Placed(p) /\ p.pc = "claimed" /\ p.run = r
    BY <1>t DEF Process, Placed, MainPC, Claimed, Recovering, Stepping, Inside, PendingSteps
  <2> HIDE DEF p
  <2>3. CASE ClaimNext(w, r) /\ Go(w, p)
    <3>1. runs'[r].worker = w /\ runs'[r].status = "running"
      BY <2>3 DEF ClaimNext, IInv, TypeOK, Run
    <3>2. Moves(w, p)
      BY <2>2, <2>3, <3>1 DEF Moves, Go, host, LockMove, DirMove, ClaimMove, Locked, Fenced, Inside,
         Recovering
    <3>. QED BY <2>3, <3>2, ProcTyped DEF MainMoves, Go
  <2>. QED BY <1>b, <2>1, <2>3 DEF p
<1>2. ClaimNothing(w) => MainMoves(w)
  BY <1>b DEF ClaimNothing
<1>3. CASE Enter(w)
  <2> DEFINE p == [proc[w] EXCEPT !.pc = "fetch"]
  <2>1. \/ RecoveryRequired(w)
        \/ /\ lock[Engine[w]][Mine(w)] = Free
           /\ lock' = [lock EXCEPT ![Engine[w]][Mine(w)] = Held(w, "main")]
           /\ proc' = [proc EXCEPT ![w] = p]
           /\ UNCHANGED <<box, ws>>
    BY <1>3, <1>t DEF Enter
  <2>2. p \in Process /\ Placed(p) /\ p.pc = "fetch" /\ p.run = Mine(w) /\ Mine(w) \in Runs
        /\ proc[w].pc \in Claimed
    BY <1>3, <1>t DEF Enter, At, Process, Placed, MainPC, Claimed, Recovering, Stepping, Inside, Mine
  <2> HIDE DEF p
  <2>3. CASE ~RecoveryRequired(w)
    <3>1. Moves(w, p)
      BY <2>1, <2>2, <2>3 DEF Moves, LockMove, DirMove, ClaimMove, Fenced
    <3>. QED BY <2>1, <2>3, <3>1, ProcTyped DEF MainMoves, BoxesTyped
  <2>. QED BY <1>b, <2>3
<1>4. CASE Fetch(w)
  <2>0. proc[w].pc = "fetch" /\ proc[w].pc \in Claimed /\ proc[w].pc \in Locked
    BY <1>4 DEF Fetch, At, Claimed, Locked, Inside
  <2>g. ASSUME NEW p \in Process, Placed(p), p.run = Mine(w), NEW b \in BOOLEAN,
               proc' = [proc EXCEPT ![w] = p], UNCHANGED box,
               ws' = [ws EXCEPT ![Engine[w]][Mine(w)] = b],
               \/ p.pc = "next" /\ b /\ UNCHANGED lock
               \/ p.pc = "finish" /\ lock' = Unlocked(w, "main", Runs)
        PROVE  MainMoves(w)
    <3>1. Moves(w, p)
      BY <2>0, <2>g DEF Moves, LockMove, DirMove, ClaimMove, Locked, Fenced, Inside, Recovering
    <3>. QED BY <2>g, <3>1, ProcTyped DEF MainMoves, BoxesTyped
  <2>1. CASE /\ ws' = [ws EXCEPT ![Engine[w]][Mine(w)] = TRUE]
             /\ proc' = [proc EXCEPT ![w].pc = "next"]
             /\ UNCHANGED <<box, lock>>
    <3> DEFINE p == [proc[w] EXCEPT !.pc = "next"]
    <3>1. p \in Process /\ Placed(p) /\ p.run = Mine(w) /\ p.pc = "next"
          /\ proc' = [proc EXCEPT ![w] = p]
      BY <2>0, <2>1, <1>t
         DEF Process, Placed, MainPC, Claimed, Recovering, Stepping, Inside, Mine
    <3> HIDE DEF p
    <3>. QED BY <2>g, <2>1, <3>1
  <2>2. ASSUME NEW made \in BOOLEAN, ws' = [ws EXCEPT ![Engine[w]][Mine(w)] = made],
               NEW o \in Ended, proc' = [proc EXCEPT ![w].pc = "finish", ![w].out = o],
               lock' = Unlocked(w, "main", Runs), UNCHANGED box
        PROVE  MainMoves(w)
    <3> DEFINE p == [proc[w] EXCEPT !.pc = "finish", !.out = o]
    <3>1. p \in Process /\ Placed(p) /\ p.run = Mine(w) /\ p.pc = "finish"
          /\ proc' = [proc EXCEPT ![w] = p]
      BY <2>0, <2>2, <1>t
         DEF Process, Placed, MainPC, Claimed, Recovering, Stepping, Inside, Mine
    <3> HIDE DEF p
    <3>. QED BY <2>g, <2>2, <3>1
  <2>. QED BY <1>4, <1>s, <2>1, <2>2 DEF Fetch
<1>5. CASE StartStep(w)
  <2>1. proc[w].pc = "next" /\ proc[w].pc \in Claimed /\ proc[w].pc \in Fenced
    BY <1>5 DEF StartStep, At, Claimed, Fenced, Inside
  <2>2. \/ \E o \in Ended : Leave(w, o)
        \/ proc[w].todo # {} /\ Go(w, [proc[w] EXCEPT !.pc = "plan"])
    BY <1>5, <1>s DEF StartStep, Call
  <2>. QED BY <1>l, <1>g, <2>1, <2>2 DEF Stepping, Inside
<1>6. CASE PlanBox(w)
  <2>1. \/ \E pc \in {"begin", "create"} : Go(w, [proc[w] EXCEPT !.pc = pc])
        \/ Return(w, Cancelled, "cancelled") \/ Return(w, Failed, "failed")
    BY <1>6 DEF PlanBox, RunCall, Call
  <2>2. At(w, "plan")
    BY <1>6 DEF PlanBox
  <2>. QED BY <1>p, <1>g, <1>r, <1>s, <1>x, <2>1, <2>2 DEF Stepping, Inside
<1>7. CASE Begin(w)
  <2>1. \/ Go(w, [proc[w] EXCEPT !.pc = "create"])
        \/ \E x \in {Failed, Cancelled, <<"skipped", NoCode>>},
              o \in {"failed", "cancelled", StopOutcome(w)} : Return(w, x, o)
    BY <1>7 DEF Begin, RunCall, Call
  <2>2. At(w, "begin")
    BY <1>7 DEF Begin
  <2>. QED BY <1>p, <1>g, <1>r, <1>s, <1>x, <2>1, <2>2 DEF Stepping, Inside
<1>8. CASE Create(w)
  <2>1. PICK pc \in {"created", "cleanup"}, s \in {"none", "created"} :
          /\ proc' = [proc EXCEPT ![w].pc = pc]
          /\ SetBox(w, Mine(w), CurrentStep(w), s)
          /\ UNCHANGED <<lock, ws>>
    BY <1>8 DEF Create
  <2> DEFINE p == [proc[w] EXCEPT !.pc = pc]
  <2>2. proc[w].pc \in Stepping /\ proc[w].todo # {}
    BY <1>8, <1>p DEF Create, Stepping, Inside
  <2>3. p \in Process /\ Placed(p) /\ p.run = Mine(w) /\ p.pc \in Stepping
        /\ proc' = [proc EXCEPT ![w] = p]
    BY <1>t, <2>1, <2>2 DEF Process, Placed, Mine, MainPC, Claimed, Recovering, Stepping, Inside
  <2> HIDE DEF p
  <2>. QED BY <1>c, <2>1, <2>2, <2>3 DEF BoxState
<1>9. CASE Created(w)
  <2>1. At(w, "created") /\ \E pc \in {"start", "cleanup"} : Go(w, [proc[w] EXCEPT !.pc = pc])
    BY <1>9 DEF Created, RunCall, Call, NotRecorded
  <2>. QED BY <1>p, <1>g, <2>1 DEF Stepping, Inside
<1>10. CASE StartBox(w)
  <2>1. PICK pc \in {"wait", "cleanup"} :
          /\ proc' = [proc EXCEPT ![w].pc = pc]
          /\ SetBox(w, Mine(w), CurrentStep(w), "running") \/ UNCHANGED box
          /\ UNCHANGED <<lock, ws>>
    BY <1>10 DEF StartBox
  <2> DEFINE p == [proc[w] EXCEPT !.pc = pc]
  <2>2. proc[w].pc \in Stepping /\ proc[w].todo # {}
    BY <1>10, <1>p DEF StartBox, Stepping, Inside
  <2>3. p \in Process /\ Placed(p) /\ p.run = Mine(w) /\ p.pc \in Stepping
        /\ proc' = [proc EXCEPT ![w] = p]
    BY <1>t, <2>1, <2>2 DEF Process, Placed, Mine, MainPC, Claimed, Recovering, Stepping, Inside
  <2> HIDE DEF p
  <2>. QED BY <1>c, <2>1, <2>2, <2>3 DEF BoxState
<1>11. CASE Wait(w)
  <2>1. At(w, "wait")
        /\ \/ Go(w, [proc[w] EXCEPT !.pc = "cleanup"])
           \/ \E o \in {"failed", NoOutcome} :
                Return(w, <<ExitStatus(MyBox(w)), ExitCode(MyBox(w))>>, o)
    BY <1>11 DEF Wait
  <2>. QED BY <1>p, <1>g, <1>r, <1>s, <1>x, <2>1 DEF Stepping, Inside
<1>12. CASE Cleanup(w)
  <2> DEFINE p == [proc[w] EXCEPT !.pc = "receipt", !.out = StopOutcome(w),
                     !.x = IF proc[w].stop = "cancel" THEN Cancelled ELSE Failed]
  <2>1. \/ RecoveryRequired(w)
        \/ /\ SetBox(w, Mine(w), CurrentStep(w), "none")
           /\ proc' = [proc EXCEPT ![w] = p]
           /\ UNCHANGED <<lock, ws>>
    BY <1>12, <1>t DEF Cleanup
  <2>2. proc[w].pc \in Stepping /\ proc[w].todo # {}
    BY <1>12, <1>p DEF Cleanup, Stepping, Inside
  <2>3. p \in Process /\ Placed(p) /\ p.run = Mine(w) /\ p.pc \in Stepping
    BY <1>t, <1>s, <1>x, <2>2 DEF Process, Placed, Mine, MainPC, Claimed, Recovering, Stepping, Inside
  <2> HIDE DEF p
  <2>. QED BY <1>b, <1>c, <2>1, <2>2, <2>3 DEF BoxState
<1>13. CASE Record(w)
  <2>1. At(w, "receipt") /\ (RecoveryRequired(w) \/ Go(w, [proc[w] EXCEPT !.pc = "rm"]))
    BY <1>13 DEF Record, Call
  <2>. QED BY <1>b, <1>p, <1>g, <2>1 DEF Stepping, Inside
<1>14. CASE RemoveBox(w)
  <2> DEFINE p == [proc[w] EXCEPT !.pc = "removed"]
  <2>1. \/ RecoveryRequired(w)
        \/ /\ SetBox(w, Mine(w), CurrentStep(w), "none")
           /\ proc' = [proc EXCEPT ![w] = p]
           /\ UNCHANGED <<lock, ws>>
    BY <1>14, <1>t DEF RemoveBox
  <2>2. proc[w].pc \in Stepping /\ proc[w].todo # {}
    BY <1>14, <1>p DEF RemoveBox, Stepping, Inside
  <2>3. p \in Process /\ Placed(p) /\ p.run = Mine(w) /\ p.pc \in Stepping
    BY <1>t, <2>2 DEF Process, Placed, Mine, MainPC, Claimed, Recovering, Stepping, Inside
  <2> HIDE DEF p
  <2>. QED BY <1>b, <1>c, <2>1, <2>2, <2>3 DEF BoxState
<1>15. CASE Removed(w)
  <2> DEFINE p == [proc[w] EXCEPT !.pc = "next", !.todo = @ \ {CurrentStep(w)}, !.x = NoResult]
  <2>1. At(w, "removed")
        /\ \/ RecoveryRequired(w) \/ Go(w, p)
           \/ proc[w].out # NoOutcome /\ Leave(w, proc[w].out)
    BY <1>15 DEF Removed, Call
  <2>2. proc[w].pc \in Claimed \cap Fenced \cap Locked
    BY <1>p, <2>1 DEF Stepping, Inside
  <2>3. proc[w].out # NoOutcome => proc[w].out \in Ended
    BY <1>t DEF Process
  <2>4. p \in Process /\ Placed(p) /\ p.run = Mine(w) /\ p.pc = "next"
    BY <1>t, <2>2 DEF Process, Placed, Mine, MainPC, Claimed, Recovering, Stepping, Inside
  <2> HIDE DEF p
  <2>. QED BY <1>b, <1>l, <2>1, <2>2, <2>3, <2>4, GoMoves
<1>16. CASE FinishRun(w)
  <2> DEFINE p == [proc[w] EXCEPT !.pc = "sweep"]
  <2>1. At(w, "finish") /\ (Back(w) \/ Go(w, p))
    BY <1>16 DEF FinishRun, Call
  <2>2. proc[w].pc \in Claimed
    BY <1>p, <2>1 DEF Claimed
  <2>3. p \in Process /\ Placed(p) /\ p.run = Mine(w) /\ p.pc = "sweep"
    BY <1>t, <2>2 DEF Process, Placed, Mine, MainPC, Claimed, Recovering, Stepping, Inside
  <2> HIDE DEF p
  <2>. QED BY <1>b, <2>1, <2>2, <2>3, GoMoves DEF Locked, Fenced, Inside, Recovering
<1>17. CASE SweepRun(w)
  <2> DEFINE p == Sleeping("idle", proc[w].quit)
  <2>1. At(w, "sweep") /\ proc' = [proc EXCEPT ![w] = p] /\ UNCHANGED <<box, lock>>
        /\ ws' = [ws EXCEPT ![Engine[w]][Mine(w)] = FALSE]
    BY <1>17 DEF SweepRun
  <2>2. p \in Process /\ Placed(p) /\ p.pc = "idle"
    BY <1>t DEF Process, Placed, MainPC, Claimed, Recovering, Stepping, Inside, Sleeping,
       NoRun, NoOutcome, NoResult
  <2>3. proc[w].pc \in Claimed
    BY <1>p, <2>1 DEF Claimed
  <2> HIDE DEF p
  <2>4. Moves(w, p)
    BY <2>1, <2>2, <2>3 DEF Moves, LockMove, DirMove, ClaimMove, Locked, Fenced, Claimed, Inside,
       Recovering
  <2>. QED BY <2>1, <2>4, ProcTyped DEF MainMoves, BoxesTyped
<1>. QED BY <1>1, <1>2, <1>3, <1>4, <1>5, <1>6, <1>7, <1>8, <1>9, <1>10, <1>11, <1>12, <1>13, <1>14,
            <1>15, <1>16, <1>17 DEF ExecuteNext

\* Taking and releasing locks leaves everybody else's alone.
LEMMA OthersKeepLocks ==
  ASSUME ExecInv, NEW w \in Workers, NEW p, LockMove(w, p),
         NEW v \in Workers, NEW r \in Runs
  PROVE  /\ LocksTyped'
         /\ lock[Engine[v]][r] = Held(v, "clean") => lock'[Engine[v]][r] = Held(v, "clean")
         /\ v # w /\ lock[Engine[v]][r] = Held(v, "main") => lock'[Engine[v]][r] = Held(v, "main")
<1>1. LocksTyped
  BY ProcTyped
<1>2. CASE UNCHANGED lock
  BY <1>1, <1>2 DEF LocksTyped
<1>3. CASE /\ p.run \in Runs /\ lock[Engine[w]][p.run] = Free
           /\ lock' = [lock EXCEPT ![Engine[w]][p.run] = Held(w, "main")]
  <2>1. \A e \in Engines, q \in Runs :
          lock'[e][q] = IF e = Engine[w] /\ q = p.run THEN Held(w, "main") ELSE lock[e][q]
    BY <1>1, <1>3, EngineTyped DEF LocksTyped
  <2>2. LocksTyped'
    BY <1>1, <1>3, EngineTyped DEF LocksTyped, Held
  <2>3. \A who \in {"main", "clean"} : Held(v, who) # Free
    BY DEF Held, Free
  <2>. QED BY <1>3, <2>1, <2>2, <2>3, EngineTyped
<1>4. CASE lock' = Unlocked(w, "main", Runs)
  <2>1. \A e \in Engines, q \in Runs :
          lock'[e][q] = IF lock[e][q] = Held(w, "main") THEN Free ELSE lock[e][q]
    BY <1>4 DEF Unlocked
  <2>. QED BY <1>1, <1>4, <2>1, UnlockedTyped, EngineTyped DEF Held
<1>. QED BY <1>2, <1>3, <1>4 DEF LockMove

\* A step of the main loop preserves the invariant.
LEMMA MainKeeps ==
  ASSUME ExecInv, RunsKept, NEW w \in Workers, MainMoves(w), MainFrame
  PROVE  ExecInv'
<1>1. PICK p : Moves(w, p)
  BY DEF MainMoves
<1>2. /\ p \in Process /\ Placed(p)
      /\ LockMove(w, p) /\ DirMove(w, p) /\ ClaimMove(w, p)
      /\ proc' \in [Workers -> Process]
      /\ \A v \in Workers : proc'[v] = IF v = w THEN p ELSE proc[v]
      /\ \A v \in Workers : proc[v] \in Process /\ Placed(proc[v])
  BY <1>1 DEF Moves, ExecInv, ExecTypeOK
<1>3. \A v \in Workers : Placed(proc'[v])
  BY <1>2
<1>4. \A v \in Workers : proc[v].pc \in Claimed \cup Recovering => Mine(v) \in Runs
  BY StandsOn
<1>5. ExecutesOwnRun'
  <2> SUFFICES ASSUME NEW v \in Workers, proc'[v].pc \in Claimed
               PROVE  /\ runs'[proc'[v].run].worker = v
                      /\ runs'[proc'[v].run].status \in Ended \cup {"running"}
    BY DEF ExecutesOwnRun, Mine
  <2>1. \A u \in Workers : proc[u].pc \in Claimed =>
          /\ runs'[proc[u].run].worker = u
          /\ runs'[proc[u].run].status \in Ended \cup {"running"}
    BY <1>4 DEF ExecInv, ExecutesOwnRun, RunsKept, Mine
  <2>2. CASE v # w
    BY <1>2, <2>1, <2>2
  <2>3. CASE v = w
    BY <1>2, <2>1, <2>3 DEF ClaimMove, Mine
  <2>. QED BY <2>2, <2>3
<1>6. DirsTyped' /\ LocksTyped' /\ BoxesTyped'
  <2>1. DirsTyped'
    BY <1>2, <1>4, ProcTyped, DirTyped DEF DirMove, DirsTyped
  <2>2. LocksTyped' \/ Runs = {}
    BY <1>2, OthersKeepLocks
  <2>3. Runs = {} => LocksTyped'
    BY <1>2, ProcTyped, UnlockedTyped DEF LockMove, LocksTyped
  <2>. QED BY <2>1, <2>2, <2>3 DEF MainMoves
<1>7. HoldsLock'
  <2> SUFFICES ASSUME NEW v \in Workers
               PROVE  /\ proc'[v].pc \in Locked => lock'[Engine[v]][proc'[v].run] = Held(v, "main")
                      /\ \A r \in clean[v].held : lock'[Engine[v]][r] = Held(v, "clean")
                      /\ clean[v].pc = "stop" => \A b \in clean[v].boxes : b[1] \in clean[v].held
    BY DEF HoldsLock, Mine, MainFrame, Locked
  <2>1. /\ proc[v].pc \in Locked => lock[Engine[v]][proc[v].run] = Held(v, "main")
        /\ \A r \in clean[v].held : lock[Engine[v]][r] = Held(v, "clean")
        /\ clean[v].pc = "stop" => \A b \in clean[v].boxes : b[1] \in clean[v].held
    BY DEF ExecInv, HoldsLock, Mine, Locked
  <2>2. clean[v].held \subseteq Runs
    BY DEF ExecInv, ExecTypeOK, Sweep
  <2>3. ASSUME v # w, proc[v].pc \in Locked
        PROVE  lock'[Engine[v]][proc[v].run] = Held(v, "main")
    BY <1>2, <1>4, <2>1, <2>3, OthersKeepLocks DEF Locked, Claimed, Mine
  <2>4. ASSUME v = w, p.pc \in Locked
        PROVE  lock'[Engine[v]][p.run] = Held(v, "main")
    <3>1. CASE UNCHANGED lock /\ proc[w].pc \in Locked /\ p.run = Mine(w)
      BY <2>1, <2>4, <3>1 DEF Mine
    <3>2. CASE /\ p.run \in Runs
               /\ lock' = [lock EXCEPT ![Engine[w]][p.run] = Held(w, "main")]
      BY <2>4, <3>2, ProcTyped, EngineTyped DEF LocksTyped
    <3>. QED BY <1>2, <2>4, <3>1, <3>2 DEF LockMove
  <2>. QED BY <1>2, <2>1, <2>2, <2>3, <2>4, OthersKeepLocks
<1>8. WorkspaceFenced'
  <2> SUFFICES ASSUME NEW v \in Workers, proc'[v].pc \in Fenced
               PROVE  ws'[Engine[v]][proc'[v].run]
    BY DEF WorkspaceFenced, Mine, Fenced
  <2>0. proc[v].pc \in Fenced => Mine(v) \in Runs /\ ws[Engine[v]][Mine(v)]
    BY <1>4 DEF ExecInv, WorkspaceFenced, Fenced, Claimed
  <2>1. CASE UNCHANGED ws /\ (p.pc \in Fenced => proc[w].pc \in Fenced /\ p.run = Mine(w))
    BY <1>2, <2>0, <2>1 DEF Mine
  <2>2. ASSUME proc[w].pc \in Claimed \cup Recovering, NEW b \in BOOLEAN,
               ws' = [ws EXCEPT ![Engine[w]][Mine(w)] = b],
               p.pc \in Fenced => b /\ p.run = Mine(w)
        PROVE  ws'[Engine[v]][proc'[v].run]
    <3>1. Mine(w) \in Runs
      BY <1>4, <2>2
    <3>2. \A e \in Engines, q \in Runs :
            ws'[e][q] = IF e = Engine[w] /\ q = Mine(w) THEN b ELSE ws[e][q]
      BY <2>2, <3>1, ProcTyped, EngineTyped DEF DirsTyped
    <3>3. CASE v = w
      BY <1>2, <2>2, <3>1, <3>2, <3>3, EngineTyped
    <3>4. CASE v # w
      <4>1. proc[v].pc \in Fenced /\ proc'[v] = proc[v]
        BY <1>2, <3>4
      <4>2. Engine[v] = Engine[w] => Mine(v) # Mine(w)
        BY <2>2, <3>4, <4>1 DEF ExecInv, ExecutesOwnRun, HoldsLock, Held, Fenced, Claimed
      <4>. QED BY <2>0, <3>2, <4>1, <4>2, EngineTyped DEF Mine
    <3>. QED BY <3>3, <3>4
  <2>. QED BY <1>2, <2>1, <2>2 DEF DirMove
<1>9. faults' \in 0 .. MaxFaults
  BY ExecConstantsOK DEF MainFrame, ExecInv, ExecTypeOK
<1>. QED
  BY <1>2, <1>3, <1>5, <1>6, <1>7, <1>8, <1>9
     DEF ExecInv, ExecTypeOK, MainFrame, BoxesTyped, LocksTyped, DirsTyped

----------------------------------------------------------------------------
(* The steps of a cleanup pass.                                            *)

\* The pass has the run's lock, and only cleans under it.
SweepMoves(w, c) ==
  /\ c \in Sweep
  /\ clean' = [clean EXCEPT ![w] = c]
  /\ \/ UNCHANGED lock /\ c.held \subseteq clean[w].held
     \/ \E r \in Runs : /\ lock[Engine[w]][r] = Free
                        /\ lock' = [lock EXCEPT ![Engine[w]][r] = Held(w, "clean")]
                        /\ c.held = clean[w].held \cup {r}
     \/ lock' = Unlocked(w, "clean", Runs) /\ c.held = {}
  /\ c.pc = "stop" => \A b \in c.boxes : b[1] \in c.held
  /\ \/ UNCHANGED ws
     \/ \E D \in SUBSET clean[w].held :
          ws' = [ws EXCEPT ![Engine[w]] = [r \in Runs |-> ws[Engine[w]][r] /\ r \notin D]]

CleanMoves(w) == BoxesTyped' /\ \E c : SweepMoves(w, c)

\* A step of a cleanup pass leaves the other goroutines alone.
SweepFrame == /\ UNCHANGED <<proc, link>>
              /\ faults' = faults \/ (faults < MaxFaults /\ faults' = faults + 1)

\* Only the pass itself changes.
LEMMA SetMoves ==
  ASSUME ExecInv, NEW w \in Workers, NEW c \in Sweep, SetSweep(w, c), UNCHANGED <<lock, ws>>,
         BoxesTyped', c.held \subseteq clean[w].held,
         c.pc = "stop" => \A b \in c.boxes : b[1] \in c.held
  PROVE  CleanMoves(w)
<1>1. SweepMoves(w, c)
  BY DEF SweepMoves, SetSweep
<1>. QED BY <1>1 DEF CleanMoves

\* A cleanup pass.
LEMMA SweepSteps ==
  ASSUME ExecInv, NEW w \in Workers, SweepNext(w)
  PROVE  CleanMoves(w) /\ SweepFrame
<1>t. /\ clean[w] \in Sweep
      /\ clean \in [Workers -> Sweep]
      /\ clean[w].pc = "stop" => \A b \in clean[w].boxes : b[1] \in clean[w].held
      /\ BoxesTyped /\ (UNCHANGED box => BoxesTyped')
  BY ProcTyped DEF ExecInv, ExecTypeOK, HoldsLock, BoxesTyped
<1>n. NoSweep \in Sweep /\ NoSweep.held = {} /\ NoSweep.pc = "idle"
  BY DEF NoSweep, Sweep
<1>f. SweepFrame
  <2>. USE DEF SweepFrame, Call, Fault
  <2>1. CASE SweepList(w) \/ SweepQuery(w) \/ SweepLock(w)
    BY <2>1 DEF SweepList, SweepQuery, SweepLock
  <2>2. CASE SweepBox(w)
    BY <2>2 DEF SweepBox
  <2>3. CASE SweepConfirm(w) \/ SweepDirs(w) \/ SweepAbort(w)
    BY <2>3 DEF SweepConfirm, SweepDirs, SweepAbort
  <2>. QED BY <2>1, <2>2, <2>3 DEF SweepNext
<1>1. CASE SweepList(w)
  <2>1. PICK B \in SUBSET (Runs \X Steps), D \in SUBSET Runs, Q \in SUBSET Workers :
          SetSweep(w, [NoSweep EXCEPT !.pc = "query", !.boxes = B, !.dirs = D, !.quiet = Q])
    BY <1>1 DEF SweepList
  <2> DEFINE c == [NoSweep EXCEPT !.pc = "query", !.boxes = B, !.dirs = D, !.quiet = Q]
  <2>2. c \in Sweep /\ c.held = {} /\ c.pc = "query"
    BY DEF NoSweep, Sweep
  <2>3. UNCHANGED host
    BY <1>1 DEF SweepList
  <2> HIDE DEF c
  <2>. QED BY <1>f, <1>t, <2>1, <2>2, <2>3, SetMoves DEF c, host
<1>2. CASE SweepQuery(w)
  <2>1. PICK T \in SUBSET Runs :
          SetSweep(w, NoSweep) \/ SetSweep(w, [clean[w] EXCEPT !.pc = "lock", !.todo = T])
    <3>1. clean[w].dirs \cup {b[1] : b \in clean[w].boxes} \in SUBSET Runs
      BY <1>t DEF Sweep
    <3>2. \A S \in SUBSET Runs : {r \in S : Leftover(r)} \in SUBSET Runs
      OBVIOUS
    <3>. QED BY <1>2, <3>1, <3>2 DEF SweepQuery
  <2> DEFINE c == [clean[w] EXCEPT !.pc = "lock", !.todo = T]
  <2>2. c \in Sweep /\ c.held = clean[w].held /\ c.pc = "lock"
    BY <1>t DEF Sweep
  <2>3. UNCHANGED host
    BY <1>2 DEF SweepQuery
  <2> HIDE DEF c
  <2>. QED BY <1>f, <1>n, <1>t, <2>1, <2>2, <2>3, SetMoves DEF c, host
<1>3. CASE SweepLock(w)
  <2>0. UNCHANGED <<box, ws>>
    BY <1>3 DEF SweepLock
  <2>1. ASSUME NEW r \in clean[w].todo, lock[Engine[w]][r] = Free,
               SetSweep(w, [clean[w] EXCEPT !.todo = @ \ {r}, !.held = @ \cup {r}]),
               lock' = [lock EXCEPT ![Engine[w]][r] = Held(w, "clean")]
        PROVE  CleanMoves(w)
    <3> DEFINE c == [clean[w] EXCEPT !.todo = @ \ {r}, !.held = @ \cup {r}]
    <3>1. r \in Runs /\ c \in Sweep /\ c.held = clean[w].held \cup {r} /\ c.pc = clean[w].pc
          /\ c.boxes = clean[w].boxes
      BY <1>t DEF Sweep
    <3>2. clean[w].pc = "lock"
      BY <1>3 DEF SweepLock
    <3> HIDE DEF c
    <3>3. clean' = [clean EXCEPT ![w] = c]
      BY <2>1 DEF c, SetSweep
    <3>4. SweepMoves(w, c)
      BY <2>0, <2>1, <3>1, <3>2, <3>3 DEF SweepMoves
    <3>. QED BY <1>t, <2>0, <3>4 DEF CleanMoves
  <2>2. ASSUME NEW r \in clean[w].todo, SetSweep(w, [clean[w] EXCEPT !.todo = @ \ {r}]), UNCHANGED lock
        PROVE  CleanMoves(w)
    <3> DEFINE c == [clean[w] EXCEPT !.todo = @ \ {r}]
    <3>1. c \in Sweep /\ c.held = clean[w].held /\ c.pc = clean[w].pc
      BY <1>t DEF Sweep
    <3>2. c.pc = "lock"
      BY <1>3, <3>1 DEF SweepLock
    <3> HIDE DEF c
    <3>. QED BY <1>t, <2>0, <2>2, <3>1, <3>2, SetMoves DEF c
  <2>3. ASSUME SetSweep(w, [clean[w] EXCEPT !.pc = "stop", !.boxes = {b \in @ : b[1] \in clean[w].held}]),
               UNCHANGED lock
        PROVE  CleanMoves(w)
    <3> DEFINE c == [clean[w] EXCEPT !.pc = "stop", !.boxes = {b \in @ : b[1] \in clean[w].held}]
    <3>1. c \in Sweep /\ c.held = clean[w].held /\ \A b \in c.boxes : b[1] \in c.held
      BY <1>t DEF Sweep
    <3> HIDE DEF c
    <3>. QED BY <1>t, <2>0, <2>3, <3>1, SetMoves DEF c
  <2>. QED BY <1>3, <1>f, <2>1, <2>2, <2>3 DEF SweepLock
<1>k. ASSUME NEW r, Block(w, r), BoxesTyped', UNCHANGED <<lock, ws>>
      PROVE  CleanMoves(w)
  <2> DEFINE c == [clean[w] EXCEPT !.held = @ \ {r}, !.boxes = {b \in @ : b[1] # r}]
  <2>1. c \in Sweep /\ c.held \subseteq clean[w].held
        /\ (c.pc = "stop" => \A b \in c.boxes : b[1] \in c.held)
    BY <1>t DEF Sweep
  <2> HIDE DEF c
  <2>. QED BY <1>k, <2>1, SetMoves DEF c, Block
<1>4. CASE SweepBox(w)
  <2>1. PICK b \in clean[w].boxes :
          \/ SetBox(w, b[1], b[2], "exited1") /\ UNCHANGED <<clean, lock, ws>>
          \/ Block(w, b[1]) /\ UNCHANGED host
          \/ SetSweep(w, [clean[w] EXCEPT !.seen = @ \cup {b}]) /\ UNCHANGED host
          \/ /\ SetBox(w, b[1], b[2], "none") /\ UNCHANGED <<lock, ws>>
             /\ SetSweep(w, [clean[w] EXCEPT !.boxes = @ \ {b}])
    BY <1>4 DEF SweepBox, Call
  <2>2. b[1] \in Runs /\ b[2] \in Steps /\ b \in Runs \X Steps
    BY <1>t DEF Sweep
  <2>3. \A s \in BoxState : SetBox(w, b[1], b[2], s) => BoxesTyped'
    BY <1>t, <2>2, SetBoxTyped
  <2>4. CASE SetBox(w, b[1], b[2], "exited1") /\ UNCHANGED <<clean, lock, ws>>
    <3>1. SetSweep(w, clean[w])
      BY <1>t, <2>4 DEF SetSweep
    <3>. QED BY <1>f, <1>t, <2>3, <2>4, <3>1, SetMoves DEF BoxState
  <2>5. CASE Block(w, b[1]) /\ UNCHANGED host
    BY <1>f, <1>t, <1>k, <2>5 DEF host
  <2>6. CASE SetSweep(w, [clean[w] EXCEPT !.seen = @ \cup {b}]) /\ UNCHANGED host
    <3> DEFINE c == [clean[w] EXCEPT !.seen = @ \cup {b}]
    <3>1. c \in Sweep /\ c.held = clean[w].held /\ c.pc = clean[w].pc /\ c.boxes = clean[w].boxes
      BY <1>t, <2>2 DEF Sweep
    <3> HIDE DEF c
    <3>. QED BY <1>f, <1>t, <2>6, <3>1, SetMoves DEF c, host
  <2>7. CASE /\ SetBox(w, b[1], b[2], "none") /\ UNCHANGED <<lock, ws>>
             /\ SetSweep(w, [clean[w] EXCEPT !.boxes = @ \ {b}])
    <3> DEFINE c == [clean[w] EXCEPT !.boxes = @ \ {b}]
    <3>1. c \in Sweep /\ c.held = clean[w].held /\ c.pc = clean[w].pc
          /\ c.boxes \subseteq clean[w].boxes
      BY <1>t DEF Sweep
    <3> HIDE DEF c
    <3>. QED BY <1>f, <1>t, <2>3, <2>7, <3>1, SetMoves DEF c, BoxState
  <2>. QED BY <1>f, <2>1, <2>4, <2>5, <2>6, <2>7
<1>5. CASE SweepConfirm(w)
  <2>1. PICK r \in clean[w].held \ clean[w].done :
          \/ Block(w, r)
          \/ SetSweep(w, [clean[w] EXCEPT !.conf = @ \cup {r}])
          \/ SetSweep(w, [clean[w] EXCEPT !.done = @ \cup {r}])
    BY <1>5 DEF SweepConfirm, Call
  <2>2. UNCHANGED host /\ r \in Runs
    BY <1>5, <1>t DEF SweepConfirm, Sweep
  <2>3. ASSUME NEW c \in {[clean[w] EXCEPT !.conf = @ \cup {r}], [clean[w] EXCEPT !.done = @ \cup {r}]},
               SetSweep(w, c)
        PROVE  CleanMoves(w)
    <3>1. c \in Sweep /\ c.held = clean[w].held /\ c.pc = clean[w].pc /\ c.boxes = clean[w].boxes
      BY <1>t, <2>2 DEF Sweep
    <3>. QED BY <1>t, <2>2, <2>3, <3>1, SetMoves DEF host
  <2>. QED BY <1>f, <1>t, <1>k, <2>1, <2>2, <2>3 DEF host
<1>6. CASE SweepDirs(w) \/ SweepAbort(w)
  <2>1. /\ clean' = [clean EXCEPT ![w] = NoSweep]
        /\ lock' = Unlocked(w, "clean", Runs)
        /\ UNCHANGED box
        /\ \/ UNCHANGED ws
           \/ \E D \in SUBSET clean[w].held :
                ws' = [ws EXCEPT ![Engine[w]] = [r \in Runs |-> ws[Engine[w]][r] /\ r \notin D]]
    BY <1>6 DEF SweepDirs, SweepAbort, SetSweep
  <2>2. SweepMoves(w, NoSweep)
    BY <1>n, <2>1 DEF SweepMoves
  <2>. QED BY <1>f, <1>t, <2>1, <2>2 DEF CleanMoves
<1>. QED BY <1>1, <1>2, <1>3, <1>4, <1>5, <1>6 DEF SweepNext

\* A step of a cleanup pass preserves the invariant.
LEMMA SweepKeeps ==
  ASSUME ExecInv, RunsKept, NEW w \in Workers, CleanMoves(w), SweepFrame
  PROVE  ExecInv'
<1>1. PICK c : SweepMoves(w, c)
  BY DEF CleanMoves
<1>2. /\ c \in Sweep
      /\ clean' \in [Workers -> Sweep]
      /\ \A v \in Workers : clean'[v] = IF v = w THEN c ELSE clean[v]
      /\ \A v \in Workers : clean[v].held \subseteq Runs
      /\ \A v \in Workers : proc[v].pc \in Claimed \cup Recovering => Mine(v) \in Runs
      /\ LocksTyped /\ DirsTyped
  BY <1>1, StandsOn, ProcTyped DEF SweepMoves, ExecInv, ExecTypeOK, Sweep
<1>3. ExecutesOwnRun'
  BY <1>2 DEF ExecInv, ExecutesOwnRun, RunsKept, SweepFrame, Mine
<1> DEFINE LocksKept ==
      /\ \A v \in Workers, q \in Runs :
           /\ lock[Engine[v]][q] = Held(v, "main") => lock'[Engine[v]][q] = Held(v, "main")
           /\ v # w /\ lock[Engine[v]][q] = Held(v, "clean") => lock'[Engine[v]][q] = Held(v, "clean")
      /\ \A q \in c.held : lock'[Engine[w]][q] = Held(w, "clean")
<1>4. LocksTyped' /\ LocksKept
  <2>0. \A q \in clean[w].held : lock[Engine[w]][q] = Held(w, "clean")
    BY DEF ExecInv, HoldsLock
  <2>1. CASE UNCHANGED lock /\ c.held \subseteq clean[w].held
    BY <1>2, <2>0, <2>1 DEF LocksTyped
  <2>2. ASSUME NEW r \in Runs, lock[Engine[w]][r] = Free,
               lock' = [lock EXCEPT ![Engine[w]][r] = Held(w, "clean")],
               c.held = clean[w].held \cup {r}
        PROVE  LocksTyped' /\ LocksKept
    <3>1. \A e \in Engines, q \in Runs :
            lock'[e][q] = IF e = Engine[w] /\ q = r THEN Held(w, "clean") ELSE lock[e][q]
      BY <1>2, <2>2, EngineTyped DEF LocksTyped
    <3>2. LocksTyped'
      BY <1>2, <2>2, EngineTyped DEF LocksTyped, Held
    <3>3. \A v \in Workers, who \in {"main", "clean"} : Held(v, who) # Free
      BY DEF Held, Free
    <3>. QED BY <1>2, <2>0, <2>2, <3>1, <3>2, <3>3, EngineTyped
  <2>3. CASE lock' = Unlocked(w, "clean", Runs) /\ c.held = {}
    <3>1. \A e \in Engines, q \in Runs :
            lock'[e][q] = IF lock[e][q] = Held(w, "clean") THEN Free ELSE lock[e][q]
      BY <2>3 DEF Unlocked
    <3>. QED BY <1>2, <2>3, <3>1, UnlockedTyped, EngineTyped DEF Held
  <2>. QED BY <1>1, <2>1, <2>2, <2>3 DEF SweepMoves
<1>5. HoldsLock'
  <2> SUFFICES ASSUME NEW v \in Workers
               PROVE  /\ proc[v].pc \in Locked => lock'[Engine[v]][Mine(v)] = Held(v, "main")
                      /\ \A r \in clean'[v].held : lock'[Engine[v]][r] = Held(v, "clean")
                      /\ clean'[v].pc = "stop" => \A b \in clean'[v].boxes : b[1] \in clean'[v].held
    BY DEF HoldsLock, SweepFrame, Mine, Locked
  <2>1. /\ proc[v].pc \in Locked => lock[Engine[v]][Mine(v)] = Held(v, "main")
        /\ \A r \in clean[v].held : lock[Engine[v]][r] = Held(v, "clean")
        /\ clean[v].pc = "stop" => \A b \in clean[v].boxes : b[1] \in clean[v].held
    BY DEF ExecInv, HoldsLock, Locked
  <2>2. proc[v].pc \in Locked => lock'[Engine[v]][Mine(v)] = Held(v, "main")
    BY <1>2, <1>4, <2>1 DEF Locked, Claimed
  <2>3. c.pc = "stop" => \A b \in c.boxes : b[1] \in c.held
    BY <1>1 DEF SweepMoves
  <2>. QED BY <1>2, <1>4, <2>1, <2>2, <2>3
<1>6. DirsTyped' /\ WorkspaceFenced'
  <2>1. PICK D \in SUBSET clean[w].held :
          \/ UNCHANGED ws
          \/ ws' = [ws EXCEPT ![Engine[w]] = [r \in Runs |-> ws[Engine[w]][r] /\ r \notin D]]
    BY <1>1 DEF SweepMoves
  <2>a. /\ DirsTyped'
        /\ \A e \in Engines, r \in Runs :
             (e = Engine[w] /\ r \in D) \/ ws'[e][r] = ws[e][r]
    <3>1. CASE UNCHANGED ws
      BY <1>2, <3>1 DEF DirsTyped
    <3>2. CASE ws' = [ws EXCEPT ![Engine[w]] = [r \in Runs |-> ws[Engine[w]][r] /\ r \notin D]]
      <4> DEFINE mine == [r \in Runs |-> ws[Engine[w]][r] /\ r \notin D]
      <4>1. mine \in [Runs -> BOOLEAN]
        OBVIOUS
      <4>2. \A r \in Runs : r \in D \/ mine[r] = ws[Engine[w]][r]
        <5>1. \A r \in Runs : ws[Engine[w]][r] \in BOOLEAN
          BY <1>2, EngineTyped DEF DirsTyped
        <5>. QED BY <5>1
      <4>3. ws' = [ws EXCEPT ![Engine[w]] = mine]
        BY <3>2
      <4> HIDE DEF mine
      <4>. QED BY <1>2, <4>1, <4>2, <4>3, EngineTyped DEF DirsTyped
    <3>. QED BY <2>1, <3>1, <3>2
  <2>2. DirsTyped'
    BY <2>a
  <2>3. ASSUME NEW v \in Workers, proc[v].pc \in Fenced
        PROVE  ws'[Engine[v]][Mine(v)]
    <3>1. /\ ws[Engine[v]][Mine(v)] /\ Mine(v) \in Runs
          /\ lock[Engine[v]][Mine(v)] = Held(v, "main")
          /\ \A r \in clean[w].held : lock[Engine[w]][r] = Held(w, "clean")
      BY <1>2, <2>3 DEF ExecInv, WorkspaceFenced, HoldsLock, Fenced, Claimed
    <3>2. Engine[v] = Engine[w] => Mine(v) \notin D
      BY <2>1, <3>1 DEF Held
    <3>. QED BY <2>a, <3>1, <3>2, EngineTyped
  <2>. QED BY <2>2, <2>3 DEF WorkspaceFenced, SweepFrame, Mine, Fenced
<1>7. faults' \in 0 .. MaxFaults
  BY ExecConstantsOK DEF SweepFrame, ExecInv, ExecTypeOK
<1>. QED
  BY <1>2, <1>3, <1>4, <1>5, <1>6, <1>7
     DEF ExecInv, ExecTypeOK, SweepFrame, CleanMoves, BoxesTyped, LocksTyped, DirsTyped

----------------------------------------------------------------------------
(* Processes that start and go, and the world around them.                 *)

\* Starting a process.
LEMMA BootMoves ==
  ASSUME ExecInv, NEW w \in Workers, Boot(w)
  PROVE  MainMoves(w)
<1> DEFINE p == Sleeping("idle", FALSE)
<1>1. p \in Process /\ Placed(p) /\ p.pc = "idle"
  BY DEF Sleeping, Placed, Process, MainPC, NoRun, NoOutcome, NoResult,
     Claimed, Inside, Recovering, Stepping
<1>2. Go(w, p)
  BY DEF Boot
<1> HIDE DEF p
<1>3. Moves(w, p)
  BY <1>1, <1>2
     DEF Moves, Go, host, LockMove, DirMove, ClaimMove, Locked, Fenced, Claimed, Inside, Recovering
<1>. QED BY <1>2, <1>3, ProcTyped DEF MainMoves, Go

\* A process that is gone holds no lock and works on nothing.
LEMMA GoneKeeps ==
  ASSUME ExecInv, RunsKept, NEW w \in Workers, ProcessGone(w), faults' \in 0 .. MaxFaults
  PROVE  ExecInv'
<1> DEFINE p == Sleeping("dead", FALSE)
<1>1. p \in Process /\ Placed(p) /\ p.pc = "dead"
  BY DEF Sleeping, Placed, Process, MainPC, Dead, NoRun, NoOutcome, NoResult,
     Claimed, Inside, Recovering, Stepping
<1>2. NoSweep \in Sweep /\ NoSweep.held = {} /\ NoSweep.pc = "idle"
  BY DEF NoSweep, Sweep
<1>3. /\ proc' = [proc EXCEPT ![w] = p]
      /\ clean' = [clean EXCEPT ![w] = NoSweep]
      /\ link' = [link EXCEPT ![w] = [cut |-> FALSE, healthy |-> FALSE]]
      /\ UNCHANGED <<box, ws>>
  BY DEF ProcessGone
<1> HIDE DEF p
<1>4. /\ proc' \in [Workers -> Process]
      /\ \A v \in Workers : proc'[v] = IF v = w THEN p ELSE proc[v]
      /\ clean' \in [Workers -> Sweep]
      /\ \A v \in Workers : clean'[v] = IF v = w THEN NoSweep ELSE clean[v]
      /\ link' \in [Workers -> [cut : BOOLEAN, healthy : BOOLEAN]]
  BY <1>1, <1>2, <1>3 DEF ExecInv, ExecTypeOK
<1>5. /\ LocksTyped'
      /\ \A v \in Workers, e \in Engines, q \in Runs, who \in {"main", "clean"} :
           v # w /\ lock[e][q] = Held(v, who) => lock'[e][q] = Held(v, who)
  <2>1. \A e \in Engines, q \in Runs :
          lock'[e][q] = IF lock[e][q][1] = w THEN Free ELSE lock[e][q]
    BY DEF ProcessGone
  <2>2. LocksTyped'
    BY ProcTyped DEF LocksTyped, ProcessGone
  <2>. QED BY <2>1, <2>2 DEF Held
<1>6. /\ p.pc \notin Claimed /\ p.pc \notin Recovering /\ p.pc \notin Inside
      /\ \A v \in Workers : proc[v].pc \in Claimed \cup Recovering => Mine(v) \in Runs
      /\ \A v \in Workers : clean[v].held \subseteq Runs
  BY <1>1, StandsOn DEF Claimed, Recovering, Inside, ExecInv, ExecTypeOK, Sweep
<1>7. ExecutesOwnRun'
  BY <1>4, <1>6 DEF ExecInv, ExecutesOwnRun, RunsKept, Mine
<1>8. HoldsLock'
  <2> SUFFICES ASSUME NEW v \in Workers
               PROVE  /\ proc'[v].pc \in Locked => lock'[Engine[v]][proc'[v].run] = Held(v, "main")
                      /\ \A r \in clean'[v].held : lock'[Engine[v]][r] = Held(v, "clean")
                      /\ clean'[v].pc = "stop" => \A b \in clean'[v].boxes : b[1] \in clean'[v].held
    BY DEF HoldsLock, Mine, Locked
  <2>1. CASE v = w
    BY <1>2, <1>4, <1>6, <2>1 DEF Locked
  <2>2. CASE v # w
    <3>1. /\ proc[v].pc \in Locked => lock[Engine[v]][proc[v].run] = Held(v, "main")
          /\ \A r \in clean[v].held : lock[Engine[v]][r] = Held(v, "clean")
          /\ clean[v].pc = "stop" => \A b \in clean[v].boxes : b[1] \in clean[v].held
      BY DEF ExecInv, HoldsLock, Mine, Locked
    <3>2. proc[v].pc \in Locked => proc[v].run \in Runs
      BY <1>6 DEF Locked, Claimed, Mine
    <3>. QED BY <1>4, <1>5, <1>6, <2>2, <3>1, <3>2, EngineTyped
  <2>. QED BY <2>1, <2>2
<1>9. WorkspaceFenced'
  BY <1>3, <1>4, <1>6 DEF ExecInv, WorkspaceFenced, Mine
<1>. QED
  BY <1>1, <1>3, <1>4, <1>5, <1>7, <1>8, <1>9 DEF ExecInv, ExecTypeOK, LocksTyped

\* What leaves processes, hosts and locks alone preserves the invariant.
LEMMA WorldKeeps ==
  ASSUME ExecInv, RunsKept, UNCHANGED <<proc, clean, lock, ws>>, BoxesTyped',
         link' \in [Workers -> [cut : BOOLEAN, healthy : BOOLEAN]], faults' \in 0 .. MaxFaults
  PROVE  ExecInv'
<1>1. \A v \in Workers : proc[v].pc \in Claimed \cup Recovering => Mine(v) \in Runs
  BY StandsOn
<1>2. ExecutesOwnRun'
  BY <1>1 DEF ExecInv, ExecutesOwnRun, RunsKept, Mine
<1>. QED BY <1>2 DEF ExecInv, ExecTypeOK, HoldsLock, WorkspaceFenced, Mine, BoxesTyped

\* A signal reaches the main loop where it stands.
LEMMA SignalMoves ==
  ASSUME ExecInv, NEW w \in Workers,
         NEW s \in {"no", "cancel", "fail"}, NEW q \in BOOLEAN,
         proc' = [proc EXCEPT ![w].stop = s] \/ proc' = [proc EXCEPT ![w].quit = q],
         UNCHANGED host
  PROVE  MainMoves(w)
<1>1. PICK p \in {[proc[w] EXCEPT !.stop = s], [proc[w] EXCEPT !.quit = q]} :
        proc' = [proc EXCEPT ![w] = p]
  BY DEF ExecInv, ExecTypeOK
<1>2. p \in Process /\ Placed(p) /\ p.run = Mine(w) /\ p.pc = proc[w].pc
  BY <1>1, ProcTyped DEF Process, Placed, Mine
<1>. QED BY <1>1, <1>2, GoMoves DEF Go

\* Every step preserves the invariant.
LEMMA ExecKeeps == ExecInv /\ IInv /\ [ExecNext]_vars => ExecInv'
<1> SUFFICES ASSUME ExecInv, IInv, [ExecNext]_vars PROVE ExecInv'
  OBVIOUS
<1>1. RunsKept
  BY StoreStep DEF Transacts
<1>t. /\ proc \in [Workers -> Process]
      /\ link \in [Workers -> [cut : BOOLEAN, healthy : BOOLEAN]]
      /\ faults \in 0 .. MaxFaults /\ BoxesTyped
      /\ MaxFaults \in Nat
      /\ UNCHANGED box => BoxesTyped'
  BY ExecConstantsOK DEF ExecInv, ExecTypeOK, BoxesTyped
<1>f. ASSUME NEW k, Fault(k)
      PROVE  faults' \in 0 .. MaxFaults /\ faults < MaxFaults /\ faults' = faults + 1
  BY <1>f, ExecConstantsOK DEF Fault, ExecInv, ExecTypeOK
<1>w. UNCHANGED exec => ExecInv'
  BY <1>1, <1>t, WorldKeeps DEF exec
<1>2. CASE UNCHANGED vars
  BY <1>2, <1>w DEF vars
<1>3. ASSUME NEW w \in Workers, Boot(w) \/ RecoverNext(w) \/ ExecuteNext(w)
      PROVE  ExecInv'
  BY <1>1, <1>3, MainFrames, BootMoves, RecoverMoves, ExecuteMoves, MainKeeps
<1>4. ASSUME NEW w \in Workers, Exit(w) \/ Crash(w)
      PROVE  ExecInv'
  BY <1>1, <1>t, <1>f, <1>4, GoneKeeps DEF Exit, Crash
<1>5. ASSUME NEW w \in Workers, SweepNext(w)
      PROVE  ExecInv'
  BY <1>1, <1>5, SweepSteps, SweepKeeps
<1>6. ASSUME NEW w \in Workers, BeatNext(w) \/ Age(w) \/ Heal(w) \/ Cut(w) \/ Release(w)
      PROVE  ExecInv'
  <2>1. CASE Beat(w) \/ Reap(w) \/ Age(w)
    BY <1>w, <2>1 DEF Beat, Reap, Age
  <2>2. CASE Mature(w) \/ Heal(w) \/ Cut(w)
    <3>1. /\ UNCHANGED <<proc, clean, host>>
          /\ faults' \in 0 .. MaxFaults
      BY <1>t, <1>f, <2>2 DEF Mature, Heal, Cut
    <3>2. link' \in [Workers -> [cut : BOOLEAN, healthy : BOOLEAN]]
      <4>1. PICK c \in [cut : BOOLEAN, healthy : BOOLEAN] : link' = [link EXCEPT ![w] = c]
        <5>1. CASE Mature(w)
          BY <1>t, <5>1 DEF Mature
        <5>2. CASE Heal(w)
          BY <1>t, <5>2 DEF Heal
        <5>3. CASE Cut(w)
          BY <1>t, <5>3 DEF Cut
        <5>. QED BY <2>2, <5>1, <5>2, <5>3
      <4>. QED BY <1>t, <4>1
    <3>. QED BY <1>1, <1>t, <3>1, <3>2, WorldKeeps DEF host
  <2>3. CASE Release(w)
    BY <1>1, <1>t, <1>f, <2>3, WorldKeeps DEF Release, host
  <2>. QED BY <1>6, <2>1, <2>2, <2>3 DEF BeatNext
<1>7. ASSUME NEW w \in Workers, SignalNext(w) \/ Shutdown(w) \/ DiskBudget(w)
      PROVE  ExecInv'
  <2>1. MainMoves(w)
    BY <1>7, SignalMoves DEF SignalNext, Watch, Interrupt, Shutdown, DiskBudget
  <2>2. MainFrame
    BY <1>7, <1>f DEF SignalNext, Watch, Interrupt, Shutdown, DiskBudget, MainFrame
  <2>. QED BY <1>1, <2>1, <2>2, MainKeeps
<1>8. ASSUME NEW r \in Runs, CancelRun(r) \/ Deadline(r)
      PROVE  ExecInv'
  BY <1>1, <1>t, <1>f, <1>w, <1>8, WorldKeeps DEF CancelRun, Deadline, host
<1>9. ASSUME NEW e \in Engines, NEW r \in Runs, NEW i \in Steps, ScriptExits(e, r, i)
      PROVE  ExecInv'
  <2>1. BoxesTyped'
    BY <1>t, <1>9 DEF ScriptExits, BoxesTyped, Exited, BoxState
  <2>. QED BY <1>1, <1>t, <1>9, <2>1, WorldKeeps DEF ScriptExits
<1>10. CASE Submit
  BY <1>w, <1>10 DEF Submit
<1>. QED
  BY <1>2, <1>3, <1>4, <1>5, <1>6, <1>7, <1>8, <1>9, <1>10 DEF ExecNext, MainNext, FaultNext

----------------------------------------------------------------------------
(* Who touches a container.                                                *)

\* Recovery and execution only touch containers of the run they locked.
LEMMA MainTouches ==
  ASSUME ExecInv, NEW w \in Workers, Boot(w) \/ RecoverNext(w) \/ ExecuteNext(w)
  PROVE  \/ UNCHANGED box
         \/ /\ proc[w].pc \in Locked
            /\ \E i \in Steps, s \in BoxState : SetBox(w, Mine(w), i, s)
<1>t. proc[w].todo \subseteq Steps
      /\ (proc[w].pc \in Stepping => CurrentStep(w) \in Steps)
  BY StandsOn, ProcTyped DEF Process
<1>1. CASE Boot(w)
  BY <1>1 DEF Boot, Go, host
<1>2. CASE RecoverNext(w)
  <2>1. CASE RecoverBox(w) \/ RecoverRemove(w)
    BY <1>t, <2>1 DEF RecoverBox, RecoverRemove, Call, Go, Back, host, At, Locked, Recovering, BoxState
  <2>2. CASE \/ Survey(w) \/ RecoverLock(w) \/ RecoverStopped(w) \/ RecoverFinish(w)
             \/ RecoverSweep(w) \/ RecoverAbort(w)
    BY <2>2 DEF Survey, RecoverLock, RecoverStopped, RecoverFinish, RecoverSweep, RecoverAbort,
       Call, Go, Back, host
  <2>. QED BY <1>2, <2>1, <2>2 DEF RecoverNext
<1>3. CASE ExecuteNext(w)
  <2>. USE DEF RecoveryRequired, Call, RunCall, Go, Back, Leave, Return, NotRecorded, host
  <2>1. CASE Create(w) \/ StartBox(w) \/ Cleanup(w) \/ RemoveBox(w)
    <3>1. proc[w].pc \in Stepping /\ proc[w].pc \in Locked
      BY <2>1 DEF Create, StartBox, Cleanup, RemoveBox, At, Stepping, Locked, Inside
    <3>2. UNCHANGED box \/ \E s \in BoxState : SetBox(w, Mine(w), CurrentStep(w), s)
      BY <2>1 DEF Create, StartBox, Cleanup, RemoveBox, BoxState
    <3>. QED BY <1>t, <3>1, <3>2
  <2>2. CASE \/ Claim(w) \/ ClaimNothing(w) \/ Enter(w) \/ Fetch(w) \/ StartStep(w) \/ PlanBox(w)
             \/ Begin(w) \/ Created(w)
    BY <2>2 DEF Claim, ClaimNothing, Enter, Fetch, StartStep, PlanBox, Begin, Created
  <2>3. CASE Wait(w) \/ Record(w) \/ Removed(w) \/ FinishRun(w) \/ SweepRun(w)
    BY <2>3 DEF Wait, Record, Removed, FinishRun, SweepRun
  <2>. QED BY <1>3, <2>1, <2>2, <2>3 DEF ExecuteNext
<1>. QED BY <1>1, <1>2, <1>3

\* A cleanup pass only touches containers of the runs it locked.
LEMMA SweepTouches ==
  ASSUME ExecInv, NEW w \in Workers, SweepNext(w)
  PROVE  \/ UNCHANGED box
         \/ \E r \in clean[w].held, i \in Steps, s \in BoxState : SetBox(w, r, i, s)
<1>1. CASE SweepBox(w)
  <2>1. PICK b \in clean[w].boxes :
          UNCHANGED box \/ \E s \in BoxState : SetBox(w, b[1], b[2], s)
    BY <1>1 DEF SweepBox, host, BoxState
  <2>2. b[1] \in clean[w].held /\ b[2] \in Steps
    BY <1>1 DEF SweepBox, ExecInv, ExecTypeOK, HoldsLock, Sweep
  <2>. QED BY <2>1, <2>2
<1>2. CASE SweepList(w) \/ SweepQuery(w) \/ SweepLock(w) \/ SweepConfirm(w) \/ SweepDirs(w) \/ SweepAbort(w)
  BY <1>2 DEF SweepList, SweepQuery, SweepLock, SweepConfirm, SweepDirs, SweepAbort, host
<1>. QED BY <1>1, <1>2 DEF SweepNext

\* A container that changes had its run locked, or its script exited.
LEMMA TouchStep == ExecInv /\ [ExecNext]_vars => TouchedLocked
<1> SUFFICES ASSUME ExecInv, [ExecNext]_vars, NEW c \in Containers
             PROVE  \/ box'[c[1]][c[2]][c[3]] = Box(c)
                    \/ Box(c) = "running" /\ box'[c[1]][c[2]][c[3]] \in Exited
                    \/ lock[c[1]][c[2]] # Free
  BY DEF TouchedLocked
<1>t. c[1] \in Engines /\ c[2] \in Runs /\ c[3] \in Steps /\ BoxesTyped
  BY ProcTyped DEF Containers, ExecInv, ExecTypeOK, BoxesTyped
<1>h. \A v, who : Held(v, who) # Free \/ who = "none"
  BY DEF Held, Free
<1>s. ASSUME NEW w \in Workers, NEW r \in Runs, NEW i \in Steps, NEW s \in BoxState,
             SetBox(w, r, i, s), lock[Engine[w]][r] # Free
      PROVE  box'[c[1]][c[2]][c[3]] = Box(c) \/ lock[c[1]][c[2]] # Free
  BY <1>t, <1>s, EngineTyped DEF SetBox, Box, BoxesTyped
<1>u. UNCHANGED box => box'[c[1]][c[2]][c[3]] = Box(c)
  BY DEF Box
<1>1. CASE UNCHANGED vars
  BY <1>1, <1>u DEF vars, exec
<1>2. ASSUME NEW w \in Workers, Boot(w) \/ RecoverNext(w) \/ ExecuteNext(w)
      PROVE  box'[c[1]][c[2]][c[3]] = Box(c) \/ lock[c[1]][c[2]] # Free
  <2>1. proc[w].pc \in Locked => Mine(w) \in Runs /\ lock[Engine[w]][Mine(w)] = Held(w, "main")
    BY StandsOn DEF ExecInv, HoldsLock, Locked, Claimed
  <2>. QED BY <1>2, <1>h, <1>s, <1>u, <2>1, MainTouches
<1>3. ASSUME NEW w \in Workers, SweepNext(w)
      PROVE  box'[c[1]][c[2]][c[3]] = Box(c) \/ lock[c[1]][c[2]] # Free
  <2>1. \A r \in clean[w].held : r \in Runs /\ lock[Engine[w]][r] = Held(w, "clean")
    BY DEF ExecInv, ExecTypeOK, HoldsLock, Sweep
  <2>. QED BY <1>3, <1>h, <1>s, <1>u, <2>1, SweepTouches
<1>4. ASSUME NEW w \in Workers, \/ Exit(w) \/ BeatNext(w) \/ SignalNext(w) \/ FaultNext(w)
                                \/ Heal(w) \/ Age(w)
      PROVE  UNCHANGED box
  BY <1>4 DEF Exit, ProcessGone, BeatNext, Beat, Mature, Reap, SignalNext, Watch, Interrupt,
     FaultNext, Cut, Crash, Shutdown, DiskBudget, Release, Heal, Age, host, exec
<1>5. ASSUME NEW r \in Runs, CancelRun(r) \/ Deadline(r)
      PROVE  UNCHANGED box
  BY <1>5 DEF CancelRun, Deadline, host, exec
<1>6. ASSUME NEW e \in Engines, NEW r \in Runs, NEW i \in Steps, ScriptExits(e, r, i)
      PROVE  \/ box'[c[1]][c[2]][c[3]] = Box(c)
             \/ Box(c) = "running" /\ box'[c[1]][c[2]][c[3]] \in Exited
  BY <1>t, <1>6 DEF ScriptExits, Box, BoxesTyped
<1>7. CASE Submit
  BY <1>7, <1>u DEF Submit, exec
<1>. QED BY <1>1, <1>2, <1>3, <1>4, <1>5, <1>6, <1>7, <1>u DEF ExecNext, MainNext

----------------------------------------------------------------------------
(* What a step does to a run that is not its own, and to its own.          *)

\* The rows and targets of run q are left alone, once it was handed out.
Aside(q) ==
  /\ \A t \in Targets : targets[t].owner[1] = q \/ targets'[t].owner[1] = q =>
       targets'[t].owner = targets[t].owner
  /\ HandedOut(q) => steps'[q] = steps[q] /\ runs'[q].status = runs[q].status

\* Its containers and workspaces are.
HostAside(q) ==
  \A e \in Engines : box'[e][q] = box[e][q] /\ ws'[e][q] = ws[e][q]

Same(q) == Aside(q) /\ HostAside(q)

\* The step starts, creates and deploys nothing of run q: its containers stay,
\* exit or go; what still runs keeps its row, its workspace and its target; an
\* exit is recorded as it was, and an owner is not marked removed.
Careful(q) ==
  /\ \A e \in Engines : ws'[e][q] => ws[e][q] \/ OnHost(e, q)
  /\ \A e \in Engines, i \in Steps :
       LET a == box[e][q][i]
           b == box'[e][q][i]
           s == steps[q][i]
           z == steps'[q][i]
       IN /\ b \in {a, "none"} \/ (a = "running" /\ b \in Exited)
          /\ b \in Exited => z.code \in {NoCode, s.code, ExitCode(b)}
          /\ b = "running" =>
               /\ z.code = s.code /\ z.removed = s.removed /\ ws'[e][q]
               /\ \A t \in Targets :
                    targets[t].owner = <<q, i>> => targets'[t].owner = <<q, i>>
  /\ \A t \in Targets, i \in Steps : targets'[t].owner = <<q, i>> =>
       targets[t].owner = <<q, i>> /\ (steps'[q][i].removed => steps[q][i].removed)

\* The states a container may be in.
LEMMA BoxStates ==
  /\ "none" \notin Exited /\ "created" \notin Exited /\ "running" \notin Exited
  /\ \A s \in Exited : Exited \subseteq BoxState /\ s # "none" /\ s # "created" /\ s # "running"
  /\ \A s \in BoxState : s \in Exited \/ s \in {"none", "created", "running"}
BY DEF Exited, BoxState

\* What was handed out stays on its host.
LEMMA OnHostKept ==
  ASSUME RunsKept, NEW q \in Runs, NEW e, OnHost(e, q)
  PROVE  OnHost(e, q)'
BY DEF RunsKept, OnHost, HandedOut

\* A careful step keeps a run accounted for.
LEMMA AccountedKept ==
  ASSUME IInv, RunsKept, RowsKept, NEW q \in Runs, Accounted(q), Careful(q)
  PROVE  Accounted(q)'
<1>1. \A e \in Engines : OnHost(e, q) => OnHost(e, q)' /\ HandedOut(q)
  BY OnHostKept DEF OnHost
<1>2. \A i \in Steps : HandedOut(q) => RowGrows(steps[q][i], steps'[q][i])
  BY DEF RowsKept
<1>3. \A e \in Engines : ws'[e][q] => OnHost(e, q)'
  BY <1>1 DEF Careful, Accounted
<1>4. ASSUME NEW e \in Engines, NEW i \in Steps
      PROVE  LET b == box'[e][q][i]
                 z == steps'[q][i]
             IN /\ b # "none" => OnHost(e, q)' /\ z.planned
                /\ b \in Exited => z.created /\ z.code \in {NoCode, ExitCode(b)}
                /\ b = "running" =>
                     /\ z.created /\ ~z.removed /\ z.code = NoCode /\ ws'[e][q]
                     /\ z.kind = "deploy" => \E t \in Targets : targets'[t].owner = <<q, i>>
  <2> DEFINE a == box[e][q][i]
             b == box'[e][q][i]
             s == steps[q][i]
             z == steps'[q][i]
  <2>1. /\ a # "none" => OnHost(e, q) /\ s.planned
        /\ a \in Exited => s.created /\ s.code \in {NoCode, ExitCode(a)}
        /\ a = "running" =>
             /\ s.created /\ ~s.removed /\ s.code = NoCode
             /\ s.kind = "deploy" => \E t \in Targets : targets[t].owner = <<q, i>>
    BY DEF Accounted
  <2>2. /\ b \in {a, "none"} \/ (a = "running" /\ b \in Exited)
        /\ b \in Exited => z.code \in {NoCode, s.code, ExitCode(b)}
        /\ b = "running" =>
             /\ z.code = s.code /\ z.removed = s.removed /\ ws'[e][q]
             /\ \A t \in Targets :
                  targets[t].owner = <<q, i>> => targets'[t].owner = <<q, i>>
    BY DEF Careful
  <2>3. a # "none" => OnHost(e, q)' /\ RowGrows(s, z)
    BY <1>1, <1>2, <2>1
  <2> HIDE DEF a, b, s, z
  <2>4. b # "none" => a # "none"
    BY <2>2, BoxStates
  <2>5. b # "none" => OnHost(e, q)' /\ z.planned
    BY <2>1, <2>3, <2>4 DEF RowGrows
  <2>6. b \in Exited => z.created /\ z.code \in {NoCode, ExitCode(b)}
    BY <2>1, <2>2, <2>3, <2>4, BoxStates DEF RowGrows
  <2>7. b = "running" => a = "running"
    BY <2>2, BoxStates
  <2>8. b = "running" => z.created /\ ~z.removed /\ z.code = NoCode /\ ws'[e][q] /\ z.kind = s.kind
    BY <2>1, <2>2, <2>3, <2>7 DEF RowGrows
  <2>9. b = "running" /\ z.kind = "deploy" => \E t \in Targets : targets'[t].owner = <<q, i>>
    BY <2>1, <2>2, <2>7, <2>8
  <2>. QED BY <2>5, <2>6, <2>8, <2>9 DEF b, z
<1>5. ASSUME NEW t \in Targets, NEW i \in Steps, targets'[t].owner = <<q, i>>
      PROVE  Unremoved(steps'[q][i])
  <2>1. /\ targets[t].owner = <<q, i>>
        /\ steps'[q][i].removed => steps[q][i].removed
    BY <1>5 DEF Careful
  <2>2. steps[q][i].planned /\ ~steps[q][i].removed
    BY <2>1 DEF Accounted, Unremoved
  <2>3. HandedOut(q)
    BY <2>2 DEF IInv, StartedClaimed, HandedOut
  <2>. QED BY <1>2, <2>1, <2>2, <2>3 DEF RowGrows, Unremoved
<1>. QED BY <1>3, <1>4, <1>5 DEF Accounted

\* What leaves a run alone is careful with it.
LEMMA SameCareful ==
  ASSUME IInv, NEW q \in Runs, Accounted(q), Same(q)
  PROVE  Careful(q)
<1>1. \A e \in Engines : ws'[e][q] => ws[e][q]
  BY DEF Same, HostAside
<1>2. ASSUME NEW e \in Engines, NEW i \in Steps
      PROVE  LET a == box[e][q][i]
                 b == box'[e][q][i]
                 s == steps[q][i]
                 z == steps'[q][i]
             IN /\ b \in {a, "none"} \/ (a = "running" /\ b \in Exited)
                /\ b \in Exited => z.code \in {NoCode, s.code, ExitCode(b)}
                /\ b = "running" =>
                     /\ z.code = s.code /\ z.removed = s.removed /\ ws'[e][q]
                     /\ \A t \in Targets :
                          targets[t].owner = <<q, i>> => targets'[t].owner = <<q, i>>
  <2>1. box'[e][q][i] = box[e][q][i] /\ ws'[e][q] = ws[e][q]
    BY DEF Same, HostAside
  <2>2. box[e][q][i] # "none" => steps'[q][i] = steps[q][i]
    BY DEF Accounted, OnHost, Same, Aside
  <2>3. box[e][q][i] = "running" => ws[e][q]
    BY DEF Accounted
  <2>4. \A t \in Targets : targets[t].owner = <<q, i>> => targets'[t].owner = <<q, i>>
    BY DEF Same, Aside
  <2>. QED BY <2>1, <2>2, <2>3, <2>4, BoxStates
<1>3. ASSUME NEW t \in Targets, NEW i \in Steps, targets'[t].owner = <<q, i>>
      PROVE  targets[t].owner = <<q, i>> /\ (steps'[q][i].removed => steps[q][i].removed)
  <2>1. targets[t].owner = <<q, i>>
    BY <1>3 DEF Same, Aside
  <2>2. HandedOut(q)
    BY <2>1 DEF Accounted, Unremoved, IInv, StartedClaimed, HandedOut
  <2>. QED BY <2>1, <2>2 DEF Same, Aside
<1>. QED BY <1>1, <1>2, <1>3 DEF Careful

----------------------------------------------------------------------------
(* Whose rows a transaction touches.                                       *)

\* A transaction that leaves the targets alone and the rows of run q.
LEMMA AsideIf ==
  ASSUME NEW q \in Runs, UNCHANGED targets,
         HandedOut(q) => steps'[q] = steps[q] /\ runs'[q].status = runs[q].status
  PROVE  Aside(q)
BY DEF Aside

\* The calls about one step touch its run only.
LEMMA StepAside ==
  ASSUME IInv, NEW r \in Runs, NEW i \in Steps, StepNext(r, i), NEW q \in Runs, q # r
  PROVE  Aside(q)
<1>t. /\ steps \in [Runs -> [Steps -> Step]]
      /\ targets \in [Targets -> Target]
      /\ \A t \in Targets : targets[t].owner[1] = q => targets[t].owner # NoOwner
  BY ConstantsOK DEF IInv, TypeOK, NoOwner, Runs
<1>1. UNCHANGED runs
  BY DEF StepNext, StepStarted, PlanContainer, BeginDeployment, ContainerCreated, StepFinished,
     RecoverStepExit, Receipt, ContainerRemoved, SetStep
<1>2. CASE StepStarted(r, i) \/ PlanContainer(r, i) \/ ContainerCreated(r, i) \/ ContainerRemoved(r, i)
  BY <1>t, <1>1, <1>2, AsideIf DEF StepStarted, PlanContainer, ContainerCreated, ContainerRemoved, SetStep
<1>3. CASE BeginDeployment(r, i)
  <2>1. PICK g : /\ steps' = [steps EXCEPT ![r][i].gen = g]
                 /\ targets' = [targets EXCEPT ![runs[r].target].owner = <<r, i>>,
                                               ![runs[r].target].gen = g]
    BY <1>3 DEF BeginDeployment
  <2>2. targets[runs[r].target].owner \in {NoOwner, <<r, i>>} /\ runs[r].target \in Targets
    BY <1>3 DEF BeginDeployment, BeginAnswer, IInv, TypeOK, Run
  <2>3. \A t \in Targets : targets'[t].owner =
          IF t = runs[r].target THEN <<r, i>> ELSE targets[t].owner
    BY <1>t, <2>1, <2>2 DEF Target
  <2>4. NoOwner[1] # q
    BY ConstantsOK DEF NoOwner, Runs
  <2>5. steps'[q] = steps[q]
    BY <1>t, <2>1
  <2>. QED BY <1>1, <2>2, <2>3, <2>4, <2>5 DEF Aside
<1>4. ASSUME NEW st, NEW code, NEW rec, Receipt(r, i, st, code, rec)
      PROVE  Aside(q)
  <2>1. steps'[q] = steps[q]
    BY <1>t, <1>4 DEF Receipt
  <2>2. \A t \in Targets : targets'[t].owner = IF t \in Freed(r, i) THEN NoOwner ELSE targets[t].owner
    BY <1>4 DEF Receipt
  <2>3. \A t \in Freed(r, i) : targets[t].owner = <<r, i>>
    BY DEF Freed, Owns
  <2>4. NoOwner[1] # q
    BY ConstantsOK DEF NoOwner, Runs
  <2>. QED BY <1>1, <2>1, <2>2, <2>3, <2>4 DEF Aside
<1>. QED BY <1>2, <1>3, <1>4 DEF StepNext, StepFinished, RecoverStepExit

\* The calls about a run touch that run only.
LEMMA RunAside ==
  ASSUME IInv, NEW q \in Runs, NEW r \in Runs
  PROVE  /\ UNCHANGED store => Aside(q)
         /\ \A w \in Workers : ClaimNext(w, r) => Aside(q)
         /\ DeadlinePasses(r) \/ Cancel(r) => Aside(q)
         /\ q # r => /\ AllRemoved(r) \/ ConfirmExecutionStopped(r) => Aside(q)
                     /\ \A s : Finish(r, s) \/ Ending(r, s) => Aside(q)
<1>. USE DEF IInv, TypeOK
<1>1. UNCHANGED store => Aside(q)
  BY DEF store, Aside
<1>2. ASSUME NEW w \in Workers, ClaimNext(w, r)
      PROVE  Aside(q)
  <2>1. HandedOut(q) => q # r
    BY <1>2, StatusFacts DEF ClaimNext, Claimable, HandedOut
  <2>. QED BY <1>2, <2>1, AsideIf DEF ClaimNext
<1>3. CASE DeadlinePasses(r)
  BY <1>3, AsideIf DEF DeadlinePasses, Run
<1>4. CASE Cancel(r)
  <2>1. CASE runs[r].status = "queued"
    <3>1. HandedOut(q) => q # r
      BY <2>1, StatusFacts DEF HandedOut
    <3>. QED BY <1>4, <2>1, <3>1, AsideIf DEF Cancel
  <2>2. CASE runs[r].status # "queued"
    BY <1>4, <2>2, AsideIf DEF Cancel, Run
  <2>. QED BY <2>1, <2>2
<1>5. CASE AllRemoved(r) /\ q # r
  BY <1>5, AsideIf DEF AllRemoved
<1>6. CASE ConfirmExecutionStopped(r) /\ q # r
  <2>1. \A t \in Targets : targets'[t].owner =
          IF targets[t].owner[1] = r THEN NoOwner ELSE targets[t].owner
    BY <1>6 DEF ConfirmExecutionStopped, Released, Target
  <2>2. NoOwner[1] # q
    BY ConstantsOK DEF NoOwner, Runs
  <2>. QED BY <1>6, <2>1, <2>2 DEF Aside, ConfirmExecutionStopped
<1>7. ASSUME NEW s, Finish(r, s), q # r
      PROVE  Aside(q)
  <2>1. steps'[q] = steps[q] /\ runs'[q] = runs[q] /\ UNCHANGED targets
    BY <1>7 DEF Finish, FinishRuns
  <2>. QED BY <2>1, AsideIf
<1>. QED BY <1>1, <1>2, <1>3, <1>4, <1>5, <1>6, <1>7 DEF Ending

\* The calls about workers touch the runs that are given up.
LEMMA WorkerAside ==
  ASSUME IInv, NEW q \in Runs, NEW w \in Workers
  PROVE  /\ RegisterWorker(w) \/ Heartbeat(w) \/ StopWorker(w) \/ BeatAges(w) => Aside(q)
         /\ ReleaseLostWorker(w, Runs) /\ runs[q].worker # w => Aside(q)
         /\ FailLostRuns(LostRuns) /\ q \notin LostRuns => Aside(q)
<1>. USE DEF IInv, TypeOK
<1>1. RegisterWorker(w) \/ Heartbeat(w) \/ StopWorker(w) \/ BeatAges(w) => Aside(q)
  BY AsideIf DEF RegisterWorker, Heartbeat, StopWorker, BeatAges, SetWorker
<1>2. CASE ReleaseLostWorker(w, Runs) /\ runs[q].worker # w
  <2>1. targets' = Released({r \in Runs : runs[r].worker = w})
    BY <1>2 DEF ReleaseLostWorker
  <2>2. \A t \in Targets : targets'[t].owner =
          IF targets[t].owner[1] \in {r \in Runs : runs[r].worker = w} THEN NoOwner ELSE targets[t].owner
    BY <2>1 DEF Released, Target
  <2>3. NoOwner[1] # q
    BY ConstantsOK DEF NoOwner, Runs
  <2>4. runs'[q] = runs[q]
    BY <1>2 DEF ReleaseLostWorker
  <2>5. \A i \in Steps : steps'[q][i] = steps[q][i]
    BY <1>2 DEF ReleaseLostWorker
  <2>6. steps'[q] = [i \in Steps |-> steps'[q][i]]
    BY <1>2 DEF ReleaseLostWorker
  <2>7. steps[q] = [i \in Steps |-> steps[q][i]]
    OBVIOUS
  <2>8. steps'[q] = steps[q]
    BY <2>5, <2>6, <2>7
  <2>. QED BY <1>2, <2>2, <2>3, <2>4, <2>8 DEF Aside
<1>3. CASE FailLostRuns(LostRuns) /\ q \notin LostRuns
  <2>1. steps'[q] = steps[q] /\ runs'[q] = runs[q] /\ UNCHANGED targets
    BY <1>3 DEF FailLostRuns, FinishRuns
  <2>. QED BY <2>1, AsideIf
<1>. QED BY <1>1, <1>2, <1>3

\* Creating runs touches nothing that was handed out.
LEMMA SubmitAside ==
  ASSUME IInv, NEW q \in Runs,
         \/ \E f \in Refs, p \in Plans : Start(f, p) \/ PushRun(f, p)
         \/ BeginOperation("push")
  PROVE  Aside(q)
<1>1. CASE BeginOperation("push")
  BY <1>1, AsideIf DEF BeginOperation
<1>2. ASSUME NEW f \in Refs, NEW p \in Plans, NEW tr, CreateTx(f, tr, p)
      PROVE  Aside(q)
  <2>1. counter + 1 \in Runs /\ runs[counter + 1].status = "absent"
    BY <1>2, ConstantsOK DEF CreateTx, IInv, TypeOK, Unborn, Runs
  <2>2. HandedOut(q) => q # counter + 1 /\ q \notin Superseded(f, counter + 1)
    BY <2>1, StatusFacts DEF HandedOut, Superseded, QueuedOn
  <2>. QED BY <1>2, <2>2, AsideIf DEF CreateTx
<1>. QED BY <1>1, <1>2 DEF Start, PushRun

----------------------------------------------------------------------------
(* Whose run a step touches.                                               *)

\* Setting a container or a workspace leaves those of other runs alone.
LEMMA CellAside ==
  ASSUME ExecInv, NEW w \in Workers, NEW r, NEW q \in Runs, q # r, NEW e \in Engines
  PROVE  /\ \A i, s : SetBox(w, r, i, s) => box'[e][q] = box[e][q]
         /\ \A b : ws' = [ws EXCEPT ![Engine[w]][r] = b] => ws'[e][q] = ws[e][q]
<1>1. /\ box \in [Engines -> [Runs -> [Steps -> BoxState]]] /\ ws \in [Engines -> [Runs -> BOOLEAN]]
      /\ Engine[w] \in Engines
  BY ProcTyped, EngineTyped DEF BoxesTyped, DirsTyped
<1>2. ASSUME NEW i, NEW s, SetBox(w, r, i, s)
      PROVE  box'[e][q] = box[e][q]
  <2>1. box' = [box EXCEPT ![Engine[w]] = [box[Engine[w]] EXCEPT ![r] = [box[Engine[w]][r] EXCEPT ![i] = s]]]
    BY <1>2 DEF SetBox
  <2>. QED BY <1>1, <2>1
<1>3. ASSUME NEW b, ws' = [ws EXCEPT ![Engine[w]][r] = b]
      PROVE  ws'[e][q] = ws[e][q]
  BY <1>1, <1>3
<1>. QED BY <1>2, <1>3

\* The main loop touches the run it works on.
LEMMA MainSame ==
  ASSUME ExecInv, IInv, NEW w \in Workers, RecoverNext(w) \/ ExecuteNext(w),
         NEW q \in Runs, q # Mine(w)
  PROVE  Same(q)
<1>1. Aside(q)
  BY RecoverCalls, ExecuteCalls, RunAside, StepAside
<1>2. ASSUME NEW e \in Engines
      PROVE  box'[e][q] = box[e][q] /\ ws'[e][q] = ws[e][q]
  <2>1. box'[e][q] = box[e][q]
    BY MainTouches, CellAside
  <2>2. PICK p : Moves(w, p)
    BY RecoverMoves, ExecuteMoves DEF MainMoves
  <2>3. UNCHANGED ws \/ \E b \in BOOLEAN : ws' = [ws EXCEPT ![Engine[w]][Mine(w)] = b]
    BY <2>2 DEF Moves, DirMove
  <2>4. ws'[e][q] = ws[e][q]
    <3>1. CASE UNCHANGED ws
      BY <3>1
    <3>2. ASSUME NEW b \in BOOLEAN, ws' = [ws EXCEPT ![Engine[w]][Mine(w)] = b]
          PROVE  ws'[e][q] = ws[e][q]
      BY <3>2, CellAside
    <3>. QED BY <2>3, <3>1, <3>2
  <2>. QED BY <2>1, <2>4
<1>. QED BY <1>1, <1>2 DEF Same, HostAside

\* A cleanup pass touches the runs it locked.
LEMMA SweepSame ==
  ASSUME ExecInv, IInv, NEW w \in Workers, SweepNext(w), NEW q \in Runs, q \notin clean[w].held
  PROVE  Same(q)
<1>1. Aside(q)
  BY SweepCalls, RunAside, StepAside
<1>2. ASSUME NEW e \in Engines
      PROVE  box'[e][q] = box[e][q] /\ ws'[e][q] = ws[e][q]
  <2>1. box'[e][q] = box[e][q]
    <3>1. CASE UNCHANGED box
      BY <3>1
    <3>2. ASSUME NEW r \in clean[w].held, NEW i \in Steps, NEW s \in BoxState, SetBox(w, r, i, s)
          PROVE  box'[e][q] = box[e][q]
      BY <3>2, CellAside
    <3>. QED BY <3>1, <3>2, SweepTouches
  <2>2. PICK c : SweepMoves(w, c)
    BY SweepSteps DEF CleanMoves
  <2>3. \/ UNCHANGED ws
        \/ \E D \in SUBSET clean[w].held :
             ws' = [ws EXCEPT ![Engine[w]] = [r \in Runs |-> ws[Engine[w]][r] /\ r \notin D]]
    BY <2>2 DEF SweepMoves
  <2>4. ws'[e][q] = ws[e][q]
    <3>1. CASE UNCHANGED ws
      BY <3>1
    <3>2. ASSUME NEW D \in SUBSET clean[w].held,
                 ws' = [ws EXCEPT ![Engine[w]] = [r \in Runs |-> ws[Engine[w]][r] /\ r \notin D]]
          PROVE  ws'[e][q] = ws[e][q]
      <4>1. ws \in [Engines -> [Runs -> BOOLEAN]] /\ Engine[w] \in Engines
        BY ProcTyped, EngineTyped DEF DirsTyped
      <4>2. e # Engine[w] => ws'[e] = ws[e]
        BY <3>2, <4>1
      <4>3. ws'[Engine[w]][q] = (ws[Engine[w]][q] /\ q \notin D)
        BY <3>2, <4>1
      <4>4. ws[Engine[w]][q] \in BOOLEAN /\ q \notin D
        BY <4>1
      <4>. QED BY <4>2, <4>3, <4>4
    <3>. QED BY <2>3, <3>1, <3>2
  <2>. QED BY <2>1, <2>4
<1>. QED BY <1>1, <1>2 DEF Same, HostAside

\* Starting, ending, signalling and cutting off processes touches no run.
Bystander(w) ==
  \/ Boot(w) \/ Exit(w) \/ Crash(w) \/ Beat(w) \/ Mature(w) \/ Age(w) \/ Heal(w) \/ Cut(w)
  \/ Shutdown(w) \/ DiskBudget(w) \/ SignalNext(w)

\* So they do.
LEMMA BystanderSame ==
  ASSUME IInv, NEW w \in Workers, Bystander(w), NEW q \in Runs
  PROVE  Same(q) /\ UNCHANGED <<runs, steps, targets, box, ws>>
<1>1. CASE Boot(w) \/ Exit(w) \/ Crash(w)
  <2>1. UNCHANGED <<box, ws>> /\ (UNCHANGED store \/ RegisterWorker(w) \/ StopWorker(w))
    BY <1>1 DEF Boot, Exit, Crash, ProcessGone, Go, host
  <2>. QED BY <2>1, RunAside, WorkerAside DEF Same, HostAside, store, RegisterWorker, StopWorker, SetWorker
<1>2. CASE Beat(w) \/ Age(w) \/ Mature(w) \/ Heal(w) \/ Cut(w)
  <2>1. UNCHANGED <<box, ws>> /\ (UNCHANGED store \/ Heartbeat(w) \/ BeatAges(w))
    BY <1>2 DEF Beat, Age, Mature, Heal, Cut, host, exec
  <2>. QED BY <2>1, RunAside, WorkerAside DEF Same, HostAside, store, Heartbeat, BeatAges, SetWorker
<1>3. CASE Shutdown(w) \/ DiskBudget(w) \/ SignalNext(w)
  <2>1. UNCHANGED <<box, ws>> /\ UNCHANGED store
    BY <1>3 DEF Shutdown, DiskBudget, SignalNext, Watch, Interrupt, host
  <2>. QED BY <2>1, RunAside DEF Same, HostAside, store
<1>. QED BY <1>1, <1>2, <1>3 DEF Bystander

\* The reaper, the operator, the people using the program and the scripts.
LEMMA WorldSame ==
  ASSUME ExecInv, IInv, NEW q \in Runs
  PROVE  /\ \A w \in Workers :
              /\ Reap(w) /\ q \notin LostRuns => Same(q)
              /\ Release(w) /\ runs[q].worker # w => Same(q)
         /\ \A r \in Runs : CancelRun(r) \/ Deadline(r) => Same(q)
         /\ \A e \in Engines, r \in Runs, i \in Steps : ScriptExits(e, r, i) /\ q # r => Same(q)
         /\ Submit => Same(q)
<1>1. ASSUME NEW w \in Workers, Reap(w), q \notin LostRuns
      PROVE  Same(q)
  BY <1>1, WorkerAside DEF Reap, exec, Same, HostAside
<1>2. ASSUME NEW w \in Workers, Release(w), runs[q].worker # w
      PROVE  Same(q)
  BY <1>2, WorkerAside DEF Release, host, Same, HostAside
<1>3. ASSUME NEW r \in Runs, CancelRun(r) \/ Deadline(r)
      PROVE  Same(q)
  BY <1>3, RunAside DEF CancelRun, Deadline, host, exec, Same, HostAside
<1>4. ASSUME NEW e \in Engines, NEW r \in Runs, NEW i \in Steps, ScriptExits(e, r, i), q # r
      PROVE  Same(q)
  <2>1. \A d \in Engines : box'[d][q] = box[d][q]
    BY <1>4, ProcTyped DEF ScriptExits, BoxesTyped
  <2>. QED BY <1>4, <2>1, RunAside DEF ScriptExits, Same, HostAside
<1>5. CASE Submit
  BY <1>5, SubmitAside DEF Submit, exec, Same, HostAside
<1>. QED BY <1>1, <1>2, <1>3, <1>4, <1>5

----------------------------------------------------------------------------
(* Careful steps.                                                          *)

\* A run has containers and a workspace on one host only.
LEMMA OneHost ==
  ASSUME NEW q \in Runs, Accounted(q), NEW d \in Engines, OnHost(d, q),
         NEW e \in Engines, NEW i \in Steps, box[e][q][i] # "none"
  PROVE  e = d
BY DEF Accounted, OnHost

\* While the rows are left alone, containers may stop and go.
LEMMA BoxCareful ==
  ASSUME IInv, NEW q \in Runs, Accounted(q), UNCHANGED <<steps, targets, ws>>,
         \A e \in Engines, i \in Steps :
           \/ box'[e][q][i] \in {box[e][q][i], "none"}
           \/ box[e][q][i] = "running" /\ box'[e][q][i] \in Exited
  PROVE  Careful(q)
<1>1. ASSUME NEW e \in Engines, NEW i \in Steps, box'[e][q][i] = "running"
      PROVE  ws'[e][q]
  <2>1. box[e][q][i] = "running"
    BY <1>1, BoxStates
  <2>. QED BY <2>1 DEF Accounted
<1>. QED BY <1>1 DEF Careful

\* A workspace may be made on the run's host, and go when nothing runs in it.
LEMMA DirCareful ==
  ASSUME IInv, NEW q \in Runs, Accounted(q), UNCHANGED <<steps, targets, box>>,
         \A e \in Engines : ws'[e][q] => ws[e][q] \/ OnHost(e, q),
         \A e \in Engines, i \in Steps : box[e][q][i] = "running" => ws'[e][q]
  PROVE  Careful(q)
BY DEF Careful

\* Rows may change where nothing runs, except that no step comes to own a target.
LEMMA RowCareful ==
  ASSUME IInv, NEW q \in Runs, Accounted(q), UNCHANGED <<box, ws>>,
         \A e \in Engines, i \in Steps : box[e][q][i] = "running" =>
           /\ steps'[q][i].code = steps[q][i].code /\ steps'[q][i].removed = steps[q][i].removed
           /\ \A t \in Targets : targets[t].owner = <<q, i>> => targets'[t].owner = <<q, i>>,
         \A e \in Engines, i \in Steps : box[e][q][i] \in Exited =>
           steps'[q][i].code \in {NoCode, steps[q][i].code, ExitCode(box[e][q][i])},
         \A t \in Targets, i \in Steps : targets'[t].owner = <<q, i>> =>
           targets[t].owner = <<q, i>> /\ (steps'[q][i].removed => steps[q][i].removed)
  PROVE  Careful(q)
<1>1. \A e \in Engines, i \in Steps : box[e][q][i] = "running" => ws[e][q]
  BY DEF Accounted
<1>. QED BY <1>1, BoxStates DEF Careful

\* Starting, planning and recording a container, ending the run, and cancelling it,
\* leave targets, marks and receipts alone.
LEMMA PlainCareful ==
  ASSUME IInv, NEW q \in Runs, Accounted(q), UNCHANGED <<targets, box, ws>>,
         \/ \E i \in Steps : StepStarted(q, i) \/ PlanContainer(q, i) \/ ContainerCreated(q, i)
         \/ \E s : Ending(q, s)
         \/ FailLostRuns(LostRuns)
  PROVE  Careful(q)
<1>t. steps \in [Runs -> [Steps -> Step]]
  BY DEF IInv, TypeOK
<1>1. \A j \in Steps : steps'[q][j].code = steps[q][j].code /\ steps'[q][j].removed = steps[q][j].removed
  <2>1. ASSUME NEW i \in Steps, NEW s, s.code = steps[q][i].code, s.removed = steps[q][i].removed,
               steps' = [steps EXCEPT ![q][i] = s], NEW j \in Steps
        PROVE  steps'[q][j].code = steps[q][j].code /\ steps'[q][j].removed = steps[q][j].removed
    BY <1>t, <2>1
  <2>2. ASSUME NEW i \in Steps, StepStarted(q, i) \/ PlanContainer(q, i) \/ ContainerCreated(q, i),
               NEW j \in Steps
        PROVE  steps'[q][j].code = steps[q][j].code /\ steps'[q][j].removed = steps[q][j].removed
    <3>1. CASE StepStarted(q, i)
      BY <1>t, <2>1, <3>1 DEF StepStarted, SetStep, Step
    <3>2. CASE PlanContainer(q, i)
      BY <1>t, <2>1, <3>2 DEF PlanContainer, SetStep, Step
    <3>3. CASE ContainerCreated(q, i)
      BY <1>t, <2>1, <3>3 DEF ContainerCreated, SetStep, Step
    <3>. QED BY <2>2, <3>1, <3>2, <3>3
  <2>3. ASSUME NEW x, NEW y, NEW s \in Step
        PROVE  SettleStep(s, x, y).code = s.code /\ SettleStep(s, x, y).removed = s.removed
    BY DEF SettleStep, Step
  <2>4. ASSUME NEW s, Ending(q, s)
        PROVE  \A j \in Steps : /\ steps'[q][j].code = steps[q][j].code
                               /\ steps'[q][j].removed = steps[q][j].removed
    <3>1. CASE Finish(q, s) /\ s = "cancelled"
      <4>1. \A j \in Steps : steps'[q][j] = SettleStep(steps[q][j], "cancelled", "cancelled")
        BY <3>1 DEF Finish, FinishRuns, Settle
      <4>. QED BY <1>t, <2>3, <4>1
    <3>2. CASE Finish(q, s) /\ s # "cancelled"
      <4>1. \A j \in Steps : steps'[q][j] = SettleStep(steps[q][j], "failed", "skipped")
        BY <3>2 DEF Finish, FinishRuns, Settle
      <4>. QED BY <1>t, <2>3, <4>1
    <3>. QED BY <2>4, <3>1, <3>2 DEF Ending, store
  <2>5. CASE FailLostRuns(LostRuns)
    <3>1. \/ steps'[q] = steps[q]
          \/ \A j \in Steps : steps'[q][j] = SettleStep(steps[q][j], "failed", "skipped")
      BY <2>5 DEF FailLostRuns, FinishRuns, Settle
    <3>. QED BY <1>t, <2>3, <3>1
  <2>. QED BY <1>t, <2>2, <2>3, <2>4, <2>5
<1>. QED BY <1>1, RowCareful

\* A receipt is of a container that does not run, and says how it exited.
LEMMA ReceiptCareful ==
  ASSUME IInv, NEW q \in Runs, Accounted(q), UNCHANGED <<box, ws>>, NEW i \in Steps,
         NEW st, NEW code, NEW rec, Receipt(q, i, st, code, rec),
         \A e \in Engines : box[e][q][i] # "running",
         \A e \in Engines : box[e][q][i] \in Exited => code = ExitCode(box[e][q][i])
  PROVE  Careful(q)
<1>t. steps \in [Runs -> [Steps -> Step]]
  BY DEF IInv, TypeOK
<1>1. \A j \in Steps : j # i => steps'[q][j] = steps[q][j]
  BY <1>t DEF Receipt
<1>2. steps'[q][i].code = code /\ steps'[q][i].removed = steps[q][i].removed
  BY <1>t DEF Receipt, Step
<1>3. \A t \in Targets : targets'[t].owner = IF t \in Freed(q, i) THEN NoOwner ELSE targets[t].owner
  BY DEF Receipt
<1>4. \A t \in Freed(q, i) : targets[t].owner = <<q, i>>
  BY DEF Freed, Owns
<1>5. \A t \in Targets, j \in Steps : targets'[t].owner = <<q, j>> => targets[t].owner = <<q, j>>
  BY <1>3, NoOwnerIsNone
<1>6. \A t \in Targets, j \in Steps : j # i /\ targets[t].owner = <<q, j>> => targets'[t].owner = <<q, j>>
  BY <1>3, <1>4
<1>. QED BY <1>1, <1>2, <1>5, <1>6, RowCareful

\* A container is marked removed when it does not run and owns no target.
LEMMA MarkCareful ==
  ASSUME IInv, NEW q \in Runs, Accounted(q), UNCHANGED <<box, ws>>,
         \A e \in Engines, i \in Steps : box[e][q][i] # "running",
         \A t \in Targets : targets'[t].owner[1] # q,
         \A i \in Steps : steps'[q][i].code = steps[q][i].code
  PROVE  Careful(q)
<1>1. \A t \in Targets, i \in Steps : targets'[t].owner # <<q, i>>
  OBVIOUS
<1>. QED BY <1>1, RowCareful

\* The targets of a run are released when nothing of it runs.
LEMMA StopCareful ==
  ASSUME IInv, NEW q \in Runs, Accounted(q), UNCHANGED <<box, ws>>, ConfirmExecutionStopped(q),
         \A e \in Engines, i \in Steps : box[e][q][i] # "running"
  PROVE  Careful(q) /\ \A t \in Targets : targets'[t].owner[1] # q
<1>1. \A t \in Targets : targets'[t].owner =
        IF targets[t].owner[1] = q THEN NoOwner ELSE targets[t].owner
  BY DEF ConfirmExecutionStopped, Released, IInv, TypeOK, Target
<1>2. NoOwner[1] # q
  BY ConstantsOK DEF NoOwner, Runs
<1>3. \A i \in Steps : steps'[q][i] = StopDeploy(steps[q][i])
  BY DEF ConfirmExecutionStopped, IInv, TypeOK
<1>4. \A i \in Steps : steps'[q][i].code = steps[q][i].code
  <2>1. ASSUME NEW s \in Step PROVE StopDeploy(s).code = s.code
    BY DEF StopDeploy, Step
  <2>. QED BY <1>3, <2>1 DEF IInv, TypeOK
<1>. QED BY <1>1, <1>2, <1>4, MarkCareful

----------------------------------------------------------------------------
(* Who is alive.                                                           *)

\* A worker whose heartbeat is late, or whose row says it stopped, is dead.
LEMMA GoneDead ==
  ASSUME ExecInv, RowsTrue, InTouch, NEW w \in Workers,
         Gone(w) \/ workers[w].beat # "fresh"
  PROVE  proc[w].pc = "dead"
BY DEF Gone, InTouch, RowsTrue, Live, Dead

\* An executor is alive.
LEMMA BusyLive ==
  ASSUME ExecInv, NEW w \in Workers, proc[w].pc \in Busy
  PROVE  Live(w) /\ proc[w].pc \in Claimed /\ Mine(w) \in Runs /\ runs[Mine(w)].worker = w
BY StandsOn DEF Busy, Claimed, Inside, Live, Dead, ExecInv, ExecutesOwnRun

\* The executor of a run has it to itself.
LEMMA Exclusive ==
  ASSUME ExecInv, Knowledge, NEW w \in Workers, proc[w].pc \in Busy, NEW v \in Workers
  PROVE  /\ v # w /\ proc[v].pc \in Claimed => Mine(v) # Mine(w)
         /\ proc[v].pc \in Recovering => Mine(v) # Mine(w)
         /\ Mine(w) \notin clean[v].held
         /\ InTouch => Mine(w) \notin LostRuns /\ ~Gone(w)
<1>1. /\ Live(w) /\ Mine(w) \in Runs /\ runs[Mine(w)].worker = w
      /\ runs[Mine(w)].status = "running"
  BY BusyLive DEF Knowledge, ExecutorKnows
<1>2. v # w /\ proc[v].pc \in Claimed => Mine(v) # Mine(w)
  BY <1>1 DEF ExecInv, ExecutesOwnRun
<1>3. proc[v].pc \in Recovering => Mine(v) # Mine(w)
  <2>1. proc[v].pc \in Recovering => v # w
    BY DEF Busy, Claimed, Inside, Recovering
  <2>2. proc[v].pc \in Recovering => Interrupts(v, Mine(v), proc[v].all)
    BY DEF Knowledge, RecoveryKnows
  <2>. QED BY <1>1, <2>1, <2>2 DEF Interrupts, Live, Dead
<1>4. Mine(w) \notin clean[v].held
  BY <1>1, StatusFacts DEF Knowledge, PassKnows
<1>5. InTouch => ~Gone(w)
  BY <1>1, GoneDead DEF Knowledge, Live, Dead
<1>6. InTouch => Mine(w) \notin LostRuns
  BY <1>1, <1>5 DEF LostRuns
<1>. QED BY <1>2, <1>3, <1>4, <1>5, <1>6

----------------------------------------------------------------------------
(* Every step is careful, but those that create, start and deploy.         *)

\* What an executor may count on.
LEMMA AtWork ==
  ASSUME ExecInv, Knowledge, NEW w \in Workers, proc[w].pc \in Claimed
  PROVE  /\ Mine(w) \in Runs /\ Accounted(Mine(w)) /\ OnHost(Engine[w], Mine(w))
         /\ \A e \in Engines, i \in Steps : box[e][Mine(w)][i] # "none" => e = Engine[w]
         /\ proc[w].pc \in Busy =>
              /\ \A j \in Steps : box[Engine[w]][Mine(w)][j] # "none" =>
                   proc[w].pc \in Holding /\ j = CurrentStep(w)
              /\ \A t \in Targets : targets[t].owner[1] = Mine(w) => proc[w].pc \in Deploying
<1>1. Mine(w) \in Runs /\ runs[Mine(w)].worker = w /\ HandedOut(Mine(w))
  BY StandsOn DEF ExecInv, ExecutesOwnRun, HandedOut
<1>2. Accounted(Mine(w)) /\ OnHost(Engine[w], Mine(w))
  BY <1>1 DEF Knowledge, OnHost
<1>3. \A e \in Engines, i \in Steps : box[e][Mine(w)][i] # "none" => e = Engine[w]
  BY <1>1, <1>2, OneHost, EngineTyped
<1>4. proc[w].pc \in Busy =>
        /\ \A j \in Steps : box[Engine[w]][Mine(w)][j] # "none" =>
             proc[w].pc \in Holding /\ j = CurrentStep(w)
        /\ \A t \in Targets : targets[t].owner[1] = Mine(w) => proc[w].pc \in Deploying
  BY DEF Knowledge, ExecutorKnows
<1>. QED BY <1>1, <1>2, <1>3, <1>4

\* Setting one container of the worker's host.
LEMMA BoxSet ==
  ASSUME ExecInv, NEW w \in Workers, NEW r \in Runs, NEW i \in Steps, NEW s, SetBox(w, r, i, s)
  PROVE  \A e \in Engines, q \in Runs, j \in Steps :
           box'[e][q][j] = IF e = Engine[w] /\ q = r /\ j = i THEN s ELSE box[e][q][j]
BY ProcTyped, EngineTyped DEF SetBox, BoxesTyped

\* Making or deleting one workspace there.
LEMMA DirSet ==
  ASSUME ExecInv, NEW w \in Workers, NEW r \in Runs, NEW b \in BOOLEAN,
         ws' = [ws EXCEPT ![Engine[w]][r] = b]
  PROVE  \A e \in Engines : ws'[e][r] = IF e = Engine[w] THEN b ELSE ws[e][r]
BY ProcTyped, EngineTyped DEF DirsTyped

\* An executor is careful with its run, but where it creates, starts and deploys.
LEMMA ExecuteCareful ==
  ASSUME ExecInv, IInv, Knowledge, NEW w \in Workers, ExecuteNext(w),
         NEW q \in Runs, q = Mine(w), NEW i, i = CurrentStep(w),
         proc[w].pc \notin {"begin", "create", "start"}
  PROVE  Careful(q)
<1>t. /\ q \in Runs /\ Accounted(q)
      /\ proc[w].pc \in Stepping => i \in Steps
      /\ At(w, "next") /\ proc[w].todo # {} => i \in Steps
  BY StandsOn, CurrentStepIsStep DEF Knowledge, ExecInv
<1>s. ASSUME UNCHANGED <<store, box, ws>> PROVE Careful(q)
  BY <1>s, <1>t, RunAside, SameCareful DEF Same, HostAside
<1>k. UNCHANGED host => UNCHANGED <<box, ws>>
  BY DEF host
<1>b. ASSUME UNCHANGED <<store, ws>>, i \in Steps, SetBox(w, q, i, "none") PROVE Careful(q)
  <2>1. UNCHANGED <<steps, targets>>
    BY <1>b DEF store
  <2>2. \A e \in Engines, j \in Steps : box'[e][q][j] \in {box[e][q][j], "none"}
    BY <1>b, <1>t, BoxSet
  <2>. QED BY <1>b, <1>t, <2>1, <2>2, BoxCareful
<1>1. CASE Claim(w)
  <2>1. UNCHANGED <<box, ws>> /\ \E r \in Runs : UNCHANGED store \/ ClaimNext(w, r)
    BY <1>1 DEF Claim, Call, Go, Back, host
  <2>2. Aside(q)
    BY <1>t, <2>1, RunAside
  <2>. QED BY <1>t, <2>1, <2>2, SameCareful DEF Same, HostAside
<1>2. CASE ClaimNothing(w) \/ Enter(w) \/ Wait(w)
  BY <1>2, <1>s, <1>k DEF ClaimNothing, Enter, Wait, RecoveryRequired, Back, Go, Return
<1>3. CASE Fetch(w)
  <2>1. proc[w].pc = "fetch" /\ proc[w].pc \in Claimed \cap Busy /\ proc[w].pc \notin Holding
    BY <1>3 DEF Fetch, At, Claimed, Busy, Inside, Holding
  <2>2. PICK b \in BOOLEAN : ws' = [ws EXCEPT ![Engine[w]][q] = b]
    BY <1>3 DEF Fetch
  <2>3. UNCHANGED <<steps, targets, box>>
    BY <1>3 DEF Fetch, store
  <2>4. \A e \in Engines : ws'[e][q] = IF e = Engine[w] THEN b ELSE ws[e][q]
    BY <1>t, <2>2, DirSet
  <2>5. /\ OnHost(Engine[w], q)
        /\ \A e \in Engines, j \in Steps : box[e][q][j] = "none"
    BY <2>1, AtWork
  <2>. QED BY <1>t, <2>3, <2>4, <2>5, DirCareful
<1>4. CASE StartStep(w) \/ PlanBox(w) \/ Created(w)
  <2>1. UNCHANGED <<box, ws>>
    BY <1>4, <1>k DEF StartStep, PlanBox, Created, Call, RunCall, Leave, Go, Return, NotRecorded
  <2>2. \/ UNCHANGED store
        \/ i \in Steps /\ (StepStarted(q, i) \/ PlanContainer(q, i) \/ ContainerCreated(q, i))
    BY <1>4, <1>t DEF StartStep, PlanBox, Created, Call, RunCall, At, Stepping, Inside
  <2>3. CASE UNCHANGED store
    BY <1>s, <2>1, <2>3
  <2>4. CASE ~UNCHANGED store
    <3>1. UNCHANGED targets
      BY <2>2, <2>4 DEF StepStarted, PlanContainer, ContainerCreated, SetStep
    <3>. QED BY <1>t, <2>1, <2>2, <2>4, <3>1, PlainCareful
  <2>. QED BY <2>3, <2>4
<1>5. CASE Cleanup(w) \/ RemoveBox(w)
  <2>1. i \in Steps
    BY <1>5, <1>t DEF Cleanup, RemoveBox, At, Stepping, Inside
  <2>2. UNCHANGED <<store, ws>> /\ (UNCHANGED box \/ SetBox(w, q, i, "none"))
    BY <1>5 DEF Cleanup, RemoveBox, RecoveryRequired, Back
  <2>. QED BY <1>b, <1>s, <2>1, <2>2
<1>6. CASE Record(w)
  <2>1. i \in Steps /\ proc[w].pc = "receipt" /\ proc[w].pc \in Claimed \cap Busy
    BY <1>6, <1>t DEF Record, At, Stepping, Inside, Claimed, Busy
  <2>2. UNCHANGED <<box, ws>>
    BY <1>6, <1>k DEF Record, Call, Go, RecoveryRequired, Back
  <2>3. UNCHANGED store \/ Receipt(q, i, proc[w].x[1], proc[w].x[2], FALSE)
    BY <1>6 DEF Record, Call, StepFinished
  <2>4. \/ box[Engine[w]][q][i] = "none"
        \/ /\ box[Engine[w]][q][i] \in Exited
           /\ proc[w].x[2] = ExitCode(box[Engine[w]][q][i])
    BY <2>1 DEF Knowledge, ExecutorKnows
  <2>5. \A e \in Engines : box[e][q][i] # "none" => e = Engine[w]
    BY <2>1, AtWork
  <2>6. CASE Receipt(q, i, proc[w].x[1], proc[w].x[2], FALSE)
    <3>1. \A e \in Engines : box[e][q][i] # "running"
      BY <2>4, <2>5, BoxStates
    <3>2. \A e \in Engines : box[e][q][i] \in Exited => proc[w].x[2] = ExitCode(box[e][q][i])
      BY <2>4, <2>5, BoxStates
    <3>. QED BY <1>t, <2>1, <2>2, <2>6, <3>1, <3>2, ReceiptCareful
  <2>. QED BY <1>s, <2>2, <2>3, <2>6
<1>7. CASE Removed(w)
  <2>1. i \in Steps /\ proc[w].pc = "removed" /\ proc[w].pc \in Claimed \cap Busy
        /\ proc[w].pc \notin Holding \cup Deploying
    BY <1>7, <1>t DEF Removed, At, Stepping, Inside, Claimed, Busy, Holding, Deploying
  <2>2. UNCHANGED <<box, ws>>
    BY <1>7, <1>k DEF Removed, Call, Go, Leave, RecoveryRequired, Back
  <2>3. UNCHANGED store \/ ContainerRemoved(q, i)
    BY <1>7 DEF Removed, Call
  <2>4. /\ \A e \in Engines, j \in Steps : box[e][q][j] = "none"
        /\ \A t \in Targets : targets[t].owner[1] # q
    BY <2>1, AtWork
  <2>5. CASE ContainerRemoved(q, i)
    <3>1. UNCHANGED targets /\ steps' = [steps EXCEPT ![q][i] = RemoveMark(steps[q][i])]
      BY <2>5 DEF ContainerRemoved, SetStep
    <3>2. \A j \in Steps : steps'[q][j].code = steps[q][j].code
      BY <1>t, <3>1 DEF RemoveMark, IInv, TypeOK, Step
    <3>. QED BY <1>t, <2>2, <2>4, <3>1, <3>2, MarkCareful
  <2>. QED BY <1>s, <2>2, <2>3, <2>5
<1>8. CASE FinishRun(w)
  <2>1. UNCHANGED <<box, ws>> /\ (UNCHANGED store \/ Ending(q, proc[w].out))
    BY <1>8, <1>k DEF FinishRun, Call, Go, Back
  <2>2. UNCHANGED targets
    BY <2>1 DEF Ending, Finish, store
  <2>. QED BY <1>s, <1>t, <2>1, <2>2, PlainCareful
<1>9. CASE SweepRun(w)
  <2>1. proc[w].pc = "sweep" /\ proc[w].pc \in Claimed
    BY <1>9 DEF SweepRun, At, Claimed
  <2>2. ws' = [ws EXCEPT ![Engine[w]][q] = FALSE] /\ UNCHANGED <<steps, targets, box>>
    BY <1>9 DEF SweepRun, store
  <2>4. \A e \in Engines : ws'[e][q] = IF e = Engine[w] THEN FALSE ELSE ws[e][q]
    BY <1>t, <2>2, DirSet
  <2>5. /\ \A e \in Engines, j \in Steps : box[e][q][j] # "none" => e = Engine[w]
        /\ \A j \in Steps : box[Engine[w]][q][j] # "running"
    BY <2>1, AtWork DEF Knowledge, ExecutorKnows
  <2>. QED BY <1>t, <2>2, <2>4, <2>5, DirCareful
<1>. QED BY <1>1, <1>2, <1>3, <1>4, <1>5, <1>6, <1>7, <1>8, <1>9
         DEF ExecuteNext, Begin, Create, StartBox, At

\* Recovery is careful with the run it recovers.
LEMMA RecoverCareful ==
  ASSUME ExecInv, IInv, Knowledge, NEW w \in Workers, RecoverNext(w),
         NEW q \in Runs, q = Mine(w)
  PROVE  Careful(q)
<1>t. /\ q \in Runs /\ Accounted(q)
      /\ proc[w].todo \subseteq Steps
      /\ proc[w].pc \in Recovering => OnHost(Engine[w], q)
  BY ProcTyped DEF Knowledge, RecoveryKnows, Interrupts, Process
<1>e. ASSUME proc[w].pc \in Recovering, NEW e \in Engines, NEW j \in Steps, box[e][q][j] # "none"
      PROVE  e = Engine[w]
  BY <1>e, <1>t, OneHost, EngineTyped
<1>s. ASSUME UNCHANGED <<store, box, ws>> PROVE Careful(q)
  BY <1>s, <1>t, RunAside, SameCareful DEF Same, HostAside
<1>k. UNCHANGED host => UNCHANGED <<box, ws>>
  BY DEF host
<1>b. ASSUME UNCHANGED <<store, ws>>, NEW i \in Steps, NEW s, SetBox(w, q, i, s),
             s = "none" \/ (box[Engine[w]][q][i] = "running" /\ s \in Exited)
      PROVE  Careful(q)
  <2>1. UNCHANGED <<steps, targets>>
    BY <1>b DEF store
  <2>2. \A e \in Engines, j \in Steps :
           \/ box'[e][q][j] \in {box[e][q][j], "none"}
           \/ box[e][q][j] = "running" /\ box'[e][q][j] \in Exited
    BY <1>b, <1>t, BoxSet
  <2>. QED BY <1>b, <1>t, <2>1, <2>2, BoxCareful
<1>1. CASE Survey(w) \/ RecoverLock(w) \/ RecoverAbort(w)
  BY <1>1, <1>s, <1>k DEF Survey, RecoverLock, RecoverAbort, Go, Back
<1>2. CASE RecoverBox(w)
  <2>1. PICK i \in proc[w].todo :
          LET s == box[Engine[w]][q][i]
          IN \/ UNCHANGED <<store, box, ws>>
             \/ s = "running" /\ SetBox(w, q, i, "exited1") /\ UNCHANGED <<ws, store>>
             \/ s \in Exited /\ ExitRecorded(q, i, s) /\ UNCHANGED <<box, ws>>
    BY <1>2, <1>k DEF RecoverBox, Call, Go, Back
  <2>2. i \in Steps /\ proc[w].pc \in Recovering
    BY <1>2, <1>t DEF RecoverBox, At, Recovering
  <2>3. CASE box[Engine[w]][q][i] \in Exited /\ ExitRecorded(q, i, box[Engine[w]][q][i])
             /\ UNCHANGED <<box, ws>>
    <3> DEFINE s == box[Engine[w]][q][i]
    <3>1. UNCHANGED store \/ \E st : Receipt(q, i, st, ExitCode(s), TRUE)
      BY <2>3 DEF ExitRecorded, RecoverStepExit
    <3>2. \A e \in Engines : box[e][q][i] # "none" => e = Engine[w]
      BY <1>e, <2>2
    <3>3. ASSUME NEW st, Receipt(q, i, st, ExitCode(s), TRUE) PROVE Careful(q)
      <4>1. \A e \in Engines : box[e][q][i] # "running" /\ (box[e][q][i] \in Exited => ExitCode(s) = ExitCode(box[e][q][i]))
        BY <2>3, <3>2, BoxStates
      <4> HIDE DEF s
      <4>. QED BY <1>t, <2>2, <2>3, <3>3, <4>1, ReceiptCareful
    <3>. QED BY <1>s, <2>3, <3>1, <3>3
  <2>. QED BY <1>b, <1>s, <2>1, <2>2, <2>3 DEF Exited
<1>3. CASE RecoverStopped(w)
  <2>1. /\ proc[w].pc = "rstop" /\ proc[w].todo = {}
        /\ UNCHANGED <<box, ws>> /\ (UNCHANGED store \/ ConfirmExecutionStopped(q))
    BY <1>3, <1>k DEF RecoverStopped, Call, Go, Back, At
  <2>2. \A e \in Engines, j \in Steps : box[e][q][j] # "running"
    <3>1. \A j \in Steps : box[Engine[w]][q][j] # "running"
      BY <2>1 DEF Knowledge, RecoveryKnows
    <3>. QED BY <1>e, <2>1, <3>1 DEF Recovering
  <2>. QED BY <1>s, <1>t, <2>1, <2>2, StopCareful
<1>4. CASE RecoverFinish(w)
  <2>1. UNCHANGED <<box, ws>> /\ (UNCHANGED store \/ Ending(q, "failed"))
    BY <1>4, <1>k DEF RecoverFinish, Call, Go, Back
  <2>2. UNCHANGED targets
    BY <2>1 DEF Ending, Finish, store
  <2>. QED BY <1>s, <1>t, <2>1, <2>2, PlainCareful
<1>r. ASSUME At(w, "rremove")
      PROVE  /\ \A e \in Engines, j \in Steps : box[e][q][j] # "running"
             /\ \A t \in Targets : targets[t].owner[1] # q
  <2>1. /\ \A j \in Steps : box[Engine[w]][q][j] # "running"
        /\ \A t \in Targets : targets[t].owner[1] # q
    BY <1>r DEF Knowledge, RecoveryKnows, At
  <2>. QED BY <1>e, <1>r, <2>1 DEF At, Recovering
<1>5. CASE RecoverRemove(w)
  <2>1. PICK i \in proc[w].todo :
          \/ UNCHANGED <<store, box, ws>>
          \/ SetBox(w, q, i, "none") /\ UNCHANGED <<ws, store>>
          \/ ContainerRemoved(q, i) /\ UNCHANGED <<box, ws>>
    BY <1>5, <1>k DEF RecoverRemove, Call, Go, Back
  <2>2. i \in Steps /\ At(w, "rremove")
    BY <1>5, <1>t DEF RecoverRemove
  <2>3. CASE ContainerRemoved(q, i) /\ UNCHANGED <<box, ws>>
    <3>1. UNCHANGED targets /\ steps' = [steps EXCEPT ![q][i] = RemoveMark(steps[q][i])]
      BY <2>3 DEF ContainerRemoved, SetStep
    <3>2. \A j \in Steps : steps'[q][j].code = steps[q][j].code
      BY <1>t, <3>1 DEF RemoveMark, IInv, TypeOK, Step
    <3>. QED BY <1>r, <1>t, <2>2, <2>3, <3>1, <3>2, MarkCareful
  <2>. QED BY <1>b, <1>s, <2>1, <2>2, <2>3
<1>6. CASE RecoverSweep(w)
  <2>1. At(w, "rremove") /\ ws' = [ws EXCEPT ![Engine[w]][q] = FALSE] /\ UNCHANGED <<steps, targets, box>>
    BY <1>6 DEF RecoverSweep, store
  <2>2. \A e \in Engines : ws'[e][q] = IF e = Engine[w] THEN FALSE ELSE ws[e][q]
    BY <1>t, <2>1, DirSet
  <2>. QED BY <1>r, <1>t, <2>1, <2>2, DirCareful
<1>. QED BY <1>1, <1>2, <1>3, <1>4, <1>5, <1>6 DEF RecoverNext

\* What a cleanup pass may count on, of a run it locked.
LEMMA AtSweep ==
  ASSUME ExecInv, Knowledge, NEW w \in Workers, NEW q \in clean[w].held
  PROVE  /\ q \in Runs /\ Accounted(q) /\ OnHost(Engine[w], q)
         /\ \A e \in Engines, i \in Steps : box[e][q][i] # "none" => e = Engine[w]
         /\ clean[w].pc = "stop" /\ clean[w].boxes = {} =>
              \A e \in Engines, i \in Steps : box[e][q][i] # "running"
         /\ q \in clean[w].conf => \A t \in Targets : targets[t].owner[1] # q
<1>1. q \in Runs
  BY DEF ExecInv, ExecTypeOK, Sweep
<1>2. Accounted(q) /\ OnHost(Engine[w], q)
  BY <1>1 DEF Knowledge, PassKnows
<1>3. \A e \in Engines, i \in Steps : box[e][q][i] # "none" => e = Engine[w]
  BY <1>1, <1>2, OneHost, EngineTyped
<1>4. clean[w].pc = "stop" /\ clean[w].boxes = {} =>
        \A i \in Steps : box[Engine[w]][q][i] # "running"
  BY DEF Knowledge, PassKnows
<1>5. q \in clean[w].conf => \A t \in Targets : targets[t].owner[1] # q
  BY DEF Knowledge, PassKnows
<1>. QED BY <1>1, <1>2, <1>3, <1>4, <1>5

\* A cleanup pass is careful with the runs it locked.
LEMMA SweepCareful ==
  ASSUME ExecInv, IInv, Knowledge, NEW w \in Workers, SweepNext(w), NEW q \in clean[w].held
  PROVE  Careful(q)
<1>t. /\ q \in Runs /\ Accounted(q) /\ OnHost(Engine[w], q)
      /\ \A e \in Engines, i \in Steps : box[e][q][i] # "none" => e = Engine[w]
  BY AtSweep
<1>0. /\ clean[w].boxes \subseteq Runs \X Steps /\ clean[w].held \subseteq Runs
      /\ clean[w].pc = "stop" => \A b \in clean[w].boxes : b[1] \in clean[w].held
  BY DEF ExecInv, ExecTypeOK, Sweep, HoldsLock
<1>a. ASSUME Aside(q), UNCHANGED <<box, ws>> PROVE Careful(q)
  BY <1>a, <1>t, SameCareful DEF Same, HostAside
<1>s. ASSUME UNCHANGED <<store, box, ws>> PROVE Careful(q)
  BY <1>a, <1>s, <1>t, RunAside
<1>k. UNCHANGED host => UNCHANGED <<box, ws>>
  BY DEF host
<1>1. CASE SweepList(w) \/ SweepQuery(w) \/ SweepLock(w) \/ SweepAbort(w)
  BY <1>1, <1>s, <1>k DEF SweepList, SweepQuery, SweepLock, SweepAbort
<1>2. CASE SweepBox(w)
  <2>1. PICK b \in clean[w].boxes :
          LET s == box[Engine[w]][b[1]][b[2]]
          IN \/ UNCHANGED <<store, box, ws>>
             \/ s = "running" /\ SetBox(w, b[1], b[2], "exited1") /\ UNCHANGED <<store, ws>>
             \/ s \in Exited /\ ExitRecorded(b[1], b[2], s) /\ UNCHANGED <<box, ws>>
             \/ SetBox(w, b[1], b[2], "none") /\ UNCHANGED <<store, ws>>
    BY <1>2, <1>k DEF SweepBox, Call
  <2>2. b[1] \in clean[w].held /\ b[1] \in Runs /\ b[2] \in Steps
    BY <1>0, <1>2 DEF SweepBox
  <2>3. PICK r \in Runs, i \in Steps : r = b[1] /\ i = b[2]
    BY <2>2
  <2>4. ASSUME NEW s, SetBox(w, r, i, s), UNCHANGED <<store, ws>>,
               s = "none" \/ (box[Engine[w]][r][i] = "running" /\ s \in Exited)
        PROVE  Careful(q)
    <3>1. UNCHANGED <<steps, targets>>
      BY <2>4 DEF store
    <3>2. \A e \in Engines, j \in Steps :
             \/ box'[e][q][j] \in {box[e][q][j], "none"}
             \/ box[e][q][j] = "running" /\ box'[e][q][j] \in Exited
      BY <1>t, <2>4, BoxSet
    <3>. QED BY <1>t, <2>4, <3>1, <3>2, BoxCareful
  <2>5. ASSUME box[Engine[w]][r][i] \in Exited, ExitRecorded(r, i, box[Engine[w]][r][i]),
               UNCHANGED <<box, ws>>
        PROVE  Careful(q)
    <3>1. CASE q # r
      <4>1. Aside(q)
        BY <1>t, <2>5, <3>1, ExitCalls, StepAside, RunAside
      <4>. QED BY <1>a, <2>5, <4>1
    <3>2. CASE q = r
      <4> DEFINE s == box[Engine[w]][q][i]
      <4>1. UNCHANGED store \/ \E st : Receipt(q, i, st, ExitCode(s), TRUE)
        BY <2>5, <3>2 DEF ExitRecorded, RecoverStepExit
      <4>2. ASSUME NEW st, Receipt(q, i, st, ExitCode(s), TRUE) PROVE Careful(q)
        <5>1. \A e \in Engines : box[e][q][i] # "running"
          BY <1>t, <2>5, <3>2, BoxStates
        <5>2. \A e \in Engines : box[e][q][i] \in Exited => ExitCode(s) = ExitCode(box[e][q][i])
          BY <1>t, BoxStates
        <5> HIDE DEF s
        <5>. QED BY <1>t, <2>5, <4>2, <5>1, <5>2, ReceiptCareful
      <4>. QED BY <1>s, <2>5, <4>1, <4>2
    <3>. QED BY <3>1, <3>2
  <2>. QED BY <1>s, <2>1, <2>3, <2>4, <2>5 DEF Exited
<1>3. CASE SweepConfirm(w)
  <2>1. PICK r \in clean[w].held :
          \/ UNCHANGED store
          \/ ConfirmExecutionStopped(r)
          \/ r \in clean[w].conf /\ AllRemoved(r)
    BY <1>3 DEF SweepConfirm, Call
  <2>2. UNCHANGED <<box, ws>> /\ clean[w].pc = "stop" /\ clean[w].boxes = {} /\ r \in Runs
    BY <1>0, <1>3, <1>k DEF SweepConfirm
  <2>3. \A e \in Engines, i \in Steps : box[e][q][i] # "running"
    BY <2>2, AtSweep
  <2>4. CASE q # r
    BY <1>a, <1>t, <2>1, <2>2, <2>4, RunAside
  <2>5. CASE q = r /\ ConfirmExecutionStopped(q)
    BY <1>t, <2>2, <2>3, <2>5, StopCareful
  <2>6. CASE q \in clean[w].conf /\ AllRemoved(q)
    <3>1. \A t \in Targets : targets'[t].owner[1] # q
      BY <2>6, AtSweep DEF AllRemoved
    <3>2. \A i \in Steps : steps'[q][i] = RemoveMark(steps[q][i])
      BY <1>t, <2>6 DEF AllRemoved, IInv, TypeOK
    <3>3. \A i \in Steps : steps'[q][i].code = steps[q][i].code
      <4>1. ASSUME NEW s \in Step PROVE RemoveMark(s).code = s.code
        BY DEF RemoveMark, Step
      <4>. QED BY <1>t, <3>2, <4>1 DEF IInv, TypeOK
    <3>. QED BY <1>t, <2>2, <2>3, <3>1, <3>3, MarkCareful
  <2>. QED BY <1>s, <2>1, <2>2, <2>4, <2>5, <2>6
<1>4. CASE SweepDirs(w)
  <2>1. /\ UNCHANGED <<steps, targets, box>> /\ clean[w].pc = "stop" /\ clean[w].boxes = {}
        /\ ws' = [ws EXCEPT ![Engine[w]] =
                    [r \in Runs |-> ws[Engine[w]][r] /\ r \notin (clean[w].dirs \cap clean[w].done)]]
    BY <1>4 DEF SweepDirs, store
  <2>2. \A e \in Engines, i \in Steps : box[e][q][i] # "running"
    BY <2>1, AtSweep
  <2>3. \A e \in Engines : ws'[e][q] => ws[e][q]
    BY <1>t, <2>1, ProcTyped, EngineTyped DEF DirsTyped
  <2>. QED BY <1>t, <2>1, <2>2, <2>3, DirCareful
<1>. QED BY <1>1, <1>2, <1>3, <1>4 DEF SweepNext

\* So are the reaper, the operator and the scripts.
LEMMA WorldCareful ==
  ASSUME ExecInv, IInv, Knowledge, NEW q \in Runs
  PROVE  /\ \A w \in Workers : Reap(w) \/ Release(w) => Careful(q)
         /\ \A e \in Engines, r \in Runs, i \in Steps : ScriptExits(e, r, i) => Careful(q)
<1>t. Accounted(q) /\ steps \in [Runs -> [Steps -> Step]]
  BY DEF Knowledge, IInv, TypeOK
<1>1. ASSUME NEW w \in Workers, Reap(w) PROVE Careful(q)
  <2>1. FailLostRuns(LostRuns) /\ UNCHANGED <<targets, box, ws>>
    BY <1>1 DEF Reap, exec, FailLostRuns
  <2>. QED BY <1>t, <2>1, PlainCareful
<1>2. ASSUME NEW w \in Workers, Release(w) PROVE Careful(q)
  <2>1. CASE runs[q].worker # w
    BY <1>2, <1>t, <2>1, WorldSame, SameCareful
  <2>2. CASE runs[q].worker = w
    <3>1. /\ UNCHANGED <<box, ws>> /\ ReleaseLostWorker(w, Runs)
          /\ \A i \in Steps : box[Engine[w]][q][i] # "running"
      BY <1>2, <2>2 DEF Release, host
    <3>2. \A e \in Engines, i \in Steps : box[e][q][i] # "running"
      BY <1>t, <2>2, <3>1 DEF Accounted, OnHost
    <3>3. \A t \in Targets : targets'[t].owner =
            IF targets[t].owner[1] \in {r \in Runs : runs[r].worker = w} THEN NoOwner ELSE targets[t].owner
      BY <3>1 DEF ReleaseLostWorker, Released, IInv, TypeOK, Target
    <3>4. \A t \in Targets : targets'[t].owner[1] # q
      BY <2>2, <3>3, ConstantsOK DEF NoOwner, Runs
    <3>5. \A i \in Steps :
            LET s == steps[q][i]
            IN steps'[q][i] \in {s, RemoveMark(s), RemoveMark(StopDeploy(SettleStep(s, "failed", "skipped")))}
      BY <3>1 DEF ReleaseLostWorker
    <3>6. ASSUME NEW s \in Step
          PROVE  RemoveMark(s).code = s.code
                 /\ RemoveMark(StopDeploy(SettleStep(s, "failed", "skipped"))).code = s.code
      BY DEF RemoveMark, StopDeploy, SettleStep, Step
    <3>7. \A i \in Steps : steps'[q][i].code = steps[q][i].code
      BY <1>t, <3>5, <3>6
    <3>. QED BY <1>t, <3>1, <3>2, <3>4, <3>7, MarkCareful
  <2>. QED BY <2>1, <2>2
<1>3. ASSUME NEW e \in Engines, NEW r \in Runs, NEW i \in Steps, ScriptExits(e, r, i)
      PROVE  Careful(q)
  <2>1. PICK s \in Exited : box' = [box EXCEPT ![e][r][i] = s]
    BY <1>3 DEF ScriptExits
  <2>2. UNCHANGED <<steps, targets, ws>> /\ box[e][r][i] = "running"
    BY <1>3 DEF ScriptExits, store
  <2>3. \A d \in Engines, j \in Steps :
           box'[d][q][j] = IF d = e /\ q = r /\ j = i THEN s ELSE box[d][q][j]
    BY <2>1, ProcTyped DEF BoxesTyped, ExecInv, ExecTypeOK
  <2>4. \A d \in Engines, j \in Steps :
           \/ box'[d][q][j] \in {box[d][q][j], "none"}
           \/ box[d][q][j] = "running" /\ box'[d][q][j] \in Exited
    BY <2>2, <2>3
  <2>. QED BY <1>t, <2>2, <2>4, BoxCareful
<1>. QED BY <1>1, <1>2, <1>3

\* The steps that deploy, create and start.
Rising(w) == Begin(w) \/ Create(w) \/ StartBox(w)

\* Every other step is careful with every run.
LEMMA AllCareful ==
  ASSUME ExecInv, IInv, Knowledge, [ExecNext]_vars, NEW q \in Runs,
         \A w \in Workers : Rising(w) => q # Mine(w)
  PROVE  Careful(q)
<1>a. Accounted(q)
  BY DEF Knowledge
<1>1. CASE UNCHANGED vars
  BY <1>1, <1>a, RunAside, SameCareful DEF vars, exec, Same, HostAside
<1>2. ASSUME NEW w \in Workers, Bystander(w) PROVE Careful(q)
  BY <1>2, <1>a, BystanderSame, SameCareful
<1>3. ASSUME NEW w \in Workers, RecoverNext(w) PROVE Careful(q)
  BY <1>3, <1>a, MainSame, SameCareful, RecoverCareful
<1>4. ASSUME NEW w \in Workers, ExecuteNext(w) PROVE Careful(q)
  <2>1. CASE q # Mine(w)
    BY <1>4, <1>a, <2>1, MainSame, SameCareful
  <2>2. CASE q = Mine(w)
    <3>1. proc[w].pc \notin {"begin", "create", "start"}
      <4>1. proc[w].pc \in {"begin", "create", "start"} => Rising(w)
        BY <1>4 DEF ExecuteNext, Rising, Claim, ClaimNothing, Enter, Fetch, StartStep, PlanBox,
           Created, Wait, Cleanup, Record, RemoveBox, Removed, FinishRun, SweepRun, At
      <4>. QED BY <2>2, <4>1
    <3>2. PICK i : i = CurrentStep(w)
      OBVIOUS
    <3>. QED BY <1>4, <2>2, <3>1, <3>2, ExecuteCareful
  <2>. QED BY <2>1, <2>2
<1>5. ASSUME NEW w \in Workers, SweepNext(w) PROVE Careful(q)
  BY <1>5, <1>a, SweepSame, SameCareful, SweepCareful
<1>6. ASSUME NEW w \in Workers, Reap(w) \/ Release(w) PROVE Careful(q)
  BY <1>6, WorldCareful
<1>7. ASSUME NEW r \in Runs, CancelRun(r) \/ Deadline(r) PROVE Careful(q)
  BY <1>7, <1>a, WorldSame, SameCareful
<1>8. ASSUME NEW e \in Engines, NEW r \in Runs, NEW i \in Steps, ScriptExits(e, r, i)
      PROVE  Careful(q)
  BY <1>8, WorldCareful
<1>9. Submit => Careful(q)
  BY <1>a, WorldSame, SameCareful
<1>. QED BY <1>1, <1>2, <1>3, <1>4, <1>5, <1>6, <1>7, <1>8, <1>9
         DEF ExecNext, MainNext, BeatNext, FaultNext, Bystander

\* The step the executor is about to deploy, create or start.
LEMMA AtRising ==
  ASSUME ExecInv, IInv, Knowledge, NEW w \in Workers, Rising(w),
         NEW q, q = Mine(w), NEW i, i = CurrentStep(w)
  PROVE  /\ q \in Runs /\ i \in Steps /\ Accounted(q) /\ OnHost(Engine[w], q)
         /\ steps[q][i].status = "running" /\ steps[q][i].planned /\ ~steps[q][i].removed
         /\ steps[q][i].code = NoCode
         /\ ws[Engine[w]][q] /\ Live(w)
         /\ \A t \in Targets : targets[t].owner[1] = q => targets[t].owner = <<q, i>>
         /\ \A e \in Engines, j \in Steps : box[e][q][j] # "none" =>
              e = Engine[w] /\ j = i /\ proc[w].pc = "start"
<1>1. /\ proc[w].pc \in {"begin", "create", "start"}
      /\ proc[w].pc \in Claimed \cap Busy \cap Stepping
  BY DEF Rising, Begin, Create, StartBox, At, Claimed, Busy, Stepping, Inside
<1>2. q \in Runs /\ i \in Steps /\ i \in proc[w].todo
  BY <1>1, StandsOn, CurrentStepIsStep DEF ExecInv, Placed
<1>3. /\ Accounted(q) /\ OnHost(Engine[w], q)
      /\ \A e \in Engines, j \in Steps : box[e][q][j] # "none" => e = Engine[w]
  BY <1>1, AtWork
<1>4. /\ \A j \in Steps : box[Engine[w]][q][j] # "none" => proc[w].pc \in Holding /\ j = i
      /\ \A t \in Targets : targets[t].owner[1] = q => targets[t].owner = <<q, i>>
      /\ \A j \in proc[w].todo : ~steps[q][j].removed
      /\ steps[q][i].status = "running" /\ steps[q][i].planned
  BY <1>1 DEF Knowledge, ExecutorKnows, Deploying
<1>5. steps[q][i].code = NoCode
  BY <1>2, <1>4, StatusFacts DEF IInv, ReceiptShape
<1>6. ws[Engine[w]][q]
  BY <1>1 DEF ExecInv, WorkspaceFenced, Inside
<1>7. Live(w)
  BY <1>1, BusyLive
<1>8. proc[w].pc \in Holding => proc[w].pc = "start"
  BY <1>1 DEF Holding
<1>. QED BY <1>2, <1>3, <1>4, <1>5, <1>6, <1>7, <1>8

\* Deploying, creating and starting keep the run accounted for.
LEMMA RisingAccounts ==
  ASSUME ExecInv, IInv, Knowledge, NEW w \in Workers, Rising(w), NEW q \in Runs, q = Mine(w)
  PROVE  Accounted(q)'
<1>0. PICK i : i = CurrentStep(w)
  OBVIOUS
<1>t. /\ i \in Steps /\ Accounted(q) /\ OnHost(Engine[w], q)
      /\ steps[q][i].status = "running" /\ steps[q][i].planned /\ ~steps[q][i].removed
      /\ steps[q][i].code = NoCode /\ ws[Engine[w]][q]
      /\ \A e \in Engines, j \in Steps : box[e][q][j] # "none" =>
           e = Engine[w] /\ j = i /\ proc[w].pc = "start"
  BY <1>0, AtRising
<1>u. /\ steps \in [Runs -> [Steps -> Step]] /\ targets \in [Targets -> Target]
  BY DEF IInv, TypeOK
<1>r. UNCHANGED runs /\ UNCHANGED ws
  BY DEF Rising, Begin, Create, StartBox, Return, Go, Call, RunCall, store, host, BeginDeployment
<1>h. \A e \in Engines : OnHost(e, q)' = OnHost(e, q)
  BY <1>r DEF OnHost, HandedOut
<1>w. \A e \in Engines : ws'[e][q] => OnHost(e, q)'
  BY <1>h, <1>r, <1>t DEF Accounted
<1>1. CASE Begin(w)
  <2>1. UNCHANGED box /\ proc[w].pc = "begin"
    BY <1>1 DEF Begin, Return, Go, Call, RunCall, host, At
  <2>2. \A e \in Engines, j \in Steps : box'[e][q][j] = "none"
    BY <1>t, <2>1
  <2>3. UNCHANGED store \/ BeginDeployment(q, i)
    BY <1>0, <1>1 DEF Begin, Call, RunCall
  <2>4. ASSUME NEW t \in Targets, NEW j \in Steps, targets'[t].owner = <<q, j>>
        PROVE  Unremoved(steps'[q][j])
    <3>1. CASE UNCHANGED store
      BY <1>t, <2>4, <3>1 DEF Accounted, store
    <3>2. CASE BeginDeployment(q, i)
      <4>1. PICK g : /\ steps' = [steps EXCEPT ![q][i].gen = g]
                     /\ targets' = [targets EXCEPT ![runs[q].target].owner = <<q, i>>,
                                                   ![runs[q].target].gen = g]
        BY <3>2 DEF BeginDeployment
      <4>2. j = i \/ targets[t].owner = <<q, j>>
        BY <1>u, <2>4, <4>1 DEF Target
      <4>3. Unremoved(steps[q][j])
        BY <1>t, <4>2 DEF Accounted, Unremoved
      <4>4. steps'[q][j].planned = steps[q][j].planned /\ steps'[q][j].removed = steps[q][j].removed
        BY <1>u, <4>1 DEF Step
      <4>. QED BY <4>3, <4>4 DEF Unremoved
    <3>. QED BY <2>3, <3>1, <3>2
  <2>. QED BY <1>w, <2>2, <2>4, BoxStates DEF Accounted
<1>2. ASSUME NEW s \in {"created", "none"}, SetBox(w, q, i, s), UNCHANGED store, proc[w].pc = "create"
      PROVE  Accounted(q)'
  <2>1. UNCHANGED <<steps, targets>>
    BY <1>2 DEF store
  <2>2. \A e \in Engines, j \in Steps : box'[e][q][j] # "none" =>
           e = Engine[w] /\ j = i /\ box'[e][q][j] = "created"
    BY <1>2, <1>t, BoxSet
  <2>3. \A e \in Engines, j \in Steps : box'[e][q][j] \notin Exited /\ box'[e][q][j] # "running"
    BY <2>2, BoxStates
  <2>4. \A e \in Engines, j \in Steps : box'[e][q][j] # "none" => OnHost(e, q)' /\ steps'[q][j].planned
    BY <1>h, <1>t, <2>1, <2>2, EngineTyped
  <2>5. \A t \in Targets, j \in Steps : targets'[t].owner = <<q, j>> => Unremoved(steps'[q][j])
    BY <1>t, <2>1 DEF Accounted
  <2>. QED BY <1>w, <2>3, <2>4, <2>5 DEF Accounted
<1>3. CASE Create(w)
  BY <1>0, <1>2, <1>3 DEF Create, At
<1>4. CASE StartBox(w)
  <2>1. UNCHANGED <<steps, targets>> /\ proc[w].pc = "start"
    BY <1>4 DEF StartBox, store, At
  <2>2. CASE UNCHANGED box
    BY <1>h, <1>r, <1>t, <2>1, <2>2 DEF Accounted
  <2>3. CASE SetBox(w, q, i, "running")
    <3>1. \A e \in Engines, j \in Steps : box'[e][q][j] # "none" =>
             e = Engine[w] /\ j = i /\ box'[e][q][j] = "running"
      BY <1>t, <2>3, BoxSet
    <3>2. \A e \in Engines, j \in Steps : box'[e][q][j] \notin Exited
      BY <3>1, BoxStates
    <3>3. steps[q][i].created /\ (steps[q][i].kind = "deploy" =>
            \E t \in Targets : targets[t].owner = <<q, i>>)
      BY <1>0, <2>1 DEF Knowledge, ExecutorKnows
    <3>4. \A e \in Engines, j \in Steps : box'[e][q][j] # "none" => OnHost(e, q)' /\ steps'[q][j].planned
      BY <1>h, <1>t, <2>1, <3>1, EngineTyped
    <3>5. \A t \in Targets, j \in Steps : targets'[t].owner = <<q, j>> => Unremoved(steps'[q][j])
      BY <1>t, <2>1 DEF Accounted
    <3>6. \A e \in Engines, j \in Steps : box'[e][q][j] = "running" =>
            LET s == steps'[q][j]
            IN /\ s.created /\ ~s.removed /\ s.code = NoCode /\ ws'[e][q]
               /\ s.kind = "deploy" => \E t \in Targets : targets'[t].owner = <<q, j>>
      BY <1>r, <1>t, <2>1, <3>1, <3>3
    <3>. QED BY <1>w, <3>2, <3>4, <3>5, <3>6 DEF Accounted
  <2>. QED BY <1>0, <1>4, <2>2, <2>3 DEF StartBox
<1>. QED BY <1>1, <1>3, <1>4 DEF Rising

\* Every step keeps every run accounted for.
LEMMA AllAccounted ==
  ASSUME ExecInv, IInv, Knowledge, [ExecNext]_vars, NEW q \in Runs
  PROVE  Accounted(q)'
<1>1. RunsKept /\ RowsKept /\ Accounted(q)
  BY StoreStep DEF Transacts, Knowledge
<1>2. CASE \A w \in Workers : Rising(w) => q # Mine(w)
  BY <1>1, <1>2, AllCareful, AccountedKept
<1>3. ASSUME NEW w \in Workers, Rising(w), q = Mine(w) PROVE Accounted(q)'
  BY <1>3, RisingAccounts
<1>. QED BY <1>2, <1>3

----------------------------------------------------------------------------
(* Processes, workers' rows and statuses from step to step.                *)

\* The main loop of a worker stays where it is; it may have been signalled.
Undisturbed(w) ==
  /\ proc'[w].pc = proc[w].pc /\ proc'[w].run = proc[w].run /\ proc'[w].todo = proc[w].todo
  /\ proc'[w].list = proc[w].list /\ proc'[w].all = proc[w].all /\ proc'[w].x = proc[w].x

\* It moves by itself, or not at all.
LEMMA OwnSteps ==
  ASSUME ExecInv, IInv, [ExecNext]_vars, NEW w \in Workers
  PROVE  \/ Boot(w) \/ RecoverNext(w) \/ ExecuteNext(w) \/ Exit(w) \/ Crash(w)
         \/ Undisturbed(w)
<1>t. proc \in [Workers -> Process]
  BY DEF ExecInv, ExecTypeOK
<1>s. UNCHANGED proc => Undisturbed(w)
  BY DEF Undisturbed
<1>o. ASSUME NEW v \in Workers, v # w, NEW p, proc' = [proc EXCEPT ![v] = p] PROVE Undisturbed(w)
  BY <1>t, <1>o DEF Undisturbed
<1>1. ASSUME NEW v \in Workers, v # w, Boot(v) \/ RecoverNext(v) \/ ExecuteNext(v)
      PROVE  Undisturbed(w)
  <2>1. MainMoves(v)
    BY <1>1, BootMoves, RecoverMoves, ExecuteMoves
  <2>2. PICK p : Moves(v, p)
    BY <2>1 DEF MainMoves
  <2>. QED BY <1>1, <1>o, <2>2 DEF Moves
<1>2. ASSUME NEW v \in Workers, v # w, Exit(v) \/ Crash(v) PROVE Undisturbed(w)
  BY <1>2, <1>o DEF Exit, Crash, ProcessGone
<1>3. ASSUME NEW v \in Workers, SweepNext(v) PROVE Undisturbed(w)
  BY <1>3, <1>s, SweepSteps DEF SweepFrame
<1>4. ASSUME NEW v \in Workers, SignalNext(v) \/ Shutdown(v) \/ DiskBudget(v) PROVE Undisturbed(w)
  <2>1. \/ \E s : proc' = [proc EXCEPT ![v].stop = s]
        \/ proc' = [proc EXCEPT ![v].quit = TRUE]
    BY <1>4 DEF SignalNext, Watch, Interrupt, Shutdown, DiskBudget
  <2>2. ASSUME NEW s, proc' = [proc EXCEPT ![v].stop = s] PROVE Undisturbed(w)
    BY <1>t, <2>2 DEF Undisturbed, Process
  <2>3. ASSUME proc' = [proc EXCEPT ![v].quit = TRUE] PROVE Undisturbed(w)
    BY <1>t, <2>3 DEF Undisturbed, Process
  <2>. QED BY <2>1, <2>2, <2>3
<1>5. ASSUME NEW v \in Workers, BeatNext(v) \/ Heal(v) \/ Age(v) \/ Cut(v) \/ Release(v)
      PROVE  Undisturbed(w)
  BY <1>5, <1>s DEF BeatNext, Beat, Mature, Reap, Heal, Age, Cut, Release, exec
<1>6. ASSUME NEW r, CancelRun(r) \/ Deadline(r) PROVE Undisturbed(w)
  BY <1>6, <1>s DEF CancelRun, Deadline, exec
<1>7. ASSUME NEW e, NEW r, NEW i, ScriptExits(e, r, i) PROVE Undisturbed(w)
  BY <1>7, <1>s DEF ScriptExits
<1>8. Submit \/ UNCHANGED vars => Undisturbed(w)
  BY <1>s DEF Submit, vars, exec
<1>. QED BY <1>1, <1>2, <1>3, <1>4, <1>5, <1>6, <1>7, <1>8 DEF ExecNext, MainNext, FaultNext

\* The main loop goes on to pc, with the same run and the same steps to do.
On(w, pc) ==
  proc'[w].pc = pc /\ proc'[w].run = proc[w].run /\ proc'[w].todo = proc[w].todo

\* How the main loop moves.
LEMMA GoesOn ==
  ASSUME ExecInv, NEW w \in Workers
  PROVE  /\ \A pc : Go(w, [proc[w] EXCEPT !.pc = pc]) =>
              On(w, pc) /\ proc'[w].x = proc[w].x /\ proc'[w].list = proc[w].list
              /\ proc'[w].all = proc[w].all
         /\ \A pc : proc' = [proc EXCEPT ![w].pc = pc] => On(w, pc) /\ proc'[w].x = proc[w].x
         /\ \A o : Leave(w, o) => On(w, "finish")
         /\ \A x, o : Return(w, x, o) => On(w, "receipt") /\ proc'[w].x = x
         /\ Back(w) \/ RecoveryRequired(w) => proc'[w].pc = "idle"
<1>t. proc \in [Workers -> Process] /\ proc[w] \in Process
  BY DEF ExecInv, ExecTypeOK
<1>1. ASSUME NEW pc, Go(w, [proc[w] EXCEPT !.pc = pc])
      PROVE  On(w, pc) /\ proc'[w].x = proc[w].x /\ proc'[w].list = proc[w].list
              /\ proc'[w].all = proc[w].all
  BY <1>1, <1>t DEF Go, On, Process
<1>2. ASSUME NEW pc, proc' = [proc EXCEPT ![w].pc = pc]
      PROVE  On(w, pc) /\ proc'[w].x = proc[w].x
  BY <1>2, <1>t DEF On, Process
<1>3. ASSUME NEW o, Leave(w, o) PROVE On(w, "finish")
  BY <1>3, <1>t DEF Leave, On, Process
<1>4. ASSUME NEW x, NEW o, Return(w, x, o) PROVE On(w, "receipt") /\ proc'[w].x = x
  BY <1>4, <1>t DEF Return, Go, On, Process
<1>5. Back(w) \/ RecoveryRequired(w) => proc'[w].pc = "idle"
  BY <1>t DEF Back, RecoveryRequired, Sleeping
<1>. QED BY <1>1, <1>2, <1>3, <1>4, <1>5

\* Where the steps of execution lead.
LEMMA ExecutePlaces ==
  ASSUME ExecInv, NEW w \in Workers
  PROVE  /\ Claim(w) => \/ proc'[w].pc = "idle"
                        \/ \E r \in Runs : /\ ClaimNext(w, r) /\ proc'[w].pc = "claimed"
                                           /\ proc'[w].run = r /\ proc'[w].todo = PendingSteps(r)
         /\ ClaimNothing(w) => proc'[w].pc = "idle"
         /\ Enter(w) => proc'[w].pc = "idle" \/ On(w, "fetch")
         /\ Fetch(w) => On(w, "next") \/ On(w, "finish")
         /\ SweepRun(w) => proc'[w].pc = "idle"
         /\ Cleanup(w) =>
              \/ proc'[w].pc = "idle"
              \/ On(w, "receipt") /\ SetBox(w, Mine(w), CurrentStep(w), "none") /\ UNCHANGED store
         /\ Removed(w) =>
              \/ proc'[w].pc = "idle"
              \/ On(w, "finish")
              \/ /\ ContainerRemoved(Mine(w), CurrentStep(w))
                 /\ proc'[w].pc = "next" /\ proc'[w].run = proc[w].run
                 /\ proc'[w].todo = proc[w].todo \ {CurrentStep(w)}
<1>t. proc \in [Workers -> Process] /\ proc[w] \in Process
  BY DEF ExecInv, ExecTypeOK
<1>1. ASSUME Claim(w)
      PROVE  \/ proc'[w].pc = "idle"
             \/ \E r \in Runs : /\ ClaimNext(w, r) /\ proc'[w].pc = "claimed"
                                /\ proc'[w].run = r /\ proc'[w].todo = PendingSteps(r)
  <2>1. PICK r \in Runs :
          \/ Back(w)
          \/ /\ ClaimNext(w, r)
             /\ Go(w, [proc[w] EXCEPT !.pc = "claimed", !.run = r, !.todo = PendingSteps(r)])
    BY <1>1 DEF Claim, Call
  <2>2. CASE ~Back(w)
    <3> DEFINE S == PendingSteps(r)
    <3>1. proc' = [proc EXCEPT ![w] = [proc[w] EXCEPT !.pc = "claimed", !.run = r, !.todo = S]]
      BY <2>1, <2>2 DEF Go
    <3> HIDE DEF S
    <3>2. proc'[w].pc = "claimed" /\ proc'[w].run = r /\ proc'[w].todo = S
      BY <1>t, <3>1 DEF Process
    <3>3. proc'[w].todo = PendingSteps(r)
      BY <3>2 DEF S
    <3>. QED BY <2>1, <2>2, <3>2, <3>3
  <2>. QED BY <2>2, GoesOn
<1>2. ClaimNothing(w) => proc'[w].pc = "idle"
  BY GoesOn DEF ClaimNothing
<1>3. Enter(w) => proc'[w].pc = "idle" \/ On(w, "fetch")
  BY GoesOn DEF Enter
<1>4. ASSUME Fetch(w) PROVE On(w, "next") \/ On(w, "finish")
  <2>1. ASSUME NEW o, proc' = [proc EXCEPT ![w].pc = "finish", ![w].out = o] PROVE On(w, "finish")
    BY <1>t, <2>1 DEF On, Process
  <2>. QED BY <1>4, <2>1, GoesOn DEF Fetch
<1>5. SweepRun(w) => proc'[w].pc = "idle"
  BY <1>t DEF SweepRun, Sleeping
<1>6. ASSUME Cleanup(w)
      PROVE  \/ proc'[w].pc = "idle"
             \/ On(w, "receipt") /\ SetBox(w, Mine(w), CurrentStep(w), "none") /\ UNCHANGED store
  <2> DEFINE o == StopOutcome(w)
             x == IF proc[w].stop = "cancel" THEN Cancelled ELSE Failed
  <2>1. CASE ~RecoveryRequired(w)
    <3>1. /\ proc' = [proc EXCEPT ![w].pc = "receipt", ![w].out = o, ![w].x = x]
          /\ SetBox(w, Mine(w), CurrentStep(w), "none") /\ UNCHANGED store
      BY <1>6, <2>1 DEF Cleanup
    <3> HIDE DEF o, x
    <3>2. On(w, "receipt")
      BY <1>t, <3>1 DEF On, Process
    <3>. QED BY <3>1, <3>2
  <2>2. CASE RecoveryRequired(w)
    BY <2>2, GoesOn
  <2>. QED BY <2>1, <2>2
<1>7. ASSUME Removed(w)
      PROVE  \/ proc'[w].pc = "idle"
             \/ On(w, "finish")
             \/ /\ ContainerRemoved(Mine(w), CurrentStep(w))
                /\ proc'[w].pc = "next" /\ proc'[w].run = proc[w].run
                /\ proc'[w].todo = proc[w].todo \ {CurrentStep(w)}
  <2>1. ASSUME NEW i, Go(w, [proc[w] EXCEPT !.pc = "next", !.todo = @ \ {i}, !.x = NoResult])
        PROVE  /\ proc'[w].pc = "next" /\ proc'[w].run = proc[w].run
               /\ proc'[w].todo = proc[w].todo \ {i}
    BY <1>t, <2>1 DEF Go, Process
  <2>. QED BY <1>7, <2>1, GoesOn DEF Removed, Call
<1>. QED BY <1>1, <1>2, <1>3, <1>4, <1>5, <1>6, <1>7

\* Where the steps of recovery lead.
LEMMA RecoverPlaces ==
  ASSUME ExecInv, NEW w \in Workers
  PROVE  /\ Survey(w) => /\ proc'[w].pc \in {"ready", "recover"}
                         /\ proc'[w].list = RecoveryRuns(w)
         /\ RecoverLock(w) =>
              \/ proc'[w].pc = "idle"
              \/ \E d \in proc[w].list :
                   /\ proc'[w].pc = "rstop" /\ proc'[w].list = proc[w].list \ {d}
                   /\ proc'[w].run = d.run /\ proc'[w].todo = d.boxes /\ proc'[w].all = d.boxes
         /\ \A i : Go(w, Handled(w, i)) =>
              /\ proc'[w].pc = proc[w].pc /\ proc'[w].list = proc[w].list
              /\ proc'[w].run = proc[w].run /\ proc'[w].all = proc[w].all
              /\ proc'[w].todo = proc[w].todo \ {i}
         /\ RecoverFinish(w) =>
              \/ proc'[w].pc = "idle"
              \/ /\ proc'[w].pc = "rremove" /\ proc'[w].list = proc[w].list
                 /\ proc'[w].run = proc[w].run /\ proc'[w].all = proc[w].all
                 /\ proc'[w].todo = proc[w].all
         /\ RecoverSweep(w) =>
              \/ proc'[w].pc = "ready"
              \/ proc'[w].pc = "recover" /\ proc'[w].list = proc[w].list
         /\ RecoverAbort(w) => proc'[w].pc = "idle"
<1>t. proc \in [Workers -> Process] /\ proc[w] \in Process
  BY DEF ExecInv, ExecTypeOK
<1>1. ASSUME Survey(w)
      PROVE  proc'[w].pc \in {"ready", "recover"} /\ proc'[w].list = RecoveryRuns(w)
  <2> DEFINE L == RecoveryRuns(w)
             a == IF L = {} THEN "ready" ELSE "recover"
  <2>1. proc' = [proc EXCEPT ![w] = [proc[w] EXCEPT !.pc = a, !.list = L]]
    BY <1>1 DEF Survey, Go
  <2>2. a \in {"ready", "recover"}
    OBVIOUS
  <2> HIDE DEF a, L
  <2>3. proc'[w].pc = a /\ proc'[w].list = L
    BY <1>t, <2>1 DEF Process
  <2>. QED BY <2>2, <2>3 DEF L
<1>2. ASSUME RecoverLock(w)
      PROVE  \/ proc'[w].pc = "idle"
             \/ \E d \in proc[w].list :
                  /\ proc'[w].pc = "rstop" /\ proc'[w].list = proc[w].list \ {d}
                  /\ proc'[w].run = d.run /\ proc'[w].todo = d.boxes /\ proc'[w].all = d.boxes
  <2>1. ASSUME NEW d, proc' = [proc EXCEPT ![w].pc = "rstop", ![w].list = @ \ {d},
                                   ![w].run = d.run, ![w].todo = d.boxes, ![w].all = d.boxes]
        PROVE  /\ proc'[w].pc = "rstop" /\ proc'[w].list = proc[w].list \ {d}
               /\ proc'[w].run = d.run /\ proc'[w].todo = d.boxes /\ proc'[w].all = d.boxes
    BY <1>t, <2>1 DEF Process
  <2>. QED BY <1>2, <2>1, GoesOn DEF RecoverLock
<1>3. ASSUME NEW i, Go(w, Handled(w, i))
      PROVE  /\ proc'[w].pc = proc[w].pc /\ proc'[w].list = proc[w].list
             /\ proc'[w].run = proc[w].run /\ proc'[w].all = proc[w].all
             /\ proc'[w].todo = proc[w].todo \ {i}
  BY <1>3, <1>t DEF Go, Handled, Process
<1>4. ASSUME RecoverFinish(w)
      PROVE  \/ proc'[w].pc = "idle"
             \/ /\ proc'[w].pc = "rremove" /\ proc'[w].list = proc[w].list
                /\ proc'[w].run = proc[w].run /\ proc'[w].all = proc[w].all
                /\ proc'[w].todo = proc[w].all
  <2>1. ASSUME Go(w, [proc[w] EXCEPT !.pc = "rremove", !.todo = proc[w].all])
        PROVE  /\ proc'[w].pc = "rremove" /\ proc'[w].list = proc[w].list
               /\ proc'[w].run = proc[w].run /\ proc'[w].all = proc[w].all
               /\ proc'[w].todo = proc[w].all
    BY <1>t, <2>1 DEF Go, Process
  <2>. QED BY <1>4, <2>1, GoesOn DEF RecoverFinish, Call
<1>5. ASSUME RecoverSweep(w)
      PROVE  \/ proc'[w].pc = "ready"
             \/ proc'[w].pc = "recover" /\ proc'[w].list = proc[w].list
  <2>1. ASSUME proc' = [proc EXCEPT ![w].pc = "recover", ![w].run = NoRun, ![w].all = {}]
        PROVE  proc'[w].pc = "recover" /\ proc'[w].list = proc[w].list
    BY <1>t, <2>1 DEF Process
  <2>2. ASSUME proc' = [proc EXCEPT ![w] = Sleeping("ready", proc[w].quit)]
        PROVE  proc'[w].pc = "ready"
    BY <1>t, <2>2 DEF Sleeping
  <2>. QED BY <1>5, <2>1, <2>2 DEF RecoverSweep
<1>6. RecoverAbort(w) => proc'[w].pc = "idle"
  BY GoesOn DEF RecoverAbort
<1>. QED BY <1>1, <1>2, <1>3, <1>4, <1>5, <1>6

\* What each step of the main loop needs, and where it leads.
LEMMA OwnPlaces ==
  ASSUME ExecInv, NEW w \in Workers
  PROVE  /\ Boot(w) => proc[w].pc = "unborn" /\ proc'[w].pc = "idle"
         /\ Exit(w) => proc[w].pc = "idle" /\ proc'[w].pc = "dead"
         /\ Crash(w) => proc[w].pc \notin Dead /\ proc'[w].pc = "dead"
         /\ RecoverNext(w) => /\ proc[w].pc \in Recovering \cup {"idle", "recover"}
                              /\ proc'[w].pc \in Recovering \cup {"idle", "recover", "ready"}
         /\ ExecuteNext(w) => /\ proc[w].pc \in Claimed \cup {"ready"}
                              /\ proc'[w].pc \in Claimed \cup {"idle"}
<1>t. proc \in [Workers -> Process]
  BY DEF ExecInv, ExecTypeOK
<1>1. Boot(w) => proc[w].pc = "unborn" /\ proc'[w].pc = "idle"
  BY <1>t DEF Boot, At, Go, Sleeping
<1>2. Exit(w) => proc[w].pc = "idle" /\ proc'[w].pc = "dead"
  BY <1>t DEF Exit, At, ProcessGone, Sleeping
<1>3. Crash(w) => proc[w].pc \notin Dead /\ proc'[w].pc = "dead"
  BY <1>t DEF Crash, Live, ProcessGone, Sleeping
<1>4. ASSUME RecoverNext(w) PROVE proc[w].pc \in Recovering \cup {"idle", "recover"}
  BY <1>4 DEF RecoverNext, Survey, RecoverLock, RecoverBox, RecoverStopped, RecoverFinish,
     RecoverRemove, RecoverSweep, RecoverAbort, At, Recovering
<1>5. ASSUME RecoverNext(w) PROVE proc'[w].pc \in Recovering \cup {"idle", "recover", "ready"}
  <2>1. ASSUME RecoverBox(w) \/ RecoverRemove(w)
        PROVE  proc'[w].pc \in Recovering \cup {"idle", "recover", "ready"}
    <3>1. \/ Back(w) \/ UNCHANGED proc
          \/ \E i : Go(w, Handled(w, i))
      BY <2>1 DEF RecoverBox, RecoverRemove, Call
    <3>2. proc'[w].pc = "idle" \/ proc'[w].pc = proc[w].pc
      BY <3>1, GoesOn, RecoverPlaces
    <3>. QED BY <1>4, <1>5, <3>2
  <2>2. RecoverStopped(w) => Back(w) \/ Go(w, [proc[w] EXCEPT !.pc = "rfinish"])
    BY DEF RecoverStopped, Call
  <2>. QED BY <1>5, <2>1, <2>2, GoesOn, RecoverPlaces DEF RecoverNext, On, Recovering
<1>6. ASSUME ExecuteNext(w) PROVE proc[w].pc \in Claimed \cup {"ready"}
  BY <1>6 DEF ExecuteNext, Claim, ClaimNothing, Enter, Fetch, StartStep, PlanBox, Begin, Create,
     Created, StartBox, Wait, Cleanup, Record, RemoveBox, Removed, FinishRun, SweepRun, At,
     Claimed, Inside
<1>7. ASSUME ExecuteNext(w) PROVE proc'[w].pc \in Claimed \cup {"idle"}
  <2>. USE DEF Claimed, Inside
  <2>1. ASSUME \/ Claim(w) \/ ClaimNothing(w) \/ Enter(w) \/ Fetch(w) \/ Cleanup(w) \/ Removed(w)
               \/ SweepRun(w)
        PROVE  proc'[w].pc \in Claimed \cup {"idle"}
    BY <2>1, ExecutePlaces DEF On
  <2>2. ASSUME PlanBox(w) \/ Begin(w) \/ Wait(w) PROVE proc'[w].pc \in Claimed \cup {"idle"}
    <3>1. \/ \E x, o : Return(w, x, o)
          \/ \E pc \in {"begin", "create", "cleanup"} : Go(w, [proc[w] EXCEPT !.pc = pc])
      BY <2>2 DEF PlanBox, Begin, Wait, RunCall, Call
    <3>. QED BY <3>1, GoesOn DEF On
  <2>3. ASSUME StartStep(w) \/ Created(w) \/ Record(w) \/ FinishRun(w)
        PROVE  proc'[w].pc \in Claimed \cup {"idle"}
    <3>1. \/ Back(w) \/ RecoveryRequired(w) \/ \E o : Leave(w, o)
          \/ \E pc \in {"plan", "start", "cleanup", "rm", "sweep"} : Go(w, [proc[w] EXCEPT !.pc = pc])
      BY <2>3 DEF StartStep, Created, Record, FinishRun, NotRecorded, RunCall, Call
    <3>. QED BY <3>1, GoesOn DEF On
  <2>4. ASSUME Create(w) \/ StartBox(w) \/ RemoveBox(w) PROVE proc'[w].pc \in Claimed \cup {"idle"}
    <3>1. \/ RecoveryRequired(w)
          \/ \E pc \in {"created", "cleanup", "wait", "removed"} : proc' = [proc EXCEPT ![w].pc = pc]
      BY <2>4 DEF Create, StartBox, RemoveBox
    <3>. QED BY <3>1, GoesOn DEF On
  <2>. QED BY <1>7, <2>1, <2>2, <2>3, <2>4 DEF ExecuteNext
<1>. QED BY <1>1, <1>2, <1>3, <1>4, <1>5, <1>6, <1>7

\* A process that is gone stays gone, and nobody is unborn again.
LEMMA DeadStays ==
  ASSUME ExecInv, IInv, [ExecNext]_vars, NEW w \in Workers
  PROVE  /\ proc[w].pc = "dead" => proc'[w].pc = "dead"
         /\ proc'[w].pc = "unborn" => proc[w].pc = "unborn"
BY OwnSteps, OwnPlaces DEF Undisturbed, Dead, Recovering, Claimed, Inside

\* A run that ended stays so.
LEMMA EndedStays ==
  ASSUME ExecInv, IInv, [ExecNext]_vars, NEW r \in Runs, runs[r].status \in Ended
  PROVE  runs'[r].status \in Ended
<1>1. [Next]_store /\ runs'[r].status \in Ended \cup {"running"}
  BY StoreStep DEF Transacts, RunsKept
<1>2. runs'[r].status \in {runs[r].status, "pruned"}
  BY <1>1, NextSafe DEF StepSafe, EndedIsFinal
<1>. QED BY <1>1, <1>2, StatusFacts

\* Which rows of workers a step may change, and how.
LEMMA WorkerSteps ==
  ASSUME ExecInv, IInv, [ExecNext]_vars
  PROVE  \/ UNCHANGED workers
         \/ \E w \in Workers :
              \/ Boot(w) /\ RegisterWorker(w)
              \/ Exit(w) /\ StopWorker(w)
              \/ Beat(w) /\ Heartbeat(w)
              \/ Age(w) /\ BeatAges(w)
              \/ Release(w) /\ ReleaseLostWorker(w, Runs)
<1>s. UNCHANGED store => UNCHANGED workers
  BY DEF store
<1>1. ASSUME NEW w \in Workers, RecoverNext(w) PROVE UNCHANGED workers
  <2>1. ASSUME NEW r, NEW s, Ending(r, s) PROVE UNCHANGED workers
    BY <1>s, <2>1 DEF Ending, Finish
  <2>. QED BY <1>1, <1>s, <2>1, RecoverCalls DEF ConfirmExecutionStopped, StepNext, StepStarted,
       PlanContainer, BeginDeployment, ContainerCreated, ContainerRemoved, SetStep, StepFinished,
       RecoverStepExit, Receipt
<1>2. ASSUME NEW w \in Workers, ExecuteNext(w) PROVE UNCHANGED workers
  <2>1. ASSUME NEW r, NEW s, Ending(r, s) PROVE UNCHANGED workers
    BY <1>s, <2>1 DEF Ending, Finish
  <2>. QED BY <1>2, <1>s, <2>1, ExecuteCalls DEF ClaimNext, StepNext, StepStarted,
       PlanContainer, BeginDeployment, ContainerCreated, ContainerRemoved, SetStep, StepFinished,
       RecoverStepExit, Receipt
<1>3. ASSUME NEW w \in Workers, SweepNext(w) PROVE UNCHANGED workers
  <2>1. ASSUME NEW r, NEW i, StepNext(r, i) PROVE UNCHANGED workers
    BY <2>1 DEF StepNext, StepStarted, PlanContainer, BeginDeployment, ContainerCreated,
       ContainerRemoved, SetStep, StepFinished, RecoverStepExit, Receipt
  <2>2. ASSUME NEW r, ConfirmExecutionStopped(r) \/ AllRemoved(r) PROVE UNCHANGED workers
    BY <2>2 DEF ConfirmExecutionStopped, AllRemoved
  <2>. QED BY <1>3, <1>s, <2>1, <2>2, SweepCalls
<1>4. ASSUME NEW w \in Workers,
             Mature(w) \/ Reap(w) \/ SignalNext(w) \/ Cut(w) \/ Crash(w) \/ Shutdown(w)
             \/ DiskBudget(w) \/ Heal(w)
      PROVE  UNCHANGED workers
  BY <1>4, <1>s DEF Mature, Reap, FailLostRuns, SignalNext, Watch, Interrupt, Cut, Crash, Shutdown,
     DiskBudget, Heal
<1>5. ASSUME NEW w \in Workers, Boot(w) \/ Exit(w) \/ Beat(w) \/ Age(w) \/ Release(w)
      PROVE  \/ UNCHANGED workers
             \/ Boot(w) /\ RegisterWorker(w)
             \/ Exit(w) /\ StopWorker(w)
             \/ Beat(w) /\ Heartbeat(w)
             \/ Age(w) /\ BeatAges(w)
             \/ Release(w) /\ ReleaseLostWorker(w, Runs)
  BY <1>5, <1>s DEF Boot, Exit, Beat, Age, Release
<1>6. ASSUME NEW r, CancelRun(r) \/ Deadline(r) PROVE UNCHANGED workers
  BY <1>6 DEF CancelRun, Deadline, Cancel, DeadlinePasses
<1>7. ASSUME NEW e, NEW r, NEW i, ScriptExits(e, r, i) PROVE UNCHANGED workers
  BY <1>7, <1>s DEF ScriptExits
<1>8. Submit \/ UNCHANGED vars => UNCHANGED workers
  BY <1>s DEF Submit, vars, Start, PushRun, CreateTx, BeginOperation
<1>. QED BY <1>1, <1>2, <1>3, <1>4, <1>5, <1>6, <1>7, <1>8 DEF ExecNext, MainNext, FaultNext, BeatNext

\* The rows of workers stay true to their processes.
LEMMA RowsStayTrue ==
  ASSUME ExecInv, IInv, RowsTrue, [ExecNext]_vars
  PROVE  RowsTrue'
<1>t. /\ workers \in [Workers -> Worker]
      /\ steps \in [Runs -> [Steps -> Step]]
  BY DEF IInv, TypeOK
<1>1. ASSUME NEW w \in Workers, proc'[w].pc = "unborn"
      PROVE  workers'[w].row = "absent" /\ workers'[w].beat = "fresh"
  <2>1. proc[w].pc = "unborn" /\ workers[w].row = "absent" /\ workers[w].beat = "fresh"
    BY <1>1, DeadStays DEF RowsTrue
  <2>2. \A v \in Workers : Boot(v) => v # w
    BY <1>1, OwnPlaces
  <2>3. \A v \in Workers :
          Heartbeat(v) \/ StopWorker(v) \/ BeatAges(v) \/ ReleaseLostWorker(v, Runs) => v # w
    BY <2>1 DEF Heartbeat, StopWorker, BeatAges, ReleaseLostWorker
  <2>4. UNCHANGED workers \/ \E v \in Workers : v # w /\ \E s : workers' = [workers EXCEPT ![v] = s]
    <3>1. CASE UNCHANGED workers
      BY <3>1
    <3>2. ASSUME NEW v \in Workers, v # w,
                 RegisterWorker(v) \/ StopWorker(v) \/ Heartbeat(v) \/ BeatAges(v)
          PROVE  \E s : workers' = [workers EXCEPT ![v] = s]
      BY <3>2 DEF RegisterWorker, StopWorker, Heartbeat, BeatAges, SetWorker
    <3>3. ASSUME NEW v \in Workers, v # w, ReleaseLostWorker(v, Runs)
          PROVE  \E s : workers' = [workers EXCEPT ![v] = s]
      <4>1. workers' = [workers EXCEPT ![v] = [workers[v] EXCEPT !.row = "stopped"]]
        BY <1>t, <3>3 DEF ReleaseLostWorker
      <4>. QED BY <4>1
    <3>4. ASSUME NEW v \in Workers,
                 \/ Boot(v) /\ RegisterWorker(v)
                 \/ Exit(v) /\ StopWorker(v)
                 \/ Beat(v) /\ Heartbeat(v)
                 \/ Age(v) /\ BeatAges(v)
                 \/ Release(v) /\ ReleaseLostWorker(v, Runs)
          PROVE  v # w /\ \E s : workers' = [workers EXCEPT ![v] = s]
      <4>1. v # w
        BY <2>2, <2>3, <3>4
      <4>. QED BY <3>2, <3>3, <3>4, <4>1
    <3>. QED BY <3>1, <3>4, WorkerSteps
  <2>. QED BY <1>t, <2>1, <2>4
<1>2. ASSUME NEW w \in Workers, Live(w)' PROVE workers'[w].row = "up"
  <2>1. proc'[w].pc # "dead" /\ proc'[w].pc # "unborn"
    BY <1>2 DEF Live, Dead
  <2>2. CASE Boot(w)
    <3>1. RegisterWorker(w)
      BY <2>2 DEF Boot
    <3>. QED BY <1>t, <3>1 DEF RegisterWorker, SetWorker
  <2>3. CASE ~Boot(w)
    <3>1. proc[w].pc # "dead" /\ proc[w].pc # "unborn"
      BY <2>1, <2>3, OwnSteps, OwnPlaces DEF Undisturbed, Recovering, Claimed, Inside
    <3>2. workers[w].row = "up"
      BY <3>1 DEF RowsTrue, Live, Dead
    <3>3. \A v \in Workers : Exit(v) \/ Release(v) => v # w
      BY <2>1, <3>1, OwnPlaces DEF Release, At
    <3>4. ASSUME NEW v \in Workers, v # w,
                 RegisterWorker(v) \/ StopWorker(v) \/ ReleaseLostWorker(v, Runs)
          PROVE  workers'[w] = workers[w]
      BY <1>t, <3>4 DEF RegisterWorker, StopWorker, ReleaseLostWorker, SetWorker
    <3>5. ASSUME NEW v \in Workers, Heartbeat(v) \/ BeatAges(v) PROVE workers'[w].row = workers[w].row
      BY <1>t, <3>5 DEF Heartbeat, BeatAges, SetWorker
    <3>. QED BY <2>3, <3>2, <3>3, <3>4, <3>5, WorkerSteps
  <2>. QED BY <2>2, <2>3
<1>3. ASSUME NEW r \in Runs, NEW i \in Steps, steps'[r][i].removed PROVE steps'[r][i].planned
  <2>1. RowsKept
    BY StoreStep DEF Transacts
  <2>2. steps[r][i].planned
    BY <1>3, <2>1 DEF RowsTrue, RowsKept
  <2>3. HandedOut(r)
    BY <2>2 DEF IInv, StartedClaimed, HandedOut
  <2>. QED BY <2>1, <2>2, <2>3 DEF RowsKept, RowGrows
<1>. QED BY <1>1, <1>2, <1>3 DEF RowsTrue

----------------------------------------------------------------------------
(* What executors know stays so.                                           *)

\* Where no run is at hand the main loop touches none.
LEMMA IdleSame ==
  ASSUME ExecInv, IInv, NEW w \in Workers, RecoverNext(w) \/ ExecuteNext(w),
         proc[w].pc \notin Claimed \cup Recovering, NEW q \in Runs
  PROVE  Same(q)
<1>1. UNCHANGED store \/ \E r \in Runs : ClaimNext(w, r)
  <2>1. Survey(w) \/ RecoverLock(w) \/ RecoverAbort(w) \/ Claim(w) \/ ClaimNothing(w)
    BY DEF RecoverNext, ExecuteNext, RecoverBox, RecoverStopped, RecoverFinish, RecoverRemove,
       RecoverSweep, Enter, Fetch, StartStep, PlanBox, Begin, Create, Created, StartBox, Wait,
       Cleanup, Record, RemoveBox, Removed, FinishRun, SweepRun, At, Claimed, Inside, Recovering
  <2>. QED BY <2>1 DEF Survey, RecoverLock, RecoverAbort, Claim, ClaimNothing, Call
<1>2. UNCHANGED <<box, ws>>
  <2>1. Survey(w) \/ RecoverLock(w) \/ RecoverAbort(w) \/ Claim(w) \/ ClaimNothing(w)
    BY DEF RecoverNext, ExecuteNext, RecoverBox, RecoverStopped, RecoverFinish, RecoverRemove,
       RecoverSweep, Enter, Fetch, StartStep, PlanBox, Begin, Create, Created, StartBox, Wait,
       Cleanup, Record, RemoveBox, Removed, FinishRun, SweepRun, At, Claimed, Inside, Recovering
  <2>. QED BY <2>1 DEF Survey, RecoverLock, RecoverAbort, Claim, ClaimNothing, Call, Go, Back, host
<1>. QED BY <1>1, <1>2, RunAside DEF Same, HostAside

\* Nobody else touches the run of an executor, but that its script exits.
LEMMA OthersSpare ==
  ASSUME ExecInv, IInv, Knowledge, InTouch, [ExecNext]_vars,
         NEW w \in Workers, proc[w].pc \in Busy, ~RecoverNext(w), ~ExecuteNext(w),
         NEW q \in Runs, q = Mine(w)
  PROVE  /\ Aside(q)
         /\ \A e \in Engines, i \in Steps :
              box'[e][q][i] = box[e][q][i] \/ (box[e][q][i] = "running" /\ box'[e][q][i] \in Exited)
<1>s. Same(q) => /\ Aside(q)
                 /\ \A e \in Engines, i \in Steps : box'[e][q][i] = box[e][q][i]
  BY DEF Same, HostAside
<1>1. UNCHANGED vars => Same(q)
  BY RunAside DEF vars, exec, Same, HostAside
<1>2. ASSUME NEW v \in Workers, RecoverNext(v) \/ ExecuteNext(v) PROVE Same(q)
  <2>1. v # w
    BY <1>2
  <2>2. CASE proc[v].pc \in Claimed \cup Recovering
    <3>1. Mine(v) # q
      BY <2>1, <2>2, Exclusive
    <3>. QED BY <1>2, <3>1, MainSame
  <2>3. CASE proc[v].pc \notin Claimed \cup Recovering
    BY <1>2, <2>3, IdleSame
  <2>. QED BY <2>2, <2>3
<1>3. ASSUME NEW v \in Workers, SweepNext(v) PROVE Same(q)
  BY <1>3, Exclusive, SweepSame
<1>4. ASSUME NEW v \in Workers, Bystander(v) PROVE Same(q)
  BY <1>4, BystanderSame
<1>5. ASSUME NEW v \in Workers, Reap(v) PROVE Same(q)
  BY <1>5, Exclusive, WorldSame
<1>6. ASSUME NEW v \in Workers, Release(v) PROVE Same(q)
  <2>1. runs[q].worker # v
    BY <1>6, BusyLive DEF Release, At, Live, Dead
  <2>. QED BY <1>6, <2>1, WorldSame
<1>7. ASSUME NEW r \in Runs, CancelRun(r) \/ Deadline(r) PROVE Same(q)
  BY <1>7, WorldSame
<1>8. ASSUME NEW e \in Engines, NEW r \in Runs, NEW i \in Steps, ScriptExits(e, r, i)
      PROVE  /\ Aside(q)
             /\ \A d \in Engines, j \in Steps :
                  box'[d][q][j] = box[d][q][j] \/ (box[d][q][j] = "running" /\ box'[d][q][j] \in Exited)
  <2>1. PICK s \in Exited : box' = [box EXCEPT ![e][r][i] = s]
    BY <1>8 DEF ScriptExits
  <2>2. \A d \in Engines, j \in Steps :
           box'[d][q][j] = IF d = e /\ q = r /\ j = i THEN s ELSE box[d][q][j]
    BY <2>1 DEF ExecInv, ExecTypeOK
  <2>3. Aside(q) /\ box[e][r][i] = "running"
    BY <1>8, RunAside DEF ScriptExits
  <2>. QED BY <2>2, <2>3
<1>9. Submit => Same(q)
  BY WorldSame
<1>. QED BY <1>s, <1>1, <1>2, <1>3, <1>4, <1>5, <1>6, <1>7, <1>8, <1>9
         DEF ExecNext, MainNext, BeatNext, FaultNext, Bystander

\* While an executor stands still, what it knows stays so.
LEMMA ExecutorStands ==
  ASSUME ExecInv, IInv, Knowledge, InTouch, [ExecNext]_vars,
         NEW w \in Workers, Undisturbed(w), ~RecoverNext(w), ~ExecuteNext(w)
  PROVE  ExecutorKnows(w)'
<1>i. PICK i : i = CurrentStep(w)
  OBVIOUS
<1>q. PICK q : q = Mine(w)
  OBVIOUS
<1>0. Mine(w)' = q /\ CurrentStep(w)' = i
  BY <1>i, <1>q DEF Undisturbed, Mine, CurrentStep
<1>p. proc'[w].pc = proc[w].pc /\ proc'[w].todo = proc[w].todo /\ proc'[w].x = proc[w].x
  BY DEF Undisturbed
<1>e. Engine[w] \in Engines
  BY EngineTyped
<1>1. CASE proc[w].pc \in Busy
  <2>1. q \in Runs /\ runs[q].status = "running" /\ HandedOut(q)
    BY <1>1, <1>q, BusyLive DEF Knowledge, ExecutorKnows, HandedOut
  <2>2. /\ Aside(q)
        /\ \A j \in Steps : \/ box'[Engine[w]][q][j] = box[Engine[w]][q][j]
                            \/ /\ box[Engine[w]][q][j] = "running"
                               /\ box'[Engine[w]][q][j] \in Exited
    BY <1>1, <1>e, <1>q, <2>1, OthersSpare
  <2>3. /\ steps'[q] = steps[q] /\ runs'[q].status = "running"
        /\ \A t \in Targets : targets[t].owner[1] = q \/ targets'[t].owner[1] = q =>
             targets'[t].owner = targets[t].owner
    BY <2>1, <2>2 DEF Aside
  <2>k. /\ \A j \in Steps : box[Engine[w]][q][j] # "none" => proc[w].pc \in Holding /\ j = i
        /\ \A t \in Targets : targets[t].owner[1] = q =>
             proc[w].pc \in Deploying /\ targets[t].owner = <<q, i>>
        /\ proc[w].pc # "finish" => \A j \in proc[w].todo : ~steps[q][j].removed
        /\ proc[w].pc \in Deploying \cup {"plan", "begin"} => steps[q][i].status = "running"
        /\ proc[w].pc \in {"begin", "create", "created", "start"} => steps[q][i].planned
        /\ proc[w].pc = "start" =>
             /\ steps[q][i].created
             /\ steps[q][i].kind = "deploy" => \E t \in Targets : targets[t].owner = <<q, i>>
        /\ proc[w].pc = "receipt" =>
             \/ box[Engine[w]][q][i] = "none"
             \/ /\ box[Engine[w]][q][i] \in Exited
                /\ proc[w].x = <<ExitStatus(box[Engine[w]][q][i]), ExitCode(box[Engine[w]][q][i])>>
        /\ proc[w].pc = "rm" =>
             \/ box[Engine[w]][q][i] = "none"
             \/ box[Engine[w]][q][i] \in Exited /\ steps[q][i].code # NoCode
    BY <1>1, <1>i, <1>q DEF Knowledge, ExecutorKnows
  <2>4. \A j \in Steps : box'[Engine[w]][q][j] # "none" => proc[w].pc \in Holding /\ j = i
    BY <2>2, <2>k, BoxStates
  <2>5. \A t \in Targets : targets'[t].owner[1] = q =>
          proc[w].pc \in Deploying /\ targets'[t].owner = <<q, i>>
    BY <2>3, <2>k
  <2>6. proc[w].pc = "start" =>
          /\ steps'[q][i].created
          /\ steps'[q][i].kind = "deploy" => \E t \in Targets : targets'[t].owner = <<q, i>>
    BY <2>3, <2>k
  <2>7. proc[w].pc \in {"receipt", "rm"} => box'[Engine[w]][q][i] = box[Engine[w]][q][i]
    <3>1. proc[w].pc \in {"receipt", "rm"} => box[Engine[w]][q][i] # "running" /\ i \in Steps
      BY <1>i, <2>k, BoxStates, StandsOn DEF Stepping, Inside
    <3>. QED BY <2>2, <3>1
  <2>8. proc[w].pc # "sweep"
    BY <1>1 DEF Busy
  <2>. QED BY <1>0, <1>p, <2>3, <2>4, <2>5, <2>6, <2>7, <2>8, <2>k DEF ExecutorKnows
<1>2. CASE proc[w].pc = "sweep"
  <2>1. q \in Runs /\ runs[q].status \in Ended /\ \A j \in Steps : box[Engine[w]][q][j] # "running"
    BY <1>2, <1>q, StandsOn DEF Knowledge, ExecutorKnows, Claimed
  <2>2. runs'[q].status \in Ended
    BY <2>1, EndedStays
  <2>3. \A v \in Workers : Rising(v) => q # Mine(v)
    BY <2>1, StatusFacts, BusyLive
       DEF Rising, Begin, Create, StartBox, At, Knowledge, ExecutorKnows, Busy, Claimed, Inside
  <2>4. Careful(q)
    BY <2>1, <2>3, AllCareful
  <2>5. \A j \in Steps : box'[Engine[w]][q][j] # "running"
    BY <1>e, <2>1, <2>4, BoxStates DEF Careful
  <2>. QED BY <1>0, <1>2, <1>p, <2>2, <2>5 DEF ExecutorKnows, Busy, Deploying
<1>3. CASE proc[w].pc \notin Busy \cup {"sweep"}
  BY <1>3, <1>p DEF ExecutorKnows, Busy, Claimed, Inside, Deploying
<1>. QED BY <1>1, <1>2, <1>3

----------------------------------------------------------------------------
(* What an executor knows after its own steps.                             *)

\* What it knows where it still may change its run.
LEMMA AtExecute ==
  ASSUME ExecInv, Knowledge, NEW w \in Workers, proc[w].pc \in Busy,
         NEW q, q = Mine(w), NEW i, i = CurrentStep(w)
  PROVE  /\ q \in Runs /\ runs[q].status = "running" /\ HandedOut(q)
         /\ proc[w].todo \subseteq Steps
         /\ proc[w].pc \in Stepping => i \in Steps /\ i \in proc[w].todo
         /\ \A j \in Steps : box[Engine[w]][q][j] # "none" => proc[w].pc \in Holding /\ j = i
         /\ \A t \in Targets : targets[t].owner[1] = q =>
              proc[w].pc \in Deploying /\ targets[t].owner = <<q, i>>
         /\ proc[w].pc # "finish" => \A j \in proc[w].todo : ~steps[q][j].removed
         /\ proc[w].pc \in Deploying \cup {"plan", "begin"} => steps[q][i].status = "running"
         /\ proc[w].pc \in {"begin", "create", "created", "start"} => steps[q][i].planned
<1>1. q \in Runs
  BY BusyLive
<1>2. proc[w].todo \subseteq Steps
  BY DEF ExecInv, ExecTypeOK, Process
<1>3. proc[w].pc \in Stepping => i \in Steps /\ i \in proc[w].todo
  BY CurrentStepIsStep DEF ExecInv, Placed
<1>. QED BY <1>1, <1>2, <1>3 DEF Knowledge, ExecutorKnows, HandedOut

\* It goes on to pc a with the same run and steps.
LEMMA KnowsOn ==
  ASSUME ExecInv, Knowledge, NEW w \in Workers, proc[w].pc \in Busy,
         NEW q, q = Mine(w), NEW i, i = CurrentStep(w),
         NEW a \in Busy, On(w, a), runs'[q].status = "running",
         \A j \in Steps : box'[Engine[w]][q][j] # "none" =>
           /\ a \in Holding
           /\ box'[Engine[w]][q][j] = box[Engine[w]][q][j] \/ j = i,
         \A t \in Targets : targets'[t].owner[1] = q =>
           a \in Deploying /\ targets'[t].owner = <<q, i>>,
         a # "finish" => /\ proc[w].pc # "finish"
                         /\ \A j \in proc[w].todo : ~steps'[q][j].removed,
         a \in Deploying \cup {"plan", "begin"} => steps'[q][i].status = "running",
         a \in {"begin", "create", "created", "start"} => steps'[q][i].planned,
         a = "start" =>
           /\ steps'[q][i].created
           /\ steps'[q][i].kind = "deploy" => \E t \in Targets : targets'[t].owner = <<q, i>>,
         a = "receipt" =>
           \/ box'[Engine[w]][q][i] = "none"
           \/ /\ box'[Engine[w]][q][i] \in Exited
              /\ proc'[w].x = <<ExitStatus(box'[Engine[w]][q][i]), ExitCode(box'[Engine[w]][q][i])>>,
         a = "rm" =>
           \/ box'[Engine[w]][q][i] = "none"
           \/ box'[Engine[w]][q][i] \in Exited /\ steps'[q][i].code # NoCode
  PROVE  ExecutorKnows(w)'
<1>1. Mine(w)' = q /\ CurrentStep(w)' = i /\ proc'[w].pc = a /\ proc'[w].todo = proc[w].todo
  BY DEF On, Mine, CurrentStep
<1>2. a # "sweep"
  BY DEF Busy
<1>3. \A j \in Steps : box'[Engine[w]][q][j] # "none" => a \in Holding /\ j = i
  BY AtExecute
<1>. QED BY <1>1, <1>2, <1>3 DEF ExecutorKnows

LEMMA KnowsIdle ==
  ASSUME NEW w \in Workers, proc'[w].pc \notin Claimed
  PROVE  ExecutorKnows(w)'
BY DEF ExecutorKnows, Busy, Deploying, Claimed, Inside

\* A run just claimed has no container, no target, no mark.
LEMMA ClaimKnows ==
  ASSUME ExecInv, IInv, Knowledge, NEW w \in Workers, Claim(w)
  PROVE  ExecutorKnows(w)'
<1>1. CASE proc'[w].pc = "idle"
  BY <1>1, KnowsIdle DEF Claimed, Inside
<1>2. CASE proc'[w].pc # "idle"
  <2>1. PICK r \in Runs : /\ ClaimNext(w, r) /\ proc'[w].pc = "claimed"
                          /\ proc'[w].run = r /\ proc'[w].todo = PendingSteps(r)
    BY <1>2, ExecutePlaces
  <2>2. runs[r].status = "queued" /\ runs'[r].status = "running" /\ UNCHANGED <<steps, targets>>
    BY <2>1 DEF ClaimNext, Claimable, IInv, TypeOK
  <2>3. ~HandedOut(r) /\ \A i \in Steps : ~steps[r][i].planned
    BY <2>2 DEF HandedOut, Ended, IInv, StartedClaimed
  <2>4. UNCHANGED box
    BY <1>2, GoesOn DEF Claim, Call, Go, host
  <2>5. Engine[w] \in Engines /\ Accounted(r) /\ RowsTrue
    BY EngineTyped DEF Knowledge
  <2>6. \A j \in Steps : box'[Engine[w]][r][j] = "none"
    BY <2>3, <2>4, <2>5 DEF Accounted, OnHost
  <2>7. \A t \in Targets : targets'[t].owner[1] # r
    <3>1. \A t \in Targets : targets[t].owner \in {NoOwner} \cup (Runs \X Steps)
      BY DEF IInv, TypeOK, Target
    <3>2. \A t \in Targets, i \in Steps : targets[t].owner # <<r, i>>
      BY <2>3, <2>5 DEF Accounted, Unremoved
    <3>. QED BY <2>2, <3>1, <3>2 DEF NoOwner, Runs
  <2>8. \A j \in PendingSteps(r) : ~steps'[r][j].removed
    BY <2>2, <2>3, <2>5 DEF RowsTrue, PendingSteps
  <2>9. Mine(w)' = r
    BY <2>1 DEF Mine
  <2>. QED BY <2>1, <2>2, <2>6, <2>7, <2>8, <2>9 DEF ExecutorKnows, Deploying
<1>. QED BY <1>1, <1>2

\* A step of the run is started or planned, or the run is left.
LEMMA StartKnows ==
  ASSUME ExecInv, IInv, Knowledge, NEW w \in Workers,
         ClaimNothing(w) \/ Enter(w) \/ Fetch(w) \/ StartStep(w) \/ PlanBox(w)
  PROVE  ExecutorKnows(w)'
<1>i. PICK i : i = CurrentStep(w)
  OBVIOUS
<1>q. PICK q : q = Mine(w)
  OBVIOUS
<1>t. /\ steps \in [Runs -> [Steps -> Step]] /\ Engine[w] \in Engines
      /\ proc \in [Workers -> Process]
  BY EngineTyped DEF IInv, TypeOK, ExecInv, ExecTypeOK
<1>a. CASE proc'[w].pc = "idle"
  BY <1>a, KnowsIdle DEF Claimed, Inside
<1>b. CASE proc'[w].pc # "idle"
  <2>p. proc[w].pc \in {"claimed", "fetch", "next", "plan"}
    BY <1>b, ExecutePlaces DEF Enter, Fetch, StartStep, PlanBox, At
  <2>b. /\ proc[w].pc \in Busy /\ proc[w].pc \notin Holding \cup Deploying
        /\ proc[w].pc \notin {"finish", "sweep"}
    BY <2>p DEF Busy, Claimed, Inside, Holding, Deploying
  <2>k. /\ q \in Runs /\ runs[q].status = "running"
        /\ \A j \in Steps : box[Engine[w]][q][j] = "none"
        /\ \A t \in Targets : targets[t].owner[1] # q
        /\ \A j \in proc[w].todo : ~steps[q][j].removed
        /\ proc[w].todo \subseteq Steps
        /\ proc[w].pc = "plan" => i \in Steps /\ steps[q][i].status = "running"
    BY <1>i, <1>q, <2>b, AtExecute DEF Stepping, Inside
  <2>o. UNCHANGED box
    BY <1>b, GoesOn DEF ClaimNothing, Back, Enter, RecoveryRequired, Fetch, StartStep, Leave, Go,
       PlanBox, Return, Call, RunCall, host
  <2>1. ASSUME NEW a \in Busy, On(w, a), UNCHANGED <<runs, targets>>,
               \A j \in proc[w].todo : ~steps'[q][j].removed,
               a \in {"fetch", "next", "finish", "plan", "begin", "create", "receipt"},
               a \in {"plan", "begin", "create", "receipt"} => i \in Steps /\ steps'[q][i].status = "running",
               a \in {"begin", "create"} => steps'[q][i].planned
        PROVE  ExecutorKnows(w)'
    <3>1. /\ runs'[q].status = "running"
          /\ \A j \in Steps : box'[Engine[w]][q][j] = "none"
          /\ \A t \in Targets : targets'[t].owner[1] # q
      BY <2>1, <2>k, <2>o
    <3>. QED BY <1>i, <1>q, <2>1, <2>b, <3>1, KnowsOn DEF Deploying
  <2>2. CASE ClaimNothing(w) \/ Enter(w) \/ Fetch(w)
    <3>1. UNCHANGED <<runs, targets, steps>>
      BY <2>2 DEF ClaimNothing, Enter, Fetch, store
    <3>2. \E a \in {"fetch", "next", "finish"} : On(w, a)
      BY <1>b, <2>2, ExecutePlaces
    <3>. QED BY <2>1, <2>k, <3>1, <3>2 DEF Busy, Claimed, Inside
  <2>3. CASE StartStep(w)
    <3>0. \/ UNCHANGED store /\ \E o : Leave(w, o)
          \/ /\ proc[w].todo # {} /\ StepStarted(q, i)
             /\ Go(w, [proc[w] EXCEPT !.pc = "plan"]) \/ Leave(w, "failed")
      BY <1>i, <1>q, <2>3 DEF StartStep, Call
    <3>1. CASE UNCHANGED store /\ \E o : Leave(w, o)
      <4>1. On(w, "finish")
        BY <3>1, GoesOn
      <4>. QED BY <2>1, <2>k, <3>1, <4>1 DEF Busy, Claimed, store
    <3>2. CASE /\ proc[w].todo # {} /\ StepStarted(q, i)
               /\ Go(w, [proc[w] EXCEPT !.pc = "plan"]) \/ Leave(w, "failed")
      <4>2. On(w, "plan") \/ On(w, "finish")
        BY <3>2, GoesOn
      <4>3. i \in Steps
        BY <1>i, <3>2, CurrentStepIsStep DEF ExecInv
      <4>4. /\ UNCHANGED <<runs, targets>> /\ steps'[q][i].status = "running"
            /\ \A j \in Steps : steps'[q][j].removed = steps[q][j].removed
        BY <1>t, <2>k, <3>2, <4>3 DEF StepStarted, SetStep, Step
      <4>. QED BY <2>1, <2>k, <4>2, <4>3, <4>4 DEF Busy, Claimed, Inside
    <3>. QED BY <3>0, <3>1, <3>2
  <2>4. CASE PlanBox(w)
    <3>1. proc[w].pc = "plan"
      BY <2>4 DEF PlanBox, At
    <3>2. \/ UNCHANGED store /\ \E x, o : Return(w, x, o)
          \/ /\ PlanContainer(q, i)
             /\ \/ \E x, o : Return(w, x, o)
                \/ \E a \in {"begin", "create"} : Go(w, [proc[w] EXCEPT !.pc = a])
      BY <1>i, <1>q, <2>4 DEF PlanBox, RunCall, Call
    <3>3. CASE UNCHANGED store
      <4>1. UNCHANGED <<runs, targets, steps>>
        BY <3>3 DEF store
      <4>2. CASE \E x, o : Return(w, x, o)
        <5>1. On(w, "receipt")
          BY <4>2, GoesOn
        <5>. QED BY <2>1, <2>k, <3>1, <4>1, <5>1 DEF Busy, Claimed, Inside
      <4>3. CASE PlanContainer(q, i) /\ \E a \in {"begin", "create"} : Go(w, [proc[w] EXCEPT !.pc = a])
        <5>1. \E a \in {"begin", "create"} : On(w, a)
          BY <4>3, GoesOn
        <5>2. steps'[q][i].planned
          BY <1>t, <2>k, <3>1, <4>3 DEF PlanContainer, SetStep, Step
        <5>. QED BY <2>1, <2>k, <3>1, <4>1, <5>1, <5>2 DEF Busy, Claimed, Inside
      <4>. QED BY <3>2, <4>2, <4>3
    <3>4. CASE ~UNCHANGED store
      <4>1. \E a \in {"begin", "create", "receipt"} : On(w, a)
        BY <3>2, GoesOn
      <4>2. PlanContainer(q, i)
        BY <3>2, <3>4
      <4>3. /\ UNCHANGED <<runs, targets>> /\ steps'[q][i].planned
            /\ steps'[q][i].status = "running"
            /\ \A j \in Steps : steps'[q][j].removed = steps[q][j].removed
        BY <1>t, <2>k, <3>1, <4>2 DEF PlanContainer, SetStep, Step
      <4>. QED BY <2>1, <2>k, <3>1, <4>1, <4>3 DEF Busy, Claimed, Inside
    <3>. QED BY <3>3, <3>4
  <2>. QED BY <2>2, <2>3, <2>4
<1>. QED BY <1>a, <1>b

----------------------------------------------------------------------------

\* A deployment begins, or the step ends without a container.
LEMMA BeginKnows ==
  ASSUME ExecInv, IInv, Knowledge, NEW w \in Workers, Begin(w)
  PROVE  ExecutorKnows(w)'
<1>i. PICK i : i = CurrentStep(w)
  OBVIOUS
<1>q. PICK q : q = Mine(w)
  OBVIOUS
<1>t. /\ steps \in [Runs -> [Steps -> Step]] /\ targets \in [Targets -> Target]
      /\ Engine[w] \in Engines
  BY EngineTyped DEF IInv, TypeOK
<1>p. proc[w].pc = "begin"
  BY DEF Begin, At
<1>b. proc[w].pc \in Busy /\ proc[w].pc \in Stepping
  BY <1>p DEF Busy, Claimed, Inside, Stepping
<1>k. /\ q \in Runs /\ i \in Steps /\ runs[q].status = "running"
      /\ proc[w].todo \subseteq Steps
      /\ \A j \in Steps : box[Engine[w]][q][j] = "none"
      /\ \A t \in Targets : targets[t].owner[1] # q
      /\ \A j \in proc[w].todo : ~steps[q][j].removed
      /\ steps[q][i].status = "running" /\ steps[q][i].planned
  BY <1>i, <1>q, <1>b, <1>p, AtExecute DEF Holding, Deploying
<1>1. /\ UNCHANGED store \/ BeginDeployment(q, i)
      /\ (\E x, o : Return(w, x, o)) \/ Go(w, [proc[w] EXCEPT !.pc = "create"])
  BY <1>i, <1>q DEF Begin, RunCall, Call
<1>2. \E a \in {"create", "receipt"} : On(w, a)
  BY <1>1, GoesOn
<1>3. UNCHANGED box
  BY <1>1 DEF Return, Go, host
<1>4. /\ runs' = runs
      /\ \A t \in Targets : targets'[t].owner[1] = q => targets'[t].owner = <<q, i>>
      /\ \A j \in Steps : steps'[q][j].removed = steps[q][j].removed
      /\ steps'[q][i].status = "running" /\ steps'[q][i].planned
  <2>1. CASE UNCHANGED store
    BY <1>k, <2>1 DEF store
  <2>2. CASE BeginDeployment(q, i)
    <3>1. runs' = runs
      BY <2>2 DEF BeginDeployment
    <3>2. \E t, g : /\ targets' = [targets EXCEPT ![t].owner = <<q, i>>, ![t].gen = g]
                    /\ steps' = [steps EXCEPT ![q][i].gen = g]
      BY <2>2 DEF BeginDeployment
    <3>3. PICK t, g : /\ targets' = [targets EXCEPT ![t].owner = <<q, i>>, ![t].gen = g]
                      /\ steps' = [steps EXCEPT ![q][i].gen = g]
      BY <3>2
    <3>4. \A u \in Targets : targets'[u].owner \in {targets[u].owner, <<q, i>>}
      BY <1>t, <3>3 DEF Target
    <3>5. /\ \A j \in Steps : steps'[q][j].removed = steps[q][j].removed
          /\ steps'[q][i].status = "running" /\ steps'[q][i].planned
      BY <1>t, <1>k, <3>3 DEF Step
    <3>. QED BY <1>k, <3>1, <3>4, <3>5
  <2>. QED BY <1>1, <2>1, <2>2
<1>5. ASSUME NEW a \in {"create", "receipt"}, On(w, a) PROVE ExecutorKnows(w)'
  <2>1. a \in Busy /\ a \in Deploying /\ a # "start" /\ a # "rm" /\ a # "finish"
    BY DEF Busy, Claimed, Inside, Deploying
  <2>2. \A j \in Steps : box'[Engine[w]][q][j] = "none"
    BY <1>3, <1>k
  <2>3. /\ runs'[q].status = "running"
        /\ \A t \in Targets : targets'[t].owner[1] = q => targets'[t].owner = <<q, i>>
        /\ \A j \in proc[w].todo : ~steps'[q][j].removed
        /\ steps'[q][i].status = "running" /\ steps'[q][i].planned
        /\ proc[w].pc # "finish"
    BY <1>k, <1>4, <1>p
  <2>. QED BY <1>i, <1>q, <1>b, <1>k, <1>5, <2>1, <2>2, <2>3, KnowsOn
<1>. QED BY <1>2, <1>5

\* The container is created, started, watched and removed again: the rows stay.
LEMMA StageKnows ==
  ASSUME ExecInv, IInv, Knowledge, NEW w \in Workers,
         Create(w) \/ StartBox(w) \/ Wait(w) \/ Cleanup(w)
  PROVE  ExecutorKnows(w)'
<1>i. PICK i : i = CurrentStep(w)
  OBVIOUS
<1>q. PICK q : q = Mine(w)
  OBVIOUS
<1>a. CASE proc'[w].pc = "idle"
  BY <1>a, KnowsIdle DEF Claimed, Inside
<1>b. CASE proc'[w].pc # "idle"
  <2>p. proc[w].pc \in {"create", "start", "wait", "cleanup"}
    BY DEF Create, StartBox, Wait, Cleanup, At
  <2>b. proc[w].pc \in Busy /\ proc[w].pc \in Stepping /\ proc[w].pc \in Deploying
    BY <2>p DEF Busy, Claimed, Inside, Stepping, Deploying
  <2>k. /\ q \in Runs /\ i \in Steps /\ runs[q].status = "running"
        /\ \A j \in Steps : box[Engine[w]][q][j] # "none" => j = i
        /\ \A t \in Targets : targets[t].owner[1] = q => targets[t].owner = <<q, i>>
        /\ \A j \in proc[w].todo : ~steps[q][j].removed
        /\ steps[q][i].status = "running"
        /\ proc[w].pc = "create" => steps[q][i].planned
    BY <1>i, <1>q, <2>b, <2>p, AtExecute
  <2>u. UNCHANGED <<runs, steps, targets>>
    BY DEF Create, StartBox, Wait, Cleanup, store
  <2>s. \/ UNCHANGED box
        \/ \E s : SetBox(w, q, i, s)
    BY <1>b, <1>i, <1>q, GoesOn
       DEF Create, StartBox, Wait, Cleanup, Return, Go, host
  <2>x. \A j \in Steps : box'[Engine[w]][q][j] = box[Engine[w]][q][j] \/ j = i
    <3>1. Engine[w] \in Engines
      BY EngineTyped
    <3>. QED BY <2>k, <2>s, <3>1, BoxSet
  <2>1. ASSUME NEW a \in {"created", "wait", "cleanup", "receipt"}, On(w, a),
               a = "created" => proc[w].pc = "create",
               a = "receipt" =>
                 \/ box'[Engine[w]][q][i] = "none"
                 \/ /\ box'[Engine[w]][q][i] \in Exited
                    /\ proc'[w].x = <<ExitStatus(box'[Engine[w]][q][i]),
                                      ExitCode(box'[Engine[w]][q][i])>>
        PROVE  ExecutorKnows(w)'
    <3>1. /\ a \in Busy /\ a \in Holding /\ a \in Deploying /\ proc[w].pc # "finish"
          /\ a \notin {"start", "rm", "begin", "create"}
      BY <2>p DEF Busy, Claimed, Inside, Holding, Deploying
    <3>2. /\ runs'[q].status = "running"
          /\ \A t \in Targets : targets'[t].owner[1] = q => targets'[t].owner = <<q, i>>
          /\ \A j \in proc[w].todo : ~steps'[q][j].removed
          /\ steps'[q][i].status = "running"
          /\ a = "created" => steps'[q][i].planned
      BY <2>k, <2>u, <2>1
    <3>. QED BY <1>i, <1>q, <2>b, <2>x, <2>1, <3>1, <3>2, KnowsOn
  <2>2. CASE Create(w)
    <3>1. \E a \in {"created", "cleanup"} : On(w, a)
      BY <2>2, GoesOn DEF Create
    <3>2. proc[w].pc = "create"
      BY <2>2 DEF Create, At
    <3>. QED BY <2>1, <3>1, <3>2
  <2>3. CASE StartBox(w)
    <3>1. \E a \in {"wait", "cleanup"} : On(w, a)
      BY <2>3, GoesOn DEF StartBox
    <3>. QED BY <2>1, <3>1
  <2>4. CASE Wait(w)
    <3>1. \/ \E o : /\ MyBox(w) \in Exited
                    /\ Return(w, <<ExitStatus(MyBox(w)), ExitCode(MyBox(w))>>, o)
          \/ Go(w, [proc[w] EXCEPT !.pc = "cleanup"])
      BY <2>4 DEF Wait
    <3>2. MyBox(w) = box[Engine[w]][q][i] /\ UNCHANGED box
      BY <1>i, <1>q, <3>1 DEF MyBox, Return, Go, host
    <3>3. ASSUME NEW o, MyBox(w) \in Exited,
                 Return(w, <<ExitStatus(MyBox(w)), ExitCode(MyBox(w))>>, o)
          PROVE  ExecutorKnows(w)'
      <4>1. On(w, "receipt") /\ proc'[w].x = <<ExitStatus(MyBox(w)), ExitCode(MyBox(w))>>
        BY <3>3, GoesOn
      <4>2. /\ box'[Engine[w]][q][i] \in Exited
            /\ proc'[w].x = <<ExitStatus(box'[Engine[w]][q][i]), ExitCode(box'[Engine[w]][q][i])>>
        BY <3>2, <3>3, <4>1
      <4>. QED BY <2>1, <4>1, <4>2
    <3>4. CASE Go(w, [proc[w] EXCEPT !.pc = "cleanup"])
      <4>1. On(w, "cleanup")
        BY <3>4, GoesOn
      <4>. QED BY <2>1, <4>1
    <3>. QED BY <3>1, <3>3, <3>4
  <2>5. CASE Cleanup(w)
    <3>1. On(w, "receipt") /\ SetBox(w, q, i, "none")
      BY <1>b, <1>i, <1>q, <2>5, ExecutePlaces
    <3>2. box'[Engine[w]][q][i] = "none"
      BY <2>k, <3>1, EngineTyped, BoxSet
    <3>. QED BY <2>1, <3>1, <3>2
  <2>. QED BY <2>2, <2>3, <2>4, <2>5
<1>. QED BY <1>a, <1>b

\* The container's ID is recorded: a deploy step owns its target.
LEMMA CreatedKnows ==
  ASSUME ExecInv, IInv, Knowledge, NEW w \in Workers, Created(w)
  PROVE  ExecutorKnows(w)'
<1>i. PICK i : i = CurrentStep(w)
  OBVIOUS
<1>q. PICK q : q = Mine(w)
  OBVIOUS
<1>t. steps \in [Runs -> [Steps -> Step]]
  BY DEF IInv, TypeOK
<1>p. proc[w].pc = "created"
  BY DEF Created, At
<1>b. proc[w].pc \in Busy /\ proc[w].pc \in Stepping /\ proc[w].pc \in Deploying
  BY <1>p DEF Busy, Claimed, Inside, Stepping, Deploying
<1>k. /\ q \in Runs /\ i \in Steps /\ runs[q].status = "running"
      /\ proc[w].todo \subseteq Steps
      /\ \A t \in Targets : targets[t].owner[1] = q => targets[t].owner = <<q, i>>
      /\ \A j \in proc[w].todo : ~steps[q][j].removed
      /\ steps[q][i].status = "running" /\ steps[q][i].planned
  BY <1>i, <1>q, <1>b, <1>p, AtExecute
<1>1. \/ ContainerCreated(q, i) /\ On(w, "start")
      \/ (UNCHANGED store \/ ContainerCreated(q, i)) /\ On(w, "cleanup")
  BY <1>i, <1>q, GoesOn DEF Created, RunCall, Call, NotRecorded
<1>2. UNCHANGED box
  BY DEF Created, RunCall, Call, NotRecorded, Go, host
<1>3. /\ UNCHANGED <<runs, targets>>
      /\ \A j \in Steps : steps'[q][j].removed = steps[q][j].removed
      /\ steps'[q][i].status = "running" /\ steps'[q][i].planned
      /\ steps'[q][i].kind = steps[q][i].kind
      /\ ContainerCreated(q, i) => steps'[q][i].created
  <2>1. CASE UNCHANGED store /\ ~ContainerCreated(q, i)
    BY <1>k, <2>1 DEF store
  <2>2. CASE ContainerCreated(q, i)
    BY <1>t, <1>k, <2>2 DEF ContainerCreated, SetStep, Step
  <2>. QED BY <1>1, <2>1, <2>2
<1>4. /\ \A t \in Targets : targets'[t].owner[1] = q => targets'[t].owner = <<q, i>>
      /\ \A j \in proc[w].todo : ~steps'[q][j].removed
      /\ runs'[q].status = "running" /\ proc[w].pc # "finish"
      /\ \A j \in Steps : box'[Engine[w]][q][j] = box[Engine[w]][q][j]
  BY <1>k, <1>2, <1>3, <1>p
<1>5. CASE ContainerCreated(q, i) /\ On(w, "start")
  <2>1. steps'[q][i].kind = "deploy" => \E t \in Targets : targets'[t].owner = <<q, i>>
    BY <1>3, <1>5 DEF ContainerCreated, MayCreate, Owns
  <2>2. "start" \in Busy /\ "start" \in Holding /\ "start" \in Deploying
    BY DEF Busy, Claimed, Inside, Holding, Deploying
  <2>. QED BY <1>i, <1>q, <1>b, <1>3, <1>4, <1>5, <2>1, <2>2, KnowsOn
<1>6. CASE On(w, "cleanup")
  <2>1. "cleanup" \in Busy /\ "cleanup" \in Holding /\ "cleanup" \in Deploying
    BY DEF Busy, Claimed, Inside, Holding, Deploying
  <2>. QED BY <1>i, <1>q, <1>b, <1>3, <1>4, <1>6, <2>1, KnowsOn
<1>. QED BY <1>1, <1>5, <1>6

----------------------------------------------------------------------------

\* The receipt of a step that still runs is recorded and frees its target.
LEMMA RecordKnows ==
  ASSUME ExecInv, IInv, Knowledge, NEW w \in Workers, Record(w)
  PROVE  ExecutorKnows(w)'
<1>i. PICK i : i = CurrentStep(w)
  OBVIOUS
<1>q. PICK q : q = Mine(w)
  OBVIOUS
<1>x. PICK x : x = proc[w].x
  OBVIOUS
<1>t. /\ steps \in [Runs -> [Steps -> Step]] /\ targets \in [Targets -> Target]
  BY DEF IInv, TypeOK
<1>p. proc[w].pc = "receipt"
  BY DEF Record, At
<1>b. proc[w].pc \in Busy /\ proc[w].pc \in Stepping /\ proc[w].pc \in Deploying
  BY <1>p DEF Busy, Claimed, Inside, Stepping, Deploying
<1>k. /\ q \in Runs /\ i \in Steps /\ runs[q].status = "running"
      /\ proc[w].todo \subseteq Steps
      /\ \A j \in Steps : box[Engine[w]][q][j] # "none" => j = i
      /\ \A t \in Targets : targets[t].owner[1] = q => targets[t].owner = <<q, i>>
      /\ \A j \in proc[w].todo : ~steps[q][j].removed
      /\ steps[q][i].status = "running"
  BY <1>i, <1>q, <1>b, <1>p, AtExecute
<1>r. \/ box[Engine[w]][q][i] = "none"
      \/ /\ box[Engine[w]][q][i] \in Exited
         /\ x = <<ExitStatus(box[Engine[w]][q][i]), ExitCode(box[Engine[w]][q][i])>>
  BY <1>i, <1>q, <1>x, <1>p DEF Knowledge, ExecutorKnows
<1>1. CASE RecoveryRequired(w)
  <2>1. proc'[w].pc = "idle"
    BY <1>1, GoesOn
  <2>. QED BY <2>1, KnowsIdle DEF Claimed, Inside
<1>2. CASE ~RecoveryRequired(w)
  <2>1. ~ReceiptKept(q, i, FALSE)
    BY <1>k DEF ReceiptKept, Open
  <2>2. StepFinished(q, i, x) /\ Go(w, [proc[w] EXCEPT !.pc = "rm"])
    BY <1>2, <1>i, <1>q, <1>x, <2>1 DEF Record, Call
  <2>3. On(w, "rm") /\ UNCHANGED box
    BY <2>2, GoesOn DEF Go, host
  <2>4. /\ runs' = runs
        /\ \A j \in Steps : steps'[q][j].removed = steps[q][j].removed
        /\ steps'[q][i].code = x[2]
    BY <1>t, <1>k, <2>2 DEF StepFinished, Receipt, Step
  <2>5. \A t \in Targets : targets'[t].owner[1] # q
    <3>1. SUFFICES ASSUME NEW t \in Targets, targets'[t].owner[1] = q PROVE FALSE
      OBVIOUS
    <3>2. targets'[t].owner = IF t \in Freed(q, i) THEN NoOwner ELSE targets[t].owner
      BY <2>2 DEF StepFinished, Receipt
    <3>3. targets[t].owner = <<q, i>> /\ t \notin Freed(q, i)
      BY <1>k, <3>1, <3>2 DEF NoOwner, Runs
    <3>4. OwnerOK(t, q, i)
      BY <1>k, <3>3 DEF IInv, OwnerConsistent
    <3>. QED BY <3>3, <3>4 DEF OwnerOK, Freed, Owns
  <2>6. \/ box'[Engine[w]][q][i] = "none"
        \/ box'[Engine[w]][q][i] \in Exited /\ steps'[q][i].code # NoCode
    <3>1. \A s \in Exited : ExitCode(s) # NoCode
      BY DEF Exited, ExitCode, NoCode
    <3>. QED BY <1>r, <2>3, <2>4, <3>1
  <2>7. /\ "rm" \in Busy /\ "rm" \in Holding
        /\ "rm" \notin Deploying \cup {"plan", "begin"}
    BY DEF Busy, Claimed, Inside, Holding, Deploying
  <2>8. /\ \A j \in proc[w].todo : ~steps'[q][j].removed
        /\ runs'[q].status = "running" /\ proc[w].pc # "finish"
        /\ \A j \in Steps : box'[Engine[w]][q][j] = box[Engine[w]][q][j]
    BY <1>k, <1>p, <2>3, <2>4
  <2>. QED BY <1>i, <1>q, <1>b, <2>3, <2>5, <2>6, <2>7, <2>8, KnowsOn
<1>. QED BY <1>1, <1>2

\* The container goes, its removal is recorded, and the run goes on or ends.
LEMMA EndKnows ==
  ASSUME ExecInv, IInv, Knowledge, NEW w \in Workers,
         RemoveBox(w) \/ Removed(w) \/ FinishRun(w) \/ SweepRun(w)
  PROVE  ExecutorKnows(w)'
<1>i. PICK i : i = CurrentStep(w)
  OBVIOUS
<1>q. PICK q : q = Mine(w)
  OBVIOUS
<1>t. /\ steps \in [Runs -> [Steps -> Step]] /\ Engine[w] \in Engines
      /\ runs \in [Runs -> Run]
  BY EngineTyped DEF IInv, TypeOK
<1>a. CASE proc'[w].pc = "idle"
  BY <1>a, KnowsIdle DEF Claimed, Inside
<1>b. CASE proc'[w].pc # "idle"
  <2>p. proc[w].pc \in {"rm", "removed", "finish"}
    BY <1>b, ExecutePlaces DEF RemoveBox, Removed, FinishRun, At
  <2>b. proc[w].pc \in Busy /\ proc[w].pc \notin Deploying
    BY <2>p DEF Busy, Claimed, Inside, Deploying
  <2>k. /\ q \in Runs /\ runs[q].status = "running"
        /\ proc[w].todo \subseteq Steps
        /\ proc[w].pc # "finish" => i \in Steps
        /\ \A j \in Steps : box[Engine[w]][q][j] # "none" => proc[w].pc \in Holding /\ j = i
        /\ \A t \in Targets : targets[t].owner[1] # q
        /\ proc[w].pc # "finish" => \A j \in proc[w].todo : ~steps[q][j].removed
    BY <1>i, <1>q, <2>b, <2>p, AtExecute DEF Stepping, Inside
  <2>h. "rm" \in Holding /\ "removed" \notin Holding /\ "finish" \notin Holding
    BY DEF Holding
  <2>1. CASE RemoveBox(w)
    <3>1. SetBox(w, q, i, "none") /\ On(w, "removed") /\ UNCHANGED <<runs, steps, targets>>
      BY <1>b, <1>i, <1>q, <2>1, GoesOn DEF RemoveBox, store
    <3>2. proc[w].pc = "rm"
      BY <2>1 DEF RemoveBox, At
    <3>3. \A j \in Steps : box'[Engine[w]][q][j] = "none"
      BY <1>t, <2>k, <3>1, <3>2, BoxSet
    <3>4. "removed" \in Busy /\ "removed" \notin Deploying \cup {"plan", "begin"}
      BY DEF Busy, Claimed, Inside, Deploying
    <3>5. /\ \A j \in proc[w].todo : ~steps'[q][j].removed
          /\ runs'[q].status = "running" /\ proc[w].pc # "finish"
          /\ \A t \in Targets : targets'[t].owner[1] # q
      BY <2>k, <3>1, <3>2
    <3>. QED BY <1>i, <1>q, <2>b, <3>1, <3>3, <3>4, <3>5, KnowsOn
  <2>2. CASE Removed(w)
    <3>p. proc[w].pc = "removed"
      BY <2>2 DEF Removed, At
    <3>u. UNCHANGED store \/ ContainerRemoved(q, i)
      BY <1>i, <1>q, <2>2 DEF Removed, Call
    <3>s. /\ runs' = runs /\ targets' = targets
          /\ \A j \in Steps : j # i => steps'[q][j].removed = steps[q][j].removed
      <4>1. CASE UNCHANGED store
        BY <4>1 DEF store
      <4>2. CASE ContainerRemoved(q, i)
        BY <1>t, <2>k, <3>p, <4>2 DEF ContainerRemoved, SetStep
      <4>. QED BY <3>u, <4>1, <4>2
    <3>o. UNCHANGED box
      BY <1>b, <2>2, GoesOn DEF Removed, Call, Go, Leave, host
    <3>n. /\ runs'[q].status = "running"
          /\ \A j \in Steps : box'[Engine[w]][q][j] = "none"
          /\ \A t \in Targets : targets'[t].owner[1] # q
      BY <2>h, <2>k, <3>o, <3>p, <3>s
    <3>1. CASE On(w, "finish")
      <4>1. "finish" \in Busy /\ "finish" \notin Deploying \cup {"plan", "begin"}
        BY DEF Busy, Claimed, Deploying
      <4>. QED BY <1>i, <1>q, <2>b, <3>1, <3>n, <4>1, KnowsOn
    <3>2. CASE /\ proc'[w].pc = "next" /\ proc'[w].run = proc[w].run
               /\ proc'[w].todo = proc[w].todo \ {CurrentStep(w)}
      <4>1. Mine(w)' = q /\ proc'[w].todo = proc[w].todo \ {i}
        BY <1>i, <1>q, <3>2 DEF Mine
      <4>2. \A j \in proc'[w].todo : ~steps'[q][j].removed
        BY <2>k, <3>p, <3>s, <4>1
      <4>. QED BY <3>2, <3>n, <4>1, <4>2 DEF ExecutorKnows, Deploying
    <3>. QED BY <1>b, <2>2, <3>1, <3>2, ExecutePlaces
  <2>3. CASE FinishRun(w)
    <3>p. proc[w].pc = "finish"
      BY <2>3 DEF FinishRun, At
    <3>1. Ending(q, proc[w].out) /\ Go(w, [proc[w] EXCEPT !.pc = "sweep"])
      BY <1>b, <1>q, <2>3, GoesOn DEF FinishRun, Call
    <3>2. On(w, "sweep") /\ UNCHANGED box
      BY <3>1, GoesOn DEF Go, host
    <3>3. proc[w].out \in Ended
      BY <3>p DEF ExecInv, Placed
    <3>4. runs'[q].status = proc[w].out
      <4>1. Finish(q, proc[w].out)
        BY <2>k, <3>1 DEF Ending, MayFinish
      <4>2. ASSUME NEW o, NEW x, FinishRuns({q}, o, x, x) \/ FinishRuns({q}, o, "failed", "skipped")
            PROVE  runs'[q].status = o
        <5>1. runs'[q] = [runs[q] EXCEPT !.status = o, !.token = FALSE]
          BY <2>k, <4>2 DEF FinishRuns
        <5>. QED BY <1>t, <2>k, <5>1 DEF Run
      <4>. QED BY <4>1, <4>2 DEF Finish
    <3>5. Mine(w)' = q /\ proc'[w].pc = "sweep"
      BY <1>q, <3>2 DEF On, Mine
    <3>6. \A j \in Steps : box'[Engine[w]][q][j] # "running"
      BY <2>h, <2>k, <3>2, <3>p
    <3>. QED BY <3>3, <3>4, <3>5, <3>6 DEF ExecutorKnows, Busy, Deploying
  <2>4. CASE SweepRun(w)
    BY <1>b, <2>4, ExecutePlaces
  <2>. QED BY <2>1, <2>2, <2>3, <2>4
<1>. QED BY <1>a, <1>b

\* Every executor goes on knowing.
LEMMA AllExecutors ==
  ASSUME ExecInv, IInv, Knowledge, InTouch, [ExecNext]_vars, NEW w \in Workers
  PROVE  ExecutorKnows(w)'
<1>1. CASE Boot(w) \/ RecoverNext(w) \/ Exit(w) \/ Crash(w)
  <2>1. proc'[w].pc \notin Claimed
    BY <1>1, OwnPlaces DEF Claimed, Inside, Recovering
  <2>. QED BY <2>1, KnowsIdle
<1>2. CASE ExecuteNext(w)
  BY <1>2, ClaimKnows, StartKnows, BeginKnows, StageKnows, CreatedKnows, RecordKnows, EndKnows
     DEF ExecuteNext
<1>3. CASE Undisturbed(w) /\ ~RecoverNext(w) /\ ~ExecuteNext(w)
  BY <1>3, ExecutorStands
<1>. QED BY <1>1, <1>2, <1>3, OwnSteps

----------------------------------------------------------------------------
(* What recovery knows stays so.                                           *)

\* The rows stay of their types, and what the store kept of them.
LEMMA StoreKeeps ==
  ASSUME ExecInv, IInv, [ExecNext]_vars
  PROVE  /\ RunsKept /\ RowsKept
         /\ \A t \in Targets : targets'[t].owner \in {NoOwner} \cup (Runs \X Steps)
<1>1. Transacts
  BY StoreStep
<1>2. IInv'
  BY <1>1, NextIInv DEF Transacts
<1>. QED BY <1>1, <1>2 DEF Transacts, IInv, TypeOK, Target

\* Only the live worker a run was given to creates and starts its containers.
LEMMA RisingOwn ==
  ASSUME ExecInv, IInv, Knowledge, NEW v \in Workers, Rising(v), NEW r, r = Mine(v)
  PROVE  /\ proc[v].pc \in Busy /\ Live(v)
         /\ runs[r].worker = v /\ runs[r].status = "running"
<1>1. proc[v].pc \in Busy
  BY DEF Rising, Begin, Create, StartBox, At, Busy, Claimed, Inside
<1>. QED BY <1>1, BusyLive, AtExecute

\* Who recovers a run leaves nobody to start containers of it.
LEMMA InterruptsCareful ==
  ASSUME ExecInv, IInv, Knowledge, [ExecNext]_vars, NEW w \in Workers,
         proc[w].pc \in {"recover"} \cup Recovering,
         NEW r \in Runs, NEW S, Interrupts(w, r, S)
  PROVE  /\ Careful(r) /\ HandedOut(r)
         /\ Interrupts(w, r, S)'
         /\ \A i \in Steps : box'[Engine[w]][r][i] = "running" => box[Engine[w]][r][i] = "running"
         /\ \A i \in Steps :
              box[Engine[w]][r][i] # "running" /\ Recorded(Engine[w], r, i) =>
                Recorded(Engine[w], r, i)'
         /\ (\A t \in Targets : targets[t].owner[1] # r) =>
              \A t \in Targets : targets'[t].owner[1] # r
<1>e. Engine[w] \in Engines
  BY EngineTyped
<1>k. RunsKept /\ RowsKept /\ \A t \in Targets : targets'[t].owner \in {NoOwner} \cup (Runs \X Steps)
  BY StoreKeeps
<1>1. \A v \in Workers : Rising(v) => r # Mine(v)
  <2>1. SUFFICES ASSUME NEW v \in Workers, Rising(v), r = Mine(v) PROVE FALSE
    OBVIOUS
  <2>2. proc[v].pc \in Busy /\ Live(v) /\ runs[r].worker = v
    BY <2>1, RisingOwn
  <2>. QED BY <2>2 DEF Interrupts, Live, Dead, Busy, Claimed, Inside, Recovering
<1>2. Careful(r)
  BY <1>1, AllCareful
<1>3. OnHost(Engine[w], r) /\ HandedOut(r) /\ OnHost(Engine[w], r)'
  BY <1>k, OnHostKept DEF Interrupts, OnHost
<1>4. runs'[r].worker = runs[r].worker
  BY <1>3, <1>k DEF RunsKept, HandedOut
<1>5. runs'[r].worker = w \/ proc'[runs'[r].worker].pc = "dead"
  BY <1>3, <1>4, DeadStays DEF Interrupts, OnHost
<1>6. \A i \in Steps : /\ box'[Engine[w]][r][i] \in {box[Engine[w]][r][i], "none"}
                           \/ (box[Engine[w]][r][i] = "running" /\ box'[Engine[w]][r][i] \in Exited)
  BY <1>2, <1>e DEF Careful
<1>7. \A i \in Steps : box'[Engine[w]][r][i] = "running" => box[Engine[w]][r][i] = "running"
  BY <1>6, BoxStates
<1>8. Interrupts(w, r, S)'
  BY <1>3, <1>5, <1>7 DEF Interrupts
<1>9. ASSUME NEW i \in Steps, box[Engine[w]][r][i] # "running", Recorded(Engine[w], r, i)
      PROVE  Recorded(Engine[w], r, i)'
  <2>1. ASSUME box'[Engine[w]][r][i] \in Exited PROVE steps'[r][i].code # NoCode
    <3>1. box[Engine[w]][r][i] \in Exited
      BY <1>6, <1>9, <2>1, BoxStates
    <3>2. steps[r][i].code # NoCode
      BY <1>9, <3>1 DEF Recorded
    <3>. QED BY <1>3, <1>k, <3>2 DEF RowsKept, RowGrows
  <2>. QED BY <2>1 DEF Recorded
<1>10. (\A t \in Targets : targets[t].owner[1] # r) => \A t \in Targets : targets'[t].owner[1] # r
  <2>1. \A t \in Targets, i \in Steps : targets'[t].owner = <<r, i>> => targets[t].owner = <<r, i>>
    BY <1>2 DEF Careful
  <2>. QED BY <1>k, <2>1 DEF NoOwner, Runs
<1>. QED BY <1>2, <1>3, <1>7, <1>8, <1>9, <1>10

\* Recovery knows in the next state, where it is at work on run r.
LEMMA RecoveryNext ==
  ASSUME NEW w \in Workers, NEW r, r = Mine(w)', NEW a, a = proc'[w].all,
         NEW T, T = proc'[w].todo,
         \A d \in proc'[w].list : Interrupts(w, d.run, d.boxes)',
         Interrupts(w, r, a)', T \subseteq a,
         proc'[w].pc = "rstop" =>
           /\ \A i \in Steps : box'[Engine[w]][r][i] = "running" => i \in T
           /\ \A i \in a \ T : Recorded(Engine[w], r, i)',
         proc'[w].pc \in {"rfinish", "rremove"} =>
           /\ \A i \in Steps : box'[Engine[w]][r][i] # "running"
           /\ \A i \in a : Recorded(Engine[w], r, i)'
           /\ \A t \in Targets : targets'[t].owner[1] # r
  PROVE  RecoveryKnows(w)'
BY DEF RecoveryKnows, Interrupts, Recorded, OnHost, HandedOut

\* What the run at hand and the runs to go keep.
LEMMA AtRecover ==
  ASSUME ExecInv, IInv, Knowledge, [ExecNext]_vars, NEW w \in Workers,
         proc[w].pc \in {"recover"} \cup Recovering
  PROVE  /\ \A d \in proc[w].list : /\ d.run \in Runs /\ Interrupts(w, d.run, d.boxes)
                                    /\ Interrupts(w, d.run, d.boxes)'
         /\ proc[w].all \subseteq Steps
<1>1. \A d \in proc[w].list : d.run \in Runs
  BY DEF ExecInv, ExecTypeOK, Process, Interrupted
<1>2. \A d \in proc[w].list : Interrupts(w, d.run, d.boxes)
  BY DEF Knowledge, RecoveryKnows
<1>3. \A d \in proc[w].list : Interrupts(w, d.run, d.boxes)'
  BY <1>1, <1>2, InterruptsCareful
<1>4. proc[w].all \subseteq Steps
  BY DEF ExecInv, ExecTypeOK, Process
<1>. QED BY <1>1, <1>2, <1>3, <1>4

\* While recovery stays where it is, what it knows stays so.
LEMMA RecoveryStands ==
  ASSUME ExecInv, IInv, Knowledge, [ExecNext]_vars, NEW w \in Workers, Undisturbed(w)
  PROVE  RecoveryKnows(w)'
<1>p. /\ proc'[w].pc = proc[w].pc /\ proc'[w].list = proc[w].list /\ proc'[w].run = proc[w].run
      /\ proc'[w].all = proc[w].all /\ proc'[w].todo = proc[w].todo
  BY DEF Undisturbed
<1>r. PICK r : r = Mine(w)
  OBVIOUS
<1>a. PICK a : a = proc[w].all
  OBVIOUS
<1>1. CASE proc[w].pc \in Recovering
  <2>1. r \in Runs /\ Interrupts(w, r, a) /\ proc[w].todo \subseteq a /\ a \subseteq Steps
    BY <1>1, <1>a, <1>r, StandsOn, AtRecover DEF Knowledge, RecoveryKnows
  <2>2. /\ \A d \in proc'[w].list : Interrupts(w, d.run, d.boxes)'
        /\ Interrupts(w, r, a)'
        /\ \A i \in Steps : box'[Engine[w]][r][i] = "running" => box[Engine[w]][r][i] = "running"
        /\ \A i \in Steps :
             box[Engine[w]][r][i] # "running" /\ Recorded(Engine[w], r, i) =>
               Recorded(Engine[w], r, i)'
        /\ (\A t \in Targets : targets[t].owner[1] # r) =>
             \A t \in Targets : targets'[t].owner[1] # r
    BY <1>1, <1>p, <2>1, InterruptsCareful, AtRecover
  <2>3. proc[w].pc = "rstop" =>
          /\ \A i \in Steps : box[Engine[w]][r][i] = "running" => i \in proc[w].todo
          /\ \A i \in a \ proc[w].todo : Recorded(Engine[w], r, i)
    BY <1>1, <1>a, <1>r DEF Knowledge, RecoveryKnows
  <2>4. proc[w].pc \in {"rfinish", "rremove"} =>
          /\ \A i \in Steps : box[Engine[w]][r][i] # "running"
          /\ \A i \in a : Recorded(Engine[w], r, i)
          /\ \A t \in Targets : targets[t].owner[1] # r
    BY <1>1, <1>a, <1>r DEF Knowledge, RecoveryKnows
  <2>5. r = Mine(w)' /\ a = proc'[w].all /\ proc'[w].todo = proc[w].todo
    BY <1>a, <1>p, <1>r DEF Mine
  <2>6. proc'[w].pc = "rstop" =>
          /\ \A i \in Steps : box'[Engine[w]][r][i] = "running" => i \in proc[w].todo
          /\ \A i \in a \ proc[w].todo : Recorded(Engine[w], r, i)'
    BY <1>p, <2>1, <2>2, <2>3
  <2>7. proc'[w].pc \in {"rfinish", "rremove"} =>
          /\ \A i \in Steps : box'[Engine[w]][r][i] # "running"
          /\ \A i \in a : Recorded(Engine[w], r, i)'
          /\ \A t \in Targets : targets'[t].owner[1] # r
    BY <1>p, <2>1, <2>2, <2>4
  <2>. QED BY <2>1, <2>2, <2>5, <2>6, <2>7, RecoveryNext
<1>2. CASE proc[w].pc = "recover"
  <2>1. \A d \in proc'[w].list : Interrupts(w, d.run, d.boxes)'
    BY <1>2, <1>p, AtRecover
  <2>. QED BY <1>2, <1>p, <2>1 DEF RecoveryKnows, Recovering
<1>3. CASE proc[w].pc \notin Recovering \cup {"recover"}
  BY <1>3, <1>p DEF RecoveryKnows, Recovering
<1>. QED BY <1>1, <1>2, <1>3

----------------------------------------------------------------------------

\* The runs recovery lists have nobody left who executes them.
LEMMA SurveyKnows ==
  ASSUME ExecInv, IInv, Knowledge, InTouch, [ExecNext]_vars, NEW w \in Workers, Survey(w)
  PROVE  RecoveryKnows(w)'
<1>1. /\ proc'[w].pc \in {"ready", "recover"} /\ proc'[w].list = RecoveryRuns(w)
      /\ UNCHANGED <<runs, steps, box>>
  BY RecoverPlaces DEF Survey, Go, host, store
<1>2. ASSUME NEW r \in Runs, WorkerKnown(r),
             \/ runs[r].worker = w
             \/ /\ Engine[runs[r].worker] = Engine[w]
                /\ \/ workers[runs[r].worker].row = "stopped"
                   \/ workers[runs[r].worker].beat # "fresh",
             runs[r].status = "running" \/ HasContainer(r)
      PROVE  Interrupts(w, r, {i \in Steps : Unremoved(steps[r][i])})'
  <2>1. HandedOut(r)
    BY <1>2 DEF HandedOut, HasContainer, Unremoved, IInv, StartedClaimed
  <2>2. runs[r].worker \in Workers
    BY <1>2 DEF WorkerKnown, IInv, TypeOK, Run
  <2>3. OnHost(Engine[w], r)
    BY <1>2, <2>1, <2>2 DEF OnHost
  <2>4. runs[r].worker = w \/ proc'[runs[r].worker].pc = "dead"
    BY <1>2, <2>2, GoneDead, DeadStays DEF Gone, Knowledge
  <2>5. \A i \in Steps : box[Engine[w]][r][i] = "running" => Unremoved(steps[r][i])
    <3>1. Accounted(r) /\ Engine[w] \in Engines
      BY EngineTyped DEF Knowledge
    <3>. QED BY <3>1 DEF Accounted, Unremoved
  <2>. QED BY <1>1, <2>3, <2>4, <2>5 DEF Interrupts, OnHost, HandedOut, Unremoved
<1>3. \A d \in RecoveryRuns(w) : Interrupts(w, d.run, d.boxes)'
  <2>1. SUFFICES ASSUME NEW d \in RecoveryRuns(w) PROVE Interrupts(w, d.run, d.boxes)'
    OBVIOUS
  <2>2. PICK r \in Runs :
          /\ WorkerKnown(r)
          /\ \/ runs[r].worker = w
             \/ /\ Engine[runs[r].worker] = Engine[w]
                /\ \/ workers[runs[r].worker].row = "stopped"
                   \/ workers[runs[r].worker].beat # "fresh"
          /\ runs[r].status = "running" \/ HasContainer(r)
          /\ d.run = r /\ d.boxes = {i \in Steps : Unremoved(steps[r][i])}
    BY <2>1 DEF RecoveryRuns
  <2>3. Interrupts(w, r, {i \in Steps : Unremoved(steps[r][i])})'
    BY <1>2, <2>2
  <2>. QED BY <1>1, <2>2, <2>3 DEF Interrupts, OnHost, HandedOut, Unremoved
<1>4. \A d \in proc'[w].list : Interrupts(w, d.run, d.boxes)'
  BY <1>1, <1>3
<1>. QED BY <1>1, <1>4 DEF RecoveryKnows, Recovering

\* The next of the runs to go is locked.
LEMMA LockKnows ==
  ASSUME ExecInv, IInv, Knowledge, [ExecNext]_vars, NEW w \in Workers, RecoverLock(w)
  PROVE  RecoveryKnows(w)'
<1>1. CASE proc'[w].pc = "idle"
  BY <1>1 DEF RecoveryKnows, Recovering
<1>2. CASE proc'[w].pc # "idle"
  <2>1. PICK d \in proc[w].list :
          /\ proc'[w].pc = "rstop" /\ proc'[w].list = proc[w].list \ {d}
          /\ proc'[w].run = d.run /\ proc'[w].todo = d.boxes /\ proc'[w].all = d.boxes
    BY <1>2, RecoverPlaces
  <2>2. proc[w].pc = "recover"
    BY DEF RecoverLock, At
  <2>3. /\ \A c \in proc[w].list : Interrupts(w, c.run, c.boxes)'
        /\ Interrupts(w, d.run, d.boxes)'
    BY <2>1, <2>2, AtRecover
  <2>4. PICK r : r = d.run
    OBVIOUS
  <2>5. PICK S : S = d.boxes
    OBVIOUS
  <2>6. \A i \in Steps : box'[Engine[w]][r][i] = "running" => i \in S
    BY <2>3, <2>4, <2>5 DEF Interrupts
  <2>7. r = Mine(w)' /\ S = proc'[w].all /\ S = proc'[w].todo
    BY <2>1, <2>4, <2>5 DEF Mine
  <2>8. Interrupts(w, r, S)'
    BY <2>3, <2>4, <2>5
  <2>. QED BY <2>1, <2>3, <2>6, <2>7, <2>8, RecoveryNext
<1>. QED BY <1>1, <1>2

\* A container is stopped and its exit recorded; execution is confirmed stopped,
\* the run failed, the containers removed.
LEMMA HandleKnows ==
  ASSUME ExecInv, IInv, Knowledge, [ExecNext]_vars, NEW w \in Workers,
         RecoverBox(w) \/ RecoverStopped(w) \/ RecoverFinish(w) \/ RecoverRemove(w)
  PROVE  RecoveryKnows(w)'
<1>r. PICK r : r = Mine(w)
  OBVIOUS
<1>a. PICK a : a = proc[w].all
  OBVIOUS
<1>T. PICK T : T = proc[w].todo
  OBVIOUS
<1>p. proc[w].pc \in Recovering
  BY DEF RecoverBox, RecoverStopped, RecoverFinish, RecoverRemove, At, Recovering
<1>1. r \in Runs /\ Interrupts(w, r, a) /\ T \subseteq a /\ a \subseteq Steps
  BY <1>p, <1>a, <1>T, <1>r, StandsOn, AtRecover DEF Knowledge, RecoveryKnows
<1>2. /\ \A d \in proc[w].list : Interrupts(w, d.run, d.boxes)'
      /\ Interrupts(w, r, a)'
      /\ \A i \in Steps : box'[Engine[w]][r][i] = "running" => box[Engine[w]][r][i] = "running"
      /\ \A i \in Steps :
           box[Engine[w]][r][i] # "running" /\ Recorded(Engine[w], r, i) =>
             Recorded(Engine[w], r, i)'
      /\ (\A t \in Targets : targets[t].owner[1] # r) =>
           \A t \in Targets : targets'[t].owner[1] # r
  BY <1>p, <1>1, InterruptsCareful, AtRecover
<1>3. proc[w].pc = "rstop" =>
        /\ \A i \in Steps : box[Engine[w]][r][i] = "running" => i \in T
        /\ \A i \in a \ T : Recorded(Engine[w], r, i)
  BY <1>a, <1>r, <1>T DEF Knowledge, RecoveryKnows
<1>4. proc[w].pc \in {"rfinish", "rremove"} =>
        /\ \A i \in Steps : box[Engine[w]][r][i] # "running"
        /\ \A i \in a : Recorded(Engine[w], r, i)
        /\ \A t \in Targets : targets[t].owner[1] # r
  BY <1>a, <1>r DEF Knowledge, RecoveryKnows
<1>5. ASSUME NEW pc \in {"rfinish", "rremove"}, NEW U, U \subseteq a,
             proc'[w].pc = pc, proc'[w].list = proc[w].list, proc'[w].run = r,
             proc'[w].all = a, proc'[w].todo = U,
             \A i \in Steps : box[Engine[w]][r][i] # "running",
             \A i \in a : Recorded(Engine[w], r, i),
             \A t \in Targets : targets'[t].owner[1] # r
      PROVE  RecoveryKnows(w)'
  <2>1. /\ \A i \in Steps : box'[Engine[w]][r][i] # "running"
        /\ \A i \in a : Recorded(Engine[w], r, i)'
    BY <1>1, <1>2, <1>5
  <2>2. r = Mine(w)' /\ \A d \in proc'[w].list : Interrupts(w, d.run, d.boxes)'
    BY <1>2, <1>5 DEF Mine
  <2>3. proc'[w].pc # "rstop"
    BY <1>5
  <2>. QED BY <1>2, <1>5, <2>1, <2>2, <2>3, RecoveryNext
<1>6. CASE Undisturbed(w)
  BY <1>6, RecoveryStands
<1>7. CASE proc'[w].pc = "idle"
  BY <1>7 DEF RecoveryKnows, Recovering
<1>8. CASE ~Undisturbed(w) /\ proc'[w].pc # "idle"
  <2>b. ~Back(w) /\ ~UNCHANGED proc
    BY <1>8, GoesOn DEF Undisturbed
  <2>1. CASE RecoverBox(w)
    <3>p. proc[w].pc = "rstop"
      BY <2>1 DEF RecoverBox, At
    <3>1. PICK i \in T : LET s == box[Engine[w]][r][i]
                         IN /\ Go(w, Handled(w, i))
                            /\ Halted(s) \/ (s \in Exited /\ ExitRecorded(r, i, s))
      BY <1>r, <1>T, <2>1, <2>b DEF RecoverBox, Call
    <3>2. PICK s : s = box[Engine[w]][r][i]
      OBVIOUS
    <3>3. /\ proc'[w].pc = "rstop" /\ proc'[w].list = proc[w].list
          /\ proc'[w].run = r /\ proc'[w].all = a /\ proc'[w].todo = T \ {i}
          /\ UNCHANGED box
      BY <1>r, <1>a, <1>T, <3>1, <3>p, RecoverPlaces DEF Go, host, Mine
    <3>4. s # "running" /\ i \in Steps
      BY <1>1, <3>1, <3>2, BoxStates DEF Halted
    <3>5. Recorded(Engine[w], r, i)'
      <4>1. CASE Halted(s)
        BY <3>2, <3>3, <4>1, BoxStates DEF Recorded, Halted
      <4>2. CASE s \in Exited /\ ExitRecorded(r, i, s)
        <5>1. CASE ReceiptKept(r, i, TRUE)
          <6>1. steps'[r][i].code # NoCode
            BY <4>2, <5>1 DEF ReceiptKept, ExitRecorded, store
          <6>. QED BY <6>1 DEF Recorded
        <5>2. CASE ~ReceiptKept(r, i, TRUE)
          <6>1. \E st : steps' = [steps EXCEPT ![r][i].status = st, ![r][i].code = ExitCode(s)]
            BY <4>2, <5>2 DEF ExitRecorded, RecoverStepExit, Receipt
          <6>2. steps'[r][i].code = ExitCode(s)
            BY <1>1, <3>4, <6>1 DEF IInv, TypeOK, Step
          <6>. QED BY <6>2 DEF Recorded, ExitCode, NoCode
        <5>. QED BY <5>1, <5>2
      <4>. QED BY <3>1, <3>2, <4>1, <4>2
    <3>6. /\ \A j \in Steps : box'[Engine[w]][r][j] = "running" => j \in T \ {i}
          /\ \A j \in a \ (T \ {i}) : Recorded(Engine[w], r, j)'
      BY <1>1, <1>2, <1>3, <3>p, <3>2, <3>3, <3>4, <3>5
    <3>7. r = Mine(w)' /\ \A d \in proc'[w].list : Interrupts(w, d.run, d.boxes)'
      BY <1>2, <3>3 DEF Mine
    <3>8. T \ {i} \subseteq a /\ proc'[w].pc \notin {"rfinish", "rremove"}
      BY <1>1, <3>3
    <3>. QED BY <1>2, <3>3, <3>6, <3>7, <3>8, RecoveryNext
  <2>2. CASE RecoverStopped(w)
    <3>1. /\ proc[w].pc = "rstop" /\ T = {} /\ ConfirmExecutionStopped(r)
          /\ Go(w, [proc[w] EXCEPT !.pc = "rfinish"])
      BY <1>r, <1>T, <2>2, <2>b DEF RecoverStopped, Call, At
    <3>2. /\ proc'[w].pc = "rfinish" /\ proc'[w].list = proc[w].list
          /\ proc'[w].run = r /\ proc'[w].all = a /\ proc'[w].todo = T
      BY <1>r, <1>a, <1>T, <3>1, GoesOn DEF On, Mine
    <3>3. \A t \in Targets : targets'[t].owner[1] # r
      <4>1. targets' = Released({r})
        BY <3>1 DEF ConfirmExecutionStopped
      <4>. QED BY <1>1, <4>1 DEF Released, NoOwner, Runs, IInv, TypeOK, Target
    <3>. QED BY <1>1, <1>3, <1>5, <3>1, <3>2, <3>3
  <2>3. CASE RecoverFinish(w)
    <3>1. proc[w].pc = "rfinish"
      BY <2>3 DEF RecoverFinish, At
    <3>2. /\ proc'[w].pc = "rremove" /\ proc'[w].list = proc[w].list
          /\ proc'[w].run = r /\ proc'[w].all = a /\ proc'[w].todo = a
      BY <1>8, <1>r, <1>a, <2>3, RecoverPlaces DEF Mine
    <3>. QED BY <1>2, <1>4, <1>5, <3>1, <3>2
  <2>4. CASE RecoverRemove(w)
    <3>1. proc[w].pc = "rremove" /\ \E i : Go(w, Handled(w, i))
      BY <2>4, <2>b DEF RecoverRemove, Call, At
    <3>2. PICK i : Go(w, Handled(w, i))
      BY <3>1
    <3>3. /\ proc'[w].pc = "rremove" /\ proc'[w].list = proc[w].list
          /\ proc'[w].run = r /\ proc'[w].all = a /\ proc'[w].todo = T \ {i}
      BY <1>r, <1>a, <1>T, <3>1, <3>2, RecoverPlaces DEF Mine
    <3>. QED BY <1>1, <1>2, <1>4, <1>5, <3>1, <3>3
  <2>. QED BY <2>1, <2>2, <2>3, <2>4
<1>. QED BY <1>6, <1>7, <1>8

\* Every recovery goes on knowing.
LEMMA AllRecoveries ==
  ASSUME ExecInv, IInv, Knowledge, InTouch, [ExecNext]_vars, NEW w \in Workers
  PROVE  RecoveryKnows(w)'
<1>1. CASE Undisturbed(w)
  BY <1>1, RecoveryStands
<1>2. CASE Boot(w) \/ ExecuteNext(w) \/ Exit(w) \/ Crash(w)
  <2>1. proc'[w].pc \notin Recovering \cup {"recover"}
    BY <1>2, OwnPlaces DEF Claimed, Inside, Recovering
  <2>. QED BY <2>1 DEF RecoveryKnows, Recovering
<1>3. CASE RecoverSweep(w) \/ RecoverAbort(w)
  <2>1. CASE proc'[w].pc \notin Recovering \cup {"recover"}
    BY <2>1 DEF RecoveryKnows, Recovering
  <2>2. CASE proc'[w].pc \in Recovering \cup {"recover"}
    <3>1. /\ proc'[w].pc = "recover" /\ proc'[w].list = proc[w].list
          /\ proc[w].pc \in Recovering
      BY <1>3, <2>2, RecoverPlaces DEF RecoverSweep, At, Recovering
    <3>2. \A d \in proc'[w].list : Interrupts(w, d.run, d.boxes)'
      BY <3>1, AtRecover
    <3>. QED BY <3>1, <3>2 DEF RecoveryKnows, Recovering
  <2>. QED BY <2>1, <2>2
<1>. QED BY <1>1, <1>2, <1>3, SurveyKnows, LockKnows, HandleKnows, OwnSteps DEF RecoverNext

----------------------------------------------------------------------------
(* What cleanup passes know stays so.                                      *)

\* Nobody creates or starts containers of a run that ended.
LEMMA EndedCareful ==
  ASSUME ExecInv, IInv, Knowledge, [ExecNext]_vars, NEW r \in Runs, runs[r].status \in Ended,
         NEW e \in Engines
  PROVE  /\ runs'[r].status \in Ended
         /\ \A i \in Steps : box'[e][r][i] = "running" => box[e][r][i] = "running"
         /\ \A i \in Steps : box[e][r][i] # "running" /\ Recorded(e, r, i) => Recorded(e, r, i)'
         /\ (\A t \in Targets : targets[t].owner[1] # r) =>
              \A t \in Targets : targets'[t].owner[1] # r
<1>k. RunsKept /\ RowsKept /\ \A t \in Targets : targets'[t].owner \in {NoOwner} \cup (Runs \X Steps)
  BY StoreKeeps
<1>1. \A v \in Workers : Rising(v) => r # Mine(v)
  BY RisingOwn, StatusFacts
<1>2. Careful(r)
  BY <1>1, AllCareful
<1>3. HandedOut(r)
  BY DEF HandedOut
<1>4. \A i \in Steps : \/ box'[e][r][i] \in {box[e][r][i], "none"}
                       \/ (box[e][r][i] = "running" /\ box'[e][r][i] \in Exited)
  BY <1>2 DEF Careful
<1>5. \A i \in Steps : box'[e][r][i] = "running" => box[e][r][i] = "running"
  BY <1>4, BoxStates
<1>6. ASSUME NEW i \in Steps, box[e][r][i] # "running", Recorded(e, r, i)
      PROVE  Recorded(e, r, i)'
  <2>1. ASSUME box'[e][r][i] \in Exited PROVE steps'[r][i].code # NoCode
    <3>1. box[e][r][i] \in Exited
      BY <1>4, <1>6, <2>1, BoxStates
    <3>2. steps[r][i].code # NoCode
      BY <1>6, <3>1 DEF Recorded
    <3>. QED BY <1>3, <1>k, <3>2 DEF RowsKept, RowGrows
  <2>. QED BY <2>1 DEF Recorded
<1>7. (\A t \in Targets : targets[t].owner[1] # r) => \A t \in Targets : targets'[t].owner[1] # r
  <2>1. \A t \in Targets, i \in Steps : targets'[t].owner = <<r, i>> => targets[t].owner = <<r, i>>
    BY <1>2 DEF Careful
  <2>. QED BY <1>k, <2>1 DEF NoOwner, Runs
<1>. QED BY <1>5, <1>6, <1>7, EndedStays

\* Which calls end a run.
LEMMA RunsUntouched ==
  ASSUME NEW r, NEW i, StepNext(r, i) \/ ConfirmExecutionStopped(r) \/ AllRemoved(r)
  PROVE  runs' = runs
BY DEF StepNext, StepStarted, PlanContainer, BeginDeployment, ContainerCreated, ContainerRemoved,
   SetStep, StepFinished, RecoverStepExit, Receipt, ConfirmExecutionStopped, AllRemoved

\* The main loop ends a run only when none of its containers runs.
LEMMA MainSpares ==
  ASSUME ExecInv, IInv, Knowledge, NEW v \in Workers, RecoverNext(v) \/ ExecuteNext(v),
         NEW e \in Engines, NEW r \in Runs, NEW i \in Steps,
         box[e][r][i] = "running", runs[r].status = "running"
  PROVE  runs'[r].status = "running"
<1>h. HandedOut(r) /\ Accounted(r) /\ OnHost(e, r)
  BY BoxStates DEF HandedOut, Knowledge, Accounted
<1>1. CASE r # Mine(v)
  BY <1>1, <1>h, MainSame DEF Same, Aside
<1>2. CASE r = Mine(v)
  <2>1. CASE RecoverFinish(v)
    <3>1. proc[v].pc = "rfinish"
      BY <2>1 DEF RecoverFinish, At
    <3>2. /\ OnHost(Engine[v], r)
          /\ \A j \in Steps : box[Engine[v]][r][j] # "running"
      BY <1>2, <3>1 DEF Knowledge, RecoveryKnows, Recovering, Interrupts
    <3>3. e = Engine[v]
      BY <1>h, <3>2, EngineTyped, OneHost
    <3>. QED BY <3>2, <3>3
  <2>2. CASE FinishRun(v)
    <3>1. proc[v].pc = "finish"
      BY <2>2 DEF FinishRun, At
    <3>2. proc[v].pc \in Busy /\ proc[v].pc \notin Holding
      BY <3>1 DEF Busy, Claimed, Holding
    <3>3. e = Engine[v]
      BY <1>2, <3>2, AtWork DEF Busy
    <3>. QED BY <1>2, <3>2, <3>3, AtExecute
  <2>3. CASE ~RecoverFinish(v) /\ ~FinishRun(v)
    <3>1. \/ UNCHANGED store
          \/ \E q \in Runs : ClaimNext(v, q)
          \/ ConfirmExecutionStopped(r)
          \/ \E j : StepNext(r, j)
      <4>1. CASE RecoverNext(v)
        <5>1. Survey(v) \/ RecoverLock(v) \/ RecoverSweep(v) \/ RecoverAbort(v) => UNCHANGED store
          BY DEF Survey, RecoverLock, RecoverSweep, RecoverAbort
        <5>2. RecoverStopped(v) => UNCHANGED store \/ ConfirmExecutionStopped(r)
          BY <1>2 DEF RecoverStopped, Call
        <5>3. RecoverRemove(v) => UNCHANGED store \/ \E j : ContainerRemoved(r, j)
          BY <1>2 DEF RecoverRemove, Call
        <5>4. ASSUME RecoverBox(v) PROVE UNCHANGED store \/ \E j : StepNext(r, j)
          <6>1. PICK j \in proc[v].todo : UNCHANGED store \/ \E s : ExitRecorded(r, j, s)
            BY <1>2, <5>4 DEF RecoverBox, Call
          <6>2. j \in Steps
            BY DEF ExecInv, ExecTypeOK, Process
          <6>. QED BY <6>1, <6>2, ExitCalls
        <5>. QED BY <2>3, <4>1, <5>1, <5>2, <5>3, <5>4 DEF RecoverNext, StepNext
      <4>2. CASE ExecuteNext(v)
        <5>1. ClaimNothing(v) \/ Enter(v) \/ Fetch(v) \/ Create(v) \/ StartBox(v) \/ Wait(v)
              \/ Cleanup(v) \/ RemoveBox(v) \/ SweepRun(v) => UNCHANGED store
          BY DEF ClaimNothing, Enter, Fetch, Create, StartBox, Wait, Cleanup, RemoveBox, SweepRun
        <5>2. Claim(v) => UNCHANGED store \/ \E q \in Runs : ClaimNext(v, q)
          BY DEF Claim, Call
        <5>3. StartStep(v) => UNCHANGED store \/ \E j : StepStarted(r, j)
          BY <1>2 DEF StartStep, Call
        <5>4. PlanBox(v) => UNCHANGED store \/ \E j : PlanContainer(r, j)
          BY <1>2 DEF PlanBox, RunCall, Call
        <5>5. Begin(v) => UNCHANGED store \/ \E j : BeginDeployment(r, j)
          BY <1>2 DEF Begin, RunCall, Call
        <5>6. Created(v) => UNCHANGED store \/ \E j : ContainerCreated(r, j)
          BY <1>2 DEF Created, RunCall, Call
        <5>7. Removed(v) => UNCHANGED store \/ \E j : ContainerRemoved(r, j)
          BY <1>2 DEF Removed, Call
        <5>8. ASSUME Record(v) PROVE UNCHANGED store \/ \E j : StepNext(r, j)
          <6>1. UNCHANGED store \/ StepFinished(r, CurrentStep(v), proc[v].x)
            BY <1>2, <5>8 DEF Record, Call
          <6>2. proc[v].x \in Results
            BY <5>8 DEF Record, At, ExecInv, Placed
          <6>. QED BY <6>1, <6>2 DEF StepNext
        <5>. QED BY <2>3, <4>2, <5>1, <5>2, <5>3, <5>4, <5>5, <5>6, <5>7, <5>8
                 DEF ExecuteNext, StepNext
      <4>. QED BY <4>1, <4>2
    <3>2. ASSUME NEW q \in Runs, ClaimNext(v, q) PROVE runs'[r].status = "running"
      BY <3>2 DEF ClaimNext, IInv, TypeOK, Run
    <3>3. UNCHANGED store => runs' = runs
      BY DEF store
    <3>. QED BY <3>1, <3>2, <3>3, RunsUntouched
  <2>. QED BY <2>1, <2>2, <2>3
<1>. QED BY <1>1, <1>2

\* A run is not ended while a script of it runs, unless its worker is gone.
LEMMA StatusKept ==
  ASSUME ExecInv, IInv, Knowledge, [ExecNext]_vars,
         NEW e \in Engines, NEW r \in Runs, NEW i \in Steps,
         box[e][r][i] = "running", runs[r].status = "running", ~Gone(runs[r].worker)
  PROVE  runs'[r].status = "running"
<1>h. HandedOut(r)
  BY DEF HandedOut
<1>s. Same(r) => runs'[r].status = "running"
  BY <1>h DEF Same, Aside
<1>1. ASSUME NEW v \in Workers, RecoverNext(v) \/ ExecuteNext(v)
      PROVE  runs'[r].status = "running"
  BY <1>1, MainSpares
<1>2. ASSUME NEW v \in Workers, SweepNext(v) PROVE runs'[r].status = "running"
  BY <1>2, SweepCalls, RunsUntouched DEF store
<1>3. ASSUME NEW v \in Workers, Bystander(v) PROVE runs'[r].status = "running"
  BY <1>3, <1>s, BystanderSame
<1>4. ASSUME NEW v \in Workers, Reap(v) PROVE runs'[r].status = "running"
  BY <1>4, <1>s, WorldSame DEF LostRuns
<1>5. ASSUME NEW v \in Workers, Release(v) PROVE runs'[r].status = "running"
  <2>1. runs[r].worker # v
    BY <1>5 DEF Release, ReleaseLostWorker
  <2>. QED BY <1>5, <1>s, <2>1, WorldSame
<1>6. ASSUME NEW q \in Runs, CancelRun(q) \/ Deadline(q) PROVE runs'[r].status = "running"
  BY <1>6, <1>s, WorldSame
<1>7. ASSUME NEW d, NEW q, NEW j, ScriptExits(d, q, j) PROVE runs'[r].status = "running"
  BY <1>7 DEF ScriptExits, store
<1>8. Submit => runs'[r].status = "running"
  BY <1>s, WorldSame
<1>9. UNCHANGED vars => runs'[r].status = "running"
  BY DEF vars, store
<1>. QED BY <1>1, <1>2, <1>3, <1>4, <1>5, <1>6, <1>7, <1>8, <1>9
         DEF ExecNext, MainNext, BeatNext, FaultNext, Bystander

\* A worker that a pass did not find silent, with a run at hand on the pass's
\* host, is not gone before the pass ends.
LEMMA GoneKept ==
  ASSUME ExecInv, IInv, Knowledge, [ExecNext]_vars, StopsApart,
         NEW w \in Workers, clean[w].pc # "idle", clean'[w].pc # "idle",
         NEW v \in Workers, Engine[v] = Engine[w], v \notin clean[w].quiet, ~Gone(v),
         NEW r \in Runs, runs[r].worker = v, runs[r].status = "running"
  PROVE  ~Gone(v)'
<1>t. workers \in [Workers -> Worker] /\ clean \in [Workers -> Sweep]
  BY DEF IInv, TypeOK, ExecInv, ExecTypeOK
<1>s. workers'[v] = workers[v] => ~Gone(v)'
  BY DEF Gone
<1>1. ASSUME NEW u \in Workers, Boot(u), RegisterWorker(u) PROVE ~Gone(v)'
  <2>1. CASE u = v
    BY <1>1, <1>t, <2>1 DEF RegisterWorker, SetWorker, Gone
  <2>2. CASE u # v
    BY <1>1, <1>s, <1>t, <2>2 DEF RegisterWorker, SetWorker
  <2>. QED BY <2>1, <2>2
<1>2. ASSUME NEW u \in Workers, Exit(u), StopWorker(u) PROVE ~Gone(v)'
  <2>1. CASE u = v
    <3>1. v # w
      BY <1>2, <1>t, <2>1 DEF Exit, ProcessGone, NoSweep
    <3>2. Live(v) /\ workers'[v].row = "stopped"
      BY <1>2, <1>t, <2>1 DEF Exit, At, Live, Dead, StopWorker, SetWorker
    <3>. QED BY <3>1, <3>2 DEF StopsApart
  <2>2. CASE u # v
    BY <1>2, <1>s, <1>t, <2>2 DEF StopWorker, SetWorker
  <2>. QED BY <2>1, <2>2
<1>3. ASSUME NEW u \in Workers, Heartbeat(u) PROVE ~Gone(v)'
  <2>1. CASE u = v
    BY <1>3, <1>t, <2>1 DEF Heartbeat, SetWorker, Gone
  <2>2. CASE u # v
    BY <1>3, <1>s, <1>t, <2>2 DEF Heartbeat, SetWorker
  <2>. QED BY <2>1, <2>2
<1>4. ASSUME NEW u \in Workers, Age(u), BeatAges(u) PROVE ~Gone(v)'
  <2>1. CASE u = v
    <3>1. workers[v].beat = "fresh"
      BY <1>4, <1>t, <2>1 DEF Age, Gone, Worker
    <3>2. workers'[v].row = workers[v].row /\ workers'[v].beat = "late"
      BY <1>4, <1>t, <2>1, <3>1 DEF BeatAges, SetWorker
    <3>. QED BY <3>2 DEF Gone
  <2>2. CASE u # v
    BY <1>4, <1>s, <1>t, <2>2 DEF BeatAges, SetWorker
  <2>. QED BY <2>1, <2>2
<1>5. ASSUME NEW u \in Workers, ReleaseLostWorker(u, Runs) PROVE ~Gone(v)'
  <2>1. u # v
    BY <1>5 DEF ReleaseLostWorker
  <2>. QED BY <1>5, <1>s, <1>t, <2>1 DEF ReleaseLostWorker
<1>. QED BY <1>s, <1>1, <1>2, <1>3, <1>4, <1>5, WorkerSteps

----------------------------------------------------------------------------

\* A container that a pass did not list runs for a worker that is at work.
LEMMA UnlistedKept ==
  ASSUME ExecInv, IInv, Knowledge, InTouch, [ExecNext]_vars, StopsApart,
         NEW w \in Workers, clean[w].pc \in {"query", "lock"}, clean'[w].pc # "idle",
         NEW r \in Runs, NEW i \in Steps, <<r, i>> \notin clean[w].boxes,
         box'[Engine[w]][r][i] = "running"
  PROVE  /\ runs'[r].status = "running"
         /\ ~Gone(runs[r].worker)'
         /\ runs'[r].worker \notin clean[w].quiet
<1>e. Engine[w] \in Engines
  BY EngineTyped
<1>k. RunsKept
  BY StoreKeeps
<1>1. CASE box[Engine[w]][r][i] = "running"
  <2>1. /\ runs[r].status = "running" /\ ~Gone(runs[r].worker)
        /\ runs[r].worker \notin clean[w].quiet
    BY <1>1 DEF Knowledge, PassKnows
  <2>2. runs'[r].worker = runs[r].worker /\ runs'[r].status = "running"
    BY <1>1, <1>e, <1>k, <2>1, StatusKept DEF RunsKept
  <2>3. runs[r].worker \in Workers /\ Engine[runs[r].worker] = Engine[w]
    BY <1>1, <1>e, BoxStates DEF Knowledge, Accounted, OnHost
  <2>4. PICK v \in Workers : v = runs[r].worker
    BY <2>3
  <2>5. ~Gone(v)'
    BY <2>1, <2>3, <2>4, GoneKept
  <2>. QED BY <2>1, <2>2, <2>4, <2>5 DEF Gone
<1>2. CASE box[Engine[w]][r][i] # "running"
  <2>1. PICK v \in Workers : Rising(v) /\ r = Mine(v)
    <3>1. ~Careful(r)
      BY <1>2, <1>e, BoxStates DEF Careful
    <3>. QED BY <3>1, AllCareful
  <2>2. /\ Live(v) /\ runs[r].worker = v /\ runs[r].status = "running"
    BY <2>1, RisingOwn
  <2>3. UNCHANGED <<runs, workers>>
    BY <2>1 DEF Rising, Begin, Create, StartBox, RunCall, Call, BeginDeployment, store
  <2>4. workers[v].row = "up" /\ workers[v].beat = "fresh"
    BY <2>2 DEF InTouch, Knowledge, RowsTrue
  <2>5. v \notin clean[w].quiet
    BY <2>2 DEF Knowledge, PassKnows, Live, Dead
  <2>. QED BY <2>2, <2>3, <2>4, <2>5 DEF Gone
<1>. QED BY <1>1, <1>2

\* How a pass goes on, and what it must find out by itself.
LEMMA PassNext ==
  ASSUME ExecInv, IInv, Knowledge, InTouch, [ExecNext]_vars, StopsApart,
         NEW w \in Workers, NEW c, c = clean[w], NEW d, d = clean'[w],
         d.quiet \subseteq c.quiet, d.dirs \subseteq c.dirs, d.boxes \subseteq c.boxes,
         d.held \subseteq c.held \cup c.todo, d.conf \subseteq c.conf \cup c.held,
         \A r \in d.todo :
           r \in c.todo \/ (r \in Runs /\ OnHost(Engine[w], r) /\ runs[r].status \in Ended),
         d.pc \in {"query", "lock"} =>
           c.pc \in {"query", "lock"} /\ d.boxes = c.boxes,
         d.pc = "stop" => \A r \in d.held, i \in Steps :
           box[Engine[w]][r][i] = "running" /\ box'[Engine[w]][r][i] = "running" =>
             <<r, i>> \in d.boxes,
         \A x \in d.seen :
           \/ x \in c.seen
           \/ /\ x[1] \in c.held /\ box'[Engine[w]][x[1]][x[2]] # "running"
              /\ Recorded(Engine[w], x[1], x[2])',
         \A r \in d.conf : r \in c.conf \/ \A t \in Targets : targets'[t].owner[1] # r
  PROVE  PassKnows(w)'
<1>e. Engine[w] \in Engines
  BY EngineTyped
<1>k. RunsKept
  BY StoreKeeps
<1>t. /\ c.dirs \subseteq Runs /\ c.todo \subseteq Runs /\ c.held \subseteq Runs
      /\ c.conf \subseteq Runs /\ c.boxes \subseteq Runs \X Steps /\ c.seen \subseteq Runs \X Steps
      /\ c.quiet \subseteq Workers
  BY DEF ExecInv, ExecTypeOK, Sweep
<1>p. /\ \A v \in c.quiet : proc[v].pc = "dead"
      /\ \A r \in c.dirs \cup c.todo \cup c.held : OnHost(Engine[w], r)
      /\ \A x \in c.boxes : OnHost(Engine[w], x[1])
      /\ \A r \in c.todo \cup c.held \cup c.conf : runs[r].status \in Ended
      /\ \A x \in c.seen : /\ runs[x[1]].status \in Ended
                           /\ box[Engine[w]][x[1]][x[2]] # "running"
                           /\ Recorded(Engine[w], x[1], x[2])
      /\ \A r \in c.conf, t \in Targets : targets[t].owner[1] # r
  BY DEF Knowledge, PassKnows
<1>1. \A v \in d.quiet : proc'[v].pc = "dead"
  BY <1>p, <1>t, DeadStays
<1>2. \A r \in d.dirs \cup d.todo \cup d.held : OnHost(Engine[w], r)'
  <2>1. \A r \in d.dirs \cup d.todo \cup d.held : r \in Runs /\ OnHost(Engine[w], r)
    BY <1>p, <1>t
  <2>. QED BY <1>k, <2>1, OnHostKept
<1>3. \A x \in d.boxes : OnHost(Engine[w], x[1])'
  <2>1. \A x \in d.boxes : x[1] \in Runs /\ OnHost(Engine[w], x[1])
    BY <1>p, <1>t
  <2>. QED BY <1>k, <2>1, OnHostKept
<1>4. d.pc \in {"query", "lock"} =>
        \A r \in Runs, i \in Steps :
          box'[Engine[w]][r][i] = "running" /\ <<r, i>> \notin d.boxes =>
            /\ runs'[r].status = "running" /\ ~Gone(runs[r].worker)'
            /\ runs'[r].worker \notin d.quiet
  BY UnlistedKept
<1>5. \A r \in d.todo \cup d.held \cup d.conf : runs'[r].status \in Ended
  <2>1. \A r \in d.todo \cup d.held \cup d.conf : r \in Runs /\ runs[r].status \in Ended
    BY <1>p, <1>t
  <2>. QED BY <2>1, EndedStays
<1>6. d.pc = "stop" =>
        \A r \in d.held, i \in Steps : box'[Engine[w]][r][i] = "running" => <<r, i>> \in d.boxes
  <2>1. \A r \in d.held : r \in Runs /\ runs[r].status \in Ended
    BY <1>p, <1>t
  <2>2. \A r \in d.held, i \in Steps :
           box'[Engine[w]][r][i] = "running" => box[Engine[w]][r][i] = "running"
    BY <1>e, <2>1, EndedCareful
  <2>. QED BY <2>2
<1>7. \A x \in d.seen : /\ runs'[x[1]].status \in Ended
                        /\ box'[Engine[w]][x[1]][x[2]] # "running"
                        /\ Recorded(Engine[w], x[1], x[2])'
  <2>1. SUFFICES ASSUME NEW x \in d.seen
                 PROVE  /\ runs'[x[1]].status \in Ended
                        /\ box'[Engine[w]][x[1]][x[2]] # "running"
                        /\ Recorded(Engine[w], x[1], x[2])'
    OBVIOUS
  <2>2. CASE x \in c.seen
    <3>1. PICK r \in Runs, i \in Steps : x = <<r, i>>
      BY <1>t, <2>2
    <3>2. /\ runs[r].status \in Ended /\ box[Engine[w]][r][i] # "running"
          /\ Recorded(Engine[w], r, i)
      BY <1>p, <2>2, <3>1
    <3>3. runs'[r].status \in Ended /\ box'[Engine[w]][r][i] # "running" /\ Recorded(Engine[w], r, i)'
      BY <1>e, <3>2, EndedCareful
    <3>4. x[1] = r /\ x[2] = i
      BY <3>1
    <3>. QED BY <3>3, <3>4 DEF Recorded
  <2>3. CASE x \notin c.seen
    <3>1. x[1] \in Runs /\ runs[x[1]].status \in Ended
      BY <1>p, <1>t, <2>3
    <3>. QED BY <2>3, <3>1, EndedStays
  <2>. QED BY <2>2, <2>3
<1>8. \A r \in d.conf, t \in Targets : targets'[t].owner[1] # r
  <2>1. \A r \in c.conf : \A t \in Targets : targets'[t].owner[1] # r
    BY <1>e, <1>p, <1>t, EndedCareful
  <2>. QED BY <2>1
<1>. QED BY <1>1, <1>2, <1>3, <1>4, <1>5, <1>6, <1>7, <1>8
         DEF PassKnows, OnHost, HandedOut, Gone, Recorded

\* Between its steps a pass knows what it knew.
LEMMA PassStands ==
  ASSUME ExecInv, IInv, Knowledge, InTouch, [ExecNext]_vars, StopsApart,
         NEW w \in Workers, clean'[w] = clean[w]
  PROVE  PassKnows(w)'
<1>c. PICK c : c = clean[w]
  OBVIOUS
<1>1. c = clean'[w]
  BY <1>c
<1>2. c.pc = "stop" => \A r \in c.held, i \in Steps :
        box[Engine[w]][r][i] = "running" => <<r, i>> \in c.boxes
  BY <1>c DEF Knowledge, PassKnows
<1>. QED BY <1>c, <1>1, <1>2, PassNext

\* No pass is under way.
LEMMA PassOver ==
  ASSUME NEW w \in Workers, clean'[w] = NoSweep
  PROVE  PassKnows(w)'
BY DEF PassKnows, NoSweep

----------------------------------------------------------------------------

\* A pass lists what the host has: every container is of a run handed out here.
LEMMA ListKnows ==
  ASSUME ExecInv, IInv, Knowledge, InTouch, [ExecNext]_vars, NEW w \in Workers, SweepList(w)
  PROVE  PassKnows(w)'
<1>e. Engine[w] \in Engines /\ clean \in [Workers -> Sweep]
  BY EngineTyped DEF ExecInv, ExecTypeOK
<1> DEFINE B == {b \in Runs \X Steps : box[Engine[w]][b[1]][b[2]] # "none"}
           D == {r \in Runs : ws[Engine[w]][r]}
           Q == {v \in Workers : workers[v].beat # "fresh"}
<1>1. /\ clean' = [clean EXCEPT ![w] = [NoSweep EXCEPT !.pc = "query", !.boxes = B, !.dirs = D,
                                                     !.quiet = Q]]
      /\ UNCHANGED <<store, proc, box>>
  BY DEF SweepList, SetSweep, host
<1>2. \A v \in Q : proc[v].pc = "dead"
  BY GoneDead DEF Knowledge
<1>3. \A r \in D : OnHost(Engine[w], r)
  BY <1>e DEF Knowledge, Accounted
<1>4. \A x \in B : OnHost(Engine[w], x[1])
  BY <1>e DEF Knowledge, Accounted
<1>5. \A r \in Runs, i \in Steps : box[Engine[w]][r][i] = "running" => <<r, i>> \in B
  BY BoxStates
<1> HIDE DEF B, D, Q
<1>6. /\ clean'[w].pc = "query" /\ clean'[w].boxes = B /\ clean'[w].dirs = D
      /\ clean'[w].quiet = Q /\ clean'[w].todo = {} /\ clean'[w].held = {}
      /\ clean'[w].conf = {} /\ clean'[w].seen = {}
  BY <1>e, <1>1 DEF NoSweep
<1>. QED BY <1>1, <1>2, <1>3, <1>4, <1>5, <1>6 DEF PassKnows, OnHost, HandedOut, store

\* It goes on with the runs that are not running, which ended.
LEMMA QueryKnows ==
  ASSUME ExecInv, IInv, Knowledge, InTouch, [ExecNext]_vars, StopsApart,
         NEW w \in Workers, SweepQuery(w)
  PROVE  PassKnows(w)'
<1>t. clean \in [Workers -> Sweep] /\ clean[w] \in Sweep
  BY DEF ExecInv, ExecTypeOK
<1>c. PICK c : c = clean[w]
  OBVIOUS
<1>1. CASE link[w].cut
  <2>1. clean'[w] = NoSweep
    BY <1>1, <1>t DEF SweepQuery, SetSweep
  <2>. QED BY <2>1, PassOver
<1>2. CASE ~link[w].cut
  <2> DEFINE T == {r \in clean[w].dirs \cup {b[1] : b \in clean[w].boxes} : Leftover(r)}
  <2>1. /\ clean' = [clean EXCEPT ![w] = [clean[w] EXCEPT !.pc = "lock", !.todo = T]]
        /\ clean[w].pc = "query"
    BY <1>2 DEF SweepQuery, SetSweep
  <2>2. \A r \in T : r \in Runs /\ OnHost(Engine[w], r) /\ runs[r].status \in Ended
    <3>1. \A r \in T : r \in Runs /\ OnHost(Engine[w], r)
      BY <1>t DEF Knowledge, PassKnows, Sweep
    <3>. QED BY <3>1 DEF Leftover, OnHost, HandedOut
  <2> HIDE DEF T
  <2>3. PICK d : d = clean'[w]
    OBVIOUS
  <2>4. /\ d.pc = "lock" /\ d.todo = T /\ d.quiet = c.quiet /\ d.dirs = c.dirs
        /\ d.boxes = c.boxes /\ d.held = c.held /\ d.conf = c.conf /\ d.seen = c.seen
    BY <1>c, <1>t, <2>1, <2>3 DEF Sweep
  <2>5. c.pc = "query"
    BY <1>c, <2>1
  <2>6. /\ d.quiet \subseteq c.quiet /\ d.dirs \subseteq c.dirs /\ d.boxes \subseteq c.boxes
        /\ d.held \subseteq c.held \cup c.todo /\ d.conf \subseteq c.conf \cup c.held
        /\ d.pc = "lock" /\ c.pc = "query" /\ d.boxes = c.boxes
        /\ \A x \in d.seen : x \in c.seen
        /\ \A r \in d.conf : r \in c.conf
        /\ \A r \in d.todo : r \in Runs /\ OnHost(Engine[w], r) /\ runs[r].status \in Ended
    BY <2>2, <2>4, <2>5
  <2>. QED BY <1>c, <2>3, <2>6, PassNext
<1>. QED BY <1>1, <1>2

\* It locks them one by one, and stops what they left.
LEMMA LocksKnow ==
  ASSUME ExecInv, IInv, Knowledge, InTouch, [ExecNext]_vars, StopsApart,
         NEW w \in Workers, SweepLock(w)
  PROVE  PassKnows(w)'
<1>t. clean \in [Workers -> Sweep] /\ clean[w] \in Sweep
  BY DEF ExecInv, ExecTypeOK
<1>c. PICK c : c = clean[w]
  OBVIOUS
<1>d. PICK d : d = clean'[w]
  OBVIOUS
<1>p. clean[w].pc = "lock"
  BY DEF SweepLock
<1>1. ASSUME NEW r \in clean[w].todo,
             \/ SetSweep(w, [clean[w] EXCEPT !.todo = @ \ {r}, !.held = @ \cup {r}])
             \/ SetSweep(w, [clean[w] EXCEPT !.todo = @ \ {r}])
      PROVE  PassKnows(w)'
  <2>1. PICK T, H : T = c.todo \ {r} /\ H = c.held \cup {r}
    OBVIOUS
  <2>2. \/ clean' = [clean EXCEPT ![w] = [clean[w] EXCEPT !.todo = T, !.held = H]]
        \/ clean' = [clean EXCEPT ![w] = [clean[w] EXCEPT !.todo = T]]
    BY <1>c, <1>1, <2>1 DEF SetSweep
  <2>3. /\ d.pc = "lock" /\ d.todo = T /\ d.quiet = c.quiet /\ d.dirs = c.dirs
        /\ d.boxes = c.boxes /\ d.held \in {c.held, H} /\ d.conf = c.conf /\ d.seen = c.seen
    <3>1. CASE clean' = [clean EXCEPT ![w] = [clean[w] EXCEPT !.todo = T]]
      BY <1>c, <1>d, <1>t, <1>p, <3>1 DEF Sweep
    <3>2. CASE clean' = [clean EXCEPT ![w] = [clean[w] EXCEPT !.todo = T, !.held = H]]
      <4>1. d = [clean[w] EXCEPT !.todo = T, !.held = H]
        BY <1>d, <1>t, <3>2
      <4>. QED BY <1>c, <1>t, <1>p, <4>1 DEF Sweep
    <3>. QED BY <2>2, <3>1, <3>2
  <2>4. d.held \subseteq c.held \cup c.todo /\ d.todo \subseteq c.todo
    BY <1>c, <1>1, <2>1, <2>3
  <2>. QED BY <1>c, <1>d, <1>p, <2>3, <2>4, PassNext
<1>2. ASSUME SetSweep(w, [clean[w] EXCEPT !.pc = "stop",
                            !.boxes = {b \in @ : b[1] \in clean[w].held}])
      PROVE  PassKnows(w)'
  <2> DEFINE B == {b \in clean[w].boxes : b[1] \in clean[w].held}
  <2>1. clean' = [clean EXCEPT ![w] = [clean[w] EXCEPT !.pc = "stop", !.boxes = B]]
    BY <1>2 DEF SetSweep
  <2>2. \A r \in clean[w].held, i \in Steps :
           box[Engine[w]][r][i] = "running" => <<r, i>> \in B
    <3>1. SUFFICES ASSUME NEW r \in clean[w].held, NEW i \in Steps,
                          box[Engine[w]][r][i] = "running"
                   PROVE  <<r, i>> \in B
      OBVIOUS
    <3>2. r \in Runs /\ runs[r].status \in Ended
      BY <1>t DEF Knowledge, PassKnows, Sweep
    <3>3. <<r, i>> \in clean[w].boxes
      BY <1>p, <3>1, <3>2, StatusFacts DEF Knowledge, PassKnows
    <3>. QED BY <3>3
  <2>3. B \subseteq clean[w].boxes
    OBVIOUS
  <2> HIDE DEF B
  <2>4. /\ d.pc = "stop" /\ d.todo = c.todo /\ d.quiet = c.quiet /\ d.dirs = c.dirs
        /\ d.boxes = B /\ d.held = c.held /\ d.conf = c.conf /\ d.seen = c.seen
    BY <1>c, <1>d, <1>t, <2>1 DEF Sweep
  <2>. QED BY <1>c, <1>d, <2>2, <2>3, <2>4, PassNext
<1>. QED BY <1>1, <1>2 DEF SweepLock

\* A run is blocked: the pass leaves it alone.
LEMMA BlockKnows ==
  ASSUME ExecInv, IInv, Knowledge, InTouch, [ExecNext]_vars, StopsApart,
         NEW w \in Workers, clean[w].pc = "stop", NEW r, Block(w, r)
  PROVE  PassKnows(w)'
<1>t. clean \in [Workers -> Sweep] /\ clean[w] \in Sweep
  BY DEF ExecInv, ExecTypeOK
<1>c. PICK c : c = clean[w]
  OBVIOUS
<1>d. PICK d : d = clean'[w]
  OBVIOUS
<1> DEFINE B == {b \in clean[w].boxes : b[1] # r}
           H == clean[w].held \ {r}
<1>1. clean' = [clean EXCEPT ![w] = [clean[w] EXCEPT !.held = H, !.boxes = B]]
  BY DEF Block, SetSweep
<1>2. \A q \in H, i \in Steps : box[Engine[w]][q][i] = "running" => <<q, i>> \in B
  BY DEF Knowledge, PassKnows
<1>3. B \subseteq clean[w].boxes /\ H \subseteq clean[w].held
  OBVIOUS
<1> HIDE DEF B, H
<1>4. /\ d.pc = "stop" /\ d.todo = c.todo /\ d.quiet = c.quiet /\ d.dirs = c.dirs
      /\ d.boxes = B /\ d.held = H /\ d.conf = c.conf /\ d.seen = c.seen
  BY <1>c, <1>d, <1>t, <1>1 DEF Sweep
<1>. QED BY <1>c, <1>d, <1>2, <1>3, <1>4, PassNext

\* A container is stopped, its exit recorded, or it is removed.
LEMMA BoxKnows ==
  ASSUME ExecInv, IInv, Knowledge, InTouch, [ExecNext]_vars, StopsApart,
         NEW w \in Workers, SweepBox(w)
  PROVE  PassKnows(w)'
<1>t. clean \in [Workers -> Sweep] /\ clean[w] \in Sweep /\ Engine[w] \in Engines
  BY EngineTyped DEF ExecInv, ExecTypeOK
<1>c. PICK c : c = clean[w]
  OBVIOUS
<1>d. PICK d : d = clean'[w]
  OBVIOUS
<1>p. clean[w].pc = "stop"
  BY DEF SweepBox
<1>k. \A r \in c.held, i \in Steps : box[Engine[w]][r][i] = "running" => <<r, i>> \in c.boxes
  BY <1>c, <1>p DEF Knowledge, PassKnows
<1>b. PICK b \in clean[w].boxes :
        \/ UNCHANGED clean
        \/ Block(w, b[1])
        \/ /\ box[Engine[w]][b[1]][b[2]] \in Exited
           /\ ExitRecorded(b[1], b[2], box[Engine[w]][b[1]][b[2]])
           /\ SetSweep(w, [clean[w] EXCEPT !.seen = @ \cup {b}])
           /\ UNCHANGED host
        \/ /\ SetBox(w, b[1], b[2], "none")
           /\ SetSweep(w, [clean[w] EXCEPT !.boxes = @ \ {b}])
  BY DEF SweepBox, Call
<1>r. /\ b[1] \in Runs /\ b[2] \in Steps /\ b = <<b[1], b[2]>> /\ b[1] \in c.held
  BY <1>c, <1>t, <1>p DEF Sweep, ExecInv, HoldsLock
<1>r1. PICK r : r = b[1]
  OBVIOUS
<1>r2. PICK i : i = b[2]
  OBVIOUS
<1>1. CASE UNCHANGED clean
  BY <1>1, PassStands
<1>2. CASE Block(w, b[1])
  BY <1>2, <1>p, BlockKnows
<1>3. CASE /\ box[Engine[w]][r][i] \in Exited
           /\ ExitRecorded(r, i, box[Engine[w]][r][i])
           /\ SetSweep(w, [clean[w] EXCEPT !.seen = @ \cup {b}])
           /\ UNCHANGED host
  <2>1. /\ d.pc = "stop" /\ d.todo = c.todo /\ d.quiet = c.quiet /\ d.dirs = c.dirs
        /\ d.boxes = c.boxes /\ d.held = c.held /\ d.conf = c.conf /\ d.seen = c.seen \cup {b}
    BY <1>c, <1>d, <1>t, <1>p, <1>3 DEF SetSweep, Sweep
  <2>2. steps'[r][i].code # NoCode
    <3>1. CASE ReceiptKept(r, i, TRUE)
      BY <1>3, <3>1 DEF ReceiptKept, ExitRecorded, store
    <3>2. CASE ~ReceiptKept(r, i, TRUE)
      <4>1. PICK k : k = ExitCode(box[Engine[w]][r][i])
        OBVIOUS
      <4>2. \E st : steps' = [steps EXCEPT ![r][i].status = st, ![r][i].code = k]
        BY <1>3, <3>2, <4>1 DEF ExitRecorded, RecoverStepExit, Receipt
      <4>3. steps'[r][i].code = k
        BY <1>r, <1>r1, <1>r2, <4>2 DEF IInv, TypeOK, Step
      <4>. QED BY <4>1, <4>3 DEF ExitCode, NoCode
    <3>. QED BY <3>1, <3>2
  <2>3. box'[Engine[w]][r][i] # "running" /\ Recorded(Engine[w], r, i)'
    BY <1>3, <2>2, BoxStates DEF host, Recorded
  <2>4. \A x \in d.seen :
          \/ x \in c.seen
          \/ /\ x[1] \in c.held /\ box'[Engine[w]][x[1]][x[2]] # "running"
             /\ Recorded(Engine[w], x[1], x[2])'
    BY <1>r, <1>r1, <1>r2, <2>1, <2>3
  <2>. QED BY <1>c, <1>d, <1>k, <2>1, <2>4, PassNext
<1>4. CASE /\ SetBox(w, r, i, "none")
           /\ SetSweep(w, [clean[w] EXCEPT !.boxes = @ \ {b}])
  <2>1. /\ d.pc = "stop" /\ d.todo = c.todo /\ d.quiet = c.quiet /\ d.dirs = c.dirs
        /\ d.boxes = c.boxes \ {b} /\ d.held = c.held /\ d.conf = c.conf /\ d.seen = c.seen
    BY <1>c, <1>d, <1>t, <1>p, <1>4 DEF SetSweep, Sweep
  <2>2. box'[Engine[w]][r][i] # "running"
    BY <1>r, <1>r1, <1>r2, <1>t, <1>4, BoxSet
  <2>3. \A q \in d.held, j \in Steps :
          box[Engine[w]][q][j] = "running" /\ box'[Engine[w]][q][j] = "running" =>
            <<q, j>> \in d.boxes
    BY <1>k, <1>r, <1>r1, <1>r2, <2>1, <2>2
  <2>. QED BY <1>c, <1>d, <2>1, <2>3, PassNext
<1>. QED BY <1>b, <1>r1, <1>r2, <1>1, <1>2, <1>3, <1>4

\* Runs are confirmed stopped, then marked.
LEMMA ConfirmKnows ==
  ASSUME ExecInv, IInv, Knowledge, InTouch, [ExecNext]_vars, StopsApart,
         NEW w \in Workers, SweepConfirm(w)
  PROVE  PassKnows(w)'
<1>t. clean \in [Workers -> Sweep] /\ clean[w] \in Sweep
  BY DEF ExecInv, ExecTypeOK
<1>c. PICK c : c = clean[w]
  OBVIOUS
<1>d. PICK d : d = clean'[w]
  OBVIOUS
<1>p. clean[w].pc = "stop"
  BY DEF SweepConfirm
<1>k. \A r \in c.held, i \in Steps : box[Engine[w]][r][i] = "running" => <<r, i>> \in c.boxes
  BY <1>c, <1>p DEF Knowledge, PassKnows
<1>1. PICK r \in clean[w].held :
        \/ Block(w, r)
        \/ /\ ConfirmExecutionStopped(r)
           /\ SetSweep(w, [clean[w] EXCEPT !.conf = @ \cup {r}])
        \/ SetSweep(w, [clean[w] EXCEPT !.done = @ \cup {r}])
  BY DEF SweepConfirm, Call
<1>2. CASE Block(w, r)
  BY <1>2, <1>p, BlockKnows
<1>3. CASE /\ ConfirmExecutionStopped(r)
           /\ SetSweep(w, [clean[w] EXCEPT !.conf = @ \cup {r}])
  <2>1. /\ d.pc = "stop" /\ d.todo = c.todo /\ d.quiet = c.quiet /\ d.dirs = c.dirs
        /\ d.boxes = c.boxes /\ d.held = c.held /\ d.conf = c.conf \cup {r} /\ d.seen = c.seen
    BY <1>c, <1>d, <1>t, <1>p, <1>3 DEF SetSweep, Sweep
  <2>2. r \in Runs
    BY <1>t DEF Sweep
  <2>3. \A t \in Targets : targets'[t].owner[1] # r
    <3>1. targets' = Released({r})
      BY <1>3 DEF ConfirmExecutionStopped
    <3>. QED BY <2>2, <3>1 DEF Released, NoOwner, Runs, IInv, TypeOK, Target
  <2>4. d.conf \subseteq c.conf \cup c.held
    BY <1>c, <2>1
  <2>. QED BY <1>c, <1>d, <1>k, <2>1, <2>3, <2>4, PassNext
<1>4. CASE SetSweep(w, [clean[w] EXCEPT !.done = @ \cup {r}])
  <2>1. /\ d.pc = "stop" /\ d.todo = c.todo /\ d.quiet = c.quiet /\ d.dirs = c.dirs
        /\ d.boxes = c.boxes /\ d.held = c.held /\ d.conf = c.conf /\ d.seen = c.seen
    BY <1>c, <1>d, <1>t, <1>p, <1>4 DEF SetSweep, Sweep
  <2>. QED BY <1>c, <1>d, <1>k, <2>1, PassNext
<1>. QED BY <1>1, <1>2, <1>3, <1>4

\* Every pass goes on knowing.
LEMMA AllPasses ==
  ASSUME ExecInv, IInv, Knowledge, InTouch, [ExecNext]_vars, StopsApart, NEW w \in Workers
  PROVE  PassKnows(w)'
<1>t. clean \in [Workers -> Sweep]
  BY DEF ExecInv, ExecTypeOK
<1>1. CASE SweepNext(w)
  <2>1. SweepDirs(w) \/ SweepAbort(w) => clean'[w] = NoSweep
    BY <1>t DEF SweepDirs, SweepAbort, SetSweep
  <2>. QED BY <1>1, <2>1, PassOver, ListKnows, QueryKnows, LocksKnow, BoxKnows, ConfirmKnows
           DEF SweepNext
<1>2. CASE Exit(w) \/ Crash(w)
  <2>1. clean'[w] = NoSweep
    BY <1>2, <1>t DEF Exit, Crash, ProcessGone
  <2>. QED BY <2>1, PassOver
<1>3. CASE ~SweepNext(w) /\ ~Exit(w) /\ ~Crash(w)
  <2>1. clean'[w] = clean[w]
    <3>1. ASSUME NEW v \in Workers, SweepNext(v) PROVE clean'[w] = clean[w]
      <4>1. PICK s : clean' = [clean EXCEPT ![v] = s]
        BY <3>1, SweepSteps DEF CleanMoves, SweepMoves
      <4>2. v # w
        BY <1>3, <3>1
      <4>. QED BY <1>t, <4>1, <4>2
    <3>2. ASSUME NEW v \in Workers, Exit(v) \/ Crash(v) PROVE clean'[w] = clean[w]
      <4>1. v # w
        BY <1>3, <3>2
      <4>. QED BY <1>t, <3>2, <4>1 DEF Exit, Crash, ProcessGone
    <3>3. ASSUME NEW v \in Workers, Boot(v) \/ RecoverNext(v) \/ ExecuteNext(v)
          PROVE  clean'[w] = clean[w]
      BY <3>3, MainFrames DEF MainFrame
    <3>4. ASSUME NEW v \in Workers,
                 \/ BeatNext(v) \/ SignalNext(v) \/ Cut(v) \/ Shutdown(v) \/ DiskBudget(v)
                 \/ Release(v) \/ Heal(v) \/ Age(v)
          PROVE  clean'[w] = clean[w]
      BY <3>4 DEF BeatNext, Beat, Mature, Reap, SignalNext, Watch, Interrupt, Cut, Shutdown,
         DiskBudget, Release, Heal, Age, exec
    <3>5. ASSUME NEW r, CancelRun(r) \/ Deadline(r) PROVE clean'[w] = clean[w]
      BY <3>5 DEF CancelRun, Deadline, exec
    <3>6. ASSUME NEW e, NEW r, NEW i, ScriptExits(e, r, i) PROVE clean'[w] = clean[w]
      BY <3>6 DEF ScriptExits
    <3>7. Submit \/ UNCHANGED vars => clean'[w] = clean[w]
      BY DEF Submit, vars, exec
    <3>. QED BY <3>1, <3>2, <3>3, <3>4, <3>5, <3>6, <3>7 DEF ExecNext, MainNext, FaultNext
  <2>. QED BY <2>1, PassStands
<1>. QED BY <1>1, <1>2, <1>3

----------------------------------------------------------------------------
(* Knowledge, and what it means.                                           *)

LEMMA KnowledgeStep ==
  ExecInv /\ IInv /\ Knowledge /\ InTouch /\ [ExecNext]_vars /\ [StopsApart]_vars => Knowledge'
<1> SUFFICES ASSUME ExecInv, IInv, Knowledge, InTouch, [ExecNext]_vars, [StopsApart]_vars
             PROVE  Knowledge'
  OBVIOUS
<1>1. StopsApart
  <2>1. UNCHANGED vars => StopsApart
    <3>1. UNCHANGED vars => workers' = workers
      BY DEF vars, store
    <3>. QED BY <3>1 DEF StopsApart, Knowledge, RowsTrue
  <2>. QED BY <2>1
<1>2. RowsTrue'
  BY RowsStayTrue DEF Knowledge
<1>3. \A r \in Runs : Accounted(r)'
  BY AllAccounted
<1>4. \A w \in Workers : ExecutorKnows(w)' /\ RecoveryKnows(w)' /\ PassKnows(w)'
  BY <1>1, AllExecutors, AllRecoveries, AllPasses
<1>. QED BY <1>2, <1>3, <1>4 DEF Knowledge

\* Nobody knows anything yet.
LEMMA KnowledgeInit == ExecInit => Knowledge
<1> SUFFICES ASSUME ExecInit PROVE Knowledge
  OBVIOUS
<1>p. \A w \in Workers : proc[w].pc = "unborn" /\ clean[w] = NoSweep
  BY DEF ExecInit, Sleeping
<1>1. RowsTrue
  BY <1>p DEF RowsTrue, ExecInit, Init, Live, Dead, NoSteps, StepRow
<1>2. ASSUME NEW r \in Runs PROVE Accounted(r)
  <2>1. /\ \A e \in Engines : ~ws[e][r]
        /\ \A e \in Engines, i \in Steps : box[e][r][i] = "none"
    BY DEF ExecInit
  <2>2. \A t \in Targets, i \in Steps : targets[t].owner # <<r, i>>
    BY DEF ExecInit, Init, FreeTarget, NoOwner, Runs
  <2>. QED BY <2>1, <2>2, BoxStates DEF Accounted
<1>3. ASSUME NEW w \in Workers PROVE ExecutorKnows(w) /\ RecoveryKnows(w) /\ PassKnows(w)
  <2>1. ExecutorKnows(w)
    BY <1>p DEF ExecutorKnows, Busy, Claimed, Inside, Deploying
  <2>2. RecoveryKnows(w)
    BY <1>p DEF RecoveryKnows, Recovering
  <2>3. PassKnows(w)
    BY <1>p DEF PassKnows, NoSweep
  <2>. QED BY <2>1, <2>2, <2>3
<1>. QED BY <1>1, <1>2, <1>3 DEF Knowledge

\* The invariants that containers, rows and targets are held to.
LEMMA KnowledgeSafe ==
  ExecInv /\ IInv /\ Knowledge =>
    ScriptOwnsTarget /\ OwnedUntilRemoved /\ StartedRecorded /\ WorkspaceKept
<1> SUFFICES ASSUME ExecInv, IInv, Knowledge
             PROVE  ScriptOwnsTarget /\ OwnedUntilRemoved /\ StartedRecorded /\ WorkspaceKept
  OBVIOUS
<1>a. \A r \in Runs : Accounted(r)
  BY DEF Knowledge
<1>c. \A c \in Containers : c[1] \in Engines /\ c[2] \in Runs /\ c[3] \in Steps
  BY DEF Containers
<1>1. ASSUME NEW c \in Containers, Box(c) = "running", StepOf(c).kind = "deploy"
      PROVE  Owns(runs[c[2]].target, c[2], c[3])
  <2>0. PICK e \in Engines, r \in Runs, i \in Steps : e = c[1] /\ r = c[2] /\ i = c[3]
    BY <1>c
  <2>a. box[e][r][i] = "running" /\ steps[r][i].kind = "deploy"
    BY <1>1, <2>0 DEF Box, StepOf
  <2>b. \E t \in Targets : targets[t].owner = <<r, i>>
    BY <2>a, <1>a DEF Accounted
  <2>1. PICK t \in Targets : targets[t].owner = <<c[2], c[3]>>
    BY <2>0, <2>b
  <2>2. OwnerOK(t, c[2], c[3])
    BY <1>c, <2>1 DEF IInv, OwnerConsistent
  <2>. QED BY <2>1, <2>2 DEF OwnerOK, Owns
<1>2. OwnedUntilRemoved
  BY <1>a DEF OwnedUntilRemoved, Accounted
<1>3. StartedRecorded
  BY <1>a, <1>c, BoxStates DEF StartedRecorded, Accounted, Box, StepOf, Unremoved
<1>4. WorkspaceKept
  BY <1>a, <1>c DEF WorkspaceKept, Accounted, Box
<1>. QED BY <1>1, <1>2, <1>3, <1>4 DEF ScriptOwnsTarget

\* Who removes an exited container knows that its exit is recorded.
LEMMA RemovalRecorded ==
  ASSUME ExecInv, IInv, Knowledge, NEW w \in Workers,
         RecoverNext(w) \/ ExecuteNext(w) \/ SweepNext(w),
         NEW e \in Engines, NEW r \in Runs, NEW i \in Steps,
         box[e][r][i] \in Exited, box'[e][r][i] = "none"
  PROVE  \/ steps[r][i].code # NoCode
         \/ At(w, "cleanup") /\ Mine(w) = r /\ CurrentStep(w) = i
<1>x. box[e][r][i] # "none" /\ ~UNCHANGED box
  BY BoxStates
<1>t. proc \in [Workers -> Process] /\ clean \in [Workers -> Sweep]
  BY DEF ExecInv, ExecTypeOK
<1>s. ASSUME NEW q \in Runs, NEW j \in Steps, NEW s, SetBox(w, q, j, s)
      PROVE  e = Engine[w] /\ q = r /\ j = i /\ s = "none"
  BY <1>x, <1>s, BoxSet, EngineTyped
<1>q. PICK q : q = Mine(w)
  OBVIOUS
<1>j. PICK j : j = CurrentStep(w)
  OBVIOUS
<1>1. CASE RecoverNext(w)
  <2>1. PICK k \in proc[w].todo :
          /\ proc[w].pc \in {"rstop", "rremove"}
          /\ \/ proc[w].pc = "rstop" /\ SetBox(w, q, k, "exited1")
             \/ proc[w].pc = "rremove" /\ SetBox(w, q, k, "none")
    <3>1. RecoverBox(w) \/ RecoverRemove(w)
      BY <1>1, <1>x DEF RecoverNext, Survey, RecoverLock, RecoverStopped, RecoverFinish,
         RecoverSweep, RecoverAbort, Back, Call, Go, host
    <3>. QED BY <1>q, <1>x, <3>1 DEF RecoverBox, RecoverRemove, Call, Back, Go, host, At
  <2>2. q \in Runs /\ k \in Steps
    BY <1>q, <1>t, <2>1, StandsOn DEF Process, Recovering
  <2>3. proc[w].pc = "rremove" /\ e = Engine[w] /\ q = r /\ k = i
    BY <1>s, <2>1, <2>2
  <2>4. Recorded(Engine[w], q, k)
    BY <1>q, <2>1, <2>3 DEF Knowledge, RecoveryKnows, Recovering
  <2>. QED BY <2>3, <2>4 DEF Recorded
<1>2. CASE ExecuteNext(w)
  <2>1. \/ Create(w) /\ \E s : SetBox(w, q, j, s)
        \/ StartBox(w) /\ SetBox(w, q, j, "running")
        \/ At(w, "cleanup") /\ SetBox(w, q, j, "none")
        \/ At(w, "rm") /\ SetBox(w, q, j, "none")
    <3>1. Create(w) \/ StartBox(w) \/ Cleanup(w) \/ RemoveBox(w)
      BY <1>2, <1>x DEF ExecuteNext, Claim, ClaimNothing, Enter, RecoveryRequired, Fetch, StartStep,
         PlanBox, Begin, Created, NotRecorded, Wait, Record, Removed, FinishRun, SweepRun, Back,
         Leave, Return, Call, RunCall, Go, host
    <3>. QED BY <1>q, <1>j, <1>x, <3>1 DEF Create, StartBox, Cleanup, RemoveBox, RecoveryRequired,
             Back
  <2>2. q \in Runs /\ j \in Steps
    BY <1>q, <1>j, <2>1, StandsOn DEF Create, StartBox, At, Stepping, Claimed, Inside
  <2>3. e = Engine[w] /\ q = r /\ j = i /\ ~SetBox(w, q, j, "running")
    BY <1>s, <2>1, <2>2
  <2>4. ~Create(w)
    <3>1. ASSUME Create(w) PROVE FALSE
      <4>1. proc[w].pc = "create" /\ Rising(w)
        BY <3>1 DEF Create, At, Rising
      <4>2. box[Engine[w]][q][j] = "none"
        BY <1>q, <1>j, <4>1, <2>2 DEF Knowledge, ExecutorKnows, Busy, Holding, Claimed, Inside
      <4>. QED BY <1>x, <2>3, <4>2
    <3>. QED BY <3>1
  <2>5. At(w, "rm") => steps[r][i].code # NoCode
    <3>1. \/ proc[w].pc # "rm" \/ box[Engine[w]][q][j] = "none"
          \/ steps[q][j].code # NoCode
      BY <1>q, <1>j DEF Knowledge, ExecutorKnows
    <3>. QED BY <1>x, <2>3, <3>1 DEF At
  <2>. QED BY <1>q, <1>j, <2>1, <2>3, <2>4, <2>5
<1>3. CASE SweepNext(w)
  <2>1. SweepBox(w)
    BY <1>3, <1>x DEF SweepNext, SweepList, SweepQuery, SweepLock, SweepConfirm, SweepDirs,
       SweepAbort, host
  <2>2. PICK b \in clean[w].boxes :
          \/ SetBox(w, b[1], b[2], "exited1")
          \/ /\ Halted(box[Engine[w]][b[1]][b[2]]) \/ b \in clean[w].seen
             /\ SetBox(w, b[1], b[2], "none")
    BY <1>x, <2>1 DEF SweepBox, host
  <2>3. b[1] \in Runs /\ b[2] \in Steps
    BY <1>t DEF Sweep
  <2>4. e = Engine[w] /\ b[1] = r /\ b[2] = i /\ SetBox(w, b[1], b[2], "none")
    BY <1>s, <2>2, <2>3
  <2>5. b \in clean[w].seen
    BY <1>s, <2>2, <2>3, <2>4, BoxStates DEF Halted
  <2>6. Recorded(Engine[w], b[1], b[2])
    BY <2>5 DEF Knowledge, PassKnows
  <2>. QED BY <2>4, <2>6 DEF Recorded
<1>. QED BY <1>1, <1>2, <1>3

LEMMA ExitStep == ExecInv /\ IInv /\ Knowledge /\ [ExecNext]_vars => ExitKept
<1> SUFFICES ASSUME ExecInv, IInv, Knowledge, [ExecNext]_vars, NEW c \in Containers,
                    Box(c) \in Exited, box'[c[1]][c[2]][c[3]] = "none"
             PROVE  StepOf(c).code = ExitCode(Box(c)) \/ GivenUp(c)
  BY DEF ExitKept
<1>e. PICK e \in Engines, r \in Runs, i \in Steps : e = c[1] /\ r = c[2] /\ i = c[3]
  BY DEF Containers
<1>b. box[e][r][i] \in Exited /\ box'[e][r][i] = "none" /\ box'[e][r][i] # box[e][r][i]
  BY <1>e, BoxStates DEF Box
<1>1. \E w \in Workers : RecoverNext(w) \/ ExecuteNext(w) \/ SweepNext(w)
  <2>1. SUFFICES ASSUME \A w \in Workers : ~RecoverNext(w) /\ ~ExecuteNext(w) /\ ~SweepNext(w)
                 PROVE  Same(r) \/ \E d \in Engines, q \in Runs, j \in Steps : ScriptExits(d, q, j)
    <3>1. ~Same(r)
      BY <1>b DEF Same, HostAside
    <3>2. ASSUME NEW d \in Engines, NEW q \in Runs, NEW j \in Steps, ScriptExits(d, q, j)
          PROVE  FALSE
      <4>1. PICK s \in Exited : box' = [box EXCEPT ![d][q][j] = s]
        BY <3>2 DEF ScriptExits
      <4>. QED BY <1>b, <4>1, BoxStates DEF ExecInv, ExecTypeOK
    <3>. QED BY <2>1, <3>1, <3>2
  <2>2. ASSUME NEW w \in Workers, Bystander(w) PROVE Same(r)
    BY <2>2, BystanderSame
  <2>3. ASSUME NEW w \in Workers, Reap(w) \/ Release(w) PROVE Same(r) \/ UNCHANGED box
    BY <2>3 DEF Reap, Release, exec, host
  <2>. QED BY <2>1, <2>2, <2>3, <1>b, WorldSame, RunAside
       DEF ExecNext, MainNext, BeatNext, FaultNext, Bystander, vars, exec, Same, HostAside
<1>2. \/ steps[r][i].code # NoCode
      \/ \E w \in Workers : At(w, "cleanup") /\ Mine(w) = r /\ CurrentStep(w) = i
  BY <1>1, <1>b, RemovalRecorded
<1>3. steps[r][i].code \in {NoCode, ExitCode(box[e][r][i])}
  BY <1>b DEF Knowledge, Accounted
<1>. QED BY <1>e, <1>2, <1>3 DEF GivenUp, StepOf, Box

----------------------------------------------------------------------------
(* Where the two conditions hold by themselves.                            *)

\* Nothing the main loop does of itself tells its process to stop.
LEMMA QuitKept ==
  ASSUME ExecInv, NEW w \in Workers, RecoverNext(w) \/ ExecuteNext(w)
  PROVE  proc'[w].quit = proc[w].quit
<1> DEFINE Kept == proc'[w].quit = proc[w].quit
<1>t. proc \in [Workers -> Process] /\ proc[w] \in Process
  BY DEF ExecInv, ExecTypeOK
<1>s. UNCHANGED proc => Kept
  OBVIOUS
<1>b. \A pc : proc' = [proc EXCEPT ![w] = Sleeping(pc, proc[w].quit)] => Kept
  BY <1>t DEF Sleeping
<1>b2. Back(w) \/ RecoveryRequired(w) => Kept
  BY <1>b DEF Back, RecoveryRequired
<1>l. \A o : Leave(w, o) => Kept
  BY <1>t DEF Leave, Process
<1>r. \A x, o : Return(w, x, o) => Kept
  BY <1>t DEF Return, Go, Process
<1>g. \A pc : Go(w, [proc[w] EXCEPT !.pc = pc]) \/ proc' = [proc EXCEPT ![w].pc = pc] => Kept
  BY <1>t DEF Go, Process
<1>h. \A i : Go(w, Handled(w, i)) => Kept
  BY <1>t DEF Go, Handled, Process
<1>1. CASE RecoverNext(w)
  <2>1. Survey(w) => Kept
    BY <1>t DEF Survey, Go, Process
  <2>2. ASSUME RecoverLock(w) PROVE Kept
    <3>1. SUFFICES ASSUME ~Back(w) PROVE Kept
      BY <1>b2
    <3>2. PICK d \in proc[w].list :
            proc' = [proc EXCEPT ![w].pc = "rstop", ![w].list = @ \ {d}, ![w].run = d.run,
                                 ![w].todo = d.boxes, ![w].all = d.boxes]
      BY <2>2, <3>1 DEF RecoverLock
    <3>3. PICK r, T : r = d.run /\ T = d.boxes
      OBVIOUS
    <3>4. proc' = [proc EXCEPT ![w].pc = "rstop", ![w].list = @ \ {d}, ![w].run = r,
                               ![w].todo = T, ![w].all = T]
      BY <3>2, <3>3
    <3>. QED BY <1>t, <3>4 DEF Process
  <2>3. RecoverBox(w) => Kept
    BY <1>s, <1>h, <1>b2 DEF RecoverBox, Call
  <2>4. RecoverStopped(w) => Kept
    BY <1>g, <1>b2 DEF RecoverStopped, Call
  <2>5. ASSUME RecoverFinish(w) PROVE Kept
    <3>1. Back(w) \/ Go(w, [proc[w] EXCEPT !.pc = "rremove", !.todo = proc[w].all])
      BY <2>5 DEF RecoverFinish, Call
    <3>. QED BY <1>t, <1>b2, <3>1 DEF Go, Process
  <2>6. RecoverRemove(w) => Kept
    BY <1>s, <1>h, <1>b2 DEF RecoverRemove, Call
  <2>7. ASSUME RecoverSweep(w) PROVE Kept
    <3>1. \/ proc' = [proc EXCEPT ![w].pc = "recover", ![w].run = NoRun, ![w].all = {}]
          \/ proc' = [proc EXCEPT ![w] = Sleeping("ready", proc[w].quit)]
      BY <2>7 DEF RecoverSweep
    <3>. QED BY <1>t, <1>b, <3>1 DEF Process
  <2>8. RecoverAbort(w) => Kept
    BY <1>b2 DEF RecoverAbort
  <2>. QED BY <1>1, <2>1, <2>2, <2>3, <2>4, <2>5, <2>6, <2>7, <2>8 DEF RecoverNext
<1>2. CASE ExecuteNext(w)
  <2>1. ASSUME Claim(w) PROVE Kept
    <3>1. PICK r : \/ Back(w)
                   \/ Go(w, [proc[w] EXCEPT !.pc = "claimed", !.run = r, !.todo = PendingSteps(r)])
      BY <2>1 DEF Claim, Call
    <3>. QED BY <1>t, <1>b2, <3>1 DEF Go, Process
  <2>2. ClaimNothing(w) \/ Enter(w) => Kept
    BY <1>b2, <1>g DEF ClaimNothing, Enter
  <2>3. ASSUME Fetch(w) PROVE Kept
    <3>1. \/ proc' = [proc EXCEPT ![w].pc = "next"]
          \/ \E o : proc' = [proc EXCEPT ![w].pc = "finish", ![w].out = o]
      BY <2>3 DEF Fetch
    <3>. QED BY <1>t, <1>g, <3>1 DEF Process
  <2>4. StartStep(w) => Kept
    BY <1>g, <1>l DEF StartStep, Call
  <2>5. PlanBox(w) \/ Begin(w) => Kept
    BY <1>g, <1>r DEF PlanBox, Begin, RunCall, Call
  <2>6. Created(w) => Kept
    BY <1>g DEF Created, NotRecorded, RunCall, Call
  <2>7. Create(w) \/ StartBox(w) => Kept
    BY <1>g DEF Create, StartBox
  <2>8. Wait(w) => Kept
    BY <1>g, <1>r DEF Wait
  <2>9. ASSUME Cleanup(w) PROVE Kept
    <3>1. \/ RecoveryRequired(w)
          \/ \E o, x : proc' = [proc EXCEPT ![w].pc = "receipt", ![w].out = o, ![w].x = x]
      BY <2>9 DEF Cleanup
    <3>2. ASSUME NEW o, NEW x,
                 proc' = [proc EXCEPT ![w].pc = "receipt", ![w].out = o, ![w].x = x]
          PROVE  Kept
      BY <1>t, <3>2 DEF Process
    <3>. QED BY <1>b2, <3>1, <3>2
  <2>10. Record(w) => Kept
    BY <1>g, <1>b2 DEF Record, Call
  <2>11. RemoveBox(w) => Kept
    BY <1>g, <1>b2 DEF RemoveBox
  <2>12. ASSUME Removed(w) PROVE Kept
    <3>1. \/ RecoveryRequired(w) \/ \E o : Leave(w, o)
          \/ \E T : Go(w, [proc[w] EXCEPT !.pc = "next", !.todo = T, !.x = NoResult])
      BY <2>12 DEF Removed, Call
    <3>. QED BY <1>t, <1>b2, <1>l, <3>1 DEF Go, Process
  <2>13. FinishRun(w) => Kept
    BY <1>g, <1>b2 DEF FinishRun, Call
  <2>14. SweepRun(w) => Kept
    BY <1>b DEF SweepRun
  <2>. QED BY <1>2, <2>1, <2>2, <2>3, <2>4, <2>5, <2>6, <2>7, <2>8, <2>9, <2>10, <2>11, <2>12,
              <2>13, <2>14 DEF ExecuteNext
<1>. QED BY <1>1, <1>2

\* In a sheltered system every process reaches the database, those told to stop
\* are frail ones, and those in a cleanup pass are cleaners.
Calm ==
  \A w \in Workers :
     /\ ~link[w].cut
     /\ proc[w].quit => w \in Frail /\ "shutdown" \in Faults
     /\ clean[w].pc # "idle" => w \in Cleaners

LEMMA CalmKeeps ==
  ASSUME Sheltered, ExecInv, IInv, Calm, [ExecNext]_vars
  PROVE  Calm'
<1>t. /\ proc \in [Workers -> Process] /\ clean \in [Workers -> Sweep]
      /\ link \in [Workers -> [cut : BOOLEAN, healthy : BOOLEAN]]
  BY DEF ExecInv, ExecTypeOK
<1> SUFFICES ASSUME NEW w \in Workers
             PROVE  /\ ~link'[w].cut
                    /\ proc'[w].quit => w \in Frail /\ "shutdown" \in Faults
                    /\ clean'[w].pc # "idle" => w \in Cleaners
  BY DEF Calm
<1>q. /\ ~link[w].cut
      /\ proc[w].quit => w \in Frail /\ "shutdown" \in Faults
      /\ clean[w].pc # "idle" => w \in Cleaners
  BY DEF Calm
<1> DEFINE OK == /\ ~link'[w].cut
                 /\ proc'[w].quit => w \in Frail /\ "shutdown" \in Faults
                 /\ clean'[w].pc # "idle" => w \in Cleaners
<1>s. UNCHANGED <<proc, clean, link>> => OK
  BY <1>q
<1>1. ASSUME NEW v \in Workers, Boot(v) \/ RecoverNext(v) \/ ExecuteNext(v) PROVE OK
  <2>1. UNCHANGED <<clean, link>>
    BY <1>1, MainFrames DEF MainFrame
  <2>2. CASE Boot(v)
    BY <1>q, <1>t, <2>1, <2>2 DEF Boot, Go, Sleeping
  <2>3. CASE RecoverNext(v) \/ ExecuteNext(v)
    <3>1. MainMoves(v)
      BY <2>3, RecoverMoves, ExecuteMoves
    <3>2. PICK p : proc' = [proc EXCEPT ![v] = p]
      BY <3>1 DEF MainMoves, Moves
    <3>3. proc'[w].quit = proc[w].quit
      BY <1>t, <2>3, <3>2, QuitKept
    <3>. QED BY <1>q, <2>1, <3>3
  <2>. QED BY <1>1, <2>2, <2>3
<1>2. ASSUME NEW v \in Workers, Exit(v) \/ Crash(v) PROVE OK
  <2>1. ProcessGone(v)
    BY <1>2 DEF Exit, Crash
  <2>. QED BY <1>q, <1>t, <2>1 DEF ProcessGone, Sleeping, NoSweep
<1>3. ASSUME NEW v \in Workers, SweepNext(v) PROVE OK
  <2>1. UNCHANGED <<proc, link>> /\ \E c : clean' = [clean EXCEPT ![v] = c]
    BY <1>3, SweepSteps DEF SweepFrame, CleanMoves, SweepMoves
  <2>2. v \in Cleaners
    <3>1. SweepList(v) \/ clean[v].pc # "idle"
      BY <1>3 DEF SweepNext, SweepQuery, SweepLock, SweepBox, SweepConfirm, SweepDirs, SweepAbort
    <3>. QED BY <3>1 DEF Calm, SweepList
  <2>. QED BY <1>q, <1>t, <2>1, <2>2
<1>4. ASSUME NEW v \in Workers, v \in Frail, Shutdown(v) PROVE OK
  <2>1. UNCHANGED <<clean, link>> /\ proc' = [proc EXCEPT ![v].quit = TRUE] /\ "shutdown" \in Faults
    BY <1>4 DEF Shutdown, Fault
  <2>2. w # v => proc'[w] = proc[w]
    BY <1>t, <2>1
  <2>. QED BY <1>4, <1>q, <2>1, <2>2
<1>5. ASSUME NEW v \in Workers, SignalNext(v) \/ DiskBudget(v) PROVE OK
  <2>1. UNCHANGED <<clean, link>> /\ \E s : proc' = [proc EXCEPT ![v].stop = s]
    BY <1>5 DEF SignalNext, Watch, Interrupt, DiskBudget
  <2>2. proc'[w].quit = proc[w].quit
    BY <1>t, <2>1 DEF Process
  <2>. QED BY <1>q, <2>1, <2>2
<1>6. ASSUME NEW v \in Workers, Mature(v) \/ Heal(v) PROVE OK
  <2>1. /\ UNCHANGED <<proc, clean>>
        /\ \/ link' = [link EXCEPT ![v].healthy = TRUE]
           \/ link' = [link EXCEPT ![v].cut = FALSE]
    BY <1>6 DEF Mature, Heal
  <2>. QED BY <1>q, <1>t, <2>1
<1>7. ASSUME NEW v \in Workers, Beat(v) \/ Reap(v) \/ Release(v) \/ Age(v) PROVE OK
  BY <1>7, <1>s DEF Beat, Reap, Release, Age, exec
<1>8. ASSUME NEW v \in Workers, Cut(v) PROVE FALSE
  BY <1>8 DEF Cut, Fault, Sheltered
<1>9. ASSUME NEW r, CancelRun(r) \/ Deadline(r) PROVE OK
  BY <1>9, <1>s DEF CancelRun, Deadline, exec
<1>10. ASSUME NEW e, NEW r, NEW i, ScriptExits(e, r, i) PROVE OK
  BY <1>10, <1>s DEF ScriptExits
<1>11. Submit \/ UNCHANGED vars => OK
  BY <1>s DEF Submit, vars, exec
<1>. QED BY <1>1, <1>2, <1>3, <1>4, <1>5, <1>6, <1>7, <1>8, <1>9, <1>10, <1>11
         DEF ExecNext, MainNext, BeatNext, FaultNext

LEMMA InTouchKeeps ==
  ASSUME Sheltered, ExecInv, IInv, Calm, RowsTrue, InTouch, [ExecNext]_vars
  PROVE  InTouch'
<1> SUFFICES ASSUME NEW w \in Workers, Live(w)' PROVE workers'[w].beat = "fresh"
  BY DEF InTouch
<1>t. workers \in [Workers -> Worker]
  BY DEF IInv, TypeOK
<1>1. workers[w].beat = "fresh"
  <2>1. Live(w) \/ proc[w].pc = "unborn"
    <3>1. proc[w].pc # "dead"
      BY DeadStays DEF Live, Dead
    <3>. QED BY <3>1 DEF Live, Dead
  <2>. QED BY <2>1 DEF InTouch, RowsTrue
<1>2. ASSUME NEW v \in Workers, Age(v), BeatAges(v) PROVE v # w
  <2>1. ~Live(v)
    BY <1>2 DEF Age, Calm
  <2>2. proc[v].pc # "unborn"
    BY <1>2 DEF BeatAges, RowsTrue
  <2>3. proc[v].pc = "dead"
    BY <2>1, <2>2 DEF Live, Dead
  <2>. QED BY <2>3, DeadStays DEF Live, Dead
<1>3. ASSUME NEW v \in Workers, RegisterWorker(v) \/ Heartbeat(v) PROVE workers'[w].beat = "fresh"
  BY <1>t, <1>1, <1>3 DEF RegisterWorker, Heartbeat, SetWorker
<1>4. ASSUME NEW v \in Workers, StopWorker(v) PROVE workers'[w].beat = "fresh"
  BY <1>t, <1>1, <1>4 DEF StopWorker, SetWorker
<1>5. ASSUME NEW v \in Workers, ReleaseLostWorker(v, Runs) PROVE workers'[w].beat = "fresh"
  BY <1>t, <1>1, <1>5 DEF ReleaseLostWorker, Worker
<1>6. ASSUME NEW v \in Workers, v # w, BeatAges(v) PROVE workers'[w].beat = "fresh"
  BY <1>t, <1>1, <1>6 DEF BeatAges, SetWorker
<1>. QED BY <1>1, <1>2, <1>3, <1>4, <1>5, <1>6, WorkerSteps

LEMMA ShelteredStops ==
  ASSUME Sheltered, ExecInv, IInv, Calm, RowsTrue, [ExecNext]_vars
  PROVE  StopsApart
<1> SUFFICES ASSUME NEW v \in Workers, NEW w \in Workers, Live(v), workers'[v].row = "stopped",
                    v # w, Engine[v] = Engine[w], clean[w].pc # "idle"
             PROVE  FALSE
  BY DEF StopsApart
<1>t. workers \in [Workers -> Worker]
  BY DEF IInv, TypeOK
<1>1. workers[v].row = "up"
  BY DEF RowsTrue
<1>2. ~Exit(v)
  <2>1. w \in Cleaners /\ (proc[v].quit => v \in Frail /\ "shutdown" \in Faults)
    BY DEF Calm
  <2>. QED BY <2>1 DEF Exit, Sheltered
<1>3. ASSUME NEW x \in Workers, RegisterWorker(x) \/ Heartbeat(x) \/ BeatAges(x) PROVE FALSE
  BY <1>t, <1>1, <1>3 DEF RegisterWorker, Heartbeat, BeatAges, SetWorker
<1>4. ASSUME NEW x \in Workers, x # v, StopWorker(x) \/ ReleaseLostWorker(x, Runs) PROVE FALSE
  BY <1>t, <1>1, <1>4 DEF StopWorker, ReleaseLostWorker, SetWorker
<1>5. ~Release(v)
  BY DEF Release, At, Live, Dead
<1>. QED BY <1>1, <1>2, <1>3, <1>4, <1>5, WorkerSteps

----------------------------------------------------------------------------
(* What holds whoever is cut off.                                          *)

\* How the main loop changes the containers of the run it is at.
LEMMA MainSets ==
  ASSUME ExecInv, NEW w \in Workers, Boot(w) \/ RecoverNext(w) \/ ExecuteNext(w)
  PROVE  \/ UNCHANGED box
         \/ /\ Mine(w) \in Runs
            /\ \E i \in Steps, s \in BoxState :
                 /\ SetBox(w, Mine(w), i, s)
                 /\ \/ s = "none"
                    \/ box[Engine[w]][Mine(w)][i] = "running" /\ s \in Exited
                    \/ /\ i = CurrentStep(w) /\ proc[w].pc \in Claimed
                       /\ \/ proc[w].pc = "create" /\ s = "created"
                          \/ proc[w].pc = "start" /\ s = "running"
<1>t. /\ proc[w].todo \subseteq Steps
      /\ proc[w].pc \in Stepping => CurrentStep(w) \in Steps
      /\ proc[w].pc \in Claimed \cup Recovering => Mine(w) \in Runs
  BY StandsOn, ProcTyped DEF Process
<1>s. {"none", "created", "running", "exited1"} \subseteq BoxState /\ "exited1" \in Exited
  BY DEF BoxState, Exited
<1>1. CASE Boot(w)
  BY <1>1 DEF Boot, Go, host
<1>2. CASE RecoverNext(w)
  <2>1. CASE RecoverBox(w)
    <3>1. proc[w].pc \in Recovering
      BY <2>1 DEF RecoverBox, At, Recovering
    <3>2. PICK i \in proc[w].todo :
            \/ UNCHANGED box
            \/ box[Engine[w]][Mine(w)][i] = "running" /\ SetBox(w, Mine(w), i, "exited1")
      BY <2>1 DEF RecoverBox, Call, Go, Back, host
    <3>. QED BY <1>t, <1>s, <3>1, <3>2
  <2>2. CASE RecoverRemove(w)
    <3>1. proc[w].pc \in Recovering
      BY <2>2 DEF RecoverRemove, At, Recovering
    <3>2. PICK i \in proc[w].todo : UNCHANGED box \/ SetBox(w, Mine(w), i, "none")
      BY <2>2 DEF RecoverRemove, Call, Go, Back, host
    <3>. QED BY <1>t, <1>s, <3>1, <3>2
  <2>3. ASSUME \/ Survey(w) \/ RecoverLock(w) \/ RecoverStopped(w) \/ RecoverFinish(w)
               \/ RecoverSweep(w) \/ RecoverAbort(w)
        PROVE  UNCHANGED box
    BY <2>3 DEF Survey, RecoverLock, RecoverStopped, RecoverFinish, RecoverSweep, RecoverAbort,
       Call, Go, Back, host
  <2>. QED BY <1>2, <2>1, <2>2, <2>3 DEF RecoverNext
<1>3. CASE ExecuteNext(w)
  <2>. USE DEF RecoveryRequired, Call, RunCall, Go, Back, Leave, Return, NotRecorded, host
  <2>1. CASE Create(w) \/ StartBox(w) \/ Cleanup(w) \/ RemoveBox(w)
    <3>1. proc[w].pc \in Stepping /\ proc[w].pc \in Claimed
      BY <2>1 DEF Create, StartBox, Cleanup, RemoveBox, At, Stepping, Claimed, Inside
    <3>2. \/ UNCHANGED box
          \/ SetBox(w, Mine(w), CurrentStep(w), "none")
          \/ proc[w].pc = "create" /\ SetBox(w, Mine(w), CurrentStep(w), "created")
          \/ proc[w].pc = "start" /\ SetBox(w, Mine(w), CurrentStep(w), "running")
      BY <2>1 DEF Create, StartBox, Cleanup, RemoveBox, At
    <3>. QED BY <1>t, <1>s, <3>1, <3>2
  <2>2. ASSUME \/ Claim(w) \/ ClaimNothing(w) \/ Enter(w) \/ Fetch(w) \/ StartStep(w) \/ PlanBox(w)
               \/ Begin(w) \/ Created(w)
        PROVE  UNCHANGED box
    BY <2>2 DEF Claim, ClaimNothing, Enter, Fetch, StartStep, PlanBox, Begin, Created
  <2>3. ASSUME Wait(w) \/ Record(w) \/ Removed(w) \/ FinishRun(w) \/ SweepRun(w)
        PROVE  UNCHANGED box
    BY <2>3 DEF Wait, Record, Removed, FinishRun, SweepRun
  <2>. QED BY <1>3, <2>1, <2>2, <2>3 DEF ExecuteNext
<1>. QED BY <1>1, <1>2, <1>3

\* How a cleanup pass does.
LEMMA SweepSets ==
  ASSUME ExecInv, NEW w \in Workers, SweepNext(w)
  PROVE  \/ UNCHANGED box
         \/ \E r \in Runs, i \in Steps, s \in BoxState :
              /\ SetBox(w, r, i, s)
              /\ s = "none" \/ (box[Engine[w]][r][i] = "running" /\ s \in Exited)
<1>s. {"none", "exited1"} \subseteq BoxState /\ "exited1" \in Exited
  BY DEF BoxState, Exited
<1>1. CASE SweepBox(w)
  <2>1. PICK b \in clean[w].boxes :
          \/ UNCHANGED box
          \/ SetBox(w, b[1], b[2], "none")
          \/ box[Engine[w]][b[1]][b[2]] = "running" /\ SetBox(w, b[1], b[2], "exited1")
    BY <1>1 DEF SweepBox, host
  <2>2. b[1] \in Runs /\ b[2] \in Steps
    BY DEF ExecInv, ExecTypeOK, Sweep
  <2>. QED BY <1>s, <2>1, <2>2
<1>2. ASSUME \/ SweepList(w) \/ SweepQuery(w) \/ SweepLock(w) \/ SweepConfirm(w) \/ SweepDirs(w)
             \/ SweepAbort(w)
      PROVE  UNCHANGED box
  BY <1>2 DEF SweepList, SweepQuery, SweepLock, SweepConfirm, SweepDirs, SweepAbort, host
<1>. QED BY <1>1, <1>2 DEF SweepNext

\* So a container stays, exits or goes, or the executor of its step creates or
\* starts it.
LEMMA BoxSteps ==
  ASSUME ExecInv, [ExecNext]_vars, NEW e \in Engines, NEW r \in Runs, NEW i \in Steps
  PROVE  LET a == box[e][r][i]
             b == box'[e][r][i]
         IN \/ b = a \/ b = "none"
            \/ a = "running" /\ b \in Exited
            \/ \E w \in Workers :
                 /\ e = Engine[w] /\ r = Mine(w) /\ i = CurrentStep(w) /\ proc[w].pc \in Claimed
                 /\ \/ proc[w].pc = "create" /\ b = "created"
                    \/ proc[w].pc = "start" /\ b = "running"
<1> DEFINE a == box[e][r][i]
           b == box'[e][r][i]
           Put(w) == /\ e = Engine[w] /\ r = Mine(w) /\ i = CurrentStep(w) /\ proc[w].pc \in Claimed
                     /\ \/ proc[w].pc = "create" /\ b = "created"
                        \/ proc[w].pc = "start" /\ b = "running"
           Good == b = a \/ b = "none" \/ (a = "running" /\ b \in Exited) \/ \E w \in Workers : Put(w)
<1>t. BoxesTyped
  BY DEF ExecInv, ExecTypeOK, BoxesTyped
<1>u. UNCHANGED box => Good
  OBVIOUS
<1>1. ASSUME NEW w \in Workers, Boot(w) \/ RecoverNext(w) \/ ExecuteNext(w) PROVE Good
  <2>1. CASE UNCHANGED box
    BY <2>1
  <2>2. ASSUME NEW j \in Steps, NEW s \in BoxState, Mine(w) \in Runs, SetBox(w, Mine(w), j, s),
               \/ s = "none"
               \/ box[Engine[w]][Mine(w)][j] = "running" /\ s \in Exited
               \/ /\ j = CurrentStep(w) /\ proc[w].pc \in Claimed
                  /\ \/ proc[w].pc = "create" /\ s = "created"
                     \/ proc[w].pc = "start" /\ s = "running"
        PROVE  Good
    <3>1. b = IF e = Engine[w] /\ r = Mine(w) /\ i = j THEN s ELSE a
      BY <2>2, BoxSet
    <3>2. CASE e = Engine[w] /\ r = Mine(w) /\ i = j
      BY <2>2, <3>1, <3>2
    <3>3. CASE ~(e = Engine[w] /\ r = Mine(w) /\ i = j)
      BY <3>1, <3>3
    <3>. QED BY <3>2, <3>3
  <2>. QED BY <1>1, <2>1, <2>2, MainSets
<1>2. ASSUME NEW w \in Workers, SweepNext(w) PROVE Good
  <2>1. CASE UNCHANGED box
    BY <2>1
  <2>2. ASSUME NEW q \in Runs, NEW j \in Steps, NEW s \in BoxState, SetBox(w, q, j, s),
               s = "none" \/ (box[Engine[w]][q][j] = "running" /\ s \in Exited)
        PROVE  Good
    <3>1. b = IF e = Engine[w] /\ r = q /\ i = j THEN s ELSE a
      BY <2>2, BoxSet
    <3>. QED BY <2>2, <3>1
  <2>. QED BY <1>2, <2>1, <2>2, SweepSets
<1>3. ASSUME NEW w \in Workers, \/ Exit(w) \/ BeatNext(w) \/ SignalNext(w) \/ FaultNext(w)
                                \/ Heal(w) \/ Age(w)
      PROVE  UNCHANGED box
  BY <1>3 DEF Exit, ProcessGone, BeatNext, Beat, Mature, Reap, SignalNext, Watch, Interrupt,
     FaultNext, Cut, Crash, Shutdown, DiskBudget, Release, Heal, Age, host, exec
<1>4. ASSUME NEW q \in Runs, CancelRun(q) \/ Deadline(q)
      PROVE  UNCHANGED box
  BY <1>4 DEF CancelRun, Deadline, host, exec
<1>5. ASSUME NEW d \in Engines, NEW q \in Runs, NEW j \in Steps, ScriptExits(d, q, j)
      PROVE  b = a \/ (a = "running" /\ b \in Exited)
  BY <1>t, <1>5 DEF ScriptExits, BoxesTyped
<1>6. Submit \/ UNCHANGED vars => UNCHANGED box
  BY DEF Submit, vars, exec
<1>7. Good
  BY <1>u, <1>1, <1>2, <1>3, <1>4, <1>5, <1>6 DEF ExecNext, MainNext
<1>. QED BY <1>7

\* A workspace is made by the executor of its run.
LEMMA DirSteps ==
  ASSUME ExecInv, IInv, [ExecNext]_vars, NEW e \in Engines, NEW r \in Runs, ws'[e][r]
  PROVE  \/ ws[e][r]
         \/ \E w \in Workers : e = Engine[w] /\ r = Mine(w) /\ proc[w].pc \in Claimed
<1>1. ASSUME NEW w \in Workers, ExecuteNext(w)
      PROVE  ws[e][r] \/ (e = Engine[w] /\ r = Mine(w) /\ proc[w].pc \in Claimed)
  <2>1. CASE UNCHANGED ws
    BY <2>1
  <2>2. ASSUME NEW b \in BOOLEAN, ws' = [ws EXCEPT ![Engine[w]][Mine(w)] = b],
               proc[w].pc \in Claimed
        PROVE  ws[e][r] \/ (e = Engine[w] /\ r = Mine(w) /\ proc[w].pc \in Claimed)
    <3>1. Mine(w) \in Runs
      BY <2>2, StandsOn
    <3>. QED BY <2>2, <3>1, ProcTyped, EngineTyped DEF DirsTyped
  <2>3. PICK p : Moves(w, p)
    BY <1>1, ExecuteMoves DEF MainMoves
  <2>4. proc[w].pc \in Claimed \cup {"ready"}
    BY <1>1, OwnPlaces
  <2>5. proc[w].pc \notin Recovering
    BY <2>4 DEF Claimed, Inside, Recovering
  <2>. QED BY <2>1, <2>2, <2>3, <2>5 DEF Moves, DirMove
<1>2. ASSUME NEW w \in Workers, RecoverNext(w) PROVE ws[e][r]
  <2>1. ASSUME \/ Survey(w) \/ RecoverLock(w) \/ RecoverBox(w) \/ RecoverStopped(w)
               \/ RecoverFinish(w) \/ RecoverRemove(w) \/ RecoverAbort(w)
        PROVE  UNCHANGED ws
    BY <2>1 DEF Survey, RecoverLock, RecoverBox, RecoverStopped, RecoverFinish, RecoverRemove,
       RecoverAbort, Call, Go, Back, SetBox, host
  <2>2. CASE RecoverSweep(w)
    <3>1. Mine(w) \in Runs /\ ws' = [ws EXCEPT ![Engine[w]][Mine(w)] = FALSE]
      BY <2>2, StandsOn DEF RecoverSweep, At, Recovering
    <3>. QED BY <3>1, DirTyped, ProcTyped
  <2>. QED BY <1>2, <2>1, <2>2 DEF RecoverNext
<1>3. ASSUME NEW w \in Workers, SweepNext(w) PROVE ws[e][r]
  <2>1. PICK c : SweepMoves(w, c)
    BY <1>3, SweepSteps DEF CleanMoves
  <2>2. \/ UNCHANGED ws
        \/ \E D \in SUBSET clean[w].held :
             ws' = [ws EXCEPT ![Engine[w]] = [q \in Runs |-> ws[Engine[w]][q] /\ q \notin D]]
    BY <2>1 DEF SweepMoves
  <2>3. ASSUME NEW D \in SUBSET clean[w].held,
               ws' = [ws EXCEPT ![Engine[w]] = [q \in Runs |-> ws[Engine[w]][q] /\ q \notin D]]
        PROVE  ws[e][r]
    <3>1. ws \in [Engines -> [Runs -> BOOLEAN]] /\ Engine[w] \in Engines
      BY ProcTyped, EngineTyped DEF DirsTyped
    <3>2. e # Engine[w] => ws'[e] = ws[e]
      BY <2>3, <3>1
    <3>3. ws'[Engine[w]][r] = (ws[Engine[w]][r] /\ r \notin D)
      BY <2>3, <3>1
    <3>4. ws[Engine[w]][r] \in BOOLEAN
      BY <3>1
    <3>. QED BY <3>2, <3>3, <3>4
  <2>. QED BY <2>2, <2>3
<1>4. ASSUME NEW w \in Workers, \/ Boot(w) \/ Exit(w) \/ BeatNext(w) \/ SignalNext(w) \/ FaultNext(w)
                                \/ Heal(w) \/ Age(w)
      PROVE  UNCHANGED ws
  BY <1>4 DEF Boot, Go, Exit, ProcessGone, BeatNext, Beat, Mature, Reap, SignalNext, Watch, Interrupt,
     FaultNext, Cut, Crash, Shutdown, DiskBudget, Release, Heal, Age, host, exec
<1>5. ASSUME NEW q \in Runs, CancelRun(q) \/ Deadline(q)
      PROVE  UNCHANGED ws
  BY <1>5 DEF CancelRun, Deadline, host, exec
<1>6. ASSUME NEW d, NEW q, NEW j, ScriptExits(d, q, j)
      PROVE  UNCHANGED ws
  BY <1>6 DEF ScriptExits
<1>7. Submit \/ UNCHANGED vars => UNCHANGED ws
  BY DEF Submit, vars, exec
<1>. QED BY <1>1, <1>2, <1>3, <1>4, <1>5, <1>6, <1>7 DEF ExecNext, MainNext

\* An executor plans a container, then creates it, records it, and starts it.
LEMMA PreparedStep ==
  ASSUME ExecInv, IInv, [ExecNext]_vars, NEW w \in Workers, Prepared(w)
  PROVE  Prepared(w)'
<1> DEFINE q == Mine(w)
           i == CurrentStep(w)
           Stages == {"begin", "create", "created", "start"}
<1>t. steps \in [Runs -> [Steps -> Step]]
  BY DEF IInv, TypeOK
<1>1. ASSUME proc[w].pc \in Stages
      PROVE  /\ q \in Runs /\ i \in Steps
             /\ steps[q][i].planned => steps'[q][i].planned
             /\ steps[q][i].created => steps'[q][i].created
  <2>1. proc[w].pc \in Claimed \cap Stepping
    BY <1>1 DEF Claimed, Stepping, Inside
  <2>2. q \in Runs /\ i \in Steps /\ HandedOut(q)
    BY <2>1, StandsOn DEF ExecInv, ExecutesOwnRun, HandedOut
  <2>3. RowGrows(steps[q][i], steps'[q][i])
    BY <2>2, StoreStep DEF Transacts, RowsKept
  <2>. QED BY <2>2, <2>3 DEF RowGrows
<1>2. CASE Undisturbed(w)
  <2>1. proc'[w].pc = proc[w].pc /\ Mine(w)' = q /\ CurrentStep(w)' = i
    BY <1>2 DEF Undisturbed, Mine, CurrentStep
  <2>. QED BY <1>1, <2>1 DEF Prepared
<1>3. CASE Boot(w) \/ RecoverNext(w) \/ Exit(w) \/ Crash(w)
  <2>1. proc'[w].pc \notin Stages
    BY <1>3, OwnPlaces DEF Recovering
  <2>. QED BY <2>1 DEF Prepared
<1>4. CASE ExecuteNext(w)
  <2>n. ASSUME proc'[w].pc \notin Stages PROVE Prepared(w)'
    BY <2>n DEF Prepared
  <2>o. ASSUME NEW pc, On(w, pc) PROVE proc'[w].pc = pc /\ Mine(w)' = q /\ CurrentStep(w)' = i
    BY <2>o DEF On, Mine, CurrentStep
  <2>1. CASE \/ Claim(w) \/ ClaimNothing(w) \/ Enter(w) \/ Fetch(w) \/ Cleanup(w) \/ Removed(w)
             \/ SweepRun(w)
    BY <2>1, <2>n, ExecutePlaces DEF On
  <2>2. CASE PlanBox(w)
    <3>1. \/ \E x, o : Return(w, x, o)
          \/ /\ PlanContainer(q, i)
             /\ \E pc \in {"begin", "create"} : Go(w, [proc[w] EXCEPT !.pc = pc])
      BY <2>2 DEF PlanBox, RunCall, Call
    <3>2. CASE \E x, o : Return(w, x, o)
      BY <2>n, <3>2, GoesOn DEF On
    <3>3. ASSUME PlanContainer(q, i), NEW pc \in {"begin", "create"}, On(w, pc)
          PROVE  Prepared(w)'
      <4>1. proc[w].pc \in Claimed \cap Stepping
        BY <2>2 DEF PlanBox, At, Claimed, Stepping, Inside
      <4>2. q \in Runs /\ i \in Steps
        BY <4>1, StandsOn
      <4>3. steps'[q][i].planned
        BY <1>t, <3>3, <4>2 DEF PlanContainer, SetStep, Step
      <4>. QED BY <2>o, <3>3, <4>3 DEF Prepared
    <3>. QED BY <3>1, <3>2, <3>3, GoesOn
  <2>3. CASE Begin(w)
    <3>1. (\E x, o : Return(w, x, o)) \/ Go(w, [proc[w] EXCEPT !.pc = "create"])
      BY <2>3 DEF Begin, RunCall, Call
    <3>2. CASE \E x, o : Return(w, x, o)
      BY <2>n, <3>2, GoesOn DEF On
    <3>3. CASE On(w, "create")
      <4>1. proc[w].pc = "begin"
        BY <2>3 DEF Begin, At
      <4>. QED BY <1>1, <2>o, <3>3, <4>1 DEF Prepared
    <3>. QED BY <3>1, <3>2, <3>3, GoesOn
  <2>4. CASE Create(w)
    <3>1. \E pc \in {"created", "cleanup"} : proc' = [proc EXCEPT ![w].pc = pc]
      BY <2>4 DEF Create
    <3>2. CASE On(w, "cleanup")
      BY <2>n, <3>2 DEF On
    <3>3. CASE On(w, "created")
      <4>1. proc[w].pc = "create"
        BY <2>4 DEF Create, At
      <4>. QED BY <1>1, <2>o, <3>3, <4>1 DEF Prepared
    <3>. QED BY <3>1, <3>2, <3>3, GoesOn
  <2>5. CASE Created(w)
    <3>1. (ContainerCreated(q, i) /\ On(w, "start")) \/ On(w, "cleanup")
      BY <2>5, GoesOn DEF Created, RunCall, Call, NotRecorded
    <3>2. CASE On(w, "cleanup")
      BY <2>n, <3>2 DEF On
    <3>3. CASE ContainerCreated(q, i) /\ On(w, "start")
      <4>1. proc[w].pc = "created"
        BY <2>5 DEF Created, At
      <4>2. steps'[q][i].created
        BY <1>t, <1>1, <3>3, <4>1 DEF ContainerCreated, SetStep, Step
      <4>. QED BY <1>1, <2>o, <3>3, <4>1, <4>2 DEF Prepared
    <3>. QED BY <3>1, <3>2, <3>3
  <2>6. CASE StartStep(w) \/ Record(w) \/ FinishRun(w)
    <3>1. \/ Back(w) \/ RecoveryRequired(w) \/ \E o : Leave(w, o)
          \/ \E pc \in {"plan", "rm", "sweep"} : Go(w, [proc[w] EXCEPT !.pc = pc])
      BY <2>6 DEF StartStep, Record, FinishRun, Call
    <3>. QED BY <2>n, <3>1, GoesOn DEF On
  <2>7. CASE StartBox(w) \/ RemoveBox(w) \/ Wait(w)
    <3>1. \/ RecoveryRequired(w)
          \/ \E x, o : Return(w, x, o)
          \/ \E pc \in {"cleanup", "wait", "removed"} :
               proc' = [proc EXCEPT ![w].pc = pc] \/ Go(w, [proc[w] EXCEPT !.pc = pc])
      BY <2>7 DEF StartBox, RemoveBox, Wait
    <3>. QED BY <2>n, <3>1, GoesOn DEF On
  <2>. QED BY <1>4, <2>1, <2>2, <2>3, <2>4, <2>5, <2>6, <2>7 DEF ExecuteNext
<1>. QED BY <1>2, <1>3, <1>4, OwnSteps

\* So what cleanup and recovery go by stays true.
LEMMA TracedStep ==
  ExecInv /\ IInv /\ Traced /\ [ExecNext]_vars => Traced'
<1> SUFFICES ASSUME ExecInv, IInv, Traced, [ExecNext]_vars PROVE Traced'
  OBVIOUS
<1>r. RunsKept /\ RowsKept
  BY StoreStep DEF Transacts
<1>o. \A w \in Workers : proc[w].pc \in Claimed =>
        Mine(w) \in Runs /\ HandedOut(Mine(w)) /\ OnHost(Engine[w], Mine(w))
  BY StandsOn DEF ExecInv, ExecutesOwnRun, HandedOut, OnHost
<1>1. ASSUME NEW e \in Engines, NEW r \in Runs, ws'[e][r] PROVE OnHost(e, r)'
  <2>1. OnHost(e, r)
    BY <1>1, <1>o, DirSteps DEF Traced
  <2>. QED BY <1>r, <2>1, OnHostKept
<1>2. ASSUME NEW e \in Engines, NEW r \in Runs, NEW i \in Steps, box'[e][r][i] # "none"
      PROVE  /\ OnHost(e, r)' /\ steps'[r][i].planned
             /\ box'[e][r][i] \in {"running"} \cup Exited => steps'[r][i].created
  <2>1. /\ OnHost(e, r) /\ steps[r][i].planned
        /\ box'[e][r][i] \in {"running"} \cup Exited => steps[r][i].created
    <3>1. CASE box'[e][r][i] = box[e][r][i]
      BY <1>2, <3>1 DEF Traced
    <3>2. CASE box[e][r][i] = "running" /\ box'[e][r][i] \in Exited
      BY <3>2 DEF Traced
    <3>3. ASSUME NEW w \in Workers, e = Engine[w], r = Mine(w), i = CurrentStep(w),
                 proc[w].pc \in Claimed,
                 \/ proc[w].pc = "create" /\ box'[e][r][i] = "created"
                 \/ proc[w].pc = "start" /\ box'[e][r][i] = "running"
          PROVE  /\ OnHost(e, r) /\ steps[r][i].planned
                 /\ box'[e][r][i] \in {"running"} \cup Exited => steps[r][i].created
      BY <1>o, <3>3, BoxStates DEF Traced, Prepared
    <3>. QED BY <1>2, <3>1, <3>2, <3>3, BoxSteps
  <2>2. HandedOut(r)
    BY <2>1 DEF OnHost
  <2>. QED BY <1>r, <2>1, <2>2, OnHostKept DEF RowsKept, RowGrows
<1>3. ASSUME NEW w \in Workers PROVE Prepared(w)'
  BY PreparedStep DEF Traced
<1>. QED BY <1>1, <1>2, <1>3, BoxStates DEF Traced

----------------------------------------------------------------------------
(* Theorems.                                                               *)

\* The processes start with their types and nothing at work.
LEMMA ExecInitInv == ExecInit => ExecInv
<1> SUFFICES ASSUME ExecInit PROVE ExecInv
  OBVIOUS
<1> DEFINE p == Sleeping("unborn", FALSE)
<1>1. p \in Process /\ Placed(p) /\ p.pc = "unborn"
  BY DEF Sleeping, Placed, Process, MainPC, Dead, NoRun, NoOutcome, NoResult,
     Claimed, Inside, Recovering, Stepping
<1>2. NoSweep \in Sweep /\ NoSweep.held = {} /\ NoSweep.pc = "idle"
  BY DEF NoSweep, Sweep
<1>3. \A w \in Workers : proc[w] = p /\ clean[w] = NoSweep
  BY DEF ExecInit
<1>4. proc = [w \in Workers |-> p]
  BY DEF ExecInit
<1> HIDE DEF p
<1>5. ExecTypeOK
  <2>1. proc \in [Workers -> Process] /\ clean \in [Workers -> Sweep]
    BY <1>1, <1>2, <1>4 DEF ExecInit
  <2>2. link \in [Workers -> [cut : BOOLEAN, healthy : BOOLEAN]]
    BY DEF ExecInit
  <2>3. /\ box \in [Engines -> [Runs -> [Steps -> BoxState]]]
        /\ lock \in [Engines -> [Runs -> {Free} \cup (Workers \X {"main", "clean"})]]
        /\ ws \in [Engines -> [Runs -> BOOLEAN]]
    BY DEF ExecInit, BoxState
  <2>4. faults \in 0 .. MaxFaults
    BY ExecConstantsOK DEF ExecInit
  <2>. QED BY <2>1, <2>2, <2>3, <2>4 DEF ExecTypeOK
<1>. QED
  BY <1>1, <1>2, <1>3, <1>5
     DEF ExecInv, ExecutesOwnRun, HoldsLock, WorkspaceFenced, Claimed, Inside, Recovering

\* The workers implement the run queue: every call they make of the database is
\* a transaction of CIStore, made when its conditions hold.
THEOREM StoreImplemented == ExecSpec => StoreSpec
<1>1. ExecInit => Init /\ ExecInv
  BY ExecInitInv DEF ExecInit
<1>2. Init => IInv
  BY InitIInv
<1>3. IInv /\ ExecInv /\ [ExecNext]_vars => IInv' /\ ExecInv' /\ [Next]_store
  BY StoreStep, NextIInv, ExecKeeps DEF Transacts
<1>. QED BY <1>1, <1>2, <1>3, PTL DEF ExecSpec, StoreSpec, Spec

\* Whatever fails, every process knows its run, a run is executed by the worker
\* it was handed to, everybody at work on a host holds the run's lock, and no
\* workspace goes while its worker executes.
THEOREM ExecInvariant == ExecSpec => []ExecInv
<1>1. ExecInit => IInv /\ ExecInv
  BY ExecInitInv, InitIInv DEF ExecInit
<1>2. IInv /\ ExecInv /\ [ExecNext]_vars => IInv' /\ ExecInv'
  BY StoreStep, NextIInv, ExecKeeps DEF Transacts
<1>. QED BY <1>1, <1>2, PTL DEF ExecSpec

\* What the store guarantees its clients holds of the real ones.
THEOREM QueueInvariant == ExecSpec => []IInv
BY StoreImplemented, StoreInvariant, PTL DEF StoreSpec

\* A run is executed by one worker, on any number of hosts, whatever claims
\* were lost and whoever was reaped.
THEOREM RunsExecutedOnce == ExecSpec => []OneWorkerPerRun
<1>1. ExecInv => OneWorkerPerRun
  BY DEF ExecInv, ExecutesOwnRun, OneWorkerPerRun
<1>. QED BY <1>1, ExecInvariant, PTL

\* The workspace of a run stays while its worker executes steps in it.
THEOREM WorkspacesFenced == ExecSpec => []WorkspaceFenced
<1>1. ExecInv => WorkspaceFenced
  BY DEF ExecInv
<1>. QED BY <1>1, ExecInvariant, PTL

\* Nobody creates, starts, stops or removes a container without its run's lock.
THEOREM ContainersLocked == ExecSpec => [][TouchedLocked]_vars
<1>1. ExecInv /\ [ExecNext]_vars => [TouchedLocked]_vars
  BY TouchStep
<1>. QED BY <1>1, ExecInvariant, PTL DEF ExecSpec

\* Whoever is cut off, given up or told to stop: the workspaces and containers of
\* a run are on one host, and cleanup and recovery find on record every container
\* that may exist and the ID of every one that may have run.
THEOREM ContainersTraced == ExecSpec => []Traced
<1>1. ExecInit => IInv /\ ExecInv /\ Traced
  <2>1. ASSUME ExecInit PROVE Traced
    <3>1. /\ \A e \in Engines, r \in Runs : ~ws[e][r]
          /\ \A e \in Engines, r \in Runs, i \in Steps : box[e][r][i] = "none"
          /\ \A w \in Workers : proc[w].pc = "unborn"
      BY <2>1 DEF ExecInit, Sleeping
    <3>. QED BY <3>1, BoxStates DEF Traced, Prepared
  <2>. QED BY <2>1, ExecInitInv, InitIInv DEF ExecInit
<1>2. IInv /\ ExecInv /\ Traced /\ [ExecNext]_vars => IInv' /\ ExecInv' /\ Traced'
  BY StoreStep, NextIInv, ExecKeeps, TracedStep DEF Transacts
<1>. QED BY <1>1, <1>2, PTL DEF ExecSpec

\* As long as no live worker loses touch with the database and nobody stops in
\* the middle of a neighbour's cleanup pass: the processes know what they need
\* to know of each other's work, so every promise of execution about containers,
\* rows, targets and workspaces is kept, whatever crashes, fails, is cancelled
\* or is released, on any number of hosts.
THEOREM ExecutionSafe == ExecSpec /\ []InTouch /\ [][StopsApart]_vars => []ExecSafe
<1> DEFINE Safe == IInv /\ ExecInv /\ Knowledge
<1>1. ExecInit => Safe
  BY ExecInitInv, InitIInv, KnowledgeInit DEF ExecInit
<1>2. Safe /\ InTouch /\ [ExecNext]_vars /\ [StopsApart]_vars => Safe'
  BY StoreStep, NextIInv, ExecKeeps, KnowledgeStep DEF Transacts
<1>3. Safe /\ Traced => ExecSafe
  BY KnowledgeSafe DEF ExecSafe, ExecInv
<1>. QED BY <1>1, <1>2, <1>3, ContainersTraced, PTL DEF ExecSpec

\* Then a deploy script runs only while its step owns the target.
THEOREM ScriptsOwnTargets == ExecSpec /\ []InTouch /\ [][StopsApart]_vars => []ScriptOwnsTarget
<1>1. ExecSafe => ScriptOwnsTarget
  BY DEF ExecSafe
<1>. QED BY <1>1, ExecutionSafe, PTL

\* Then no container starts that cleanup could not find on record.
THEOREM StartsRecorded == ExecSpec /\ []InTouch /\ [][StopsApart]_vars => []StartedRecorded
<1>1. ExecSafe => StartedRecorded
  BY DEF ExecSafe
<1>. QED BY <1>1, ExecutionSafe, PTL

\* Then no exit is lost: recovery, the cleanup pass and the executor remove an
\* exited container after its exit is recorded.
THEOREM ExitsRecorded == ExecSpec /\ []InTouch /\ [][StopsApart]_vars => ExitsKept
<1> DEFINE Safe == IInv /\ ExecInv /\ Knowledge
<1>1. ExecInit => Safe
  BY ExecInitInv, InitIInv, KnowledgeInit DEF ExecInit
<1>2. Safe /\ InTouch /\ [ExecNext]_vars /\ [StopsApart]_vars => Safe'
  BY StoreStep, NextIInv, ExecKeeps, KnowledgeStep DEF Transacts
<1>3. Safe /\ [ExecNext]_vars => [ExitKept]_vars
  BY ExitStep
<1>. QED BY <1>1, <1>2, <1>3, PTL DEF ExecSpec, ExitsKept

\* Both conditions hold by themselves where no connection is lost and whoever
\* may be told to stop has no neighbour that cleans up: there execution is safe
\* without any condition, whatever else fails.
THEOREM ShelteredSafe ==
  ASSUME Sheltered
  PROVE  ExecSpec => []ExecSafe /\ ExitsKept
<1> DEFINE Safe == IInv /\ ExecInv /\ Knowledge /\ Calm /\ InTouch
<1>1. ExecInit => Safe
  <2>1. ExecInit => Calm /\ InTouch
    BY DEF ExecInit, Calm, InTouch, Sleeping, NoSweep, Live, Dead
  <2>. QED BY <2>1, ExecInitInv, InitIInv, KnowledgeInit DEF ExecInit
<1>2. Safe /\ [ExecNext]_vars => Safe' /\ InTouch /\ [StopsApart]_vars
  <2> SUFFICES ASSUME Safe, [ExecNext]_vars PROVE Safe' /\ InTouch /\ [StopsApart]_vars
    OBVIOUS
  <2>1. RowsTrue
    BY DEF Knowledge
  <2>2. StopsApart /\ Calm' /\ InTouch'
    BY <2>1, ShelteredStops, CalmKeeps, InTouchKeeps
  <2>. QED BY <2>2, StoreStep, NextIInv, ExecKeeps, KnowledgeStep DEF Transacts
<1>3. ExecSpec => []InTouch /\ [][StopsApart]_vars
  BY <1>1, <1>2, PTL DEF ExecSpec
<1>. QED BY <1>3, ExecutionSafe, ExitsRecorded, PTL
=============================================================================
