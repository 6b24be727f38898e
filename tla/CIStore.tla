------------------------------ MODULE CIStore ------------------------------
(***************************************************************************)
(* The run queue of one repository: what package ci keeps in PostgreSQL    *)
(* about runs, steps, deployment targets, deployments and workers, and the *)
(* transactions of ci.Service that change it.                              *)
(*                                                                         *)
(* One action is one transaction.  Next lets any client call any           *)
(* transaction in any order: nothing here assumes that workers, the push   *)
(* hook, the web process and the operator's commands behave.  What the     *)
(* workers really do is module Execution, every step of which is a step of *)
(* this specification.                                                     *)
(***************************************************************************)
EXTENDS Integers, FiniteSets

CONSTANTS
  MaxRuns,     \* bound on the runs created; the code's counter is unbounded
  NumSteps,    \* steps a pipeline may have
  Refs,        \* branches and tags
  Targets,     \* deployment target names
  NoTarget,    \* target = '': the ref resolves to no target
  Workers,     \* worker IDs; a restarted process gets a new one
  NoWorker,    \* worker_id IS NULL
  Plans,       \* the pipelines, with their ref's decision, runs are made of
  MaxPending   \* 10,000 in the code: queued and running runs of a repository

Runs == 1 .. MaxRuns      \* a run is named by its number
Steps == 1 .. NumSteps
Kinds == {"run", "deploy", "none"}   \* "none": the pipeline has no such step

Plan ==
  [ problem     : BOOLEAN,          \* the file is missing, too large or invalid
    docker      : BOOLEAN,          \* the pipeline asks for the Docker socket
    allowDocker : BOOLEAN,          \* what the ref rule allows
    allowDeploy : BOOLEAN,
    target      : Targets \cup {NoTarget},
    kind        : [Steps -> Kinds],
    applies     : [Steps -> BOOLEAN] ]   \* when.ShouldRun for this ref

\* Parse refuses a deploy step that could run where no target resolves.
ASSUME ConstantsOK ==
  /\ MaxRuns \in Nat /\ NumSteps \in Nat /\ MaxPending \in Nat
  /\ Refs # {}
  /\ NoTarget \notin Targets
  /\ NoWorker \notin Workers
  /\ Plans \subseteq Plan
  /\ \A p \in Plans : \A i \in Steps :
        /\ p.kind[i] = "none" => ~p.applies[i]
        /\ p.kind[i] = "deploy" /\ p.applies[i] => p.target # NoTarget

VARIABLES
  runs,         \* table runs
  steps,        \* table steps
  targets,      \* table deployment_targets
  deployments,  \* table deployments: <<target, run, step>>
  workers,      \* table workers
  counter,      \* repos.run_counter
  maintenance,  \* instance.maintenance
  op            \* the repository's unfinished row of repository_operations

store == <<runs, steps, targets, deployments, workers, counter, maintenance, op>>

----------------------------------------------------------------------------
(* Rows.                                                                   *)

Ended == {"passed", "failed", "cancelled"}
RunStatus == {"absent", "queued", "running", "pruned"} \cup Ended
Open == {"pending", "running"}
StepStatus == {"none", "skipped"} \cup Open \cup Ended

NoCode == -1              \* exit_code IS NULL
Codes == {NoCode, 0, 1}   \* 1 stands for every failing exit code
NoGen == 0                \* deployment_generation IS NULL
NoOwner == <<0, 0>>       \* owner_run_id and owner_step_id ARE NULL

Run ==
  [ status  : RunStatus,
    ref     : Refs,
    trigger : {"push", "manual"},
    target  : Targets \cup {NoTarget},
    worker  : Workers \cup {NoWorker},
    cancel  : BOOLEAN,      \* cancel_requested
    expired : BOOLEAN,      \* deadline_at <= now()
    token   : BOOLEAN ]     \* fetch_token_hash IS NOT NULL

Step ==
  [ status  : StepStatus,
    kind    : Kinds,
    code    : Codes,
    gen     : Nat,          \* deployment_generation
    planned : BOOLEAN,      \* container_name IS NOT NULL
    created : BOOLEAN,      \* container_id IS NOT NULL
    removed : BOOLEAN ]     \* container_removed_at IS NOT NULL

Target ==
  [ owner  : {NoOwner} \cup (Runs \X Steps),
    gen    : Nat,
    latest : Nat ]          \* latest_run_number

\* beat is the age of heartbeat_at on the database's clock: "late" is past
\* WorkerReadyAfter (one minute), "lost" past WorkerLostAfter (five).
Worker ==
  [ row  : {"absent", "up", "stopped"},
    beat : {"fresh", "late", "lost"} ]

\* "deleted": the repository's row is gone, and every row above with it.
Ops == {"none", "push", "change", "delete", "deleted"}

\* Every table holds rows of its type.
TypeOK ==
  /\ runs \in [Runs -> Run]
  /\ steps \in [Runs -> [Steps -> Step]]
  /\ targets \in [Targets -> Target]
  /\ deployments \in SUBSET (Targets \X Runs \X Steps)
  /\ workers \in [Workers -> Worker]
  /\ counter \in 0 .. MaxRuns
  /\ maintenance \in BOOLEAN
  /\ op \in Ops

AbsentRun ==
  [status |-> "absent", ref |-> CHOOSE f \in Refs : TRUE, trigger |-> "push",
   target |-> NoTarget, worker |-> NoWorker, cancel |-> FALSE, expired |-> FALSE,
   token |-> FALSE]

StepRow(status, kind) ==
  [status |-> status, kind |-> kind, code |-> NoCode, gen |-> NoGen,
   planned |-> FALSE, created |-> FALSE, removed |-> FALSE]

NoSteps == [i \in Steps |-> StepRow("none", "none")]

FreeTarget == [owner |-> NoOwner, gen |-> 0, latest |-> 0]

Init ==
  /\ runs = [r \in Runs |-> AbsentRun]
  /\ steps = [r \in Runs |-> NoSteps]
  /\ targets = [t \in Targets |-> FreeTarget]
  /\ deployments = {}
  /\ workers = [w \in Workers |-> [row |-> "absent", beat |-> "fresh"]]
  /\ counter = 0
  /\ maintenance = FALSE
  /\ op = "none"

----------------------------------------------------------------------------
(* Creating runs.                                                          *)

\* planRun: what the pipeline, the ref and the rule's decision decide.
Deploys(p) == \E i \in Steps : p.kind[i] = "deploy" /\ p.applies[i]

Refused(p) ==
  p.problem \/ (p.docker /\ ~p.allowDocker) \/ (Deploys(p) /\ ~p.allowDeploy)

PlanStatus(p) ==
  IF Refused(p) THEN "failed"
  ELSE IF \A i \in Steps : ~p.applies[i] THEN "passed" ELSE "queued"

PendingRuns == {r \in Runs : runs[r].status \in {"queued", "running"}}

MutCreateStatus(p) ==   \* mutant: the budget is tested with >
  IF PlanStatus(p) = "queued" /\ Cardinality(PendingRuns) > MaxPending
  THEN "failed" ELSE PlanStatus(p)

\* CreateTx: the status after the pending-run budget.
CreateStatus(p) ==
  IF PlanStatus(p) = "queued" /\ Cardinality(PendingRuns) >= MaxPending
  THEN "failed" ELSE PlanStatus(p)

\* insertStep for every planned step; a refused run has no step rows.
CreateSteps(p) ==
  IF Refused(p) THEN NoSteps
  ELSE [i \in Steps |->
         CASE p.kind[i] = "none" -> StepRow("none", "none")
           [] p.kind[i] # "none" /\ CreateStatus(p) = "queued" /\ p.applies[i]
                -> StepRow("pending", p.kind[i])
           [] OTHER -> StepRow("skipped", p.kind[i])]

QueuedOn(f) == {q \in Runs : runs[q].status = "queued" /\ runs[q].ref = f}

MutSuperseded(f, before) == {q \in QueuedOn(f) : q + 1 < before}   \* mutant: off by one

\* supersedeQueued: the ref's queued runs older than a number.
Superseded(f, before) == {q \in QueuedOn(f) : q < before}

MutSettleStep(s, runningBecomes, pendingBecomes) ==   \* mutant: settled steps too
  [s EXCEPT !.status = IF @ = "pending" THEN pendingBecomes
                       ELSE IF @ = "none" THEN @ ELSE runningBecomes]

\* supersedeQueued leaves a running step alone; a queued run has none.
SettleStep(s, runningBecomes, pendingBecomes) ==
  [s EXCEPT !.status = IF @ = "running" THEN runningBecomes
                       ELSE IF @ = "pending" THEN pendingBecomes ELSE @]

Settle(ss, runningBecomes, pendingBecomes) ==
  [i \in Steps |-> SettleStep(ss[i], runningBecomes, pendingBecomes)]

MutSupersede(ss) == ss   \* mutant: the steps of a superseded run stay pending

Supersede(ss) == Settle(ss, "running", "cancelled")

CreateTx(f, trigger, p) ==
  /\ counter < MaxRuns
  /\ LET r == counter + 1
         old == Superseded(f, r)
     IN /\ counter' = r
        /\ runs' = [q \in Runs |->
             IF q = r
             THEN [AbsentRun EXCEPT !.status = CreateStatus(p), !.ref = f,
                     !.trigger = trigger,
                     !.target = IF p.problem THEN NoTarget ELSE p.target]
             ELSE IF q \in old THEN [runs[q] EXCEPT !.status = "cancelled"]
             ELSE runs[q]]
        /\ steps' = [q \in Runs |->
             IF q = r THEN CreateSteps(p)
             ELSE IF q \in old THEN Supersede(steps[q]) ELSE steps[q]]
  /\ UNCHANGED <<targets, deployments, workers, maintenance>>

\* A person starts a run: admitted, and with no unfinished operation.
Start(f, p) ==
  /\ ~maintenance /\ op = "none"
  /\ CreateTx(f, "manual", p)
  /\ UNCHANGED op

\* recordPush of a one-ref push: the run and the operation's receipt commit
\* together.
PushRun(f, p) ==
  /\ op = "push"
  /\ CreateTx(f, "push", p)
  /\ op' = "none"

\* recordPush of a deletion: the ref's queued runs are cancelled.
PushDeletesRef(f) ==
  /\ op = "push"
  /\ LET old == Superseded(f, MaxRuns + 1)
     IN /\ runs' = [q \in Runs |->
             IF q \in old THEN [runs[q] EXCEPT !.status = "cancelled"] ELSE runs[q]]
        /\ steps' = [q \in Runs |-> IF q \in old THEN Supersede(steps[q]) ELSE steps[q]]
  /\ op' = "none"
  /\ UNCHANGED <<targets, deployments, workers, counter, maintenance>>

----------------------------------------------------------------------------
(* Executing runs: the calls a worker makes.                               *)

MutClaimable(w, r) ==   \* mutant: an unfinished operation does not hold the queue
  ~maintenance /\ workers[w].row # "absent" /\ runs[r].status = "queued"

\* A worker's row satisfies the foreign key of runs.worker_id.
\* Which queued run is taken depends on images, age and SKIP LOCKED.
Claimable(w, r) ==
  /\ ~maintenance /\ op = "none"
  /\ workers[w].row # "absent"
  /\ runs[r].status = "queued"

ClaimNext(w, r) ==
  /\ Claimable(w, r)
  /\ runs' = [runs EXCEPT ![r].status = "running", ![r].worker = w, ![r].token = TRUE]
  /\ UNCHANGED <<steps, targets, deployments, workers, counter, maintenance, op>>

\* The clock passes the run's deadline.
DeadlinePasses(r) ==
  /\ runs[r].status = "running" /\ ~runs[r].expired
  /\ runs' = [runs EXCEPT ![r].expired = TRUE]
  /\ UNCHANGED <<steps, targets, deployments, workers, counter, maintenance, op>>

Proceeds(r) == runs[r].status = "running" /\ ~runs[r].cancel

SetStep(r, i, s) ==
  /\ steps' = [steps EXCEPT ![r][i] = s]
  /\ UNCHANGED <<runs, targets, deployments, workers, counter, maintenance, op>>

MutMayStart(r, i) == steps[r][i].status = "pending"   \* mutant: the run is not checked

MayStart(r, i) == Proceeds(r) /\ steps[r][i].status = "pending"

StepStarted(r, i) ==
  /\ MayStart(r, i)
  /\ SetStep(r, i, [steps[r][i] EXCEPT !.status = "running"])

MayPlan(r, i) == Proceeds(r) /\ steps[r][i].status = "running"

PlanContainer(r, i) ==
  /\ MayPlan(r, i)
  /\ SetStep(r, i, [steps[r][i] EXCEPT !.planned = TRUE])

MutBeginAnswer(r, i) ==   \* mutant: a newer deployment does not supersede
  LET t == targets[runs[r].target] IN
  IF ~Proceeds(r) \/ runs[r].target = NoTarget \/ runs[r].expired THEN "ended"
  ELSE IF steps[r][i].status # "running" \/ steps[r][i].kind # "deploy" THEN "error"
  ELSE IF t.owner \notin {NoOwner, <<r, i>>} THEN "busy" ELSE "owned"

MutBeginBusy(r, i) ==   \* mutant: the target is taken from its owner
  IF ~Proceeds(r) \/ runs[r].target = NoTarget \/ runs[r].expired THEN "ended"
  ELSE IF steps[r][i].status # "running" \/ steps[r][i].kind # "deploy" THEN "error"
  ELSE IF runs[r].trigger = "push" /\ r < targets[runs[r].target].latest THEN "superseded"
  ELSE "owned"

\* What BeginDeployment answers.
BeginAnswer(r, i) ==
  LET t == targets[runs[r].target] IN
  IF ~Proceeds(r) \/ runs[r].target = NoTarget \/ runs[r].expired THEN "ended"
  ELSE IF steps[r][i].status # "running" \/ steps[r][i].kind # "deploy" THEN "error"
  ELSE IF runs[r].trigger = "push" /\ r < t.latest THEN "superseded"
  ELSE IF t.owner \notin {NoOwner, <<r, i>>} THEN "busy" ELSE "owned"

BeginDeployment(r, i) ==
  /\ BeginAnswer(r, i) = "owned"
  /\ LET t == runs[r].target
         g == IF targets[t].owner = NoOwner THEN targets[t].gen + 1 ELSE targets[t].gen
     IN /\ targets' = [targets EXCEPT ![t].owner = <<r, i>>, ![t].gen = g]
        /\ steps' = [steps EXCEPT ![r][i].gen = g]
  /\ UNCHANGED <<runs, deployments, workers, counter, maintenance, op>>

Owns(t, r, i) == targets[t].owner = <<r, i>> /\ targets[t].gen = steps[r][i].gen

MayCreate(r, i) ==
  /\ MayPlan(r, i)
  /\ steps[r][i].kind = "run" \/ \E t \in Targets : Owns(t, r, i)

ContainerCreated(r, i) ==
  /\ MayCreate(r, i)
  /\ SetStep(r, i, [steps[r][i] EXCEPT !.created = TRUE])

MutReceiptKept(r, i, recovery) ==   \* mutant: recovery always records
  ~recovery /\ steps[r][i].status \notin Open

\* finishExecutionReceipt: nothing is left to record.
ReceiptKept(r, i, recovery) ==
  /\ steps[r][i].status \notin Open
  /\ ~recovery \/ steps[r][i].code # NoCode

\* finishExecutionReceipt: what a passing deploy step must show.
DeployProven(r, i, code, recovery) ==
  /\ steps[r][i].gen # NoGen
  /\ code = 0
  /\ recovery \/ runs[r].status = "running"
  /\ runs[r].target # NoTarget /\ Owns(runs[r].target, r, i)

\* nil when the receipt is recorded, or was before.
ReceiptOK(r, i, status, code, recovery) ==
  \/ ReceiptKept(r, i, recovery)
  \/ steps[r][i].kind = "deploy" /\ status = "passed" => DeployProven(r, i, code, recovery)

MutFreed(r, i) == {}   \* mutant: a receipt does not release the target

\* finishExecutionReceipt: the targets the receipt releases.
Freed(r, i) ==
  {t \in Targets : steps[r][i].kind = "deploy" /\ steps[r][i].gen # NoGen /\ Owns(t, r, i)}

MutRaised(latest, r) == r   \* mutant: the latest receipt wins

\* finishExecutionReceipt: GREATEST(latest_run_number, the run's number).
Raised(latest, r) == IF r > latest THEN r ELSE latest

MutShipped(r, i, status) ==   \* mutant: not when the run has ended
  steps[r][i].kind = "deploy" /\ status = "passed" /\ runs[r].status = "running"

\* The step has deployed.
Shipped(r, i, status) == steps[r][i].kind = "deploy" /\ status = "passed"

Receipt(r, i, status, code, recovery) ==
  LET shipped == Shipped(r, i, status) IN
  /\ steps[r][i].status # "none"
  /\ ~ReceiptKept(r, i, recovery)
  /\ shipped => DeployProven(r, i, code, recovery)
  /\ steps' = [steps EXCEPT ![r][i].status = status, ![r][i].code = code]
  /\ targets' = [t \in Targets |->
       [owner  |-> IF t \in Freed(r, i) THEN NoOwner ELSE targets[t].owner,
        gen    |-> targets[t].gen,
        latest |-> IF shipped /\ t = runs[r].target
                   THEN Raised(targets[t].latest, r) ELSE targets[t].latest]]
  /\ deployments' = IF shipped THEN deployments \cup {<<runs[r].target, r, i>>}
                    ELSE deployments
  /\ UNCHANGED <<runs, workers, counter, maintenance, op>>

MutResults ==   \* mutant: a superseded deployment has a status of its own
  {<<"passed", 0>>, <<"failed", 1>>, <<"failed", NoCode>>,
   <<"cancelled", NoCode>>, <<"superseded", NoCode>>}

\* What runStep returns: the code is there when the step's container ran.
Results ==
  {<<"passed", 0>>, <<"failed", 1>>, <<"failed", NoCode>>,
   <<"cancelled", NoCode>>, <<"skipped", NoCode>>}

StepFinished(r, i, x) == Receipt(r, i, x[1], x[2], FALSE)

\* Recovery reports the exit a retained container shows.
RecoverStepExit(r, i, code) ==
  /\ steps[r][i].planned \/ steps[r][i].created
  /\ Receipt(r, i, IF code = 0 THEN "passed" ELSE "failed", code, TRUE)

RemoveMark(s) == [s EXCEPT !.removed = @ \/ s.planned]

ContainerRemoved(r, i) == SetStep(r, i, RemoveMark(steps[r][i]))

\* The second transaction of ConfirmContainersRemoved.
AllRemoved(r) ==
  /\ steps' = [steps EXCEPT ![r] = [i \in Steps |-> RemoveMark(steps[r][i])]]
  /\ UNCHANGED <<runs, targets, deployments, workers, counter, maintenance, op>>

MutStopDeploy(s) == s   \* mutant: the owner is released, its step left running

\* confirmExecutionStoppedTx
StopDeploy(s) ==
  IF s.kind = "deploy" /\ s.status = "running" THEN [s EXCEPT !.status = "failed"] ELSE s

Released(S) ==
  [t \in Targets |->
     IF targets[t].owner[1] \in S THEN [targets[t] EXCEPT !.owner = NoOwner] ELSE targets[t]]

ConfirmExecutionStopped(r) ==
  /\ steps' = [steps EXCEPT ![r] = [i \in Steps |-> StopDeploy(steps[r][i])]]
  /\ targets' = Released({r})
  /\ UNCHANGED <<runs, deployments, workers, counter, maintenance, op>>

MutFinishRuns(S, status, runningBecomes, pendingBecomes) ==   \* mutant: the token stays
  /\ runs' = [r \in Runs |->
       IF r \in S THEN [runs[r] EXCEPT !.status = status] ELSE runs[r]]
  /\ steps' = [r \in Runs |->
       IF r \in S THEN Settle(steps[r], runningBecomes, pendingBecomes) ELSE steps[r]]

\* finishRunRow and settleOpenSteps of the runs in S.
FinishRuns(S, status, runningBecomes, pendingBecomes) ==
  /\ runs' = [r \in Runs |->
       IF r \in S THEN [runs[r] EXCEPT !.status = status, !.token = FALSE] ELSE runs[r]]
  /\ steps' = [r \in Runs |->
       IF r \in S THEN Settle(steps[r], runningBecomes, pendingBecomes) ELSE steps[r]]

MutMayFinish(r) == runs[r].status \notin {"absent", "queued", "pruned"}   \* mutant: twice

MayFinish(r) == runs[r].status = "running"

Finish(r, status) ==
  /\ MayFinish(r)
  /\ IF status = "cancelled" THEN FinishRuns({r}, status, "cancelled", "cancelled")
     ELSE FinishRuns({r}, status, "failed", "skipped")
  /\ UNCHANGED <<targets, deployments, workers, counter, maintenance, op>>

\* Cancel: a queued run ends at once, a running one is flagged.
Cancel(r) ==
  /\ \/ /\ runs[r].status = "queued"
        /\ runs' = [runs EXCEPT ![r].status = "cancelled"]
        /\ steps' = [steps EXCEPT ![r] = Settle(steps[r], "cancelled", "cancelled")]
     \/ /\ runs[r].status = "running"
        /\ runs' = [runs EXCEPT ![r].cancel = TRUE]
        /\ UNCHANGED steps
  /\ UNCHANGED <<targets, deployments, workers, counter, maintenance, op>>

----------------------------------------------------------------------------
(* Workers.                                                                *)

SetWorker(w, row, beat) ==
  /\ workers' = [workers EXCEPT ![w] = [row |-> row, beat |-> beat]]
  /\ UNCHANGED <<runs, steps, targets, deployments, counter, maintenance, op>>

RegisterWorker(w) == SetWorker(w, "up", "fresh")

Heartbeat(w) == workers[w].row # "absent" /\ SetWorker(w, workers[w].row, "fresh")

StopWorker(w) == workers[w].row # "absent" /\ SetWorker(w, "stopped", workers[w].beat)

\* The clock passes one minute, then five, since the last heartbeat.
BeatAges(w) ==
  /\ workers[w].row # "absent" /\ workers[w].beat # "lost"
  /\ SetWorker(w, workers[w].row, IF workers[w].beat = "fresh" THEN "late" ELSE "lost")

Gone(w) == workers[w].row = "stopped" \/ workers[w].beat = "lost"

LostRuns == {r \in Runs : runs[r].status = "running" /\ Gone(runs[r].worker)}

\* S: rows locked by another transaction are skipped.
FailLostRuns(S) ==
  /\ S # {} /\ S \subseteq LostRuns
  /\ FinishRuns(S, "failed", "failed", "skipped")
  /\ UNCHANGED <<targets, deployments, workers, counter, maintenance, op>>

Unremoved(s) == s.planned /\ ~s.removed

HasContainer(r) == \E i \in Steps : Unremoved(steps[r][i])

\* The operator releases every run of a worker confirmed gone, or only one.
ReleaseLostWorker(w, only) ==
  LET own == {r \in only : runs[r].worker = w}
      listed == {r \in own : runs[r].status = "running" \/ HasContainer(r)}
      failed == {r \in listed : runs[r].status = "running"}
  IN
  /\ workers[w].row # "absent" /\ Gone(w)
  /\ only = Runs \/ listed # {}
  /\ runs' = [r \in Runs |->
       IF r \in failed THEN [runs[r] EXCEPT !.status = "failed", !.token = FALSE] ELSE runs[r]]
  /\ steps' = [r \in Runs |-> [i \in Steps |->
       IF r \in failed
       THEN RemoveMark(StopDeploy(SettleStep(steps[r][i], "failed", "skipped")))
       ELSE IF r \in listed THEN RemoveMark(steps[r][i]) ELSE steps[r][i]]]
  /\ targets' = Released(own)
  /\ workers' = [workers EXCEPT ![w].row = "stopped"]
  /\ UNCHANGED <<deployments, counter, maintenance, op>>

----------------------------------------------------------------------------
(* Retention, repository operations, maintenance.                          *)

Owned(r) == \E t \in Targets : targets[t].owner[1] = r

\* deleteOldRuns.  Which runs are old enough, and which one a ref's head
\* keeps, is left open.
PruneRun(r) ==
  /\ runs[r].status \in Ended
  /\ ~HasContainer(r) /\ ~Owned(r)
  /\ runs' = [runs EXCEPT ![r] = [AbsentRun EXCEPT !.status = "pruned"]]
  /\ steps' = [steps EXCEPT ![r] = NoSteps]
  /\ UNCHANGED <<targets, deployments, workers, counter, maintenance, op>>

MutUnused(w) ==   \* mutant: containers do not keep the worker
  \A r \in Runs : runs[r].worker = w => runs[r].status # "running" /\ ~Owned(r)

\* No run of the worker is left to account for.
Unused(w) ==
  \A r \in Runs : runs[r].worker = w =>
     runs[r].status # "running" /\ ~HasContainer(r) /\ ~Owned(r)

\* deleteGoneWorkers: the retention age is far past WorkerLostAfter.
PruneWorker(w) ==
  /\ workers[w].row # "absent" /\ Gone(w) /\ Unused(w)
  /\ workers' = [workers EXCEPT ![w].row = "absent"]
  /\ runs' = [r \in Runs |->
       IF runs[r].worker = w THEN [runs[r] EXCEPT !.worker = NoWorker] ELSE runs[r]]
  /\ UNCHANGED <<steps, targets, deployments, counter, maintenance, op>>

\* PruneRetention deletes old deployments, never a target's latest; which
\* are old enough, and the order they were recorded in, is left open.
PruneDeployment(d) ==
  /\ \E e \in deployments : e # d /\ e[1] = d[1]
  /\ deployments' = deployments \ {d}
  /\ UNCHANGED <<runs, steps, targets, workers, counter, maintenance, op>>

\* What BeginOperation requires before it records the intent to delete.
Quiet ==
  /\ \A r \in Runs : runs[r].status # "running" /\ ~HasContainer(r)
  /\ \A t \in Targets : targets[t].owner = NoOwner

BeginOperation(kind) ==
  /\ ~maintenance /\ op = "none"
  /\ kind = "delete" => Quiet
  /\ op' = kind
  /\ UNCHANGED <<runs, steps, targets, deployments, workers, counter, maintenance>>

\* Completed without touching runs, rejected, or abandoned by an operator.
EndOperation ==
  /\ op \in {"push", "change", "delete"}
  /\ op' = "none"
  /\ UNCHANGED <<runs, steps, targets, deployments, workers, counter, maintenance>>

\* deleteRepoRow: foreign keys take every row of the repository along.
DeleteRepo ==
  /\ op = "delete"
  /\ op' = "deleted"
  /\ runs' = [r \in Runs |-> [AbsentRun EXCEPT !.status =
                IF runs[r].status = "absent" THEN "absent" ELSE "pruned"]]
  /\ steps' = [r \in Runs |-> NoSteps]
  /\ targets' = [t \in Targets |-> FreeTarget]
  /\ deployments' = {}
  /\ UNCHANGED <<workers, counter, maintenance>>

SetMaintenance(on) ==
  /\ maintenance' = on
  /\ UNCHANGED <<runs, steps, targets, deployments, workers, counter, op>>

----------------------------------------------------------------------------

StepNext(r, i) ==
  \/ StepStarted(r, i)
  \/ PlanContainer(r, i)
  \/ BeginDeployment(r, i)
  \/ ContainerCreated(r, i)
  \/ \E x \in Results : StepFinished(r, i, x)
  \/ \E code \in Codes \ {NoCode} : RecoverStepExit(r, i, code)
  \/ ContainerRemoved(r, i)

RunNext(r) ==
  \/ \E w \in Workers : ClaimNext(w, r)
  \/ DeadlinePasses(r)
  \/ \E i \in Steps : StepNext(r, i)
  \/ AllRemoved(r)
  \/ ConfirmExecutionStopped(r)
  \/ \E status \in Ended : Finish(r, status)
  \/ Cancel(r)
  \/ PruneRun(r)

WorkerNext(w) ==
  \/ RegisterWorker(w)
  \/ Heartbeat(w)
  \/ StopWorker(w)
  \/ BeatAges(w)
  \/ \E only \in {Runs} \cup {{r} : r \in Runs} : ReleaseLostWorker(w, only)
  \/ PruneWorker(w)

RepoNext ==
  \/ \E f \in Refs, p \in Plans : Start(f, p) \/ PushRun(f, p)
  \/ \E f \in Refs : PushDeletesRef(f)
  \/ \E S \in SUBSET Runs : FailLostRuns(S)
  \/ \E d \in deployments : PruneDeployment(d)
  \/ \E kind \in {"push", "change", "delete"} : BeginOperation(kind)
  \/ EndOperation
  \/ DeleteRepo
  \/ SetMaintenance(~maintenance)

Next ==
  \/ \E r \in Runs : RunNext(r)
  \/ \E w \in Workers : WorkerNext(w)
  \/ RepoNext

Spec == Init /\ [][Next]_store

----------------------------------------------------------------------------
(* What the store guarantees, whatever its clients do.                     *)

\* A run that ended has no step left pending or running: settleOpenSteps
\* runs in every transaction that ends a run, and no step starts afterwards.
EndedSettled ==
  \A r \in Runs : runs[r].status \in Ended =>
     \A i \in Steps : steps[r][i].status \notin Open

\* The worker a run was handed to is still in the table.
WorkerKnown(r) == runs[r].worker # NoWorker /\ workers[runs[r].worker].row # "absent"

\* A run is handed out with a worker whose row stays while it runs, and its
\* fetch token works exactly while it runs: FailLostRuns joins on that row,
\* AuthenticateFetch looks the token up.
RunningAccounted ==
  \A r \in Runs :
     /\ runs[r].token <=> runs[r].status = "running"
     /\ runs[r].status = "running" => WorkerKnown(r)

OwnerOK(t, r, i) ==
  /\ runs[r].target = t
  /\ steps[r][i].kind = "deploy"
  /\ steps[r][i].gen = targets[t].gen /\ targets[t].gen # NoGen
  /\ steps[r][i].code = NoCode
  /\ WorkerKnown(r)

\* A target's owner is a deploy step of a run for that target, holds the
\* current generation, and has no receipt yet; and the row of its worker is
\* still there for ReleaseLostWorker to find.
OwnerConsistent ==
  \A t \in Targets : \A r \in Runs, i \in Steps :
     targets[t].owner = <<r, i>> => OwnerOK(t, r, i)

\* A container that was planned and not confirmed removed can still be
\* found by RecoveryRuns: neither its run's row nor its worker's is pruned.
ContainersRecoverable ==
  \A r \in Runs : HasContainer(r) => WorkerKnown(r)

\* Only a passed deploy step is recorded as a deployment, and a target that
\* was deployed to keeps one, whatever retention removes.
DeploymentsPassed ==
  \A r \in Runs, i \in Steps :
     /\ steps[r][i].kind = "deploy" /\ steps[r][i].status = "passed" =>
          \E q \in Runs, j \in Steps : <<runs[r].target, q, j>> \in deployments
     /\ \A t \in Targets : <<t, r, i>> \in deployments =>
          \/ runs[r].status = "pruned"
          \/ steps[r][i].kind = "deploy" /\ steps[r][i].status = "passed"

\* latest_run_number covers every deployment of the target, and an automatic
\* run that owns the target is not older than it: BeginDeployment checked.
LatestCovers ==
  \A t \in Targets :
     /\ \A r \in Runs, i \in Steps : <<t, r, i>> \in deployments => r <= targets[t].latest
     /\ \A r \in Runs, i \in Steps :
          targets[t].owner = <<r, i>> /\ runs[r].trigger = "push" => targets[t].latest <= r

\* From the intent to delete a repository until its rows are gone nothing of
\* it runs, no container of it may exist and no target is owned.
DeleteQuiesced == op \in {"delete", "deleted"} => Quiet

\* At most one run of a ref waits: a newer one supersedes the older.
OneQueuedPerRef == \A f \in Refs : \A q, r \in QueuedOn(f) : q = r

\* The queued and running runs of a repository never exceed its budget:
\* CreateTx counts them before it inserts, and runs are created one at a time.
PendingBounded == Cardinality(PendingRuns) <= MaxPending

\* A run not created yet has no row, and a run without a row has no steps.
Unborn ==
  \A r \in Runs :
     /\ r > counter => runs[r].status = "absent"
     /\ runs[r].status \in {"absent", "pruned"} =>
          \A i \in Steps : steps[r][i].status = "none" /\ steps[r][i].kind = "none"

\* A receipt settles its step, passing needs exit code 0, and a step that
\* was given a generation has started.
ReceiptShape ==
  \A r \in Runs, i \in Steps :
     /\ steps[r][i].code # NoCode => steps[r][i].status \in Ended
     /\ steps[r][i].status = "passed" => steps[r][i].code = 0
     /\ steps[r][i].gen # NoGen => steps[r][i].status \notin {"none", "pending"}

\* Only a run handed to a worker has started, planned or deploying steps.
StartedClaimed ==
  \A r \in Runs, i \in Steps :
     \/ steps[r][i].status = "running" \/ steps[r][i].planned
     \/ steps[r][i].created \/ steps[r][i].gen # NoGen
     => runs[r].status \in Ended \cup {"running"}

\* The inductive invariant: every transaction preserves it, from any state
\* that satisfies it.
IInv ==
  /\ TypeOK
  /\ Unborn
  /\ EndedSettled
  /\ RunningAccounted
  /\ ReceiptShape
  /\ StartedClaimed
  /\ ContainersRecoverable
  /\ OwnerConsistent
  /\ DeploymentsPassed
  /\ LatestCovers
  /\ DeleteQuiesced
  /\ OneQueuedPerRef

\* A run that ended never changes its status again, until it is pruned: a
\* late worker, a second Finish or a reaper cannot rewrite the result.
EndedIsFinal ==
  \A r \in Runs : runs[r].status \in Ended =>
     runs'[r].status \in {runs[r].status, "pruned"}

\* A recorded exit code is never replaced, nor the status it came with: late
\* and repeated receipts, of the worker or of recovery, are idempotent.
ReceiptIsFinal ==
  \A r \in Runs, i \in Steps : steps[r][i].code # NoCode =>
     \/ steps'[r][i].code = steps[r][i].code /\ steps'[r][i].status = steps[r][i].status
     \/ runs'[r].status = "pruned"

\* Target ownership ends only in a transaction that leaves the owner's step
\* settled, and passes to another step only by way of a free target.
OwnerHandover ==
  \A t \in Targets : \A r \in Runs, i \in Steps :
     targets[t].owner = <<r, i>> /\ targets'[t].owner # <<r, i>> =>
        targets'[t].owner = NoOwner /\ steps'[r][i].status \notin Open

\* "Older automatic runs cannot deploy over a newer successful run."
NewerDeploymentWins ==
  \A t \in Targets : \A r, q \in Runs, i, j \in Steps :
     /\ <<t, r, i>> \in deployments' \ deployments
     /\ runs[r].trigger = "push"
     /\ <<t, q, j>> \in deployments
     => q <= r

\* A deploy step passes in the transaction that records its deployment, also
\* when its run was failed before the receipt arrived.
DeployRecorded ==
  \A r \in Runs, i \in Steps :
     /\ steps[r][i].kind = "deploy"
     /\ steps[r][i].status # "passed" /\ steps'[r][i].status = "passed"
     => <<runs[r].target, r, i>> \in deployments'

\* No step of the specification rewrites the result of a run.
EndedStaysFinal == [][EndedIsFinal]_store

\* No step of the specification rewrites a receipt.
ReceiptStaysFinal == [][ReceiptIsFinal]_store

\* No step of the specification takes a target from a step that is open.
OwnerHandedOver == [][OwnerHandover]_store

\* No step of the specification records an automatic deployment of a run
\* older than one already deployed to the target.
NewerDeploymentStays == [][NewerDeploymentWins]_store

\* No step of the specification passes a deploy step without its deployment.
DeploysRecorded == [][DeployRecorded]_store
============================================================================
