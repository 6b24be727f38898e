----------------------------- MODULE Execution -----------------------------
(***************************************************************************)
(* How workers execute runs: the processes of package worker, the Docker   *)
(* engines they drive, the lock files and workspaces on their hosts, and   *)
(* the failures between them.  Every database call is a transaction of     *)
(* CIStore, so every behaviour of ExecSpec is one of CIStore's Spec.       *)
(*                                                                         *)
(* A worker process is its main loop (drain, recoverExecutions, handle,    *)
(* execute, run, runStep) in proc, its cleanup goroutine (RemoveLeftovers) *)
(* in clean, and its heartbeat goroutine in link.                          *)
(***************************************************************************)
EXTENDS CIStore

CONSTANTS
  Engines,     \* Docker hosts, each with one workspace root
  Engine,      \* the host a worker runs on
  Triggers,    \* how runs are created: "push", "manual"
  Cleaners,    \* the workers whose cleanup goroutine is explored
  Frail,       \* the workers that may crash, be stopped or be cut off
  Faults,      \* what may go wrong
  MaxFaults    \* bound on how often

FaultKinds == {"crash", "shutdown", "db", "docker", "disk", "cut", "cancel", "release"}

ASSUME ExecConstantsOK ==
  /\ Engine \in [Workers -> Engines]
  /\ Triggers \subseteq {"push", "manual"}
  /\ Cleaners \subseteq Workers /\ Frail \subseteq Workers
  /\ Faults \subseteq FaultKinds
  /\ MaxFaults \in Nat

VARIABLES
  proc,     \* the main loop of each worker
  clean,    \* the cleanup goroutine of each worker
  link,     \* whether a worker reaches the database, and for how long
  box,      \* the container of each step on each engine
  lock,     \* .execution-locks/<run> on each host
  ws,       \* the workspace directory of each run on each host
  faults    \* how many faults happened

host == <<box, lock, ws>>
exec == <<proc, clean, link, box, lock, ws, faults>>
vars == <<store, exec>>

----------------------------------------------------------------------------
(* Rows.                                                                   *)

Free == <<NoWorker, "none">>
Held(w, who) == <<w, who>>

BoxState == {"none", "created", "running", "exited0", "exited1"}
Exited == {"exited0", "exited1"}
ExitCode(s) == IF s = "exited0" THEN 0 ELSE 1

Dead == {"unborn", "dead"}
\* Where execute holds the run's lock.
Inside == {"fetch", "next", "plan", "begin", "create", "created", "start", "wait", "cleanup",
           "receipt", "rm", "removed"}
Recovering == {"rstop", "rfinish", "rremove"}
MainPC == Dead \cup Inside \cup Recovering \cup
          {"idle", "recover", "ready", "claimed", "finish", "sweep"}

NoRun == 0
NoOutcome == "none"
NoResult == <<"none", NoCode>>

\* A row of RecoveryRuns.
Interrupted == [run : Runs, boxes : SUBSET Steps, foreign : BOOLEAN]

Process ==
  [ pc   : MainPC,
    quit : BOOLEAN,                          \* the process was told to stop
    list : SUBSET Interrupted,               \* recoverExecutions: runs to go
    run  : Runs \cup {NoRun},
    todo : SUBSET Steps,                     \* steps to execute, or boxes to handle
    all  : SUBSET Steps,                     \* recoverExecutions: run.Containers
    stop : {"no", "cancel", "fail"},         \* context.Cause(runCtx)
    x    : Results \cup {NoResult},          \* what runStep returned
    out  : Ended \cup {NoOutcome} ]          \* the outcome so far

Sleeping(pc, quit) ==
  [pc |-> pc, quit |-> quit, list |-> {}, run |-> NoRun, todo |-> {}, all |-> {},
   stop |-> "no", x |-> NoResult, out |-> NoOutcome]

\* A pass of RemoveLeftovers.
Sweep ==
  [ pc    : {"idle", "query", "lock", "stop"},
    quiet : SUBSET Workers,                  \* silent when the pass began
    boxes : SUBSET (Runs \X Steps),          \* listed, not handled yet
    dirs  : SUBSET Runs,                     \* workspaceRuns
    todo  : SUBSET Runs,                     \* to lock
    held  : SUBSET Runs,                     \* locked and not blocked
    seen  : SUBSET (Runs \X Steps),          \* exits recorded
    conf  : SUBSET Runs,                     \* ConfirmExecutionStopped done
    done  : SUBSET Runs ]                    \* ConfirmContainersRemoved done

NoSweep ==
  [pc |-> "idle", quiet |-> {}, boxes |-> {}, dirs |-> {}, todo |-> {}, held |-> {}, seen |-> {},
   conf |-> {}, done |-> {}]

\* The processes, hosts and connections have their types.
ExecTypeOK ==
  /\ proc \in [Workers -> Process]
  /\ clean \in [Workers -> Sweep]
  /\ link \in [Workers -> [cut : BOOLEAN, healthy : BOOLEAN]]
  /\ box \in [Engines -> [Runs -> [Steps -> BoxState]]]
  /\ lock \in [Engines -> [Runs -> {Free} \cup (Workers \X {"main", "clean"})]]
  /\ ws \in [Engines -> [Runs -> BOOLEAN]]
  /\ faults \in 0 .. MaxFaults

ExecInit ==
  /\ Init
  /\ proc = [w \in Workers |-> Sleeping("unborn", FALSE)]
  /\ clean = [w \in Workers |-> NoSweep]
  /\ link = [w \in Workers |-> [cut |-> FALSE, healthy |-> FALSE]]
  /\ box = [e \in Engines |-> [r \in Runs |-> [i \in Steps |-> "none"]]]
  /\ lock = [e \in Engines |-> [r \in Runs |-> Free]]
  /\ ws = [e \in Engines |-> [r \in Runs |-> FALSE]]
  /\ faults = 0

----------------------------------------------------------------------------
(* Faults, calls and moves.                                                *)

Fault(kind) == kind \in Faults /\ faults < MaxFaults /\ faults' = faults + 1

\* A database call of worker w: it commits and answers; or it commits and
\* the answer is lost; or it fails, always when w is cut off.
Call(w, tx, good, bad) ==
  \/ ~link[w].cut /\ tx /\ good /\ UNCHANGED faults
  \/ ~link[w].cut /\ tx /\ bad /\ Fault("db")
  \/ /\ UNCHANGED store /\ bad
     /\ (link[w].cut /\ UNCHANGED faults) \/ Fault("db")

\* The call runs under runCtx: once that has ended it fails at once.
RunCall(w, tx, good, bad) ==
  IF proc[w].stop = "no" THEN Call(w, tx, good, bad)
  ELSE UNCHANGED store /\ bad /\ UNCHANGED faults

Go(w, p) == proc' = [proc EXCEPT ![w] = p] /\ UNCHANGED host

Unlocked(w, who, S) ==
  [e \in Engines |-> [r \in Runs |->
     IF r \in S /\ lock[e][r] = Held(w, who) THEN Free ELSE lock[e][r]]]

\* Back in drain, every lock of the main loop released.
Back(w) ==
  /\ proc' = [proc EXCEPT ![w] = Sleeping("idle", proc[w].quit)]
  /\ lock' = Unlocked(w, "main", Runs)
  /\ UNCHANGED <<box, ws>>

\* execute returns outcome o: its lock is released before Finish.
Leave(w, o) ==
  /\ proc' = [proc EXCEPT ![w].pc = "finish", ![w].out = o, ![w].x = NoResult]
  /\ lock' = Unlocked(w, "main", Runs)
  /\ UNCHANGED <<box, ws>>

MutRecoveryRequired(w) == Leave(w, "failed")   \* mutant: the run ends regardless

\* Outcome.RecoveryRequired: nothing more is recorded or removed here.
RecoveryRequired(w) == Back(w)

\* runStep returns result x, with outcome o ending the run.
Return(w, x, o) == Go(w, [proc[w] EXCEPT !.pc = "receipt", !.x = x, !.out = o])

At(w, pc) == proc[w].pc = pc

Mine(w) == proc[w].run

CurrentStep(w) == CHOOSE i \in proc[w].todo : \A j \in proc[w].todo : i <= j

SetBox(w, r, i, s) == box' = [box EXCEPT ![Engine[w]][r][i] = s]

MyBox(w) == box[Engine[w]][Mine(w)][CurrentStep(w)]

----------------------------------------------------------------------------
(* The main loop: recovery.                                                *)

Boot(w) ==
  /\ At(w, "unborn")
  /\ RegisterWorker(w)
  /\ Go(w, Sleeping("idle", FALSE))
  /\ UNCHANGED <<clean, link, faults>>

\* RecoveryRuns: this worker's, and those of gone or late ones on its engine.
RecoveryRuns(w) ==
  {[run |-> r, boxes |-> {i \in Steps : Unremoved(steps[r][i])},
    foreign |-> runs[r].worker # w] :
   r \in {q \in Runs :
            /\ WorkerKnown(q)
            /\ \/ runs[q].worker = w
               \/ /\ Engine[runs[q].worker] = Engine[w]
                  /\ \/ workers[runs[q].worker].row = "stopped"
                     \/ workers[runs[q].worker].beat # "fresh"
            /\ runs[q].status = "running" \/ HasContainer(q)}}

Survey(w) ==
  /\ At(w, "idle") /\ ~link[w].cut
  /\ LET found == RecoveryRuns(w)
     IN Go(w, [proc[w] EXCEPT !.pc = IF found = {} THEN "ready" ELSE "recover",
                              !.list = found])
  /\ UNCHANGED <<store, clean, link, faults>>

RecoverLock(w) ==
  /\ At(w, "recover") /\ proc[w].list # {}
  /\ \E d \in proc[w].list :
       IF (d.foreign /\ ~link[w].healthy) \/ lock[Engine[w]][d.run] # Free THEN Back(w)
       ELSE /\ proc' = [proc EXCEPT ![w].pc = "rstop", ![w].list = @ \ {d}, ![w].run = d.run,
                                    ![w].todo = d.boxes, ![w].all = d.boxes]
            /\ lock' = [lock EXCEPT ![Engine[w]][d.run] = Held(w, "main")]
            /\ UNCHANGED <<box, ws>>
  /\ UNCHANGED <<store, clean, link, faults>>

\* finishExecutionReceipt of an exit the engine retained.
ExitStatus(s) == IF s = "exited0" THEN "passed" ELSE "failed"

MutExitRecorded(r, i, s) == UNCHANGED store   \* mutant: the exit is dropped

ExitRecorded(r, i, s) ==
  IF ReceiptKept(r, i, TRUE) THEN UNCHANGED store ELSE RecoverStepExit(r, i, ExitCode(s))

ExitAccepted(r, i, s) == ReceiptOK(r, i, ExitStatus(s), ExitCode(s), TRUE)

Handled(w, i) == [proc[w] EXCEPT !.todo = @ \ {i}]

MutHalted(s) == s \notin Exited   \* mutant: a script that still runs will do

\* stopRetained found nothing that runs, and no exit to record.
Halted(s) == s \in {"none", "created"}

\* stopRetained kills what runs; RecoverStepExit records what exited.
RecoverBox(w) ==
  /\ At(w, "rstop")
  /\ \E i \in proc[w].todo :
       LET r == Mine(w)
           s == box[Engine[w]][r][i]
       IN \/ /\ Halted(s)
             /\ Go(w, Handled(w, i)) /\ UNCHANGED <<store, faults>>
          \/ /\ s = "running"
             /\ SetBox(w, r, i, "exited1") /\ UNCHANGED <<proc, lock, ws, store, faults>>
          \/ /\ s = "running"
             /\ Fault("docker") /\ Back(w) /\ UNCHANGED store
          \/ /\ s \in Exited /\ ExitAccepted(r, i, s)
             /\ Call(w, ExitRecorded(r, i, s), Go(w, Handled(w, i)), Back(w))
          \/ /\ s \in Exited /\ ~ExitAccepted(r, i, s)
             /\ Back(w) /\ UNCHANGED <<store, faults>>
  /\ UNCHANGED <<clean, link>>

RecoverStopped(w) ==
  /\ At(w, "rstop") /\ proc[w].todo = {}
  /\ Call(w, ConfirmExecutionStopped(Mine(w)), Go(w, [proc[w] EXCEPT !.pc = "rfinish"]), Back(w))
  /\ UNCHANGED <<clean, link>>

Ending(r, status) == IF MayFinish(r) THEN Finish(r, status) ELSE UNCHANGED store

RecoverFinish(w) ==
  /\ At(w, "rfinish")
  /\ Call(w, Ending(Mine(w), "failed"),
          Go(w, [proc[w] EXCEPT !.pc = "rremove", !.todo = proc[w].all]), Back(w))
  /\ UNCHANGED <<clean, link>>

RecoverRemove(w) ==
  /\ At(w, "rremove")
  /\ \E i \in proc[w].todo :
       LET r == Mine(w)
           s == box[Engine[w]][r][i]
       IN \/ /\ s # "none"
             /\ SetBox(w, r, i, "none") /\ UNCHANGED <<proc, lock, ws, store, faults>>
          \/ /\ s # "none"
             /\ Fault("docker") /\ Back(w) /\ UNCHANGED store
          \/ /\ s = "none"
             /\ Call(w, ContainerRemoved(r, i), Go(w, Handled(w, i)), Back(w))
  /\ UNCHANGED <<clean, link>>

\* The locks of all recovered runs are kept until recoverExecutions returns.
RecoverSweep(w) ==
  /\ At(w, "rremove") /\ proc[w].todo = {}
  /\ ws' = [ws EXCEPT ![Engine[w]][Mine(w)] = FALSE]
  /\ IF proc[w].list # {}
     THEN /\ proc' = [proc EXCEPT ![w].pc = "recover", ![w].run = NoRun, ![w].all = {}]
          /\ UNCHANGED lock
     ELSE /\ proc' = [proc EXCEPT ![w] = Sleeping("ready", proc[w].quit)]
          /\ lock' = Unlocked(w, "main", Runs)
  /\ UNCHANGED <<store, clean, link, box, faults>>

\* Once the process was told to stop, every call of recovery fails.
RecoverAbort(w) ==
  /\ proc[w].quit /\ proc[w].pc \in Recovering \cup {"recover"}
  /\ Back(w)
  /\ UNCHANGED <<store, clean, link, faults>>

RecoverNext(w) ==
  \/ /\ ~proc[w].quit
     /\ \/ Survey(w) \/ RecoverLock(w) \/ RecoverBox(w) \/ RecoverStopped(w)
        \/ RecoverFinish(w) \/ RecoverRemove(w) \/ RecoverSweep(w)
  \/ RecoverAbort(w)

----------------------------------------------------------------------------
(* The main loop: executing a run.                                         *)

PendingSteps(r) == {i \in Steps : steps[r][i].status = "pending"}

Claim(w) ==
  /\ At(w, "ready") /\ ~proc[w].quit
  /\ \E r \in Runs :
       Call(w, ClaimNext(w, r),
            Go(w, [proc[w] EXCEPT !.pc = "claimed", !.run = r, !.todo = PendingSteps(r)]),
            Back(w))
  /\ UNCHANGED <<clean, link>>

ClaimNothing(w) ==
  /\ At(w, "ready")
  /\ proc[w].quit \/ link[w].cut \/ \A r \in Runs : ~Claimable(w, r)
  /\ Back(w)
  /\ UNCHANGED <<store, clean, link, faults>>

MutStopOutcome(w) ==   \* mutant: a timeout is a status of its own
  IF proc[w].stop = "cancel" THEN "cancelled" ELSE "timeout"

\* How interrupted reads the end of runCtx.
StopOutcome(w) == IF proc[w].stop = "cancel" THEN "cancelled" ELSE "failed"

\* execute reserves the run on its host, or leaves it to recovery.
Enter(w) ==
  /\ At(w, "claimed")
  /\ IF lock[Engine[w]][Mine(w)] # Free THEN RecoveryRequired(w)
     ELSE /\ lock' = [lock EXCEPT ![Engine[w]][Mine(w)] = Held(w, "main")]
          /\ proc' = [proc EXCEPT ![w].pc = "fetch"]
          /\ UNCHANGED <<box, ws>>
  /\ UNCHANGED <<store, clean, link, faults>>

\* The secrets, the workspace, the commit and the images: any may fail.
Fetch(w) ==
  /\ At(w, "fetch")
  /\ \/ /\ proc[w].stop = "no"
        /\ ws' = [ws EXCEPT ![Engine[w]][Mine(w)] = TRUE]
        /\ proc' = [proc EXCEPT ![w].pc = "next"]
        /\ UNCHANGED <<box, lock>>
     \/ /\ \E made \in BOOLEAN : ws' = [ws EXCEPT ![Engine[w]][Mine(w)] = made]
        /\ \E o \in {"failed", StopOutcome(w)} :
             proc' = [proc EXCEPT ![w].pc = "finish", ![w].out = o]
        /\ lock' = Unlocked(w, "main", Runs)
        /\ UNCHANGED box
  /\ UNCHANGED <<store, clean, link, faults>>

StartStep(w) ==
  /\ At(w, "next")
  /\ LET r == Mine(w)
         i == CurrentStep(w)
     IN \/ /\ proc[w].todo = {}
           /\ Leave(w, "passed") /\ UNCHANGED <<store, faults>>
        \/ /\ proc[w].todo # {} /\ MayStart(r, i)
           /\ Call(w, StepStarted(r, i), Go(w, [proc[w] EXCEPT !.pc = "plan"]), Leave(w, "failed"))
        \/ /\ proc[w].todo # {} /\ ~MayStart(r, i)
           /\ Call(w, UNCHANGED store, Leave(w, "cancelled"), Leave(w, "failed"))
  /\ UNCHANGED <<clean, link>>

Cancelled == <<"cancelled", NoCode>>
Failed == <<"failed", NoCode>>

PlanBox(w) ==
  /\ At(w, "plan")
  /\ LET r == Mine(w)
         i == CurrentStep(w)
         on == IF steps[r][i].kind = "deploy" THEN "begin" ELSE "create"
     IN IF MayPlan(r, i)
        THEN RunCall(w, PlanContainer(r, i), Go(w, [proc[w] EXCEPT !.pc = on]),
                     Return(w, Failed, "failed"))
        ELSE RunCall(w, UNCHANGED store, Return(w, Cancelled, "cancelled"),
                     Return(w, Failed, "failed"))
  /\ UNCHANGED <<clean, link>>

\* A busy target is asked for again every second until runCtx ends.
Begin(w) ==
  /\ At(w, "begin")
  /\ LET r == Mine(w)
         i == CurrentStep(w)
         answer == BeginAnswer(r, i)
     IN \/ /\ answer = "owned"
           /\ RunCall(w, BeginDeployment(r, i), Go(w, [proc[w] EXCEPT !.pc = "create"]),
                      Return(w, Failed, "failed"))
        \/ /\ answer = "superseded"
           /\ RunCall(w, UNCHANGED store, Return(w, <<"skipped", NoCode>>, "cancelled"),
                      Return(w, Failed, "failed"))
        \/ /\ answer = "ended"
           /\ RunCall(w, UNCHANGED store, Return(w, Cancelled, "cancelled"),
                      Return(w, Failed, "failed"))
        \/ /\ answer = "error" \/ link[w].cut
           /\ Return(w, Failed, "failed") /\ UNCHANGED <<store, faults>>
        \/ /\ answer = "busy" /\ Fault("db")
           /\ Return(w, Failed, "failed") /\ UNCHANGED store
        \/ /\ answer = "busy" /\ proc[w].stop # "no"
           /\ \E o \in {"failed", StopOutcome(w)} : Return(w, Failed, o)
           /\ UNCHANGED <<store, faults>>
  /\ UNCHANGED <<clean, link>>

\* docker create.  Its answer may be lost after the container exists.
Create(w) ==
  /\ At(w, "create")
  /\ \/ /\ proc[w].stop = "no"
        /\ SetBox(w, Mine(w), CurrentStep(w), "created")
        /\ proc' = [proc EXCEPT ![w].pc = "created"]
        /\ UNCHANGED faults
     \/ /\ (proc[w].stop # "no" /\ UNCHANGED faults) \/ Fault("docker")
        /\ \E s \in {"none", "created"} : SetBox(w, Mine(w), CurrentStep(w), s)
        /\ proc' = [proc EXCEPT ![w].pc = "cleanup"]
  /\ UNCHANGED <<store, clean, link, lock, ws>>

MutNotRecorded(w) == Go(w, [proc[w] EXCEPT !.pc = "start"])   \* mutant: started anyway

\* The container's ID could not be recorded.
NotRecorded(w) == Go(w, [proc[w] EXCEPT !.pc = "cleanup"])

Created(w) ==
  /\ At(w, "created")
  /\ LET r == Mine(w)
         i == CurrentStep(w)
     IN IF MayCreate(r, i)
        THEN RunCall(w, ContainerCreated(r, i), Go(w, [proc[w] EXCEPT !.pc = "start"]),
                     NotRecorded(w))
        ELSE RunCall(w, UNCHANGED store, NotRecorded(w), NotRecorded(w))
  /\ UNCHANGED <<clean, link>>

StartBox(w) ==
  /\ At(w, "start")
  /\ \/ /\ proc[w].stop = "no" /\ MyBox(w) = "created"
        /\ SetBox(w, Mine(w), CurrentStep(w), "running")
        /\ proc' = [proc EXCEPT ![w].pc = "wait"]
        /\ UNCHANGED faults
     \/ /\ \/ (proc[w].stop # "no" \/ MyBox(w) # "created") /\ UNCHANGED faults
           \/ Fault("docker")
        /\ proc' = [proc EXCEPT ![w].pc = "cleanup"]
        /\ UNCHANGED box
  /\ UNCHANGED <<store, clean, link, lock, ws>>

\* The retained state is the receipt; an ended runCtx discards it.
Wait(w) ==
  /\ At(w, "wait")
  /\ \/ /\ proc[w].stop = "no" /\ MyBox(w) \in Exited
        /\ Return(w, <<ExitStatus(MyBox(w)), ExitCode(MyBox(w))>>,
                  IF MyBox(w) = "exited0" THEN NoOutcome ELSE "failed")
        /\ UNCHANGED faults
     \/ /\ \/ (proc[w].stop # "no" \/ MyBox(w) = "none") /\ UNCHANGED faults
           \/ Fault("docker")
        /\ Go(w, [proc[w] EXCEPT !.pc = "cleanup"])
  /\ UNCHANGED <<store, clean, link>>

\* stopContainer after a failed Run; TerminationUnknown when that fails too.
Cleanup(w) ==
  /\ At(w, "cleanup")
  /\ \/ /\ SetBox(w, Mine(w), CurrentStep(w), "none")
        /\ proc' = [proc EXCEPT ![w].pc = "receipt", ![w].out = StopOutcome(w),
                      ![w].x = IF proc[w].stop = "cancel" THEN Cancelled ELSE Failed]
        /\ UNCHANGED <<lock, ws, faults>>
     \/ Fault("docker") /\ RecoveryRequired(w)
  /\ UNCHANGED <<store, clean, link>>

\* StepFinished, tried three times; then recovery is required.
Record(w) ==
  /\ At(w, "receipt")
  /\ LET r == Mine(w)
         i == CurrentStep(w)
         x == proc[w].x
     IN \/ /\ ReceiptOK(r, i, x[1], x[2], FALSE)
           /\ Call(w, IF ReceiptKept(r, i, FALSE) THEN UNCHANGED store ELSE StepFinished(r, i, x),
                   Go(w, [proc[w] EXCEPT !.pc = "rm"]), RecoveryRequired(w))
        \/ /\ ~ReceiptOK(r, i, x[1], x[2], FALSE)
           /\ RecoveryRequired(w) /\ UNCHANGED <<store, faults>>
  /\ UNCHANGED <<clean, link>>

RemoveBox(w) ==
  /\ At(w, "rm")
  /\ \/ /\ SetBox(w, Mine(w), CurrentStep(w), "none")
        /\ proc' = [proc EXCEPT ![w].pc = "removed"]
        /\ UNCHANGED <<lock, ws, faults>>
     \/ Fault("docker") /\ RecoveryRequired(w)
  /\ UNCHANGED <<store, clean, link>>

Removed(w) ==
  /\ At(w, "removed")
  /\ LET i == CurrentStep(w)
     IN Call(w, ContainerRemoved(Mine(w), i),
             IF proc[w].out = NoOutcome
             THEN Go(w, [proc[w] EXCEPT !.pc = "next", !.todo = @ \ {i}, !.x = NoResult])
             ELSE Leave(w, proc[w].out),
             RecoveryRequired(w))
  /\ UNCHANGED <<clean, link>>

\* Finish is retried for 30 seconds; the workspace goes once it is recorded.
FinishRun(w) ==
  /\ At(w, "finish")
  /\ Call(w, Ending(Mine(w), proc[w].out), Go(w, [proc[w] EXCEPT !.pc = "sweep"]), Back(w))
  /\ UNCHANGED <<clean, link>>

SweepRun(w) ==
  /\ At(w, "sweep")
  /\ proc' = [proc EXCEPT ![w] = Sleeping("idle", proc[w].quit)]
  /\ ws' = [ws EXCEPT ![Engine[w]][Mine(w)] = FALSE]
  /\ UNCHANGED <<store, clean, link, box, lock, faults>>

ExecuteNext(w) ==
  \/ Claim(w) \/ ClaimNothing(w) \/ Enter(w) \/ Fetch(w) \/ StartStep(w) \/ PlanBox(w) \/ Begin(w)
  \/ Create(w) \/ Created(w) \/ StartBox(w) \/ Wait(w) \/ Cleanup(w) \/ Record(w)
  \/ RemoveBox(w) \/ Removed(w) \/ FinishRun(w) \/ SweepRun(w)

----------------------------------------------------------------------------
(* The cleanup goroutine: RemoveLeftovers.                                 *)

SetSweep(w, c) == clean' = [clean EXCEPT ![w] = c]

\* Containers and workspaces are listed first, the running runs after.
SweepList(w) ==
  /\ w \in Cleaners /\ proc[w].pc \notin Dead
  /\ clean[w].pc = "idle"
  /\ LET boxes == {b \in Runs \X Steps : box[Engine[w]][b[1]][b[2]] # "none"}
         dirs == {r \in Runs : ws[Engine[w]][r]}
     IN /\ boxes # {} \/ dirs # {}
        /\ SetSweep(w, [NoSweep EXCEPT !.pc = "query", !.boxes = boxes, !.dirs = dirs,
                                       !.quiet = {v \in Workers : workers[v].beat # "fresh"}])
  /\ UNCHANGED <<store, proc, link, host, faults>>

MutLeftover(r) == runs[r].status \in {"passed", "cancelled"}   \* mutant: failed runs stay

\* RunningRunIDs does not list the run.
Leftover(r) == runs[r].status # "running"

SweepQuery(w) ==
  /\ clean[w].pc = "query"
  /\ IF link[w].cut THEN SetSweep(w, NoSweep)
     ELSE LET listed == clean[w].dirs \cup {b[1] : b \in clean[w].boxes}
          IN SetSweep(w, [clean[w] EXCEPT !.pc = "lock",
                            !.todo = {r \in listed : Leftover(r)}])
  /\ UNCHANGED <<store, proc, link, host, faults>>

SweepLock(w) ==
  /\ clean[w].pc = "lock"
  /\ \/ \E r \in clean[w].todo :
          IF lock[Engine[w]][r] = Free
          THEN /\ SetSweep(w, [clean[w] EXCEPT !.todo = @ \ {r}, !.held = @ \cup {r}])
               /\ lock' = [lock EXCEPT ![Engine[w]][r] = Held(w, "clean")]
          ELSE SetSweep(w, [clean[w] EXCEPT !.todo = @ \ {r}]) /\ UNCHANGED lock
     \/ /\ clean[w].todo = {}
        /\ SetSweep(w, [clean[w] EXCEPT !.pc = "stop",
                          !.boxes = {b \in @ : b[1] \in clean[w].held}])
        /\ UNCHANGED lock
  /\ UNCHANGED <<store, proc, link, box, ws, faults>>

\* The run is blocked for the rest of the pass; its lock is kept.
Block(w, r) ==
  SetSweep(w, [clean[w] EXCEPT !.held = @ \ {r}, !.boxes = {b \in @ : b[1] # r}])

\* The exit is recorded by container ID.
SweepBox(w) ==
  /\ clean[w].pc = "stop"
  /\ \E b \in clean[w].boxes :
       LET r == b[1]
           i == b[2]
           s == box[Engine[w]][r][i]
           known == steps[r][i].created /\ ExitAccepted(r, i, s)
       IN \/ /\ s = "running"
             /\ SetBox(w, r, i, "exited1") /\ UNCHANGED <<store, clean, lock, ws, faults>>
          \/ /\ s # "none" /\ Fault("docker")
             /\ Block(w, r) /\ UNCHANGED <<store, host>>
          \/ /\ s \in Exited /\ b \notin clean[w].seen /\ known
             /\ Call(w, ExitRecorded(r, i, s),
                     SetSweep(w, [clean[w] EXCEPT !.seen = @ \cup {b}]), Block(w, r))
             /\ UNCHANGED host
          \/ /\ s \in Exited /\ b \notin clean[w].seen /\ ~known
             /\ Block(w, r) /\ UNCHANGED <<store, host, faults>>
          \/ /\ Halted(s) \/ b \in clean[w].seen
             /\ SetBox(w, r, i, "none")
             /\ SetSweep(w, [clean[w] EXCEPT !.boxes = @ \ {b}])
             /\ UNCHANGED <<store, lock, ws, faults>>
  /\ UNCHANGED <<proc, link>>

\* ConfirmContainersRemoved is two transactions.
SweepConfirm(w) ==
  /\ clean[w].pc = "stop" /\ clean[w].boxes = {}
  /\ \E r \in clean[w].held \ clean[w].done :
       IF r \notin clean[w].conf
       THEN Call(w, ConfirmExecutionStopped(r),
                 SetSweep(w, [clean[w] EXCEPT !.conf = @ \cup {r}]), Block(w, r))
       ELSE Call(w, AllRemoved(r),
                 SetSweep(w, [clean[w] EXCEPT !.done = @ \cup {r}]), Block(w, r))
  /\ UNCHANGED <<proc, link, host>>

SweepDirs(w) ==
  /\ clean[w].pc = "stop" /\ clean[w].boxes = {} /\ clean[w].held = clean[w].done
  /\ ws' = [ws EXCEPT ![Engine[w]] =
              [r \in Runs |-> ws[Engine[w]][r] /\ r \notin (clean[w].dirs \cap clean[w].done)]]
  /\ SetSweep(w, NoSweep)
  /\ lock' = Unlocked(w, "clean", Runs)
  /\ UNCHANGED <<store, proc, link, box, faults>>

\* Once the process was told to stop, every call of the pass fails.
SweepAbort(w) ==
  /\ proc[w].quit /\ clean[w].pc # "idle"
  /\ SetSweep(w, NoSweep)
  /\ lock' = Unlocked(w, "clean", Runs)
  /\ UNCHANGED <<store, proc, link, box, ws, faults>>

SweepNext(w) ==
  \/ /\ ~proc[w].quit
     /\ \/ SweepList(w) \/ SweepQuery(w) \/ SweepLock(w) \/ SweepBox(w)
        \/ SweepConfirm(w) \/ SweepDirs(w)
  \/ SweepAbort(w)

----------------------------------------------------------------------------
(* Heartbeats, stops, and the world around the workers.                    *)

Live(w) == proc[w].pc \notin Dead

\* beat reaches the database.
Beat(w) ==
  /\ Live(w) /\ ~link[w].cut /\ workers[w].beat # "fresh"
  /\ Heartbeat(w)
  /\ UNCHANGED exec

\* Whoever can reach the database has sent the heartbeat due every ten
\* seconds: nothing that takes minutes happens before.
Punctual == \A w \in Workers : Live(w) /\ ~link[w].cut => workers[w].beat = "fresh"

\* Heartbeats have arrived for WorkerLostAfter.  recoverExecutions looks at
\* that right after its query: five minutes do not pass in between.
Mature(w) ==
  /\ Live(w) /\ ~link[w].cut /\ ~link[w].healthy /\ Punctual /\ ~At(w, "recover")
  /\ link' = [link EXCEPT ![w].healthy = TRUE]
  /\ UNCHANGED <<store, proc, clean, host, faults>>

\* Time passes without heartbeats of a worker that is dead or cut off.  A
\* cleanup pass ends within dutyTimeout (20 seconds), so a worker that still
\* reported when the pass began is not lost before it ends.
Age(w) ==
  /\ ~Live(w) \/ link[w].cut
  /\ Punctual
  /\ workers[w].beat = "late" =>
       \A v \in Workers : clean[v].pc # "idle" => w \in clean[v].quiet
  /\ BeatAges(w)
  /\ UNCHANGED exec

MutReap(w) ==   \* mutant: every running run is failed, its steps stay open
  /\ Live(w) /\ ~link[w].cut /\ link[w].healthy
  /\ runs' = [r \in Runs |-> IF MayFinish(r) THEN [runs[r] EXCEPT !.status = "failed", !.token = FALSE]
                             ELSE runs[r]]
  /\ UNCHANGED <<steps, targets, deployments, workers, counter, maintenance, op, exec>>

\* The rest of beat, once this worker's own heartbeats arrived long enough.
Reap(w) ==
  /\ Live(w) /\ ~link[w].cut /\ link[w].healthy
  /\ FailLostRuns(LostRuns)
  /\ UNCHANGED exec

\* The connection of w to the database is lost; the next heartbeat fails.
Cut(w) ==
  /\ Live(w) /\ ~link[w].cut
  /\ Fault("cut")
  /\ link' = [link EXCEPT ![w] = [cut |-> TRUE, healthy |-> FALSE]]
  /\ UNCHANGED <<store, proc, clean, host>>

Heal(w) ==
  /\ link[w].cut
  /\ link' = [link EXCEPT ![w].cut = FALSE]
  /\ UNCHANGED <<store, proc, clean, host, faults>>

Executing(w) == At(w, "claimed") \/ proc[w].pc \in Inside

\* watchCancellation: StopReason answers that the run was cancelled or ended.
Watch(w) ==
  /\ Executing(w) /\ proc[w].stop = "no" /\ ~link[w].cut
  /\ ~Proceeds(Mine(w))
  /\ proc' = [proc EXCEPT ![w].stop = "cancel"]
  /\ UNCHANGED <<store, clean, link, host, faults>>

MutInterrupt(w) ==   \* mutant: the timer is never armed
  /\ Executing(w) /\ proc[w].stop = "no" /\ proc[w].quit
  /\ proc' = [proc EXCEPT ![w].stop = "fail"]
  /\ UNCHANGED <<store, clean, link, host, faults>>

\* The run's timer fires, or the process is stopping.
Interrupt(w) ==
  /\ Executing(w) /\ proc[w].stop = "no"
  /\ runs[Mine(w)].expired \/ proc[w].quit
  /\ proc' = [proc EXCEPT ![w].stop = "fail"]
  /\ UNCHANGED <<store, clean, link, host, faults>>

\* monitorDisk finds the workspace over its budget, or the host's reserve used
\* (during the checkout that is one of the failures of Fetch).
DiskBudget(w) ==
  /\ proc[w].pc \in Inside \ {"fetch"} /\ proc[w].stop = "no"
  /\ Fault("disk")
  /\ proc' = [proc EXCEPT ![w].stop = "fail"]
  /\ UNCHANGED <<store, clean, link, host>>

Shutdown(w) ==
  /\ Live(w) /\ ~proc[w].quit
  /\ Fault("shutdown")
  /\ proc' = [proc EXCEPT ![w].quit = TRUE]
  /\ UNCHANGED <<store, clean, link, host>>

\* The process is gone, and the kernel released its locks.
ProcessGone(w) ==
  /\ proc' = [proc EXCEPT ![w] = Sleeping("dead", FALSE)]
  /\ clean' = [clean EXCEPT ![w] = NoSweep]
  /\ link' = [link EXCEPT ![w] = [cut |-> FALSE, healthy |-> FALSE]]
  /\ lock' = [e \in Engines |-> [r \in Runs |->
                IF lock[e][r][1] = w THEN Free ELSE lock[e][r]]]
  /\ UNCHANGED <<box, ws>>

\* Run returns: stop records it, or gives up after four attempts.
Exit(w) ==
  /\ At(w, "idle") /\ proc[w].quit
  /\ \/ ~link[w].cut /\ StopWorker(w)
     \/ link[w].cut /\ UNCHANGED store
  /\ ProcessGone(w)
  /\ UNCHANGED faults

Crash(w) ==
  /\ Live(w)
  /\ Fault("crash")
  /\ ProcessGone(w)
  /\ UNCHANGED store

\* The operator releases a worker whose process and containers are gone.
Release(w) ==
  /\ At(w, "dead")
  /\ \A r \in Runs, i \in Steps : runs[r].worker = w => box[Engine[w]][r][i] # "running"
  /\ Fault("release")
  /\ ReleaseLostWorker(w, Runs)
  /\ UNCHANGED <<proc, clean, link, host>>

\* A person cancels a run.
CancelRun(r) ==
  /\ Fault("cancel")
  /\ Cancel(r)
  /\ UNCHANGED <<proc, clean, link, host>>

\* The script in a container exits.
ScriptExits(e, r, i) ==
  /\ box[e][r][i] = "running"
  /\ \E s \in Exited : box' = [box EXCEPT ![e][r][i] = s]
  /\ UNCHANGED <<store, proc, clean, link, lock, ws, faults>>

\* Runs are pushed or started, and their deadlines pass.
Submit ==
  /\ \/ "manual" \in Triggers /\ \E f \in Refs, p \in Plans : Start(f, p)
     \/ "push" \in Triggers /\ counter < MaxRuns /\ BeginOperation("push")
     \/ \E f \in Refs, p \in Plans : PushRun(f, p)
  /\ UNCHANGED exec

Deadline(r) == DeadlinePasses(r) /\ UNCHANGED exec

----------------------------------------------------------------------------

MainNext(w) == Boot(w) \/ RecoverNext(w) \/ ExecuteNext(w) \/ Exit(w)

BeatNext(w) == Beat(w) \/ Mature(w) \/ Reap(w)

SignalNext(w) == Watch(w) \/ Interrupt(w)

FaultNext(w) ==
  \/ w \in Frail /\ (Cut(w) \/ Crash(w) \/ Shutdown(w) \/ DiskBudget(w))
  \/ Release(w)

ExecNext ==
  \/ \E w \in Workers : \/ MainNext(w) \/ SweepNext(w) \/ BeatNext(w) \/ SignalNext(w)
                        \/ FaultNext(w) \/ Heal(w) \/ Age(w)
  \/ \E r \in Runs : CancelRun(r) \/ Deadline(r)
  \/ \E e \in Engines, r \in Runs, i \in Steps : ScriptExits(e, r, i)
  \/ Submit

ExecSpec == ExecInit /\ [][ExecNext]_vars

\* Every goroutine of a live process goes on, time passes, connections come
\* back, and a worker that is gone is started again.  Mature is strongly
\* fair: it only waits for recoverExecutions to leave its check, and five
\* minutes of heartbeats pass all the same.  Nothing makes a script exit: its
\* run's deadline does.
Fairness ==
  /\ \A w \in Workers :
       /\ WF_vars(MainNext(w)) /\ WF_vars(SweepNext(w))
       /\ WF_vars(Beat(w)) /\ SF_vars(Mature(w)) /\ WF_vars(Reap(w))
       /\ WF_vars(SignalNext(w)) /\ WF_vars(Heal(w)) /\ WF_vars(Age(w))
  /\ \A r \in Runs : WF_vars(Deadline(r))
  /\ WF_vars(Submit)

FairSpec == ExecSpec /\ Fairness

----------------------------------------------------------------------------
(* What execution guarantees.                                              *)

Containers == Engines \X Runs \X Steps

Box(c) == box[c[1]][c[2]][c[3]]

StepOf(c) == steps[c[2]][c[3]]

\* "Deploy scripts for the same repository and target run one at a time
\* across all workers": a deploy script runs only while its step owns the
\* target in the database, whatever the workers, their hosts and the reaper
\* do meanwhile.
ScriptOwnsTarget ==
  \A c \in Containers : Box(c) = "running" /\ StepOf(c).kind = "deploy" =>
     Owns(runs[c[2]].target, c[2], c[3])

\* "Ownership persists until termination is confirmed", and no longer: a
\* step that owns a target has a container planned and not confirmed removed,
\* which is what makes RecoveryRuns list its run until the target is free.
OwnedUntilRemoved ==
  \A t \in Targets : \A r \in Runs, i \in Steps :
     targets[t].owner = <<r, i>> => Unremoved(steps[r][i])

\* A container was recorded by ID before it started, so cleanup can record
\* its exit, and it is not marked removed while its script runs.
StartedRecorded ==
  \A c \in Containers :
     /\ Box(c) \in {"running"} \cup Exited => StepOf(c).created
     /\ Box(c) = "running" => Unremoved(StepOf(c))

\* The workspace a script runs in is not deleted under it.
WorkspaceKept ==
  \A c \in Containers : Box(c) = "running" => ws[c[1]][c[2]]

\* Where execute is at work on the run it claimed.
Claimed == {"claimed", "finish", "sweep"} \cup Inside

\* Where a step is being executed.
Stepping == Inside \ {"fetch", "next"}

\* What the main loop knows where it stands: its run, its step, the step's
\* result, the run's outcome.
Placed(p) ==
  /\ p.pc \in Claimed \cup Recovering => p.run \in Runs
  /\ p.pc \in Stepping => p.todo # {}
  /\ p.pc = "receipt" => p.x \in Results
  /\ p.pc = "finish" => p.out \in Ended

\* A worker at work on a run is the one the run was handed to, and the run
\* is never handed out again: no second worker executes it, whatever answers
\* were lost and whoever was given up.
ExecutesOwnRun ==
  \A w \in Workers : proc[w].pc \in Claimed =>
     /\ runs[Mine(w)].worker = w
     /\ runs[Mine(w)].status \in Ended \cup {"running"}

\* So no two workers execute the same run, on one host or on two.
OneWorkerPerRun ==
  \A v, w \in Workers :
     proc[v].pc \in Claimed /\ proc[w].pc \in Claimed /\ Mine(v) = Mine(w) => v = w

\* Whoever executes, recovers or cleans up a run on a host holds the run's
\* lock there.
HoldsLock ==
  \A w \in Workers :
     /\ proc[w].pc \in Inside \cup Recovering => lock[Engine[w]][Mine(w)] = Held(w, "main")
     /\ \A r \in clean[w].held : lock[Engine[w]][r] = Held(w, "clean")
     /\ clean[w].pc = "stop" => \A b \in clean[w].boxes : b[1] \in clean[w].held

\* "executionLock fences filesystem cleanup against a live process, including
\* a worker whose database heartbeat was lost": the workspace of a run is there
\* as long as its worker executes steps in it.
WorkspaceFenced ==
  \A w \in Workers : proc[w].pc \in Inside \ {"fetch"} => ws[Engine[w]][Mine(w)]

\* The part of ExecSafe that every action preserves, whatever the faults.
ExecInv ==
  /\ ExecTypeOK
  /\ \A w \in Workers : Placed(proc[w])
  /\ ExecutesOwnRun
  /\ HoldsLock
  /\ WorkspaceFenced

----------------------------------------------------------------------------
(* What the processes know about each other's work.                        *)

\* The heartbeats of every live process arrive in time: no worker is cut off
\* long enough to be taken for lost while it works.
InTouch == \A w \in Workers : Live(w) => workers[w].beat = "fresh"

\* A process that stops leaves no run to others while another worker's cleanup
\* pass is under way on its host.
StopsApart ==
  \A v, w \in Workers :
     /\ Live(v) /\ workers'[v].row = "stopped"
     /\ v # w /\ Engine[v] = Engine[w] /\ clean[w].pc # "idle"
     => \A r \in Runs : runs[r].worker = v => runs[r].status # "running"

\* No connection is ever lost, and whoever may be told to stop shares its host
\* with no other worker's cleanup goroutine.
Sheltered ==
  /\ "cut" \notin Faults
  /\ "shutdown" \in Faults =>
       \A v \in Frail, w \in Cleaners : Engine[v] = Engine[w] => v = w

HandedOut(r) == runs[r].status \in Ended \cup {"running"}

\* The run was given to a worker of host e.
OnHost(e, r) ==
  HandedOut(r) /\ runs[r].worker \in Workers /\ Engine[runs[r].worker] = e

\* A worker's row tells whether its process started and stopped; what is marked
\* removed was planned.
RowsTrue ==
  /\ \A w \in Workers :
       /\ proc[w].pc = "unborn" => workers[w].row = "absent" /\ workers[w].beat = "fresh"
       /\ Live(w) => workers[w].row = "up"
  /\ \A r \in Runs, i \in Steps : steps[r][i].removed => steps[r][i].planned

\* The engines against the rows of a run: its workspace and its containers are on
\* its worker's host, and planned; what started is recorded, what runs has a
\* workspace, no receipt and, to deploy, its target; an owner's container is not
\* marked removed.
Accounted(r) ==
  /\ \A e \in Engines : ws[e][r] => OnHost(e, r)
  /\ \A e \in Engines, i \in Steps :
       LET b == box[e][r][i]
           s == steps[r][i]
       IN /\ b # "none" => OnHost(e, r) /\ s.planned
          /\ b \in Exited => s.created /\ s.code \in {NoCode, ExitCode(b)}
          /\ b = "running" =>
               /\ s.created /\ ~s.removed /\ s.code = NoCode /\ ws[e][r]
               /\ s.kind = "deploy" => \E t \in Targets : targets[t].owner = <<r, i>>
  /\ \A t \in Targets, i \in Steps : targets[t].owner = <<r, i>> => Unremoved(steps[r][i])

Recorded(e, r, i) == box[e][r][i] \in Exited => steps[r][i].code # NoCode

\* Where execute may still change its run, have a container, own a target.
Busy == Claimed \ {"sweep"}
Holding == {"created", "start", "wait", "cleanup", "receipt", "rm"}
Deploying == {"create", "created", "start", "wait", "cleanup", "receipt"}

\* The executor has its run to itself: only its current step has a container
\* or a target, and both are as far as its program counter says.
ExecutorKnows(w) ==
  LET r == Mine(w)
      i == CurrentStep(w)
      b == box[Engine[w]][r]
      pc == proc[w].pc
  IN
  /\ pc \in Busy =>
       /\ runs[r].status = "running"
       /\ \A j \in Steps : b[j] # "none" => pc \in Holding /\ j = i
       /\ \A t \in Targets : targets[t].owner[1] = r =>
            pc \in Deploying /\ targets[t].owner = <<r, i>>
       /\ pc # "finish" => \A j \in proc[w].todo : ~steps[r][j].removed
  /\ pc \in Deploying \cup {"plan", "begin"} => steps[r][i].status = "running"
  /\ pc \in {"begin", "create", "created", "start"} => steps[r][i].planned
  /\ pc = "start" =>
       /\ steps[r][i].created
       /\ steps[r][i].kind = "deploy" => \E t \in Targets : targets[t].owner = <<r, i>>
  /\ pc = "receipt" =>
       \/ b[i] = "none"
       \/ b[i] \in Exited /\ proc[w].x = <<ExitStatus(b[i]), ExitCode(b[i])>>
  /\ pc = "rm" => b[i] = "none" \/ (b[i] \in Exited /\ steps[r][i].code # NoCode)
  /\ pc = "sweep" => /\ runs[r].status \in Ended
                     /\ \A j \in Steps : b[j] # "running"

\* Nobody but w starts containers of run r, and those that run are in S.
Interrupts(w, r, S) ==
  /\ OnHost(Engine[w], r)
  /\ runs[r].worker = w \/ proc[runs[r].worker].pc = "dead"
  /\ \A i \in Steps : box[Engine[w]][r][i] = "running" => i \in S

\* Recovery works on runs nobody executes, and listed all that still runs.
RecoveryKnows(w) ==
  LET r == Mine(w)
      pc == proc[w].pc
  IN
  /\ pc \in {"recover"} \cup Recovering =>
       \A d \in proc[w].list : Interrupts(w, d.run, d.boxes)
  /\ pc \in Recovering => Interrupts(w, r, proc[w].all) /\ proc[w].todo \subseteq proc[w].all
  /\ pc = "rstop" =>
       /\ \A i \in Steps : box[Engine[w]][r][i] = "running" => i \in proc[w].todo
       /\ \A i \in proc[w].all \ proc[w].todo : Recorded(Engine[w], r, i)
  /\ pc \in {"rfinish", "rremove"} =>
       /\ \A i \in Steps : box[Engine[w]][r][i] # "running"
       /\ \A i \in proc[w].all : Recorded(Engine[w], r, i)
       /\ \A t \in Targets : targets[t].owner[1] # r

\* A cleanup pass locks runs that ended, and listed every container of theirs
\* that still runs: whoever started one since is at work and not gone.
PassKnows(w) ==
  LET c == clean[w]
      b == box[Engine[w]]
  IN
  /\ \A v \in c.quiet : proc[v].pc = "dead"
  /\ \A r \in c.dirs \cup c.todo \cup c.held : OnHost(Engine[w], r)
  /\ \A x \in c.boxes : OnHost(Engine[w], x[1])
  /\ c.pc \in {"query", "lock"} =>
       \A r \in Runs, i \in Steps : b[r][i] = "running" /\ <<r, i>> \notin c.boxes =>
          /\ runs[r].status = "running"
          /\ ~Gone(runs[r].worker) /\ runs[r].worker \notin c.quiet
  /\ \A r \in c.todo \cup c.held \cup c.conf : runs[r].status \in Ended
  /\ c.pc = "stop" =>
       \A r \in c.held, i \in Steps : b[r][i] = "running" => <<r, i>> \in c.boxes
  /\ \A x \in c.seen : /\ runs[x[1]].status \in Ended
                        /\ b[x[1]][x[2]] # "running" /\ Recorded(Engine[w], x[1], x[2])
  /\ \A r \in c.conf, t \in Targets : targets[t].owner[1] # r

\* What makes containers, rows and locks safe together.  It takes InTouch and
\* StopsApart for granted, which are all that the locks do not enforce.
Knowledge ==
  /\ RowsTrue
  /\ \A r \in Runs : Accounted(r)
  /\ \A w \in Workers : ExecutorKnows(w) /\ RecoveryKnows(w) /\ PassKnows(w)

\* What the rows say of the step an executor is at, before its container starts.
Prepared(w) ==
  LET s == steps[Mine(w)][CurrentStep(w)] IN
  /\ proc[w].pc \in {"begin", "create", "created", "start"} => s.planned
  /\ proc[w].pc = "start" => s.created

\* What nothing takes from cleanup and recovery, whoever is cut off, given up or
\* told to stop: workspaces and containers are only on the host of the worker
\* their run was given to, no container is there that was not planned, and none
\* has started that was not recorded by ID.
Traced ==
  /\ \A e \in Engines, r \in Runs : ws[e][r] => OnHost(e, r)
  /\ \A e \in Engines, r \in Runs, i \in Steps :
       LET b == box[e][r][i] IN
       /\ b # "none" => OnHost(e, r) /\ steps[r][i].planned
       /\ b \in {"running"} \cup Exited => steps[r][i].created
  /\ \A w \in Workers : Prepared(w)

\* The processes, containers and workspaces have their types, every process its
\* run and its lock, and what they know is so; a script owns its target while it
\* runs, a target stays owned until its container is gone, every container that
\* ever started is on record, and a workspace stays under its containers.
ExecSafe ==
  /\ ExecInv
  /\ Traced /\ Knowledge
  /\ ScriptOwnsTarget
  /\ OwnedUntilRemoved
  /\ StartedRecorded
  /\ WorkspaceKept

\* A container is created, started, stopped or removed only while its run's
\* execution lock is held on the host; nothing else happens to it but that its
\* script exits.
TouchedLocked ==
  \A c \in Containers :
     \/ box'[c[1]][c[2]][c[3]] = Box(c)
     \/ Box(c) = "running" /\ box'[c[1]][c[2]][c[3]] \in Exited
     \/ lock[c[1]][c[2]] # Free

\* The executor gave up on the container: cancelled, timed out, shut down, or
\* Docker failed it.
GivenUp(c) == \E w \in Workers : At(w, "cleanup") /\ Mine(w) = c[2] /\ CurrentStep(w) = c[3]

\* "Workers preserve execution receipts until recording commits": a container
\* that exited is removed only once its exit is recorded, by its worker, by
\* recovery or by cleanup, unless its worker gave up on it.
ExitKept ==
  \A c \in Containers : Box(c) \in Exited /\ box'[c[1]][c[2]][c[3]] = "none" =>
     StepOf(c).code = ExitCode(Box(c)) \/ GivenUp(c)

\* Every database call of a worker is a transaction of ci.Service, made when
\* its conditions hold: execution implements the run queue.
StoreSpec == Spec

\* No step removes an exited container whose exit is not recorded.
ExitsKept == [][ExitKept]_vars

\* A run that a worker was given ends: passed, failed or cancelled, whatever
\* happened to the worker.
RunsEnd == \A r \in Runs : runs[r].status = "running" ~> runs[r].status \in Ended

\* A deployment target is not owned for ever by one step.
TargetsFreed ==
  \A t \in Targets : \A r \in Runs, i \in Steps :
     targets[t].owner = <<r, i>> ~> targets[t].owner # <<r, i>>

\* Every container is removed in the end, and every workspace.
LeftoversGo ==
  /\ \A c \in Containers : Box(c) # "none" ~> Box(c) = "none"
  /\ \A e \in Engines, r \in Runs : ws[e][r] ~> ~ws[e][r]
=============================================================================
