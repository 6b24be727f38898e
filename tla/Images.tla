------------------------------- MODULE Images -------------------------------
(***************************************************************************)
(* The images of one Docker host: who may remove one, and when.            *)
(*                                                                         *)
(* Workers on the host share one file lock.  A run loop (worker.drain)     *)
(* holds it shared from before its claim until handle returns; the image   *)
(* duties (worker.images) take it exclusively and never wait for it.       *)
(* Administrators queue removals planned from a published inventory that   *)
(* is already old when it is acted on; a worker leases an operation, reads *)
(* everything again and removes what still qualifies.                      *)
(*                                                                         *)
(* One image repository is built here, its tags being the versions of the  *)
(* repository's runs; the other images are the ones pipelines run in.  An  *)
(* image ID is a number and a later build has a larger one, so IDs also    *)
(* order images by creation time.  References by digest, sizes and the     *)
(* wording of refusals are left out.                                       *)
(***************************************************************************)
EXTENDS Integers, FiniteSets, FiniteSetsExt

CONSTANTS
  Workers,     \* worker IDs bound to this engine; a restart is a new one
  NoWorker,
  Bases,       \* images pipelines run in
  Versions,    \* the tags of the built repository
  Pipelines,   \* the stored pipelines runs are made of
  HeadStatus,  \* at the start, the run of the branch's head has this status
  MaxRuns,     \* bound on runs
  MaxIds,      \* bound on images ever built
  MaxOps,      \* bound on queued operations
  FactsLimit,  \* imageFactsLimit: 2,000 in the code
  Automation,  \* GITMAN_IMAGE_AUTOMATION
  Faults,      \* which of the faults below may happen
  MaxFaults    \* bound on faults

Refs == Bases \cup Versions
Runs == 1 .. MaxRuns
Ids == 1 .. MaxIds
Operations == 1 .. MaxOps
None == 0               \* no image, no operation, no run
Untagged == "untagged"  \* Ref() of a dangling image is its ID

Pipeline ==
  [ needs   : SUBSET Refs,  \* image and requires
    keep    : Nat,          \* images: keep of the built repository; 0: not declared
    builds  : BOOLEAN,      \* docker: true, and a step tags the run's version
    deploys : BOOLEAN ]     \* a deploy step that is not skipped

ASSUME ImagesConstantsOK ==
  /\ NoWorker \notin Workers
  /\ Bases \cap Versions = {} /\ Untagged \notin Refs
  /\ Versions # {}           \* earlier runs built and deployed some
  /\ IsFiniteSet(Refs)
  /\ Pipelines \subseteq Pipeline /\ Pipelines # {}
  /\ {MaxRuns, MaxIds, MaxOps, FactsLimit, MaxFaults} \subseteq Nat
  /\ MaxRuns > 0 /\ MaxIds >= Cardinality(Refs)
  /\ HeadStatus \in {"passed", "queued"}
  /\ Automation \in {"off", "after-deploy", "low-disk"}
  /\ Faults \subseteq {"crash", "shutdown", "read", "docker", "record", "pause"}

VARIABLES
  host,         \* docker image ls: the image ID of every reference, or None
  dangling,     \* IDs without a tag
  lastId,       \* the newest image ID
  containers,   \* docker ps -a: the image ID of each run's container, or None
  runs,         \* table runs
  deployed,     \* the version of the live deployment
  published,    \* the host's row of image_hosts
  operations,   \* the image rows of repository_operations
  maintenance,  \* instance.maintenance
  workers,      \* the workers' processes and rows
  shared,       \* run loops that hold the host lock's shared side
  exclusive,    \* the worker whose image duties hold it exclusively
  loop,         \* where each run loop is
  duty,         \* where each worker's image duties are
  faults        \* faults so far

docker == <<host, dangling, lastId, containers>>
store == <<runs, deployed, published, operations, maintenance>>
lock == <<shared, exclusive>>
imageVars == <<docker, store, workers, lock, loop, duty, faults>>

----------------------------------------------------------------------------
(* Rows.                                                                   *)

Row == [ref : Refs \cup {Untagged}, id : Ids]   \* InventoryImage, ImageTarget

\* used: the images some container refers to.
Inventory == [rows : SUBSET Row, used : SUBSET Ids]

NoInventory == [rows |-> {}, used |-> {}]

Facts ==
  [ required   : SUBSET Refs,
    keep       : Nat,
    deployed   : SUBSET Versions,
    incomplete : BOOLEAN ]

NoFacts == [required |-> {}, keep |-> 0, deployed |-> {}, incomplete |-> FALSE]

Run ==
  [ status   : {"absent", "queued", "running", "passed", "failed"},
    worker   : Workers \cup {NoWorker},
    version  : Versions,
    pipeline : Pipelines ]

Kinds == {"image.remove", "image.prune", "cache.prune"}

\* lease is worker_id; old: claimed_at is more than 30 minutes ago.
Operation ==
  [ status  : {"absent", "pending", "done"},
    kind    : Kinds,
    targets : SUBSET Row,
    lease   : Workers \cup {NoWorker},
    old     : BOOLEAN ]

NoOperation ==
  [status |-> "absent", kind |-> "cache.prune", targets |-> {}, lease |-> NoWorker,
   old |-> FALSE]

\* "dead": the process is gone and its row does not say so yet; "lost": its
\* heartbeat is also more than five minutes old.
WorkerState == {"up", "stopping", "stopped", "dead", "lost"}

Loop ==
  [ at     : {"idle", "ready", "claiming", "checking", "starting", "ending", "after"},
    images : SUBSET Refs,          \* what drain read before it waited for the lock
    run    : {None} \cup Runs ]

IdleLoop == [at |-> "idle", images |-> {}, run |-> None]

Duty ==
  [ at      : {"idle", "facts", "inventory", "removing", "recording"},
    op      : {None} \cup Operations,   \* None: an automatic prune
    kind    : Kinds,
    targets : SUBSET Row,
    facts   : Facts,
    todo    : SUBSET Row ]              \* targets that qualified, not yet handled

IdleDuty ==
  [at |-> "idle", op |-> None, kind |-> "cache.prune", targets |-> {}, facts |-> NoFacts,
   todo |-> {}]

\* Every table, lock and program counter holds a value of its type.
ImagesTypeOK ==
  /\ host \in [Refs -> {None} \cup Ids]
  /\ dangling \subseteq Ids
  /\ lastId \in Ids
  /\ containers \in [Runs -> {None} \cup Ids]
  /\ runs \in [Runs -> Run]
  /\ deployed \in Versions
  /\ published \in Inventory
  /\ operations \in [Operations -> Operation]
  /\ maintenance \in BOOLEAN
  /\ workers \in [Workers -> WorkerState]
  /\ shared \subseteq Workers
  /\ exclusive \in Workers \cup {NoWorker}
  /\ loop \in [Workers -> Loop]
  /\ duty \in [Workers -> Duty]
  /\ faults \in 0 .. MaxFaults

\* Earlier runs built every tag and the newest is deployed; the run of the
\* branch's head has passed or is about to start.
ImagesInit ==
  /\ host \in [Refs -> 1 .. Cardinality(Refs)]
  /\ \A x, y \in Refs : x # y => host[x] # host[y]
  /\ \A b \in Bases, v \in Versions : host[b] < host[v]
  /\ dangling = {} /\ lastId = Cardinality(Refs)
  /\ containers = [r \in Runs |-> None]
  /\ deployed = CHOOSE v \in Versions : host[v] = lastId
  /\ \E p \in Pipelines :
       runs = [r \in Runs |->
                [status |-> IF r = 1 THEN HeadStatus ELSE "absent", worker |-> NoWorker,
                 version |-> deployed, pipeline |-> p]]
  /\ published = NoInventory
  /\ operations = [o \in Operations |-> NoOperation]
  /\ maintenance = FALSE
  /\ workers = [w \in Workers |-> "up"]
  /\ shared = {} /\ exclusive = NoWorker
  /\ loop = [w \in Workers |-> IdleLoop]
  /\ duty = [w \in Workers |-> IdleDuty]
  /\ faults = 0

----------------------------------------------------------------------------
(* What the host has and what the database says must stay.                 *)

Present == {x \in Refs : host[x] # None}

\* Docker.ImageInventory: a row per tag and a row per untagged image, and the
\* images of all containers, running or stopped.
CurrentInventory ==
  [ rows |-> {[ref |-> x, id |-> host[x]] : x \in Present}
               \cup {[ref |-> Untagged, id |-> i] : i \in dangling},
    used |-> {containers[r] : r \in Runs} \ {None} ]

Created == {r \in Runs : runs[r].status # "absent"}
Head == Max(Created)      \* the run of the commit the branch points at

\* selectRequiredPipelines: runs that can still need images.
Needy == {r \in Created : runs[r].status \in {"queued", "running"}} \cup {Head}

\* Service.ImageFacts.  Over the limit the code keeps only the first
\* pipelines; nothing is removed then, so which ones does not matter.
CurrentFacts ==
  LET keep == Max({0} \cup {runs[r].pipeline.keep : r \in Needy})
  IN [ required   |-> UNION {runs[r].pipeline.needs : r \in Needy},
       keep       |-> keep,
       deployed   |-> IF keep > 0 THEN {deployed} ELSE {},
       incomplete |-> Cardinality(Needy) > FactsLimit ]

----------------------------------------------------------------------------
(* Classification and planning.                                            *)

Class(row, facts) ==
  IF row.ref \in facts.required THEN "required"
  ELSE IF row.ref \in Versions /\ facts.keep > 0 THEN "built" ELSE "other"

BuiltRows(rows, facts) == {row \in rows : Class(row, facts) = "built"}

\* rank < Keep, newest first.
WithinKeep(row, rows, facts) ==
  Cardinality({o \in BuiltRows(rows, facts) : o.id > row.id}) < facts.keep

\* A live version that names no tag protects the newest tag instead.
Deployed(row, rows, facts) ==
  LET built == BuiltRows(rows, facts)
      unmatched == \E v \in facts.deployed : \A o \in built : o.ref # v
  IN \/ row.ref \in facts.deployed
     \/ unmatched /\ \A o \in built : o.id <= row.id

MutPlanPrune(inv, facts) ==   \* mutant: the deployed version is not spared
  {row \in BuiltRows(inv.rows, facts) :
     /\ row.id \notin inv.used
     /\ ~facts.incomplete
     /\ ~WithinKeep(row, inv.rows, facts)}

\* PlanPrune: the rows it lists for removal.
PlanPrune(inv, facts) ==
  {row \in BuiltRows(inv.rows, facts) :
     /\ row.id \notin inv.used
     /\ ~facts.incomplete
     /\ ~Deployed(row, inv.rows, facts)
     /\ ~WithinKeep(row, inv.rows, facts)}

PlanRemoveOne(row, inv, facts) ==
  Class(row, facts) # "required" /\ row.id \notin inv.used

----------------------------------------------------------------------------
(* Administrators: the Images page and "gitman admin images".              *)

\* freshImageHost, then AdmitMutation in queueImageOperation.  What was
\* published may be arbitrarily old here; the code refuses it after five
\* minutes, in which as much can happen.
MayQueue == published # NoInventory /\ ~maintenance

\* insertImageOperation
Queue(kind, targets) ==
  \E o \in Operations :
    /\ operations[o].status = "absent"
    /\ \A q \in Operations : q < o => operations[q].status # "absent"
    /\ operations' = [operations EXCEPT ![o] =
         [NoOperation EXCEPT !.status = "pending", !.kind = kind, !.targets = targets]]
    /\ UNCHANGED <<docker, runs, deployed, published, maintenance, workers, lock, loop, duty,
                   faults>>

\* The command line queues the whole plan, the page the rows a person ticked.
QueueImagePrune(targets) ==
  /\ MayQueue
  /\ ~CurrentFacts.incomplete
  /\ targets # {}
  /\ targets \subseteq PlanPrune(published, CurrentFacts)
  /\ Queue("image.prune", targets)

QueueImageRemove(row) ==
  /\ MayQueue
  /\ ~CurrentFacts.incomplete
  /\ PlanRemoveOne(row, published, CurrentFacts)
  /\ Queue("image.remove", {row})

QueueImageCachePrune == MayQueue /\ Queue("cache.prune", {})

\* A push: its run is the branch's new head and supersedes the queued one.
Push(v, p) ==
  /\ ~maintenance
  /\ Head < MaxRuns
  /\ runs' = [r \in Runs |->
       IF r = Head + 1
       THEN [status |-> "queued", worker |-> NoWorker, version |-> v, pipeline |-> p]
       ELSE IF runs[r].status = "queued" THEN [runs[r] EXCEPT !.status = "failed"] ELSE runs[r]]
  /\ UNCHANGED <<docker, deployed, published, operations, maintenance, workers, lock, loop, duty,
                 faults>>

----------------------------------------------------------------------------
(* The run loop: drain, handle, execute.                                   *)

MutSharedFree == TRUE   \* mutant: flock's result is ignored

\* hostExecutionLock(root, false)
SharedFree == exclusive = NoWorker

\* hostExecutionLock(root, true).  flock treats every open of the file
\* separately: a shared lock of the caller's own process is in the way too.
ExclusiveFree == exclusive = NoWorker /\ shared = {}

\* drain up to SetWorkerReadiness: the images are read before the lock.
ReadImages(w) ==
  /\ workers[w] = "up" /\ ~maintenance
  /\ loop[w].at = "idle"
  /\ loop' = [loop EXCEPT ![w] = [at |-> "ready", images |-> Present, run |-> None]]
  /\ UNCHANGED <<docker, store, workers, lock, duty, faults>>

\* waitHostExecution
WaitHostExecution(w) ==
  /\ loop[w].at = "ready"
  /\ SharedFree
  /\ shared' = shared \cup {w}
  /\ loop' = [loop EXCEPT ![w].at = "claiming"]
  /\ UNCHANGED <<docker, store, workers, exclusive, duty, faults>>

Wanted(w) ==
  {r \in Created : runs[r].status = "queued" /\ runs[r].pipeline.needs \subseteq loop[w].images}

\* ClaimNext; with nothing to claim the lock is given back.
ClaimNext(w) ==
  /\ loop[w].at = "claiming"
  /\ IF maintenance \/ Wanted(w) = {}
     THEN /\ loop' = [loop EXCEPT ![w] = IdleLoop]
          /\ shared' = shared \ {w}
          /\ UNCHANGED runs
     ELSE LET r == Min(Wanted(w))
          IN /\ runs' = [runs EXCEPT ![r].status = "running", ![r].worker = w]
             /\ loop' = [loop EXCEPT ![w] = [at |-> "checking", images |-> {}, run |-> r]]
             /\ UNCHANGED shared
  /\ UNCHANGED <<docker, deployed, published, operations, maintenance, workers, exclusive, duty,
                 faults>>

\* execution.run: ImageExists for image and requires.  Gitman never pulls.
CheckImages(w) ==
  /\ loop[w].at = "checking"
  /\ LET r == loop[w].run
     IN IF runs[r].pipeline.needs \subseteq Present
        THEN loop' = [loop EXCEPT ![w].at = "starting"] /\ UNCHANGED runs
        ELSE /\ loop' = [loop EXCEPT ![w].at = "after"]
             /\ runs' = [runs EXCEPT ![r].status = "failed"]
  /\ UNCHANGED <<docker, deployed, published, operations, maintenance, workers, lock, duty, faults>>

\* A step's container of one of the images; without the image the run fails.
StartContainer(w) ==
  /\ loop[w].at = "starting"
  /\ LET r == loop[w].run
     IN IF runs[r].pipeline.needs \subseteq Present
        THEN \E x \in runs[r].pipeline.needs :
               /\ containers' = [containers EXCEPT ![r] = host[x]]
               /\ loop' = [loop EXCEPT ![w].at = "ending"]
               /\ UNCHANGED runs
        ELSE /\ loop' = [loop EXCEPT ![w].at = "after"]
             /\ runs' = [runs EXCEPT ![r].status = "failed"]
             /\ UNCHANGED containers
  /\ UNCHANGED <<host, dangling, lastId, deployed, published, operations, maintenance, workers,
                 lock, duty, faults>>

\* A step's script runs docker build -t <repository>:$GITMAN_VERSION.  The
\* container outlives a worker that was killed, and so does its build.
Build(r) ==
  /\ containers[r] # None /\ runs[r].pipeline.builds
  /\ lastId < MaxIds
  /\ lastId' = lastId + 1
  /\ host' = [host EXCEPT ![runs[r].version] = lastId + 1]
  /\ dangling' = dangling \cup ({host[runs[r].version]} \ {None})
  /\ UNCHANGED <<containers, store, workers, lock, loop, duty, faults>>

\* The container is removed and Finish records the run and its deployment.
FinishRun(w, passed) ==
  /\ loop[w].at = "ending"
  /\ LET r == loop[w].run
     IN /\ containers' = [containers EXCEPT ![r] = None]
        /\ runs' = [runs EXCEPT ![r].status = IF passed THEN "passed" ELSE "failed"]
        /\ deployed' = IF passed /\ runs[r].pipeline.deploys THEN runs[r].version ELSE deployed
  /\ loop' = [loop EXCEPT ![w].at = "after"]
  /\ UNCHANGED <<host, dangling, lastId, published, operations, maintenance, workers, lock, duty,
                 faults>>

\* handle's last call is afterRun; its deferred releaseHost comes after.  Cache
\* enforcement and the after-deploy prune both begin by trying the host lock
\* exclusively, which the worker's own shared hold refuses: neither does
\* anything here, whatever Automation says.
AfterRun(w, publish) ==
  /\ loop[w].at = "after"
  /\ LET p == runs[loop[w].run].pipeline IN publish => p.keep > 0 /\ ~p.builds
  /\ published' = IF publish THEN CurrentInventory ELSE published
  /\ loop' = [loop EXCEPT ![w] = IdleLoop]
  /\ shared' = shared \ {w}
  /\ UNCHANGED <<docker, runs, deployed, operations, maintenance, workers, exclusive, duty, faults>>

----------------------------------------------------------------------------
(* The image duties.                                                       *)

Idle(w) == workers[w] = "up" /\ duty[w].at = "idle"

\* publishInventory: what Docker has replaces the host's row.
PublishInventory(w) ==
  /\ Idle(w)
  /\ published' = CurrentInventory
  /\ UNCHANGED <<docker, runs, deployed, operations, maintenance, workers, lock, loop, duty,
                 faults>>

\* enforceCache, whose lock is held within this step; then publishInventory.
EnforceCache(w) ==
  /\ Idle(w) /\ ~maintenance /\ ExclusiveFree
  /\ published' = CurrentInventory
  /\ UNCHANGED <<docker, runs, deployed, operations, maintenance, workers, lock, loop, duty,
                 faults>>

MutClaimable(o) ==   \* mutant: a lease is never taken over
  operations[o].status = "pending" /\ operations[o].lease = NoWorker

\* claimImageOperation's WHERE clause.
Claimable(o) ==
  /\ operations[o].status = "pending"
  /\ \/ operations[o].lease = NoWorker
     \/ operations[o].old
     \/ \E w \in Workers : operations[o].lease = w /\ workers[w] \in {"stopped", "lost"}

\* runImageOperations: the lock, then the oldest claimable operation.
ClaimImageOperation(w) ==
  /\ Idle(w) /\ ~maintenance /\ ExclusiveFree
  /\ \E o \in Operations :
       /\ Claimable(o)
       /\ \A q \in Operations : q < o => ~Claimable(q)
       /\ operations' = [operations EXCEPT ![o].lease = w, ![o].old = FALSE]
       /\ duty' = [duty EXCEPT ![w] =
            [IdleDuty EXCEPT
               !.at = IF operations[o].kind = "cache.prune" THEN "recording" ELSE "facts",
               !.op = o, !.kind = operations[o].kind, !.targets = operations[o].targets]]
  /\ exclusive' = w
  /\ UNCHANGED <<docker, runs, deployed, published, maintenance, workers, shared, loop, faults>>

\* lowDisk, autoPruneBuilt up to its call of applyImageTargets.
LowDisk(w) ==
  /\ Automation = "low-disk"
  /\ Idle(w) /\ ~maintenance /\ ExclusiveFree
  /\ LET targets == PlanPrune(CurrentInventory, CurrentFacts)
     IN /\ targets # {}
        /\ duty' = [duty EXCEPT ![w] =
             [IdleDuty EXCEPT !.at = "facts", !.kind = "image.prune", !.targets = targets]]
  /\ exclusive' = w
  /\ UNCHANGED <<docker, store, workers, shared, loop, faults>>

\* applyImageTargets: incomplete facts skip every target.
ReadFacts(w) ==
  /\ duty[w].at = "facts"
  /\ duty' = [duty EXCEPT ![w].facts = CurrentFacts,
                          ![w].at = IF CurrentFacts.incomplete THEN "recording" ELSE "inventory"]
  /\ UNCHANGED <<docker, store, workers, lock, loop, faults>>

MutSameImage(id, target) == TRUE   \* mutant: a tag is trusted to be what was planned

\* A tag that points at another image than the one planned is left alone.
SameImage(id, target) == id = target.id

\* findImage, then the checks of applyImageTargets on what it found.
Qualifies(target, inv, facts, kind) ==
  \E row \in inv.rows :
    /\ row.ref = target.ref /\ (row.ref = Untagged => row.id = target.id)
    /\ SameImage(row.id, target)
    /\ IF kind = "image.prune" THEN row \in PlanPrune(inv, facts)
       ELSE PlanRemoveOne(row, inv, facts)

ReadInventory(w) ==
  /\ duty[w].at = "inventory"
  /\ duty' = [duty EXCEPT ![w].at = "removing",
       ![w].todo = {t \in duty[w].targets :
                      Qualifies(t, CurrentInventory, duty[w].facts, duty[w].kind)}]
  /\ UNCHANGED <<docker, store, workers, lock, loop, faults>>

\* ImageID, then docker image rm without --force: Docker refuses an image a
\* container uses.
RemoveImage(w, t) ==
  /\ duty[w].at = "removing" /\ t \in duty[w].todo
  /\ LET id == IF t.ref # Untagged THEN host[t.ref]
               ELSE IF t.id \in dangling THEN t.id ELSE None
         same == id # None /\ SameImage(id, t)
         used == id \in CurrentInventory.used
     IN /\ host' = IF same /\ ~used /\ t.ref # Untagged THEN [host EXCEPT ![t.ref] = None] ELSE host
        /\ dangling' = IF same /\ ~used /\ t.ref = Untagged THEN dangling \ {id} ELSE dangling
        /\ duty' = [duty EXCEPT ![w].todo = @ \ {t}]
  /\ UNCHANGED <<lastId, containers, store, workers, lock, loop, faults>>

Finished(w) == duty[w].at = "recording" \/ (duty[w].at = "removing" /\ duty[w].todo = {})

MutRecord(w) ==   \* mutant: the host lock is not given back
  /\ Finished(w)
  /\ published' = CurrentInventory
  /\ operations' = [o \in Operations |->
       IF o = duty[w].op /\ operations[o].status = "pending"
       THEN [operations[o] EXCEPT !.status = "done"] ELSE operations[o]]
  /\ duty' = [duty EXCEPT ![w] = IdleDuty]
  /\ UNCHANGED <<docker, runs, deployed, maintenance, workers, lock, loop, faults>>

\* publishInventory, FinishImageOperation (only the first update wins), and
\* the deferred release of the host lock.
Record(w) ==
  /\ Finished(w)
  /\ published' = CurrentInventory
  /\ operations' = [o \in Operations |->
       IF o = duty[w].op /\ operations[o].status = "pending"
       THEN [operations[o] EXCEPT !.status = "done"] ELSE operations[o]]
  /\ duty' = [duty EXCEPT ![w] = IdleDuty]
  /\ exclusive' = NoWorker
  /\ UNCHANGED <<docker, runs, deployed, maintenance, workers, shared, loop, faults>>

----------------------------------------------------------------------------
(* What goes wrong, and what time brings.                                  *)

Fault(kind) == kind \in Faults /\ faults < MaxFaults /\ faults' = faults + 1

\* The facts or the inventory cannot be read: nothing was removed, so
\* ReleaseImageOperation gives the lease back.
ReadFails(w) ==
  /\ duty[w].at \in {"facts", "inventory"}
  /\ Fault("read")
  /\ operations' = [o \in Operations |->
       IF o = duty[w].op /\ operations[o].status = "pending"
       THEN [operations[o] EXCEPT !.lease = NoWorker] ELSE operations[o]]
  /\ duty' = [duty EXCEPT ![w] = IdleDuty]
  /\ exclusive' = NoWorker
  /\ UNCHANGED <<docker, runs, deployed, published, maintenance, workers, shared, loop>>

\* docker image rm fails for its own reasons.
RemoveFails(w, t) ==
  /\ duty[w].at = "removing" /\ t \in duty[w].todo
  /\ Fault("docker")
  /\ duty' = [duty EXCEPT ![w].todo = @ \ {t}]
  /\ UNCHANGED <<docker, store, workers, lock, loop>>

\* FinishImageOperation's transaction fails: it is logged, and the lease stays.
RecordFails(w) ==
  /\ Finished(w)
  /\ Fault("record")
  /\ duty' = [duty EXCEPT ![w] = IdleDuty]
  /\ exclusive' = NoWorker
  /\ UNCHANGED <<docker, store, workers, shared, loop>>

\* The process is killed: the kernel drops its locks; containers live on.
Crash(w) ==
  /\ workers[w] \in {"up", "stopping"}
  /\ Fault("crash")
  /\ workers' = [workers EXCEPT ![w] = "dead"]
  /\ shared' = shared \ {w}
  /\ exclusive' = IF exclusive = w THEN NoWorker ELSE exclusive
  /\ loop' = [loop EXCEPT ![w] = IdleLoop]
  /\ duty' = [duty EXCEPT ![w] = IdleDuty]
  /\ UNCHANGED <<docker, store>>

\* Run's context ends: a run in progress is stopped and recorded failed, and
\* applyImageTargets returns at its next look at the context; an operation
\* is still recorded, an automatic prune just ends.
Shutdown(w) ==
  /\ workers[w] = "up"
  /\ Fault("shutdown")
  /\ workers' = [workers EXCEPT ![w] = "stopping"]
  /\ LET r == loop[w].run
     IN /\ runs' = IF r # None /\ runs[r].status = "running"
                   THEN [runs EXCEPT ![r].status = "failed"] ELSE runs
        /\ containers' = IF r # None THEN [containers EXCEPT ![r] = None] ELSE containers
  /\ shared' = shared \ {w}
  /\ loop' = [loop EXCEPT ![w] = IdleLoop]
  /\ duty' = [duty EXCEPT ![w] =
       IF @.op = None THEN IdleDuty ELSE [@ EXCEPT !.at = "recording", !.todo = {}]]
  /\ exclusive' = IF exclusive = w /\ duty[w].op = None THEN NoWorker ELSE exclusive
  /\ UNCHANGED <<host, dangling, lastId, deployed, published, operations, maintenance>>

StopWorker(w) ==
  /\ workers[w] = "stopping" /\ duty[w].at = "idle"
  /\ workers' = [workers EXCEPT ![w] = "stopped"]
  /\ UNCHANGED <<docker, store, lock, loop, duty, faults>>

\* Five minutes without a heartbeat.
HeartbeatLost(w) ==
  /\ workers[w] = "dead"
  /\ workers' = [workers EXCEPT ![w] = "lost"]
  /\ UNCHANGED <<docker, store, lock, loop, duty, faults>>

\* Thirty minutes since the claim.
LeaseAges(o) ==
  /\ operations[o].status = "pending" /\ operations[o].lease # NoWorker /\ ~operations[o].old
  /\ operations' = [operations EXCEPT ![o].old = TRUE]
  /\ UNCHANGED <<docker, runs, deployed, published, maintenance, workers, lock, loop, duty, faults>>

\* FailLostRuns and recoverExecutions, in one step here (see Execution): the
\* container is stopped, a deploy step that had passed is recorded, and both
\* happen without the host lock.
RecoverRun(w, r, shipped) ==
  /\ workers[w] = "up" /\ loop[w].at = "idle"
  /\ runs[r].status = "running" /\ workers[runs[r].worker] = "lost"
  /\ shipped => containers[r] # None /\ runs[r].pipeline.deploys
  /\ runs' = [runs EXCEPT ![r].status = "failed"]
  /\ containers' = [containers EXCEPT ![r] = None]
  /\ deployed' = IF shipped THEN runs[r].version ELSE deployed
  /\ UNCHANGED <<host, dangling, lastId, published, operations, maintenance, workers, lock, loop,
                 duty, faults>>

Pause ==
  /\ ~maintenance
  /\ Fault("pause")
  /\ maintenance' = TRUE
  /\ UNCHANGED <<docker, runs, deployed, published, operations, workers, lock, loop, duty>>

Resume ==
  /\ maintenance
  /\ maintenance' = FALSE
  /\ UNCHANGED <<docker, runs, deployed, published, operations, workers, lock, loop, duty, faults>>

----------------------------------------------------------------------------

Administrators ==
  \/ \E targets \in SUBSET published.rows : QueueImagePrune(targets)
  \/ \E row \in published.rows : QueueImageRemove(row)
  \/ QueueImageCachePrune
  \/ \E v \in Versions, p \in Pipelines : Push(v, p)
  \/ Pause \/ Resume

RunLoop(w) ==
  \/ ReadImages(w) \/ WaitHostExecution(w) \/ ClaimNext(w)
  \/ CheckImages(w) \/ StartContainer(w)
  \/ \E passed \in BOOLEAN : FinishRun(w, passed)
  \/ \E publish \in BOOLEAN : AfterRun(w, publish)
  \/ \E r \in Runs, shipped \in BOOLEAN : RecoverRun(w, r, shipped)

ImageWork(w) ==   \* the steps under the exclusive lock
  \/ ReadFacts(w) \/ ReadInventory(w) \/ Record(w)
  \/ \E t \in duty[w].todo : RemoveImage(w, t)

ImageDuties(w) ==
  \/ PublishInventory(w) \/ EnforceCache(w)
  \/ ClaimImageOperation(w) \/ LowDisk(w)
  \/ ImageWork(w)

Trouble ==
  \/ \E w \in Workers :
       \/ Crash(w) \/ Shutdown(w) \/ StopWorker(w) \/ HeartbeatLost(w)
       \/ ReadFails(w) \/ RecordFails(w)
       \/ \E t \in duty[w].todo : RemoveFails(w, t)
  \/ \E o \in Operations : LeaseAges(o)

ImagesNext ==
  \/ Administrators
  \/ \E w \in Workers : RunLoop(w) \/ ImageDuties(w)
  \/ \E r \in Runs : Build(r)
  \/ Trouble

\* Loops keep going, timers fire, an operator resumes what was paused.  The
\* exclusive lock is only ever tried, once per tick: strong fairness says
\* that some try meets a moment in which the host is idle, if they recur.
ImagesFairness ==
  /\ \A w \in Workers :
       /\ WF_imageVars(ReadImages(w)) /\ WF_imageVars(WaitHostExecution(w))
       /\ WF_imageVars(ClaimNext(w)) /\ WF_imageVars(CheckImages(w))
       /\ WF_imageVars(StartContainer(w)) /\ WF_imageVars(FinishRun(w, FALSE))
       /\ WF_imageVars(AfterRun(w, FALSE))
       /\ WF_imageVars(\E r \in Runs : RecoverRun(w, r, FALSE))
       /\ WF_imageVars(ImageWork(w))
       /\ SF_imageVars(ClaimImageOperation(w))
       /\ WF_imageVars(StopWorker(w)) /\ WF_imageVars(HeartbeatLost(w))
  /\ \A o \in Operations : WF_imageVars(LeaseAges(o))
  /\ WF_imageVars(Resume)

ImagesSpec == ImagesInit /\ [][ImagesNext]_imageVars /\ ImagesFairness

----------------------------------------------------------------------------
(* Properties.                                                             *)

\* An image a run was checked to have is still there when its container is
\* started, whatever image work is queued, retried or taken over meanwhile:
\* what the shared side of hostExecutionLock is for.
ImagesStayForRun ==
  \A w \in Workers :
    loop[w].at = "starting" => runs[loop[w].run].pipeline.needs \subseteq Present

Removed == {x \in Refs : host[x] # None /\ host'[x] = None}

\* applyImageTargets removes only what was planned: a reference goes only
\* while a worker holds the host exclusively for a plan that names it with
\* the very image it has now, even if it was rebuilt after the plan was made.
RemovesOnlyPlanned ==
  [][\A x \in Removed :
       \E w \in Workers :
         exclusive = w /\ [ref |-> x, id |-> host[x]] \in duty[w].targets]_imageVars

\* A prune spares, of what the worker read again before it began, the
\* references pipelines need and the live version; and it leaves the newest
\* keep tags of the repository, counted among the tags still on the host.
PruneSpares ==
  [][\A x \in Removed, w \in Workers :
       exclusive = w /\ duty[w].kind = "image.prune" =>
         /\ x \notin duty[w].facts.required \cup duty[w].facts.deployed
         /\ Cardinality({v \in Versions : host'[v] > host[x]}) >= duty[w].facts.keep]_imageVars

\* Two workers never act on one operation, and the one that does holds its
\* lease and the host: after a crash, a lost heartbeat or an expired lease.
OneExecutor ==
  \A w \in Workers :
    IF duty[w].at = "idle" THEN duty[w].op = None
    ELSE /\ exclusive = w
         /\ duty[w].op # None =>
              /\ operations[duty[w].op].status = "pending"
              /\ operations[duty[w].op].lease = w

\* The two sides of the host's lock exclude each other, and a run loop holds
\* the shared side from before its claim until handle returns, whatever kills,
\* stops or fails either of them: nothing outlives the lock it was begun under.
HostLock ==
  /\ exclusive # NoWorker => shared = {}
  /\ \A w \in Workers : loop[w].at \notin {"idle", "ready"} => w \in shared

Handling == {"checking", "starting", "ending", "after"}

\* handle works on a stored run, which no push replaces.
HandlesStoredRun ==
  \A w \in Workers : loop[w].at \in Handling => loop[w].run \in Created

\* No tag names an image newer than the last one built.
HostAges == \A x \in Refs : host[x] <= lastId

\* From reading facts and inventory to the last removal, all that is still to
\* go was planned; a prune has in it no reference those facts spare, and the
\* tags to keep are newer than all of it, though builds go on and each
\* removal is a step of its own (applyImageTargets).
TodoSpares ==
  \A w \in Workers :
    /\ duty[w].todo \subseteq duty[w].targets
    /\ duty[w].at = "removing" /\ duty[w].kind = "image.prune" /\ duty[w].todo # {} =>
         /\ \A t \in duty[w].todo : t.ref \notin duty[w].facts.required \cup duty[w].facts.deployed
         /\ \E newer \in SUBSET Versions :
              /\ Cardinality(newer) >= duty[w].facts.keep
              /\ \A v \in newer, t \in duty[w].todo : host[v] > t.id

\* Every table and lock has its type, a run keeps its images, an operation
\* has one executor, and what makes that so.
ImagesSafe ==
  /\ ImagesTypeOK /\ ImagesStayForRun /\ OneExecutor
  /\ HostLock /\ HandlesStoredRun /\ HostAges /\ TodoSpares

\* Every queued image operation ends, through a crash of the worker that
\* leased it, failed reads and lost results, on a host that is idle again
\* and again: nothing keeps claims from overlapping forever on a busy one.
OperationsEnd ==
  []<>(shared = {} /\ ~maintenance) =>
    \A o \in Operations : (operations[o].status = "pending") ~> (operations[o].status = "done")

\* A queued run whose images are on the host is claimed, superseded or loses
\* an image; image work never keeps it waiting forever.
RunsStart ==
  \A r \in Runs : (runs[r].status = "queued") ~>
    (runs[r].status # "queued" \/ ~(runs[r].pipeline.needs \subseteq Present))
=============================================================================
