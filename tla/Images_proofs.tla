--------------------------- MODULE Images_proofs ----------------------------
(***************************************************************************)
(* Theorems about Images, for any number of workers, images, runs and      *)
(* operations, any pipelines and any faults: image work and runs exclude   *)
(* each other on a host, and what image work removes was planned.          *)
(***************************************************************************)
EXTENDS Images, FiniteSetTheorems, WellFoundedInduction, TLAPS

----------------------------------------------------------------------------
(* Least and greatest.                                                     *)

\* A set of numbers that is not empty has a least one.
LEMMA LeastExists ==
  ASSUME NEW S \in SUBSET Nat, S # {}
  PROVE  \E x \in S : \A y \in S : x <= y
<1> DEFINE R == {ss \in Nat \X Nat : ss[1] < ss[2]}
<1>1. IsWellFoundedOn(R, Nat)
  BY NatLessThanWellFounded DEF OpToRel
<1>2. \A x, y \in Nat : <<x, y>> \in R <=> x < y
  OBVIOUS
<1> HIDE DEF R
<1>3. PICK x \in S : \A y \in S : ~ (<<y, x>> \in R)
  BY <1>1, WFMin
<1>4. \A y \in S : ~ (y < x)
  BY <1>2, <1>3
<1>. QED BY <1>4

\* Min picks it.
LEMMA MinIsLeast ==
  ASSUME NEW S \in SUBSET Nat, S # {}
  PROVE  Min(S) \in S /\ \A y \in S : Min(S) <= y
BY LeastExists DEF Min

\* Max picks the greatest of a finite set: the one that fewest are above.
LEMMA MaxIsGreatest ==
  ASSUME NEW S \in SUBSET Nat, S # {}, IsFiniteSet(S)
  PROVE  Max(S) \in S /\ \A y \in S : Max(S) >= y
<1> DEFINE Above(x) == {y \in S : y > x}
           N == {Cardinality(Above(x)) : x \in S}
<1>1. \A x \in S : IsFiniteSet(Above(x)) /\ Cardinality(Above(x)) \in Nat
  BY FS_Subset, FS_CardinalityType
<1>2. N \in SUBSET Nat /\ N # {}
  BY <1>1
<1>3. PICK n \in N : \A m \in N : n <= m
  BY <1>2, LeastExists
<1>4. PICK x \in S : n = Cardinality(Above(x))
  OBVIOUS
<1> HIDE DEF N
<1>5. \A y \in S : Cardinality(Above(x)) <= Cardinality(Above(y))
  BY <1>3, <1>4 DEF N
<1>6. \A y \in S : y \in Nat
  OBVIOUS
<1>7. ASSUME NEW y \in S, y > x
      PROVE  FALSE
  <2>1. Above(y) \in SUBSET Above(x)
    <3>1. ASSUME NEW z \in S, z > y  PROVE z > x
      <4>1. x \in Nat /\ y \in Nat /\ z \in Nat
        OBVIOUS
      <4>. QED BY <1>7, <3>1, <4>1
    <3>. QED BY <3>1
  <2>2. y \in Above(x) /\ y \notin Above(y)
    BY <1>6, <1>7
  <2>3. Cardinality(Above(y)) <= Cardinality(Above(x))
    BY <1>1, <2>1, FS_Subset
  <2>4. Cardinality(Above(y)) # Cardinality(Above(x))
    BY <1>1, <2>1, <2>2, FS_Subset
  <2>. QED BY <1>1, <1>5, <2>3, <2>4
<1>8. \A y \in S : x >= y
  BY <1>6, <1>7
<1>. QED BY <1>8 DEF Max

----------------------------------------------------------------------------
(* What is read has its type.                                              *)

\* The constants, as the proofs use them.
LEMMA Constants ==
  /\ NoWorker \notin Workers
  /\ Untagged \notin Refs /\ Bases \cap Versions = {} /\ Versions # {}
  /\ IsFiniteSet(Refs) /\ IsFiniteSet(Versions) /\ IsFiniteSet(Runs)
  /\ Pipelines \subseteq Pipeline
  /\ MaxRuns \in Nat /\ MaxIds \in Nat /\ MaxOps \in Nat /\ MaxFaults \in Nat
  /\ FactsLimit \in Nat /\ 1 \in Runs
  /\ Runs \subseteq Nat \ {0} /\ Ids \subseteq Nat \ {0} /\ Operations \subseteq Nat \ {0}
<1>1. MaxRuns \in Nat /\ MaxRuns > 0
  BY ImagesConstantsOK
<1>2. IsFiniteSet(Runs)
  BY <1>1, FS_Interval DEF Runs
<1>3. IsFiniteSet(Versions)
  BY ImagesConstantsOK, FS_Subset DEF Refs
<1>. QED BY <1>1, <1>2, <1>3, ImagesConstantsOK DEF Runs, Ids, Operations

\* A run's images and the number of tags its repository keeps.
LEMMA RunTyped ==
  ASSUME ImagesTypeOK, NEW r \in Runs
  PROVE  /\ runs[r] \in Run
         /\ runs[r].status \in {"absent", "queued", "running", "passed", "failed"}
         /\ runs[r].worker \in Workers \cup {NoWorker}
         /\ runs[r].version \in Versions
         /\ runs[r].pipeline \in Pipelines
         /\ runs[r].pipeline.needs \subseteq Refs
         /\ runs[r].pipeline.keep \in Nat
         /\ runs[r].pipeline.builds \in BOOLEAN
         /\ runs[r].pipeline.deploys \in BOOLEAN
<1>1. runs[r] \in Run
  BY DEF ImagesTypeOK
<1>2. runs[r].pipeline \in Pipeline
  BY <1>1, Constants DEF Run
<1>. QED BY <1>1, <1>2 DEF Run, Pipeline

\* The head is the newest run there is.
LEMMA HeadIsNewest ==
  ASSUME ImagesTypeOK, Created # {}
  PROVE  Head \in Created /\ Head \in Runs /\ \A r \in Created : r <= Head
<1>1. Created \in SUBSET Runs /\ Created \in SUBSET Nat /\ IsFiniteSet(Created)
  BY Constants, FS_Subset DEF Created
<1>2. Max(Created) \in Created /\ \A y \in Created : Max(Created) >= y
  BY <1>1, MaxIsGreatest
<1>. QED BY <1>1, <1>2, Constants DEF Head

\* Service.ImageFacts answers with facts.
LEMMA FactsTyped ==
  ASSUME ImagesTypeOK, Created # {}
  PROVE  CurrentFacts \in Facts
<1>1. Needy \subseteq Runs
  BY HeadIsNewest DEF Needy, Created
<1> DEFINE K == {runs[r].pipeline.keep : r \in Needy}
           keep == Max({0} \cup K)
<1>2. IsFiniteSet(Needy) /\ Cardinality(Needy) \in Nat
  BY <1>1, Constants, FS_Subset, FS_CardinalityType
<1>3. IsFiniteSet(K) /\ K \in SUBSET Nat
  <2> DEFINE f == [r \in Needy |-> runs[r].pipeline.keep]
  <2>1. f \in Surjection(Needy, K)
    BY DEF Surjection
  <2>2. IsFiniteSet(K)
    BY <1>2, <2>1, FS_Surjection
  <2>. QED BY <1>1, <2>2, RunTyped
<1>4. IsFiniteSet({0} \cup K)
  BY <1>3, FS_Singleton, FS_Union
<1>5. keep \in Nat
  BY <1>3, <1>4, MaxIsGreatest
<1> DEFINE required == UNION {runs[r].pipeline.needs : r \in Needy}
           live == IF keep > 0 THEN {deployed} ELSE {}
           incomplete == Cardinality(Needy) > FactsLimit
<1>6. required \in SUBSET Refs
  BY <1>1, RunTyped
<1>7. live \in SUBSET Versions
  BY DEF ImagesTypeOK
<1>8. incomplete \in BOOLEAN
  OBVIOUS
<1>9. CurrentFacts = [required |-> required, keep |-> keep, deployed |-> live,
                      incomplete |-> incomplete]
  BY DEF CurrentFacts
<1> HIDE DEF required, keep, live, incomplete
<1>. QED BY <1>5, <1>6, <1>7, <1>8, <1>9 DEF Facts

\* Docker answers with an inventory: its rows are what tags and IDs there are.
LEMMA InventoryTyped ==
  ASSUME ImagesTypeOK
  PROVE  /\ CurrentInventory \in Inventory
         /\ \A row \in CurrentInventory.rows :
              row \in Row /\ (row.ref # Untagged => row.ref \in Refs /\ row.id = host[row.ref])
<1> DEFINE tagged == {[ref |-> x, id |-> host[x]] : x \in Present}
           untagged == {[ref |-> Untagged, id |-> i] : i \in dangling}
           used == {containers[r] : r \in Runs} \ {None}
<1>1. \A x \in Present : x \in Refs /\ host[x] \in Ids
  BY DEF ImagesTypeOK, Present
<1>2. tagged \subseteq Row /\ \A row \in tagged : row.ref \in Refs /\ row.id = host[row.ref]
  BY <1>1 DEF Row
<1>3. untagged \subseteq Row /\ \A row \in untagged : row.ref = Untagged
  BY DEF Row, ImagesTypeOK
<1>4. used \subseteq Ids
  BY DEF ImagesTypeOK
<1>5. CurrentInventory = [rows |-> tagged \cup untagged, used |-> used]
  BY DEF CurrentInventory
<1> HIDE DEF tagged, untagged, used
<1>. QED BY <1>2, <1>3, <1>4, <1>5 DEF Inventory

\* A row of an inventory, as it is seen.
LEMMA RowTyped ==
  ASSUME NEW row \in Row
  PROVE  /\ row.ref \in Refs \cup {Untagged} /\ row.id \in Ids
         /\ row = [ref |-> row.ref, id |-> row.id]
BY DEF Row

\* What a prune lists is in the inventory: tags, built ones, not spared, and
\* with as many newer ones as are kept.
LEMMA PlanPruneLists ==
  ASSUME NEW inv \in Inventory, NEW facts \in Facts, NEW row \in PlanPrune(inv, facts)
  PROVE  /\ row \in inv.rows /\ row \in Row
         /\ row.ref \in Versions
         /\ row.ref \notin facts.required \cup facts.deployed
         /\ ~ (Cardinality({o \in BuiltRows(inv.rows, facts) : o.id > row.id}) < facts.keep)
<1>1. row \in BuiltRows(inv.rows, facts) /\ ~Deployed(row, inv.rows, facts)
      /\ ~WithinKeep(row, inv.rows, facts)
  BY DEF PlanPrune
<1>2. row \in inv.rows /\ Class(row, facts) = "built"
  BY <1>1 DEF BuiltRows
<1>3. row.ref \in Versions /\ row.ref \notin facts.required
  BY <1>2 DEF Class
<1>4. row.ref \notin facts.deployed
  BY <1>1 DEF Deployed
<1>5. row \in Row
  BY <1>2 DEF Inventory
<1>. QED BY <1>1, <1>2, <1>3, <1>4, <1>5 DEF WithinKeep

----------------------------------------------------------------------------
(* The actions, and the types they keep.                                   *)

HostInv == ImagesSafe /\ Created # {}

\* Whatever an administrator queues, its targets are rows of the inventory.
Queued == \E kind \in Kinds, targets \in SUBSET published.rows : Queue(kind, targets)

\* The actions of a worker, one disjunct each.
Works(w) ==
  \/ RunLoop(w) \/ ImageDuties(w)
  \/ Crash(w) \/ Shutdown(w) \/ StopWorker(w) \/ HeartbeatLost(w)
  \/ ReadFails(w) \/ RecordFails(w)
  \/ \E t \in duty[w].todo : RemoveFails(w, t)

\* Every step is one of these.
LEMMA Steps ==
  ASSUME ImagesNext
  PROVE  \/ Queued
         \/ \E v \in Versions, p \in Pipelines : Push(v, p)
         \/ Pause \/ Resume
         \/ \E w \in Workers : Works(w)
         \/ \E r \in Runs : Build(r)
         \/ \E o \in Operations : LeaseAges(o)
<1>1. ASSUME NEW targets \in SUBSET published.rows, QueueImagePrune(targets)  PROVE Queued
  BY <1>1 DEF QueueImagePrune, Queued, Kinds
<1>2. ASSUME NEW row \in published.rows, QueueImageRemove(row)  PROVE Queued
  <2>1. {row} \in SUBSET published.rows
    OBVIOUS
  <2>. QED BY <1>2, <2>1 DEF QueueImageRemove, Queued, Kinds
<1>3. ASSUME QueueImageCachePrune  PROVE Queued
  <2>1. {} \in SUBSET published.rows
    OBVIOUS
  <2>. QED BY <1>3, <2>1 DEF QueueImageCachePrune, Queued, Kinds
<1>. QED BY <1>1, <1>2, <1>3 DEF ImagesNext, Administrators, Trouble, Works

\* A run that moves on is a run.
LEMMA RunsMoved ==
  ASSUME NEW old \in [Runs -> Run], NEW r \in Runs, NEW new,
         NEW s \in {"absent", "queued", "running", "passed", "failed"},
         new = [old EXCEPT ![r].status = s]
  PROVE  /\ new \in [Runs -> Run]
         /\ \A q \in Runs : new[q].pipeline = old[q].pipeline /\ (q # r => new[q] = old[q])
         /\ new[r].status = s
<1>1. new \in [Runs -> Run]
  BY DEF Run
<1>. QED BY <1>1 DEF Run

\* So is one that is claimed.
LEMMA RunsClaimed ==
  ASSUME NEW old \in [Runs -> Run], NEW r \in Runs, NEW w \in Workers, NEW new,
         new = [old EXCEPT ![r].status = "running", ![r].worker = w]
  PROVE  /\ new \in [Runs -> Run]
         /\ \A q \in Runs : new[q].pipeline = old[q].pipeline /\ (q # r => new[q] = old[q])
         /\ new[r].status = "running"
<1> DEFINE one == [old EXCEPT ![r].status = "running"]
<1>1. /\ one \in [Runs -> Run]
      /\ \A q \in Runs : one[q].pipeline = old[q].pipeline /\ (q # r => one[q] = old[q])
      /\ one[r].status = "running"
  BY RunsMoved
<1>2. new = [one EXCEPT ![r].worker = w]
  OBVIOUS
<1> HIDE DEF one
<1>3. new \in [Runs -> Run]
  BY <1>1, <1>2 DEF Run
<1>4. /\ \A q \in Runs : q # r => new[q] = one[q]
      /\ new[r].pipeline = one[r].pipeline /\ new[r].status = one[r].status
  BY <1>1, <1>2 DEF Run
<1>. QED BY <1>1, <1>3, <1>4

\* A run loop goes to its next place.
LEMMA LoopMoved ==
  ASSUME NEW old \in [Workers -> Loop], NEW w \in Workers, NEW new,
         NEW at \in {"idle", "ready", "claiming", "checking", "starting", "ending", "after"},
         new = [old EXCEPT ![w].at = at]
  PROVE  /\ new \in [Workers -> Loop]
         /\ \A v \in Workers : v # w => new[v] = old[v]
         /\ new[w].at = at /\ new[w].run = old[w].run
<1>1. new \in [Workers -> Loop]
  BY DEF Loop
<1>. QED BY <1>1 DEF Loop

\* So do image duties; their other fields stay.
LEMMA DutyTyped ==
  ASSUME ImagesTypeOK, NEW w \in Workers
  PROVE  /\ duty[w] \in Duty
         /\ duty[w].at \in {"idle", "facts", "inventory", "removing", "recording"}
         /\ duty[w].op \in {None} \cup Operations
         /\ duty[w].kind \in Kinds
         /\ duty[w].targets \in SUBSET Row /\ duty[w].todo \in SUBSET Row
         /\ duty[w].facts \in Facts
<1>1. duty[w] \in Duty
  BY DEF ImagesTypeOK
<1>. QED BY <1>1 DEF Duty

\* Nothing to do is a place to be.
LEMMA IdleTyped ==
  /\ IdleDuty \in Duty /\ IdleLoop \in Loop /\ NoOperation \in Operation
  /\ IdleDuty.at = "idle" /\ IdleDuty.op = None /\ IdleDuty.todo = {}
  /\ IdleDuty.targets = {} /\ IdleLoop.at = "idle"
<1>1. NoFacts \in Facts
  BY DEF NoFacts, Facts
<1>2. IdleDuty \in Duty
  BY <1>1 DEF IdleDuty, Duty, Kinds
<1>. QED BY <1>2 DEF IdleDuty, IdleLoop, Loop, NoOperation, Operation, Kinds

----------------------------------------------------------------------------
(* The lock of the host, and who works under it.                           *)

\* Nothing a step does without the lock lets the two sides overlap.
LEMMA LockKept == ASSUME HostInv, ImagesNext  PROVE HostLock'
<1>1. /\ loop \in [Workers -> Loop] /\ shared \subseteq Workers
      /\ exclusive \in Workers \cup {NoWorker} /\ HostLock
  BY DEF HostInv, ImagesSafe, ImagesTypeOK
<1>2. CASE UNCHANGED <<loop, shared, exclusive>>
  BY <1>1, <1>2 DEF HostLock
<1>3. CASE Queued \/ Pause \/ Resume
  BY <1>2, <1>3 DEF Queued, Queue, Pause, Resume, lock
<1>4. CASE (\E v \in Versions, p \in Pipelines : Push(v, p)) \/ (\E r \in Runs : Build(r))
           \/ \E o \in Operations : LeaseAges(o)
  BY <1>2, <1>4 DEF Push, Build, LeaseAges, lock
<1>5. ASSUME NEW w \in Workers, Works(w)  PROVE HostLock'
  <2>1. CASE ReadImages(w)
    BY <1>1, <2>1 DEF ReadImages, HostLock, lock
  <2>2. CASE WaitHostExecution(w)
    BY <1>1, <2>2, LoopMoved DEF WaitHostExecution, SharedFree, HostLock
  <2>3. CASE ClaimNext(w)
    BY <1>1, <2>3, IdleTyped DEF ClaimNext, HostLock
  <2>4. CASE CheckImages(w) \/ StartContainer(w)
    BY <1>1, <2>4, LoopMoved DEF CheckImages, StartContainer, HostLock, lock
  <2>5. ASSUME NEW passed \in BOOLEAN, FinishRun(w, passed)  PROVE HostLock'
    BY <1>1, <2>5, LoopMoved DEF FinishRun, HostLock, lock
  <2>6. ASSUME NEW publish \in BOOLEAN, AfterRun(w, publish)  PROVE HostLock'
    BY <1>1, <2>6, IdleTyped DEF AfterRun, HostLock
  <2>7. CASE \E r \in Runs, shipped \in BOOLEAN : RecoverRun(w, r, shipped)
    BY <1>2, <2>7 DEF RecoverRun, lock
  <2>8. CASE PublishInventory(w) \/ EnforceCache(w) \/ ReadFacts(w) \/ ReadInventory(w)
             \/ \E t \in duty[w].todo : RemoveImage(w, t) \/ RemoveFails(w, t)
    BY <1>2, <2>8
       DEF PublishInventory, EnforceCache, ReadFacts, ReadInventory, RemoveImage, RemoveFails, lock
  <2>9. CASE ClaimImageOperation(w) \/ LowDisk(w)
    BY <1>1, <2>9 DEF ClaimImageOperation, LowDisk, ExclusiveFree, HostLock
  <2>10. CASE Record(w) \/ ReadFails(w) \/ RecordFails(w)
    BY <1>1, <2>10 DEF Record, ReadFails, RecordFails, HostLock
  <2>11. CASE Crash(w) \/ Shutdown(w)
    BY <1>1, <2>11, IdleTyped DEF Crash, Shutdown, HostLock
  <2>12. CASE StopWorker(w) \/ HeartbeatLost(w)
    BY <1>2, <2>12 DEF StopWorker, HeartbeatLost, lock
  <2>. QED BY <1>5, <2>1, <2>2, <2>3, <2>4, <2>5, <2>6, <2>7, <2>8, <2>9, <2>10, <2>11, <2>12
           DEF Works, RunLoop, ImageDuties, ImageWork
<1>. QED BY <1>3, <1>4, <1>5, Steps

\* A run loop that handles a run keeps it: it is stored, and only CheckImages
\* takes it on to start, when its images are there.
LEMMA HandlesKept ==
  ASSUME HostInv, ImagesNext
  PROVE  /\ Created \subseteq Created'
         /\ HandlesStoredRun'
         /\ \A w \in Workers :
              loop'[w].at = "starting" =>
                /\ loop'[w].run \in Runs
                /\ \/ loop[w].at = "starting" /\ loop'[w].run = loop[w].run
                   \/ runs'[loop'[w].run].pipeline.needs \subseteq Present /\ UNCHANGED host
                /\ runs'[loop'[w].run].pipeline.needs = runs[loop'[w].run].pipeline.needs
<1>1. /\ loop \in [Workers -> Loop] /\ runs \in [Runs -> Run] /\ HandlesStoredRun
      /\ ImagesTypeOK /\ Created # {} /\ IdleLoop.at = "idle"
  BY IdleTyped DEF HostInv, ImagesSafe, ImagesTypeOK
<1> DEFINE Keeps ==
      /\ Created \subseteq Created'
      /\ HandlesStoredRun'
      /\ \A w \in Workers :
           loop'[w].at = "starting" =>
             /\ loop'[w].run \in Runs
             /\ \/ loop[w].at = "starting" /\ loop'[w].run = loop[w].run
                \/ runs'[loop'[w].run].pipeline.needs \subseteq Present /\ UNCHANGED host
             /\ runs'[loop'[w].run].pipeline.needs = runs[loop'[w].run].pipeline.needs
<1>2. CASE UNCHANGED <<loop, runs>>
  BY <1>1, <1>2 DEF HandlesStoredRun, Created, Handling
\* A run's rows stay what the loops need of them, and no loop starts.
<1>3. ASSUME UNCHANGED loop,
             \A r \in Created : /\ r \in Created'
                                /\ runs'[r].pipeline = runs[r].pipeline
      PROVE  Keeps
  BY <1>1, <1>3 DEF HandlesStoredRun, Handling, Created
<1>4. CASE Queued \/ Pause \/ Resume
  BY <1>2, <1>4 DEF Queued, Queue, Pause, Resume
<1>5. ASSUME NEW v \in Versions, NEW p \in Pipelines, Push(v, p)  PROVE Keeps
  <2>1. ASSUME NEW r \in Created  PROVE r \in Runs /\ r # Head + 1
    <3>1. Head \in Nat /\ r \in Nat /\ r <= Head /\ r \in Runs
      BY <1>1, HeadIsNewest, Constants DEF Created
    <3>. QED BY <3>1
  <2>2. ASSUME NEW r \in Created
        PROVE  r \in Created' /\ runs'[r].pipeline = runs[r].pipeline
    <3>1. runs'[r] = IF runs[r].status = "queued" THEN [runs[r] EXCEPT !.status = "failed"]
                     ELSE runs[r]
      BY <1>5, <2>1 DEF Push
    <3>2. runs[r] \in Run /\ runs[r].status # "absent"
      BY <1>1 DEF Created
    <3>. QED BY <2>1, <3>1, <3>2 DEF Created, Run
  <2>. QED BY <1>3, <1>5, <2>2 DEF Push
<1>6. CASE (\E r \in Runs : Build(r)) \/ \E o \in Operations : LeaseAges(o)
  BY <1>2, <1>6 DEF Build, LeaseAges, store
<1>7. ASSUME NEW w \in Workers, Works(w)  PROVE Keeps
  \* The loop of w goes where it starts nothing and handles no new run.
  <2>1. ASSUME \A v \in Workers : v # w => loop'[v] = loop[v],
               loop'[w].at \in {"idle", "ready", "claiming"},
               \A r \in Created : r \in Created' /\ runs'[r].pipeline = runs[r].pipeline
        PROVE  Keeps
    BY <1>1, <2>1 DEF HandlesStoredRun, Handling, Created
  <2>2. ASSUME \A v \in Workers : v # w => loop'[v] = loop[v],
               loop[w].at \in Handling, loop'[w].run = loop[w].run, loop'[w].at # "starting",
               \A r \in Created : r \in Created' /\ runs'[r].pipeline = runs[r].pipeline
        PROVE  Keeps
    BY <1>1, <2>2 DEF HandlesStoredRun, Handling, Created
  <2>3. ASSUME NEW r \in Runs, NEW s \in {"queued", "running", "passed", "failed"},
               \/ runs' = [runs EXCEPT ![r].status = s]
               \/ runs' = runs
        PROVE  \A q \in Created : q \in Created' /\ runs'[q].pipeline = runs[q].pipeline
    <3>1. CASE runs' = runs
      BY <3>1 DEF Created
    <3>2. CASE runs' = [runs EXCEPT ![r].status = s]
      <4>1. /\ \A q \in Runs : runs'[q].pipeline = runs[q].pipeline /\ (q # r => runs'[q] = runs[q])
            /\ runs'[r].status = s
        BY <1>1, <3>2, RunsMoved
      <4>2. s # "absent"
        OBVIOUS
      <4>. QED BY <4>1, <4>2 DEF Created
    <3>. QED BY <2>3, <3>1, <3>2
  <2>4. runs' = runs => \A q \in Created : q \in Created' /\ runs'[q].pipeline = runs[q].pipeline
    BY DEF Created
  <2>5. CASE ReadImages(w)
    BY <1>1, <2>1, <2>4, <2>5 DEF ReadImages, store
  <2>6. CASE WaitHostExecution(w)
    BY <1>1, <2>1, <2>4, <2>6, LoopMoved DEF WaitHostExecution, store
  <2>7. CASE ClaimNext(w)
    <3>1. CASE maintenance \/ Wanted(w) = {}
      BY <1>1, <2>1, <2>4, <2>7, <3>1 DEF ClaimNext
    <3>2. CASE ~(maintenance \/ Wanted(w) = {})
      <4> DEFINE r == Min(Wanted(w))
      <4>1. Wanted(w) \in SUBSET Nat /\ Wanted(w) \in SUBSET Created
        BY Constants DEF Wanted, Created
      <4>2. r \in Created /\ r \in Runs
        BY <3>2, <4>1, MinIsLeast DEF Created
      <4>3. /\ runs' = [runs EXCEPT ![r].status = "running", ![r].worker = w]
            /\ loop' = [loop EXCEPT ![w] = [at |-> "checking", images |-> {}, run |-> r]]
        BY <2>7, <3>2 DEF ClaimNext
      <4> HIDE DEF r
      <4>4. /\ \A q \in Runs : runs'[q].pipeline = runs[q].pipeline /\ (q # r => runs'[q] = runs[q])
            /\ runs'[r].status = "running"
        BY <1>1, <4>2, <4>3, RunsClaimed
      <4>5. \A q \in Created : q \in Created' /\ runs'[q].pipeline = runs[q].pipeline
        BY <4>4 DEF Created
      <4>6. /\ \A v \in Workers : v # w => loop'[v] = loop[v]
            /\ loop'[w].at = "checking" /\ loop'[w].run = r
        BY <1>1, <4>3
      <4>. QED BY <1>1, <4>2, <4>5, <4>6 DEF HandlesStoredRun, Handling, Created
    <3>. QED BY <3>1, <3>2
  <2>8. CASE CheckImages(w)
    <3> DEFINE r == loop[w].run
    <3>1. r \in Created /\ r \in Runs
      BY <1>1, <2>8 DEF CheckImages, HandlesStoredRun, Handling, Created
    <3>2. CASE runs[r].pipeline.needs \subseteq Present
      <4>1. UNCHANGED <<runs, host>> /\ loop' = [loop EXCEPT ![w].at = "starting"]
        BY <2>8, <3>2 DEF CheckImages, docker
      <4>2. /\ \A v \in Workers : v # w => loop'[v] = loop[v]
            /\ loop'[w].at = "starting" /\ loop'[w].run = r
        BY <1>1, <4>1, LoopMoved
      <4>. QED BY <1>1, <3>1, <3>2, <4>1, <4>2 DEF HandlesStoredRun, Handling, Created
    <3>3. CASE ~(runs[r].pipeline.needs \subseteq Present)
      <4>1. /\ runs' = [runs EXCEPT ![r].status = "failed"]
            /\ loop' = [loop EXCEPT ![w].at = "after"]
        BY <2>8, <3>3 DEF CheckImages
      <4>2. /\ \A v \in Workers : v # w => loop'[v] = loop[v]
            /\ loop'[w].at = "after" /\ loop'[w].run = loop[w].run
        BY <1>1, <4>1, LoopMoved
      <4>. QED BY <2>2, <2>3, <2>8, <3>1, <4>1, <4>2 DEF CheckImages, Handling
    <3>. QED BY <3>2, <3>3
  <2>9. CASE StartContainer(w)
    <3> DEFINE r == loop[w].run
    <3>1. r \in Runs
      BY <1>1, <2>9 DEF StartContainer, HandlesStoredRun, Handling, Created
    <3>2. PICK at \in {"ending", "after"} :
            /\ loop' = [loop EXCEPT ![w].at = at]
            /\ runs' = [runs EXCEPT ![r].status = "failed"] \/ runs' = runs
      BY <2>9 DEF StartContainer
    <3>3. /\ \A v \in Workers : v # w => loop'[v] = loop[v]
          /\ loop'[w].at = at /\ loop'[w].run = loop[w].run
      BY <1>1, <3>2, LoopMoved
    <3>. QED BY <2>2, <2>3, <2>9, <3>1, <3>2, <3>3 DEF StartContainer, Handling
  <2>10. ASSUME NEW passed \in BOOLEAN, FinishRun(w, passed)  PROVE Keeps
    <3> DEFINE r == loop[w].run
               s == IF passed THEN "passed" ELSE "failed"
    <3>1. r \in Runs
      BY <1>1, <2>10 DEF FinishRun, HandlesStoredRun, Handling, Created
    <3>2. /\ loop' = [loop EXCEPT ![w].at = "after"]
          /\ runs' = [runs EXCEPT ![r].status = s] /\ s \in {"passed", "failed"}
      BY <2>10 DEF FinishRun
    <3>3. /\ \A v \in Workers : v # w => loop'[v] = loop[v]
          /\ loop'[w].at = "after" /\ loop'[w].run = loop[w].run
      BY <1>1, <3>2, LoopMoved
    <3> HIDE DEF s
    <3>. QED BY <2>2, <2>3, <2>10, <3>1, <3>2, <3>3 DEF FinishRun, Handling
  <2>11. ASSUME NEW publish \in BOOLEAN, AfterRun(w, publish)  PROVE Keeps
    BY <1>1, <2>1, <2>4, <2>11 DEF AfterRun
  <2>12. ASSUME NEW r \in Runs, NEW shipped \in BOOLEAN, RecoverRun(w, r, shipped)  PROVE Keeps
    BY <1>3, <2>3, <2>12 DEF RecoverRun
  <2>13. CASE ImageDuties(w)
    BY <1>2, <2>13
       DEF ImageDuties, ImageWork, PublishInventory, EnforceCache, ClaimImageOperation, LowDisk,
           ReadFacts, ReadInventory, Record, RemoveImage, store
  <2>14. CASE Crash(w)
    BY <1>1, <2>1, <2>4, <2>14 DEF Crash, store
  <2>15. CASE Shutdown(w)
    <3>1. \A q \in Created : q \in Created' /\ runs'[q].pipeline = runs[q].pipeline
      <4>1. CASE runs' = runs
        BY <2>4, <4>1
      <4>2. CASE runs' # runs
        <5>1. /\ loop[w].run \in Runs
              /\ runs' = [runs EXCEPT ![loop[w].run].status = "failed"]
          BY <1>1, <2>15, <4>2 DEF Shutdown, Loop
        <5>. QED BY <2>3, <5>1
      <4>. QED BY <4>1, <4>2
    <3>. QED BY <1>1, <2>1, <2>15, <3>1 DEF Shutdown
  <2>16. CASE StopWorker(w) \/ HeartbeatLost(w) \/ ReadFails(w) \/ RecordFails(w)
              \/ \E t \in duty[w].todo : RemoveFails(w, t)
    BY <1>2, <2>16 DEF StopWorker, HeartbeatLost, ReadFails, RecordFails, RemoveFails, store
  <2>. QED BY <1>7, <2>5, <2>6, <2>7, <2>8, <2>9, <2>10, <2>11, <2>12, <2>13, <2>14, <2>15, <2>16
           DEF Works, RunLoop
<1>. QED BY <1>4, <1>5, <1>6, <1>7, Steps

----------------------------------------------------------------------------
(* What happens to the tags.                                               *)

\* A build of a run's version, as it is to the tags.
Tags(r) ==
  /\ lastId < MaxIds
  /\ lastId' = lastId + 1
  /\ host' = [host EXCEPT ![runs[r].version] = lastId + 1]
  /\ UNCHANGED <<loop, duty, exclusive, runs>>

\* The removal of the tag that target t of worker w names.
Untags(w, t) ==
  /\ RemoveImage(w, t)
  /\ t.ref \in Refs /\ host[t.ref] = t.id /\ t.id \in Ids
  /\ host' = [host EXCEPT ![t.ref] = None]

\* Nothing else changes a tag.
LEMMA HostSteps ==
  ASSUME HostInv, ImagesNext
  PROVE  \/ UNCHANGED <<host, lastId>>
         \/ \E r \in Runs : Tags(r)
         \/ \E w \in Workers : \E t \in duty[w].todo : Untags(w, t)
<1> DEFINE Keeps ==
      \/ UNCHANGED <<host, lastId>>
      \/ \E r \in Runs : Tags(r)
      \/ \E w \in Workers : \E t \in duty[w].todo : Untags(w, t)
<1>1. ImagesTypeOK
  BY DEF HostInv, ImagesSafe
<1>2. CASE Queued \/ Pause \/ Resume
  BY <1>2 DEF Queued, Queue, Pause, Resume, docker
<1>3. CASE (\E v \in Versions, p \in Pipelines : Push(v, p)) \/ \E o \in Operations : LeaseAges(o)
  BY <1>3 DEF Push, LeaseAges, docker
<1>4. ASSUME NEW r \in Runs, Build(r)  PROVE Keeps
  BY <1>4 DEF Build, Tags, lock, store
<1>5. ASSUME NEW w \in Workers, Works(w)  PROVE Keeps
  <2>1. CASE RunLoop(w)
    BY <2>1 DEF RunLoop, ReadImages, WaitHostExecution, ClaimNext, CheckImages, StartContainer,
                FinishRun, AfterRun, RecoverRun, docker
  <2>2. CASE PublishInventory(w) \/ EnforceCache(w) \/ ClaimImageOperation(w) \/ LowDisk(w)
             \/ ReadFacts(w) \/ ReadInventory(w) \/ Record(w)
    BY <2>2 DEF PublishInventory, EnforceCache, ClaimImageOperation, LowDisk, ReadFacts,
                ReadInventory, Record, docker
  <2>3. ASSUME NEW t \in duty[w].todo, RemoveImage(w, t)  PROVE Keeps
    <3>1. t \in Row /\ t.ref \in Refs \cup {Untagged} /\ t.id \in Ids
      BY <1>1, DutyTyped, RowTyped
    <3>2. UNCHANGED lastId
      BY <2>3 DEF RemoveImage
    <3>3. CASE host' = host
      BY <3>2, <3>3
    <3>4. CASE host' # host
      <4>1. /\ t.ref # Untagged /\ host' = [host EXCEPT ![t.ref] = None]
            /\ host[t.ref] = t.id
        BY <2>3, <3>4 DEF RemoveImage, SameImage
      <4>. QED BY <2>3, <3>1, <4>1 DEF Untags
    <3>. QED BY <3>3, <3>4
  <2>4. CASE Crash(w) \/ Shutdown(w) \/ StopWorker(w) \/ HeartbeatLost(w) \/ ReadFails(w)
             \/ RecordFails(w) \/ \E t \in duty[w].todo : RemoveFails(w, t)
    BY <2>4 DEF Crash, Shutdown, StopWorker, HeartbeatLost, ReadFails, RecordFails, RemoveFails,
                docker
  <2>. QED BY <1>5, <2>1, <2>2, <2>3, <2>4 DEF Works, ImageDuties, ImageWork
<1>. QED BY <1>2, <1>3, <1>4, <1>5, Steps

\* A worker that removes an image has the host to itself.
LEMMA RemovesAlone ==
  ASSUME HostInv, NEW w \in Workers, NEW t \in duty[w].todo, Untags(w, t)
  PROVE  /\ exclusive = w /\ duty[w].at = "removing"
         /\ \A v \in Workers : loop'[v] = loop[v] /\ loop[v].at \in {"idle", "ready"}
         /\ duty' = [duty EXCEPT ![w].todo = @ \ {t}]
         /\ UNCHANGED <<lastId, exclusive, runs>>
<1>1. /\ duty[w].at = "removing" /\ UNCHANGED <<lastId, exclusive, runs, loop>>
      /\ duty' = [duty EXCEPT ![w].todo = @ \ {t}]
  BY DEF Untags, RemoveImage, lock, store
<1>2. exclusive = w /\ exclusive # NoWorker
  BY <1>1, Constants DEF HostInv, ImagesSafe, OneExecutor
<1>. QED BY <1>1, <1>2 DEF HostInv, ImagesSafe, HostLock

\* A tag that gets a new image stays a tag, of an image newer than any.
LEMMA TagsGrow ==
  ASSUME HostInv, NEW r \in Runs, Tags(r)
  PROVE  /\ \A x \in Refs : host'[x] \in Nat /\ host[x] <= host'[x] /\ host'[x] <= lastId'
         /\ Present \subseteq Present'
<1>1. /\ host \in [Refs -> {None} \cup Ids] /\ lastId \in Ids /\ Ids \subseteq Nat \ {0}
      /\ runs[r].version \in Refs /\ HostAges
  BY RunTyped, Constants DEF HostInv, ImagesSafe, ImagesTypeOK, Refs
<1>2. \A x \in Refs : host'[x] = IF x = runs[r].version THEN lastId + 1 ELSE host[x]
  BY <1>1 DEF Tags
<1>3. ASSUME NEW x \in Refs  PROVE host[x] \in Nat /\ lastId \in Nat /\ host[x] <= lastId
  <2>1. host[x] \in {None} \cup Ids
    BY <1>1
  <2>2. None \in Nat
    BY DEF None
  <2>3. host[x] \in Nat /\ lastId \in Nat
    BY <1>1, <2>1, <2>2
  <2>. QED BY <1>1, <2>3 DEF HostAges
<1>4. \A x \in Refs : /\ host[x] \in Nat /\ lastId \in Nat /\ host[x] <= lastId
                      /\ host'[x] = IF x = runs[r].version THEN lastId + 1 ELSE host[x]
  BY <1>2, <1>3
<1>5. lastId' = lastId + 1
  BY DEF Tags
<1>6. \A x \in Refs : host'[x] \in Nat /\ host[x] <= host'[x] /\ host'[x] <= lastId'
  BY <1>4, <1>5
<1>7. \A x \in Present : x \in Refs /\ host[x] # 0
  BY DEF Present, None
<1>. QED BY <1>4, <1>6, <1>7 DEF Present, None

\* No tag outgrows the newest image.
LEMMA AgesKept == ASSUME HostInv, ImagesNext  PROVE HostAges'
<1>1. HostAges /\ host \in [Refs -> {None} \cup Ids] /\ lastId \in Nat
  BY Constants DEF HostInv, ImagesSafe, ImagesTypeOK
<1>2. CASE UNCHANGED <<host, lastId>>
  BY <1>1, <1>2 DEF HostAges
<1>3. CASE \E r \in Runs : Tags(r)
  BY <1>3, TagsGrow DEF HostAges
<1>4. ASSUME NEW w \in Workers, NEW t \in duty[w].todo, Untags(w, t)  PROVE HostAges'
  <2>1. /\ UNCHANGED lastId /\ t.ref \in Refs
        /\ \A x \in Refs : host'[x] = IF x = t.ref THEN 0 ELSE host[x]
    BY <1>1, <1>4, RemovesAlone DEF Untags, None
  <2>. QED BY <1>1, <2>1 DEF HostAges
<1>. QED BY <1>2, <1>3, <1>4, HostSteps

\* What a run was checked to have stays: removals find no run about to start.
LEMMA ImagesKept == ASSUME HostInv, ImagesNext  PROVE ImagesStayForRun'
<1> SUFFICES ASSUME NEW w \in Workers, loop'[w].at = "starting"
             PROVE  runs'[loop'[w].run].pipeline.needs \subseteq Present'
  BY DEF ImagesStayForRun
<1> DEFINE r == loop'[w].run
<1>1. /\ runs'[r].pipeline.needs = runs[r].pipeline.needs
      /\ \/ loop[w].at = "starting" /\ r = loop[w].run
         \/ runs'[r].pipeline.needs \subseteq Present /\ UNCHANGED host
  BY HandlesKept
<1>2. CASE UNCHANGED host
  BY <1>1, <1>2 DEF HostInv, ImagesSafe, ImagesStayForRun, Present
<1>3. CASE host' # host
  <2>1. runs'[r].pipeline.needs \subseteq Present
    BY <1>1, <1>3 DEF HostInv, ImagesSafe, ImagesStayForRun
  <2>2. ASSUME NEW v \in Workers, NEW t \in duty[v].todo, Untags(v, t)  PROVE FALSE
    BY <2>2, RemovesAlone
  <2>3. Present \subseteq Present'
    BY <1>3, <2>2, HostSteps, TagsGrow
  <2>. QED BY <2>1, <2>3
<1>. QED BY <1>2, <1>3

----------------------------------------------------------------------------
(* What the image duties do, one worker at a time.                         *)

\* Worker w, idle on a free host, begins d: its operation, if it has one, is
\* pending and leased by it.
Begins(w, d) ==
  /\ duty[w].at = "idle" /\ d.at \in {"recording", "facts"} /\ d.todo = {}
  /\ exclusive = NoWorker /\ exclusive' = w
  /\ d.op # None => operations'[d.op].status = "pending" /\ operations'[d.op].lease = w
  /\ UNCHANGED host

\* It goes on with what it holds: what is to be removed is what d says.
GoesOn(w, d) ==
  /\ duty[w].at # "idle" /\ d.at # "idle" /\ d.op = duty[w].op
  /\ d.kind = duty[w].kind /\ d.targets = duty[w].targets
  /\ UNCHANGED <<exclusive, operations>>
  /\ \/ d.at # "removing" /\ d.todo \subseteq duty[w].todo /\ UNCHANGED host
     \/ /\ d.at = "removing" /\ duty[w].at = "removing" /\ d.facts = duty[w].facts
        /\ \E t \in duty[w].todo :
             /\ d.todo = duty[w].todo \ {t}
             /\ UNCHANGED host \/ Untags(w, t)
     \/ /\ d.at = "removing" /\ d.facts = duty[w].facts /\ UNCHANGED host
        /\ d.todo = {t \in duty[w].targets :
                       Qualifies(t, CurrentInventory, duty[w].facts, duty[w].kind)}

\* It is through, and gives back what it holds.
Ends(w, d) ==
  /\ d = IdleDuty
  /\ exclusive' = IF exclusive = w THEN NoWorker ELSE exclusive
  /\ \A o \in Operations : o # duty[w].op => operations'[o] = operations[o]
  /\ UNCHANGED host

\* Worker w's duties become d, and nobody else's.
Turns(w, d) ==
  /\ d \in Duty /\ duty' = [duty EXCEPT ![w] = d]
  /\ Begins(w, d) \/ GoesOn(w, d) \/ Ends(w, d)

\* Duties stay, and so does what they hold.
Rests ==
  /\ UNCHANGED <<duty, exclusive>>
  /\ \A o \in Operations :
       operations[o].status = "pending" =>
         operations'[o].status = "pending" /\ operations'[o].lease = operations[o].lease
  /\ UNCHANGED host \/ \E r \in Runs : Tags(r)

\* Duties that are moved are duties, and their other fields stay.
LEMMA AtSet ==
  ASSUME NEW d \in Duty, NEW x \in {"idle", "facts", "inventory", "removing", "recording"},
         NEW new, new = [d EXCEPT !.at = x]
  PROVE  /\ new \in Duty /\ new.at = x
         /\ new.op = d.op /\ new.kind = d.kind /\ new.targets = d.targets
         /\ new.facts = d.facts /\ new.todo = d.todo
BY DEF Duty

\* Duties that are given an operation are duties, and their other fields stay.
LEMMA OpSet ==
  ASSUME NEW d \in Duty, NEW x \in {None} \cup Operations, NEW new, new = [d EXCEPT !.op = x]
  PROVE  /\ new \in Duty /\ new.op = x
         /\ new.at = d.at /\ new.kind = d.kind /\ new.targets = d.targets
         /\ new.facts = d.facts /\ new.todo = d.todo
BY DEF Duty

\* Duties that are given a kind of work are duties, and their other fields stay.
LEMMA KindSet ==
  ASSUME NEW d \in Duty, NEW x \in Kinds, NEW new, new = [d EXCEPT !.kind = x]
  PROVE  /\ new \in Duty /\ new.kind = x
         /\ new.at = d.at /\ new.op = d.op /\ new.targets = d.targets
         /\ new.facts = d.facts /\ new.todo = d.todo
BY DEF Duty

\* Duties that are given targets are duties, and their other fields stay.
LEMMA TargetsSet ==
  ASSUME NEW d \in Duty, NEW x \in SUBSET Row, NEW new, new = [d EXCEPT !.targets = x]
  PROVE  /\ new \in Duty /\ new.targets = x
         /\ new.at = d.at /\ new.op = d.op /\ new.kind = d.kind
         /\ new.facts = d.facts /\ new.todo = d.todo
BY DEF Duty

\* Duties that are given facts are duties, and their other fields stay.
LEMMA FactsSet ==
  ASSUME NEW d \in Duty, NEW x \in Facts, NEW new, new = [d EXCEPT !.facts = x]
  PROVE  /\ new \in Duty /\ new.facts = x
         /\ new.at = d.at /\ new.op = d.op /\ new.kind = d.kind
         /\ new.targets = d.targets /\ new.todo = d.todo
BY DEF Duty

\* Duties that are told what is to go are duties, and their other fields stay.
LEMMA TodoSet ==
  ASSUME NEW d \in Duty, NEW x \in SUBSET Row, NEW new, new = [d EXCEPT !.todo = x]
  PROVE  /\ new \in Duty /\ new.todo = x
         /\ new.at = d.at /\ new.op = d.op /\ new.kind = d.kind
         /\ new.targets = d.targets /\ new.facts = d.facts
BY DEF Duty

\* What is claimed.
LEMMA ClaimTurns ==
  ASSUME HostInv, NEW w \in Workers, ClaimImageOperation(w)
  PROVE  \E d \in Duty : Turns(w, d)
<1>1. /\ ImagesTypeOK /\ duty \in [Workers -> Duty] /\ operations \in [Operations -> Operation]
  BY DEF HostInv, ImagesSafe, ImagesTypeOK
<1>2. PICK o \in Operations :
        /\ Claimable(o)
        /\ operations' = [operations EXCEPT ![o].lease = w, ![o].old = FALSE]
        /\ duty' = [duty EXCEPT ![w] =
             [IdleDuty EXCEPT
                !.at = IF operations[o].kind = "cache.prune" THEN "recording" ELSE "facts",
                !.op = o, !.kind = operations[o].kind, !.targets = operations[o].targets]]
  BY DEF ClaimImageOperation
<1> DEFINE at == IF operations[o].kind = "cache.prune" THEN "recording" ELSE "facts"
           kind == operations[o].kind
           targets == operations[o].targets
           d1 == [IdleDuty EXCEPT !.at = at]
           d2 == [d1 EXCEPT !.op = o]
           d3 == [d2 EXCEPT !.kind = kind]
           d == [d3 EXCEPT !.targets = targets]
<1>3. duty' = [duty EXCEPT ![w] = d]
  BY <1>2
<1>4. at \in {"recording", "facts"} /\ kind \in Kinds /\ targets \in SUBSET Row
  BY <1>1 DEF Operation
<1>5. operations[o].status = "pending"
  BY <1>2 DEF Claimable
<1>6. operations'[o].status = "pending" /\ operations'[o].lease = w
  <2> DEFINE one == [operations EXCEPT ![o].lease = w]
  <2>1. one \in [Operations -> Operation]
    BY <1>1 DEF Operation
  <2>2. one[o].status = operations[o].status /\ one[o].lease = w
    BY <1>1 DEF Operation
  <2>3. operations' = [one EXCEPT ![o].old = FALSE]
    BY <1>2
  <2> HIDE DEF one
  <2>. QED BY <1>5, <2>1, <2>2, <2>3 DEF Operation
<1>7. /\ duty[w].at = "idle" /\ exclusive = NoWorker /\ exclusive' = w /\ UNCHANGED host
  BY DEF ClaimImageOperation, Idle, ExclusiveFree, docker
<1> HIDE DEF at, kind, targets
<1>8. IdleDuty \in Duty /\ IdleDuty.todo = {}
  BY IdleTyped
<1>9. d1 \in Duty /\ d1.at = at /\ d1.todo = {}
  BY <1>4, <1>8, AtSet
<1> HIDE DEF d1
<1>10. d2 \in Duty /\ d2.at = at /\ d2.todo = {} /\ d2.op = o
  BY <1>9, OpSet
<1> HIDE DEF d2
<1>11. d3 \in Duty /\ d3.at = at /\ d3.todo = {} /\ d3.op = o
  BY <1>4, <1>10, KindSet
<1> HIDE DEF d3
<1>12. d \in Duty /\ d.at = at /\ d.todo = {} /\ d.op = o
  BY <1>4, <1>11, TargetsSet
<1> HIDE DEF d
<1>13. Begins(w, d)
  BY <1>4, <1>6, <1>7, <1>12 DEF Begins
<1>. QED BY <1>3, <1>12, <1>13 DEF Turns

\* An automatic prune.
LEMMA LowDiskTurns ==
  ASSUME HostInv, NEW w \in Workers, LowDisk(w)
  PROVE  \E d \in Duty : Turns(w, d)
<1>1. ImagesTypeOK /\ Created # {}
  BY DEF HostInv, ImagesSafe
<1> DEFINE targets == PlanPrune(CurrentInventory, CurrentFacts)
           d1 == [IdleDuty EXCEPT !.at = "facts"]
           d2 == [d1 EXCEPT !.kind = "image.prune"]
           d == [d2 EXCEPT !.targets = targets]
<1>2. duty' = [duty EXCEPT ![w] = d]
  BY DEF LowDisk
<1>3. targets \in SUBSET Row
  BY <1>1, FactsTyped, InventoryTyped, PlanPruneLists
<1>4. IdleDuty \in Duty /\ IdleDuty.todo = {} /\ IdleDuty.op = None
  BY IdleTyped
<1>5. /\ duty[w].at = "idle" /\ exclusive = NoWorker /\ exclusive' = w /\ UNCHANGED host
  BY DEF LowDisk, Idle, ExclusiveFree, docker
<1> HIDE DEF targets
<1>6. d1 \in Duty /\ d1.at = "facts" /\ d1.todo = {} /\ d1.op = None
  BY <1>4, AtSet
<1> HIDE DEF d1
<1>7. d2 \in Duty /\ d2.at = "facts" /\ d2.todo = {} /\ d2.op = None
  BY <1>6, KindSet DEF Kinds
<1> HIDE DEF d2
<1>8. d \in Duty /\ d.at = "facts" /\ d.todo = {} /\ d.op = None
  BY <1>3, <1>7, TargetsSet
<1> HIDE DEF d
<1>. QED BY <1>2, <1>5, <1>8 DEF Turns, Begins

\* What goes on under the lock.
LEMMA WorkTurns ==
  ASSUME HostInv, NEW w \in Workers,
         \/ ReadFacts(w) \/ ReadInventory(w)
         \/ \E t \in duty[w].todo : RemoveImage(w, t) \/ RemoveFails(w, t)
  PROVE  \E d \in Duty : Turns(w, d)
<1> DEFINE e == duty[w]
<1>1. /\ ImagesTypeOK /\ Created # {} /\ duty \in [Workers -> Duty]
  BY DEF HostInv, ImagesSafe, ImagesTypeOK
<1>2. /\ e \in Duty /\ e.op \in {None} \cup Operations /\ e.kind \in Kinds
      /\ e.targets \in SUBSET Row /\ e.todo \in SUBSET Row /\ e.facts \in Facts
  BY <1>1, DutyTyped
<1>3. CASE ReadFacts(w)
  <2> DEFINE at == IF CurrentFacts.incomplete THEN "recording" ELSE "inventory"
             d1 == [e EXCEPT !.facts = CurrentFacts]
             d == [d1 EXCEPT !.at = at]
  <2>1. e.at = "facts" /\ UNCHANGED <<exclusive, operations, host>>
        /\ duty' = [duty EXCEPT ![w].facts = CurrentFacts, ![w].at = at]
    BY <1>3 DEF ReadFacts, lock, store, docker
  <2>2. at \in {"recording", "inventory"}
    OBVIOUS
  <2>3. CurrentFacts \in Facts
    BY <1>1, FactsTyped
  <2> HIDE DEF at
  <2>4. duty' = [duty EXCEPT ![w] = d]
    BY <1>1, <2>1
  <2>5. /\ d1 \in Duty /\ d1.op = e.op /\ d1.kind = e.kind /\ d1.targets = e.targets
        /\ d1.todo = e.todo
    BY <1>2, <2>3, FactsSet
  <2> HIDE DEF d1
  <2>6. /\ d \in Duty /\ d.op = e.op /\ d.kind = e.kind /\ d.targets = e.targets
        /\ d.todo = e.todo /\ d.at = at
    BY <2>2, <2>5, AtSet
  <2> HIDE DEF d
  <2>7. GoesOn(w, d)
    BY <2>1, <2>2, <2>6 DEF GoesOn
  <2>. QED BY <2>6, <2>4, <2>7 DEF Turns
<1>4. CASE ReadInventory(w)
  <2> DEFINE T == {t \in e.targets : Qualifies(t, CurrentInventory, e.facts, e.kind)}
             d1 == [e EXCEPT !.at = "removing"]
             d == [d1 EXCEPT !.todo = T]
  <2>1. e.at = "inventory" /\ UNCHANGED <<exclusive, operations, host>>
        /\ duty' = [duty EXCEPT ![w].at = "removing", ![w].todo = T]
    BY <1>4 DEF ReadInventory, lock, store, docker
  <2>2. T \in SUBSET Row
    BY <1>2
  <2>3. /\ d1 \in Duty /\ d1.op = e.op /\ d1.kind = e.kind /\ d1.targets = e.targets
        /\ d1.facts = e.facts /\ d1.at = "removing"
    BY <1>2, AtSet
  <2> HIDE DEF T, d1
  <2>4. duty' = [duty EXCEPT ![w] = d]
    BY <1>1, <2>1 DEF d1
  <2>5. /\ d \in Duty /\ d.op = e.op /\ d.kind = e.kind /\ d.targets = e.targets
        /\ d.facts = e.facts /\ d.at = "removing" /\ d.todo = T
    <3>1. d = [d1 EXCEPT !.todo = T]
      OBVIOUS
    <3> HIDE DEF d, e
    <3>2. /\ d \in Duty /\ d.op = d1.op /\ d.kind = d1.kind /\ d.targets = d1.targets
          /\ d.facts = d1.facts /\ d.at = d1.at /\ d.todo = T
      BY <2>2, <2>3, <3>1, TodoSet
    <3>. QED BY <2>3, <3>2
  <2> HIDE DEF d
  <2>6. GoesOn(w, d)
    BY <2>1, <2>5 DEF GoesOn, T
  <2>. QED BY <2>4, <2>5, <2>6 DEF Turns
<1>5. ASSUME NEW t \in e.todo, RemoveImage(w, t) \/ RemoveFails(w, t)
      PROVE  \E d \in Duty : Turns(w, d)
  <2> DEFINE T == e.todo \ {t}
             d == [e EXCEPT !.todo = T]
  <2>1. e.at = "removing" /\ UNCHANGED <<exclusive, operations>>
        /\ duty' = [duty EXCEPT ![w].todo = T]
    BY <1>5 DEF RemoveImage, RemoveFails, lock, store
  <2>2. T \in SUBSET Row
    BY <1>2
  <2>3. UNCHANGED host \/ Untags(w, t)
    <3>1. CASE RemoveFails(w, t)
      BY <3>1 DEF RemoveFails, docker
    <3>2. CASE RemoveImage(w, t) /\ host' # host
      <4>1. t \in Row /\ t.ref \in Refs \cup {Untagged} /\ t.id \in Ids
        BY <1>2, RowTyped
      <4>2. /\ t.ref # Untagged /\ host' = [host EXCEPT ![t.ref] = None]
            /\ host[t.ref] = t.id
        BY <3>2 DEF RemoveImage, SameImage
      <4>. QED BY <3>2, <4>1, <4>2 DEF Untags
    <3>. QED BY <1>5, <3>1, <3>2
  <2>4. duty' = [duty EXCEPT ![w] = d]
    BY <1>1, <2>1
  <2>5. /\ d \in Duty /\ d.op = e.op /\ d.kind = e.kind /\ d.targets = e.targets
        /\ d.facts = e.facts /\ d.at = e.at /\ d.todo = T
    BY <1>2, <2>2, TodoSet
  <2> HIDE DEF d
  <2>6. GoesOn(w, d)
    BY <2>1, <2>3, <2>5 DEF GoesOn
  <2>. QED BY <2>4, <2>5, <2>6 DEF Turns
<1>. QED BY <1>3, <1>4, <1>5

\* What ends, well or not.
LEMMA EndTurns ==
  ASSUME HostInv, NEW w \in Workers,
         Record(w) \/ ReadFails(w) \/ RecordFails(w) \/ Crash(w) \/ Shutdown(w)
  PROVE  \E d \in Duty : Turns(w, d)
<1> DEFINE e == duty[w]
<1>1. /\ ImagesTypeOK /\ duty \in [Workers -> Duty] /\ OneExecutor
      /\ operations \in [Operations -> Operation]
  BY DEF HostInv, ImagesSafe, ImagesTypeOK
<1>2. /\ e \in Duty /\ e.op \in {None} \cup Operations /\ e.kind \in Kinds
      /\ e.targets \in SUBSET Row /\ e.todo \in SUBSET Row /\ e.facts \in Facts
  BY <1>1, DutyTyped
<1>3. e.at # "idle" => exclusive = w
  BY <1>1 DEF OneExecutor
<1>4. CASE Record(w) \/ ReadFails(w) \/ RecordFails(w)
  <2>1. /\ e.at # "idle" /\ duty' = [duty EXCEPT ![w] = IdleDuty]
        /\ exclusive' = NoWorker /\ UNCHANGED host
    BY <1>4 DEF Record, ReadFails, RecordFails, Finished, docker
  <2>2. \A o \in Operations : o # e.op => operations'[o] = operations[o]
    BY <1>4 DEF Record, ReadFails, RecordFails, store
  <2>. QED BY <1>3, <2>1, <2>2, IdleTyped DEF Turns, Ends
<1>5. CASE Crash(w)
  BY <1>5, IdleTyped DEF Crash, Turns, Ends, store, docker
<1>6. CASE Shutdown(w) /\ e.op = None
  <2>1. /\ duty' = [duty EXCEPT ![w] = IdleDuty]
        /\ exclusive' = IF exclusive = w THEN NoWorker ELSE exclusive
        /\ UNCHANGED <<host, operations>>
    BY <1>6 DEF Shutdown
  <2>. QED BY <2>1, IdleTyped DEF Turns, Ends
<1>7. CASE Shutdown(w) /\ e.op # None
  <2> DEFINE d1 == [e EXCEPT !.at = "recording"]
             d == [d1 EXCEPT !.todo = {}]
  <2>1. e.at # "idle"
    BY <1>1, <1>7 DEF OneExecutor
  <2>2. UNCHANGED <<host, operations, exclusive>>
    BY <1>7 DEF Shutdown
  <2>3. duty' = [duty EXCEPT ![w] = d]
    BY <1>7 DEF Shutdown
  <2>4. /\ d1 \in Duty /\ d1.op = e.op /\ d1.kind = e.kind /\ d1.targets = e.targets
        /\ d1.at = "recording"
    BY <1>2, AtSet
  <2> HIDE DEF d1
  <2>5. /\ d \in Duty /\ d.op = e.op /\ d.kind = e.kind /\ d.targets = e.targets
        /\ d.at = "recording" /\ d.todo = {}
    BY <2>4, TodoSet
  <2> HIDE DEF d
  <2>6. GoesOn(w, d)
    BY <2>1, <2>2, <2>5 DEF GoesOn
  <2>. QED BY <2>3, <2>5, <2>6 DEF Turns
<1>. QED BY <1>4, <1>5, <1>6, <1>7

\* Every step leaves the duties alone or turns one worker's.
LEMMA DutySteps ==
  ASSUME HostInv, ImagesNext
  PROVE  Rests \/ \E w \in Workers : \E d \in Duty : Turns(w, d)
<1>1. ImagesTypeOK /\ operations \in [Operations -> Operation]
  BY DEF HostInv, ImagesSafe, ImagesTypeOK
<1>2. ASSUME UNCHANGED <<duty, exclusive, operations, host>>  PROVE Rests
  BY <1>2 DEF Rests
<1>3. CASE Queued
  <2>1. PICK o \in Operations :
          /\ operations[o].status = "absent" /\ UNCHANGED <<duty, exclusive, host>>
          /\ \A q \in Operations : q # o => operations'[q] = operations[q]
    BY <1>1, <1>3 DEF Queued, Queue, docker, lock
  <2>. QED BY <2>1 DEF Rests
<1>4. ASSUME NEW v \in Versions, NEW p \in Pipelines, Push(v, p)  PROVE Rests
  BY <1>2, <1>4 DEF Push, docker, lock
<1>5. CASE Pause \/ Resume
  BY <1>2, <1>5 DEF Pause, Resume, docker, lock
<1>6. ASSUME NEW r \in Runs, Build(r)  PROVE Rests
  BY <1>6 DEF Build, Rests, Tags, lock, store
<1>7. ASSUME NEW o \in Operations, LeaseAges(o)  PROVE Rests
  <2>1. /\ operations' = [operations EXCEPT ![o].old = TRUE]
        /\ UNCHANGED <<duty, exclusive, host>>
    BY <1>7 DEF LeaseAges, docker, lock
  <2>2. \A q \in Operations : /\ operations'[q].status = operations[q].status
                              /\ operations'[q].lease = operations[q].lease
    BY <1>1, <2>1 DEF Operation
  <2>. QED BY <2>1, <2>2 DEF Rests
<1>8. ASSUME NEW w \in Workers, Works(w)  PROVE Rests \/ \E d \in Duty : Turns(w, d)
  <2>1. CASE RunLoop(w)
    BY <1>2, <2>1 DEF RunLoop, ReadImages, WaitHostExecution, ClaimNext, CheckImages,
                      StartContainer, FinishRun, AfterRun, RecoverRun, docker, store, lock
  <2>2. CASE PublishInventory(w) \/ EnforceCache(w) \/ StopWorker(w) \/ HeartbeatLost(w)
    BY <1>2, <2>2 DEF PublishInventory, EnforceCache, StopWorker, HeartbeatLost, docker, store, lock
  <2>. QED BY <1>8, <2>1, <2>2, ClaimTurns, LowDiskTurns, WorkTurns, EndTurns
           DEF Works, ImageDuties, ImageWork
<1>. QED BY <1>3, <1>4, <1>5, <1>6, <1>7, <1>8, Steps

\* An operation has one executor, who has the host: a claim is made on a free
\* host, and who gives the host back is through.
LEMMA ExecutorKept == ASSUME HostInv, ImagesNext  PROVE OneExecutor' /\ duty' \in [Workers -> Duty]
<1>1. /\ ImagesTypeOK /\ duty \in [Workers -> Duty] /\ OneExecutor /\ NoWorker \notin Workers
  BY Constants DEF HostInv, ImagesSafe, ImagesTypeOK
<1>2. CASE Rests
  <2>1. ASSUME NEW w \in Workers, duty[w].at # "idle", duty[w].op # None
        PROVE  operations'[duty[w].op].status = "pending" /\ operations'[duty[w].op].lease = w
    BY <1>1, <1>2, <2>1, DutyTyped DEF Rests, OneExecutor
  <2>. QED BY <1>1, <1>2, <2>1 DEF Rests, OneExecutor
<1>3. ASSUME NEW w \in Workers, NEW d \in Duty, Turns(w, d)
      PROVE  OneExecutor' /\ duty' \in [Workers -> Duty]
  <2>1. /\ duty' \in [Workers -> Duty] /\ duty'[w] = d
        /\ \A v \in Workers : v # w => duty'[v] = duty[v]
    BY <1>1, <1>3 DEF Turns
  <2>2. CASE Begins(w, d)
    BY <1>1, <2>1, <2>2 DEF Begins, OneExecutor
  <2>3. CASE GoesOn(w, d)
    BY <1>1, <2>1, <2>3 DEF GoesOn, OneExecutor
  <2>4. CASE Ends(w, d)
    <3>1. d.at = "idle" /\ d.op = None
      BY <2>4, IdleTyped DEF Ends
    <3>2. ASSUME NEW v \in Workers, v # w, duty[v].at # "idle"
          PROVE  /\ exclusive' = v
                 /\ duty[v].op # None =>
                      /\ operations'[duty[v].op].status = "pending"
                      /\ operations'[duty[v].op].lease = v
      <4>1. exclusive = v /\ exclusive' = v
        BY <1>1, <2>4, <3>2 DEF OneExecutor, Ends
      <4>2. CASE duty[v].op # None
        <5>1. duty[v].op \in Operations /\ operations[duty[v].op].status = "pending"
              /\ operations[duty[v].op].lease = v
          BY <1>1, <3>2, <4>2, DutyTyped DEF OneExecutor
        <5>2. duty[v].op # duty[w].op
          <6>1. CASE duty[w].at = "idle"
            BY <1>1, <4>2, <6>1 DEF OneExecutor
          <6>2. CASE duty[w].at # "idle"
            BY <1>1, <3>2, <4>1, <6>2 DEF OneExecutor
          <6>. QED BY <6>1, <6>2
        <5>. QED BY <2>4, <4>1, <5>1, <5>2 DEF Ends
      <4>. QED BY <4>1, <4>2
    <3>3. ASSUME NEW v \in Workers, v # w, duty[v].at = "idle"
          PROVE  duty[v].op = None
      BY <1>1, <3>3 DEF OneExecutor
    <3>. QED BY <2>1, <3>1, <3>2, <3>3 DEF OneExecutor
  <2>. QED BY <1>3, <2>1, <2>2, <2>3, <2>4 DEF Turns
<1>. QED BY <1>2, <1>3, DutySteps

----------------------------------------------------------------------------
(* What is to go, and what is to stay.                                     *)

\* The rows of a plan are one per tag, so the newer rows that a plan counts
\* are as many tags.
LEMMA NewerTags ==
  ASSUME ImagesTypeOK, NEW facts \in Facts, NEW n \in Nat,
         ~ (Cardinality({o \in BuiltRows(CurrentInventory.rows, facts) : o.id > n}) < facts.keep)
  PROVE  Cardinality({v \in Versions : host[v] > n}) >= facts.keep
<1> DEFINE S == {o \in BuiltRows(CurrentInventory.rows, facts) : o.id > n}
           T == {v \in Versions : host[v] > n}
           f == [o \in S |-> o.ref]
<1>1. \A o \in S : /\ o \in CurrentInventory.rows /\ o.ref \in Versions /\ o.id > n
                   /\ o \in Row /\ o.ref \in Refs /\ o.id = host[o.ref]
  <2>1. \A o \in S : o \in CurrentInventory.rows /\ o.ref \in Versions /\ o.id > n
    BY DEF BuiltRows, Class
  <2>. QED BY <2>1, InventoryTyped, Constants DEF Refs
<1>2. f \in [S -> T]
  BY <1>1
<1>3. \A a, b \in S : f[a] = f[b] => a = b
  <2> SUFFICES ASSUME NEW a \in S, NEW b \in S, a.ref = b.ref  PROVE a = b
    OBVIOUS
  <2>1. a.id = b.id
    BY <1>1
  <2>2. a \in Row /\ b \in Row
    BY <1>1
  <2>. QED BY <2>1, <2>2, RowTyped
<1>4. f \in Injection(S, T)
  BY <1>2, <1>3 DEF Injection, IsInjective
<1>5. T \in SUBSET Versions
  OBVIOUS
<1>6. IsFiniteSet(T)
  BY <1>5, Constants, FS_Subset
<1>7. Cardinality(S) <= Cardinality(T) /\ IsFiniteSet(S)
  <2> HIDE DEF S, T, f
  <2>. QED BY <1>4, <1>6, FS_Injection
<1>8. Cardinality(S) \in Nat /\ Cardinality(T) \in Nat
  BY <1>6, <1>7, FS_CardinalityType
<1>9. facts.keep \in Nat /\ ~ (Cardinality(S) < facts.keep)
  BY DEF Facts
<1> HIDE DEF S, T
<1>10. Cardinality(T) >= facts.keep
  BY <1>7, <1>8, <1>9
<1>. QED BY <1>10 DEF T

\* What TodoSpares says of the duties e of a worker, with the tags of h.
Spares(e, h) ==
  /\ e.todo \subseteq e.targets
  /\ e.at = "removing" /\ e.kind = "image.prune" /\ e.todo # {} =>
       /\ \A t \in e.todo : t.ref \notin e.facts.required \cup e.facts.deployed
       /\ \E newer \in SUBSET Versions :
            /\ Cardinality(newer) >= e.facts.keep
            /\ \A v \in newer, t \in e.todo : h[v] > t.id

\* A new list of what is to go: the newest of it is not within the tags to keep.
LEMMA PlannedSpares ==
  ASSUME HostInv, NEW e \in Duty, e.at = "removing", NEW targets \in SUBSET Row,
         NEW facts \in Facts, e.facts = facts, e.targets = targets,
         e.todo = {t \in targets : Qualifies(t, CurrentInventory, facts, e.kind)}
  PROVE  Spares(e, host)
<1>1. ImagesTypeOK
  BY DEF HostInv, ImagesSafe
<1>2. e.todo \subseteq e.targets
  OBVIOUS
<1>3. ASSUME e.kind = "image.prune", e.todo # {}
      PROVE  /\ \A t \in e.todo : t.ref \notin facts.required \cup facts.deployed
             /\ \E newer \in SUBSET Versions :
                  /\ Cardinality(newer) >= facts.keep
                  /\ \A v \in newer, t \in e.todo : host[v] > t.id
  <2>1. ASSUME NEW t \in e.todo
        PROVE  t \in PlanPrune(CurrentInventory, facts)
    <3>1. PICK row \in CurrentInventory.rows :
            row.ref = t.ref /\ row.id = t.id /\ row \in PlanPrune(CurrentInventory, facts)
      BY <1>3, <2>1 DEF Qualifies, SameImage
    <3>2. row \in Row /\ t \in Row
      BY <1>1, <2>1, InventoryTyped
    <3>3. row = t
      BY <3>1, <3>2, RowTyped
    <3>. QED BY <3>1, <3>3
  <2>2. \A t \in e.todo :
          /\ t \in Row /\ t.ref \notin facts.required \cup facts.deployed
          /\ ~ (Cardinality({o \in BuiltRows(CurrentInventory.rows, facts) : o.id > t.id})
                  < facts.keep)
    BY <1>1, <2>1, InventoryTyped, PlanPruneLists
  <2>3. \A t \in e.todo : t.id \in Nat /\ t.id \in 1 .. MaxIds
    BY <2>2, RowTyped, Constants DEF Ids
  <2> DEFINE N == {MaxIds - t.id : t \in e.todo}
  <2>4. N \in SUBSET Nat /\ N # {}
    <3>1. \A t \in e.todo : MaxIds - t.id \in Nat
      BY <2>3, Constants
    <3>. QED BY <1>3, <3>1
  <2>5. PICK n \in N : \A m \in N : n <= m
    BY <2>4, LeastExists
  <2>6. PICK top \in e.todo : n = MaxIds - top.id
    OBVIOUS
  <2>7. \A t \in e.todo : t.id <= top.id
    <3> SUFFICES ASSUME NEW t \in e.todo  PROVE t.id <= top.id
      OBVIOUS
    <3>1. n <= MaxIds - t.id
      BY <2>5
    <3>2. t.id \in Nat /\ top.id \in Nat /\ MaxIds \in Nat
      BY <2>3, Constants
    <3>. QED BY <2>6, <3>1, <3>2
  <2> HIDE DEF N
  <2> DEFINE newer == {v \in Versions : host[v] > top.id}
  <2>8. Cardinality(newer) >= facts.keep
    BY <1>1, <2>2, <2>3, NewerTags
  <2>9. \A v \in newer, t \in e.todo : host[v] > t.id
    <3> SUFFICES ASSUME NEW v \in newer, NEW t \in e.todo  PROVE host[v] > t.id
      OBVIOUS
    <3>1. v \in Refs /\ host[v] \in {None} \cup Ids
      BY <1>1 DEF ImagesTypeOK, Refs
    <3>2. None \in Nat
      BY DEF None
    <3>3. host[v] \in Nat
      BY <3>1, <3>2, Constants
    <3>4. t.id \in Nat /\ top.id \in Nat /\ t.id <= top.id /\ host[v] > top.id
      BY <2>3, <2>7
    <3>. QED BY <3>3, <3>4
  <2>. QED BY <2>2, <2>8, <2>9
<1>. QED BY <1>2, <1>3 DEF Spares

\* Builds only push tags up.
LEMMA SparesGrown ==
  ASSUME HostInv, NEW e \in Duty, Spares(e, host), NEW r \in Runs, Tags(r)
  PROVE  Spares(e, host')
<1>1. ASSUME NEW v \in Versions, NEW t \in e.todo, host[v] > t.id
      PROVE  host'[v] > t.id
  <2>1. host'[v] \in Nat /\ host[v] <= host'[v] /\ v \in Refs
    BY TagsGrow DEF Refs
  <2>2. host[v] \in {None} \cup Ids
    BY <2>1 DEF HostInv, ImagesSafe, ImagesTypeOK
  <2>3. host[v] \in Nat
    BY <2>2, Constants DEF None
  <2>4. t.id \in Nat
    BY Constants, RowTyped DEF Duty
  <2>. QED BY <1>1, <2>1, <2>3, <2>4
<1>2. ASSUME NEW newer \in SUBSET Versions, \A v \in newer, t \in e.todo : host[v] > t.id
      PROVE  \A v \in newer, t \in e.todo : host'[v] > t.id
  BY <1>1, <1>2
<1>. QED BY <1>2 DEF Spares

\* A removal takes a tag that is not among the newer ones.
LEMMA SparesLeft ==
  ASSUME HostInv, NEW e \in Duty, Spares(e, host), e.at = "removing", NEW t \in e.todo,
         NEW d \in Duty, d.at = "removing", d.kind = e.kind, d.targets = e.targets,
         d.facts = e.facts, d.todo = e.todo \ {t},
         \/ host' = host
         \/ t.ref \in Refs /\ host[t.ref] = t.id /\ host' = [host EXCEPT ![t.ref] = None]
  PROVE  Spares(d, host')
<1>1. d.todo \subseteq d.targets
  BY DEF Spares
<1>2. ASSUME d.kind = "image.prune", d.todo # {}
      PROVE  /\ \A u \in d.todo : u.ref \notin d.facts.required \cup d.facts.deployed
             /\ \E newer \in SUBSET Versions :
                  /\ Cardinality(newer) >= d.facts.keep
                  /\ \A v \in newer, u \in d.todo : host'[v] > u.id
  <2>1. e.kind = "image.prune" /\ e.todo # {}
    BY <1>2
  <2>2. /\ \A u \in e.todo : u.ref \notin e.facts.required \cup e.facts.deployed
        /\ \E newer \in SUBSET Versions :
             /\ Cardinality(newer) >= e.facts.keep
             /\ \A v \in newer, u \in e.todo : host[v] > u.id
    BY <2>1 DEF Spares
  <2>3. PICK newer \in SUBSET Versions :
          /\ Cardinality(newer) >= e.facts.keep
          /\ \A v \in newer, u \in e.todo : host[v] > u.id
    BY <2>2
  <2>4. ASSUME NEW v \in newer  PROVE host'[v] = host[v]
    <3>1. v \in Refs /\ host[v] > t.id
      BY <2>3 DEF Refs
    <3>2. t.id \in Nat
      BY Constants, RowTyped DEF Duty
    <3>3. host \in [Refs -> {None} \cup Ids]
      BY DEF HostInv, ImagesSafe, ImagesTypeOK
    <3>4. host[v] # t.id
      BY <3>1, <3>2
    <3>. QED BY <3>1, <3>3, <3>4
  <2>5. \A v \in newer, u \in d.todo : host'[v] > u.id
    BY <2>3, <2>4
  <2>. QED BY <2>2, <2>3, <2>5
<1>. QED BY <1>1, <1>2 DEF Spares

\* The plan that is carried out stays one that spares what it read.
LEMMA TodoKept == ASSUME HostInv, ImagesNext  PROVE TodoSpares'
<1>1. /\ ImagesTypeOK /\ duty \in [Workers -> Duty] /\ OneExecutor
      /\ \A w \in Workers : duty[w] \in Duty /\ Spares(duty[w], host)
  BY DEF HostInv, ImagesSafe, ImagesTypeOK, TodoSpares, Spares
<1> SUFFICES \A w \in Workers : Spares(duty'[w], host')
  BY DEF TodoSpares, Spares
<1>2. CASE Rests
  BY <1>1, <1>2, SparesGrown DEF Rests
<1>3. ASSUME NEW w \in Workers, NEW d \in Duty, Turns(w, d)
      PROVE  \A v \in Workers : Spares(duty'[v], host')
  <2>1. /\ duty'[w] = d /\ \A v \in Workers : v # w => duty'[v] = duty[v]
    BY <1>1, <1>3 DEF Turns
  <2>2. ASSUME NEW v \in Workers, v # w  PROVE Spares(duty[v], host')
    <3>1. CASE UNCHANGED host
      BY <1>1, <3>1
    <3>2. CASE \E t \in duty[w].todo : Untags(w, t)
      <4>1. exclusive = w
        BY <3>2, RemovesAlone
      <4>2. duty[v].at = "idle"
        BY <1>1, <2>2, <4>1 DEF OneExecutor
      <4>. QED BY <1>1, <4>2 DEF Spares
    <3>. QED BY <1>3, <3>1, <3>2 DEF Turns, Begins, GoesOn, Ends
  <2>3. Spares(d, host')
    <3>1. CASE Begins(w, d)
      BY <3>1 DEF Begins, Spares
    <3>2. CASE Ends(w, d)
      BY <3>2, IdleTyped DEF Ends, Spares
    <3>3. CASE GoesOn(w, d) /\ d.at # "removing"
      <4>1. d.todo \subseteq duty[w].todo /\ d.targets = duty[w].targets
        BY <3>3 DEF GoesOn
      <4>2. duty[w].todo \subseteq duty[w].targets
        BY <1>1 DEF Spares
      <4>. QED BY <3>3, <4>1, <4>2 DEF Spares
    <3>4. CASE GoesOn(w, d) /\ duty[w].at = "removing" /\ d.at = "removing"
               /\ \E t \in duty[w].todo : /\ d.todo = duty[w].todo \ {t}
                                          /\ UNCHANGED host \/ Untags(w, t)
               /\ d.facts = duty[w].facts
      <4>1. PICK t \in duty[w].todo : /\ d.todo = duty[w].todo \ {t}
                                      /\ UNCHANGED host \/ Untags(w, t)
        BY <3>4
      <4>2. d.kind = duty[w].kind /\ d.targets = duty[w].targets
        BY <3>4 DEF GoesOn
      <4>3. \/ host' = host
            \/ t.ref \in Refs /\ host[t.ref] = t.id /\ host' = [host EXCEPT ![t.ref] = None]
        BY <4>1 DEF Untags
      <4>. QED BY <1>1, <3>4, <4>1, <4>2, <4>3, SparesLeft
    <3>5. CASE /\ d.at = "removing" /\ d.facts = duty[w].facts /\ UNCHANGED host
               /\ d.kind = duty[w].kind /\ d.targets = duty[w].targets
               /\ d.todo = {t \in duty[w].targets :
                              Qualifies(t, CurrentInventory, duty[w].facts, duty[w].kind)}
      <4>1. duty[w].targets \in SUBSET Row /\ duty[w].facts \in Facts
        BY <1>1, DutyTyped
      <4>2. Spares(d, host)
        BY <3>5, <4>1, PlannedSpares
      <4>. QED BY <3>5, <4>2
    <3>6. GoesOn(w, d) =>
            \/ d.at # "removing"
            \/ /\ duty[w].at = "removing" /\ d.at = "removing" /\ d.facts = duty[w].facts
               /\ \E t \in duty[w].todo : /\ d.todo = duty[w].todo \ {t}
                                          /\ UNCHANGED host \/ Untags(w, t)
            \/ /\ d.at = "removing" /\ d.facts = duty[w].facts /\ UNCHANGED host
               /\ d.kind = duty[w].kind /\ d.targets = duty[w].targets
               /\ d.todo = {t \in duty[w].targets :
                              Qualifies(t, CurrentInventory, duty[w].facts, duty[w].kind)}
      BY DEF GoesOn
    <3>7. Begins(w, d) \/ GoesOn(w, d) \/ Ends(w, d)
      BY <1>3 DEF Turns
    <3>. QED BY <3>1, <3>2, <3>3, <3>4, <3>5, <3>6, <3>7
  <2>. QED BY <2>1, <2>2, <2>3
<1>. QED BY <1>2, <1>3, DutySteps

----------------------------------------------------------------------------
(* Types.                                                                  *)

\* The types of what is not tags or duties.
RestTyped ==
  /\ dangling \subseteq Ids
  /\ containers \in [Runs -> {None} \cup Ids]
  /\ runs \in [Runs -> Run]
  /\ deployed \in Versions
  /\ published \in Inventory
  /\ operations \in [Operations -> Operation]
  /\ maintenance \in BOOLEAN
  /\ workers \in [Workers -> WorkerState]
  /\ shared \subseteq Workers
  /\ exclusive \in Workers \cup {NoWorker}
  /\ loop \in [Workers -> Loop]
  /\ faults \in 0 .. MaxFaults

\* A fault is counted.
LEMMA FaultCounted ==
  ASSUME faults \in 0 .. MaxFaults, NEW kind, Fault(kind)
  PROVE  faults' \in 0 .. MaxFaults
BY Constants DEF Fault

\* What the administrators do.
LEMMA AdministratorsTyped ==
  ASSUME HostInv, RestTyped,
         \/ Queued \/ Pause \/ Resume
         \/ \E v \in Versions, p \in Pipelines : Push(v, p)
  PROVE  RestTyped'
<1>1. CASE Queued
  <2>1. PICK kind \in Kinds, targets \in SUBSET published.rows : Queue(kind, targets)
    BY <1>1 DEF Queued
  <2>2. PICK o \in Operations :
          operations' = [operations EXCEPT ![o] =
            [NoOperation EXCEPT !.status = "pending", !.kind = kind, !.targets = targets]]
    BY <2>1 DEF Queue
  <2>3. targets \in SUBSET Row
    BY DEF RestTyped, Inventory
  <2> DEFINE one == [NoOperation EXCEPT !.status = "pending"]
             two == [one EXCEPT !.kind = kind]
             new == [two EXCEPT !.targets = targets]
  <2>4. one \in Operation
    BY IdleTyped DEF Operation
  <2> HIDE DEF one
  <2>5. two \in Operation
    BY <2>4 DEF Operation
  <2> HIDE DEF two
  <2>6. new \in Operation
    BY <2>3, <2>5 DEF Operation
  <2>7. operations' = [operations EXCEPT ![o] = new]
    BY <2>2 DEF one, two
  <2> HIDE DEF new
  <2>8. operations' \in [Operations -> Operation]
    BY <2>6, <2>7 DEF RestTyped
  <2>. QED BY <2>1, <2>8 DEF Queue, RestTyped, docker, lock
<1>2. CASE Pause
  <2>1. faults' \in 0 .. MaxFaults
    BY <1>2, FaultCounted DEF Pause, RestTyped
  <2>. QED BY <1>2, <2>1 DEF Pause, RestTyped, docker, lock
<1>3. CASE Resume
  BY <1>3 DEF Resume, RestTyped, docker, lock
<1>4. ASSUME NEW v \in Versions, NEW p \in Pipelines, Push(v, p)  PROVE RestTyped'
  <2> DEFINE new == [status |-> "queued", worker |-> NoWorker, version |-> v, pipeline |-> p]
  <2>1. new \in Run
    BY DEF Run
  <2>2. \A r \in Runs : runs[r] \in Run /\ [runs[r] EXCEPT !.status = "failed"] \in Run
    BY DEF RestTyped, Run
  <2>3. runs' = [r \in Runs |->
          IF r = Head + 1 THEN new
          ELSE IF runs[r].status = "queued" THEN [runs[r] EXCEPT !.status = "failed"] ELSE runs[r]]
    BY <1>4 DEF Push
  <2> HIDE DEF new
  <2>4. runs' \in [Runs -> Run]
    BY <2>1, <2>2, <2>3
  <2>. QED BY <1>4, <2>4 DEF Push, RestTyped, docker, lock
<1>. QED BY <1>1, <1>2, <1>3, <1>4

\* What the run loops do.
LEMMA RunLoopTyped ==
  ASSUME HostInv, RestTyped, NEW w \in Workers, RunLoop(w)
  PROVE  RestTyped'
<1>1. /\ ImagesTypeOK /\ HandlesStoredRun /\ runs \in [Runs -> Run]
      /\ loop \in [Workers -> Loop] /\ IdleLoop \in Loop
      /\ host \in [Refs -> {None} \cup Ids] /\ CurrentInventory \in Inventory
  BY InventoryTyped, IdleTyped DEF HostInv, ImagesSafe, ImagesTypeOK
<1>2. loop[w].at \in Handling => loop[w].run \in Runs
  BY <1>1 DEF HandlesStoredRun, Created
<1>3. CASE ReadImages(w)
  <2>1. Present \in SUBSET Refs
    BY DEF Present
  <2>2. [at |-> "ready", images |-> Present, run |-> None] \in Loop
    BY <2>1 DEF Loop
  <2>3. loop' \in [Workers -> Loop]
    BY <1>1, <1>3, <2>2 DEF ReadImages
  <2>. QED BY <1>3, <2>3 DEF ReadImages, RestTyped, docker, store, lock
<1>4. CASE WaitHostExecution(w)
  <2>1. loop' \in [Workers -> Loop]
    BY <1>1, <1>4, LoopMoved DEF WaitHostExecution
  <2>. QED BY <1>4, <2>1 DEF WaitHostExecution, RestTyped, docker, store
<1>5. CASE ClaimNext(w)
  <2>1. CASE maintenance \/ Wanted(w) = {}
    <3>1. loop' \in [Workers -> Loop]
      BY <1>1, <1>5, <2>1 DEF ClaimNext
    <3>. QED BY <1>5, <2>1, <3>1 DEF ClaimNext, RestTyped, docker
  <2>2. CASE ~(maintenance \/ Wanted(w) = {})
    <3> DEFINE r == Min(Wanted(w))
    <3>1. Wanted(w) \in SUBSET Nat /\ Wanted(w) \in SUBSET Created
      BY Constants DEF Wanted, Created
    <3>2. r \in Runs
      BY <2>2, <3>1, MinIsLeast DEF Created
    <3>3. /\ runs' = [runs EXCEPT ![r].status = "running", ![r].worker = w]
          /\ loop' = [loop EXCEPT ![w] = [at |-> "checking", images |-> {}, run |-> r]]
      BY <1>5, <2>2 DEF ClaimNext
    <3> HIDE DEF r
    <3>4. runs' \in [Runs -> Run]
      BY <1>1, <3>2, <3>3, RunsClaimed
    <3>5. [at |-> "checking", images |-> {}, run |-> r] \in Loop
      BY <3>2 DEF Loop
    <3>6. loop' \in [Workers -> Loop]
      BY <1>1, <3>3, <3>5
    <3>. QED BY <1>5, <2>2, <3>4, <3>6 DEF ClaimNext, RestTyped, docker
  <2>. QED BY <2>1, <2>2
<1>6. CASE CheckImages(w)
  <2>1. PICK at \in {"starting", "after"} :
          /\ loop' = [loop EXCEPT ![w].at = at]
          /\ runs' = [runs EXCEPT ![loop[w].run].status = "failed"] \/ runs' = runs
    BY <1>6 DEF CheckImages
  <2>2. loop' \in [Workers -> Loop]
    BY <1>1, <2>1, LoopMoved
  <2>3. runs' \in [Runs -> Run]
    BY <1>1, <1>2, <1>6, <2>1, RunsMoved DEF CheckImages, Handling
  <2>. QED BY <1>6, <2>2, <2>3 DEF CheckImages, RestTyped, docker, lock
<1>7. CASE StartContainer(w)
  <2>1. PICK at \in {"ending", "after"} :
          /\ loop' = [loop EXCEPT ![w].at = at]
          /\ runs' = [runs EXCEPT ![loop[w].run].status = "failed"] \/ runs' = runs
    BY <1>7 DEF StartContainer
  <2>2. loop' \in [Workers -> Loop]
    BY <1>1, <2>1, LoopMoved
  <2>3. loop[w].run \in Runs
    BY <1>2, <1>7 DEF StartContainer, Handling
  <2>4. runs' \in [Runs -> Run]
    BY <1>1, <2>1, <2>3, RunsMoved
  <2>5. containers' \in [Runs -> {None} \cup Ids]
    <3>1. CASE containers' = containers
      BY <3>1 DEF RestTyped
    <3>2. CASE containers' # containers
      <4>1. PICK x \in runs[loop[w].run].pipeline.needs :
              containers' = [containers EXCEPT ![loop[w].run] = host[x]]
        BY <1>7, <3>2 DEF StartContainer
      <4>2. host[x] \in {None} \cup Ids
        BY <1>1, <2>3, RunTyped
      <4>. QED BY <4>1, <4>2 DEF RestTyped
    <3>. QED BY <3>1, <3>2
  <2>. QED BY <1>7, <2>2, <2>4, <2>5 DEF StartContainer, RestTyped, lock
<1>8. ASSUME NEW passed \in BOOLEAN, FinishRun(w, passed)  PROVE RestTyped'
  <2> DEFINE r == loop[w].run
             s == IF passed THEN "passed" ELSE "failed"
  <2>1. /\ loop' = [loop EXCEPT ![w].at = "after"] /\ s \in {"passed", "failed"}
        /\ runs' = [runs EXCEPT ![r].status = s]
        /\ containers' = [containers EXCEPT ![r] = None]
        /\ deployed' = deployed \/ deployed' = runs[r].version
    BY <1>8 DEF FinishRun
  <2>2. r \in Runs
    BY <1>2, <1>8 DEF FinishRun, Handling
  <2> HIDE DEF r, s
  <2>3. loop' \in [Workers -> Loop]
    BY <1>1, <2>1, LoopMoved
  <2>4. runs' \in [Runs -> Run]
    BY <1>1, <2>1, <2>2, RunsMoved
  <2>5. deployed' \in Versions
    BY <1>1, <2>1, <2>2, RunTyped DEF RestTyped
  <2>6. containers' \in [Runs -> {None} \cup Ids]
    BY <2>1 DEF RestTyped
  <2>. QED BY <1>8, <2>3, <2>4, <2>5, <2>6 DEF FinishRun, RestTyped, lock
<1>9. ASSUME NEW publish \in BOOLEAN, AfterRun(w, publish)  PROVE RestTyped'
  <2>1. loop' \in [Workers -> Loop]
    BY <1>1, <1>9 DEF AfterRun
  <2>. QED BY <1>1, <1>9, <2>1 DEF AfterRun, RestTyped, docker
<1>10. ASSUME NEW r \in Runs, NEW shipped \in BOOLEAN, RecoverRun(w, r, shipped)  PROVE RestTyped'
  <2>1. /\ runs' = [runs EXCEPT ![r].status = "failed"]
        /\ containers' = [containers EXCEPT ![r] = None]
        /\ deployed' = deployed \/ deployed' = runs[r].version
    BY <1>10 DEF RecoverRun
  <2>2. runs' \in [Runs -> Run]
    BY <1>1, <2>1, RunsMoved
  <2>3. deployed' \in Versions
    BY <1>1, <2>1, RunTyped DEF RestTyped
  <2>4. containers' \in [Runs -> {None} \cup Ids]
    BY <2>1 DEF RestTyped
  <2>. QED BY <1>10, <2>2, <2>3, <2>4 DEF RecoverRun, RestTyped, lock
<1>. QED BY <1>3, <1>4, <1>5, <1>6, <1>7, <1>8, <1>9, <1>10 DEF RunLoop

\* What the image duties do.
LEMMA DutiesTyped ==
  ASSUME HostInv, RestTyped, NEW w \in Workers, ImageDuties(w)
  PROVE  RestTyped'
<1>1. CurrentInventory \in Inventory /\ operations \in [Operations -> Operation]
  BY InventoryTyped DEF HostInv, ImagesSafe, RestTyped
<1>2. CASE PublishInventory(w) \/ EnforceCache(w)
  BY <1>1, <1>2 DEF PublishInventory, EnforceCache, RestTyped, docker, lock
<1>3. CASE ClaimImageOperation(w)
  <2>1. PICK o \in Operations :
          operations' = [operations EXCEPT ![o].lease = w, ![o].old = FALSE]
    BY <1>3 DEF ClaimImageOperation
  <2> DEFINE one == [operations EXCEPT ![o].lease = w]
  <2>2. one \in [Operations -> Operation]
    BY <1>1 DEF Operation
  <2>3. operations' = [one EXCEPT ![o].old = FALSE]
    BY <2>1
  <2> HIDE DEF one
  <2>4. operations' \in [Operations -> Operation]
    BY <2>2, <2>3 DEF Operation
  <2>. QED BY <1>3, <2>4 DEF ClaimImageOperation, RestTyped, docker
<1>4. CASE LowDisk(w)
  BY <1>4 DEF LowDisk, RestTyped, docker, store
<1>5. CASE ReadFacts(w) \/ ReadInventory(w)
  BY <1>5 DEF ReadFacts, ReadInventory, RestTyped, docker, store, lock
<1>6. CASE Record(w)
  <2>1. \A o \in Operations :
          operations[o] \in Operation /\ [operations[o] EXCEPT !.status = "done"] \in Operation
    BY <1>1 DEF Operation
  <2>2. operations' \in [Operations -> Operation]
    BY <1>6, <2>1 DEF Record
  <2>. QED BY <1>1, <1>6, <2>2 DEF Record, RestTyped, docker
<1>7. ASSUME NEW t \in duty[w].todo, RemoveImage(w, t)  PROVE RestTyped'
  <2>1. dangling' \subseteq Ids
    BY <1>7 DEF RemoveImage, RestTyped
  <2>. QED BY <1>7, <2>1 DEF RemoveImage, RestTyped, store, lock
<1>. QED BY <1>2, <1>3, <1>4, <1>5, <1>6, <1>7 DEF ImageDuties, ImageWork

\* What goes wrong.
LEMMA TroubleTyped ==
  ASSUME HostInv, RestTyped, NEW w \in Workers,
         \/ Crash(w) \/ Shutdown(w) \/ StopWorker(w) \/ HeartbeatLost(w)
         \/ ReadFails(w) \/ RecordFails(w)
         \/ \E t \in duty[w].todo : RemoveFails(w, t)
  PROVE  RestTyped'
<1>1. /\ IdleLoop \in Loop /\ operations \in [Operations -> Operation]
      /\ runs \in [Runs -> Run] /\ loop \in [Workers -> Loop]
      /\ containers \in [Runs -> {None} \cup Ids] /\ workers \in [Workers -> WorkerState]
  BY IdleTyped DEF RestTyped
<1>2. \A kind : Fault(kind) => faults' \in 0 .. MaxFaults
  BY FaultCounted DEF RestTyped
<1>3. CASE Crash(w)
  <2>1. loop' \in [Workers -> Loop] /\ workers' \in [Workers -> WorkerState]
    BY <1>1, <1>3 DEF Crash, WorkerState
  <2>. QED BY <1>2, <1>3, <2>1 DEF Crash, RestTyped, docker, store
<1>4. CASE Shutdown(w)
  <2>1. loop' \in [Workers -> Loop] /\ workers' \in [Workers -> WorkerState]
    BY <1>1, <1>4 DEF Shutdown, WorkerState
  <2>2. loop[w].run # None => loop[w].run \in Runs
    BY <1>1 DEF Loop
  <2>3. runs' \in [Runs -> Run]
    <3>1. runs' = runs \/ (loop[w].run # None
                            /\ runs' = [runs EXCEPT ![loop[w].run].status = "failed"])
      BY <1>4 DEF Shutdown
    <3>. QED BY <1>1, <2>2, <3>1, RunsMoved
  <2>4. containers' \in [Runs -> {None} \cup Ids]
    BY <1>1, <1>4, <2>2 DEF Shutdown
  <2>5. shared' \subseteq Workers /\ exclusive' \in Workers \cup {NoWorker}
    BY <1>4 DEF Shutdown, RestTyped
  <2>. QED BY <1>2, <1>4, <2>1, <2>3, <2>4, <2>5 DEF Shutdown, RestTyped
<1>5. CASE StopWorker(w) \/ HeartbeatLost(w)
  <2>1. workers' \in [Workers -> WorkerState]
    BY <1>1, <1>5 DEF StopWorker, HeartbeatLost, WorkerState
  <2>. QED BY <1>5, <2>1 DEF StopWorker, HeartbeatLost, RestTyped, docker, store, lock
<1>6. CASE ReadFails(w)
  <2>1. \A o \in Operations :
          operations[o] \in Operation /\ [operations[o] EXCEPT !.lease = NoWorker] \in Operation
    BY <1>1 DEF Operation
  <2>2. operations' \in [Operations -> Operation]
    BY <1>6, <2>1 DEF ReadFails
  <2>. QED BY <1>2, <1>6, <2>2 DEF ReadFails, RestTyped, docker
<1>7. CASE RecordFails(w) \/ \E t \in duty[w].todo : RemoveFails(w, t)
  BY <1>2, <1>7 DEF RecordFails, RemoveFails, RestTyped, docker, store, lock
<1>. QED BY <1>3, <1>4, <1>5, <1>6, <1>7

\* Every step keeps the types.
LEMMA TypesKept == ASSUME HostInv, ImagesNext  PROVE ImagesTypeOK'
<1>1. ImagesTypeOK /\ RestTyped
  BY DEF HostInv, ImagesSafe, ImagesTypeOK, RestTyped
<1>2. duty' \in [Workers -> Duty]
  BY ExecutorKept
<1>3. host' \in [Refs -> {None} \cup Ids] /\ lastId' \in Ids
  <2>1. CASE UNCHANGED <<host, lastId>>
    BY <1>1, <2>1 DEF ImagesTypeOK
  <2>2. ASSUME NEW r \in Runs, Tags(r)  PROVE host' \in [Refs -> {None} \cup Ids] /\ lastId' \in Ids
    <3>1. lastId + 1 \in Ids
      BY <1>1, <2>2, Constants DEF Tags, ImagesTypeOK, Ids
    <3>. QED BY <1>1, <2>2, <3>1 DEF Tags, ImagesTypeOK
  <2>3. ASSUME NEW w \in Workers, NEW t \in duty[w].todo, Untags(w, t)
        PROVE  host' \in [Refs -> {None} \cup Ids] /\ lastId' \in Ids
    BY <1>1, <2>3, RemovesAlone DEF Untags, ImagesTypeOK
  <2>. QED BY <2>1, <2>2, <2>3, HostSteps
<1>4. RestTyped'
  <2>1. ASSUME NEW r \in Runs, Build(r)  PROVE RestTyped'
    <3>1. host[runs[r].version] \in {None} \cup Ids
      BY <1>1, RunTyped DEF ImagesTypeOK, Refs
    <3>2. dangling' \subseteq Ids
      BY <1>1, <2>1, <3>1 DEF Build, ImagesTypeOK
    <3>. QED BY <1>1, <2>1, <3>2 DEF Build, RestTyped, store, lock
  <2>2. ASSUME NEW o \in Operations, LeaseAges(o)  PROVE RestTyped'
    <3>1. operations' \in [Operations -> Operation]
      BY <1>1, <2>2 DEF LeaseAges, RestTyped, Operation
    <3>. QED BY <1>1, <2>2, <3>1 DEF LeaseAges, RestTyped, docker, lock
  <2>. QED BY <1>1, <2>1, <2>2, Steps, AdministratorsTyped, RunLoopTyped, DutiesTyped, TroubleTyped
           DEF Works
<1>. QED BY <1>2, <1>3, <1>4 DEF ImagesTypeOK, RestTyped

----------------------------------------------------------------------------
(* The theorems.                                                           *)

\* A step keeps all of it.
LEMMA StepKeeps == ASSUME HostInv, [ImagesNext]_imageVars  PROVE HostInv'
<1>1. CASE ImagesNext
  <2>1. Created' # {}
    BY <1>1, HandlesKept DEF HostInv
  <2>. QED BY <1>1, <2>1, TypesKept, ImagesKept, ExecutorKept, LockKept, HandlesKept, AgesKept,
              TodoKept DEF HostInv, ImagesSafe
<1>2. CASE UNCHANGED imageVars
  BY <1>2 DEF HostInv, ImagesSafe, ImagesTypeOK, ImagesStayForRun, OneExecutor, HostLock,
              HandlesStoredRun, HostAges, TodoSpares, Created, Present, Handling, imageVars, docker,
              store, lock
<1>. QED BY <1>1, <1>2

\* At the start a tag is of the newest image, and it is a version's: as many
\* IDs as references, one each, the versions' after the bases'.
LEMMA NewestIsBuilt ==
  ASSUME ImagesInit
  PROVE  /\ Cardinality(Refs) \in Nat /\ Cardinality(Refs) > 0
         /\ \E v \in Versions : host[v] = Cardinality(Refs)
<1> DEFINE n == Cardinality(Refs)
           N == 1 .. n
<1>1. n \in Nat /\ IsFiniteSet(N) /\ Cardinality(N) = n
  BY Constants, FS_CardinalityType, FS_Interval
<1>2. /\ host \in [Refs -> N] /\ \A x, y \in Refs : x # y => host[x] # host[y]
      /\ \A b \in Bases, v \in Versions : host[b] < host[v]
  BY DEF ImagesInit
<1>3. PICK v \in Versions : v \in Refs
  BY Constants DEF Refs
<1>4. n > 0
  <2>1. host[v] \in 1 .. n
    BY <1>2, <1>3
  <2>. QED BY <1>1, <2>1
<1>5. host \in Injection(Refs, N)
  BY <1>2 DEF Injection, IsInjective
<1>6. host \in Surjection(Refs, N)
  <2> HIDE DEF N
  <2>. QED BY <1>1, <1>5, FS_Injection
<1>7. PICK x \in Refs : host[x] = n
  <2>1. n \in N
    BY <1>1, <1>4
  <2> HIDE DEF N, n
  <2>. QED BY <1>6, <2>1 DEF Surjection
<1>8. x \in Versions
  <2>1. CASE x \in Bases
    <3>1. host[x] < host[v] /\ host[v] \in 1 .. n
      BY <1>2, <1>3, <2>1
    <3> HIDE DEF n
    <3>. QED BY <1>1, <1>7, <3>1
  <2>. QED BY <2>1 DEF Refs
<1>. QED BY <1>1, <1>4, <1>7, <1>8

\* It holds at the start.
LEMMA InitSafe == ImagesInit => HostInv
<1> SUFFICES ASSUME ImagesInit  PROVE HostInv
  OBVIOUS
<1> DEFINE n == Cardinality(Refs)
<1>1. n \in Nat /\ n > 0 /\ n <= MaxIds
  BY NewestIsBuilt, ImagesConstantsOK
<1>2. deployed \in Versions
  <2>1. \E v \in Versions : host[v] = lastId
    BY NewestIsBuilt DEF ImagesInit
  <2>2. deployed = CHOOSE v \in Versions : host[v] = lastId
    BY DEF ImagesInit
  <2>. QED BY <2>1, <2>2
<1>3. host \in [Refs -> 1 .. n] /\ lastId = n
  BY DEF ImagesInit
<1> HIDE DEF n
<1>4. host \in [Refs -> {None} \cup Ids] /\ lastId \in Ids
  <2>1. 1 .. n \subseteq Ids /\ n \in Ids
    BY <1>1, Constants DEF Ids
  <2>. QED BY <1>3, <2>1
<1>5. HostAges
  <2>1. \A x \in Refs : host[x] \in 1 .. n
    BY <1>3
  <2>. QED BY <1>1, <1>3, <2>1 DEF HostAges
<1>6. PICK p \in Pipelines :
        runs = [r \in Runs |->
                 [status |-> IF r = 1 THEN HeadStatus ELSE "absent", worker |-> NoWorker,
                  version |-> deployed, pipeline |-> p]]
  BY DEF ImagesInit
<1>7. runs \in [Runs -> Run]
  <2>1. HeadStatus \in {"absent", "queued", "running", "passed", "failed"}
    BY ImagesConstantsOK
  <2>. QED BY <1>2, <1>6, <2>1 DEF Run
<1>8. Created # {}
  <2>1. runs[1].status = HeadStatus /\ HeadStatus # "absent" /\ 1 \in Runs
    BY <1>6, Constants, ImagesConstantsOK
  <2>. QED BY <2>1 DEF Created
<1>9. /\ dangling = {} /\ containers = [r \in Runs |-> None] /\ published = NoInventory
      /\ operations = [o \in Operations |-> NoOperation] /\ maintenance = FALSE
      /\ workers = [w \in Workers |-> "up"] /\ shared = {} /\ exclusive = NoWorker
      /\ loop = [w \in Workers |-> IdleLoop] /\ duty = [w \in Workers |-> IdleDuty] /\ faults = 0
  BY DEF ImagesInit
<1>10. ImagesTypeOK
  <2>1. published \in Inventory
    BY <1>9 DEF NoInventory, Inventory
  <2>2. operations \in [Operations -> Operation] /\ loop \in [Workers -> Loop]
        /\ duty \in [Workers -> Duty]
    BY <1>9, IdleTyped
  <2>3. /\ containers \in [Runs -> {None} \cup Ids] /\ workers \in [Workers -> WorkerState]
        /\ dangling \subseteq Ids /\ maintenance \in BOOLEAN /\ shared \subseteq Workers
        /\ exclusive \in Workers \cup {NoWorker}
    BY <1>9 DEF WorkerState
  <2>4. faults \in 0 .. MaxFaults
    <3>1. MaxFaults \in Nat
      BY Constants
    <3>. QED BY <1>9, <3>1
  <2>. QED BY <1>2, <1>4, <1>7, <2>1, <2>2, <2>3, <2>4 DEF ImagesTypeOK
<1>11. \A w \in Workers : duty[w].at = "idle" /\ duty[w].op = None /\ duty[w].todo = {}
                          /\ loop[w].at = "idle"
  BY <1>9, IdleTyped
<1>. QED BY <1>5, <1>8, <1>9, <1>10, <1>11
         DEF HostInv, ImagesSafe, ImagesStayForRun, OneExecutor, HostLock, HandlesStoredRun,
             TodoSpares, Handling

\* Whatever is queued, retried or taken over, and whoever crashes: image work
\* never takes an image a run is about to start in, and every operation has at
\* most one executor, which has the host to itself (hostExecutionLock, the
\* leases of claimImageOperation).
THEOREM ImagesInvariant == ImagesSpec => []ImagesSafe
<1>1. HostInv => ImagesSafe
  BY DEF HostInv
<1>. QED BY <1>1, InitSafe, StepKeeps, PTL DEF ImagesSpec

\* The invariant the theorems about steps start from.
LEMMA HostInvariant == ImagesSpec => []HostInv
BY InitSafe, StepKeeps, PTL DEF ImagesSpec

\* A tag goes because a worker removes a target.
LEMMA RemovedIsUntagged ==
  ASSUME HostInv, ImagesNext, NEW x \in Removed
  PROVE  \E w \in Workers : \E t \in duty[w].todo : Untags(w, t) /\ t.ref = x
<1>1. x \in Refs /\ host[x] # None /\ host'[x] = None /\ host \in [Refs -> {None} \cup Ids]
  BY DEF Removed, HostInv, ImagesSafe, ImagesTypeOK
<1>2. ASSUME NEW r \in Runs, Tags(r)  PROVE FALSE
  <2>1. host[x] \in Ids
    BY <1>1
  <2>2. host[x] \in Nat /\ host[x] > 0
    BY <2>1, Constants DEF Ids
  <2>3. host[x] <= host'[x]
    BY <1>1, <1>2, TagsGrow
  <2>. QED BY <1>1, <2>2, <2>3 DEF None
<1>3. ASSUME NEW w \in Workers, NEW t \in duty[w].todo, Untags(w, t)  PROVE t.ref = x
  BY <1>1, <1>3 DEF Untags
<1>. QED BY <1>1, <1>2, <1>3, HostSteps

\* A tag only goes while one worker holds the host for a plan that names it
\* with the image it has (applyImageTargets).
THEOREM OnlyPlannedGoes == ImagesSpec => RemovesOnlyPlanned
<1>1. HostInv /\ [ImagesNext]_imageVars =>
             [\A x \in Removed :
                \E w \in Workers :
                  exclusive = w /\ [ref |-> x, id |-> host[x]] \in duty[w].targets]_imageVars
  <2> SUFFICES ASSUME HostInv, ImagesNext, NEW x \in Removed
               PROVE  \E w \in Workers :
                        exclusive = w /\ [ref |-> x, id |-> host[x]] \in duty[w].targets
    OBVIOUS
  <2>1. PICK w \in Workers : \E t \in duty[w].todo : Untags(w, t) /\ t.ref = x
    BY RemovedIsUntagged
  <2>2. PICK t \in duty[w].todo : Untags(w, t) /\ t.ref = x
    BY <2>1
  <2>3. t = [ref |-> x, id |-> host[x]]
    BY <2>2, DutyTyped, RowTyped DEF Untags, HostInv, ImagesSafe
  <2>4. exclusive = w /\ t \in duty[w].targets
    BY <2>2, RemovesAlone DEF HostInv, ImagesSafe, TodoSpares
  <2>. QED BY <2>3, <2>4
<1>. QED BY <1>1, HostInvariant, PTL DEF ImagesSpec, RemovesOnlyPlanned

\* A prune spares what pipelines need and the live version, of what it read
\* before it began, and leaves the newest tags: while builds go on, and however
\* old the plan was (PlanPrune again in applyImageTargets).
THEOREM PruneLeavesTheNewest == ImagesSpec => PruneSpares
<1>1. HostInv /\ [ImagesNext]_imageVars =>
             [\A x \in Removed, w \in Workers :
                exclusive = w /\ duty[w].kind = "image.prune" =>
                  /\ x \notin duty[w].facts.required \cup duty[w].facts.deployed
                  /\ Cardinality({v \in Versions : host'[v] > host[x]})
                       >= duty[w].facts.keep]_imageVars
  <2> SUFFICES ASSUME HostInv, ImagesNext, NEW x \in Removed, NEW w \in Workers,
                      exclusive = w, duty[w].kind = "image.prune"
               PROVE  /\ x \notin duty[w].facts.required \cup duty[w].facts.deployed
                      /\ Cardinality({v \in Versions : host'[v] > host[x]}) >= duty[w].facts.keep
    OBVIOUS
  <2>1. PICK u \in Workers : \E t \in duty[u].todo : Untags(u, t) /\ t.ref = x
    BY RemovedIsUntagged
  <2>2. PICK t \in duty[u].todo : Untags(u, t) /\ t.ref = x
    BY <2>1
  <2>3. /\ u = w /\ duty[w].at = "removing" /\ t \in duty[w].todo
        /\ t.ref = x /\ host[x] = t.id /\ x \in Refs /\ host' = [host EXCEPT ![x] = None]
    BY <2>2, RemovesAlone DEF Untags
  <2>4. /\ host \in [Refs -> {None} \cup Ids] /\ ImagesTypeOK /\ TodoSpares
    BY DEF HostInv, ImagesSafe, ImagesTypeOK
  <2>5. /\ \A s \in duty[w].todo : s.ref \notin duty[w].facts.required \cup duty[w].facts.deployed
        /\ \E newer \in SUBSET Versions :
             /\ Cardinality(newer) >= duty[w].facts.keep
             /\ \A v \in newer, s \in duty[w].todo : host[v] > s.id
    BY <2>3, <2>4 DEF TodoSpares
  <2>6. PICK newer \in SUBSET Versions :
          /\ Cardinality(newer) >= duty[w].facts.keep
          /\ \A v \in newer, s \in duty[w].todo : host[v] > s.id
    BY <2>5
  <2> DEFINE left == {v \in Versions : host'[v] > host[x]}
  <2>7. newer \subseteq left
    <3> SUFFICES ASSUME NEW v \in newer  PROVE host'[v] > host[x]
      OBVIOUS
    <3>1. v \in Refs /\ host[v] > host[x]
      BY <2>3, <2>6 DEF Refs
    <3>2. host[x] \in {None} \cup Ids /\ None \in Nat
      BY <2>3, <2>4 DEF None
    <3>3. host[x] \in Nat
      BY <3>2, Constants
    <3>4. v # x
      BY <3>1, <3>3
    <3>. QED BY <2>3, <2>4, <3>1, <3>4
  <2>8. IsFiniteSet(left) /\ IsFiniteSet(newer)
    BY Constants, FS_Subset
  <2>9. duty[w].facts.keep \in Nat
    BY <2>4, DutyTyped DEF Facts
  <2> HIDE DEF left
  <2>10. Cardinality(newer) <= Cardinality(left) /\ Cardinality(newer) \in Nat
        /\ Cardinality(left) \in Nat
    BY <2>7, <2>8, FS_Subset, FS_CardinalityType
  <2>11. Cardinality(left) >= duty[w].facts.keep
    BY <2>6, <2>9, <2>10
  <2>. QED BY <2>3, <2>5, <2>11 DEF left
<1>. QED BY <1>1, HostInvariant, PTL DEF ImagesSpec, PruneSpares
=============================================================================
