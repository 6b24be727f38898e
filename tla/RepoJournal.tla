---------------------------- MODULE RepoJournal ----------------------------
(***************************************************************************)
(* Changes of one repository: an intent is committed to the table          *)
(* repository_operations, Git is changed, and the database rows and the    *)
(* operation's completion commit together.  Whatever dies in between is    *)
(* replayed by recovery, or given up by an operator.  Admission,           *)
(* maintenance and the backup snapshot are here because they only matter   *)
(* for what runs in between.                                               *)
(*                                                                         *)
(* An actor is a goroutine or process: a request, a push hook, a pass of   *)
(* RecoverOperations, or an operator's command.  A process that dies is    *)
(* several actors that crash one after the other.                          *)
(***************************************************************************)
EXTENDS Integers, FiniteSets

CONSTANTS
  Actors,
  Nobody,      \* nobody holds the lock file
  Refs,        \* branches
  Commits,
  Zero,        \* the zero hash: no such ref
  MaxOps,      \* bound on operations; the code's IDs are unbounded
  Kinds,       \* the operations explored: "create", "delete", "head", "push"
  Faults,      \* what may go wrong
  MaxFaults    \* bound on how often

FaultKinds == {"crash", "orphan", "db", "git", "outside", "abandon"}
AllKinds == {"create", "delete", "head", "push"}

ASSUME JournalConstantsOK ==
  /\ Nobody \notin Actors
  /\ Refs # {} /\ Zero \notin Commits
  /\ MaxOps \in Nat /\ MaxFaults \in Nat
  /\ Kinds \subseteq AllKinds /\ Faults \subseteq FaultKinds

VARIABLES
  ops,          \* table repository_operations
  repo,         \* the repository's row and its ref index
  git,          \* its directory
  changed,      \* history: the operations that changed Git
  touched,      \* history: Git was changed behind Gitman's back
  act,          \* the actors
  lock,         \* .locks/<repository>
  shared,       \* the actors whose admission lock the database holds
  maintenance,  \* instance.maintenance
  backup,       \* gitman admin maintenance backup
  late,         \* each operation's git command: whether it outlived its process
  faults

data == <<ops, repo, git, changed, touched>>
jvars == <<ops, repo, git, changed, touched, act, lock, shared, maintenance, backup, late, faults>>

----------------------------------------------------------------------------
(* Rows.                                                                   *)

Hashes == Commits \cup {Zero}
OpIDs == 1 .. MaxOps
NoOp == 0

\* What an operation is to do: a push moves ref from old to new, and runs
\* tells whether a run follows; head and create name a branch.
Intent == [kind : AllKinds, ref : Refs, old : Hashes, new : Hashes, runs : BOOLEAN]

Operation ==
  [ status : {"none", "pending", "completed", "pruned"},
    intent : Intent,
    failed : BOOLEAN ]      \* error # ''

Row == [row : BOOLEAN, branch : Refs, index : [Refs -> Hashes]]

Directory ==
  [dir : BOOLEAN, head : Refs, refs : [Refs -> Hashes], receipts : SUBSET OpIDs]

PC == {"idle", "admitted", "locked", "clear", "query", "verify", "apply", "requery",
       "reverify", "reject", "record", "git", "commit", "rlock", "rcheck", "note", "alock",
       "alook", "acommit"}

\* by: who the actor works for once it has an operation.
Actor == [pc : PC, op : OpIDs \cup {NoOp}, by : {"client", "recovery", "operator"}]

Idle == [pc |-> "idle", op |-> NoOp, by |-> "client"]

Backup ==
  [pc : {"idle", "dump", "archive", "done"}, lease : BOOLEAN, db : Row, files : Directory]

\* Every table, directory and actor has its type.
JournalTypeOK ==
  /\ ops \in [OpIDs -> Operation]
  /\ repo \in Row /\ git \in Directory
  /\ changed \subseteq OpIDs /\ touched \in BOOLEAN
  /\ act \in [Actors -> Actor]
  /\ lock \in Actors \cup {Nobody} /\ shared \subseteq Actors
  /\ maintenance \in BOOLEAN /\ backup \in Backup
  /\ late \in [OpIDs -> {"no", "running", "ended"}] /\ faults \in 0 .. MaxFaults

AnyRef == CHOOSE f \in Refs : TRUE
NoRefs == [f \in Refs |-> Zero]
NoRow == [row |-> FALSE, branch |-> AnyRef, index |-> NoRefs]
NoDir == [dir |-> FALSE, head |-> AnyRef, refs |-> NoRefs, receipts |-> {}]

\* An instance starts without the repository, or with one that was created
\* long ago.
JournalInit ==
  /\ \E born \in BOOLEAN : /\ repo = [NoRow EXCEPT !.row = born]
                           /\ git = [NoDir EXCEPT !.dir = born]
                           /\ born \/ "create" \in Kinds
  /\ ops = [o \in OpIDs |->
       [status |-> "none", failed |-> FALSE,
        intent |-> [kind |-> "create", ref |-> AnyRef, old |-> Zero, new |-> Zero, runs |-> FALSE]]]
  /\ changed = {} /\ touched = FALSE
  /\ act = [p \in Actors |-> Idle]
  /\ lock = Nobody /\ shared = {} /\ maintenance = FALSE
  /\ backup = [pc |-> "idle", lease |-> FALSE, db |-> NoRow, files |-> NoDir]
  /\ late = [o \in OpIDs |-> "no"] /\ faults = 0

----------------------------------------------------------------------------
(* Faults, calls and moves.                                                *)

Fault(kind) == kind \in Faults /\ faults < MaxFaults /\ faults' = faults + 1

\* A step of an actor that changes data as tx says: it succeeds; it succeeds
\* and its answer is lost; or it fails.
Call(kind, tx, good, bad) ==
  \/ tx /\ good /\ UNCHANGED faults
  \/ tx /\ bad /\ Fault(kind)
  \/ UNCHANGED data /\ bad /\ Fault(kind)

At(p, pc) == act[p].pc = pc

Op(p) == act[p].op
Plan(p) == ops[Op(p)].intent

Go(p, pc) == act' = [act EXCEPT ![p].pc = pc] /\ UNCHANGED <<lock, shared>>

MutUnlock(p) == lock   \* mutant: the lock file stays locked

Unlock(p) == IF lock = p THEN Nobody ELSE lock

\* WithMutation returns: the deferred unlock and release run.
Leave(p) ==
  /\ act' = [act EXCEPT ![p] = Idle]
  /\ lock' = Unlock(p)
  /\ shared' = shared \ {p}

\* An error: recovery records it once it has released the lock, unless its
\* context ended; a client gets it as the answer.
Fail(p) ==
  \/ Leave(p)
  \/ /\ act[p].by = "recovery"
     /\ act' = [act EXCEPT ![p].pc = "note"]
     /\ lock' = Unlock(p)
     /\ UNCHANGED shared

\* What an actor's own steps never change.
Quiet == UNCHANGED <<maintenance, backup, late>>

PendingOp(o) == ops[o].status = "pending"
Pending == \E o \in OpIDs : PendingOp(o)

Done(o) == ops[o].status = "completed" /\ ~ops[o].failed
Dropped(o) == ops[o].status = "completed" /\ ops[o].failed

Complete(o, failed) == ops' = [ops EXCEPT ![o].status = "completed", ![o].failed = failed]

----------------------------------------------------------------------------
(* Live mutations.                                                         *)

\* AdmitMutation: the shared lock, then the maintenance flag.
Admit(p) ==
  /\ At(p, "idle") /\ ~backup.lease /\ ~maintenance
  /\ act' = [act EXCEPT ![p].pc = "admitted"]
  /\ shared' = shared \cup {p}
  /\ UNCHANGED <<data, lock, faults>> /\ Quiet

\* MutationLock.
TakeLock(p, from, to) ==
  /\ At(p, from)
  /\ \/ lock = Nobody /\ lock' = p /\ act' = [act EXCEPT ![p].pc = to] /\ UNCHANGED shared
     \/ lock # Nobody /\ Leave(p)
  /\ UNCHANGED <<data, faults>> /\ Quiet

\* WithMutation: no change while an earlier intent is unfinished.
CheckPending(p) ==
  /\ At(p, "locked")
  /\ \/ (IF Pending THEN Leave(p) ELSE Go(p, "clear")) /\ UNCHANGED faults
     \/ Fault("db") /\ Leave(p)
  /\ UNCHANGED data /\ Quiet

\* The handlers' conditions for an operation, all read under the lock.
MayBegin(i) ==
  CASE i.kind = "create" -> ~repo.row /\ \A o \in OpIDs : ops[o].status = "none"
    [] i.kind = "delete" -> repo.row
    [] i.kind = "head"   -> repo.row /\ git.dir /\ repo.branch # i.ref /\ git.refs[i.ref] # Zero
    [] i.kind = "push"   -> repo.row /\ git.dir /\ git.refs[i.ref] = i.old

\* The fields an intent of its kind has; the others have one value.
Intents ==
  {i \in Intent :
     /\ i.kind \in Kinds
     /\ i.kind # "push" => i.old = Zero /\ i.new = Zero /\ ~i.runs
     /\ i.kind = "push" => i.old # i.new /\ (i.new = Zero => ~i.runs)
     /\ i.kind \in {"create", "delete"} => i.ref = AnyRef}

MutFirstStep(kind) == kind   \* mutant: the step is named after the operation

\* The first step after the intent.
FirstStep(kind) == IF kind = "push" THEN "query" ELSE "git"

NewOp == CHOOSE o \in OpIDs : ops[o].status = "none"

\* BeginOperation; the table's unique index allows one pending operation.
Begin(p) ==
  /\ At(p, "clear") /\ \E o \in OpIDs : ops[o].status = "none"
  /\ \E i \in Intents :
       /\ MayBegin(i) /\ ~Pending
       /\ Call("db",
               /\ ops' = [ops EXCEPT ![NewOp] =
                            [status |-> "pending", intent |-> i, failed |-> FALSE]]
               /\ UNCHANGED <<repo, git, changed, touched>>,
               /\ act' = [act EXCEPT ![p].pc = FirstStep(i.kind), ![p].op = NewOp]
               /\ UNCHANGED <<lock, shared>>,
               Leave(p))
  /\ Quiet

\* PruneGitPins: receipts of operations without a row go.
PruneReceipts(p) ==
  /\ At(p, "clear") /\ git.dir
  /\ Call("git",
          /\ git' = [git EXCEPT !.receipts =
                       {o \in @ : ops[o].status \in {"pending", "completed"}}]
          /\ UNCHANGED <<ops, repo, changed, touched>>,
          Leave(p), Leave(p))
  /\ Quiet

\* The handler refuses what it was asked for, or finds nothing to do.
Decline(p) ==
  /\ At(p, "clear") /\ Leave(p)
  /\ UNCHANGED <<data, faults>> /\ Quiet

----------------------------------------------------------------------------
(* Pushes: recoverPush.                                                    *)

MutApplied(o) == FALSE   \* mutant: the receipt is not looked for

\* OperationApplied finds the receipt of this intent.
Applied(o) == o \in git.receipts

\* CheckRefChanges finds the ref moved.
RefMoved(i) == git.refs[i.ref] # i.old

Query(p) ==
  /\ At(p, "query") \/ At(p, "requery")
  /\ \/ /\ UNCHANGED faults
        /\ IF ~git.dir THEN Fail(p)
           ELSE Go(p, IF Applied(Op(p)) THEN "record"
                      ELSE IF At(p, "query") THEN "verify" ELSE "reverify")
     \/ Fault("git") /\ Fail(p)
  /\ UNCHANGED data /\ Quiet

Verify(p) ==
  /\ At(p, "verify") \/ At(p, "reverify")
  /\ \/ RefMoved(Plan(p)) /\ Go(p, "reject") /\ UNCHANGED faults
     \/ /\ ~RefMoved(Plan(p)) /\ UNCHANGED faults
        /\ IF At(p, "verify") THEN Go(p, "apply") ELSE Fail(p)
     \/ Fault("git") /\ Fail(p)
  /\ UNCHANGED data /\ Quiet

MutUpdatable(o) == git.dir   \* mutant: update-ref without old values or receipt

\* update-ref commits all or nothing: the ref still has its old value and
\* the receipt does not exist.
Updatable(o) == git.dir /\ ~RefMoved(ops[o].intent) /\ o \notin git.receipts

UpdateRefs(o) ==
  /\ git' = [git EXCEPT !.refs[ops[o].intent.ref] = ops[o].intent.new,
                        !.receipts = @ \cup {o}]
  /\ changed' = changed \cup {o}
  /\ UNCHANGED <<ops, repo, touched>>

ApplyOperation(p) ==
  /\ At(p, "apply")
  /\ \/ Updatable(Op(p)) /\ Call("git", UpdateRefs(Op(p)), Go(p, "record"), Go(p, "requery"))
     \/ ~Updatable(Op(p)) /\ Go(p, "requery") /\ UNCHANGED <<data, faults>>
  /\ Quiet

DropOp(o) == IF PendingOp(o) THEN Complete(o, TRUE) ELSE UNCHANGED ops

RejectOperation(p) ==
  /\ At(p, "reject")
  /\ Call("db", DropOp(Op(p)) /\ UNCHANGED <<repo, git, changed, touched>>, Leave(p), Fail(p))
  /\ Quiet

\* recordPush: a run is only created for the commit the intent names.
Diverged(i) == i.runs /\ git.refs[i.ref] # i.new

MutSynced == repo.index   \* mutant: the index is left as it was

\* SyncRefsTx: the index becomes what Git has.
Synced == git.refs

\* recordPush: the ref index, the push, its runs and the completion.
RecordPush(p) ==
  LET o == Op(p) IN
  /\ At(p, "record")
  /\ IF PendingOp(o) /\ git.dir /\ repo.row /\ ~Diverged(Plan(p))
     THEN Call("db",
               /\ Complete(o, FALSE) /\ repo' = [repo EXCEPT !.index = Synced]
               /\ touched' = FALSE /\ UNCHANGED <<git, changed>>,
               Leave(p), Fail(p))
     ELSE /\ IF PendingOp(o) THEN Fail(p) ELSE Leave(p)
          /\ UNCHANGED <<data, faults>>
  /\ Quiet

----------------------------------------------------------------------------
(* The other operations: applyRepositoryOperation.                         *)

\* Store.Create, Store.Delete and SetHead; each may be done already.
GitChange(o) ==
  LET i == ops[o].intent IN
  /\ git' = CASE i.kind = "create" ->
                   IF git.dir THEN git ELSE [NoDir EXCEPT !.dir = TRUE, !.head = i.ref]
              [] i.kind = "delete" -> NoDir
              [] i.kind = "head"   -> [git EXCEPT !.head = i.ref]
  /\ changed' = changed \cup {o}
  /\ UNCHANGED <<ops, repo, touched>>

GitStep(p) ==
  /\ At(p, "git")
  /\ IF Plan(p).kind = "head" /\ ~git.dir
     THEN Fail(p) /\ UNCHANGED <<data, faults>>
     ELSE Call("git", GitChange(Op(p)), Go(p, "commit"), Fail(p))
  /\ Quiet

RowChange(o) ==
  LET i == ops[o].intent IN
  /\ repo' = CASE i.kind = "create" -> [NoRow EXCEPT !.row = TRUE, !.branch = i.ref]
               [] i.kind = "delete" -> NoRow
               [] i.kind = "head"   -> [repo EXCEPT !.branch = i.ref]
  /\ Complete(o, FALSE)
  /\ UNCHANGED <<git, changed, touched>>

\* insertRepo refuses a second row, updateDefaultBranchRow a missing one.
RowReady(kind) == (kind = "create" => ~repo.row) /\ (kind = "head" => repo.row)

CommitStep(p) ==
  /\ At(p, "commit")
  /\ IF RowReady(Plan(p).kind)
     THEN Call("db", RowChange(Op(p)), Leave(p), Fail(p))
     ELSE Fail(p) /\ UNCHANGED <<data, faults>>
  /\ Quiet

----------------------------------------------------------------------------
(* Recovery, abandoning, and the operator's commands.                      *)

Pick(p, by, pc) ==
  /\ At(p, "idle")
  /\ \E o \in OpIDs : PendingOp(o) /\ act' = [act EXCEPT ![p] = [pc |-> pc, op |-> o, by |-> by]]
  /\ UNCHANGED <<data, lock, shared>> /\ Quiet

\* RecoverOperations lists what is pending, before it takes the lock.
RecoverOperations(p) == Pick(p, "recovery", "rlock") /\ UNCHANGED faults

\* A live operation may have finished while recovery waited for its lock.
RecoverCheck(p) ==
  /\ At(p, "rcheck")
  /\ \/ /\ UNCHANGED faults
        /\ IF ~PendingOp(Op(p)) THEN Leave(p)
           ELSE IF Plan(p).kind = "push" /\ ~(repo.row /\ git.dir) THEN Fail(p)
           ELSE Go(p, FirstStep(Plan(p).kind))
     \/ Fault("db") /\ Fail(p)
  /\ UNCHANGED data /\ Quiet

\* The failure of the attempt is recorded on the operation, if it can be.
Note(p) ==
  /\ At(p, "note")
  /\ Call("db",
          /\ ops' = [ops EXCEPT ![Op(p)].failed = @ \/ PendingOp(Op(p))]
          /\ UNCHANGED <<repo, git, changed, touched>>,
          Leave(p), Leave(p))
  /\ Quiet

\* An operator abandons an operation that is pending.
AbandonOperation(p) == Fault("abandon") /\ Pick(p, "operator", "alock")

MutMayAbandon(o) == ~Applied(o)   \* mutant: the row is not read again

\* Only what recovery has failed, and what has no receipt in Git.
MayAbandon(o) == PendingOp(o) /\ ops[o].failed /\ ~Applied(o)

AbandonCheck(p) ==
  /\ At(p, "alook")
  /\ \/ (IF MayAbandon(Op(p)) THEN Go(p, "acommit") ELSE Leave(p)) /\ UNCHANGED faults
     \/ Fault("git") /\ Leave(p)
  /\ UNCHANGED data /\ Quiet

AbandonCommit(p) ==
  /\ At(p, "acommit")
  /\ Call("db", Complete(Op(p), TRUE) /\ UNCHANGED <<repo, git, changed, touched>>, Leave(p), Leave(p))
  /\ Quiet

\* The directory has neither a row nor an intent.
Unknown == ~repo.row /\ ~Pending

\* QuarantineOrphans moves such a directory aside, under its lock.
QuarantineOrphans ==
  /\ git.dir /\ lock = Nobody /\ Unknown
  /\ git' = NoDir
  /\ UNCHANGED <<ops, repo, changed, touched, act, lock, shared, faults>> /\ Quiet

\* gitman admin repo sync: SyncRefs, without the lock.
SyncRefs ==
  /\ repo.row /\ git.dir
  /\ repo' = [repo EXCEPT !.index = Synced]
  /\ touched' = FALSE
  /\ UNCHANGED <<ops, git, changed, act, lock, shared, faults>> /\ Quiet

\* PruneRetention deletes old rows of completed operations: no command runs
\* for that long.
PruneOp(o) ==
  /\ ops[o].status = "completed" /\ late[o] # "running"
  /\ ops' = [ops EXCEPT ![o].status = "pruned"]
  /\ UNCHANGED <<repo, git, changed, touched, act, lock, shared, faults>> /\ Quiet

----------------------------------------------------------------------------
(* Maintenance and backup.                                                 *)

\* SetMaintenance takes the exclusive lock: admitted work has drained.
SetMaintenance(on) ==
  /\ shared = {} /\ ~backup.lease
  /\ maintenance' = on
  /\ UNCHANGED <<data, act, lock, shared, backup, late, faults>>

MutReady == maintenance   \* mutant: unfinished operations do not matter

\* BackupReady, for this repository.
Ready == maintenance /\ ~Pending

SetBackup(b) ==
  backup' = b /\ UNCHANGED <<data, act, lock, shared, maintenance, late, faults>>

SnapshotLease ==
  /\ backup.pc = "idle" /\ shared = {} /\ Ready
  /\ SetBackup([backup EXCEPT !.pc = "dump", !.lease = TRUE])

DumpDatabase ==
  backup.pc = "dump" /\ SetBackup([backup EXCEPT !.pc = "archive", !.db = repo])

ArchiveRepositories ==
  backup.pc = "archive" /\ SetBackup([backup EXCEPT !.pc = "done", !.files = git, !.lease = FALSE])

----------------------------------------------------------------------------
(* What goes wrong.                                                        *)

\* The kernel releases the lock file, the server the admission lock.
Gone(p) ==
  /\ Leave(p)
  /\ UNCHANGED <<data, maintenance, backup>>

Crash(p) == ~At(p, "idle") /\ Fault("crash") /\ Gone(p) /\ UNCHANGED late

\* The process dies while its git command runs: nothing kills the command.
Orphan(p) ==
  /\ At(p, "apply") /\ Fault("orphan") /\ Gone(p)
  /\ late' = [late EXCEPT ![Op(p)] = "running"]

LateUpdate(o) ==
  /\ late[o] = "running" /\ late' = [late EXCEPT ![o] = "ended"]
  /\ IF Updatable(o) THEN UpdateRefs(o) ELSE UNCHANGED data
  /\ UNCHANGED <<act, lock, shared, maintenance, backup, faults>>

\* Somebody moves a ref without Gitman.
Outside ==
  /\ git.dir /\ Fault("outside")
  /\ \E f \in Refs, h \in Hashes : git' = [git EXCEPT !.refs[f] = h]
  /\ touched' = TRUE
  /\ UNCHANGED <<ops, repo, changed, act, lock, shared>> /\ Quiet

----------------------------------------------------------------------------

ClientNext(p) == Admit(p) \/ TakeLock(p, "admitted", "locked") \/ CheckPending(p) \/ Begin(p)
                 \/ PruneReceipts(p) \/ Decline(p)

WorkNext(p) == Query(p) \/ Verify(p) \/ ApplyOperation(p) \/ RejectOperation(p)
               \/ RecordPush(p) \/ GitStep(p) \/ CommitStep(p)

RecoverNext(p) ==
  RecoverOperations(p) \/ TakeLock(p, "rlock", "rcheck") \/ RecoverCheck(p) \/ Note(p)

AbandonNext(p) ==
  AbandonOperation(p) \/ TakeLock(p, "alock", "alook") \/ AbandonCheck(p) \/ AbandonCommit(p)

BackupNext == SetMaintenance(~maintenance) \/ SnapshotLease \/ DumpDatabase \/ ArchiveRepositories

JournalNext ==
  \/ \E p \in Actors : \/ ClientNext(p) \/ WorkNext(p) \/ RecoverNext(p) \/ AbandonNext(p)
                       \/ Crash(p) \/ Orphan(p)
  \/ \E o \in OpIDs : PruneOp(o) \/ LateUpdate(o)
  \/ QuarantineOrphans \/ SyncRefs \/ BackupNext \/ Outside

JournalSpec == JournalInit /\ [][JournalNext]_jvars

\* What an actor does once it has begun.
Ongoing(p) == ~At(p, "idle") /\ (ClientNext(p) \/ WorkNext(p) \/ RecoverNext(p) \/ AbandonNext(p))

\* Whatever has begun goes on.  A pass of recovery starts every thirty
\* seconds, whatever the clients do, and tries for fifteen to get a lock that
\* others hold for moments: again and again it finds the lock free, and in
\* the end it gets it.
JournalFairness ==
  /\ \A p \in Actors : WF_jvars(Ongoing(p))
  /\ SF_jvars(\E p \in Actors : lock = Nobody /\ RecoverOperations(p))
  /\ SF_jvars(\E p \in Actors : lock = Nobody /\ TakeLock(p, "rlock", "rcheck"))

JournalFairSpec == JournalSpec /\ JournalFairness

----------------------------------------------------------------------------
(* What the journal guarantees.                                            *)

\* "RejectOperation finishes an intent that provably did not change Git":
\* a push is recorded exactly when Git was changed, whatever died in between.
CompletedTruthfully ==
  \A o \in OpIDs :
     /\ Done(o) => o \in changed
     /\ Dropped(o) /\ ops[o].intent.kind = "push" => o \notin changed

\* An operator gave up an operation that writes no receipt.
GivenUp ==
  \E o \in OpIDs : /\ ops[o].status \in {"completed", "pruned"} /\ ops[o].failed
                   /\ ops[o].intent.kind # "push"

\* No git command outlived its process.
InTime == \A o \in OpIDs : late[o] = "no"

PushSteps == {"query", "verify", "apply", "requery", "reverify", "reject", "record"}
Holding == PushSteps \cup {"locked", "clear", "git", "commit", "rcheck", "alook", "acommit"}

\* Whoever works on an operation has the lock, and the operation is unfinished
\* whatever it was when it was listed; it is recorded by an actor that knows it
\* changed Git, and given up by one that knows it did not.
WorkUnderLock ==
  \A p \in Actors :
    LET pc == act[p].pc
        o  == Op(p)
    IN /\ pc \in Holding => lock = p
       /\ pc \in {"admitted", "locked", "clear"} => p \in shared
       /\ pc \notin {"idle", "admitted", "locked", "clear"} => o \in OpIDs
       /\ pc \in PushSteps \cup {"git", "commit", "acommit"} => PendingOp(o)
       /\ pc \in PushSteps => Plan(p).kind = "push"
       /\ pc \in {"git", "commit"} => Plan(p).kind # "push"
       /\ pc \in {"record", "commit"} => o \in changed
       /\ InTime /\ pc \in {"verify", "apply", "reverify", "reject"} => o \notin changed
       /\ InTime /\ pc = "acommit" /\ Plan(p).kind = "push" => o \notin changed

\* At most one operation is unfinished, and a creation is the first of all.
OneUnfinished ==
  \A o, q \in OpIDs :
    PendingOp(o) /\ q # o =>
      ~PendingOp(q) /\ (ops[o].intent.kind = "create" => ops[q].status = "none")

\* Git has a push's receipt exactly if the push changed it, for as long as
\* somebody may ask: recovery, an operator or a late command.
ReceiptsTell ==
  /\ git.receipts \subseteq changed
  /\ \A o \in OpIDs :
       /\ ops[o].status = "none" => o \notin changed /\ late[o] = "no"
       /\ late[o] # "no" => ops[o].intent.kind = "push"
       /\ late[o] = "running" => ops[o].status \in {"pending", "completed"}
       /\ ops[o].intent.kind = "push" /\ o \in changed =>
            (PendingOp(o) \/ (late[o] = "running" /\ git.dir) => o \in git.receipts)

Agree ==
  /\ repo.row <=> git.dir
  /\ repo.row => repo.branch = git.head
  /\ repo.row /\ ~touched => repo.index = git.refs

\* While nothing is unfinished, a row has its directory and a directory its
\* row, the default branch is Git's HEAD, and the ref index is what Git has.
StoresAgree == ~Pending /\ ~GivenUp => Agree

\* While something is, they differ by what it does.
DifferByOne ==
  \A o \in OpIDs :
    LET i == ops[o].intent
    IN PendingOp(o) /\ ~GivenUp =>
         /\ i.kind = "push" => /\ repo.row /\ git.dir /\ repo.branch = git.head
                               /\ (o \notin changed => Agree)
         /\ i.kind = "head" => /\ repo.row /\ git.dir
                               /\ (~touched => repo.index = git.refs)
                               /\ git.head = IF o \in changed THEN i.ref ELSE repo.branch
         /\ i.kind = "delete" => repo.row /\ (IF o \in changed THEN ~git.dir ELSE Agree)
         /\ i.kind = "create" => /\ ~repo.row /\ (git.dir <=> o \in changed)
                                 /\ (o \in changed => git.head = i.ref)
                                 /\ (o \in changed /\ ~touched => git.refs = NoRefs)

\* Rows have their types, work is done under the lock and on what is
\* unfinished, what is recorded is what Git did, and rows and directory agree.
JournalSafe ==
  /\ JournalTypeOK /\ WorkUnderLock /\ OneUnfinished /\ ReceiptsTell
  /\ InTime => (CompletedTruthfully /\ StoresAgree /\ DifferByOne)

\* A backup that completed holds rows and directories that belong together:
\* admitted work has drained, and nothing is admitted while it is taken.  A git
\* command without its process knows of neither.
BackupConsistent ==
  backup.pc = "done" /\ InTime =>
     /\ backup.db.row <=> backup.files.dir
     /\ backup.db.row => /\ backup.db.branch = backup.files.head
                         /\ backup.db.index = backup.files.refs

\* How an operation ended stays: done, or given up.
OutcomeKept ==
  \A o \in OpIDs : ops[o].status = "completed" =>
     ops'[o].status \in {"completed", "pruned"} /\ ops'[o].failed = ops[o].failed

\* No step rewrites how an operation ended: recovery that listed it before,
\* or a process thought dead, does not finish what was given up.
OutcomeFinal == [][OutcomeKept]_jvars

\* A ref moves for an operation that had not changed Git yet.
MovedForFirstTime ==
  git.dir /\ git'.dir /\ git'.refs # git.refs =>
     (\E o \in OpIDs : o \notin changed /\ o \in changed') \/ touched'

\* Git applies a push at most once, however often it is replayed and even if
\* a command outlives its process: nothing overwrites a later push.
AppliedOnce == [][MovedForFirstTime]_jvars

\* Every intent is finished in the end: applied and recorded, or rejected.
OperationsFinish == \A o \in OpIDs : PendingOp(o) ~> ~PendingOp(o)
============================================================================
