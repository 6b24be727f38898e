# Gitman: a verification project

Gitman is a self-hosted Git service with a CI runner.  Its processes are a web
server (pages, Git over HTTP, a recovery loop), a Git hook that every push goes
through, worker processes that run pipelines in Docker containers, and operator
commands.  They share one PostgreSQL database and one directory of bare
repositories, and they meet nowhere else: there is no coordinator.  What has to
be right is therefore in the transactions, in the order in which a process
touches the database, Git, Docker and the file system, and in what the next
process does after the previous one died half-way.

This project models those parts in TLA+, checks them with TLC on small
instances and proves most of their safety with TLAPS for every instance.
`PROJECT.json` maps every definition to the lines it models, and lists the
components, the hazards, the runs, the mutants and the theorems.

## 1. Inventory

| Component | State | Operations | Hard behaviour |
|---|---|---|---|
| CI run queue (`internal/ci`) | tables `runs`, `steps`, `workers`; `repos.run_counter` | create (push, manual), claim, step and container calls, finish, cancel, reap lost runs | any process may call late, twice or after a reaper; results must be final |
| Deployment ownership (`ci/deploy_owner.go`) | `deployment_targets`, `deployments`, `steps.deployment_generation` | begin, receipt, confirmed stop, operator release | one deploy at a time across hosts; older automatic runs must not deploy over newer ones |
| Worker process (`internal/worker`) | goroutines, lock files, workspaces, containers | recover, claim, execute, clean up, heartbeat, reap | crashes between any two calls, lost answers, late heartbeats, timeouts, full disks |
| Image management (`worker/images.go`, `ci/images.go`) | host image lock, published inventory, operation queue | queue, lease, prune, remove, publish | exclusive work against running steps; plans made from old lists; leases taken over |
| Step logs (`worker/logs.go`, `internal/redact`) | filter and matcher state, buffer, chunks | write, flush, retry, close, append | secrets across writes and escapes; a commit nobody heard of; a full buffer |
| Live updates (`postgres/listen.go`, `web/live.go`, `live.js`) | listening connection, hub, inboxes, streams, pages | notify, reconnect, poll, resume, refresh | lost notifications, full inboxes, broken streams |
| Repository operations (`repo/operations.go`, `internal/push`, `git/transaction.go`) | `repository_operations`, Git refs and receipts, `pushes`, ref index | intent, Git step, record; replay, reject, abandon; quarantine | two stores commit one after the other; a crash in between |
| Push hook and settings (`push/receive.go`, `repo/service.go`) | `ref_rules`, `repo_readers`, `repos` | push a batch, delete a ref, start a run, change rules, access and default branch | settings read one query at a time while others change them |
| Ref rules (`repo/rules.go`, `git/refs.go`), pipeline file (`ci/pipeline.go`) | none | match, pick the most specific, resolve a target, plan a run | precedence, early exits |
| Authentication (`internal/auth`, `web/auth.go`) | `people`, `sessions`, `access_tokens`, generations, limiter | sign in, change, reset, revoke, disable, demote | credentials created while revoked; the last admin; attempts at once |
| Admission and backup (`postgres/maintenance.go`) | `instance.maintenance`, advisory locks | admit, switch, snapshot lease | a mutation admitted before the switch |
| Retention (`ci/retention.go`, `repo/retention.go`) | ages of rows | delete old runs, workers, deployments | rows that recovery still needs |
| Git access, web pages, activity feed, configuration | the pool of object readers | queries, rendering, process calls | - |

The components meet in few places.  The push hook and the web process create
runs in the transaction that completes a repository operation; the claim
refuses repositories with an unfinished operation; deleting a repository
requires that none of its runs, containers or owned targets is left; workers
reach the rest of the system only through `ci.Service`; a claim also needs the
pipeline's images in the list the worker read before it; a Run page follows the
rows that workers write.

What makes each one correct is listed, per line, under "hazards" in
`PROJECT.json` with the properties that would catch it going wrong.

## 2. Modules

| Module | What it is |
|---|---|
| `CIStore` | the run queue of one repository; one action per transaction of `ci.Service` |
| `Execution` | workers, Docker engines, locks, workspaces and faults on top of `CIStore`; implements `CIStore!Spec` |
| `Images` | one Docker host: its image lock, image operations, prunes and the runs that need images |
| `Redact` | the terminal-escape filter and the secret matcher, byte by byte |
| `LogFeed` | the abstract feed a reader of a step's log relies on |
| `StepLog` | the log writer and `AppendLog`, on top of `Redact`; implements `LogFeed` |
| `LivePage` | notifications, hub, event stream and browser page, on top of `LogFeed` |
| `RepoJournal` | changes of one repository in Git and in the database: the journal, recovery, abandoning, admission and backup |
| `RefPolicy` | patterns, rules, targets and the plan of a run, as operators |
| `PushPolicy` | pushes of batches, settings and manual starts, on top of `RefPolicy` |
| `Accounts` | people, credentials and the sign-in limiter |
| `MC...` | instances of the modules for TLC |
| `..._proofs` | the theorems about a module, one for each but `Redact`, `LogFeed` and `RefPolicy`, which are reached through the modules that use them |

`Execution` composes with `CIStore` by taking its transactions as steps.
`StepLog` and `LivePage` compose through `LogFeed`: the first is shown to
implement it, the second takes its actions as what the rest of the system does
to the log.  `PushPolicy` says which runs a push makes, `RepoJournal` that they
are made exactly when Git changed, `CIStore` what becomes of them.

### CIStore: the database

A variable is a table (`runs`, `steps`, `targets`, `deployments`, `workers`), a
column (`counter`, `maintenance`) or, for `op`, the repository's one unfinished
row of `repository_operations`.  Each action is one transaction, with the
transaction's `WHERE` clauses and early returns as its guard.  That one
transaction is one step is justified by the row locks the code takes: every
statement that decides something either locks the row it decides on (`FOR
UPDATE`, or an `UPDATE ... WHERE` whose condition PostgreSQL re-evaluates after
waiting) or is serialised by the repository's lock.  Manual starts and pushes of
one repository are serialised by the Git mutation lock and `AdmitMutation`;
`allocateRunNumber` locks the repository's row before runs are superseded.

`Next` lets any client call any transaction in any order.  Nothing assumes that
workers behave, so the invariants hold for late, repeated and stray calls.

Data is reduced to what the properties distinguish: a pipeline is a `Plan` (is
it refused, which target does its ref resolve to, which steps apply), exit code
1 stands for every failing code, ages are `fresh`, `late` (over
`WorkerReadyAfter`) and `lost` (over `WorkerLostAfter`), and a run's deadline
has passed or not.  Left open, as a choice: which queued run a worker gets,
which rows a reaper skips because they are locked, which rows are old enough
for retention.  A repository is modelled alone and a push updates one ref.

### Execution: the workers

`proc` is a worker's main loop (`drain`, `recoverExecutions`, `handle`,
`execute`, `run`, `runStep`), `clean` its cleanup goroutine, `link` its
connection and heartbeats.  `box`, `lock` and `ws` are the containers, the lock
files and the workspaces of each host.  Every database call is an action of
`CIStore` taken inside `Call`, which answers, fails, or commits and loses its
answer; `RunCall` is a call under the run's context, which fails once that has
ended.  A Docker call may do its work and fail.  `Crash`, `Shutdown`, `Cut`
(the connection to the database is lost), `DiskBudget` (`monitorDisk` stops the
run), `Release` and `CancelRun` are faults, bounded together by `MaxFaults`.

Time appears as assumptions about orders, each taken from a constant of the
code.  `Punctual`: a connected live worker sends its heartbeat (every 10
seconds) before anything that takes a minute.  `Age`: a cleanup pass
(`dutyTimeout`, 20 seconds) ends before a worker that reported at its start is
lost.  `Mature`: five minutes do not pass between a query of
`recoverExecutions` and the check after it.

Abstractions: the containers and workspaces a cleanup pass lists are read in one
step; the host's image lock is in `Images`; `gitman admin worker cleanup` is the
same pass without a worker; retention, deletion and maintenance are left to
`CIStore`.

### Images: one host's images

`host` and `dangling` are what `docker image ls` lists, `containers` what
`docker ps -a` refers to, `published` the host's row of `image_hosts`,
`operations` the image rows of `repository_operations` with their leases.
`shared` and `exclusive` are the two sides of the file lock: a run loop takes
the shared one before it claims and keeps it until `handle` returns, the image
duties try the exclusive one and never wait.  `loop` and `duty` are the program
counters of a worker's two goroutines.

An operation is planned by an administrator from the published inventory, leased
by a worker (or taken over from one that stopped, is silent or took over 30
minutes), planned again from facts and an inventory read under the lock, and
carried out one removal at a time.  A prune after a deployment or on low disk
takes the same steps without a row.  Faults: a crash, a shutdown, failed reads,
failed removals, a result that was not recorded, maintenance.

Abstractions: one repository builds images, its tags are versions, an image ID
is a number that grows with each build; references by digest, sizes and the
layers of the build cache are left out.

### Redact, StepLog, LogFeed: a step's output

`Redact` translates `ansiStripper` and `redact.Stream` state by state, and says
next to them what they should compute: `Stripped` and `Masked`, definitions over
the whole output.  `StepLog` puts `logWriter` on top: two writers (the step and
Gitman's notes) under the mutex, `waitForRoomLocked`, the cap, the flusher that
sends the same chunk again until it is stored, `AppendLog` whose transaction may
commit before or after the flusher gave up on it (`late`), and `Close`.
`DropsAccounted` uses the counts the writer keeps.  `LogFeed` is what a reader
relies on: chunks are numbered without a gap, never change and are not added
after the run ended.

### LivePage: a page that follows a run

`wire` is PostgreSQL's queue to the listening connection, `stream` the server's
side of the page's event stream with its inbox, `events` what is in flight to
the browser, `page` the state of `live.js`.  A notification is lost while the
listener reconnects, when the inbox is full, and with a stream that breaks.
Against that stand `notify("")` after a reconnect, `missed`, the poll, the
`from` parameter of a resumed stream and the page's own refresh.  The log itself
only takes steps of `LogFeed`.

### RepoJournal: two stores, one journal

`ops` is the table `repository_operations`, `repo` the repository's row and ref
index, `git` its directory with HEAD, refs and the receipts under
`refs/gitman/`.  An actor is a goroutine or a process: a request or push hook
inside `WithMutation`, a pass of `RecoverOperations`, an operator's command.
Its `pc` names the next call it makes that can fail or be seen by others; a
process that dies is several actors that crash one after the other.  `lock` is
the file `MutationLock` locks, `shared` the advisory locks of `AdmitMutation`
as the database sees them, `backup` the command that dumps and archives.

A push is `recoverPush` from its first query of the receipt to the transaction
of `recordPush`; live pushes and replays take the same steps.  The other
operations are the two halves of `applyRepositoryOperation`.  `Call` is a call
that succeeds, fails, or does its work and fails.  The faults are a crash, a
git command that outlives its process (`Orphan`, then `LateUpdate`), failed
database and git calls, refs moved without Gitman, and an operator who abandons;
they are bounded together by `MaxFaults`.

`changed` and `touched` are history: which operations changed Git, and whether
somebody else did since the index was last synchronised.

Abstractions: creating and deleting a directory is one step (both are renames;
what an interrupted one leaves in the temporary directory is left out), names,
validation, access, Git pins and the quiescence a delete asks for are left out
(the last is in `CIStore`), a push updates one ref, the runs and the push rows
it inserts commit with its completion and are in `CIStore`.  Only `update-ref`
outlives its process.  One assumption about time: no git command runs as long
as retention keeps a completed operation (`PruneOp`).

The order in which a backup reads is the code's, database first; the archive of
one repository is one step.  The connection that holds an admission lock is
assumed to live as long as its mutation.

### RefPolicy and PushPolicy: who may push what

`RefPolicy` translates `MatchPattern`, `MoreSpecific`, `SelectPattern`, the
choice of a rule, the checks of `ci.Parse` on targets and steps, and `planRun`.
`Applies` is written beside them as the documents say it: the most specific
pattern that matches, and `Matches` says what matching is: the name can be cut
so that each character of the pattern has its piece of it.  Names and patterns
are sequences of characters, ordered by their bytes (`Code`).

`PushPolicy` has the rows (`rules`, `repo`, `readers`, `disabled`), the refs,
the mutation lock and one push or request per person.  `ApplyPush` loads its
context twice (once in `ValidatePush`, once for the records), and a load is
three queries that settings can change between; each is an action.  Batches are
validated as a whole, against the refs as listed, with conflicts between their
own names.  `Start`, `SetDefaultBranch` and the deletion of a ref from a page
are actions too.

### Accounts: people and credentials

`people`, `creds` (sessions and tokens) and `entries` (the limiter) are the
state; `request` is what a web request or an admin command has read and not yet
written.  One statement that others can come between is one action:
`allow`, then bcrypt against the row read, then the insert of the session, then
its commit; `CheckCurrentPassword`, then the change; `lockEnabledAdmins` with
its snapshot, then the change it guards.  `proof`, `revoked` and `guesses` are
history.

## 3. Runs

| Run | States | What it asks |
|---|---|---|
| `store_runs` | 347,000 | any order of transactions over one run with every kind of plan, and over two that deploy to one target: `IInv`, the budget, finality, ownership, newer deployments |
| `exec_crash` | 241,000 | a build step before the deploy step, two faults out of crash, shutdown, failed or lost database call, Docker failure, full disk, cancellation, the operator's release; no cleanup passes |
| `exec_two` | 318,000 | two hosts that race for one target, one of which also cleans up and is cut off or told to stop |
| `exec_live` | 56,000 | liveness, with cleanup passes and a crash or a Docker failure |
| `journal_life` | 1,184,000 | create, push, default branch and delete with crashes, failed calls, outside changes and abandoning |
| `journal_live` | 456,000 | liveness, git commands that outlive their process, and backups at any moment |
| `images_host` | 889,000 | two workers, two runs, builds, removals and prunes, and a crash |
| `images_live` | 172,000 | liveness of operations and runs, one fault of any kind |
| `log_write` | 188,000 | two writers, escapes and secrets, a cap, a full buffer, two faults |
| `live_follow` | 370,000 | a page through two faults of any kind |
| `accounts_people` | 669,000 | two requests at once over two people |
| `policy_push` | 430,000 | two people push batches while one setting changes |

Some invariants are conjunctions of named parts, one idea each: `IInv`,
`ExecSafe` (types; containers can be traced from the rows; what a process knows
of the others' work is so; a script runs only while its step owns its target; a
target stays owned while a container may run; what was started is on record; a
workspace stays under a running script), `JournalSafe` (types; what is recorded
as done was done; rows and directory agree when nothing is pending, and else
differ by the pending operation), `ImagesSafe` (types; a run keeps the images it
was checked to have; one executor per operation), `LogSafe` (types; stored in
order and once; every dropped byte is counted), `PageSafe` (shown in order, and
what was sent continues what is shown), `AccountsSafe` (no stale credential;
attempts are counted), `PushSafe` (a validated batch still holds what was
validated; names are distinct).  Beside the parts a user would ask for they
contain the ones an induction needs (section 5), so that TLC looks for a
counterexample to each before it is proved.  `exec_crash` has no
cleanup passes and loses no connection, so before it was proved `ExecSafe` was
also checked on the constants of `exec_live`, and `Traced` on those of `exec_two`
and on one host with two workers that are cut off, crash and are told to stop.

Bounds.  Two runs are what a conflict on a target, supersession and a budget of
one need; one target and one step per run suffice because targets
and steps only interact through ownership.  The `Bound` constraint of
`MCCIStore` holds still in one kind of run what the other explores.  `OneAtATime` of
`MCExecution` has a cleanup pass meet one run while two hosts race; a pass
beside deadlines is in `exec_live`.  Two workers are a
worker and whoever recovers it; two faults are a failure and a failure while
recovering from it.  In `RepoJournal` two actors are a mutation and whoever
recovers or races it, two operations are two that conflict, three faults are
what an abandoned operation takes (it fails, recovery fails, the operator comes),
and `NoBackup` leaves backups to `journal_live`.  In `Images` one operation, two
runs and two versions are a plan, a build that makes it stale and a claim that
needs what it names; a facts limit of one is reached.  In `StepLog` secrets that
overlap themselves and each other, one of them beginning like an escape, with
five bytes cut into chunks of two against a buffer of three and a cap of four
reach every limit.  In `LivePage` an inbox of one is full with the second
notice.  In `Accounts` limits of one are reached by the second attempt, and two
credentials with one owned at most make the second push out the first.
`MCPushPolicy` lists its rules, batches and pipelines and why they are there.
Actors, commits, workers, requests and credentials are symmetric where only
invariants and action properties are checked.

Deadlock is checked where it means something.  The others say
`CHECK_DEADLOCK FALSE`: all workers may be gone and a worker ID never comes
back, a log is closed, a run has ended and been shown, or the bound on
operations is spent.

Fairness.  `Execution` (`exec_live`): every goroutine of a live process goes on,
heartbeats are sent, time passes, a lost connection comes back, submitted runs
arrive (strong fairness only for `Mature`, which pauses while recovery is
between its query and its check), and there is a worker that is not frail, the
restarted process that the service manager provides.  No fairness is assumed of
scripts: a run ends because its deadline passes.

`RepoJournal` (`journal_live`): what an actor has begun goes on.  A pass of
recovery starts every thirty seconds and tries for fifteen to get a lock that
others hold for moments; that it finds the lock free again and again and in the
end gets it is strong fairness, of passes together and not of each actor.

`Images` (`images_live`): loops and timers go on, maintenance ends.  The
exclusive lock is only ever tried, at a tick; strong fairness of
`ClaimImageOperation` says that if the host is idle again and again, some try
meets such a moment, and `OperationsEnd` is stated under that condition, because
nothing in the code keeps claims on a busy host from overlapping for ever.

`StepLog`: the flusher's ticker runs, a call is answered once faults are spent,
a woken writer runs.  `LivePage`: the listener reconnects with its backoff, the
poll ticks, the browser retries its stream; nothing makes a run produce output
or end.

Each property has a mutant, a plausible mistake in a mapped definition
(`Mut...`), under which TLC reports the property violated; the conjunctions
have several, one per part that matters.

## 4. Refinements

`StoreSpec` (`exec_crash`): every step of a worker is a transaction of `CIStore`
or leaves the tables alone, so what is proved of `CIStore` holds of the system
with real workers, whatever fails.  TLC checks it, and `StoreImplemented` proves
it for every instance.

`ImplementsFeed` (`log_write`): the chunks in the table, `StoredLog`, implement
`LogFeed!FeedSpec`; the refinement maps the feed's `log` to the chunks in the
order of their numbers.  An insert that commits after its caller gave up must
not appear twice, out of order, or after the run's end.  This too is proved, as
`FeedImplemented`.

`Masked(Stripped(written))` in `SecretsMasked` is the definition that the byte
by byte filter and matcher are checked against, over every output up to
`MaxBytes` and every way to cut it; `Applies` is the one for `SelectPattern`,
over every order of the rows, and is proved to be what `MatchPattern` and
`SelectPattern` compute.

## 5. Theorems

The theorems hold for every value of the constants: any number of runs, workers,
hosts, people, operations, refs, bytes, faults.  What is assumed of constants is
in the `ASSUME` of each module and is evaluated in every run: numbers are
numbers, null values are not names, a plan never applies a deploy step where no
target resolves (`ci.Parse` ensures it, and `DeploysHaveTargets` proves it), limits
are not zero where the code's are not, a set that is counted is finite, no two
characters have the same byte, rows saved before have distinct keys.

Each component has one inductive invariant, checked by TLC in its run before it
was proved.  Its proof has a lemma per action or per kind of action, and the
action properties follow from it step by step.

| Theorem | Says | Rests on |
|---|---|---|
| `CIStore_proofs!StoreInvariant` | `IInv` | itself inductive |
| ... `QueueBounded` and the five about steps | pending budget; results and receipts final; ownership handed over; newer deployments stay; deploys recorded | `IInv` |
| `Execution_proofs!StoreImplemented` | `StoreSpec`: the workers implement the run queue | `IInv`, `ExecInv` |
| ... `QueueInvariant`, `RunsExecutedOnce`, `WorkspacesFenced`, `ContainersLocked` | the queue's invariant under real workers; one worker per run; nothing touches a workspace or container of a run without its lock | the same |
| ... `ContainersTraced` | `Traced`: containers and workspaces are on their run's host, planned, and recorded by ID once started | the same, itself inductive |
| ... `ExecutionSafe`, `ScriptsOwnTargets`, `StartsRecorded`, `ExitsRecorded` | `ExecSafe`, `ScriptOwnsTarget`, `StartedRecorded`, `ExitsKept`, for executions in which `InTouch` and `StopsApart` hold | `IInv`, `ExecInv`, `Knowledge` |
| ... `ShelteredSafe` | `ExecSafe` and `ExitsKept` for constants that are `Sheltered` | the same, `Calm` |
| `RepoJournal_proofs!JournalInvariant` | `JournalSafe` | itself inductive |
| ... `OutcomesFinal`, `PushesAppliedOnce` | an outcome is never rewritten; a ref moves once for a push | `JournalSafe` |
| ... `BackupsConsistent`, `QuietBackupsConsistent` | dump and archive of a completed backup agree | `BackupKept` |
| `Images_proofs!ImagesInvariant` | `ImagesSafe` | itself inductive, and some run is stored |
| ... `OnlyPlannedGoes`, `PruneLeavesTheNewest` | removals were planned; a prune spares what is needed and the newest | `ImagesSafe` |
| `StepLog_proofs!MaskedAlways` | `SecretsMasked` | `MaskInv` |
| ... `LogAlwaysSafe`, `FeedImplemented` | `LogSafe`; `ImplementsFeed` | `FeedInv`, `OrderInv`, `DropInv` |
| `LivePage_proofs!OutputInOrder` | `PageSafe` | itself inductive |
| `Accounts_proofs!AccountsInvariant`, `GuessesStayBounded`, `AnAdminRemains` | `AccountsSafe`, `GuessesBounded`, `AdminRemains` | `AccountsSafe` |
| `PushPolicy_proofs!MatchPatternRight` | `MatchPattern` is `Matches`, for all patterns and names | no state |
| ... `RulesFound` | `RuleFound` | `Saved(rules)` |
| ... `PushesValid`, `DefaultBranchKept` | `PushSafe`, `DefaultBranchStays` | `PushSafe` |
| ... `PushesAuthorized`, `DeploysHaveTargets` | `PushAuthorized`, `DeployHasTarget` | `PushSafe`, `Saved(rules)`, `TargetsFound` |

Why the invariants are what they are.

- *Run queue.*  That a target's owner is a deploy step without a receipt whose
  worker is known (`OwnerConsistent`) needs that receipts settle steps and
  generations belong to started steps (`ReceiptShape`), that only a claimed run
  has started steps (`StartedClaimed`) and that a running run's worker row stays
  (`RunningAccounted`); deletion finds nothing running (`DeleteQuiesced`) only
  because only started steps have containers; at most one run of a ref is
  queued because numbers above the counter are unused (`Unborn`).  Most
  transactions only shrink what can go wrong or advance one step, so two
  lemmas (`ShrinkKeeps`, `GrowKeeps`) carry most cases.
- *Workers.*  `ExecInv` ties program counters to the rows and locks they rest
  on: a worker that executes was handed its run, which ended or is still
  running and so is never claimed again.  `Traced` needs what an executor has
  written before it creates and starts a container (`Prepared`), and that no
  transaction takes it back.  That a script owns its target is a statement about
  four processes and a database: the executor that started it, recovery, a
  cleanup pass and the reaper may each release the target.  `Knowledge` says
  what each of them knows.  `Accounted`: how an engine and the rows agree.
  `ExecutorKnows`: the executor's run has no container and no target but those
  of the current step.  `RecoveryKnows`: recovery listed all that runs of the
  runs it works on, and nobody else starts more.  `PassKnows`: while a pass
  finds out what to remove, whatever runs and was not listed belongs to a run
  that is still running and whose worker is not gone, so that nobody ends the
  run before the query.  `RowsTrue`: worker rows tell who lives.  A step that
  neither deploys, creates nor starts is `Careful`, which is enough for
  `Accounted`; the three that do (`Rising`) are an executor's on its own run.
- *Journal.*  Who holds the lock works on an unfinished operation and knows
  whether Git changed for it (`WorkUnderLock`); a receipt is there exactly for
  a push that changed Git, as long as anybody asks (`ReceiptsTell`); rows and
  directory differ by what the one unfinished operation has done so far
  (`DifferByOne`).  The last three parts are stated for executions in which no
  git command outlives its process (`InTime`), which section 6.3 shows to be
  needed; the rest, and `PushesAppliedOnce`, need no such condition.
- *Images.*  A run loop holds the shared side of the lock from before its claim
  to the end of `handle` (`HostLock`); what is still to be removed is a part of
  the plan and older than the tags to keep, through builds and removals that
  each change the host (`TodoSpares`, with the kept tags as a witness).
- *Step log.*  `MaskInv` says that the redactor has given out the masked text
  up to what it holds back, that its node is the longest end of the text that
  begins a secret, and that no byte it gave out in the clear can still become
  part of one; closing gives out the rest.  `FeedInv` says
  which chunks a late commit may still insert: the one being sent, or one that
  is stored already.  `OrderInv` and `DropInv` are the equation that accounts
  for every accepted and dropped byte among rows, unsent chunk, buffer and
  waiting writers.
- *Live page.*  What is on its way to a page continues what it shows
  (`SentContinues`), and a stream that is accepted finds nothing of an earlier
  one on its way.
- *Accounts.*  A generation counts its person's revocations, and equals the
  proof of what was read with it (`GenerationsCount`); admins that a
  transaction holds stay admins (`HeldStayAdmins`); attempts are counted before
  they are compared (`AttemptsCounted`).
- *Push policy.*  Under the lock only settings can change between what a push
  reads and what it does (`LockHeld`, `ReadsHold`), so what was validated is
  still valid (`StaysValid`).
- *Patterns and rules.*  `Reach(pattern, name, i, j)` says that the first `i`
  characters of a pattern can stand for the first `j` of a name; the greedy
  search of `MatchPattern` always knows the first such `j` up to the piece it
  looks for (`Knows`, `AfterKnows`), which is why the first occurrence is as
  good as any.  `MoreSpecific` is a strict total order on patterns, so what
  `SelectPattern` keeps of the patterns so far (`Best`) is the best of all of
  them, and its early stop at an exact match is sound; with one row for a kind
  and a pattern (`Saved`) the order of the rows does not matter.  What a person
  asked to run waits for the lock with the target it was given, so
  `TargetsFound` speaks of waiting requests too.

Two groups of theorems have hypotheses about executions.

`BackupsConsistent` is about executions in which no operator gave up an
operation that writes no receipt and nobody moved refs behind Gitman's back
(`Undisturbed`); `QuietBackupsConsistent` derives that from the set of faults.

`ExecutionSafe` and the three after it are about executions in which the
heartbeats of live workers arrive in time (`InTouch`), and no worker stops,
leaving a run to others, while another worker's cleanup pass is under way on its
host (`StopsApart`).  Neither is enforced by the code, and both are needed:
section 6 shows what happens without the first (1 and 2) and without the second
(2, `RemoveLeftovers`).  They leave open everything else: crashes at any point,
failed and lost calls of the database and of Docker, full disks, cancellations,
deadlines, releases by the operator, and any number of hosts and workers.
`ShelteredSafe` derives both from constants alone: no connection is lost
(`"cut"` is not a fault), and a worker that may be told to stop shares its host
with no other worker that cleans up.  The constants of `exec_crash` and
`exec_live` are `Sheltered`, those of `exec_two` are not.

The prover cannot unfold recursion or instantiate an induction schema.  Where a
proof needs what a recursive function of the community modules computes
(`FlattenSeq`, `FoldLeft`, `FoldFunction` in `StepLog` and `RefPolicy`), the
proofs show that the function they choose exists and satisfies its equation, and do
induction over sets of numbers: a set without the number in question has no
least such number (`NatLeast`, from the well-founded order on the naturals).

Only model-checked:

- liveness (`RunsEnd`, `TargetsFreed`, `LeftoversGo`, `OperationsFinish`,
  `OperationsEnd`, `RunsStart`, `OutputMoves`, `ChangesShown`, `OutputShown`),
  which is out of the prover's reach;
- `ScriptOwnsTarget` and `StartedRecorded` where a connection is lost
  (`exec_two`).  They do not hold of every such execution (section 6), and where
  they do they rest on how long a cleanup pass takes.

## 6. Where the code and its documents disagree

Three behaviours of the models contradict what a comment or a document says.
The runs above keep them out by the faults they combine; each is found by TLC
in seconds when its instance is put back.

1. `ci/deploy_owner.go:84`.  A worker is cut off for over five minutes while its
   deploy script runs, and its run is failed as lost.  When it returns, its
   receipt meets a settled step and returns before the release; the container
   is then removed and confirmed.  The target stays owned by a run that ended,
   with no container left for recovery to find, and the exit code is lost.
   `docs/ci/configuration.md:142` says "Ownership persists until termination is
   confirmed", and the comment at `ci/deploy_owner.go:64` says
   "finishRecordedStep commits the step receipt, any explicit deployment, and
   target release together".  Instance: `Execution`, `OwnedUntilRemoved`, one
   host and step, `Faults = {"cut"}`, `Frail = {w1}`, `MaxFaults = 1`.
2. `worker/worker.go:585`.  Recovery lists runs and containers before it locks
   each run.  A worker with a late heartbeat that starts a deploy in between and
   then dies has its target released while the script runs.  README.md:339 says
   "Recovery confirms termination before releasing deployment ownership".
   Instance: `Execution`, `ScriptOwnsTarget`, one host and step,
   `Faults = {"cut", "crash"}`, `MaxFaults = 2`.  `RemoveLeftovers`
   (`worker/worker.go:498`) has the same order: it lists containers, then the
   running runs, and its comment says "A run claimed in between has nothing
   listed yet, so nothing belonging to a live run is ever removed".  A pass that
   lists a run's workspace may miss the container of its deploy step, which
   starts a moment later.  If its worker is then told to stop and Docker fails to
   stop the container, the run is left to the reaper; the query finds the run
   ended, nothing is listed to be stopped, and the target is released while the
   script runs.  Instance: as above with
   `Faults = {"docker", "shutdown"}`, `Cleaners = {w2}`, `Frail = {w1}`.
3. `push/proc.go:174`.  A hook dies while its `git update-ref` runs.  Recovery
   finds no receipt, the command then commits, and recovery finds the ref moved
   and rejects the push that moved it: no push and no run is recorded.  The
   comment at `repo/operations.go:103` says "RejectOperation finishes an intent
   that provably did not change Git".  Instance: `RepoJournal`,
   `CompletedTruthfully`, `Kinds = {"push"}`, `Refs = {main}`,
   `Commits = {c1, c2}`, `Faults = {"crash", "orphan"}`, `MaxFaults = 1`.

Seen in the code while modelling, and built into the models where they touch
what is modelled:

- `afterRun` wants the exclusive host lock for its prune while `handle`'s caller
  still holds the shared one (`worker/worker.go:266-286`), so with the policy
  `after-deploy` that try never succeeds; low disk and queued operations do the
  work.  `docs/operator/docker.md:90` describes a prune after a deployment.
- `lockEnabledAdmins` locks the rows its snapshot found.  A person promoted after
  the snapshot is not locked and can be demoted at the same time, so the guard
  can let the last two admins go (`auth/store.go:63`); `AdminRemains` states
  exactly that exception.
- `ApplyPush` validates with one load of the settings and makes its records from
  a second (`push/proc.go:111`, `117`), and each load is several queries.  A push
  during which settings change may be judged by a mixture; `PushAuthorized` is
  about pushes during which none does.
- `live.js` closes its stream when the run ends and asks for the page once: the
  last output may show only in that answer, and a failed one is not tried again.
  `ChangesShown` and `OutputShown` say so with `page.failed` and `running`.
- `ClaimNext` matches pipelines with the image list read before the host lock
  was taken, so a claimed run may lack an image; the executor checks again and
  fails the run.  `ReadFacts` may also be older than a run that was queued since.
- Refs moved from outside after Git applied a push leave its recovery waiting for
  an operator; `touched` marks it.
- Only pushes write a receipt, so abandoning any other operation does not prove
  that Git is unchanged (`repo/operations.go:110` says it does); the same comment
  leaves the repair to the operator.
- Admission is a session lock (`postgres/maintenance.go:52`): if its connection is
  lost the mutation goes on, and a backup no longer waits for it.
- A manual start reads its ref before it queues the run: a run of a ref that was
  deleted in between is queued.
- A note about bytes that could not be stored is placed where the writer noticed,
  which may be after later output; `DropsAccounted` counts and does not place.

An operator who releases a lost worker (`ci/worker_release.go:23`) states that
its host is gone; what follows if it is not is no disagreement.

## 7. Not modelled

Pages and their handlers, configuration, diagnostics, migrations, the activity
feed (rows inserted by modelled transactions, and queries over them): no state
of their own that steps of several actors can bring out of order.  Git's and
Docker's own correctness, PostgreSQL's isolation (each statement of a READ
COMMITTED transaction sees what committed before it) and the kernel's file
locks are taken as they are documented.  Also left out: run summaries and
worker readiness, YAML decoding, UTF-8 repair of logs, Git pins and leftovers of
interrupted directory moves, duplicate refs and no-op updates in one batch,
restoring a backup, and the pool of object readers (`git/repository.go:477`),
which is the next candidate: `forget` takes a reader off its books before the
process has closed, so the limit on processes can be passed for a moment.

## 8. What is left to prove

Every safety invariant and action property that a run checks is stated by a
theorem, some under the conditions named above.  Two things are left.  Where a
connection is lost, `ScriptOwnsTarget` may hold of executions that `InTouch`
excludes: a worker whose heartbeats are late but who is not given up, or one
alone on its host.  To prove that, `PassKnows` and `RecoveryKnows` would have to
say how old each listing is.  And `ExitsKept` under lost connections, which no
run checks.
