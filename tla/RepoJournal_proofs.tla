------------------------- MODULE RepoJournal_proofs -------------------------
(***************************************************************************)
(* Theorems about RepoJournal, for any actors, refs, commits, kinds of     *)
(* operations and faults, however many there are.                          *)
(***************************************************************************)
EXTENDS RepoJournal, TLAPS

----------------------------------------------------------------------------
(* What is stored: rows, directory and commands.                           *)

DataTypes ==
  /\ ops \in [OpIDs -> Operation] /\ repo \in Row /\ git \in Directory
  /\ changed \subseteq OpIDs /\ touched \in BOOLEAN
  /\ late \in [OpIDs -> {"no", "running", "ended"}]

StoresSafe == CompletedTruthfully /\ StoresAgree /\ DifferByOne

\* What JournalSafe says of it, whoever works on it.
DataSafe == DataTypes /\ OneUnfinished /\ ReceiptsTell /\ (InTime => StoresSafe)

\* Nothing stored changes.
LEMMA DataStays ==
  ASSUME DataSafe, UNCHANGED data, UNCHANGED late
  PROVE  DataSafe' /\ (InTime' <=> InTime)
<1>1. DataTypes'
  BY DEF DataSafe, DataTypes, data
<1>2. OneUnfinished' /\ ReceiptsTell'
  BY DEF DataSafe, OneUnfinished, ReceiptsTell, PendingOp, data
<1>3. InTime' <=> InTime
  BY DEF InTime
<1>4. StoresSafe => StoresSafe'
  BY DEF StoresSafe, CompletedTruthfully, StoresAgree, DifferByOne, Agree, GivenUp, Pending,
         PendingOp, Done, Dropped, data
<1>. QED BY <1>1, <1>2, <1>3, <1>4 DEF DataSafe

\* An operation's row is written.
LEMMA OpSet ==
  ASSUME DataTypes, NEW o \in OpIDs, NEW row \in Operation, ops' = [ops EXCEPT ![o] = row]
  PROVE  /\ ops' \in [OpIDs -> Operation] /\ ops'[o] = row
         /\ \A q \in OpIDs : q # o => ops'[q] = ops[q]
BY DEF DataTypes

\* An operation is completed, with or without an error.
LEMMA OpCompleted ==
  ASSUME DataTypes, NEW o \in OpIDs, NEW failed \in BOOLEAN, Complete(o, failed)
  PROVE  /\ ops' \in [OpIDs -> Operation]
         /\ ops'[o].status = "completed" /\ ops'[o].failed = failed
         /\ ops'[o].intent = ops[o].intent
         /\ \A q \in OpIDs : q # o => ops'[q] = ops[q]
<1> DEFINE row == [ops[o] EXCEPT !.status = "completed", !.failed = failed]
<1>1. ops[o] \in Operation
  BY DEF DataTypes
<1>2. /\ row \in Operation /\ row.status = "completed" /\ row.failed = failed
      /\ row.intent = ops[o].intent
  BY <1>1 DEF Operation
<1>3. ops' = [ops EXCEPT ![o] = row]
  BY DEF Complete, DataTypes
<1> HIDE DEF row
<1>. QED BY <1>2, <1>3, OpSet

\* An intent is begun where rows and directory agree.
LEMMA BeginData ==
  ASSUME DataSafe, NEW o \in OpIDs, ops[o].status = "none", NEW i \in Intent,
         MayBegin(i), ~Pending,
         ops' = [ops EXCEPT ![o] = [status |-> "pending", intent |-> i, failed |-> FALSE]],
         UNCHANGED <<repo, git, changed, touched, late>>
  PROVE  DataSafe'
<1>1. /\ ops' \in [OpIDs -> Operation]
      /\ ops'[o].status = "pending" /\ ops'[o].intent = i
      /\ \A q \in OpIDs : q # o => ops'[q] = ops[q]
  BY OpSet DEF DataSafe, Operation
<1>2. DataTypes'
  BY <1>1 DEF DataSafe, DataTypes
<1>3. \A q \in OpIDs : ops[q].status # "pending"
  BY DEF Pending, PendingOp
<1>4. i.kind = "create" => \A q \in OpIDs : ops[q].status = "none"
  BY DEF MayBegin
<1>5. OneUnfinished'
  BY <1>1, <1>3, <1>4 DEF OneUnfinished, PendingOp
<1>6. o \notin changed /\ late[o] = "no"
  BY DEF DataSafe, ReceiptsTell
<1>7. ReceiptsTell'
  BY <1>1, <1>3, <1>6 DEF DataSafe, ReceiptsTell, PendingOp
<1>8. GivenUp <=> GivenUp'
  BY <1>1 DEF GivenUp
<1>9. ASSUME InTime
      PROVE  StoresSafe'
  <2>1. CompletedTruthfully'
    BY <1>1, <1>9 DEF DataSafe, StoresSafe, CompletedTruthfully, Done, Dropped
  <2>2. StoresAgree'
    BY <1>1 DEF StoresAgree, Pending, PendingOp
  <2>3. ~GivenUp => Agree /\ Agree'
    BY <1>9 DEF DataSafe, StoresSafe, StoresAgree, Agree
  <2>4. ASSUME NEW q \in OpIDs, ops'[q].status = "pending"
        PROVE  q = o
    BY <1>1, <1>3, <2>4
  <2>5. DifferByOne'
    BY <1>1, <1>6, <1>8, <2>3, <2>4 DEF DifferByOne, PendingOp, MayBegin, Agree, Intent, AllKinds
  <2>. QED BY <2>1, <2>2, <2>5 DEF StoresSafe
<1>10. InTime' <=> InTime
  BY DEF InTime
<1>. QED BY <1>2, <1>5, <1>7, <1>9, <1>10 DEF DataSafe

\* An intent is completed that Git was changed for, and the rows brought to
\* what Git has.
LEMMA RecordData ==
  ASSUME DataSafe, NEW o \in OpIDs, PendingOp(o), ops[o].intent.kind = "push", o \in changed,
         Complete(o, FALSE), repo' = [repo EXCEPT !.index = Synced], touched' = FALSE,
         UNCHANGED <<git, changed, late>>
  PROVE  DataSafe'
<1>1. /\ ops' \in [OpIDs -> Operation]
      /\ ops'[o].status = "completed" /\ ops'[o].failed = FALSE
      /\ ops'[o].intent = ops[o].intent
      /\ \A q \in OpIDs : q # o => ops'[q] = ops[q]
  BY OpCompleted DEF DataSafe
<1>2. repo \in Row /\ git \in Directory
  BY DEF DataSafe, DataTypes
<1>3. repo' \in Row /\ repo'.row = repo.row /\ repo'.branch = repo.branch /\ repo'.index = git.refs
  BY <1>2 DEF Row, Directory, Synced
<1>4. DataTypes'
  BY <1>1, <1>3 DEF DataSafe, DataTypes
<1>5. \A q \in OpIDs : ops'[q].status # "pending"
  BY <1>1 DEF DataSafe, OneUnfinished, PendingOp
<1>6. OneUnfinished'
  BY <1>5 DEF OneUnfinished, PendingOp
<1>7. ReceiptsTell'
  BY <1>1, <1>5 DEF DataSafe, ReceiptsTell, PendingOp
<1>8. GivenUp => GivenUp'
  BY <1>1 DEF GivenUp, PendingOp
<1>9. ASSUME InTime
      PROVE  StoresSafe'
  <2>1. CompletedTruthfully'
    BY <1>1, <1>9 DEF DataSafe, StoresSafe, CompletedTruthfully, Done, Dropped
  <2>2. StoresAgree'
    BY <1>3, <1>8, <1>9 DEF DataSafe, StoresSafe, DifferByOne, StoresAgree, Agree
  <2>3. DifferByOne'
    BY <1>5 DEF DifferByOne, PendingOp
  <2>. QED BY <2>1, <2>2, <2>3 DEF StoresSafe
<1>10. InTime' <=> InTime
  BY DEF InTime
<1>. QED BY <1>4, <1>6, <1>7, <1>9, <1>10 DEF DataSafe

\* An intent is rejected or given up; a push, only if Git was not changed.
LEMMA DropData ==
  ASSUME DataSafe, NEW o \in OpIDs, PendingOp(o), Complete(o, TRUE),
         InTime /\ ops[o].intent.kind = "push" => o \notin changed,
         UNCHANGED <<repo, git, changed, touched, late>>
  PROVE  DataSafe'
<1>1. /\ ops' \in [OpIDs -> Operation]
      /\ ops'[o].status = "completed" /\ ops'[o].failed = TRUE
      /\ ops'[o].intent = ops[o].intent
      /\ \A q \in OpIDs : q # o => ops'[q] = ops[q]
  BY OpCompleted DEF DataSafe
<1>2. DataTypes'
  BY <1>1 DEF DataSafe, DataTypes
<1>3. \A q \in OpIDs : ops'[q].status # "pending"
  BY <1>1 DEF DataSafe, OneUnfinished, PendingOp
<1>4. OneUnfinished'
  BY <1>3 DEF OneUnfinished, PendingOp
<1>5. ReceiptsTell'
  BY <1>1, <1>3 DEF DataSafe, ReceiptsTell, PendingOp
<1>6. GivenUp \/ ops[o].intent.kind # "push" => GivenUp'
  BY <1>1 DEF GivenUp, PendingOp
<1>7. ASSUME InTime
      PROVE  StoresSafe'
  <2>1. CompletedTruthfully'
    BY <1>1, <1>7 DEF DataSafe, StoresSafe, CompletedTruthfully, Done, Dropped
  <2>2. ~GivenUp' => Agree
    BY <1>6, <1>7 DEF DataSafe, StoresSafe, DifferByOne
  <2>3. StoresAgree'
    BY <2>2 DEF StoresAgree, Agree
  <2>4. DifferByOne'
    BY <1>3 DEF DifferByOne, PendingOp
  <2>. QED BY <2>1, <2>3, <2>4 DEF StoresSafe
<1>8. InTime' <=> InTime
  BY DEF InTime
<1>. QED BY <1>2, <1>4, <1>5, <1>7, <1>8 DEF DataSafe

\* Git's refs and receipts change together.
LEMMA RefsUpdated ==
  ASSUME DataTypes, NEW o \in OpIDs, UpdateRefs(o)
  PROVE  /\ git' \in Directory /\ git'.dir = git.dir /\ git'.head = git.head
         /\ git'.receipts = git.receipts \cup {o}
         /\ UNCHANGED <<ops, repo, touched>> /\ changed' = changed \cup {o}
<1>1. git \in Directory /\ ops[o] \in Operation
  BY DEF DataTypes
<1>2. git' = [git EXCEPT !.refs = [git.refs EXCEPT ![ops[o].intent.ref] = ops[o].intent.new],
                         !.receipts = @ \cup {o}]
  BY DEF UpdateRefs
<1>3. [git.refs EXCEPT ![ops[o].intent.ref] = ops[o].intent.new] \in [Refs -> Hashes]
  BY <1>1 DEF Directory, Operation, Intent
<1>. QED BY <1>1, <1>2, <1>3 DEF Directory, UpdateRefs

\* An unfinished push is applied.
LEMMA UpdateData ==
  ASSUME DataSafe, NEW o \in OpIDs, PendingOp(o), ops[o].intent.kind = "push", UpdateRefs(o),
         UNCHANGED late
  PROVE  DataSafe'
<1>1. /\ git' \in Directory /\ git'.dir = git.dir /\ git'.head = git.head
      /\ git'.receipts = git.receipts \cup {o}
      /\ UNCHANGED <<ops, repo, touched>> /\ changed' = changed \cup {o}
  BY RefsUpdated DEF DataSafe
<1>2. DataTypes'
  BY <1>1 DEF DataSafe, DataTypes
<1>3. OneUnfinished'
  BY <1>1 DEF DataSafe, OneUnfinished, PendingOp
<1>4. ReceiptsTell'
  BY <1>1 DEF DataSafe, ReceiptsTell, PendingOp
<1>5. GivenUp' <=> GivenUp
  BY <1>1 DEF GivenUp
<1>6. ASSUME InTime
      PROVE  StoresSafe'
  <2>1. CompletedTruthfully'
    BY <1>1, <1>6 DEF DataSafe, StoresSafe, CompletedTruthfully, Done, Dropped, PendingOp
  <2>2. StoresAgree'
    BY <1>1 DEF StoresAgree, Pending, PendingOp
  <2>3. \A q \in OpIDs : PendingOp(q) => q = o
    BY DEF DataSafe, OneUnfinished
  <2>4. DifferByOne'
    BY <1>1, <1>5, <1>6, <2>3 DEF DataSafe, StoresSafe, DifferByOne, PendingOp
  <2>. QED BY <2>1, <2>2, <2>4 DEF StoresSafe
<1>7. InTime' <=> InTime
  BY DEF InTime
<1>. QED BY <1>2, <1>3, <1>4, <1>6, <1>7 DEF DataSafe

\* So may a command be that is late; then nothing is promised but receipts.
LEMMA LateData ==
  ASSUME DataSafe, NEW o \in OpIDs, late[o] = "running", late' = [late EXCEPT ![o] = "ended"],
         IF Updatable(o) THEN UpdateRefs(o) ELSE UNCHANGED data
  PROVE  DataSafe' /\ ~InTime'
<1>1. /\ late' \in [OpIDs -> {"no", "running", "ended"}] /\ late'[o] = "ended"
      /\ \A q \in OpIDs : q # o => late'[q] = late[q]
  BY DEF DataSafe, DataTypes
<1>2. ~InTime'
  BY <1>1 DEF InTime
<1>3. ops[o].status # "none" /\ ops[o].intent.kind = "push"
  BY DEF DataSafe, ReceiptsTell
<1>4. CASE UpdateRefs(o)
  <2>1. /\ git' \in Directory /\ git'.dir = git.dir /\ git'.head = git.head
        /\ git'.receipts = git.receipts \cup {o}
        /\ UNCHANGED <<ops, repo, touched>> /\ changed' = changed \cup {o}
    BY <1>4, RefsUpdated DEF DataSafe
  <2>2. DataTypes'
    BY <1>1, <2>1 DEF DataSafe, DataTypes
  <2>3. OneUnfinished'
    BY <2>1 DEF DataSafe, OneUnfinished, PendingOp
  <2>4. ReceiptsTell'
    BY <1>1, <1>3, <2>1 DEF DataSafe, ReceiptsTell, PendingOp
  <2>. QED BY <1>2, <2>2, <2>3, <2>4 DEF DataSafe
<1>5. CASE UNCHANGED data
  <2>1. DataTypes'
    BY <1>1, <1>5 DEF DataSafe, DataTypes, data
  <2>2. OneUnfinished'
    BY <1>5 DEF DataSafe, OneUnfinished, PendingOp, data
  <2>3. ReceiptsTell'
    BY <1>1, <1>3, <1>5 DEF DataSafe, ReceiptsTell, PendingOp, data
  <2>. QED BY <1>2, <2>1, <2>2, <2>3 DEF DataSafe
<1>. QED BY <1>4, <1>5

\* A process dies while its git command runs.
LEMMA OrphanData ==
  ASSUME DataSafe, NEW o \in OpIDs, PendingOp(o), ops[o].intent.kind = "push",
         late' = [late EXCEPT ![o] = "running"], UNCHANGED data
  PROVE  DataSafe' /\ ~InTime'
<1>1. /\ late' \in [OpIDs -> {"no", "running", "ended"}] /\ late'[o] = "running"
      /\ \A q \in OpIDs : q # o => late'[q] = late[q]
  BY DEF DataSafe, DataTypes
<1>2. ~InTime'
  BY <1>1 DEF InTime
<1>3. DataTypes'
  BY <1>1 DEF DataSafe, DataTypes, data
<1>4. OneUnfinished'
  BY DEF DataSafe, OneUnfinished, PendingOp, data
<1>5. ReceiptsTell'
  BY <1>1 DEF DataSafe, ReceiptsTell, PendingOp, data
<1>. QED BY <1>2, <1>3, <1>4, <1>5 DEF DataSafe

\* The directory that is not there is a directory.
LEMMA NoDirTyped ==
  /\ NoDir \in Directory /\ ~NoDir.dir /\ NoDir.receipts = {} /\ NoDir.refs = NoRefs
  /\ NoRow \in Row /\ ~NoRow.row
<1>1. AnyRef \in Refs
  BY JournalConstantsOK DEF AnyRef
<1>2. NoRefs \in [Refs -> Hashes]
  BY DEF NoRefs, Hashes
<1>. QED BY <1>1, <1>2 DEF NoDir, Directory, NoRow, Row

\* An unfinished creation, deletion or change of HEAD is applied.
LEMMA GitData ==
  ASSUME DataSafe, NEW o \in OpIDs, PendingOp(o), ops[o].intent.kind # "push",
         ops[o].intent.kind = "head" => git.dir,
         GitChange(o), UNCHANGED late
  PROVE  DataSafe'
<1> DEFINE i == ops[o].intent
<1>1. git \in Directory /\ i \in Intent /\ UNCHANGED <<ops, repo, touched>> /\ o \notin {}
  BY DEF DataSafe, DataTypes, Operation, GitChange
<1>2. changed' = changed \cup {o}
  BY DEF GitChange
<1>3. /\ i.kind = "create" =>
           git' = IF git.dir THEN git ELSE [NoDir EXCEPT !.dir = TRUE, !.head = i.ref]
      /\ i.kind = "delete" => git' = NoDir
      /\ i.kind = "head" => git' = [git EXCEPT !.head = i.ref]
  BY DEF GitChange
<1>4. i.kind \in {"create", "delete", "head"}
  BY <1>1 DEF Intent, AllKinds
<1>5. [NoDir EXCEPT !.dir = TRUE, !.head = i.ref] \in Directory
  BY <1>1, NoDirTyped DEF Directory, Intent
<1>6. /\ git' \in Directory
      /\ i.kind = "create" /\ git.dir => git' = git
      /\ i.kind = "create" /\ ~git.dir =>
           git'.dir /\ git'.head = i.ref /\ git'.refs = NoRefs /\ git'.receipts = {}
      /\ i.kind = "delete" => ~git'.dir /\ git'.receipts = {}
      /\ i.kind = "head" => /\ git'.dir = git.dir /\ git'.refs = git.refs /\ git'.head = i.ref
                            /\ git'.receipts = git.receipts
  <2>1. CASE i.kind = "create"
    BY <1>1, <1>3, <1>5, <2>1, NoDirTyped DEF NoDir
  <2>2. CASE i.kind = "delete"
    BY <1>3, <2>2, NoDirTyped
  <2>3. CASE i.kind = "head"
    BY <1>1, <1>3, <2>3 DEF Directory, Intent
  <2>. QED BY <1>4, <2>1, <2>2, <2>3
<1>7. DataTypes'
  BY <1>1, <1>2, <1>6 DEF DataSafe, DataTypes
<1>8. OneUnfinished'
  BY <1>1 DEF DataSafe, OneUnfinished, PendingOp
<1>9. \A q \in OpIDs : PendingOp(q) => q = o
  BY DEF DataSafe, OneUnfinished
<1>10. i.kind = "create" => \A q \in OpIDs : q # o => ops[q].status = "none"
  BY DEF DataSafe, OneUnfinished
<1>11. ReceiptsTell'
  BY <1>1, <1>2, <1>4, <1>6, <1>9, <1>10 DEF DataSafe, ReceiptsTell, PendingOp
<1>12. GivenUp' <=> GivenUp
  BY <1>1 DEF GivenUp
<1>13. ASSUME InTime
       PROVE  StoresSafe'
  <2>1. CompletedTruthfully'
    BY <1>1, <1>2, <1>13 DEF DataSafe, StoresSafe, CompletedTruthfully, Done, Dropped, PendingOp
  <2>2. StoresAgree'
    BY <1>1 DEF StoresAgree, Pending, PendingOp
  <2>3. DifferByOne'
    <3> SUFFICES ASSUME ~GivenUp
                 PROVE  /\ i.kind = "head" => /\ repo.row /\ git'.dir
                                              /\ (~touched => repo.index = git'.refs)
                                              /\ git'.head = i.ref
                        /\ i.kind = "delete" => repo.row /\ ~git'.dir
                        /\ i.kind = "create" => /\ ~repo.row /\ git'.dir /\ git'.head = i.ref
                                                /\ ~touched => git'.refs = NoRefs
      BY <1>1, <1>2, <1>4, <1>9, <1>12 DEF DifferByOne, PendingOp
    <3>. QED BY <1>6, <1>13 DEF DataSafe, StoresSafe, DifferByOne
  <2>. QED BY <2>1, <2>2, <2>3 DEF StoresSafe
<1>14. InTime' <=> InTime
  BY DEF InTime
<1>. QED BY <1>7, <1>8, <1>11, <1>13, <1>14 DEF DataSafe

\* It is completed, with the repository's row.
LEMMA RowData ==
  ASSUME DataSafe, NEW o \in OpIDs, PendingOp(o), ops[o].intent.kind # "push", o \in changed,
         RowChange(o), UNCHANGED late
  PROVE  DataSafe'
<1> DEFINE i == ops[o].intent
<1>1. repo \in Row /\ i \in Intent /\ UNCHANGED <<git, changed, touched>>
  BY DEF DataSafe, DataTypes, Operation, RowChange
<1>2. /\ ops' \in [OpIDs -> Operation]
      /\ ops'[o].status = "completed" /\ ops'[o].failed = FALSE
      /\ ops'[o].intent = ops[o].intent
      /\ \A q \in OpIDs : q # o => ops'[q] = ops[q]
  BY OpCompleted DEF DataSafe, RowChange
<1>3. /\ i.kind = "create" => repo' = [NoRow EXCEPT !.row = TRUE, !.branch = i.ref]
      /\ i.kind = "delete" => repo' = NoRow
      /\ i.kind = "head" => repo' = [repo EXCEPT !.branch = i.ref]
  BY DEF RowChange
<1>4. i.kind \in {"create", "delete", "head"}
  BY <1>1 DEF Intent, AllKinds
<1>5. /\ repo' \in Row
      /\ i.kind = "create" => repo'.row /\ repo'.branch = i.ref /\ repo'.index = NoRefs
      /\ i.kind = "delete" => ~repo'.row
      /\ i.kind = "head" =>
           repo'.row = repo.row /\ repo'.branch = i.ref /\ repo'.index = repo.index
  <2>1. CASE i.kind = "create"
    BY <1>1, <1>3, <2>1, NoDirTyped DEF NoRow, Row, Intent
  <2>2. CASE i.kind = "delete"
    BY <1>3, <2>2, NoDirTyped
  <2>3. CASE i.kind = "head"
    BY <1>1, <1>3, <2>3 DEF Row, Intent
  <2>. QED BY <1>4, <2>1, <2>2, <2>3
<1>6. DataTypes'
  BY <1>1, <1>2, <1>5 DEF DataSafe, DataTypes
<1>7. \A q \in OpIDs : ops'[q].status # "pending"
  BY <1>2 DEF DataSafe, OneUnfinished, PendingOp
<1>8. OneUnfinished'
  BY <1>7 DEF OneUnfinished, PendingOp
<1>9. ReceiptsTell'
  BY <1>1, <1>2, <1>7 DEF DataSafe, ReceiptsTell, PendingOp
<1>10. GivenUp => GivenUp'
  BY <1>2 DEF GivenUp, PendingOp
<1>11. ASSUME InTime
       PROVE  StoresSafe'
  <2>1. CompletedTruthfully'
    BY <1>1, <1>2, <1>11 DEF DataSafe, StoresSafe, CompletedTruthfully, Done, Dropped
  <2>2. StoresAgree'
    BY <1>1, <1>4, <1>5, <1>10, <1>11 DEF DataSafe, StoresSafe, DifferByOne, StoresAgree, Agree
  <2>3. DifferByOne'
    BY <1>7 DEF DifferByOne, PendingOp
  <2>. QED BY <2>1, <2>2, <2>3 DEF StoresSafe
<1>12. InTime' <=> InTime
  BY DEF InTime
<1>. QED BY <1>6, <1>8, <1>9, <1>11, <1>12 DEF DataSafe

----------------------------------------------------------------------------
(* What others do to it.                                                   *)

\* A failed attempt is noted on an intent that is unfinished.
LEMMA NoteData ==
  ASSUME DataSafe, NEW o \in OpIDs, ops' = [ops EXCEPT ![o].failed = @ \/ PendingOp(o)],
         UNCHANGED <<repo, git, changed, touched, late>>
  PROVE  /\ DataSafe' /\ (InTime' <=> InTime)
         /\ \A q \in OpIDs : ops'[q].status = ops[q].status /\ ops'[q].intent = ops[q].intent
         /\ \A q \in OpIDs : ~PendingOp(q) => ops'[q] = ops[q]
<1> DEFINE row == [ops[o] EXCEPT !.failed = @ \/ PendingOp(o)]
<1>1. ops[o] \in Operation
  BY DEF DataSafe, DataTypes
<1>2. row \in Operation /\ row.status = ops[o].status /\ row.intent = ops[o].intent
  BY <1>1 DEF Operation, PendingOp
<1>3. ~PendingOp(o) => row.failed = ops[o].failed
  BY <1>1 DEF Operation
<1>4. ~PendingOp(o) => row = ops[o]
  BY <1>1, <1>2, <1>3 DEF Operation
<1>5. ops' = [ops EXCEPT ![o] = row]
  BY DEF DataSafe, DataTypes
<1> HIDE DEF row
<1>6. ops' \in [OpIDs -> Operation] /\ ops'[o] = row /\ \A q \in OpIDs : q # o => ops'[q] = ops[q]
  BY <1>2, <1>5, OpSet DEF DataSafe
<1>7. /\ \A q \in OpIDs : ops'[q].status = ops[q].status /\ ops'[q].intent = ops[q].intent
      /\ \A q \in OpIDs : ~PendingOp(q) => ops'[q] = ops[q]
  BY <1>2, <1>4, <1>6
<1>8. DataTypes'
  BY <1>6 DEF DataSafe, DataTypes
<1>9. OneUnfinished' /\ ReceiptsTell'
  BY <1>7 DEF DataSafe, OneUnfinished, ReceiptsTell, PendingOp
<1>10. GivenUp' <=> GivenUp
  <2>1. \A q \in OpIDs : ops[q].status \in {"completed", "pruned"} => ~PendingOp(q)
    BY DEF PendingOp
  <2>. QED BY <1>7, <2>1 DEF GivenUp
<1>11. StoresSafe => StoresSafe'
  <2>1. \A q \in OpIDs : (Done(q)' <=> Done(q)) /\ (Dropped(q)' <=> Dropped(q))
    BY <1>7 DEF Done, Dropped, PendingOp
  <2>2. CompletedTruthfully => CompletedTruthfully'
    BY <1>7, <2>1 DEF CompletedTruthfully
  <2>3. StoresAgree => StoresAgree'
    BY <1>7, <1>10 DEF StoresAgree, Pending, PendingOp, Agree
  <2>4. DifferByOne => DifferByOne'
    BY <1>7, <1>10 DEF DifferByOne, PendingOp, Agree
  <2>. QED BY <2>2, <2>3, <2>4 DEF StoresSafe
<1>12. InTime' <=> InTime
  BY DEF InTime
<1>. QED BY <1>7, <1>8, <1>9, <1>11, <1>12 DEF DataSafe

\* Old operations are forgotten, none that is unfinished or has a late command.
LEMMA PruneData ==
  ASSUME DataSafe, NEW o \in OpIDs, ops[o].status = "completed", late[o] # "running",
         ops' = [ops EXCEPT ![o].status = "pruned"],
         UNCHANGED <<repo, git, changed, touched, late>>
  PROVE  /\ DataSafe' /\ (InTime' <=> InTime)
         /\ \A q \in OpIDs : /\ ops'[q].intent = ops[q].intent /\ ops'[q].failed = ops[q].failed
                             /\ q # o => ops'[q] = ops[q]
         /\ ops'[o].status = "pruned"
<1> DEFINE row == [ops[o] EXCEPT !.status = "pruned"]
<1>1. ops[o] \in Operation
  BY DEF DataSafe, DataTypes
<1>2. /\ row \in Operation /\ row.status = "pruned" /\ row.intent = ops[o].intent
      /\ row.failed = ops[o].failed
  BY <1>1 DEF Operation
<1>3. ops' = [ops EXCEPT ![o] = row]
  BY DEF DataSafe, DataTypes
<1> HIDE DEF row
<1>4. ops' \in [OpIDs -> Operation] /\ ops'[o] = row /\ \A q \in OpIDs : q # o => ops'[q] = ops[q]
  BY <1>2, <1>3, OpSet DEF DataSafe
<1>5. /\ \A q \in OpIDs : /\ ops'[q].intent = ops[q].intent /\ ops'[q].failed = ops[q].failed
                          /\ q # o => ops'[q] = ops[q]
      /\ ops'[o].status = "pruned"
  BY <1>2, <1>4
<1>6. DataTypes'
  BY <1>4 DEF DataSafe, DataTypes
<1>7. \A q \in OpIDs : ops'[q].status = "pending" <=> ops[q].status = "pending"
  BY <1>5
<1>8. OneUnfinished' /\ ReceiptsTell'
  <2>1. \A q \in OpIDs : ops'[q].status = "none" <=> ops[q].status = "none"
    BY <1>5
  <2>. QED BY <1>5, <1>7, <2>1 DEF DataSafe, OneUnfinished, ReceiptsTell, PendingOp
<1>9. GivenUp' <=> GivenUp
  BY <1>5 DEF GivenUp
<1>10. StoresSafe => StoresSafe'
  <2>1. CompletedTruthfully => CompletedTruthfully'
    BY <1>5 DEF CompletedTruthfully, Done, Dropped
  <2>2. StoresAgree => StoresAgree'
    BY <1>7, <1>9 DEF StoresAgree, Pending, PendingOp, Agree
  <2>3. DifferByOne => DifferByOne'
    BY <1>5, <1>7, <1>9 DEF DifferByOne, PendingOp, Agree
  <2>. QED BY <2>1, <2>2, <2>3 DEF StoresSafe
<1>11. InTime' <=> InTime
  BY DEF InTime
<1>. QED BY <1>5, <1>6, <1>8, <1>10, <1>11 DEF DataSafe

\* The directory of no row is moved aside: one is left only where an operator
\* gave up an operation.
LEMMA QuarantineData ==
  ASSUME DataSafe, ~repo.row, git.dir, ~Pending, git' = NoDir,
         UNCHANGED <<ops, repo, changed, touched, late>>
  PROVE  DataSafe' /\ (InTime' <=> InTime)
<1>1. git' \in Directory /\ ~git'.dir /\ git'.receipts = {}
  BY NoDirTyped
<1>2. DataTypes'
  BY <1>1 DEF DataSafe, DataTypes
<1>3. \A q \in OpIDs : ops[q].status # "pending"
  BY DEF Pending, PendingOp
<1>4. OneUnfinished' /\ ReceiptsTell'
  BY <1>1, <1>3 DEF DataSafe, OneUnfinished, ReceiptsTell, PendingOp
<1>5. GivenUp' <=> GivenUp
  BY DEF GivenUp
<1>6. ASSUME InTime
      PROVE  StoresSafe'
  <2>1. GivenUp
    BY <1>6 DEF DataSafe, StoresSafe, StoresAgree, Agree
  <2>2. CompletedTruthfully'
    BY <1>6 DEF DataSafe, StoresSafe, CompletedTruthfully, Done, Dropped
  <2>. QED BY <1>5, <2>1, <2>2 DEF StoresSafe, StoresAgree, DifferByOne
<1>7. InTime' <=> InTime
  BY DEF InTime
<1>. QED BY <1>2, <1>4, <1>6, <1>7 DEF DataSafe

\* Moving refs in Git, or bringing the index to them, changes neither what
\* exists nor HEAD.
LEMMA RefsData ==
  ASSUME DataSafe, git.dir, repo' \in Row, git' \in Directory, touched' \in BOOLEAN,
         git'.dir = git.dir, git'.head = git.head, git'.receipts \subseteq git.receipts,
         \A o \in OpIDs : ops[o].status \in {"pending", "completed"} /\ o \in git.receipts =>
           o \in git'.receipts,
         repo'.row = repo.row, repo'.branch = repo.branch,
         \/ touched'
         \/ repo'.index = git'.refs /\ repo'.row
         \/ touched' = touched /\ repo'.index = repo.index /\ git'.refs = git.refs,
         UNCHANGED <<ops, changed, late>>
  PROVE  DataSafe' /\ (InTime' <=> InTime)
<1>1. DataTypes'
  BY DEF DataSafe, DataTypes
<1>2. OneUnfinished' /\ ReceiptsTell'
  BY DEF DataSafe, OneUnfinished, ReceiptsTell, PendingOp
<1>3. GivenUp' <=> GivenUp
  BY DEF GivenUp
<1>4. Agree => Agree'
  BY DEF Agree
<1>5. ASSUME InTime
      PROVE  StoresSafe'
  <2>1. CompletedTruthfully'
    BY <1>5 DEF DataSafe, StoresSafe, CompletedTruthfully, Done, Dropped
  <2>2. StoresAgree'
    BY <1>3, <1>4, <1>5 DEF DataSafe, StoresSafe, StoresAgree, Pending, PendingOp
  <2>3. DifferByOne'
    <3> SUFFICES ASSUME NEW o \in OpIDs, PendingOp(o), ~GivenUp
                 PROVE  LET i == ops[o].intent
                        IN /\ i.kind = "push" => /\ repo'.row /\ git'.dir
                                                 /\ repo'.branch = git'.head
                                                 /\ (o \notin changed => Agree')
                           /\ i.kind = "head" =>
                                /\ repo'.row /\ git'.dir
                                /\ (~touched' => repo'.index = git'.refs)
                                /\ git'.head = IF o \in changed THEN i.ref ELSE repo'.branch
                           /\ i.kind = "delete" =>
                                repo'.row /\ (IF o \in changed THEN ~git'.dir ELSE Agree')
                           /\ i.kind = "create" =>
                                /\ ~repo'.row /\ (git'.dir <=> o \in changed)
                                /\ (o \in changed => git'.head = i.ref)
                                /\ (o \in changed /\ ~touched' => git'.refs = NoRefs)
      BY <1>3 DEF DifferByOne, PendingOp
    <3>1. DifferByOne
      BY <1>5 DEF DataSafe, StoresSafe
    <3>. QED BY <1>4, <3>1 DEF DifferByOne
  <2>. QED BY <2>1, <2>2, <2>3 DEF StoresSafe
<1>6. InTime' <=> InTime
  BY DEF InTime
<1>. QED BY <1>1, <1>2, <1>5, <1>6 DEF DataSafe

LEMMA SyncData ==
  ASSUME DataSafe, repo.row, git.dir, repo' = [repo EXCEPT !.index = Synced], touched' = FALSE,
         UNCHANGED <<ops, git, changed, late>>
  PROVE  DataSafe' /\ (InTime' <=> InTime)
<1>1. repo \in Row /\ git \in Directory
  BY DEF DataSafe, DataTypes
<1>2. repo' \in Row /\ repo'.row = repo.row /\ repo'.branch = repo.branch /\ repo'.index = git.refs
  BY <1>1 DEF Row, Directory, Synced
<1>. QED BY <1>1, <1>2, RefsData

LEMMA OutsideData ==
  ASSUME DataSafe, git.dir, NEW f \in Refs, NEW h \in Hashes,
         git' = [git EXCEPT !.refs[f] = h], touched' = TRUE,
         UNCHANGED <<ops, repo, changed, late>>
  PROVE  DataSafe' /\ (InTime' <=> InTime)
<1>1. repo \in Row /\ git \in Directory
  BY DEF DataSafe, DataTypes
<1>2. [git.refs EXCEPT ![f] = h] \in [Refs -> Hashes]
  BY <1>1 DEF Directory
<1>3. git' = [git EXCEPT !.refs = [git.refs EXCEPT ![f] = h]]
  OBVIOUS
<1>4. /\ git' \in Directory /\ git'.dir = git.dir /\ git'.head = git.head
      /\ git'.receipts = git.receipts
  BY <1>1, <1>2, <1>3 DEF Directory
<1>. QED BY <1>1, <1>4, RefsData

LEMMA ReceiptsData ==
  ASSUME DataSafe, git.dir,
         git' = [git EXCEPT !.receipts =
                   {o \in @ : ops[o].status \in {"pending", "completed"}}],
         UNCHANGED <<ops, repo, changed, touched, late>>
  PROVE  DataSafe'
<1>1. repo \in Row /\ git \in Directory /\ touched \in BOOLEAN
  BY DEF DataSafe, DataTypes
<1>2. /\ git' \in Directory /\ git'.dir = git.dir /\ git'.head = git.head
      /\ git'.refs = git.refs
      /\ git'.receipts = {o \in git.receipts : ops[o].status \in {"pending", "completed"}}
  BY <1>1 DEF Directory
<1>. QED BY <1>1, <1>2, RefsData

----------------------------------------------------------------------------
(* Who works on what.                                                      *)

WorkTypes ==
  /\ act \in [Actors -> Actor] /\ lock \in Actors \cup {Nobody} /\ shared \subseteq Actors
  /\ maintenance \in BOOLEAN /\ backup \in Backup /\ faults \in 0 .. MaxFaults

\* What WorkUnderLock says of an actor at pc that has operation o.
Fits(pc, o, p) ==
  /\ pc \in Holding => lock = p
  /\ pc \in {"admitted", "locked", "clear"} => p \in shared
  /\ pc \notin {"idle", "admitted", "locked", "clear"} => o \in OpIDs
  /\ pc \in PushSteps \cup {"git", "commit", "acommit"} => PendingOp(o)
  /\ pc \in PushSteps => ops[o].intent.kind = "push"
  /\ pc \in {"git", "commit"} => ops[o].intent.kind # "push"
  /\ pc \in {"record", "commit"} => o \in changed
  /\ InTime /\ pc \in {"verify", "apply", "reverify", "reject"} => o \notin changed
  /\ InTime /\ pc = "acommit" /\ ops[o].intent.kind = "push" => o \notin changed

Works(p) == Fits(act[p].pc, act[p].op, p)

\* JournalSafe is about what is stored, and about each actor.
LEMMA SafeParts ==
  /\ JournalSafe <=> DataSafe /\ WorkTypes /\ \A p \in Actors : Works(p)
  /\ DataSafe' /\ WorkTypes' /\ (\A p \in Actors : Works(p)') => JournalSafe'
<1>1. JournalTypeOK <=> DataTypes /\ WorkTypes
  BY DEF JournalTypeOK, DataTypes, WorkTypes
<1>2. WorkUnderLock <=> \A p \in Actors : Works(p)
  BY DEF WorkUnderLock, Works, Fits, Op, Plan
<1>3. JournalTypeOK' <=> DataTypes' /\ WorkTypes'
  BY DEF JournalTypeOK, DataTypes, WorkTypes
<1>4. WorkUnderLock' <=> \A p \in Actors : Works(p)'
  BY DEF WorkUnderLock, Works, Fits, Op, Plan
<1>5. JournalSafe <=> DataSafe /\ WorkTypes /\ \A p \in Actors : Works(p)
  BY <1>1, <1>2 DEF JournalSafe, DataSafe, StoresSafe
<1>6. DataSafe' /\ WorkTypes' /\ (\A p \in Actors : Works(p)') => JournalSafe'
  BY <1>3, <1>4 DEF JournalSafe, DataSafe, StoresSafe
<1>. QED BY <1>5, <1>6

\* Unfinished operations stay what they are for those who work on them.
Spares ==
  /\ \A o \in OpIDs : PendingOp(o) =>
       ops'[o].status = "pending" /\ ops'[o].intent = ops[o].intent
  /\ changed \subseteq changed'
  /\ InTime' => InTime /\ changed' = changed

LEMMA SparesWork ==
  ASSUME NEW p \in Actors, Works(p), Spares, act'[p] = act[p], lock = p => lock' = p,
         p \in shared => p \in shared'
  PROVE  Works(p)'
BY DEF Works, Fits, Spares, PendingOp, PushSteps, Holding

\* A step that no actor takes.
LEMMA AsideKeeps ==
  ASSUME JournalSafe, DataSafe', WorkTypes', Spares, UNCHANGED <<act, lock, shared>>
  PROVE  JournalSafe'
<1>1. \A p \in Actors : Works(p)'
  BY SafeParts, SparesWork
<1>. QED BY <1>1, SafeParts

\* A step of one actor: it has the lock if it spoils what others work on, and
\* takes the lock from nobody.
LEMMA ActorKeeps ==
  ASSUME JournalSafe, NEW p \in Actors, NEW a \in Actor, act' = [act EXCEPT ![p] = a],
         DataSafe', faults' \in 0 .. MaxFaults, UNCHANGED <<maintenance, backup>>,
         lock' \in Actors \cup {Nobody}, lock' = lock \/ lock = p \/ lock = Nobody,
         shared' \subseteq Actors, \A q \in Actors : q # p /\ q \in shared => q \in shared',
         act[p].pc \in Holding \/ Spares,
         Fits(a.pc, a.op, p)'
  PROVE  JournalSafe'
<1>1. act \in [Actors -> Actor]
  BY SafeParts DEF WorkTypes
<1>2. act' \in [Actors -> Actor] /\ act'[p] = a /\ \A q \in Actors : q # p => act'[q] = act[q]
  BY <1>1
<1>3. WorkTypes'
  BY <1>2, SafeParts DEF WorkTypes
<1>4. Works(p)'
  BY <1>2 DEF Works, Fits
<1>5. ASSUME NEW q \in Actors, q # p
      PROVE  Works(q)'
  <2>1. Works(q) /\ Works(p) /\ act'[q] = act[q]
    BY <1>2, <1>5, SafeParts
  <2>2. CASE act[p].pc \in Holding
    <3>1. lock = p /\ act[q].pc \notin Holding
      BY <1>5, <2>1, <2>2 DEF Works, Fits
    <3>. QED BY <1>5, <2>1, <3>1 DEF Works, Fits, Holding, PushSteps
  <2>3. CASE Spares /\ act[q].pc \in Holding
    <3>1. lock = q /\ q \in Actors
      BY <2>1, <2>3 DEF Works, Fits
    <3>2. lock' = q
      BY <1>5, <3>1, JournalConstantsOK
    <3>. QED BY <1>5, <2>1, <2>3, <3>2, SparesWork
  <2>4. CASE Spares /\ act[q].pc \notin Holding
    BY <1>5, <2>1, <2>4 DEF Works, Fits, Holding, PushSteps
  <2>. QED BY <2>2, <2>3, <2>4
<1>. QED BY <1>3, <1>4, <1>5, SafeParts

----------------------------------------------------------------------------
(* How an actor moves.                                                     *)

\* What else a step of an actor keeps.
Steady ==
  DataSafe' /\ faults' \in 0 .. MaxFaults /\ UNCHANGED <<maintenance, backup>>

\* Nothing stored changes.
Idles == UNCHANGED data /\ UNCHANGED late

LEMMA IdlesSpares ==
  ASSUME JournalSafe, Idles
  PROVE  DataSafe' /\ Spares
<1>1. DataSafe' /\ (InTime' <=> InTime)
  BY SafeParts, DataStays DEF Idles
<1>. QED BY <1>1 DEF Spares, Idles, data, PendingOp

LEMMA FaultRange ==
  ASSUME JournalSafe
  PROVE  /\ UNCHANGED faults => faults' \in 0 .. MaxFaults
         /\ \A kind \in FaultKinds : Fault(kind) => faults' \in 0 .. MaxFaults
<1>1. faults \in 0 .. MaxFaults
  BY SafeParts DEF WorkTypes
<1>. QED BY <1>1, JournalConstantsOK DEF Fault

\* Going on to pc with the same operation.
LEMMA GoKeeps ==
  ASSUME JournalSafe, NEW p \in Actors, NEW pc \in PC, Go(p, pc), Steady,
         NEW o, o = Op(p), Fits(pc, o, p)', act[p].pc \in Holding \/ Spares
  PROVE  JournalSafe'
<1>1. act \in [Actors -> Actor] /\ lock \in Actors \cup {Nobody} /\ shared \subseteq Actors
  BY SafeParts DEF WorkTypes
<1>2. [act[p] EXCEPT !.pc = pc] \in Actor
  BY <1>1 DEF Actor
<1>3. PICK a \in Actor : a = [act[p] EXCEPT !.pc = pc]
  BY <1>2
<1>4. a.pc = pc /\ a.op = o
  BY <1>1, <1>3 DEF Actor, Op
<1>5. act' = [act EXCEPT ![p] = a]
  BY <1>1, <1>3 DEF Go
<1>6. Fits(a.pc, a.op, p)'
  BY <1>4
<1>. QED BY <1>1, <1>5, <1>6, ActorKeeps DEF Go, Steady

\* Ending, or going on to note a failure: nobody is at work then.
LEMMA FailKeeps ==
  ASSUME JournalSafe, NEW p \in Actors, Fail(p) \/ Leave(p), Steady,
         ~Leave(p) => Op(p) \in OpIDs,
         act[p].pc \in Holding \/ Spares
  PROVE  JournalSafe'
<1>1. act \in [Actors -> Actor] /\ lock \in Actors \cup {Nobody} /\ shared \subseteq Actors
  BY SafeParts DEF WorkTypes
<1>2. CASE Leave(p)
  <2>1. Idle \in Actor /\ Idle.pc = "idle"
    BY DEF Idle, Actor, PC
  <2>2. Fits(Idle.pc, Idle.op, p)'
    BY <2>1 DEF Fits, Holding, PushSteps
  <2>3. lock' \in Actors \cup {Nobody} /\ (lock' = lock \/ lock = p)
    BY <1>1, <1>2 DEF Leave, Unlock
  <2>. QED BY <1>1, <1>2, <2>1, <2>2, <2>3, ActorKeeps DEF Leave, Steady
<1>3. CASE ~Leave(p)
  <2>1. [act[p] EXCEPT !.pc = "note"] \in Actor
    BY <1>1 DEF Actor, PC
  <2>2. PICK a \in Actor : a = [act[p] EXCEPT !.pc = "note"]
    BY <2>1
  <2>3. a.pc = "note" /\ a.op \in OpIDs
    BY <1>1, <1>3, <2>2 DEF Actor, Op
  <2>4. act' = [act EXCEPT ![p] = a] /\ lock' = Unlock(p) /\ shared' = shared
    BY <1>1, <1>3, <2>2 DEF Fail
  <2>5. Fits(a.pc, a.op, p)'
    BY <2>3 DEF Fits, Holding, PushSteps
  <2>6. lock' \in Actors \cup {Nobody} /\ (lock' = lock \/ lock = p)
    BY <1>1, <2>4 DEF Unlock
  <2>. QED BY <1>1, <2>4, <2>5, <2>6, ActorKeeps DEF Steady
<1>. QED BY <1>2, <1>3

----------------------------------------------------------------------------
(* Live mutations.                                                         *)

\* An actor alone moves, perhaps because something fails.
LEMMA MovesSteady ==
  ASSUME JournalSafe, UNCHANGED data, Quiet,
         UNCHANGED faults \/ \E kind \in FaultKinds : Fault(kind)
  PROVE  Steady /\ Spares /\ DataSafe' /\ faults' \in 0 .. MaxFaults
BY IdlesSpares, FaultRange DEF Steady, Idles, Quiet

LEMMA AdmitKeeps ==
  ASSUME JournalSafe, NEW p \in Actors, Admit(p)
  PROVE  JournalSafe'
<1>1. Steady /\ Spares
  BY MovesSteady DEF Admit
<1>2. act \in [Actors -> Actor] /\ lock \in Actors \cup {Nobody} /\ shared \subseteq Actors
  BY SafeParts DEF WorkTypes
<1>3. [act[p] EXCEPT !.pc = "admitted"] \in Actor
  BY <1>2 DEF Actor, PC
<1>4. PICK a \in Actor : a = [act[p] EXCEPT !.pc = "admitted"]
  BY <1>3
<1>5. a.pc = "admitted" /\ act' = [act EXCEPT ![p] = a]
  BY <1>2, <1>4 DEF Actor, Admit
<1>6. Fits(a.pc, a.op, p)'
  BY <1>5 DEF Fits, Holding, PushSteps, Admit
<1>. QED BY <1>1, <1>2, <1>5, <1>6, ActorKeeps DEF Admit, Steady

LEMMA TakeLockKeeps ==
  ASSUME JournalSafe, NEW p \in Actors, NEW from, NEW to,
         \/ from = "admitted" /\ to = "locked"
         \/ from = "rlock" /\ to = "rcheck"
         \/ from = "alock" /\ to = "alook",
         TakeLock(p, from, to)
  PROVE  JournalSafe'
<1>1. Steady /\ Spares
  BY MovesSteady DEF TakeLock
<1>2. act \in [Actors -> Actor] /\ shared \subseteq Actors /\ Works(p)
  BY SafeParts DEF WorkTypes
<1>3. CASE Leave(p)
  BY <1>1, <1>3, <1>2, FailKeeps
<1>4. CASE lock = Nobody /\ lock' = p /\ act' = [act EXCEPT ![p].pc = to] /\ UNCHANGED shared
  <2>1. [act[p] EXCEPT !.pc = to] \in Actor
    BY <1>2 DEF Actor, PC
  <2>2. PICK a \in Actor : a = [act[p] EXCEPT !.pc = to]
    BY <2>1
  <2>3. a.pc = to /\ a.op = act[p].op /\ act' = [act EXCEPT ![p] = a]
    BY <1>2, <1>4, <2>2 DEF Actor
  <2>4. Fits(a.pc, a.op, p)'
    BY <1>2, <1>4, <2>3 DEF Works, Fits, Holding, PushSteps, TakeLock, At
  <2>. QED BY <1>1, <1>2, <1>4, <2>3, <2>4, ActorKeeps DEF Steady
<1>. QED BY <1>3, <1>4 DEF TakeLock

LEMMA CheckPendingKeeps ==
  ASSUME JournalSafe, NEW p \in Actors, CheckPending(p)
  PROVE  JournalSafe'
<1>1. Steady /\ Spares
  BY MovesSteady DEF CheckPending, FaultKinds
<1>2. Works(p) /\ act[p].pc = "locked"
  BY SafeParts DEF CheckPending, At
<1>3. CASE Leave(p)
  BY <1>1, <1>3, <1>2, FailKeeps
<1>4. CASE Go(p, "clear")
  <2>1. PICK o : o = Op(p)
    OBVIOUS
  <2>2. Fits("clear", o, p)'
    BY <1>2, <1>4 DEF Works, Fits, Holding, PushSteps, Go
  <2>. QED BY <1>1, <1>4, <2>1, <2>2, GoKeeps DEF PC
<1>. QED BY <1>3, <1>4 DEF CheckPending

\* The intent is committed by an actor that has the lock, and is worked on.
LEMMA BeginKeeps ==
  ASSUME JournalSafe, NEW p \in Actors, Begin(p)
  PROVE  JournalSafe'
<1>1. act \in [Actors -> Actor] /\ Works(p) /\ act[p].pc = "clear" /\ lock = p
  BY SafeParts DEF WorkTypes, Works, Fits, Begin, At, Holding
<1>2. PICK i \in Intents :
        /\ MayBegin(i) /\ ~Pending
        /\ Call("db",
                /\ ops' = [ops EXCEPT ![NewOp] =
                             [status |-> "pending", intent |-> i, failed |-> FALSE]]
                /\ UNCHANGED <<repo, git, changed, touched>>,
                /\ act' = [act EXCEPT ![p].pc = FirstStep(i.kind), ![p].op = NewOp]
                /\ UNCHANGED <<lock, shared>>,
                Leave(p))
  BY DEF Begin
<1>3. NewOp \in OpIDs /\ ops[NewOp].status = "none"
  BY DEF Begin, NewOp
<1>4. PICK o \in OpIDs : o = NewOp /\ ops[o].status = "none"
  BY <1>3
<1>5. i \in Intent /\ UNCHANGED <<maintenance, backup, late>>
  BY DEF Intents, Begin, Quiet
<1>6. ASSUME ops' = [ops EXCEPT ![o] =
                       [status |-> "pending", intent |-> i, failed |-> FALSE]],
             UNCHANGED <<repo, git, changed, touched>>
      PROVE  DataSafe'
  BY <1>2, <1>4, <1>5, <1>6, SafeParts, BeginData
<1>7. faults' \in 0 .. MaxFaults
  BY <1>2, FaultRange DEF Call, FaultKinds
<1>8. UNCHANGED data => DataSafe'
  BY <1>5, IdlesSpares DEF Idles
<1>9. CASE Leave(p)
  <2>1. DataSafe'
    BY <1>2, <1>4, <1>6, <1>8 DEF Call
  <2>. QED BY <1>1, <1>5, <1>7, <1>9, <2>1, FailKeeps DEF Steady, Works, Fits, Holding
<1>10. CASE /\ ops' = [ops EXCEPT ![NewOp] =
                         [status |-> "pending", intent |-> i, failed |-> FALSE]]
            /\ UNCHANGED <<repo, git, changed, touched>>
            /\ act' = [act EXCEPT ![p].pc = FirstStep(i.kind), ![p].op = NewOp]
            /\ UNCHANGED <<lock, shared>>
  <2>1. DataSafe'
    BY <1>4, <1>6, <1>10
  <2>2. [act[p] EXCEPT !.pc = FirstStep(i.kind), !.op = o] \in Actor
    BY <1>1 DEF Actor, PC, FirstStep
  <2>3. PICK a \in Actor : a = [act[p] EXCEPT !.pc = FirstStep(i.kind), !.op = o]
    BY <2>2
  <2>4. a.pc = FirstStep(i.kind) /\ a.op = o /\ act' = [act EXCEPT ![p] = a]
    BY <1>1, <1>4, <1>10, <2>3 DEF Actor
  <2>5. ops'[o].status = "pending" /\ ops'[o].intent = i
    BY <1>4, <1>5, <1>10, OpSet, SafeParts DEF DataSafe, DataTypes
  <2>6. Fits(a.pc, a.op, p)'
    BY <1>1, <1>10, <2>4, <2>5 DEF Fits, FirstStep, PushSteps, PendingOp
  <2>7. lock \in Actors \cup {Nobody} /\ shared \subseteq Actors
    BY SafeParts DEF WorkTypes
  <2>. QED BY <1>1, <1>5, <1>7, <1>10, <2>1, <2>4, <2>6, <2>7, ActorKeeps DEF Holding
<1>. QED BY <1>2, <1>9, <1>10 DEF Call

LEMMA PruneReceiptsKeeps ==
  ASSUME JournalSafe, NEW p \in Actors, PruneReceipts(p)
  PROVE  JournalSafe'
<1>1. Leave(p) /\ act[p].pc \in Holding /\ UNCHANGED <<maintenance, backup, late>>
  BY DEF PruneReceipts, Call, At, Holding, Quiet
<1>2. faults' \in 0 .. MaxFaults
  BY FaultRange DEF PruneReceipts, Call, FaultKinds
<1>3. DataSafe'
  <2>1. CASE UNCHANGED data
    BY <1>1, <2>1, IdlesSpares DEF Idles
  <2>2. CASE /\ git' = [git EXCEPT !.receipts =
                          {o \in @ : ops[o].status \in {"pending", "completed"}}]
             /\ UNCHANGED <<ops, repo, changed, touched>>
    BY <1>1, <2>2, SafeParts, ReceiptsData DEF PruneReceipts
  <2>. QED BY <2>1, <2>2 DEF PruneReceipts, Call
<1>. QED BY <1>1, <1>2, <1>3, FailKeeps, SafeParts DEF Steady, Works, Fits, Fail, Holding

LEMMA DeclineKeeps ==
  ASSUME JournalSafe, NEW p \in Actors, Decline(p)
  PROVE  JournalSafe'
<1>1. Steady /\ Spares
  BY MovesSteady DEF Decline
<1>. QED BY <1>1, FailKeeps DEF Decline

----------------------------------------------------------------------------
(* Work on an operation.                                                   *)

Busy == PushSteps \cup {"git", "commit", "acommit"}

\* An actor at work has the lock and an unfinished operation.
LEMMA AtWork ==
  ASSUME JournalSafe, NEW p \in Actors, act[p].pc \in Busy
  PROVE  /\ act[p].pc \in Holding /\ lock = p
         /\ Op(p) \in OpIDs /\ PendingOp(Op(p))
         /\ act[p].pc \in PushSteps => Plan(p).kind = "push"
         /\ act[p].pc \in {"git", "commit"} => Plan(p).kind # "push"
         /\ act[p].pc \in {"record", "commit"} => Op(p) \in changed
         /\ InTime /\ act[p].pc \in {"verify", "apply", "reverify", "reject"} =>
              Op(p) \notin changed
         /\ InTime /\ act[p].pc = "acommit" /\ Plan(p).kind = "push" => Op(p) \notin changed
BY SafeParts DEF Works, Fits, Holding, PushSteps, Op, Plan, Busy

\* It fails, or is through, with whatever it did to what is stored.
LEMMA WorkEnds ==
  ASSUME JournalSafe, NEW p \in Actors, act[p].pc \in Busy \cup {"rcheck"},
         Fail(p) \/ Leave(p), Steady
  PROVE  JournalSafe'
<1>1. act[p].pc \in Holding /\ Op(p) \in OpIDs
  BY SafeParts DEF Works, Fits, Holding, PushSteps, Op, Busy
<1>. QED BY <1>1, FailKeeps

\* It goes on with its push.
LEMMA PushGoes ==
  ASSUME JournalSafe, NEW p \in Actors, act[p].pc \in PushSteps,
         NEW pc \in PushSteps, Go(p, pc), Steady, NEW o, o = Op(p), ops'[o] = ops[o],
         pc = "record" => o \in changed',
         InTime' /\ pc \in {"verify", "apply", "reverify", "reject"} => o \notin changed'
  PROVE  JournalSafe'
<1>1. /\ act[p].pc \in Holding /\ lock = p /\ o \in OpIDs
      /\ ops'[o].status = "pending" /\ ops'[o].intent.kind = "push"
  BY AtWork DEF Plan, Busy, PendingOp
<1>2. lock' = p /\ pc \in PC
  BY <1>1 DEF Go, PushSteps, PC
<1>3. Fits(pc, o, p)'
  BY <1>1, <1>2 DEF Fits, PushSteps, PendingOp
<1>. QED BY <1>1, <1>2, <1>3, GoKeeps

\* A push that changed Git has its receipt there, until it is recorded.
LEMMA ReceiptThere ==
  ASSUME JournalSafe, NEW o \in OpIDs, PendingOp(o), ops[o].intent.kind = "push"
  PROVE  o \in changed <=> Applied(o)
BY SafeParts DEF DataSafe, ReceiptsTell, Applied

LEMMA QueryKeeps ==
  ASSUME JournalSafe, NEW p \in Actors, Query(p)
  PROVE  JournalSafe'
<1>1. Steady /\ UNCHANGED data
  BY MovesSteady DEF Query, FaultKinds
<1>2. act[p].pc \in PushSteps /\ act[p].pc \in Busy
  BY DEF Query, At, PushSteps, Busy
<1>3. CASE Fail(p)
  BY <1>1, <1>2, <1>3, WorkEnds
<1>4. CASE Go(p, IF Applied(Op(p)) THEN "record"
                 ELSE IF At(p, "query") THEN "verify" ELSE "reverify")
  <2>1. PICK o \in OpIDs : o = Op(p)
    BY <1>2, AtWork
  <2>2. o \in changed <=> Applied(o)
    BY <1>2, <2>1, AtWork, ReceiptThere DEF Plan
  <2>3. UNCHANGED <<ops, changed>>
    BY <1>1 DEF data
  <2>4. PICK pc : pc = IF Applied(Op(p)) THEN "record"
                       ELSE IF At(p, "query") THEN "verify" ELSE "reverify"
    OBVIOUS
  <2>5. Go(p, pc)
    BY <1>4, <2>4
  <2>6. (Applied(o) /\ pc = "record") \/ (~Applied(o) /\ pc \in {"verify", "reverify"})
    BY <2>1, <2>4
  <2>. QED BY <1>1, <1>2, <2>1, <2>2, <2>3, <2>5, <2>6, PushGoes DEF PushSteps
<1>. QED BY <1>3, <1>4 DEF Query

LEMMA VerifyKeeps ==
  ASSUME JournalSafe, NEW p \in Actors, Verify(p)
  PROVE  JournalSafe'
<1>1. Steady /\ UNCHANGED data
  BY MovesSteady DEF Verify, FaultKinds
<1>2. act[p].pc \in {"verify", "reverify"} /\ act[p].pc \in PushSteps /\ act[p].pc \in Busy
  BY DEF Verify, At, PushSteps, Busy
<1>3. CASE Fail(p)
  BY <1>1, <1>2, <1>3, WorkEnds
<1>4. CASE Go(p, "reject") \/ Go(p, "apply")
  <2>1. PICK o \in OpIDs : o = Op(p)
    BY <1>2, AtWork
  <2>2. InTime => o \notin changed
    BY <1>2, <2>1, AtWork
  <2>3. UNCHANGED <<ops, changed>> /\ (InTime' <=> InTime)
    BY <1>1 DEF data, InTime, Verify, Quiet
  <2>. QED BY <1>1, <1>2, <1>4, <2>1, <2>2, <2>3, PushGoes DEF PushSteps
<1>. QED BY <1>3, <1>4 DEF Verify

\* Git is changed, or not, and the answer known, or not.
LEMMA ApplyKeeps ==
  ASSUME JournalSafe, NEW p \in Actors, ApplyOperation(p)
  PROVE  JournalSafe'
<1>1. act[p].pc \in PushSteps /\ act[p].pc \in Busy
  BY DEF ApplyOperation, At, PushSteps, Busy
<1>2. PICK o \in OpIDs : o = Op(p)
  BY <1>1, AtWork
<1>3. PendingOp(o) /\ ops[o].intent.kind = "push"
  BY <1>1, <1>2, AtWork DEF Plan
<1>4. UNCHANGED <<maintenance, backup, late>> /\ faults' \in 0 .. MaxFaults
  BY FaultRange DEF ApplyOperation, Call, FaultKinds, Quiet
<1>5. CASE UpdateRefs(o)
  <2>1. DataSafe' /\ Steady
    BY <1>3, <1>4, <1>5, SafeParts, UpdateData DEF Steady
  <2>2. ops' = ops /\ o \in changed'
    BY <1>5 DEF UpdateRefs
  <2>3. CASE Go(p, "record") \/ Go(p, "requery")
    BY <1>1, <1>2, <2>1, <2>2, <2>3, PushGoes DEF PushSteps
  <2>. QED BY <2>3 DEF ApplyOperation, Call
<1>6. CASE ~UpdateRefs(o)
  <2>1. UNCHANGED data /\ Go(p, "requery")
    BY <1>2, <1>6 DEF ApplyOperation, Call
  <2>2. Steady /\ ops' = ops
    BY <1>4, <2>1, IdlesSpares DEF Idles, Steady, data
  <2>. QED BY <1>1, <1>2, <2>1, <2>2, PushGoes DEF PushSteps
<1>. QED BY <1>5, <1>6

LEMMA RejectKeeps ==
  ASSUME JournalSafe, NEW p \in Actors, RejectOperation(p)
  PROVE  JournalSafe'
<1>1. act[p].pc = "reject" /\ act[p].pc \in Busy
  BY DEF RejectOperation, At, PushSteps, Busy
<1>2. PICK o \in OpIDs : o = Op(p)
  BY <1>1, AtWork
<1>3. PendingOp(o) /\ (InTime => o \notin changed)
  BY <1>1, <1>2, AtWork
<1>4. UNCHANGED <<maintenance, backup, late>> /\ faults' \in 0 .. MaxFaults
  BY FaultRange DEF RejectOperation, Call, FaultKinds, Quiet
<1>5. DataSafe'
  <2>1. CASE UNCHANGED data
    BY <1>4, <2>1, IdlesSpares DEF Idles
  <2>2. CASE DropOp(o) /\ UNCHANGED <<repo, git, changed, touched>>
    BY <1>3, <1>4, <2>2, SafeParts, DropData DEF DropOp
  <2>. QED BY <1>2, <2>1, <2>2 DEF RejectOperation, Call
<1>6. Leave(p) \/ Fail(p)
  BY DEF RejectOperation, Call
<1>. QED BY <1>1, <1>4, <1>5, <1>6, WorkEnds DEF Steady

LEMMA RecordKeeps ==
  ASSUME JournalSafe, NEW p \in Actors, RecordPush(p)
  PROVE  JournalSafe'
<1>1. act[p].pc = "record" /\ act[p].pc \in PushSteps /\ act[p].pc \in Busy
  BY DEF RecordPush, At, PushSteps, Busy
<1>2. PICK o \in OpIDs : o = Op(p)
  BY <1>1, AtWork
<1>3. PendingOp(o) /\ o \in changed /\ ops[o].intent.kind = "push"
  BY <1>1, <1>2, AtWork DEF Plan
<1>4. UNCHANGED <<maintenance, backup, late>> /\ faults' \in 0 .. MaxFaults
  BY FaultRange DEF RecordPush, Call, FaultKinds, Quiet
<1>5. DataSafe'
  <2>1. CASE UNCHANGED data
    BY <1>4, <2>1, IdlesSpares DEF Idles
  <2>2. CASE /\ Complete(o, FALSE) /\ repo' = [repo EXCEPT !.index = Synced]
             /\ touched' = FALSE /\ UNCHANGED <<git, changed>>
    BY <1>3, <1>4, <2>2, SafeParts, RecordData
  <2>. QED BY <1>2, <2>1, <2>2 DEF RecordPush, Call
<1>6. Leave(p) \/ Fail(p)
  BY DEF RecordPush, Call
<1>. QED BY <1>1, <1>4, <1>5, <1>6, WorkEnds DEF Steady

LEMMA GitStepKeeps ==
  ASSUME JournalSafe, NEW p \in Actors, GitStep(p)
  PROVE  JournalSafe'
<1>1. act[p].pc = "git" /\ act[p].pc \in Busy
  BY DEF GitStep, At, Busy
<1>2. PICK o \in OpIDs : o = Op(p)
  BY <1>1, AtWork
<1>3. PendingOp(o) /\ ops[o].intent.kind # "push" /\ lock = p /\ act[p].pc \in Holding
  BY <1>1, <1>2, AtWork DEF Plan
<1>4. UNCHANGED <<maintenance, backup, late>> /\ faults' \in 0 .. MaxFaults
  BY FaultRange DEF GitStep, Call, FaultKinds, Quiet
<1>5. CASE UNCHANGED data /\ Fail(p)
  <2>1. Steady
    BY <1>4, <1>5, IdlesSpares DEF Idles, Steady
  <2>. QED BY <1>1, <1>5, <2>1, WorkEnds
<1>6. CASE (ops[o].intent.kind = "head" => git.dir) /\ GitChange(o) /\ (Go(p, "commit") \/ Fail(p))
  <2>1. DataSafe' /\ Steady
    BY <1>3, <1>4, <1>6, SafeParts, GitData DEF Steady
  <2>2. ops' = ops /\ o \in changed'
    BY <1>6 DEF GitChange
  <2>3. CASE Fail(p)
    BY <1>1, <2>1, <2>3, WorkEnds
  <2>4. CASE Go(p, "commit")
    <3>1. Fits("commit", o, p)'
      BY <1>3, <2>2, <2>4 DEF Fits, PushSteps, PendingOp, Go
    <3>. QED BY <1>2, <1>3, <2>1, <2>4, <3>1, GoKeeps DEF PC
  <2>. QED BY <1>6, <2>3, <2>4
<1>. QED BY <1>2, <1>5, <1>6 DEF GitStep, Call, Plan

LEMMA CommitStepKeeps ==
  ASSUME JournalSafe, NEW p \in Actors, CommitStep(p)
  PROVE  JournalSafe'
<1>1. act[p].pc = "commit" /\ act[p].pc \in Busy
  BY DEF CommitStep, At, Busy
<1>2. PICK o \in OpIDs : o = Op(p)
  BY <1>1, AtWork
<1>3. PendingOp(o) /\ ops[o].intent.kind # "push" /\ o \in changed
  BY <1>1, <1>2, AtWork DEF Plan
<1>4. UNCHANGED <<maintenance, backup, late>> /\ faults' \in 0 .. MaxFaults
  BY FaultRange DEF CommitStep, Call, FaultKinds, Quiet
<1>5. DataSafe'
  <2>1. CASE UNCHANGED data
    BY <1>4, <2>1, IdlesSpares DEF Idles
  <2>2. CASE RowChange(o)
    BY <1>3, <1>4, <2>2, SafeParts, RowData
  <2>. QED BY <1>2, <2>1, <2>2 DEF CommitStep, Call
<1>6. Leave(p) \/ Fail(p)
  BY DEF CommitStep, Call
<1>. QED BY <1>1, <1>4, <1>5, <1>6, WorkEnds DEF Steady

----------------------------------------------------------------------------
(* Recovery and abandoning.                                                *)

\* What is listed before the lock is taken may be anything by then.
LEMMA PickKeeps ==
  ASSUME JournalSafe, NEW p \in Actors, NEW by \in {"recovery", "operator"},
         NEW pc \in {"rlock", "alock"}, Pick(p, by, pc), faults' \in 0 .. MaxFaults
  PROVE  JournalSafe'
<1>1. PICK o \in OpIDs : act' = [act EXCEPT ![p] = [pc |-> pc, op |-> o, by |-> by]]
  BY DEF Pick
<1>2. DataSafe' /\ Spares /\ UNCHANGED <<lock, shared, maintenance, backup>>
  BY IdlesSpares DEF Pick, Idles, Quiet
<1>3. PICK a : a = [pc |-> pc, op |-> o, by |-> by]
  OBVIOUS
<1>4. a \in Actor /\ a.pc = pc /\ a.op = o
  BY <1>3 DEF Actor, PC
<1>5. Fits(a.pc, a.op, p)'
  BY <1>4 DEF Fits, Holding, PushSteps
<1>6. lock \in Actors \cup {Nobody} /\ shared \subseteq Actors
  BY SafeParts DEF WorkTypes
<1>. QED BY <1>1, <1>2, <1>3, <1>4, <1>5, <1>6, ActorKeeps

\* Under the lock recovery looks again whether the operation is unfinished.
LEMMA RecoverCheckKeeps ==
  ASSUME JournalSafe, NEW p \in Actors, RecoverCheck(p)
  PROVE  JournalSafe'
<1>1. Steady /\ UNCHANGED data
  BY MovesSteady DEF RecoverCheck, FaultKinds
<1>2. act[p].pc = "rcheck" /\ lock = p /\ Op(p) \in OpIDs /\ act[p].pc \in Holding
  BY SafeParts DEF RecoverCheck, At, Works, Fits, Holding, PushSteps, Op
<1>3. CASE Fail(p) \/ Leave(p)
  BY <1>1, <1>2, <1>3, WorkEnds
<1>4. CASE PendingOp(Op(p)) /\ Go(p, FirstStep(Plan(p).kind))
  <2>1. PICK o \in OpIDs : o = Op(p)
    BY <1>2
  <2>2. PICK pc \in {"query", "git"} : pc = FirstStep(ops[o].intent.kind)
    BY DEF FirstStep
  <2>3. Go(p, pc)
    BY <1>4, <2>1, <2>2 DEF Plan
  <2>4. ops' = ops /\ PendingOp(o) /\ lock' = p
    BY <1>1, <1>2, <1>4, <2>1, <2>3 DEF data, Go
  <2>5. Fits(pc, o, p)'
    BY <2>2, <2>4 DEF Fits, FirstStep, PushSteps, PendingOp
  <2>. QED BY <1>1, <1>2, <2>1, <2>3, <2>5, GoKeeps DEF PC
<1>. QED BY <1>3, <1>4 DEF RecoverCheck

LEMMA NoteKeeps ==
  ASSUME JournalSafe, NEW p \in Actors, Note(p)
  PROVE  JournalSafe'
<1>1. Op(p) \in OpIDs /\ Leave(p) /\ UNCHANGED <<maintenance, backup, late>>
  BY SafeParts DEF Note, At, Works, Fits, Op, Call, Quiet
<1>2. faults' \in 0 .. MaxFaults
  BY FaultRange DEF Note, Call, FaultKinds
<1>3. DataSafe' /\ Spares
  <2>1. CASE UNCHANGED data
    BY <1>1, <2>1, IdlesSpares DEF Idles
  <2>2. CASE /\ ops' = [ops EXCEPT ![Op(p)].failed = @ \/ PendingOp(Op(p))]
             /\ UNCHANGED <<repo, git, changed, touched>>
    BY <1>1, <2>2, SafeParts, NoteData DEF Spares, PendingOp
  <2>. QED BY <2>1, <2>2 DEF Note, Call
<1>. QED BY <1>1, <1>2, <1>3, FailKeeps DEF Steady

\* An operation is given up under the lock, and a push only without a receipt.
LEMMA AbandonCheckKeeps ==
  ASSUME JournalSafe, NEW p \in Actors, AbandonCheck(p)
  PROVE  JournalSafe'
<1>1. Steady /\ UNCHANGED data /\ Spares
  BY MovesSteady DEF AbandonCheck, FaultKinds
<1>2. act[p].pc = "alook" /\ lock = p /\ Op(p) \in OpIDs /\ act[p].pc \in Holding
  BY SafeParts DEF AbandonCheck, At, Works, Fits, Holding, PushSteps, Op
<1>3. CASE Leave(p)
  BY <1>1, <1>2, <1>3, FailKeeps
<1>4. CASE MayAbandon(Op(p)) /\ Go(p, "acommit")
  <2>1. PICK o \in OpIDs : o = Op(p)
    BY <1>2
  <2>2. PendingOp(o) /\ (ops[o].intent.kind = "push" => o \notin changed)
    BY <1>4, <2>1, ReceiptThere DEF MayAbandon
  <2>3. ops' = ops /\ changed' = changed /\ lock' = p
    BY <1>1, <1>2, <1>4 DEF data, Go
  <2>4. Fits("acommit", o, p)'
    BY <2>2, <2>3 DEF Fits, PushSteps, PendingOp
  <2>. QED BY <1>1, <1>2, <1>4, <2>1, <2>4, GoKeeps DEF PC
<1>. QED BY <1>3, <1>4 DEF AbandonCheck

LEMMA AbandonCommitKeeps ==
  ASSUME JournalSafe, NEW p \in Actors, AbandonCommit(p)
  PROVE  JournalSafe'
<1>1. act[p].pc = "acommit" /\ act[p].pc \in Busy
  BY DEF AbandonCommit, At, Busy
<1>2. PICK o \in OpIDs : o = Op(p)
  BY <1>1, AtWork
<1>3. PendingOp(o) /\ (InTime /\ ops[o].intent.kind = "push" => o \notin changed)
  BY <1>1, <1>2, AtWork DEF Plan
<1>4. UNCHANGED <<maintenance, backup, late>> /\ faults' \in 0 .. MaxFaults
  BY FaultRange DEF AbandonCommit, Call, FaultKinds, Quiet
<1>5. DataSafe'
  <2>1. CASE UNCHANGED data
    BY <1>4, <2>1, IdlesSpares DEF Idles
  <2>2. CASE Complete(o, TRUE) /\ UNCHANGED <<repo, git, changed, touched>>
    BY <1>3, <1>4, <2>2, SafeParts, DropData
  <2>. QED BY <1>2, <2>1, <2>2 DEF AbandonCommit, Call
<1>6. Leave(p)
  BY DEF AbandonCommit, Call
<1>. QED BY <1>1, <1>4, <1>5, <1>6, WorkEnds DEF Steady

----------------------------------------------------------------------------
(* Deaths, and steps that no actor takes.                                  *)

LEMMA CrashKeeps ==
  ASSUME JournalSafe, NEW p \in Actors, Crash(p)
  PROVE  JournalSafe'
<1>1. Leave(p) /\ Idles /\ UNCHANGED <<maintenance, backup>>
  BY DEF Crash, Gone, Idles
<1>2. faults' \in 0 .. MaxFaults
  BY FaultRange DEF Crash, FaultKinds
<1>. QED BY <1>1, <1>2, IdlesSpares, FailKeeps DEF Steady

LEMMA OrphanKeeps ==
  ASSUME JournalSafe, NEW p \in Actors, Orphan(p)
  PROVE  JournalSafe'
<1>1. act[p].pc = "apply" /\ act[p].pc \in Busy /\ act[p].pc \in PushSteps
  BY DEF Orphan, At, Busy, PushSteps
<1>2. PICK o \in OpIDs : o = Op(p)
  BY <1>1, AtWork
<1>3. PendingOp(o) /\ ops[o].intent.kind = "push"
  BY <1>1, <1>2, AtWork DEF Plan
<1>4. /\ Leave(p) /\ UNCHANGED data /\ UNCHANGED <<maintenance, backup>>
      /\ late' = [late EXCEPT ![o] = "running"]
  BY <1>2 DEF Orphan, Gone
<1>5. DataSafe'
  BY <1>3, <1>4, SafeParts, OrphanData
<1>6. faults' \in 0 .. MaxFaults
  BY FaultRange DEF Orphan, FaultKinds
<1>. QED BY <1>1, <1>4, <1>5, <1>6, WorkEnds DEF Steady

LEMMA AsideSteps ==
  ASSUME JournalSafe,
         \/ \E o \in OpIDs : PruneOp(o) \/ LateUpdate(o)
         \/ QuarantineOrphans \/ SyncRefs \/ BackupNext \/ Outside
  PROVE  JournalSafe'
<1>1. WorkTypes /\ DataSafe
  BY SafeParts
<1>2. ASSUME NEW o \in OpIDs, PruneOp(o)
      PROVE  JournalSafe'
  <2>1. DataSafe' /\ Spares
    BY <1>1, <1>2, PruneData DEF PruneOp, Quiet, Spares, PendingOp
  <2>2. WorkTypes'
    BY <1>1, <1>2 DEF WorkTypes, PruneOp, Quiet
  <2>. QED BY <1>2, <2>1, <2>2, AsideKeeps DEF PruneOp
<1>3. ASSUME NEW o \in OpIDs, LateUpdate(o)
      PROVE  JournalSafe'
  <2>1. DataSafe' /\ ~InTime'
    BY <1>1, <1>3, LateData DEF LateUpdate
  <2>2. UNCHANGED ops /\ changed \subseteq changed'
    BY <1>3 DEF LateUpdate, UpdateRefs, data
  <2>3. Spares
    BY <2>1, <2>2 DEF Spares, PendingOp
  <2>4. WorkTypes'
    BY <1>1, <1>3 DEF WorkTypes, LateUpdate
  <2>. QED BY <1>3, <2>1, <2>3, <2>4, AsideKeeps DEF LateUpdate
<1>4. CASE QuarantineOrphans
  <2>1. DataSafe' /\ (InTime' <=> InTime)
    BY <1>1, <1>4, QuarantineData DEF QuarantineOrphans, Unknown, Quiet
  <2>2. Spares
    BY <1>4, <2>1 DEF Spares, QuarantineOrphans, PendingOp
  <2>3. WorkTypes'
    BY <1>1, <1>4 DEF WorkTypes, QuarantineOrphans, Quiet
  <2>. QED BY <1>4, <2>1, <2>2, <2>3, AsideKeeps DEF QuarantineOrphans
<1>5. CASE SyncRefs
  <2>1. DataSafe' /\ (InTime' <=> InTime)
    BY <1>1, <1>5, SyncData DEF SyncRefs, Quiet
  <2>2. Spares
    BY <1>5, <2>1 DEF Spares, SyncRefs, PendingOp
  <2>3. WorkTypes'
    BY <1>1, <1>5 DEF WorkTypes, SyncRefs, Quiet
  <2>. QED BY <1>5, <2>1, <2>2, <2>3, AsideKeeps DEF SyncRefs
<1>6. CASE Outside
  <2>1. DataSafe' /\ (InTime' <=> InTime)
    BY <1>1, <1>6, OutsideData DEF Outside, Quiet
  <2>2. Spares
    BY <1>6, <2>1 DEF Spares, Outside, PendingOp
  <2>3. faults' \in 0 .. MaxFaults
    BY <1>6, FaultRange DEF Outside, FaultKinds
  <2>4. WorkTypes'
    BY <1>1, <1>6, <2>3 DEF WorkTypes, Outside, Quiet
  <2>. QED BY <1>6, <2>1, <2>2, <2>4, AsideKeeps DEF Outside
<1>7. CASE BackupNext
  <2>1. Idles /\ UNCHANGED <<act, lock, shared, faults>>
    BY <1>7 DEF BackupNext, SetMaintenance, SnapshotLease, DumpDatabase, ArchiveRepositories,
                SetBackup, Idles
  <2>2. maintenance' \in BOOLEAN /\ backup' \in Backup
    <3>1. repo \in Row /\ git \in Directory /\ backup \in Backup /\ maintenance \in BOOLEAN
      BY <1>1 DEF WorkTypes, DataSafe, DataTypes
    <3>. QED BY <1>7, <3>1 DEF BackupNext, SetMaintenance, SnapshotLease, DumpDatabase,
                ArchiveRepositories, SetBackup, Backup
  <2>3. WorkTypes'
    BY <1>1, <2>1, <2>2 DEF WorkTypes
  <2>. QED BY <2>1, <2>3, IdlesSpares, AsideKeeps
<1>. QED BY <1>2, <1>3, <1>4, <1>5, <1>6, <1>7

----------------------------------------------------------------------------
(* The invariant.                                                          *)

\* Nothing has begun, and the repository is there or is not.
LEMMA InitSafe ==
  ASSUME JournalInit
  PROVE  JournalSafe
<1>1. PICK born \in BOOLEAN :
        repo = [NoRow EXCEPT !.row = born] /\ git = [NoDir EXCEPT !.dir = born]
  BY DEF JournalInit
<1>2. AnyRef \in Refs /\ NoRefs \in [Refs -> Hashes] /\ Zero \in Hashes
  BY JournalConstantsOK DEF AnyRef, NoRefs, Hashes
<1>3. /\ repo \in Row /\ git \in Directory /\ git.receipts = {}
      /\ repo.row = born /\ git.dir = born /\ repo.branch = git.head /\ repo.index = git.refs
  BY <1>1, <1>2 DEF NoRow, NoDir, Row, Directory
<1>4. [kind |-> "create", ref |-> AnyRef, old |-> Zero, new |-> Zero, runs |-> FALSE] \in Intent
  BY <1>2 DEF Intent, AllKinds
<1>5. ops \in [OpIDs -> Operation] /\ \A o \in OpIDs : ops[o].status = "none"
  BY <1>4 DEF JournalInit, Operation
<1>6. DataTypes
  BY <1>3, <1>5 DEF DataTypes, JournalInit
<1>7. OneUnfinished /\ ReceiptsTell
  BY <1>3, <1>5 DEF OneUnfinished, ReceiptsTell, PendingOp, JournalInit
<1>8. StoresSafe
  BY <1>3, <1>5 DEF StoresSafe, CompletedTruthfully, StoresAgree, DifferByOne, Agree, PendingOp,
                    Done, Dropped
<1>9. WorkTypes
  <2>1. Idle \in Actor
    BY DEF Idle, Actor, PC
  <2>2. backup \in Backup
    BY NoDirTyped DEF JournalInit, Backup
  <2>3. act \in [Actors -> Actor]
    BY <2>1 DEF JournalInit
  <2>4. faults \in 0 .. MaxFaults
    BY JournalConstantsOK DEF JournalInit
  <2>. QED BY <2>2, <2>3, <2>4 DEF WorkTypes, JournalInit
<1>10. \A p \in Actors : Works(p)
  BY DEF JournalInit, Works, Fits, Idle, Holding, PushSteps
<1>. QED BY <1>6, <1>7, <1>8, <1>9, <1>10, SafeParts DEF DataSafe

LEMMA NextSafe ==
  ASSUME JournalSafe, [JournalNext]_jvars
  PROVE  JournalSafe'
<1>1. ASSUME NEW p \in Actors, ClientNext(p)
      PROVE  JournalSafe'
  BY <1>1, AdmitKeeps, TakeLockKeeps, CheckPendingKeeps, BeginKeeps, PruneReceiptsKeeps,
     DeclineKeeps DEF ClientNext
<1>2. ASSUME NEW p \in Actors, WorkNext(p)
      PROVE  JournalSafe'
  BY <1>2, QueryKeeps, VerifyKeeps, ApplyKeeps, RejectKeeps, RecordKeeps, GitStepKeeps,
     CommitStepKeeps DEF WorkNext
<1>3. ASSUME NEW p \in Actors, RecoverNext(p)
      PROVE  JournalSafe'
  <2>1. RecoverOperations(p) => JournalSafe'
    BY PickKeeps, FaultRange DEF RecoverOperations
  <2>. QED BY <1>3, <2>1, TakeLockKeeps, RecoverCheckKeeps, NoteKeeps DEF RecoverNext
<1>4. ASSUME NEW p \in Actors, AbandonNext(p)
      PROVE  JournalSafe'
  <2>1. AbandonOperation(p) => JournalSafe'
    BY PickKeeps, FaultRange DEF AbandonOperation, FaultKinds
  <2>. QED BY <1>4, <2>1, TakeLockKeeps, AbandonCheckKeeps, AbandonCommitKeeps DEF AbandonNext
<1>5. ASSUME NEW p \in Actors, Crash(p) \/ Orphan(p)
      PROVE  JournalSafe'
  BY <1>5, CrashKeeps, OrphanKeeps
<1>6. CASE UNCHANGED jvars
  <2>1. Idles /\ UNCHANGED <<act, lock, shared, maintenance, backup, faults>>
    BY <1>6 DEF jvars, Idles, data
  <2>2. WorkTypes'
    BY <2>1, SafeParts DEF WorkTypes
  <2>. QED BY <2>1, <2>2, IdlesSpares, AsideKeeps
<1>. QED BY <1>1, <1>2, <1>3, <1>4, <1>5, <1>6, AsideSteps DEF JournalNext

\* Whatever dies, fails or is given up, and whoever replays: work is done by
\* one actor at a time, on an operation that is unfinished; Git has a push's
\* receipt exactly if it changed for it; and unless a git command outlives its
\* process, an operation is recorded as done only if Git was changed and a
\* push as dropped only if it was not, and rows and directory differ by no
\* more than the operation that is unfinished.
THEOREM JournalInvariant == JournalSpec => []JournalSafe
<1>1. JournalInit => JournalSafe
  BY InitSafe
<1>2. JournalSafe /\ [JournalNext]_jvars => JournalSafe'
  BY NextSafe
<1>. QED BY <1>1, <1>2, PTL DEF JournalSpec

----------------------------------------------------------------------------
(* How operations end.                                                     *)

\* How a step changes the operations' rows and the repository's.
LEMMA RowSteps ==
  ASSUME JournalSafe, [JournalNext]_jvars
  PROVE  \/ UNCHANGED <<ops, repo>>
         \/ SyncRefs
         \/ \E o \in OpIDs, i \in Intents, p \in Actors :
              /\ ops[o].status = "none" /\ p \in shared
              /\ ops' = [ops EXCEPT ![o] = [status |-> "pending", intent |-> i, failed |-> FALSE]]
              /\ UNCHANGED repo
         \/ \E o \in OpIDs : PendingOp(o) /\ Complete(o, FALSE)
         \/ \E o \in OpIDs, p \in Actors :
              /\ PendingOp(o) /\ Complete(o, TRUE) /\ UNCHANGED repo
              /\ ops[o].intent.kind = "push" \/ act[p].pc = "acommit"
         \/ \E o \in OpIDs : /\ ops' = [ops EXCEPT ![o].failed = @ \/ PendingOp(o)]
                             /\ UNCHANGED repo
         \/ \E o \in OpIDs : PruneOp(o)
<1> DEFINE Goal == \/ UNCHANGED <<ops, repo>>
                   \/ SyncRefs
                   \/ \E o \in OpIDs, i \in Intents, p \in Actors :
                        /\ ops[o].status = "none" /\ p \in shared
                        /\ ops' = [ops EXCEPT ![o] =
                                     [status |-> "pending", intent |-> i, failed |-> FALSE]]
                        /\ UNCHANGED repo
                   \/ \E o \in OpIDs : PendingOp(o) /\ Complete(o, FALSE)
                   \/ \E o \in OpIDs, p \in Actors :
                        /\ PendingOp(o) /\ Complete(o, TRUE) /\ UNCHANGED repo
                        /\ ops[o].intent.kind = "push" \/ act[p].pc = "acommit"
                   \/ \E o \in OpIDs : /\ ops' = [ops EXCEPT ![o].failed = @ \/ PendingOp(o)]
                                       /\ UNCHANGED repo
                   \/ \E o \in OpIDs : PruneOp(o)
<1> SUFFICES Goal
  OBVIOUS
<1>1. ASSUME NEW p \in Actors, ClientNext(p)
      PROVE  Goal
  <2>1. CASE Begin(p)
    <3>1. NewOp \in OpIDs /\ ops[NewOp].status = "none"
      BY <2>1 DEF Begin, NewOp
    <3>2. p \in shared
      BY <2>1, SafeParts DEF Works, Fits, Begin, At
    <3>. QED BY <2>1, <3>1, <3>2 DEF Begin, Call, data
  <2>2. CASE ~Begin(p)
    BY <1>1, <2>2 DEF ClientNext, Admit, TakeLock, CheckPending, PruneReceipts, Decline, Call, data
  <2>. QED BY <2>1, <2>2
<1>2. ASSUME NEW p \in Actors, WorkNext(p)
      PROVE  Goal
  <2>1. /\ act[p].pc \in Busy /\ Op(p) \in OpIDs /\ PendingOp(Op(p))
        /\ act[p].pc \in PushSteps => ops[Op(p)].intent.kind = "push"
    <3>1. act[p].pc \in Busy
      BY <1>2 DEF WorkNext, Query, Verify, ApplyOperation, RejectOperation, RecordPush, GitStep,
                  CommitStep, At, Busy, PushSteps
    <3>. QED BY <3>1, AtWork DEF Plan
  <2>2. CASE RejectOperation(p)
    <3>1. act[p].pc \in PushSteps
      BY <2>2 DEF RejectOperation, At, PushSteps
    <3>. QED BY <2>1, <2>2, <3>1 DEF RejectOperation, Call, DropOp, data
  <2>3. CASE RecordPush(p)
    BY <2>1, <2>3 DEF RecordPush, Call, data
  <2>4. CASE CommitStep(p)
    BY <2>1, <2>4 DEF CommitStep, Call, RowChange, data
  <2>5. CASE Query(p) \/ Verify(p) \/ ApplyOperation(p) \/ GitStep(p)
    BY <2>5 DEF Query, Verify, ApplyOperation, GitStep, GitChange, UpdateRefs, Call, data
  <2>. QED BY <1>2, <2>2, <2>3, <2>4, <2>5 DEF WorkNext
<1>3. ASSUME NEW p \in Actors, RecoverNext(p)
      PROVE  Goal
  <2>1. CASE Note(p)
    <3>1. Op(p) \in OpIDs
      BY <2>1, SafeParts DEF Note, At, Works, Fits, Op
    <3>. QED BY <2>1, <3>1 DEF Note, Call, data
  <2>2. CASE ~Note(p)
    BY <1>3, <2>2 DEF RecoverNext, RecoverOperations, Pick, TakeLock, RecoverCheck, data
  <2>. QED BY <2>1, <2>2
<1>4. ASSUME NEW p \in Actors, AbandonNext(p)
      PROVE  Goal
  <2>1. CASE AbandonCommit(p)
    <3>1. act[p].pc = "acommit" /\ Op(p) \in OpIDs /\ PendingOp(Op(p))
      BY <2>1, AtWork DEF AbandonCommit, At, Busy
    <3>. QED BY <2>1, <3>1 DEF AbandonCommit, Call, data
  <2>2. CASE ~AbandonCommit(p)
    BY <1>4, <2>2 DEF AbandonNext, AbandonOperation, Pick, TakeLock, AbandonCheck, data
  <2>. QED BY <2>1, <2>2
<1>5. ASSUME NEW p \in Actors, Crash(p) \/ Orphan(p)
      PROVE  Goal
  BY <1>5 DEF Crash, Orphan, Gone, data
<1>6. CASE \/ \E o \in OpIDs : PruneOp(o) \/ LateUpdate(o)
           \/ QuarantineOrphans \/ SyncRefs \/ BackupNext \/ Outside
  BY <1>6 DEF LateUpdate, UpdateRefs, QuarantineOrphans, BackupNext, SetMaintenance,
              SnapshotLease, DumpDatabase, ArchiveRepositories, SetBackup, Outside, data
<1>7. CASE UNCHANGED jvars
  BY <1>7 DEF jvars
<1>. QED BY <1>1, <1>2, <1>3, <1>4, <1>5, <1>6, <1>7 DEF JournalNext

\* No step rewrites how an operation ended, not even an actor that listed it
\* when it was unfinished.
THEOREM OutcomesFinal == JournalSpec => OutcomeFinal
<1>1. JournalSafe /\ [JournalNext]_jvars => [OutcomeKept]_jvars
  <2> SUFFICES ASSUME JournalSafe, [JournalNext]_jvars, NEW q \in OpIDs, ops[q].status = "completed"
               PROVE  ops'[q].status \in {"completed", "pruned"} /\ ops'[q].failed = ops[q].failed
    BY DEF OutcomeKept
  <2>1. DataSafe /\ DataTypes
    BY SafeParts DEF DataSafe
  <2>2. CASE UNCHANGED <<ops, repo>> \/ SyncRefs
    BY <2>2 DEF SyncRefs
  <2>3. ASSUME NEW o \in OpIDs, NEW i \in Intents, ops[o].status = "none",
               ops' = [ops EXCEPT ![o] = [status |-> "pending", intent |-> i, failed |-> FALSE]]
        PROVE  ops'[q] = ops[q]
    BY <2>1, <2>3 DEF DataTypes
  <2>4. ASSUME NEW o \in OpIDs, NEW failed \in BOOLEAN, PendingOp(o), Complete(o, failed)
        PROVE  ops'[q] = ops[q]
    BY <2>1, <2>4, OpCompleted DEF PendingOp
  <2>5. ASSUME NEW o \in OpIDs, ops' = [ops EXCEPT ![o].failed = @ \/ PendingOp(o)]
        PROVE  ops'[q].status = ops[q].status /\ ops'[q].failed = ops[q].failed
    <3>1. CASE o # q
      BY <2>1, <2>5, <3>1 DEF DataTypes
    <3>2. CASE o = q
      <4>1. ops[q] \in Operation /\ ~PendingOp(q)
        BY <2>1 DEF DataTypes, PendingOp
      <4>2. ops'[q] = [ops[q] EXCEPT !.failed = ops[q].failed \/ PendingOp(q)]
        BY <2>1, <2>5, <3>2 DEF DataTypes
      <4>. QED BY <4>1, <4>2 DEF Operation
    <3>. QED BY <3>1, <3>2
  <2>6. ASSUME NEW o \in OpIDs, PruneOp(o)
        PROVE  ops'[q].status \in {"completed", "pruned"} /\ ops'[q].failed = ops[q].failed
    BY <2>1, <2>6, PruneData DEF PruneOp, Quiet
  <2>. QED BY <2>2, <2>3, <2>4, <2>5, <2>6, RowSteps
<1>. QED BY <1>1, JournalInvariant, PTL DEF JournalSpec, OutcomeFinal

\* Git is changed for an operation by update-ref only while it has no receipt.
LEMMA FirstChange ==
  ASSUME JournalSafe, NEW o \in OpIDs, PendingOp(o) \/ late[o] = "running",
         ops[o].intent.kind = "push", Updatable(o)
  PROVE  o \notin changed
BY SafeParts DEF DataSafe, ReceiptsTell, Updatable

\* Git applies a push at most once, however often it is replayed, whichever
\* processes die and whatever command outlives them: nothing puts back a ref
\* that has moved since.
THEOREM PushesAppliedOnce == JournalSpec => AppliedOnce
<1> DEFINE Moved == \/ ~git.dir \/ ~git'.dir \/ git'.refs = git.refs \/ touched'
                    \/ \E o \in OpIDs : o \notin changed /\ o \in changed'
<1>1. ASSUME JournalSafe, [JournalNext]_jvars
      PROVE  Moved
  <2>1. git \in Directory
    BY <1>1, SafeParts DEF DataSafe, DataTypes
  <2>2. ASSUME NEW p \in Actors, ClientNext(p)
        PROVE  Moved
    <3>1. CASE PruneReceipts(p)
      <4>1. \/ git' = git
            \/ git' = [git EXCEPT !.receipts =
                         {o \in @ : ops[o].status \in {"pending", "completed"}}]
        BY <3>1 DEF PruneReceipts, Call, data
      <4>. QED BY <2>1, <4>1 DEF Directory
    <3>2. CASE ~PruneReceipts(p)
      BY <2>2, <3>2 DEF ClientNext, Admit, TakeLock, CheckPending, Begin, Decline, Call, data
    <3>. QED BY <3>1, <3>2
  <2>3. ASSUME NEW p \in Actors, WorkNext(p)
        PROVE  Moved
    <3>1. CASE ApplyOperation(p)
      <4>1. /\ act[p].pc \in PushSteps /\ act[p].pc \in Busy
        BY <3>1 DEF ApplyOperation, At, PushSteps, Busy
      <4>2. CASE Updatable(Op(p)) /\ UpdateRefs(Op(p))
        <5>1. Op(p) \in OpIDs /\ Op(p) \notin changed
          BY <1>1, <4>1, <4>2, AtWork, FirstChange DEF Plan
        <5>. QED BY <4>2, <5>1 DEF UpdateRefs
      <4>. QED BY <3>1, <4>2 DEF ApplyOperation, Call, data
    <3>2. CASE GitStep(p)
      <4>1. CASE GitChange(Op(p))
        <5>1. /\ Plan(p).kind = "create" /\ git.dir => git' = git
              /\ Plan(p).kind = "delete" => git' = NoDir
              /\ Plan(p).kind = "head" => git' = [git EXCEPT !.head = Plan(p).ref]
          BY <4>1 DEF GitChange, Plan
        <5>2. act[p].pc \in Busy /\ act[p].pc = "git"
          BY <3>2 DEF GitStep, At, Busy
        <5>3. Plan(p) \in Intent /\ Plan(p).kind # "push"
          BY <1>1, <5>2, AtWork, SafeParts DEF DataSafe, DataTypes, Operation, Plan
        <5>4. Plan(p).kind \in {"create", "delete", "head"}
          BY <5>3 DEF Intent, AllKinds
        <5>5. Plan(p).kind = "head" => git'.refs = git.refs
          BY <2>1, <5>1 DEF Directory
        <5>. QED BY <5>1, <5>4, <5>5, NoDirTyped
      <4>2. CASE ~GitChange(Op(p))
        BY <3>2, <4>2 DEF GitStep, Call, data
      <4>. QED BY <4>1, <4>2
    <3>3. CASE ~ApplyOperation(p) /\ ~GitStep(p)
      BY <2>3, <3>3 DEF WorkNext, Query, Verify, RejectOperation, RecordPush, CommitStep,
                        RowChange, Call, data
    <3>. QED BY <3>1, <3>2, <3>3
  <2>4. ASSUME NEW p \in Actors, RecoverNext(p) \/ AbandonNext(p) \/ Crash(p) \/ Orphan(p)
        PROVE  git' = git
    BY <2>4 DEF RecoverNext, RecoverOperations, Pick, TakeLock, RecoverCheck, Note, AbandonNext,
                AbandonOperation, AbandonCheck, AbandonCommit, Crash, Orphan, Gone, Call, data
  <2>5. ASSUME NEW o \in OpIDs, LateUpdate(o)
        PROVE  Moved
    <3>1. late[o] = "running" /\ ops[o].intent.kind = "push"
      BY <1>1, <2>5, SafeParts DEF LateUpdate, DataSafe, ReceiptsTell
    <3>2. CASE Updatable(o) /\ UpdateRefs(o)
      BY <1>1, <3>1, <3>2, FirstChange DEF UpdateRefs
    <3>. QED BY <2>5, <3>2 DEF LateUpdate, data
  <2>6. CASE QuarantineOrphans
    BY <2>6, NoDirTyped DEF QuarantineOrphans
  <2>7. CASE \/ \E o \in OpIDs : PruneOp(o)
             \/ SyncRefs \/ BackupNext \/ Outside
    BY <2>7 DEF PruneOp, SyncRefs, BackupNext, SetMaintenance, SnapshotLease, DumpDatabase,
                ArchiveRepositories, SetBackup, Outside, data
  <2>8. CASE UNCHANGED jvars
    BY <2>8 DEF jvars
  <2>. QED BY <1>1, <2>2, <2>3, <2>4, <2>5, <2>6, <2>7, <2>8 DEF JournalNext
<1>2. JournalSafe /\ [JournalNext]_jvars => [MovedForFirstTime]_jvars
  BY <1>1 DEF MovedForFirstTime
<1>. QED BY <1>2, JournalInvariant, PTL DEF JournalSpec, AppliedOnce

----------------------------------------------------------------------------
(* Backups.                                                                *)

\* No operator gave up an operation, and nobody moved a ref behind Gitman.
Undisturbed == ~GivenUp /\ ~touched

\* While a backup is taken nothing is admitted and nothing unfinished, so the
\* rows dumped are still the rows when the directories are archived.
BackupKept ==
  /\ backup.pc \in {"dump", "archive"} => backup.lease
  /\ backup.lease => shared = {} /\ ~Pending
  /\ backup.pc = "archive" /\ InTime => backup.db = repo
  /\ BackupConsistent

\* A step admits no one while a backup is taken, and begins no operation
\* without being admitted; a late command stays late.
LEMMA LeaseSteps ==
  ASSUME JournalSafe, [JournalNext]_jvars
  PROVE  /\ backup.lease => shared' \subseteq shared
         /\ Pending' => Pending \/ shared # {}
         /\ InTime' => InTime
         /\ UNCHANGED backup \/ (BackupNext /\ UNCHANGED <<data, act, shared, late>>)
<1>1. backup.lease => shared' \subseteq shared
  <2>1. ASSUME NEW p \in Actors, ClientNext(p), backup.lease
        PROVE  shared' \subseteq shared
    BY <2>1 DEF ClientNext, Admit, TakeLock, CheckPending, Begin, PruneReceipts, Decline, Call, Go,
                Leave
  <2>2. ASSUME NEW p \in Actors, WorkNext(p)
        PROVE  shared' \subseteq shared
    BY <2>2 DEF WorkNext, Query, Verify, ApplyOperation, RejectOperation, RecordPush, GitStep,
                CommitStep, Call, Go, Fail, Leave
  <2>3. ASSUME NEW p \in Actors,
               RecoverNext(p) \/ AbandonNext(p) \/ Crash(p) \/ Orphan(p)
        PROVE  shared' \subseteq shared
    BY <2>3 DEF RecoverNext, RecoverOperations, Pick, TakeLock, RecoverCheck, Note, AbandonNext,
                AbandonOperation, AbandonCheck, AbandonCommit, Crash, Orphan, Gone, Call, Go, Fail,
                Leave
  <2>4. CASE \/ \E o \in OpIDs : PruneOp(o) \/ LateUpdate(o)
             \/ QuarantineOrphans \/ SyncRefs \/ BackupNext \/ Outside
    BY <2>4 DEF PruneOp, LateUpdate, QuarantineOrphans, SyncRefs, BackupNext, SetMaintenance,
                SnapshotLease, DumpDatabase, ArchiveRepositories, SetBackup, Outside
  <2>5. CASE UNCHANGED jvars
    BY <2>5 DEF jvars
  <2>. QED BY <2>1, <2>2, <2>3, <2>4, <2>5 DEF JournalNext
<1>2. Pending' => Pending \/ shared # {}
  <2> SUFFICES ASSUME ~Pending, shared = {}, NEW q \in OpIDs
               PROVE  ops'[q].status # "pending"
    BY DEF Pending, PendingOp
  <2>1. DataSafe /\ DataTypes /\ \A o \in OpIDs : ops[o].status # "pending"
    BY SafeParts DEF DataSafe, Pending, PendingOp
  <2>2. ASSUME NEW o \in OpIDs, ops' = [ops EXCEPT ![o].failed = @ \/ PendingOp(o)]
        PROVE  ops'[q].status = ops[q].status
    BY <2>1, <2>2 DEF DataTypes, Operation
  <2>3. ASSUME NEW o \in OpIDs, PruneOp(o)
        PROVE  ops'[q].status # "pending"
    BY <2>1, <2>3, PruneData DEF PruneOp, Quiet
  <2>. QED BY <2>1, <2>2, <2>3, RowSteps DEF SyncRefs, PendingOp
<1>3. InTime' => InTime
  <2>1. CASE UNCHANGED late
    BY <2>1 DEF InTime
  <2>2. ASSUME NEW o \in OpIDs, LateUpdate(o)
        PROVE  ~InTime'
    BY <2>2, LateData, SafeParts DEF LateUpdate
  <2>3. ASSUME NEW p \in Actors, Orphan(p)
        PROVE  ~InTime'
    <3>1. act[p].pc \in Busy /\ Op(p) \in OpIDs /\ late \in [OpIDs -> {"no", "running", "ended"}]
      BY <2>3, AtWork, SafeParts DEF Orphan, At, Busy, PushSteps, DataSafe, DataTypes
    <3>. QED BY <2>3, <3>1 DEF Orphan, InTime
  <2>4. ASSUME NEW p \in Actors, ClientNext(p) \/ WorkNext(p) \/ RecoverNext(p) \/ AbandonNext(p)
        PROVE  UNCHANGED late
    BY <2>4 DEF ClientNext, Admit, TakeLock, CheckPending, Begin, PruneReceipts, Decline, WorkNext,
                Query, Verify, ApplyOperation, RejectOperation, RecordPush, GitStep, CommitStep,
                RecoverNext, RecoverOperations, Pick, RecoverCheck, Note, AbandonNext,
                AbandonOperation, AbandonCheck, AbandonCommit, Quiet
  <2>5. ASSUME NEW p \in Actors, Crash(p)
        PROVE  UNCHANGED late
    BY <2>5 DEF Crash
  <2>6. CASE \/ \E o \in OpIDs : PruneOp(o)
             \/ QuarantineOrphans \/ SyncRefs \/ BackupNext \/ Outside
    BY <2>6 DEF PruneOp, QuarantineOrphans, SyncRefs, BackupNext, SetMaintenance, SnapshotLease,
                DumpDatabase, ArchiveRepositories, SetBackup, Outside, Quiet, InTime
  <2>7. CASE UNCHANGED jvars
    BY <2>7 DEF jvars, InTime
  <2>. QED BY <2>1, <2>2, <2>3, <2>4, <2>5, <2>6, <2>7 DEF JournalNext
<1>4. UNCHANGED backup \/ (BackupNext /\ UNCHANGED <<data, act, shared, late>>)
  <2>1. ASSUME NEW p \in Actors, ClientNext(p) \/ WorkNext(p) \/ RecoverNext(p) \/ AbandonNext(p)
        PROVE  UNCHANGED backup
    BY <2>1 DEF ClientNext, Admit, TakeLock, CheckPending, Begin, PruneReceipts, Decline, WorkNext,
                Query, Verify, ApplyOperation, RejectOperation, RecordPush, GitStep, CommitStep,
                RecoverNext, RecoverOperations, Pick, RecoverCheck, Note, AbandonNext,
                AbandonOperation, AbandonCheck, AbandonCommit, Quiet
  <2>2. ASSUME NEW p \in Actors, Crash(p) \/ Orphan(p)
        PROVE  UNCHANGED backup
    BY <2>2 DEF Crash, Orphan, Gone
  <2>3. CASE \/ \E o \in OpIDs : PruneOp(o) \/ LateUpdate(o)
             \/ QuarantineOrphans \/ SyncRefs \/ Outside
    BY <2>3 DEF PruneOp, LateUpdate, QuarantineOrphans, SyncRefs, Outside, Quiet
  <2>4. CASE BackupNext
    BY <2>4 DEF BackupNext, SetMaintenance, SnapshotLease, DumpDatabase, ArchiveRepositories,
                SetBackup
  <2>5. CASE UNCHANGED jvars
    BY <2>5 DEF jvars
  <2>. QED BY <2>1, <2>2, <2>3, <2>4, <2>5 DEF JournalNext
<1>. QED BY <1>1, <1>2, <1>3, <1>4

\* A step while a backup is taken leaves the repository's row as it is.
LEMMA RowStands ==
  ASSUME JournalSafe, [JournalNext]_jvars, Undisturbed, InTime, ~Pending
  PROVE  repo' = repo
<1>1. Agree
  BY DEF JournalSafe, StoresAgree, Undisturbed
<1>2. CASE SyncRefs
  <2>1. repo \in Row /\ repo.index = git.refs
    BY <1>1, <1>2, SafeParts DEF SyncRefs, Agree, Undisturbed, JournalSafe, JournalTypeOK
  <2>. QED BY <1>2, <2>1 DEF SyncRefs, Synced, Row
<1>3. CASE ~SyncRefs
  BY <1>3, RowSteps DEF Pending, PruneOp
<1>. QED BY <1>2, <1>3

\* Every step keeps BackupKept while nobody interferes.
LEMMA BackupSteps ==
  ASSUME JournalSafe, BackupKept, Undisturbed, [JournalNext]_jvars
  PROVE  BackupKept'
<1>1. backup \in Backup /\ repo \in Row
  BY DEF JournalSafe, JournalTypeOK
<1>2. InTime' => InTime
  BY LeaseSteps
<1>3. InTime /\ ~Pending => Agree
  BY DEF JournalSafe, StoresAgree, Undisturbed
<1>4. CASE UNCHANGED backup
  <2>1. backup.lease => shared' = {} /\ ~Pending'
    BY LeaseSteps DEF BackupKept
  <2>2. backup.pc = "archive" /\ InTime' => backup.db = repo'
    BY <1>2, RowStands DEF BackupKept
  <2>. QED BY <1>2, <1>4, <2>1, <2>2 DEF BackupKept, BackupConsistent
<1>5. CASE BackupNext /\ UNCHANGED <<data, act, shared, late>>
  <2>1. UNCHANGED <<repo, shared>> /\ (Pending' <=> Pending) /\ (InTime' <=> InTime)
    BY <1>5 DEF data, Pending, PendingOp, InTime
  <2>2. CASE SetMaintenance(~maintenance)
    BY <1>2, <2>1, <2>2 DEF SetMaintenance, BackupKept, BackupConsistent
  <2>3. CASE SnapshotLease
    <3>1. backup'.pc = "dump" /\ backup'.lease /\ shared = {} /\ ~Pending
      BY <1>1, <2>3 DEF SnapshotLease, SetBackup, Ready, Backup
    <3>. QED BY <2>1, <3>1 DEF BackupKept, BackupConsistent
  <2>4. CASE DumpDatabase
    <3>1. /\ backup'.pc = "archive" /\ backup'.db = repo
          /\ backup.pc = "dump" /\ backup'.lease = backup.lease
      BY <1>1, <2>4 DEF DumpDatabase, SetBackup, Backup
    <3>. QED BY <2>1, <3>1 DEF BackupKept, BackupConsistent
  <2>5. CASE ArchiveRepositories
    <3>1. /\ backup'.pc = "done" /\ ~backup'.lease /\ backup'.files = git
          /\ backup.pc = "archive" /\ backup'.db = backup.db
      BY <1>1, <2>5 DEF ArchiveRepositories, SetBackup, Backup
    <3>2. InTime => backup.db = repo /\ Agree
      BY <1>3, <3>1 DEF BackupKept
    <3>. QED BY <2>1, <3>1, <3>2 DEF BackupKept, BackupConsistent, Agree, Undisturbed
  <2>. QED BY <1>5, <2>2, <2>3, <2>4, <2>5 DEF BackupNext
<1>. QED BY <1>4, <1>5, LeaseSteps

\* A completed backup holds rows and directories that belong together, whatever
\* ran, failed, died or was replayed before and during it, unless an operator
\* gave up an unfinished operation or somebody moved refs without Gitman.
THEOREM BackupsConsistent == JournalSpec /\ []Undisturbed => []BackupConsistent
<1>1. JournalInit => BackupKept
  BY DEF JournalInit, BackupKept, BackupConsistent
<1>2. JournalSafe /\ Undisturbed /\ BackupKept /\ [JournalNext]_jvars => BackupKept'
  BY BackupSteps
<1>3. BackupKept => BackupConsistent
  BY DEF BackupKept
<1>. QED BY <1>1, <1>2, <1>3, JournalInvariant, PTL DEF JournalSpec

\* Nobody starts to abandon an operation, and nobody moves a ref.
NoOperator ==
  Undisturbed /\ \A p \in Actors : act[p].pc \notin {"alock", "alook", "acommit"}

\* Without operators who abandon and without changes behind Gitman's back,
\* nothing is given up.
LEMMA NoOperatorSteps ==
  ASSUME JournalSafe, NoOperator, [JournalNext]_jvars,
         "abandon" \notin Faults, "outside" \notin Faults
  PROVE  NoOperator'
<1>1. act \in [Actors -> Actor] /\ touched = FALSE
  BY DEF JournalSafe, JournalTypeOK, NoOperator, Undisturbed
<1>2. ~Outside /\ \A p \in Actors : ~AbandonNext(p)
  <2>1. ASSUME NEW p \in Actors
        PROVE  ~AbandonNext(p)
    BY DEF AbandonNext, AbandonOperation, TakeLock, AbandonCheck, AbandonCommit, At, Fault,
           NoOperator
  <2>. QED BY <2>1 DEF Outside, Fault
<1>3. touched' = FALSE
  <2>1. ASSUME NEW p \in Actors, ClientNext(p) \/ WorkNext(p) \/ RecoverNext(p)
        PROVE  touched' \in {touched, FALSE}
    BY <2>1 DEF ClientNext, Admit, TakeLock, CheckPending, Begin, PruneReceipts, Decline, WorkNext,
                Query, Verify, ApplyOperation, RejectOperation, RecordPush, GitStep, CommitStep,
                RecoverNext, RecoverOperations, Pick, RecoverCheck, Note, Call, data, UpdateRefs,
                GitChange, RowChange
  <2>2. ASSUME NEW p \in Actors, Crash(p) \/ Orphan(p)
        PROVE  UNCHANGED touched
    BY <2>2 DEF Crash, Orphan, Gone, data
  <2>3. CASE \/ \E o \in OpIDs : PruneOp(o) \/ LateUpdate(o)
             \/ QuarantineOrphans \/ SyncRefs \/ BackupNext
    BY <1>1, <2>3 DEF PruneOp, LateUpdate, UpdateRefs, QuarantineOrphans, SyncRefs, BackupNext,
                SetMaintenance, SnapshotLease, DumpDatabase, ArchiveRepositories, SetBackup, data
  <2>4. CASE UNCHANGED jvars
    BY <1>1, <2>4 DEF jvars
  <2>. QED BY <1>1, <1>2, <2>1, <2>2, <2>3, <2>4 DEF JournalNext
<1>4. ~GivenUp'
  <2> SUFFICES ASSUME NEW q \in OpIDs, ops'[q].status \in {"completed", "pruned"}, ops'[q].failed,
                      ops'[q].intent.kind # "push"
               PROVE  FALSE
    BY DEF GivenUp
  <2>1. /\ ops \in [OpIDs -> Operation]
        /\ ~(/\ ops[q].status \in {"completed", "pruned"} /\ ops[q].failed
             /\ ops[q].intent.kind # "push")
    BY DEF JournalSafe, JournalTypeOK, NoOperator, Undisturbed, GivenUp
  <2>2. ASSUME NEW o \in OpIDs, PendingOp(o), Complete(o, FALSE)
        PROVE  FALSE
    BY <2>1, <2>2 DEF Complete, Operation, PendingOp
  <2>3. ASSUME NEW o \in OpIDs, NEW p \in Actors, PendingOp(o), Complete(o, TRUE),
               ops[o].intent.kind = "push" \/ act[p].pc = "acommit"
        PROVE  FALSE
    BY <2>1, <2>3 DEF Complete, Operation, PendingOp, NoOperator
  <2>4. ASSUME NEW o \in OpIDs, ops' = [ops EXCEPT ![o].failed = @ \/ PendingOp(o)]
        PROVE  FALSE
    BY <2>1, <2>4 DEF Operation, PendingOp
  <2>5. ASSUME NEW o \in OpIDs, PruneOp(o)
        PROVE  FALSE
    BY <2>1, <2>5 DEF PruneOp, Operation
  <2>6. ASSUME NEW o \in OpIDs, NEW i \in Intents,
               ops' = [ops EXCEPT ![o] = [status |-> "pending", intent |-> i, failed |-> FALSE]]
        PROVE  FALSE
    BY <2>1, <2>6 DEF Operation
  <2>. QED BY <2>1, <2>2, <2>3, <2>4, <2>5, <2>6, RowSteps DEF SyncRefs
<1>5. ASSUME NEW r \in Actors
      PROVE  act'[r].pc \notin {"alock", "alook", "acommit"}
  <2>1. act[r].pc \notin {"alock", "alook", "acommit"}
    BY DEF NoOperator
  <2>2. ASSUME NEW p \in Actors, ClientNext(p)
        PROVE  act'[r].pc \notin {"alock", "alook", "acommit"}
    <3>1. CASE Begin(p)
      <4>1. PICK i \in Intents : \/ act' = [act EXCEPT ![p].pc = FirstStep(i.kind), ![p].op = NewOp]
                                 \/ act' = [act EXCEPT ![p] = Idle]
        BY <3>1 DEF Begin, Call, Leave
      <4>. QED BY <1>1, <2>1, <4>1 DEF FirstStep, Actor, Idle
    <3>2. CASE ~Begin(p)
      BY <1>1, <2>1, <2>2, <3>2 DEF ClientNext, Admit, TakeLock, CheckPending, PruneReceipts,
         Decline, Call, Go, Leave, Idle, Actor
    <3>. QED BY <3>1, <3>2
  <2>3. ASSUME NEW p \in Actors, WorkNext(p)
        PROVE  act'[r].pc \notin {"alock", "alook", "acommit"}
    <3>1. CASE Query(p) \/ Verify(p)
      BY <1>1, <2>1, <3>1 DEF Query, Verify, Go, Fail, Leave, Idle, Actor
    <3>2. CASE ApplyOperation(p) \/ GitStep(p)
      BY <1>1, <2>1, <3>2 DEF ApplyOperation, GitStep, Call, Go, Fail, Leave, Idle, Actor
    <3>3. CASE RejectOperation(p) \/ RecordPush(p) \/ CommitStep(p)
      <4>1. \/ act' = [act EXCEPT ![p] = Idle]
            \/ act' = [act EXCEPT ![p].pc = "note"]
        BY <3>3 DEF RejectOperation, RecordPush, CommitStep, Call, Fail, Leave
      <4>. QED BY <1>1, <2>1, <4>1 DEF Actor, Idle
    <3>. QED BY <2>3, <3>1, <3>2, <3>3 DEF WorkNext
  <2>4. ASSUME NEW p \in Actors, RecoverNext(p) \/ Crash(p) \/ Orphan(p)
        PROVE  act'[r].pc \notin {"alock", "alook", "acommit"}
    BY <1>1, <2>1, <2>4 DEF RecoverNext, RecoverOperations, Pick, TakeLock, RecoverCheck, Note,
       Crash, Orphan, Gone, Call, Go, Fail, Leave, Idle, Actor, FirstStep
  <2>5. CASE \/ \E o \in OpIDs : PruneOp(o) \/ LateUpdate(o)
             \/ QuarantineOrphans \/ SyncRefs \/ BackupNext
    BY <2>1, <2>5 DEF PruneOp, LateUpdate, QuarantineOrphans, SyncRefs, BackupNext,
       SetMaintenance, SnapshotLease, DumpDatabase, ArchiveRepositories, SetBackup
  <2>6. CASE UNCHANGED jvars
    BY <2>1, <2>6 DEF jvars
  <2>. QED BY <1>2, <2>2, <2>3, <2>4, <2>5, <2>6 DEF JournalNext
<1>. QED BY <1>3, <1>4, <1>5 DEF NoOperator, Undisturbed

\* While no operator abandons operations and nobody changes refs without
\* Gitman, every completed backup is consistent.
THEOREM QuietBackupsConsistent ==
  ASSUME "abandon" \notin Faults, "outside" \notin Faults
  PROVE  JournalSpec => []BackupConsistent
<1>1. JournalInit => NoOperator
  BY DEF JournalInit, NoOperator, Undisturbed, GivenUp, Idle
<1>2. JournalSafe /\ NoOperator /\ [JournalNext]_jvars => NoOperator'
  BY NoOperatorSteps
<1>3. NoOperator => Undisturbed
  BY DEF NoOperator
<1>. QED BY <1>1, <1>2, <1>3, JournalInvariant, BackupsConsistent, PTL DEF JournalSpec
=============================================================================
