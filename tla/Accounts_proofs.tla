-------------------------- MODULE Accounts_proofs --------------------------
(***************************************************************************)
(* Theorems about Accounts, for any number of people, requests, addresses  *)
(* and credentials, and any limits.                                        *)
(***************************************************************************)
EXTENDS Accounts, TLAPS

----------------------------------------------------------------------------
(* Rows and requests.                                                      *)

\* The absence of a row is not a row.
LEMMA NoneIsNoRow == None \notin Person /\ None \notin Credential
<1>1. DOMAIN None = {"none"}
  BY DEF None
<1>2. \A p \in Person : "admin" \in DOMAIN p
  BY DEF Person
<1>3. \A c \in Credential : "kind" \in DOMAIN c
  BY DEF Credential
<1>. QED BY <1>1, <1>2, <1>3

\* What a request knows, by what it is doing.
LEMMA RequestShapes ==
  ASSUME NEW q \in Request
  PROVE  /\ q.op \in {"idle", "login", "change", "insert", "commit", "lock", "apply"}
         /\ q.op = "login" => q \in [op : {"login"}, who : People, from : Addresses]
         /\ q.op = "change" => q \in [op : {"change"}, who : People, gen : Nat, proof : Nat]
         /\ q.op = "insert" =>
              q \in [op : {"insert"}, kind : {"session", "token"}, who : People,
                     gen : Nat, proof : Nat]
         /\ q.op = "commit" =>
              q \in [op : {"commit"}, id : Creds, row : Credential, pruned : SUBSET Creds]
         /\ q.op \in {"lock", "apply"} =>
              q \in [op : {"lock", "apply"}, how : {"disable", "demote"}, who : People,
                     admins : SUBSET People]
BY DEF Request, Idle

\* The rows of a typed table.
LEMMA RowsTyped ==
  ASSUME AccountsTypeOK
  PROVE  /\ \A p \in Known : p \in People /\ people[p] \in Person
         /\ \A c \in Rows : c \in Creds /\ creds[c] \in Credential
         /\ \A r \in Requests : request[r] \in Request
         /\ EnabledAdmins \subseteq People
BY DEF AccountsTypeOK, Known, Rows, EnabledAdmins

----------------------------------------------------------------------------
(* What a step does to each table.                                         *)

RowOK(c) == c \in Credential /\ c.who \in Known /\ Proven(c)

RequestOK(q) ==
  /\ q \in Request
  /\ q.op \in {"change", "insert"} => q.who \in Known /\ Proven(q)
  /\ q.op = "commit" => RowOK(q.row)
  /\ q.op \in {"lock", "apply"} => q.who \in Known

\* Nobody's row goes, and generations go on counting revocations.
PeopleStep ==
  /\ people' \in [People -> Person \cup {None}]
  /\ revoked' \in [People -> Nat]
  /\ Known \subseteq Known'
  /\ \A p \in People : IF p \in Known' THEN people'[p].gen = revoked'[p] ELSE revoked'[p] = 0

\* Every row is an old one or a proven one.
CredsStep ==
  creds' \in [Creds -> {c \in Credential : RowOK(c)} \cup {None}]

\* Every request is one that the rows allow.
RequestStep ==
  request' \in [Requests -> {q \in Request : RequestOK(q)}]

\* The limiter counts what is checked, up to the limits.
LimiterStep ==
  /\ entries' \in [Keys -> Nat]
  /\ guesses' \in [Keys -> Nat]
  /\ AttemptsCounted'

\* Whoever is held is held by the same request still, or is an admin as it is
\* locked; and no admin that is held stops being one.
HeldStep == HeldStayAdmins'

Core == AccountsTypeOK /\ GenerationsCount /\ HeldStayAdmins /\ AttemptsCounted

\* The invariant says so of every table.
LEMMA TablesOK ==
  ASSUME Core
  PROVE  /\ \A p \in Known : p \in People /\ people[p] \in Person /\ people[p].gen = revoked[p]
         /\ people \in [People -> Person \cup {None}] /\ revoked \in [People -> Nat]
         /\ creds \in [Creds -> {c \in Credential : RowOK(c)} \cup {None}]
         /\ request \in [Requests -> {q \in Request : RequestOK(q)}]
         /\ \A r \in Requests : RequestOK(request[r])
<1>1. /\ people \in [People -> Person \cup {None}] /\ revoked \in [People -> Nat]
      /\ creds \in [Creds -> Credential \cup {None}]
      /\ request \in [Requests -> Request]
  BY DEF Core, AccountsTypeOK
<1>2. \A p \in Known : p \in People /\ people[p] \in Person /\ people[p].gen = revoked[p]
  BY <1>1 DEF Core, GenerationsCount, Known
<1>3. \A c \in Creds : creds[c] \in {x \in Credential : RowOK(x)} \cup {None}
  BY <1>1 DEF Core, GenerationsCount, Rows, RowOK
<1>4. \A r \in Requests : RequestOK(request[r])
  <2> SUFFICES ASSUME NEW r \in Requests PROVE RequestOK(request[r])
    OBVIOUS
  <2>1. request[r] \in Request
    BY <1>1
  <2>2. request[r].op = "commit" => request[r].row \in Credential
    BY <2>1, RequestShapes
  <2>. QED BY <2>1, <2>2 DEF Core, GenerationsCount, RequestOK, RowOK
<1>. QED BY <1>1, <1>2, <1>3, <1>4

\* A step that keeps every table in order preserves the invariant.
LEMMA CoreStep ==
  ASSUME PeopleStep, CredsStep, RequestStep, LimiterStep, HeldStep, ops' \in 0 .. MaxOps
  PROVE  Core'
<1>1. AccountsTypeOK'
  <2>1. creds' \in [Creds -> Credential \cup {None}]
    BY DEF CredsStep
  <2>2. request' \in [Requests -> Request]
    BY DEF RequestStep
  <2>. QED BY <2>1, <2>2 DEF AccountsTypeOK, PeopleStep, LimiterStep
<1>2. GenerationsCount'
  <2>1. \A c \in Rows' : creds'[c].who \in Known' /\ Proven(creds'[c])
    BY DEF CredsStep, Rows, RowOK, PeopleStep
  <2>2. \A r \in Requests : RequestOK(request'[r])
    BY DEF RequestStep
  <2>3. \A r \in Requests :
          /\ request'[r].op \in {"change", "insert"} =>
               request'[r].who \in Known' /\ Proven(request'[r])
          /\ request'[r].op = "commit" => request'[r].row.who \in Known' /\ Proven(request'[r].row)
          /\ request'[r].op \in {"lock", "apply"} => request'[r].who \in Known'
    BY <2>2 DEF RequestOK, RowOK, PeopleStep
  <2>. QED BY <2>1, <2>3 DEF GenerationsCount, PeopleStep, Proven
<1>. QED BY <1>1, <1>2 DEF Core, HeldStep, LimiterStep

\* Tables that are left alone stay in order.
LEMMA TablesKept ==
  ASSUME Core
  PROVE  /\ UNCHANGED <<people, revoked>> => PeopleStep
         /\ UNCHANGED creds => CredsStep
         /\ UNCHANGED request => RequestStep
         /\ UNCHANGED <<entries, guesses>> => LimiterStep
<1>1. UNCHANGED <<people, revoked>> => PeopleStep
  BY TablesOK DEF PeopleStep, Core, GenerationsCount, Known
<1>2. UNCHANGED <<entries, guesses>> => LimiterStep
  BY DEF LimiterStep, Core, AccountsTypeOK, AttemptsCounted
<1>. QED BY <1>1, <1>2, TablesOK DEF CredsStep, RequestStep

\* A request that goes on to q, where q is in order.
LEMMA RequestGoes ==
  ASSUME Core, NEW r \in Requests, NEW q, RequestOK(q), request' = [request EXCEPT ![r] = q]
  PROVE  RequestStep /\ \A s \in Requests : request'[s] = IF s = r THEN q ELSE request[s]
BY TablesOK DEF RequestStep, RequestOK

\* A request that is over is in order.
LEMMA IdleOK == RequestOK(Idle) /\ Idle.op = "idle"
BY DEF RequestOK, Idle, Request

\* Nobody new is held while the same rows are admins.
LEMMA HeldKept ==
  ASSUME Core, EnabledAdmins \subseteq EnabledAdmins',
         \A r \in Requests : HeldBy(r)' \subseteq HeldBy(r)
  PROVE  HeldStep
BY DEF HeldStep, HeldStayAdmins, Core

\* What a request that does not write holds is what it held, or nothing.
LEMMA HeldSame ==
  ASSUME Core, NEW r \in Requests, NEW q, q.op # "apply", request' = [request EXCEPT ![r] = q]
  PROVE  \A s \in Requests : HeldBy(s)' \subseteq HeldBy(s)
BY DEF HeldBy, Core, AccountsTypeOK

\* Revoking a person's credentials keeps the tables in order.
LEMMA RevokingKeeps ==
  ASSUME Core, NEW p \in Known, NEW row \in Person, Revoking(p, row),
         row.admin = people[p].admin, row.disabled => people[p].disabled
  PROVE  /\ PeopleStep /\ CredsStep
         /\ EnabledAdmins \subseteq EnabledAdmins'
         /\ revoked'[p] = revoked[p] + 1
<1>1. p \in People /\ people[p] \in Person /\ people[p].gen = revoked[p] /\ revoked[p] \in Nat
      /\ people \in [People -> Person \cup {None}] /\ revoked \in [People -> Nat]
  BY TablesOK
<1> DEFINE new == [row EXCEPT !.gen = people[p].gen + 1]
<1>2. new \in Person /\ new.gen = revoked[p] + 1 /\ new.admin = row.admin
      /\ new.disabled = row.disabled /\ new # None
  BY <1>1, NoneIsNoRow DEF Person
<1>3. /\ people' = [people EXCEPT ![p] = new]
      /\ revoked' = [revoked EXCEPT ![p] = @ + 1]
      /\ creds' = WithoutCredentials(p)
  BY DEF Revoking
<1> HIDE DEF new
<1>4. /\ people' \in [People -> Person \cup {None}] /\ revoked' \in [People -> Nat]
      /\ \A x \in People : people'[x] = IF x = p THEN new ELSE people[x]
      /\ \A x \in People : revoked'[x] = IF x = p THEN revoked[p] + 1 ELSE revoked[x]
  BY <1>1, <1>2, <1>3
<1>5. Known \subseteq Known' /\ \A x \in People : x \in Known' <=> x \in Known
  BY <1>1, <1>2, <1>4 DEF Known
<1>6. PeopleStep
  BY <1>1, <1>2, <1>4, <1>5 DEF PeopleStep, Core, GenerationsCount
<1>7. CredsStep
  BY <1>3, TablesOK DEF CredsStep, WithoutCredentials
<1>8. EnabledAdmins \subseteq EnabledAdmins'
  BY <1>1, <1>2, <1>4, <1>5 DEF EnabledAdmins, Known
<1>. QED BY <1>1, <1>4, <1>6, <1>7, <1>8

----------------------------------------------------------------------------
(* The actions.                                                            *)

\* A step of the limiter alone, or of a request that revokes and locks nothing.
LEMMA PlainStep ==
  ASSUME Core, RequestStep, LimiterStep, ops' \in 0 .. MaxOps,
         UNCHANGED <<people, revoked>>, CredsStep,
         \A r \in Requests : HeldBy(r)' \subseteq HeldBy(r)
  PROVE  Core'
<1>1. EnabledAdmins \subseteq EnabledAdmins'
  BY DEF EnabledAdmins, Known
<1>. QED BY <1>1, HeldKept, TablesKept, CoreStep

\* Whoever begins, the count of operations stays in its bound.
LEMMA OpsTyped ==
  ASSUME Core
  PROVE  /\ Begins => ops' \in 0 .. MaxOps
         /\ UNCHANGED ops => ops' \in 0 .. MaxOps
         /\ UNCHANGED request => \A r \in Requests : HeldBy(r)' \subseteq HeldBy(r)
BY AccountsAssumption DEF Core, AccountsTypeOK, Begins, HeldBy

\* A new person starts with no revocation behind them (CreateBootstrap), and the
\* end of a bootstrap password or a promotion leaves generations alone.
LEMMA CreateStep ==
  ASSUME Core, NEW p \in People, NEW b \in BOOLEAN, CreateBootstrap(p, b)
  PROVE  Core' /\ EnabledAdmins \subseteq EnabledAdmins'
<1> DEFINE new == [admin |-> b, disabled |-> FALSE, gen |-> 0, bootstrap |-> "open"]
<1>0. new \in Person /\ new.gen = 0
  BY DEF Person
<1>1. new \in Person /\ new # None /\ new.gen = 0
  <2> HIDE DEF new
  <2>. QED BY <1>0, NoneIsNoRow
<1>2. people[p] = None /\ people' = [people EXCEPT ![p] = new]
      /\ UNCHANGED <<creds, request, entries, revoked, guesses>>
  BY DEF CreateBootstrap
<1> HIDE DEF new
<1>3. /\ people \in [People -> Person \cup {None}] /\ revoked \in [People -> Nat]
      /\ revoked[p] = 0
      /\ \A x \in People : people'[x] = IF x = p THEN new ELSE people[x]
      /\ people' \in [People -> Person \cup {None}]
  BY <1>1, <1>2, TablesOK DEF Core, GenerationsCount, Known
<1>4. /\ Known \subseteq Known' /\ EnabledAdmins \subseteq EnabledAdmins'
      /\ \A x \in People : x \in Known' <=> (x = p \/ x \in Known)
  BY <1>1, <1>2, <1>3 DEF EnabledAdmins, Known
<1>5. PeopleStep
  BY <1>1, <1>2, <1>3, <1>4 DEF PeopleStep, Core, GenerationsCount
<1>6. ops' \in 0 .. MaxOps
  BY OpsTyped DEF CreateBootstrap
<1>. QED BY <1>2, <1>4, <1>5, <1>6, OpsTyped, HeldKept, TablesKept, CoreStep

\* A change to one row that keeps its generation, and takes no role away.
LEMMA RowChanged ==
  ASSUME Core, NEW p \in Known, NEW row \in Person,
         row.gen = people[p].gen,
         row.admin = people[p].admin \/ row.admin,
         row.disabled = people[p].disabled,
         people' = [people EXCEPT ![p] = row],
         UNCHANGED <<creds, request, entries, revoked, guesses>>,
         ops' \in 0 .. MaxOps
  PROVE  Core' /\ EnabledAdmins \subseteq EnabledAdmins'
<1>1. /\ people \in [People -> Person \cup {None}] /\ p \in People
      /\ row # None /\ people[p] # None /\ people[p] \in Person
      /\ \A x \in People : people'[x] = IF x = p THEN row ELSE people[x]
      /\ people' \in [People -> Person \cup {None}]
  BY TablesOK, NoneIsNoRow DEF Known
<1>2. /\ Known \subseteq Known' /\ EnabledAdmins \subseteq EnabledAdmins'
      /\ \A x \in People : x \in Known' <=> x \in Known
  BY <1>1 DEF EnabledAdmins, Known
<1>3. PeopleStep
  BY <1>1, <1>2, TablesOK DEF PeopleStep, Core, GenerationsCount
<1>. QED BY <1>2, <1>3, OpsTyped, HeldKept, TablesKept, CoreStep

\* BootstrapExpires.
LEMMA ExpireStep ==
  ASSUME Core, NEW p \in People, BootstrapExpires(p)
  PROVE  Core' /\ EnabledAdmins \subseteq EnabledAdmins'
<1> DEFINE row == [people[p] EXCEPT !.bootstrap = "expired"]
<1>1. p \in Known /\ people[p] \in Person
  BY TablesOK DEF BootstrapExpires
<1>2. row \in Person /\ row.gen = people[p].gen /\ row.admin = people[p].admin
      /\ row.disabled = people[p].disabled
  BY <1>1 DEF Person
<1>3. people' = [people EXCEPT ![p] = row]
      /\ UNCHANGED <<creds, request, entries, ops, revoked, guesses>>
  BY DEF BootstrapExpires
<1> HIDE DEF row
<1>. QED BY <1>1, <1>2, <1>3, OpsTyped, RowChanged

\* SetAdmin giving the role.
LEMMA PromoteStep ==
  ASSUME Core, NEW p \in People, Promote(p)
  PROVE  Core' /\ EnabledAdmins \subseteq EnabledAdmins'
<1> DEFINE row == [people[p] EXCEPT !.admin = TRUE]
<1>1. p \in Known /\ people[p] \in Person
  BY TablesOK DEF Promote
<1>2. row \in Person /\ row.gen = people[p].gen /\ row.admin = TRUE
      /\ row.disabled = people[p].disabled
  BY <1>1 DEF Person
<1>3. people' = [people EXCEPT ![p] = row]
      /\ UNCHANGED <<creds, request, entries, revoked, guesses>> /\ Begins
  BY DEF Promote
<1> HIDE DEF row
<1>. QED BY <1>1, <1>2, <1>3, OpsTyped, RowChanged

\* Enable, ResetPassword and RevokeAll revoke and bump in one transaction.
LEMMA RevokeStep ==
  ASSUME Core, NEW p \in People, Enable(p) \/ ResetPassword(p) \/ RevokeAll(p)
  PROVE  Core' /\ EnabledAdmins \subseteq EnabledAdmins'
<1>1. p \in Known /\ people[p] \in Person /\ UNCHANGED <<request, entries, guesses>> /\ Begins
  BY TablesOK DEF Enable, ResetPassword, RevokeAll
<1>2. PeopleStep /\ CredsStep /\ EnabledAdmins \subseteq EnabledAdmins'
  <2>1. CASE Enable(p)
    <3> DEFINE row == [people[p] EXCEPT !.disabled = FALSE, !.bootstrap = "open"]
    <3>1. row \in Person /\ row.admin = people[p].admin /\ ~row.disabled
      BY <1>1 DEF Person
    <3>2. Revoking(p, row)
      BY <2>1 DEF Enable
    <3> HIDE DEF row
    <3>. QED BY <1>1, <3>1, <3>2, RevokingKeeps
  <2>2. CASE ResetPassword(p)
    <3> DEFINE row == [people[p] EXCEPT !.bootstrap = "open"]
    <3>1. row \in Person /\ row.admin = people[p].admin /\ row.disabled = people[p].disabled
      BY <1>1 DEF Person
    <3>2. Revoking(p, row)
      BY <2>2 DEF ResetPassword
    <3> HIDE DEF row
    <3>. QED BY <1>1, <3>1, <3>2, RevokingKeeps
  <2>3. CASE RevokeAll(p)
    <3>1. Revoking(p, people[p])
      BY <2>3 DEF RevokeAll
    <3>. QED BY <1>1, <3>1, RevokingKeeps
  <2>. QED BY <2>1, <2>2, <2>3
<1>. QED BY <1>1, <1>2, OpsTyped, HeldKept, TablesKept, CoreStep

\* BeginRemoval, the failures, and the requests that only read.
LEMMA ReadingStep ==
  ASSUME Core, NEW r \in Requests, NEW q, RequestOK(q), q.op # "apply",
         request' = [request EXCEPT ![r] = q],
         UNCHANGED <<people, creds, entries, revoked, guesses>>, ops' \in 0 .. MaxOps
  PROVE  Core'
BY RequestGoes, HeldSame, TablesKept, PlainStep

\* A request that fails, or loses its login, has changed nothing.
LEMMA GivenUpStep ==
  ASSUME Core, NEW r \in Requests, LoginFails(r) \/ Fail(r)
  PROVE  Core'
<1>1. Goes(r) /\ UNCHANGED <<people, creds, entries, ops, revoked, guesses>>
  BY DEF LoginFails, Fail
<1>. QED BY <1>1, IdleOK, OpsTyped, ReadingStep DEF Goes

\* Disable and SetAdmin begin with the statement's snapshot.
LEMMA BeginRemovalStep ==
  ASSUME Core, NEW r \in Requests, NEW p \in People, NEW how \in {"disable", "demote"},
         BeginRemoval(r, how, p)
  PROVE  Core'
<1> DEFINE q == [op |-> "lock", how |-> how, who |-> p, admins |-> EnabledAdmins]
<1>1. EnabledAdmins \in SUBSET People /\ p \in Known
  BY DEF BeginRemoval, EnabledAdmins, Known
<1>2. /\ q \in [op : {"lock", "apply"}, how : {"disable", "demote"}, who : People,
                admins : SUBSET People]
      /\ q.op = "lock" /\ q.who = p
  BY <1>1
<1>3. Begins /\ request' = [request EXCEPT ![r] = q]
      /\ UNCHANGED <<people, creds, entries, revoked, guesses>>
  BY DEF BeginRemoval
<1> HIDE DEF q
<1>4. RequestOK(q) /\ q.op # "apply"
  BY <1>1, <1>2 DEF RequestOK, Request
<1>. QED BY <1>3, <1>4, OpsTyped, ReadingStep

\* ChangePassword and CreateToken read the generation and the history at once.
LEMMA ReadsProven ==
  ASSUME Core, NEW p \in Known
  PROVE  /\ RequestOK([op |-> "change", who |-> p, gen |-> people[p].gen, proof |-> revoked[p]])
         /\ \A k \in {"session", "token"} :
              RequestOK([op |-> "insert", kind |-> k, who |-> p,
                         gen |-> people[p].gen, proof |-> revoked[p]])
<1>1. p \in People /\ people[p].gen = revoked[p] /\ revoked[p] \in Nat
  BY TablesOK
<1>2. RequestOK([op |-> "change", who |-> p, gen |-> people[p].gen, proof |-> revoked[p]])
  <2> DEFINE q == [op |-> "change", who |-> p, gen |-> people[p].gen, proof |-> revoked[p]]
  <2>1. /\ q \in [op : {"change"}, who : People, gen : Nat, proof : Nat]
        /\ q.op = "change" /\ q.who = p /\ q.gen = q.proof
    BY <1>1
  <2> HIDE DEF q
  <2>2. RequestOK(q)
    BY <2>1 DEF RequestOK, Request, Proven
  <2>. QED BY <2>2 DEF q
<1>3. ASSUME NEW k \in {"session", "token"}
      PROVE  RequestOK([op |-> "insert", kind |-> k, who |-> p,
                        gen |-> people[p].gen, proof |-> revoked[p]])
  <2> DEFINE q == [op |-> "insert", kind |-> k, who |-> p,
                   gen |-> people[p].gen, proof |-> revoked[p]]
  <2>1. /\ q \in [op : {"insert"}, kind : {"session", "token"}, who : People,
                  gen : Nat, proof : Nat]
        /\ q.op = "insert" /\ q.who = p /\ q.gen = q.proof
    BY <1>1
  <2> HIDE DEF q
  <2>2. RequestOK(q)
    BY <2>1 DEF RequestOK, Request, Proven
  <2>. QED BY <2>2 DEF q
<1>. QED BY <1>2, <1>3

\* The session that changes a password is somebody's: they have a row.
LEMMA CheckCurrentStep ==
  ASSUME Core, NEW r \in Requests, NEW p \in People, CheckCurrentPassword(r, p)
  PROVE  Core'
<1> DEFINE q == [op |-> "change", who |-> p, gen |-> people[p].gen, proof |-> revoked[p]]
<1>1. p \in Known
  BY DEF CheckCurrentPassword, SignedIn, Core, GenerationsCount
<1>2. RequestOK(q)
  BY <1>1, ReadsProven
<1>3. q.op # "apply"
  OBVIOUS
<1>4. Begins /\ request' = [request EXCEPT ![r] = q]
      /\ UNCHANGED <<people, creds, entries, revoked, guesses>>
  BY DEF CheckCurrentPassword
<1> HIDE DEF q
<1>. QED BY <1>2, <1>3, <1>4, OpsTyped, ReadingStep

\* CreateToken reads the row it will insert for.
LEMMA ReadOwnerStep ==
  ASSUME Core, NEW r \in Requests, NEW p \in People, ReadOwner(r, p)
  PROVE  Core'
<1> DEFINE q == [op |-> "insert", kind |-> "token", who |-> p,
                 gen |-> people[p].gen, proof |-> revoked[p]]
<1>1. p \in Known
  BY DEF ReadOwner
<1>2. RequestOK(q)
  BY <1>1, ReadsProven
<1>3. q.op # "apply"
  OBVIOUS
<1>4. Begins /\ request' = [request EXCEPT ![r] = q]
      /\ UNCHANGED <<people, creds, entries, revoked, guesses>>
  BY DEF ReadOwner
<1> HIDE DEF q
<1>. QED BY <1>2, <1>3, <1>4, OpsTyped, ReadingStep

\* insertSession and insertToken write the generation the row has, which is the
\* one the request proved itself to.
LEMMA InsertStep ==
  ASSUME Core, NEW r \in Requests, Insert(r)
  PROVE  Core'
<1> DEFINE row == [kind |-> request[r].kind, who |-> request[r].who,
                   gen |-> people[request[r].who].gen, proof |-> request[r].proof]
<1>1. /\ request[r].op = "insert" /\ Insertable(request[r])
      /\ UNCHANGED <<people, creds, entries, ops, revoked, guesses>>
  BY DEF Insert
<1>2. PICK id \in Creds, pruned \in SUBSET Creds :
        request' = [request EXCEPT ![r] =
                      [op |-> "commit", id |-> id, pruned |-> pruned, row |-> row]]
  BY DEF Insert, Others, Rows
<1>3. /\ RequestOK(request[r]) /\ request[r] \in Request
      /\ request[r].who \in Known /\ Proven(request[r])
  BY <1>1, TablesOK DEF RequestOK
<1>4. /\ request[r].kind \in {"session", "token"} /\ request[r].who \in People
      /\ request[r].gen \in Nat /\ request[r].proof \in Nat
  BY <1>1, <1>3, RequestShapes
<1>5. row \in Credential /\ row.who = request[r].who /\ row.gen = row.proof
  BY <1>1, <1>3, <1>4 DEF Insertable, Proven, Credential
<1> HIDE DEF row
<1> DEFINE q == [op |-> "commit", id |-> id, pruned |-> pruned, row |-> row]
<1>6. /\ q \in [op : {"commit"}, id : Creds, row : Credential, pruned : SUBSET Creds]
      /\ q.op = "commit" /\ q.row = row
  BY <1>5
<1> HIDE DEF q
<1>7. RequestOK(q) /\ q.op # "apply"
  BY <1>3, <1>5, <1>6 DEF RequestOK, RowOK, Request, Proven
<1>8. request' = [request EXCEPT ![r] = q]
  BY <1>2 DEF q
<1>. QED BY <1>1, <1>7, <1>8, OpsTyped, ReadingStep

\* lockEnabledAdmins: what is returned is enabled and an admin as it is locked.
LEMMA LockStep ==
  ASSUME Core, NEW r \in Requests, lockEnabledAdmins(r)
  PROVE  Core'
<1> DEFINE q == [request[r] EXCEPT !.op = "apply",
                                   !.admins = request[r].admins \cap EnabledAdmins]
<1>1. /\ request[r].op = "lock" /\ UNCHANGED <<people, creds, entries, ops, revoked, guesses>>
  BY DEF lockEnabledAdmins
<1>2. request' = [request EXCEPT ![r] = q]
  BY TablesOK DEF lockEnabledAdmins
<1>3. /\ RequestOK(request[r]) /\ request[r].who \in Known
      /\ request[r] \in [op : {"lock", "apply"}, how : {"disable", "demote"}, who : People,
                         admins : SUBSET People]
  BY <1>1, TablesOK, RequestShapes DEF RequestOK
<1>4. /\ q \in [op : {"lock", "apply"}, how : {"disable", "demote"}, who : People,
                admins : SUBSET People]
      /\ q.op = "apply" /\ q.who = request[r].who /\ q.admins \subseteq EnabledAdmins
  BY <1>3
<1> HIDE DEF q
<1>5. RequestOK(q)
  BY <1>3, <1>4 DEF RequestOK, Request
<1>6. RequestStep /\ \A s \in Requests : request'[s] = IF s = r THEN q ELSE request[s]
  BY <1>2, <1>5, RequestGoes
<1>7. EnabledAdmins' = EnabledAdmins
  BY <1>1 DEF EnabledAdmins, Known
<1>8. HeldStep
  BY <1>4, <1>6, <1>7 DEF HeldStep, HeldStayAdmins, HeldBy, Core
<1>. QED BY <1>1, <1>6, <1>8, OpsTyped, TablesKept, CoreStep

\* The admins other transactions hold outlive a removal that has its own row.
LEMMA RemovalHolds ==
  ASSUME Core, NEW r \in Requests, OwnRow(r), Goes(r),
         EnabledAdmins \ {request[r].who} \subseteq EnabledAdmins'
  PROVE  HeldStep /\ RequestStep
<1>1. RequestStep /\ \A s \in Requests : request'[s] = IF s = r THEN Idle ELSE request[s]
  BY IdleOK, RequestGoes DEF Goes
<1>2. ASSUME NEW s \in Requests PROVE HeldBy(s)' \subseteq EnabledAdmins'
  <2>1. CASE s = r
    BY <1>1, <2>1, IdleOK DEF HeldBy
  <2>2. CASE s # r
    <3>1. HeldBy(s)' = HeldBy(s)
      BY <1>1, <2>2 DEF HeldBy
    <3>2. request[r].who \notin HeldBy(s)
      BY <2>2 DEF OwnRow
    <3>. QED BY <3>1, <3>2 DEF Core, HeldStayAdmins
  <2>. QED BY <2>1, <2>2
<1>. QED BY <1>1, <1>2 DEF HeldStep, HeldStayAdmins

\* Disable revokes as it writes, or leaves everything alone.
LEMMA DisableStep ==
  ASSUME Core, NEW r \in Requests, Disable(r)
  PROVE  Core' /\ EnabledAdmins \ {request[r].who} \subseteq EnabledAdmins'
<1> DEFINE p == request[r].who
<1>1. /\ request[r].op = "apply" /\ OwnRow(r) /\ Goes(r)
      /\ UNCHANGED <<entries, ops, guesses>>
  BY DEF Disable
<1>2. p \in Known /\ p \in People
  BY <1>1, TablesOK DEF RequestOK
<1>p. p = request[r].who
  OBVIOUS
<1> HIDE DEF p
<1>3. CASE UNCHANGED <<people, creds, revoked>>
  <2>1. EnabledAdmins' = EnabledAdmins
    BY <1>3 DEF EnabledAdmins, Known
  <2>. QED BY <1>1, <1>3, <1>p, <2>1, RemovalHolds, OpsTyped, TablesKept, CoreStep
<1>4. CASE /\ people' = [people EXCEPT ![p].disabled = TRUE, ![p].gen = @ + 1]
           /\ creds' = WithoutCredentials(p)
           /\ revoked' = [revoked EXCEPT ![p] = @ + 1]
  <2> DEFINE new == [people[p] EXCEPT !.disabled = TRUE, !.gen = people[p].gen + 1]
  <2>1. /\ people \in [People -> Person \cup {None}] /\ revoked \in [People -> Nat]
        /\ people[p] \in Person /\ people[p].gen = revoked[p] /\ revoked[p] \in Nat
    BY <1>2, TablesOK
  <2>2. new \in Person /\ new.gen = revoked[p] + 1
    <3> DEFINE off == [people[p] EXCEPT !.disabled = TRUE]
    <3>1. off \in Person
      BY <2>1 DEF Person
    <3>2. new = [off EXCEPT !.gen = revoked[p] + 1]
      BY <2>1 DEF Person
    <3> HIDE DEF off, new
    <3>. QED BY <2>1, <3>1, <3>2 DEF Person
  <2>3. people' = [people EXCEPT ![p] = new]
    BY <1>2, <1>4, <2>1 DEF Person
  <2> HIDE DEF new
  <2>4. new # None
    BY <2>2, NoneIsNoRow
  <2>5. /\ people' \in [People -> Person \cup {None}] /\ revoked' \in [People -> Nat]
        /\ \A x \in People : people'[x] = IF x = p THEN new ELSE people[x]
        /\ \A x \in People : revoked'[x] = IF x = p THEN revoked[p] + 1 ELSE revoked[x]
    <3>1. revoked' = [revoked EXCEPT ![p] = @ + 1]
      BY <1>4
    <3>. QED BY <1>2, <3>1, <2>1, <2>2, <2>3
  <2>6. /\ Known \subseteq Known' /\ EnabledAdmins \ {p} \subseteq EnabledAdmins'
        /\ \A x \in People : x \in Known' <=> x \in Known
    BY <1>2, <2>1, <2>4, <2>5 DEF Known, EnabledAdmins
  <2>7. PeopleStep
    <3>1. \A x \in People : IF x \in Known THEN people[x].gen = revoked[x] ELSE revoked[x] = 0
      BY DEF Core, GenerationsCount
    <3>. QED BY <1>2, <2>1, <2>2, <2>5, <2>6, <3>1 DEF PeopleStep
  <2>8. CredsStep
    BY <1>4, TablesOK DEF CredsStep, WithoutCredentials
  <2>. QED BY <1>1, <2>6, <2>7, <2>8, <1>p, RemovalHolds, OpsTyped, TablesKept, CoreStep
<1>. QED BY <1>3, <1>4, <1>p DEF Disable

\* SetAdmin taking the role away leaves generations alone.
LEMMA DemoteStep ==
  ASSUME Core, NEW r \in Requests, Demote(r)
  PROVE  Core' /\ EnabledAdmins \ {request[r].who} \subseteq EnabledAdmins'
<1> DEFINE p == request[r].who
<1>1. /\ request[r].op = "apply" /\ OwnRow(r) /\ Goes(r)
      /\ UNCHANGED <<creds, entries, ops, revoked, guesses>>
  BY DEF Demote
<1>2. p \in Known /\ p \in People
  BY <1>1, TablesOK DEF RequestOK
<1>3. CASE people' = people
  <2>1. EnabledAdmins' = EnabledAdmins
    BY <1>3 DEF EnabledAdmins, Known
  <2>. QED BY <1>1, <1>3, <2>1, RemovalHolds, OpsTyped, TablesKept, CoreStep
<1>4. CASE people' = [people EXCEPT ![p].admin = FALSE]
  <2> DEFINE new == [people[p] EXCEPT !.admin = FALSE]
  <2>1. /\ people \in [People -> Person \cup {None}]
        /\ people[p] \in Person /\ people[p].gen = revoked[p]
    BY <1>2, TablesOK
  <2>2. new \in Person /\ new.gen = people[p].gen
    BY <2>1 DEF Person
  <2>3. people' = [people EXCEPT ![p] = new]
    BY <1>4
  <2> HIDE DEF new
  <2>4. new # None
    BY <2>2, NoneIsNoRow
  <2>5. /\ people' \in [People -> Person \cup {None}]
        /\ \A x \in People : people'[x] = IF x = p THEN new ELSE people[x]
    BY <1>2, <2>1, <2>2, <2>3
  <2>6. /\ Known \subseteq Known' /\ EnabledAdmins \ {p} \subseteq EnabledAdmins'
        /\ \A x \in People : x \in Known' <=> x \in Known
    BY <1>2, <2>1, <2>4, <2>5 DEF Known, EnabledAdmins
  <2>7. PeopleStep
    BY <1>1, <2>1, <2>2, <2>5, <2>6, TablesOK DEF PeopleStep, Core, GenerationsCount
  <2>. QED BY <1>1, <2>6, <2>7, RemovalHolds, OpsTyped, TablesKept, CoreStep
<1>. QED BY <1>3, <1>4 DEF Demote

\* Every key names what it counts.
LEMMA KeyShapes ==
  /\ \A k \in Keys : k[1] \in {"user", "address", "global"}
  /\ \A a, p : <<"user", p, a>>[1] = "user" /\ <<"global", p>>[1] = "global"
               /\ <<"address", a>>[1] = "address"
  /\ \A k \in Keys : LimitOf[k[1]] \in Nat \ {0}
BY AccountsAssumption DEF Keys

\* allow counts an attempt in every key it may count, before the password is
\* checked: what is checked is counted, and the count passes no limit.
LEMMA AllowStep ==
  ASSUME Core, NEW r \in Requests, NEW p \in People, NEW a \in Addresses, allow(r, p, a)
  PROVE  Core'
<1> DEFINE q == [op |-> "login", who |-> p, from |-> a]
<1>1. /\ request' = [request EXCEPT ![r] = q] /\ Begins
      /\ UNCHANGED <<people, creds, revoked>>
      /\ \A k \in KeysOf(p, a) : entries[k] < LimitOf[k[1]]
      /\ entries' = [k \in Keys |-> IF k \in KeysOf(p, a) THEN entries[k] + 1 ELSE entries[k]]
      /\ guesses' = [k \in Keys |-> IF k \in KeysOf(p, a) THEN guesses[k] + 1 ELSE guesses[k]]
  BY DEF allow, Counted
<1>2. /\ q \in [op : {"login"}, who : People, from : Addresses] /\ q.op = "login"
  OBVIOUS
<1> HIDE DEF q
<1>3. RequestOK(q) /\ q.op # "apply"
  BY <1>2 DEF RequestOK, Request
<1>4. LimiterStep
  <2>1. entries \in [Keys -> Nat] /\ guesses \in [Keys -> Nat] /\ AttemptsCounted
    BY DEF Core, AccountsTypeOK
  <2>2. ASSUME NEW k \in Keys, k[1] \in {"user", "global"}
        PROVE  guesses'[k] <= entries'[k] /\ entries'[k] <= LimitOf[k[1]]
    <3> DEFINE n == LimitOf[k[1]]
    <3>1. n \in Nat /\ entries[k] \in Nat /\ guesses[k] \in Nat
          /\ guesses[k] <= entries[k] /\ entries[k] <= n
      BY <2>1, <2>2, KeyShapes DEF AttemptsCounted
    <3>2. k \in KeysOf(p, a) => entries[k] < n
      BY <1>1
    <3> HIDE DEF n
    <3>3. guesses'[k] <= entries'[k] /\ entries'[k] <= n
      BY <1>1, <3>1, <3>2
    <3>. QED BY <3>3 DEF n
  <2>3. entries' \in [Keys -> Nat] /\ guesses' \in [Keys -> Nat]
    BY <1>1, <2>1
  <2>. QED BY <2>2, <2>3 DEF LimiterStep, AttemptsCounted
<1>. QED BY <1>1, <1>3, <1>4, RequestGoes, HeldSame, OpsTyped, TablesKept, PlainStep

\* What is refunded is refunded in both counts.
LEMMA RefundedKeeps ==
  ASSUME Core, NEW p, NEW a,
         entries' = Refunded(entries, p, a), guesses' = Refunded(guesses, p, a)
  PROVE  LimiterStep
<1>1. entries \in [Keys -> Nat] /\ guesses \in [Keys -> Nat] /\ AttemptsCounted
  BY DEF Core, AccountsTypeOK
<1>2. ASSUME NEW table \in [Keys -> Nat], NEW k \in Keys
      PROVE  /\ Refunded(table, p, a)[k] \in Nat
             /\ k[1] \in {"user", "global"} =>
                  Refunded(table, p, a)[k] =
                    IF k \in {<<"user", p, a>>, <<"global", p>>} THEN 0 ELSE table[k]
  <2>1. table[k] \in Nat
    OBVIOUS
  <2>2. CASE k = <<"address", a>> /\ table[k] > 0
    <3>1. Refunded(table, p, a)[k] = table[k] - 1
      BY <2>2, KeyShapes DEF Refunded
    <3>2. k[1] = "address"
      BY <2>2, KeyShapes
    <3>. QED BY <2>1, <2>2, <3>1, <3>2
  <2>3. CASE ~(k = <<"address", a>> /\ table[k] > 0)
    <3>1. Refunded(table, p, a)[k] =
            IF k \in {<<"user", p, a>>, <<"global", p>>} THEN 0 ELSE table[k]
      BY <2>3 DEF Refunded
    <3>. QED BY <2>1, <3>1
  <2>. QED BY <2>2, <2>3
<1>3. ASSUME NEW k \in Keys, k[1] \in {"user", "global"}
      PROVE  guesses'[k] <= entries'[k] /\ entries'[k] <= LimitOf[k[1]]
  <2>1. LimitOf[k[1]] \in Nat /\ entries[k] \in Nat /\ guesses[k] \in Nat
        /\ guesses[k] <= entries[k] /\ entries[k] <= LimitOf[k[1]]
    BY <1>1, <1>3, KeyShapes DEF AttemptsCounted
  <2>2. /\ entries'[k] = IF k \in {<<"user", p, a>>, <<"global", p>>} THEN 0 ELSE entries[k]
        /\ guesses'[k] = IF k \in {<<"user", p, a>>, <<"global", p>>} THEN 0 ELSE guesses[k]
    BY <1>1, <1>2, <1>3
  <2>. QED BY <2>1, <2>2
<1>4. \A table \in [Keys -> Nat] : Refunded(table, p, a) \in [Keys -> Nat]
  <2> SUFFICES ASSUME NEW table \in [Keys -> Nat]
               PROVE  Refunded(table, p, a) \in [Keys -> Nat]
    OBVIOUS
  <2>1. \A k \in Keys : Refunded(table, p, a)[k] \in Nat
    BY <1>2
  <2>2. Refunded(table, p, a) = [k \in Keys |-> Refunded(table, p, a)[k]]
    BY DEF Refunded
  <2> HIDE DEF Refunded
  <2>. QED BY <2>1, <2>2
<1>. QED BY <1>1, <1>3, <1>4 DEF LimiterStep, AttemptsCounted

\* Signing in reads the row the session is then made for.
LEMMA VerifyLoginStep ==
  ASSUME Core, NEW r \in Requests, VerifyLogin(r)
  PROVE  Core'
<1> DEFINE p == request[r].who
           q == [op |-> "insert", kind |-> "session", who |-> p,
                 gen |-> people[p].gen, proof |-> revoked[p]]
<1>1. /\ p \in Known /\ request' = [request EXCEPT ![r] = q]
      /\ UNCHANGED <<people, creds, ops, revoked>>
      /\ entries' = Refunded(entries, p, request[r].from)
      /\ guesses' = Refunded(guesses, p, request[r].from)
  BY DEF VerifyLogin
<1>2. RequestOK(q)
  BY <1>1, ReadsProven
<1>3. q.op # "apply"
  OBVIOUS
<1> HIDE DEF p, q
<1>4. LimiterStep
  BY <1>1, RefundedKeeps
<1>. QED BY <1>1, <1>2, <1>3, <1>4, RequestGoes, HeldSame, OpsTyped, TablesKept, PlainStep

\* ChangePassword's UPDATE matches the generation that was read, and goes on with
\* the next one, which is the one it wrote.
LEMMA ChangePasswordStep ==
  ASSUME Core, NEW r \in Requests, ChangePassword(r)
  PROVE  Core' /\ EnabledAdmins \subseteq EnabledAdmins'
<1> DEFINE p == request[r].who
           row == [people[p] EXCEPT !.bootstrap = "none"]
           q == [op |-> "insert", kind |-> "session", who |-> p,
                 gen |-> request[r].gen + 1, proof |-> revoked'[p]]
<1>1. /\ request[r].op = "change" /\ people[p].gen = request[r].gen
      /\ Revoking(p, row) /\ request' = [request EXCEPT ![r] = q]
      /\ UNCHANGED <<entries, ops, guesses>>
  BY DEF ChangePassword
<1>2. p \in Known /\ p \in People /\ people[p] \in Person
      /\ people[p].gen = revoked[p] /\ revoked[p] \in Nat
  BY <1>1, TablesOK DEF RequestOK
<1>3. row \in Person /\ row.admin = people[p].admin /\ row.disabled = people[p].disabled
  BY <1>2 DEF Person
<1> HIDE DEF row
<1>4. /\ PeopleStep /\ CredsStep /\ EnabledAdmins \subseteq EnabledAdmins'
      /\ revoked'[p] = revoked[p] + 1
  BY <1>1, <1>2, <1>3, RevokingKeeps
<1>5. /\ q \in [op : {"insert"}, kind : {"session", "token"}, who : People,
                gen : Nat, proof : Nat]
      /\ q.op = "insert" /\ q.who = p /\ q.gen = q.proof
  BY <1>1, <1>2, <1>4
<1> HIDE DEF p, q
<1>6. RequestOK(q) /\ q.op # "apply"
  BY <1>2, <1>5 DEF RequestOK, Request, Proven
<1>. QED BY <1>1, <1>4, <1>6, RequestGoes, HeldSame, OpsTyped, TablesKept, HeldKept, CoreStep

\* What a transaction commits was proven when it was inserted.
LEMMA CommitStep ==
  ASSUME Core, NEW r \in Requests, Commit(r)
  PROVE  Core'
<1>1. /\ request[r].op = "commit" /\ Goes(r)
      /\ creds' = [c \in Creds |-> IF c = request[r].id THEN request[r].row
                                   ELSE IF c \in request[r].pruned THEN None ELSE creds[c]]
      /\ UNCHANGED <<people, entries, ops, revoked, guesses>>
  BY DEF Commit
<1>2. RowOK(request[r].row) /\ request[r].row \in Credential
  BY <1>1, TablesOK DEF RequestOK, RowOK
<1>3. CredsStep
  BY <1>1, <1>2, TablesOK DEF CredsStep
<1>4. RequestStep /\ \A s \in Requests : HeldBy(s)' \subseteq HeldBy(s)
  BY <1>1, IdleOK, RequestGoes, HeldSame DEF Goes
<1>. QED BY <1>1, <1>3, <1>4, OpsTyped, TablesKept, PlainStep

\* A credential that goes, or a limiter key that is forgotten, proves nothing new.
LEMMA ForgettingStep ==
  ASSUME Core, (\E k \in Keys : Forget(k)) \/ (\E c \in Creds : DeleteCredential(c))
  PROVE  Core'
<1>1. CASE \E k \in Keys : Forget(k)
  <2>1. PICK k \in Keys : Forget(k)
    BY <1>1
  <2>2. /\ entries \in [Keys -> Nat] /\ guesses \in [Keys -> Nat] /\ AttemptsCounted
        /\ \A x \in Keys : LimitOf[x[1]] \in Nat
    BY KeyShapes DEF Core, AccountsTypeOK
  <2>3. LimiterStep
    BY <2>1, <2>2 DEF Forget, LimiterStep, AttemptsCounted
  <2>. QED BY <2>1, <2>3, OpsTyped, TablesKept, PlainStep DEF Forget
<1>2. CASE \E c \in Creds : DeleteCredential(c)
  <2>1. PICK c \in Creds : DeleteCredential(c)
    BY <1>2
  <2>2. CredsStep
    BY <2>1, TablesOK DEF DeleteCredential, CredsStep
  <2>. QED BY <2>1, <2>2, OpsTyped, TablesKept, PlainStep DEF DeleteCredential
<1>. QED BY <1>1, <1>2

\* Every step keeps the tables in order; only Disable and SetAdmin taking the role
\* away remove an enabled admin, and only the one they are about.
LEMMA StepKeeps ==
  ASSUME Core, Next
  PROVE  /\ Core'
         /\ \/ EnabledAdmins \subseteq EnabledAdmins'
            \/ \E r \in Requests : /\ Disable(r) \/ Demote(r)
                                  /\ EnabledAdmins \ {request[r].who} \subseteq EnabledAdmins'
<1>0. UNCHANGED people => EnabledAdmins \subseteq EnabledAdmins'
  BY DEF EnabledAdmins, Known
<1>1. ASSUME NEW p \in People, NEW b \in BOOLEAN, CreateBootstrap(p, b)
      PROVE  Core' /\ EnabledAdmins \subseteq EnabledAdmins'
  BY <1>1, CreateStep
<1>2. ASSUME NEW p \in People, BootstrapExpires(p)
      PROVE  Core' /\ EnabledAdmins \subseteq EnabledAdmins'
  BY <1>2, ExpireStep
<1>3. ASSUME NEW p \in People, Enable(p) \/ ResetPassword(p) \/ RevokeAll(p)
      PROVE  Core' /\ EnabledAdmins \subseteq EnabledAdmins'
  BY <1>3, RevokeStep
<1>4. ASSUME NEW p \in People, Promote(p)
      PROVE  Core' /\ EnabledAdmins \subseteq EnabledAdmins'
  BY <1>4, PromoteStep
<1>5. ASSUME NEW r \in Requests, NEW p \in People, NEW how \in {"disable", "demote"},
             BeginRemoval(r, how, p)
      PROVE  Core' /\ EnabledAdmins \subseteq EnabledAdmins'
  BY <1>0, <1>5, BeginRemovalStep DEF BeginRemoval
<1>6. ASSUME NEW r \in Requests, NEW p \in People, NEW a \in Addresses, allow(r, p, a)
      PROVE  Core' /\ EnabledAdmins \subseteq EnabledAdmins'
  BY <1>0, <1>6, AllowStep DEF allow
<1>7. ASSUME NEW r \in Requests, NEW p \in People, CheckCurrentPassword(r, p)
      PROVE  Core' /\ EnabledAdmins \subseteq EnabledAdmins'
  BY <1>0, <1>7, CheckCurrentStep DEF CheckCurrentPassword
<1>8. ASSUME NEW r \in Requests, NEW p \in People, ReadOwner(r, p)
      PROVE  Core' /\ EnabledAdmins \subseteq EnabledAdmins'
  BY <1>0, <1>8, ReadOwnerStep DEF ReadOwner
<1>9. ASSUME NEW r \in Requests, lockEnabledAdmins(r)
      PROVE  Core' /\ EnabledAdmins \subseteq EnabledAdmins'
  BY <1>0, <1>9, LockStep DEF lockEnabledAdmins
<1>10. ASSUME NEW r \in Requests, Disable(r)
       PROVE  Core' /\ EnabledAdmins \ {request[r].who} \subseteq EnabledAdmins'
  BY <1>10, DisableStep
<1>11. ASSUME NEW r \in Requests, Demote(r)
       PROVE  Core' /\ EnabledAdmins \ {request[r].who} \subseteq EnabledAdmins'
  BY <1>11, DemoteStep
<1>12. ASSUME NEW r \in Requests, LoginFails(r) \/ Fail(r)
       PROVE  Core' /\ EnabledAdmins \subseteq EnabledAdmins'
  BY <1>0, <1>12, GivenUpStep DEF LoginFails, Fail
<1>13. ASSUME NEW r \in Requests, VerifyLogin(r)
       PROVE  Core' /\ EnabledAdmins \subseteq EnabledAdmins'
  BY <1>0, <1>13, VerifyLoginStep DEF VerifyLogin
<1>14. ASSUME NEW r \in Requests, ChangePassword(r)
       PROVE  Core' /\ EnabledAdmins \subseteq EnabledAdmins'
  BY <1>14, ChangePasswordStep
<1>15. ASSUME NEW r \in Requests, Insert(r)
       PROVE  Core' /\ EnabledAdmins \subseteq EnabledAdmins'
  BY <1>0, <1>15, InsertStep DEF Insert
<1>16. ASSUME NEW r \in Requests, Commit(r)
       PROVE  Core' /\ EnabledAdmins \subseteq EnabledAdmins'
  BY <1>0, <1>16, CommitStep DEF Commit
<1>17. ASSUME (\E k \in Keys : Forget(k)) \/ (\E c \in Creds : DeleteCredential(c))
       PROVE  Core' /\ EnabledAdmins \subseteq EnabledAdmins'
  BY <1>0, <1>17, ForgettingStep DEF Forget, DeleteCredential
<1>. QED BY <1>1, <1>2, <1>3, <1>4, <1>5, <1>6, <1>7, <1>8, <1>9, <1>10, <1>11, <1>12,
            <1>13, <1>14, <1>15, <1>16, <1>17 DEF Next

\* A removal that ends with nobody left was about an admin whose row
\* lockEnabledAdmins did not return.
LEMMA RemovalKeepsAnAdmin ==
  ASSUME Core, NEW r \in Requests, Disable(r) \/ Demote(r),
         EnabledAdmins \ {request[r].who} \subseteq EnabledAdmins',
         EnabledAdmins # {}, EnabledAdmins' = {}
  PROVE  request[r].op = "apply" /\ request[r].who \in EnabledAdmins \ request[r].admins
<1>1. request[r].op = "apply"
  BY DEF Disable, Demote
<1>2. EnabledAdmins = {request[r].who}
  OBVIOUS
<1>3. request[r].admins \subseteq EnabledAdmins
  BY <1>1 DEF Core, HeldStayAdmins, HeldBy
<1>4. ~UNCHANGED people
  BY DEF EnabledAdmins, Known
<1>5. ~isOnlyEnabledAdmin(r)
  BY <1>4 DEF Disable, Demote
<1>6. request[r].who \notin request[r].admins
  BY <1>2, <1>3, <1>5 DEF isOnlyEnabledAdmin
<1>. QED BY <1>1, <1>2, <1>6

----------------------------------------------------------------------------
(* The theorems.                                                           *)

\* What the invariant says of credentials and of guesses.
LEMMA CoreImplies ==
  ASSUME Core
  PROVE  AccountsSafe /\ GuessesBounded
<1>1. NoStaleCredential
  <2> SUFFICES ASSUME NEW c \in Rows, Usable(creds[c])
               PROVE  creds[c].proof = revoked[creds[c].who]
    BY DEF NoStaleCredential
  <2>1. creds[c].who \in Known /\ Proven(creds[c])
    BY DEF Core, GenerationsCount
  <2>2. creds[c].gen = people[creds[c].who].gen
    BY DEF Usable, SessionUsable, TokenUsable
  <2>. QED BY <2>1, <2>2, TablesOK DEF Proven
<1>2. GuessesBounded
  <2> SUFFICES ASSUME NEW k \in Keys, k[1] \in {"user", "global"}
               PROVE  guesses[k] <= LimitOf[k[1]]
    BY DEF GuessesBounded
  <2>1. LimitOf[k[1]] \in Nat /\ entries[k] \in Nat /\ guesses[k] \in Nat
        /\ guesses[k] <= entries[k] /\ entries[k] <= LimitOf[k[1]]
    BY KeyShapes DEF Core, AccountsTypeOK, AttemptsCounted
  <2>. QED BY <2>1
<1>. QED BY <1>1, <1>2 DEF AccountsSafe, Core

\* One admin, no credentials, nobody signing in.
LEMMA InitCore == Init => Core
<1> SUFFICES ASSUME Init PROVE Core
  OBVIOUS
<1> DEFINE first == [admin |-> TRUE, disabled |-> FALSE, gen |-> 0, bootstrap |-> "none"]
<1>1. /\ first \in Person /\ first.gen = 0
  BY DEF Person
<1>2. /\ people = [p \in People |-> IF p = FirstAdmin THEN first ELSE None]
      /\ creds = [c \in Creds |-> None] /\ request = [r \in Requests |-> Idle]
      /\ entries = [k \in Keys |-> 0] /\ ops = 0
      /\ revoked = [p \in People |-> 0] /\ guesses = [k \in Keys |-> 0]
  BY DEF Init
<1> HIDE DEF first
<1>3. AccountsTypeOK
  BY <1>1, <1>2, AccountsAssumption DEF AccountsTypeOK, Request
<1>4. GenerationsCount
  BY <1>1, <1>2, IdleOK DEF GenerationsCount, Known, Rows
<1>5. HeldStayAdmins
  BY <1>2, IdleOK DEF HeldStayAdmins, HeldBy
<1>6. AttemptsCounted
  <2>1. \A k \in Keys : LimitOf[k[1]] \in Nat
    BY KeyShapes
  <2>. QED BY <1>2, <2>1 DEF AttemptsCounted
<1>. QED BY <1>3, <1>4, <1>5, <1>6 DEF Core

\* Every table has its type; a credential that works was proven after its owner's
\* last revocation (service.go: every write that revokes raises auth_generation,
\* every insert compares it); locked admins stay admins; and what is checked is
\* counted.
THEOREM AccountsInvariant == Spec => []AccountsSafe
<1>1. Core /\ [Next]_vars => Core'
  <2>1. ASSUME Core, UNCHANGED vars PROVE Core'
    BY <2>1 DEF vars, Core, AccountsTypeOK, GenerationsCount, HeldStayAdmins, AttemptsCounted,
                Known, Rows, HeldBy, EnabledAdmins, Proven
  <2>. QED BY <2>1, StepKeeps
<1>2. Core => AccountsSafe
  BY CoreImplies
<1>. QED BY <1>1, <1>2, InitCore, PTL DEF Spec

\* However many sign-ins run at once, no username has more passwords tried than its
\* limit before its window passes or one of them succeeds (loginLimiter.allow).
THEOREM GuessesStayBounded == Spec => []GuessesBounded
<1>1. AccountsSafe => GuessesBounded
  BY CoreImplies DEF AccountsSafe, Core
<1>. QED BY <1>1, AccountsInvariant, PTL

\* Nobody removes the last enabled admin but a removal whose snapshot was taken
\* before they became one (Disable and SetAdmin under lockEnabledAdmins).
THEOREM AnAdminRemains == Spec => AdminRemains
<1>1. AccountsSafe /\ Next => LastAdminStays
  <2> SUFFICES ASSUME AccountsSafe, Next, EnabledAdmins # {}, EnabledAdmins' = {}
               PROVE  \E r \in Requests :
                        /\ request[r].op = "apply"
                        /\ request[r].who \in EnabledAdmins \ request[r].admins
    BY DEF LastAdminStays
  <2>1. Core
    BY DEF AccountsSafe, Core
  <2>2. PICK r \in Requests : /\ Disable(r) \/ Demote(r)
                             /\ EnabledAdmins \ {request[r].who} \subseteq EnabledAdmins'
    BY <2>1, StepKeeps
  <2>. QED BY <2>1, <2>2, RemovalKeepsAnAdmin
<1>. QED BY <1>1, AccountsInvariant, PTL DEF Spec, AdminRemains
=============================================================================
