------------------------------ MODULE Accounts ------------------------------
(***************************************************************************)
(* People, their sessions and access tokens, and the sign-in limiter:      *)
(* internal/auth (service.go, store.go) with its callers in internal/web   *)
(* (auth.go, me.go, people.go) and the gitman admin person, token and      *)
(* session commands.                                                       *)
(*                                                                         *)
(* A method of the service that is one transaction whose statements all    *)
(* touch one row is one action.  The methods that read first and write     *)
(* later (signing in, changing a password, creating a token, removing an   *)
(* admin) are requests with one action per statement that another request *)
(* can come between.  A password is right or wrong for the row it is       *)
(* compared with; names, hashes, addresses of sessions and repository      *)
(* lists of tokens are left out.                                           *)
(***************************************************************************)
EXTENDS Integers, FiniteSets

CONSTANTS
  People,          \* the usernames
  FirstAdmin,      \* the admin `gitman admin person add --admin` made
  Requests,        \* concurrent web requests and admin commands
  Addresses,       \* client addresses as clientKey folds them
  Creds,           \* identities of the session and token rows
  LimitOf,         \* loginUsernameLimit, loginAddressLimit, loginGlobalLimit
  MaxOwned,        \* maxSessionsPerPerson and maxTokensPerPerson
  MaxOps           \* bound: operations begun

ASSUME AccountsAssumption ==
  /\ FirstAdmin \in People
  /\ LimitOf \in [{"user", "address", "global"} -> Nat \ {0}]
  /\ MaxOwned \in Nat \ {0}
  /\ MaxOps \in Nat

\* No row.
None == [none |-> TRUE]

Keys == {<<"user", p, a>> : p \in People, a \in Addresses}
          \cup {<<"address", a>> : a \in Addresses}
          \cup {<<"global", p>> : p \in People}

VARIABLES
  people,    \* the people table; None where nobody has the name yet
  creds,     \* the sessions and tokens tables
  request,   \* what each request is doing
  entries,   \* loginLimiter.entries: attempts counted per key
  ops,       \* operations begun so far
  revoked,   \* history: committed revocations of each person's credentials
  guesses    \* history: passwords checked or about to be, per limiter key,
             \* since its window began or a success cleared it

vars == <<people, creds, request, entries, ops, revoked, guesses>>

Person == [admin : BOOLEAN, disabled : BOOLEAN,
           gen : Nat, bootstrap : {"none", "open", "expired"}]

\* proof is history: revoked[who] when the password, or the row a token is
\* made for, was read.
Credential == [kind : {"session", "token"}, who : People, gen : Nat, proof : Nat]

Idle == [op |-> "idle"]

Request ==
  {Idle}
  \cup [op : {"login"}, who : People, from : Addresses]
  \cup [op : {"change"}, who : People, gen : Nat, proof : Nat]
  \cup [op : {"insert"}, kind : {"session", "token"}, who : People, gen : Nat, proof : Nat]
  \cup [op : {"commit"}, id : Creds, row : Credential, pruned : SUBSET Creds]
  \cup [op : {"lock", "apply"}, how : {"disable", "demote"}, who : People,
        admins : SUBSET People]

(***************************************************************************)
(* The tables                                                              *)
(***************************************************************************)
Known == {p \in People : people[p] # None}

EnabledAdmins == {p \in Known : people[p].admin /\ ~people[p].disabled}

Rows == {c \in Creds : creds[c] # None}

\* Identities an uncommitted INSERT has taken.
Taken == {request[r].id : r \in {q \in Requests : request[q].op = "commit"}}

\* The people rows lockEnabledAdmins holds for a transaction.
HeldBy(r) == IF request[r].op = "apply" THEN request[r].admins ELSE {}

RowFree(p) == \A r \in Requests : p \notin HeldBy(r)

\* The session's generation is not compared.
MutSessionUsable(c) ==
  /\ people[c.who].bootstrap # "expired"
  /\ ~people[c.who].disabled

\* selectSessionIdentity with SessionIdentity's Disabled check.
SessionUsable(c) ==
  /\ c.gen = people[c.who].gen
  /\ people[c.who].bootstrap # "expired"
  /\ ~people[c.who].disabled

\* useToken.
TokenUsable(c) ==
  /\ c.gen = people[c.who].gen
  /\ people[c.who].bootstrap = "none"
  /\ ~people[c.who].disabled

Usable(c) == IF c.kind = "session" THEN SessionUsable(c) ELSE TokenUsable(c)

SignedIn(p) == \E c \in Rows : creds[c].kind = "session"
                                 /\ creds[c].who = p /\ SessionUsable(creds[c])

\* revokeCredentials: the rows the deleting transaction sees.
WithoutCredentials(p) ==
  [c \in Creds |-> IF creds[c] # None /\ creds[c].who = p THEN None ELSE creds[c]]

\* One more operation of somebody's.
Begins == ops < MaxOps /\ ops' = ops + 1

Goes(r) == request' = [request EXCEPT ![r] = Idle]

Init ==
  /\ people = [p \in People |->
                 IF p = FirstAdmin
                   THEN [admin |-> TRUE, disabled |-> FALSE, gen |-> 0,
                         bootstrap |-> "none"]
                   ELSE None]
  /\ creds = [c \in Creds |-> None]
  /\ request = [r \in Requests |-> Idle]
  /\ entries = [k \in Keys |-> 0]
  /\ ops = 0
  /\ revoked = [p \in People |-> 0]
  /\ guesses = [k \in Keys |-> 0]

(***************************************************************************)
(* People                                                                  *)
(***************************************************************************)
CreateBootstrap(p, isAdmin) ==
  /\ Begins
  /\ people[p] = None
  /\ people' = [people EXCEPT ![p] = [admin |-> isAdmin, disabled |-> FALSE,
                                      gen |-> 0, bootstrap |-> "open"]]
  /\ UNCHANGED <<creds, request, entries, revoked, guesses>>

\* The 24 hours of a bootstrap password pass.
BootstrapExpires(p) ==
  /\ p \in Known /\ people[p].bootstrap = "open"
  /\ people' = [people EXCEPT ![p].bootstrap = "expired"]
  /\ UNCHANGED <<creds, request, entries, ops, revoked, guesses>>

\* The UPDATE of a person's row that raises auth_generation, and
\* revokeCredentials in the same transaction.
Revoking(p, row) ==
  /\ RowFree(p)
  /\ people' = [people EXCEPT ![p] = [row EXCEPT !.gen = people[p].gen + 1]]
  /\ creds' = WithoutCredentials(p)
  /\ revoked' = [revoked EXCEPT ![p] = @ + 1]

Enable(p) ==
  /\ Begins
  /\ p \in Known /\ people[p].disabled
  /\ Revoking(p, [people[p] EXCEPT !.disabled = FALSE, !.bootstrap = "open"])
  /\ UNCHANGED <<request, entries, guesses>>

ResetPassword(p) ==
  /\ Begins
  /\ p \in Known
  /\ Revoking(p, [people[p] EXCEPT !.bootstrap = "open"])
  /\ UNCHANGED <<request, entries, guesses>>

RevokeAll(p) ==
  /\ Begins
  /\ p \in Known
  /\ Revoking(p, people[p])
  /\ UNCHANGED <<request, entries, guesses>>

\* SetAdmin giving the role.
Promote(p) ==
  /\ Begins
  /\ p \in Known /\ RowFree(p) /\ ~people[p].admin
  /\ people' = [people EXCEPT ![p].admin = TRUE]
  /\ UNCHANGED <<creds, request, entries, revoked, guesses>>

(***************************************************************************)
(* Disable, and SetAdmin taking the role away.  lockEnabledAdmins is one   *)
(* SELECT ... FOR UPDATE under READ COMMITTED: its snapshot fixes which    *)
(* rows it asks for, and each row is tested again once it is locked.       *)
(***************************************************************************)
BeginRemoval(r, how, p) ==
  /\ Begins
  /\ request[r] = Idle /\ p \in Known
  /\ request' = [request EXCEPT ![r] =
                   [op |-> "lock", how |-> how, who |-> p,
                    admins |-> EnabledAdmins]]
  /\ UNCHANGED <<people, creds, entries, revoked, guesses>>

\* The rows are read and not locked.
MutlockEnabledAdmins(r) ==
  /\ request[r].op = "lock"
  /\ request' = [request EXCEPT ![r].op = "apply"]
  /\ UNCHANGED <<people, creds, entries, ops, revoked, guesses>>

lockEnabledAdmins(r) ==
  LET asked == request[r].admins   \* in the statement's snapshot
  IN /\ request[r].op = "lock"
     /\ \A p \in asked : RowFree(p)
     /\ request' = [request EXCEPT ![r].op = "apply",
                                   ![r].admins = asked \cap EnabledAdmins]
     /\ UNCHANGED <<people, creds, entries, ops, revoked, guesses>>

isOnlyEnabledAdmin(r) == request[r].admins = {request[r].who}

\* Somebody else's transaction may hold the row the UPDATE needs.
OwnRow(r) == \A q \in Requests \ {r} : request[r].who \notin HeldBy(q)

Disable(r) ==
  LET p == request[r].who
  IN /\ request[r].op = "apply" /\ request[r].how = "disable"
     /\ OwnRow(r)
     /\ IF people[p].disabled \/ isOnlyEnabledAdmin(r)
          THEN UNCHANGED <<people, creds, revoked>>
          ELSE /\ people' = [people EXCEPT ![p].disabled = TRUE, ![p].gen = @ + 1]
               /\ creds' = WithoutCredentials(p)
               /\ revoked' = [revoked EXCEPT ![p] = @ + 1]
     /\ Goes(r)
     /\ UNCHANGED <<entries, ops, guesses>>

Demote(r) ==
  LET p == request[r].who
  IN /\ request[r].op = "apply" /\ request[r].how = "demote"
     /\ OwnRow(r)
     /\ people' = IF isOnlyEnabledAdmin(r)
                    THEN people
                    ELSE [people EXCEPT ![p].admin = FALSE]
     /\ Goes(r)
     /\ UNCHANGED <<creds, entries, ops, revoked, guesses>>

(***************************************************************************)
(* The sign-in limiter                                                     *)
(***************************************************************************)
KeysOf(p, a) == {<<"user", p, a>>, <<"address", a>>, <<"global", p>>}

\* pruneLocked when a key's fifteen minutes have passed, and boundLocked.
Forget(k) ==
  /\ entries[k] > 0
  /\ entries' = [entries EXCEPT ![k] = 0]
  /\ guesses' = [guesses EXCEPT ![k] = 0]
  /\ UNCHANGED <<people, creds, request, ops, revoked>>

\* Counted only when the password turns out wrong.
MutCounted(p, a) == entries

\* allow's counting, before the password is checked.
Counted(p, a) == [k \in Keys |-> IF k \in KeysOf(p, a) THEN entries[k] + 1
                                                       ELSE entries[k]]

\* login up to the limiter: a refused attempt answers 429 and changes nothing.
allow(r, p, a) ==
  /\ Begins
  /\ request[r] = Idle
  /\ \A k \in KeysOf(p, a) : entries[k] < LimitOf[k[1]]
  /\ entries' = Counted(p, a)
  /\ guesses' = [k \in Keys |-> IF k \in KeysOf(p, a) THEN guesses[k] + 1
                                                      ELSE guesses[k]]
  /\ request' = [request EXCEPT ![r] = [op |-> "login", who |-> p, from |-> a]]
  /\ UNCHANGED <<people, creds, revoked>>

\* loginReservation.success: both counts of the username go, the address
\* gets its attempt back.
Refunded(table, p, a) ==
  [k \in Keys |-> CASE k = <<"address", a>> /\ table[k] > 0 -> table[k] - 1
                    [] k \in {<<"user", p, a>>, <<"global", p>>} -> 0
                    [] OTHER -> table[k]]

(***************************************************************************)
(* Signing in, changing a password, creating a token                       *)
(***************************************************************************)
\* VerifyLogin refuses: nobody of that name, a wrong password, a disabled
\* person or an expired bootstrap password.  The attempt stays counted.
LoginFails(r) ==
  /\ request[r].op = "login"
  /\ Goes(r)
  /\ UNCHANGED <<people, creds, entries, ops, revoked, guesses>>

\* VerifyLogin returns the row it read, and login refunds the attempt.
VerifyLogin(r) ==
  LET p == request[r].who
  IN /\ request[r].op = "login"
     /\ p \in Known /\ ~people[p].disabled /\ people[p].bootstrap # "expired"
     /\ entries' = Refunded(entries, p, request[r].from)
     /\ guesses' = Refunded(guesses, p, request[r].from)
     /\ request' = [request EXCEPT ![r] =
                      [op |-> "insert", kind |-> "session", who |-> p,
                       gen |-> people[p].gen, proof |-> revoked[p]]]
     /\ UNCHANGED <<people, creds, ops, revoked>>

\* ChangePassword's GetByID and comparison with the current password.
CheckCurrentPassword(r, p) ==
  /\ Begins
  /\ request[r] = Idle /\ SignedIn(p)
  /\ request' = [request EXCEPT ![r] =
                   [op |-> "change", who |-> p,
                    gen |-> people[p].gen, proof |-> revoked[p]]]
  /\ UNCHANGED <<people, creds, entries, revoked, guesses>>

\* ChangePassword's transaction.  Its UPDATE matches the generation read
\* before; the caller goes on to CreateSession with the next one.
ChangePassword(r) ==
  LET p == request[r].who
  IN /\ request[r].op = "change"
     /\ people[p].gen = request[r].gen /\ ~people[p].disabled
     /\ Revoking(p, [people[p] EXCEPT !.bootstrap = "none"])
     /\ request' = [request EXCEPT ![r] =
                      [op |-> "insert", kind |-> "session", who |-> p,
                       gen |-> request[r].gen + 1, proof |-> revoked'[p]]]
     /\ UNCHANGED <<entries, ops, guesses>>

\* CreateToken's GetByID.
ReadOwner(r, p) ==
  /\ Begins
  /\ request[r] = Idle /\ p \in Known
  /\ ~people[p].disabled /\ people[p].bootstrap = "none"
  /\ request' = [request EXCEPT ![r] =
                   [op |-> "insert", kind |-> "token", who |-> p,
                    gen |-> people[p].gen, proof |-> revoked[p]]]
  /\ UNCHANGED <<people, creds, entries, revoked, guesses>>

\* The WHERE of insertSession and insertToken.
Insertable(q) ==
  LET p == people[q.who]
  IN /\ p.gen = q.gen
     /\ ~p.disabled
     /\ IF q.kind = "session" THEN p.bootstrap # "expired" ELSE p.bootstrap = "none"

\* Any of a person's other rows of the kind may be the ones seen last.
Others(q) == {c \in Rows : creds[c].who = q.who /\ creds[c].kind = q.kind}

\* insertSession or insertToken, then pruneSessions or pruneTokens; nobody
\* sees them before the commit.
Insert(r) ==
  LET q == request[r]
  IN /\ q.op = "insert" /\ Insertable(q)
     /\ \E id \in Creds \ (Rows \cup Taken), pruned \in SUBSET Others(q) :
          /\ IF Cardinality(Others(q)) < MaxOwned
               THEN pruned = {}
               ELSE Cardinality(Others(q) \ pruned) = MaxOwned - 1
          /\ request' = [request EXCEPT ![r] =
               [op |-> "commit", id |-> id, pruned |-> pruned,
                row |-> [kind |-> q.kind, who |-> q.who, gen |-> people[q.who].gen,
                         proof |-> q.proof]]]
     /\ UNCHANGED <<people, creds, entries, ops, revoked, guesses>>

Commit(r) ==
  LET q == request[r]
  IN /\ q.op = "commit"
     /\ creds' = [c \in Creds |-> IF c = q.id THEN q.row
                                  ELSE IF c \in q.pruned THEN None ELSE creds[c]]
     /\ Goes(r)
     /\ UNCHANGED <<people, entries, ops, revoked, guesses>>

\* A statement finds its row changed, or the request is cut off: the
\* transaction rolls back.
Fail(r) ==
  /\ request[r].op \in {"change", "insert", "commit", "lock", "apply"}
  /\ Goes(r)
  /\ UNCHANGED <<people, creds, entries, ops, revoked, guesses>>

(***************************************************************************)
(* Single credentials                                                      *)
(***************************************************************************)
\* RevokeSession, logout's DeleteSession, RevokeToken, or expiry: a row past
\* expires_at fails every check, and PruneExpiredSessions and
\* PruneExpiredTokens of the retention loop delete it.
DeleteCredential(c) ==
  /\ c \in Rows
  /\ creds' = [creds EXCEPT ![c] = None]
  /\ UNCHANGED <<people, request, entries, ops, revoked, guesses>>

Next ==
  \/ \E p \in People :
       \/ \E b \in BOOLEAN : CreateBootstrap(p, b)
       \/ BootstrapExpires(p)
       \/ Enable(p)
       \/ ResetPassword(p)
       \/ RevokeAll(p)
       \/ Promote(p)
  \/ \E r \in Requests, p \in People :
       \/ \E how \in {"disable", "demote"} : BeginRemoval(r, how, p)
       \/ \E a \in Addresses : allow(r, p, a)
       \/ CheckCurrentPassword(r, p)
       \/ ReadOwner(r, p)
  \/ \E r \in Requests :
       \/ lockEnabledAdmins(r)
       \/ Disable(r)
       \/ Demote(r)
       \/ LoginFails(r)
       \/ VerifyLogin(r)
       \/ ChangePassword(r)
       \/ Insert(r)
       \/ Commit(r)
       \/ Fail(r)
  \/ \E k \in Keys : Forget(k)
  \/ \E c \in Creds : DeleteCredential(c)

Spec == Init /\ [][Next]_vars

(***************************************************************************)
(* Properties                                                              *)
(***************************************************************************)
AccountsTypeOK ==
  /\ people \in [People -> Person \cup {None}]
  /\ creds \in [Creds -> Credential \cup {None}]
  /\ request \in [Requests -> Request]
  /\ entries \in [Keys -> Nat]
  /\ ops \in 0 .. MaxOps
  /\ revoked \in [People -> Nat]
  /\ guesses \in [Keys -> Nat]

\* Somebody can always administer the instance: Disable and SetAdmin, run by
\* any number of requests at once, do not remove the last enabled admin between
\* them (lockEnabledAdmins, isOnlyEnabledAdmin).  The one that can is about a
\* person who became an admin after the statement's snapshot was taken: the
\* lock does not cover their row.
LastAdminStays ==
  EnabledAdmins # {} /\ EnabledAdmins' = {} =>
     \E r \in Requests : /\ request[r].op = "apply"
                        /\ request[r].who \in EnabledAdmins \ request[r].admins

AdminRemains == [][LastAdminStays]_vars

\* A session or token that works was made from a password check or an account
\* row read after the last revocation of its owner's credentials, however the
\* sign-in, password change or token creation and the disabling, reset or
\* revocation interleaved.  A row whose insert commits after revokeCredentials
\* deleted the others escapes the delete; its generation does not match.
NoStaleCredential ==
  \A c \in Rows : Usable(creds[c]) => creds[c].proof = revoked[creds[c].who]

\* Where a request read a generation it proved itself to: the same statement
\* read both, and every revocation raises both.
Proven(q) == q.gen = q.proof

\* A person's generation counts the revocations, and whoever a credential or a
\* request under way is about has a row.
GenerationsCount ==
  /\ \A p \in People : IF p \in Known THEN people[p].gen = revoked[p] ELSE revoked[p] = 0
  /\ \A c \in Rows : creds[c].who \in Known /\ Proven(creds[c])
  /\ \A r \in Requests :
       /\ request[r].op \in {"change", "insert"} =>
            request[r].who \in Known /\ Proven(request[r])
       /\ request[r].op = "commit" => request[r].row.who \in Known /\ Proven(request[r].row)
       /\ request[r].op \in {"lock", "apply"} => request[r].who \in Known

\* The rows lockEnabledAdmins returned stay enabled admins until the transaction
\* that holds them writes.
HeldStayAdmins == \A r \in Requests : HeldBy(r) \subseteq EnabledAdmins

\* Every password that is checked is counted, and no count passes its limit.
AttemptsCounted ==
  \A k \in Keys : k[1] \in {"user", "global"} =>
     guesses[k] <= entries[k] /\ entries[k] <= LimitOf[k[1]]

\* Every row has its type, and no credential outlives a revocation: generations
\* count revocations, and locked admins stay admins.
AccountsSafe ==
  /\ AccountsTypeOK
  /\ NoStaleCredential
  /\ GenerationsCount
  /\ HeldStayAdmins
  /\ AttemptsCounted

\* However many sign-ins run at once, no more passwords are tried for a
\* username, or for a username from one address, than its limit until its
\* window passes or one of them succeeds (allow reserves before bcrypt runs).
GuessesBounded ==
  \A k \in Keys : k[1] \in {"user", "global"} => guesses[k] <= LimitOf[k[1]]
=============================================================================
