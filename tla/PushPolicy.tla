----------------------------- MODULE PushPolicy -----------------------------
(***************************************************************************)
(* Pushing to a repository while its rules, readers, default push policy   *)
(* and default branch change: internal/push (ApplyPush, ValidatePush,      *)
(* prepareRecords, recordPush, Refs.Delete), the settings of               *)
(* internal/repo/service.go and Start of internal/ci/service.go.           *)
(*                                                                         *)
(* A push holds the repository's mutation lock from its first read to the  *)
(* recording of its runs, and reads its context twice, one query at a      *)
(* time; rules and access change without that lock.  The journal of a push *)
(* and what a crash does to it are RepoJournal's; here an operation that   *)
(* begins is carried out.                                                  *)
(***************************************************************************)
EXTENDS RefPolicy, FiniteSets

CONSTANTS
  People,         \* who pushes
  Admins,         \* those of them who are admins
  Names,          \* ref names
  PipelineOf,     \* the pipeline file of each commit
  Descends,       \* pairs <<old, new>> of commits, new a descendant of old
  Pushes,         \* the sets of updates people push
  RulePool,       \* the rules admins save
  FirstRules,     \* the sets of rules saved before
  FirstRefs,      \* the refs pushed before
  ReaderSets,     \* the readers they list
  Policies,       \* the default push policies they set, with their people
  MaxChanges,     \* bound: changes of settings
  MaxPushes       \* bound: pushes, deletions and runs begun

Kinds == {"branch", "tag"}
Other(kind) == IF kind = "branch" THEN "tag" ELSE "branch"
Commits == DOMAIN PipelineOf

\* git's zero hash: no commit.
Zero == "zero"
Free == "free"

Refs == [Kinds \X Names -> Commits \cup {Zero}]

\* A client's command: ref, the commit it should be at and the one to set.
Update == [kind : Kinds, name : Names, old : Commits \cup {Zero}, new : Commits \cup {Zero}]

Distinctly(some) == \A n \in Names : some[<<"branch", n>>] = Zero \/ some[<<"tag", n>>] = Zero

Key(r) == <<r.kind, r.pattern>>

RulesOK(some) == \A r \in some : r.kind \in Kinds /\ r.pattern \in Seq(Chars)

\* Rows of ref_rules: one for a kind and a pattern.
Saved(rows) ==
  /\ RulesOK(rows) /\ IsFiniteSet(rows)
  /\ \A q, r \in rows : Key(q) = Key(r) => q = r

TargetsOK(file) ==
  /\ file.targets \in Seq(Range(file.targets))
  /\ \A i \in 1 .. Len(file.targets) : file.targets[i].pattern \in Seq(Chars)

ASSUME PolicyAssumption ==
  /\ Admins \subseteq People /\ Free \notin People
  /\ MaxChanges \in Nat /\ MaxPushes \in Nat
  /\ Zero \notin Commits
  /\ Names \subseteq Seq(Chars)
  /\ Pushes \subseteq SUBSET Update
  /\ RulesOK(RulePool) /\ \A rows \in FirstRules : Saved(rows)
  /\ \A c \in Commits : TargetsOK(PipelineOf[c])
  /\ FirstRefs \in Refs /\ Distinctly(FirstRefs)   \* refs pushed the same way
  /\ ReaderSets \subseteq SUBSET People
  /\ Policies \subseteq [push : {"everyone", "people", "admins"}, people : SUBSET People]

VARIABLES
  rules,      \* the ref_rules rows
  repo,       \* the repos row: [push, people, branch, open], open for
              \* visibility everyone
  readers,    \* the repo_readers rows
  disabled,   \* the people who are disabled
  refs,       \* the repository's branches and tags
  lock,       \* who holds the mutation lock
  hook,       \* each person's push or request
  made,       \* the runs recorded since a push or request began
  changes,    \* settings changes so far
  begun,      \* pushes begun so far
  touched     \* history: settings changed since the lock was taken

vars == <<rules, repo, readers, disabled, refs, lock, hook, made,
          changes, begun, touched>>

settingsVars == <<rules, repo, readers, disabled>>

Idle == [pc |-> "idle"]

(***************************************************************************)
(* Settings                                                                *)
(***************************************************************************)
\* upsertRule replaces the rule of the same kind and pattern.
upsertRule(rows, r) == {q \in rows : Key(q) # Key(r)} \cup {r}

Changed ==
  /\ changes < MaxChanges /\ changes' = changes + 1
  /\ touched' = (lock # Free)
  /\ UNCHANGED <<refs, lock, hook, made, begun>>

SaveRule ==
  \E r \in RulePool :
    /\ validatePushPolicy(r.push, r.people)
    /\ rules' = upsertRule(rules, r)
    /\ Changed /\ UNCHANGED <<repo, readers, disabled>>

DeleteRule ==
  \E r \in rules :
    /\ rules' = rules \ {r}
    /\ Changed /\ UNCHANGED <<repo, readers, disabled>>

SetDefaultPush ==
  \E d \in Policies :
    /\ validatePushPolicy(d.push, d.people)
    /\ repo' = [repo EXCEPT !.push = d.push, !.people = d.people]
    /\ Changed /\ UNCHANGED <<rules, readers, disabled>>

SetAccess ==
  \E d \in Policies, open \in BOOLEAN, some \in ReaderSets :
    /\ validatePushPolicy(d.push, d.people)
    /\ repo' = [repo EXCEPT !.push = d.push, !.people = d.people, !.open = open]
    /\ readers' = some
    /\ Changed /\ UNCHANGED <<rules, disabled>>

SetVisibility ==
  \E open \in BOOLEAN :
    /\ repo' = [repo EXCEPT !.open = open]
    /\ Changed /\ UNCHANGED <<rules, readers, disabled>>

ChangeReader ==
  \E p \in People :
    /\ readers' = IF p \in readers THEN readers \ {p} ELSE readers \cup {p}
    /\ Changed /\ UNCHANGED <<rules, repo, disabled>>

DisablePerson ==
  \E p \in People \ disabled :
    /\ disabled' = disabled \cup {p}
    /\ Changed /\ UNCHANGED <<rules, repo, readers>>

\* Without the mutation lock.
MutSetDefaultBranch ==
  \E n \in Names :
    /\ n # repo.branch /\ refs[<<"branch", n>>] # Zero
    /\ repo' = [repo EXCEPT !.branch = n]
    /\ Changed /\ UNCHANGED <<rules, readers, disabled>>

\* Everything it reads and writes it does under the mutation lock.
SetDefaultBranch ==
  \E n \in Names :
    /\ lock = Free
    /\ n # repo.branch /\ refs[<<"branch", n>>] # Zero
    /\ repo' = [repo EXCEPT !.branch = n]
    /\ Changed /\ UNCHANGED <<rules, readers, disabled>>

(***************************************************************************)
(* What a push may do                                                      *)
(***************************************************************************)
IsCreate(u) == u.old = Zero
IsDelete(u) == u.new = Zero

\* selectRules: ORDER BY kind, pattern.
Earlier(a, b) == IF a.kind # b.kind THEN a.kind = "branch" ELSE Before(a.pattern, b.pattern)

Listed(rows) ==
  CHOOSE seq \in SetToSeqs(rows) : \A i, j \in DOMAIN seq : i < j => Earlier(seq[i], seq[j])

Settings(view) == [rules |-> view.rules, push |-> view.repo.push,
                   people |-> view.repo.people, branch |-> view.repo.branch]

decide(view, u, p) == Evaluate(Settings(view), u.kind, u.name, p, p \in Admins)

CanRead(view, p) == p \in Admins \/ view.repo.open \/ p \in readers

\* The refs there are now; the push's own updates are not looked at.
MutPresent(updates) == {r \in Kinds \X Names : refs[r] # Zero}

\* The refs there will be once the push is applied.
Present(updates) ==
  {r \in Kinds \X Names :
     \/ \E u \in updates : <<u.kind, u.name>> = r /\ ~IsDelete(u)
     \/ refs[r] # Zero /\ ~\E u \in updates : <<u.kind, u.name>> = r /\ IsDelete(u)}

\* The update survives ValidatePush's loop.
Accepted(view, u, updates, p) ==
  LET d == decide(view, u, p)
  IN IF IsDelete(u)
       THEN CheckDelete(Settings(view), u.kind, u.name, p, p \in Admins)
       ELSE /\ IsCreate(u) => <<Other(u.kind), u.name>> \notin Present(updates)
            /\ d.canPush
            /\ \/ IsCreate(u) \/ "force" \in d.allows
               \/ u.kind = "branch" /\ <<u.old, u.new>> \in Descends

CheckRefChanges(updates) == \A u \in updates : refs[<<u.kind, u.name>>] = u.old

(***************************************************************************)
(* Pushing                                                                 *)
(***************************************************************************)
SetHook(p, h) == hook' = [hook EXCEPT ![p] = h]

CanBegin(p) == begun < MaxPushes /\ hook[p] = Idle

Begin(p, h) == begun' = begun + 1 /\ made' = {} /\ SetHook(p, h)

\* git-receive-pack hands the client's commands to ApplyPush, which waits for
\* the lock.
Push(p) ==
  /\ CanBegin(p)
  /\ \E updates \in Pushes :
       Begin(p, [pc |-> "wait", updates |-> updates])
  /\ UNCHANGED <<rules, repo, readers, disabled, refs, lock, changes, touched>>

\* Refs.Delete: the same check before ApplyPush, on a context of its own.
WebDelete(p) ==
  /\ CanBegin(p)
  /\ \E kind \in Kinds, n \in Names :
       /\ CheckDelete([rules |-> Listed(rules), push |-> repo.push,
                       people |-> repo.people, branch |-> repo.branch],
                      kind, n, p, p \in Admins)
       /\ refs[<<kind, n>>] # Zero
       /\ Begin(p, [pc |-> "wait",
                    updates |-> {[kind |-> kind, name |-> n,
                                  old |-> refs[<<kind, n>>], new |-> Zero]}])
  /\ UNCHANGED <<rules, repo, readers, disabled, refs, lock, changes, touched>>

TakeLock(p) ==
  /\ hook[p].pc = "wait" /\ lock = Free
  /\ lock' = p
  /\ SetHook(p, [pc |-> "repo1", updates |-> hook[p].updates])
  /\ touched' = FALSE
  /\ UNCHANGED <<rules, repo, readers, disabled, refs, made, changes, begun>>

\* load: the repository, the person and the rules, one query each.
LoadRepo(p) ==
  /\ hook[p].pc \in {"repo1", "repo2"}
  /\ SetHook(p, [pc |-> IF hook[p].pc = "repo1" THEN "person1" ELSE "rules2",
                 updates |-> hook[p].updates, repo |-> repo, barred |-> FALSE])
  /\ UNCHANGED <<rules, repo, readers, disabled, refs, lock, made, changes, begun, touched>>

\* The second context's person is not looked at again.
LoadPerson(p) ==
  /\ hook[p].pc = "person1"
  /\ SetHook(p, [hook[p] EXCEPT !.pc = "rules1", !.barred = p \in disabled])
  /\ UNCHANGED <<rules, repo, readers, disabled, refs, lock, made, changes, begun, touched>>

LoadRules(p) ==
  /\ hook[p].pc \in {"rules1", "rules2"}
  /\ SetHook(p, [pc |-> IF hook[p].pc = "rules1" THEN "validate" ELSE "prepare",
                 updates |-> hook[p].updates, barred |-> hook[p].barred,
                 view |-> [repo |-> hook[p].repo, rules |-> Listed(rules)]])
  /\ UNCHANGED <<rules, repo, readers, disabled, refs, lock, made, changes, begun, touched>>

Done(p) == SetHook(p, Idle) /\ lock' = Free /\ touched' = FALSE

\* ValidatePush and CheckRefChanges accept every update, or the push ends.
Validate(p) ==
  LET h == hook[p]
      good == /\ ~h.barred
              /\ CanRead(h.view, p)
              /\ \A u \in h.updates : Accepted(h.view, u, h.updates, p)
              /\ CheckRefChanges(h.updates)
  IN /\ h.pc = "validate"
     /\ IF good
          THEN SetHook(p, [pc |-> "repo2", updates |-> h.updates]) /\ UNCHANGED <<lock, touched>>
          ELSE Done(p)
     /\ UNCHANGED <<rules, repo, readers, disabled, refs, made, changes, begun>>

Run(kind, name, commit, d) ==
  [kind |-> kind, name |-> name, commit |-> commit, allows |-> d.allows,
   plan |-> planRun(PipelineOf[commit], kind, name, d.allows, 1, 2)]

\* prepareRecords decides again, on the second context, what each update may
\* run; the refs then change in one Git transaction and the runs are recorded
\* in one of the database.
Apply(p) ==
  LET h == hook[p]
  IN /\ h.pc = "prepare"
     /\ refs' = [r \in Kinds \X Names |->
                   IF \E u \in h.updates : <<u.kind, u.name>> = r
                     THEN (CHOOSE u \in h.updates : <<u.kind, u.name>> = r).new
                     ELSE refs[r]]
     /\ made' = {Run(u.kind, u.name, u.new, decide(h.view, u, p)) :
                   u \in {u \in h.updates :
                            /\ ~IsDelete(u)
                            /\ "run" \in decide(h.view, u, p).allows}}
     /\ Done(p)
     /\ UNCHANGED <<rules, repo, readers, disabled, changes, begun>>

\* The web's Run button: mayRun on the request's repository and the rules now.
AskRun(p) ==
  /\ CanBegin(p)
  /\ \E kind \in Kinds, n \in Names :
       LET d == Evaluate([rules |-> Listed(rules), push |-> repo.push,
                          people |-> repo.people, branch |-> repo.branch],
                         kind, n, p, p \in Admins)
       IN /\ refs[<<kind, n>>] # Zero /\ d.canPush
          /\ Begin(p, [pc |-> "start", run |-> Run(kind, n, refs[<<kind, n>>], d)])
  /\ UNCHANGED <<rules, repo, readers, disabled, refs, lock, changes, touched>>

Start(p) ==
  /\ hook[p].pc = "start" /\ lock = Free
  /\ made' = {hook[p].run}
  /\ SetHook(p, Idle)
  /\ UNCHANGED <<rules, repo, readers, disabled, refs, lock, changes, begun, touched>>

(***************************************************************************)
(* Specification                                                           *)
(***************************************************************************)
\* A repository some of whose rules are saved and whose refs were pushed.
Init ==
  /\ rules \in FirstRules
  /\ repo \in [push : {"everyone"}, people : {{}}, branch : Names, open : {TRUE}]
  /\ readers = {} /\ disabled = {}
  /\ refs = FirstRefs
  /\ lock = Free
  /\ hook = [p \in People |-> Idle]
  /\ made = {}
  /\ changes = 0 /\ begun = 0 /\ touched = FALSE

Next ==
  \/ SaveRule \/ DeleteRule \/ SetDefaultPush \/ SetAccess \/ SetVisibility
  \/ ChangeReader \/ DisablePerson \/ SetDefaultBranch
  \/ \E p \in People :
       \/ Push(p) \/ WebDelete(p) \/ TakeLock(p) \/ LoadRepo(p) \/ LoadPerson(p)
       \/ LoadRules(p) \/ Validate(p) \/ Apply(p) \/ AskRun(p) \/ Start(p)

Spec == Init /\ [][Next]_vars

(***************************************************************************)
(* Properties                                                              *)
(***************************************************************************)
\* The rule of the rows that names kind and name, by the documented order.
RuleFor(kind, name) ==
  {r \in rules : /\ r.kind = kind
                /\ Applies({q.pattern : q \in {q \in rules : q.kind = kind}},
                           name, r.pattern)}

\* What the settings now say of person p making update u.
Permits(p, u) ==
  LET some  == RuleFor(u.kind, u.name)
      May(x) == \/ x.push = "everyone" \/ p \in Admins
                \/ x.push = "people" /\ p \in x.people
      Can(a) == \A r \in some : a \in r.allows
  IN /\ p \notin disabled
     /\ p \in Admins \cup readers \/ repo.open
     /\ IF some = {} THEN May(repo) ELSE \A r \in some : May(r)
     /\ IsDelete(u) => Can("delete") /\ <<u.kind, u.name>> # <<"branch", repo.branch>>
     /\ ~IsDelete(u) /\ ~IsCreate(u) =>
          Can("force") \/ (u.kind = "branch" /\ <<u.old, u.new>> \in Descends)

\* Of the rules that match a ref, selectRule takes the one the documented
\* precedence names, in whatever order the rows are listed; SelectPattern
\* stops early at an exact match and compares only with the best so far.
\* (Rules change the same way before the first push and after it.)
RuleFound ==
  begun = 0 =>
  \A rows \in SetToSeqs(rules), kind \in Kinds, n \in Names :
    LET r == selectRule(rows, kind, n)
    IN IF r = NoRule THEN RuleFor(kind, n) = {} ELSE RuleFor(kind, n) = {r}

\* A branch and a tag never share a name, though a push may delete the one
\* and create the other, or create both, or rest on refs that have moved.
NamesDistinct == Distinctly(refs)

Repo ==
  [push : {"everyone", "people", "admins"}, people : SUBSET People, branch : Names,
   open : BOOLEAN]

AllRules == RulePool \cup UNION FirstRules

Under(pc) == pc \in {"repo1", "person1", "rules1", "validate", "repo2", "rules2", "prepare"}

\* What a request knows by where it is.
HookOK(h) ==
  /\ \/ h = Idle
     \/ h \in [pc : {"wait", "repo1", "repo2"}, updates : SUBSET Update]
     \/ h \in [pc : {"person1", "rules1", "rules2"}, updates : SUBSET Update, repo : Repo,
               barred : BOOLEAN]
     \/ /\ h.pc \in {"validate", "prepare"}
        /\ DOMAIN h = {"pc", "updates", "barred", "view"}
        /\ h.updates \in SUBSET Update /\ h.barred \in BOOLEAN
        /\ DOMAIN h.view = {"repo", "rules"} /\ h.view.repo \in Repo
     \/ h.pc = "start" /\ DOMAIN h = {"pc", "run"}

\* Rows, refs and requests have their types.
PolicyTypeOK ==
  /\ rules \subseteq AllRules
  /\ repo \in Repo
  /\ readers \subseteq People /\ disabled \subseteq People
  /\ refs \in Refs
  /\ lock \in People \cup {Free}
  /\ DOMAIN hook = People /\ \A p \in People : HookOK(hook[p])
  /\ changes \in 0 .. MaxChanges /\ begun \in 0 .. MaxPushes
  /\ touched \in BOOLEAN

\* The mutation lock is held by the one person whose push is between its
\* first read and the recording of its runs.
LockHeld == \A p \in People : Under(hook[p].pc) <=> lock = p

\* The settings as they are.
Now == [repo |-> repo, rules |-> Listed(rules)]

\* Of what a push read one query at a time, the default branch stays true while
\* it has the lock; all of it does unless somebody changed a setting.
ReadsHold ==
  \A p \in People :
    LET h == hook[p]
    IN /\ h.pc \in {"person1", "rules1", "rules2"} =>
            h.repo.branch = repo.branch /\ (~touched => h.repo = repo)
       /\ h.pc \in {"validate", "prepare"} =>
            h.view.repo.branch = repo.branch /\ (~touched => h.view = Now)
       /\ h.pc \in {"rules1", "validate"} /\ ~touched => h.barred = (p \in disabled)

\* What a push was found to be before its second context is read it still is
\* when it is applied: it rests on the refs there are, gives no name to both
\* a branch and a tag and deletes no default branch; and unless somebody
\* changed a setting meanwhile, the settings there are accept every update.
StaysValid ==
  \A p \in People :
    LET updates == hook[p].updates
    IN hook[p].pc \in {"repo2", "rules2", "prepare"} =>
         /\ CheckRefChanges(updates)
         /\ \A u \in updates :
              IF IsDelete(u) THEN <<u.kind, u.name>> # <<"branch", repo.branch>>
              ELSE IsCreate(u) => <<Other(u.kind), u.name>> \notin Present(updates)
         /\ ~touched =>
              /\ p \notin disabled /\ CanRead(Now, p)
              /\ \A u \in updates : Accepted(Now, u, updates, p)

\* A branch and a tag never share a name, and what makes it so.
PushSafe == PolicyTypeOK /\ LockHeld /\ ReadsHold /\ StaysValid /\ NamesDistinct

\* A default branch that exists is never deleted, whichever way deletions by
\* push or by the web and changes of the default branch fall between each
\* other.
DefaultBranchStays ==
  [][refs[<<"branch", repo.branch>>] # Zero => refs'[<<"branch", repo'.branch>>] # Zero]_vars

\* A push during which no settings change is applied only where every update
\* is one the settings permit its person.
PushAuthorized ==
  [][\A p \in People :
       ~touched /\ hook[p].pc = "prepare" /\ refs' # refs /\ hook'[p] = Idle =>
         \A u \in hook[p].updates : Permits(p, u)]_vars

\* A queued run with a deploy step to run has a target, the one whose pattern
\* applies to its ref, and a rule that allowed it to deploy.
DeployHasTarget ==
  \A r \in made :
    r.plan.status = "queued" /\ r.plan.deploy # {} =>
      /\ "deploy" \in r.allows
      /\ \E t \in Range(PipelineOf[r.commit].targets) :
           /\ t.name = r.plan.target /\ t.kind = r.kind
           /\ Applies({q.pattern : q \in {q \in Range(PipelineOf[r.commit].targets) :
                                            q.kind = r.kind}}, r.name, t.pattern)
=============================================================================
