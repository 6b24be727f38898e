------------------------------ MODULE RefPolicy ------------------------------
(***************************************************************************)
(* Which pattern, rule and pipeline target apply to a ref, and what a      *)
(* pipeline file then makes of a run: internal/git/refs.go,                *)
(* internal/repo/rules.go, internal/ci/pipeline.go and planRun of          *)
(* internal/ci/scheduler.go, as operators.                                 *)
(*                                                                         *)
(* Names and patterns are sequences of characters.  The character rules of *)
(* ref, variable and image names, the sizes of texts and the environment   *)
(* of a run are left out; a pipeline file here is one the YAML decoder     *)
(* accepted.                                                               *)
(***************************************************************************)
EXTENDS Naturals, Sequences, FiniteSets, SequencesExt

CONSTANT Code   \* the byte of each character

Star == "*"

Chars == DOMAIN Code

ASSUME CodeAssumption ==
  /\ Code \in [Chars -> Nat]
  /\ \A c, d \in Chars : Code[c] = Code[d] => c = d

(***************************************************************************)
(* Patterns                                                                *)
(***************************************************************************)
Wild(pattern) == Star \in Range(pattern)

\* strings.Split(pattern, "*").
Parts(pattern) ==
  FoldLeft(LAMBDA parts, c :
             IF c = Star THEN Append(parts, <<>>)
                         ELSE [parts EXCEPT ![Len(parts)] = Append(@, c)],
           << <<>> >>, pattern)

NoMatch == [ok |-> FALSE, rest |-> <<>>]

\* What follows the first occurrence of part (strings.Index).
After(left, part) ==
  LET at == {i \in 0 .. Len(left.rest) - Len(part) :
               SubSeq(left.rest, i + 1, i + Len(part)) = part}
      first == CHOOSE i \in at : \A j \in at : i <= j
  IN IF ~left.ok \/ at = {}
       THEN NoMatch
       ELSE [ok |-> TRUE,
             rest |-> SubSeq(left.rest, first + Len(part) + 1, Len(left.rest))]

\* The last part is looked for like the middle ones.
MutMatchPattern(pattern, name) ==
  LET parts == Parts(pattern)
  IN IF ~Wild(pattern)
       THEN pattern = name
       ELSE /\ IsPrefix(parts[1], name)
            /\ FoldLeft(After,
                        [ok |-> TRUE,
                         rest |-> SubSeq(name, Len(parts[1]) + 1, Len(name))],
                        Tail(parts)).ok

MatchPattern(pattern, name) ==
  LET parts == Parts(pattern)
      last  == Last(parts)
      rest  == SubSeq(name, Len(parts[1]) + 1, Len(name))
  IN IF ~Wild(pattern)
       THEN pattern = name
       ELSE /\ IsPrefix(parts[1], name)
            /\ IsSuffix(last, rest)
            /\ FoldLeft(After,
                        [ok |-> TRUE, rest |-> SubSeq(rest, 1, Len(rest) - Len(last))],
                        Front(Tail(parts))).ok

Specificity(pattern) == Cardinality({i \in 1 .. Len(pattern) : pattern[i] # Star})

\* a < b as strings.
Before(a, b) ==
  \E n \in 0 .. Len(a) :
    /\ n < Len(b) /\ SubSeq(a, 1, n) = SubSeq(b, 1, n)
    /\ n = Len(a) \/ Code[a[n + 1]] < Code[b[n + 1]]

MoreSpecific(a, b) ==
  IF Specificity(a) # Specificity(b)
    THEN Specificity(a) > Specificity(b)
    ELSE IF Len(a) # Len(b) THEN Len(a) < Len(b) ELSE Before(a, b)

\* The index of the pattern that applies, 0 for none.
SelectPattern(patterns, name) ==
  FoldLeft(LAMBDA best, i :
             IF \/ best # 0 /\ ~Wild(patterns[best])
                \/ ~MatchPattern(patterns[i], name)
               THEN best
             ELSE IF \/ ~Wild(patterns[i]) \/ best = 0
                     \/ MoreSpecific(patterns[i], patterns[best])
               THEN i
             ELSE best,
           0, [i \in 1 .. Len(patterns) |-> i])

(***************************************************************************)
(* Ref rules                                                               *)
(***************************************************************************)
\* A rule is [kind, pattern, push, people, allows], allows being the boolean
\* columns that are set.
NoRule == [kind |-> "none"]

\* The rules or targets for a kind of refs.
OfKind(kind, seq) ==
  FoldLeft(LAMBDA some, x : IF x.kind = kind THEN Append(some, x) ELSE some, <<>>, seq)

selectRule(rules, kind, name) ==
  LET some == OfKind(kind, rules)
      best == SelectPattern([i \in 1 .. Len(some) |-> some[i].pattern], name)
  IN IF best = 0 THEN NoRule ELSE some[best]

\* The people listed are not looked at.
MutPolicyAllows(policy, people, person, isAdmin) == policy # "admins" \/ isAdmin

PolicyAllows(policy, people, person, isAdmin) ==
  \/ policy = "everyone"
  \/ isAdmin
  \/ policy = "people" /\ person \in people

\* settings is [rules, push, people, branch] of a repository.
Evaluate(settings, kind, name, person, isAdmin) ==
  LET matched == selectRule(settings.rules, kind, name)
  IN IF matched = NoRule
       THEN [canPush |-> PolicyAllows(settings.push, settings.people, person, isAdmin),
             allows  |-> {"force", "delete"}]
       ELSE [canPush |-> PolicyAllows(matched.push, matched.people, person, isAdmin),
             allows  |-> matched.allows]

CheckDelete(settings, kind, name, person, isAdmin) ==
  LET d == Evaluate(settings, kind, name, person, isAdmin)
  IN /\ d.canPush
     /\ ~(kind = "branch" /\ name = settings.branch)
     /\ "delete" \in d.allows

validatePushPolicy(policy, people) ==
  CASE policy \in {"everyone", "admins"} -> people = {}
    [] policy = "people"                 -> people # {}
    [] OTHER                             -> FALSE

(***************************************************************************)
(* Pipeline files                                                          *)
(***************************************************************************)
\* A pipeline file is [docker, image, requires, images, targets, steps]:
\* targets a sequence of [name, kind, pattern], images one of [repo, keep],
\* steps one of [name, type, when].
Keywords == {"", "always", "target", "branch", "tag"}

Distinct(seq) == \A i, j \in 1 .. Len(seq) : seq[i] = seq[j] => i = j

ValidImages(file, minKeep, maxKeep) ==
  /\ Distinct(file.requires)
  /\ Distinct([i \in 1 .. Len(file.images) |-> file.images[i].repo])
  /\ \A i \in 1 .. Len(file.images) :
       /\ file.images[i].repo \notin Range(file.requires) \cup {file.image}
       /\ file.images[i].keep \in minKeep .. maxKeep

ValidTargets(file) ==
  /\ Distinct([i \in 1 .. Len(file.targets) |-> file.targets[i].name])
  /\ Distinct([i \in 1 .. Len(file.targets) |->
                <<file.targets[i].kind, file.targets[i].pattern>>])

TargetNames(file) == {file.targets[i].name : i \in 1 .. Len(file.targets)}

\* parseWhen accepts it.
WhenKnown(file, when) == when \in Keywords \cup TargetNames(file)

\* Any condition is good enough for a deploy step.
MutDeploySteps(file) ==
  \A i, j \in 1 .. Len(file.steps) :
    file.steps[i].type = "deploy" /\ file.steps[j].type = "deploy" => i = j

DeploySteps(file) ==
  /\ \A i, j \in 1 .. Len(file.steps) :
       file.steps[i].type = "deploy" /\ file.steps[j].type = "deploy" => i = j
  /\ \A i \in 1 .. Len(file.steps) :
       file.steps[i].type = "deploy" =>
         /\ file.steps[i].when \notin Keywords \ {"target"}
         /\ file.targets # <<>>

ValidSteps(file) ==
  /\ file.steps # <<>>
  /\ Distinct([i \in 1 .. Len(file.steps) |-> file.steps[i].name])
  /\ \A i \in 1 .. Len(file.steps) : WhenKnown(file, file.steps[i].when)
  /\ DeploySteps(file)

\* Parse returns a Config.
Valid(file, minKeep, maxKeep) ==
  ValidImages(file, minKeep, maxKeep) /\ ValidTargets(file) /\ ValidSteps(file)

\* The target a ref resolves to, "" for none.
ResolveTarget(file, kind, name) ==
  LET some == OfKind(kind, file.targets)
      best == SelectPattern([i \in 1 .. Len(some) |-> some[i].pattern], name)
  IN IF best = 0 THEN "" ELSE some[best].name

ShouldRun(when, kind, target) ==
  CASE when \in {"", "always"}   -> TRUE
    [] when \in {"branch", "tag"} -> kind = when
    [] when = "target"           -> target # ""
    [] OTHER                     -> target = when

\* planRun for a pipeline that was found and is small enough.
planRun(file, kind, name, allows, minKeep, maxKeep) ==
  LET target == ResolveTarget(file, kind, name)
      runs   == {i \in 1 .. Len(file.steps) :
                   ShouldRun(file.steps[i].when, kind, target)}
      deploy == {i \in runs : file.steps[i].type = "deploy"}
      Ended(status) == [status |-> status, target |-> target,
                        run |-> {}, deploy |-> {}]
  IN IF ~Valid(file, minKeep, maxKeep) THEN [Ended("failed") EXCEPT !.target = ""]
     ELSE IF \/ file.docker /\ "docker" \notin allows
             \/ deploy # {} /\ "deploy" \notin allows
       THEN Ended("failed")
     ELSE IF runs = {} THEN Ended("passed")
     ELSE [status |-> "queued", target |-> target, run |-> runs, deploy |-> deploy]

(***************************************************************************)
(* What the above is checked against                                       *)
(***************************************************************************)
\* '*' stands for any sequence of characters, '/' included: the name can be cut
\* so that each character of the pattern has its part of it, which ends at at.
Matches(pattern, name) ==
  \E at \in [0 .. Len(pattern) -> 0 .. Len(name)] :
    /\ at[0] = 0 /\ at[Len(pattern)] = Len(name)
    /\ \A i \in 1 .. Len(pattern) :
         IF pattern[i] = Star THEN at[i - 1] <= at[i]
         ELSE at[i] = at[i - 1] + 1 /\ name[at[i]] = pattern[i]

\* The pattern that applies, from the rule the comments give: an exact one,
\* else the one MoreSpecific than every other that matches.
Applies(patterns, name, p) ==
  LET some == {q \in patterns : Matches(q, name)}
  IN /\ p \in some
     /\ ~Wild(p) \/ \A q \in some \ {p} : Wild(q) /\ MoreSpecific(p, q)
=============================================================================
