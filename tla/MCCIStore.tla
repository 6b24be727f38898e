----------------------------- MODULE MCCIStore -----------------------------
(* Small instances of CIStore for TLC.                                     *)
EXTENDS CIStore, TLC

\* A pipeline of one step, allowed to deploy and not to use Docker.
OneStep(kind, applies, target) ==
  [ problem |-> FALSE, docker |-> FALSE, allowDocker |-> FALSE, allowDeploy |-> TRUE,
    target |-> target, kind |-> [i \in Steps |-> kind], applies |-> [i \in Steps |-> applies] ]

DeployPlans == {OneStep("deploy", TRUE, t) : t \in Targets}

\* Every way planRun ends: refused for each reason, nothing to do, queued.
MixedPlans ==
  DeployPlans \cup
  {OneStep("run", TRUE, NoTarget), OneStep("run", FALSE, NoTarget),
   [OneStep("run", TRUE, NoTarget) EXCEPT !.problem = TRUE],
   [OneStep("run", TRUE, NoTarget) EXCEPT !.docker = TRUE]} \cup
  {[OneStep("deploy", TRUE, t) EXCEPT !.allowDeploy = FALSE] : t \in Targets}

\* Two deploying runs, in any order of transactions.  Each of the other hazards
\* (maintenance, deletion, cancelling, containers, a lost worker) needs one run
\* and is left to OneRun.
TwoDeploys ==
  /\ counter <= 2 /\ ~maintenance /\ op \in {"none", "push"}
  /\ \A r \in Runs : /\ ~runs[r].expired /\ ~runs[r].cancel
                     /\ runs[r].status \notin {"pruned", "cancelled"}
  /\ \A r \in Runs, i \in Steps :
        /\ ~steps[r][i].created
        /\ steps[r][i].kind # "run"
        /\ steps[r][i].removed => steps[r][i].status \notin Open
  /\ \A w \in Workers : workers[w].beat = "fresh"

\* Everything that may happen to one run.  Creating a second run, within the
\* budget or not, is the last step explored.
OneRun == counter <= 1 /\ \A w \in Workers : workers[w].beat # "late"

Bound == OneRun \/ TwoDeploys
============================================================================
