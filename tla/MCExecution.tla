---------------------------- MODULE MCExecution ----------------------------
(* Small instances of Execution for TLC.                                   *)
EXTENDS Execution, TLC

CONSTANTS w1, w2, h1, h2

OneStep(kind, target) ==
  [ problem |-> FALSE, docker |-> FALSE, allowDocker |-> FALSE, allowDeploy |-> TRUE,
    target |-> target, kind |-> [i \in Steps |-> kind], applies |-> [i \in Steps |-> TRUE] ]

DeployPlans == {OneStep("deploy", t) : t \in Targets}

BuildAndDeployPlans == {[OneStep("run", t) EXCEPT !.kind[NumSteps] = "deploy"] : t \in Targets}

OneHost == [w \in Workers |-> h1]
TwoHosts == (w1 :> h1) @@ (w2 :> h2)

\* Deadlines are left to the runs on one host, and a cleanup pass meets one run.
OneAtATime ==
  /\ \A r \in Runs : ~runs[r].expired
  /\ counter > 1 => \A w \in Workers : clean[w].pc = "idle"
============================================================================
