------------------------------ MODULE MCImages ------------------------------
(* Pipelines for TLC.                                                      *)
EXTENDS Images, TLC

\* Builds and deploys its own version; runs in the base image.
Ship == [needs |-> Bases, keep |-> 1, builds |-> TRUE, deploys |-> TRUE]

\* Runs in an image that an earlier run built.
Reuse(v) == [needs |-> {v}, keep |-> 1, builds |-> FALSE, deploys |-> FALSE]

Symmetry == Permutations(Workers)

MCReuse == {[Ship EXCEPT !.builds = FALSE]}

MCPipelines == {Ship, Reuse(CHOOSE v \in Versions : TRUE)}
=============================================================================
