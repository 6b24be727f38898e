----------------------------- MODULE MCStepLog ------------------------------
(* Secrets for TLC: one overlaps itself and the other.  "[" is also what a *)
(* terminal escape begins with.                                            *)
EXTENDS StepLog

MCSecrets == {<<"a", "[">>, <<"[", "[">>}
=============================================================================
