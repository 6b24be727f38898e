----------------------------- MODULE MCAccounts -----------------------------
(***************************************************************************)
(* Small limits for the sign-in limiter.                                   *)
(***************************************************************************)
EXTENDS Accounts, TLC

MCLimitOf == [user |-> 1, address |-> 2, global |-> 1]

Symmetry == Permutations(Requests) \cup Permutations(Creds)
=============================================================================
