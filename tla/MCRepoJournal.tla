--------------------------- MODULE MCRepoJournal ---------------------------
(* Small instances of RepoJournal for TLC.                                 *)
EXTENDS RepoJournal, TLC

Symmetry == Permutations(Actors) \cup Permutations(Commits)

\* Leaves backups to the run about liveness, which has them too.
NoBackup == ~maintenance
============================================================================
