\* Every intent is finished, and applied once even by a command that is late;
\* backups are taken at any moment.
SPECIFICATION JournalFairSpec
CONSTANTS
  Actors = {p1, p2}
  Nobody = Nobody
  Refs = {main, dev}
  Commits = {c1}
  Zero = Zero
  MaxOps = 2
  Kinds = {"create", "delete", "head", "push"}
  Faults = {"crash", "orphan", "db", "git"}
  MaxFaults = 1
INVARIANTS BackupConsistent
PROPERTIES OperationsFinish AppliedOnce
