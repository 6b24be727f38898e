\* Every operation, with crashes, failures, outside changes and abandoning.
SPECIFICATION JournalSpec
CONSTANTS
  Actors = {p1, p2}
  Nobody = Nobody
  Refs = {main, dev}
  Commits = {c1}
  Zero = Zero
  MaxOps = 2
  Kinds = {"create", "delete", "head", "push"}
  Faults = {"crash", "db", "git", "abandon", "outside"}
  MaxFaults = 3
INVARIANTS JournalSafe
PROPERTIES OutcomeFinal
CONSTRAINT NoBackup
SYMMETRY Symmetry
