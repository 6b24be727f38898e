\* Two writers, escapes and secrets, a database that fails twice.
SPECIFICATION LogSpec
CONSTANTS
  Writers = {"step", "note"}
  Bytes = {"a", "[", "ESC"}
  Secrets <- MCSecrets
  ChunkSize = 2
  MaxUnstored = 3
  MaxStepLog = 4
  MaxBytes = 5
  MaxFaults = 2
INVARIANTS LogSafe SecretsMasked
PROPERTIES ImplementsFeed OutputMoves
CHECK_DEADLOCK FALSE
