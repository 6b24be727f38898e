\* Two steps; any two of crash, shutdown, failed calls, full disk, cancellation, release.
SPECIFICATION ExecSpec
CONSTANTS
  w1 = w1
  w2 = w2
  h1 = h1
  h2 = h2
  NoTarget = NoTarget
  NoWorker = NoWorker
  MaxRuns = 1
  NumSteps = 2
  Refs = {main}
  Targets = {prod}
  Workers = {w1, w2}
  Plans <- BuildAndDeployPlans
  MaxPending = 2
  Engines = {h1}
  Engine <- OneHost
  Triggers = {"manual"}
  Cleaners = {}
  Frail = {w1, w2}
  Faults = {"crash", "db", "docker", "cancel", "release", "shutdown", "disk"}
  MaxFaults = 2
INVARIANTS ExecSafe
PROPERTIES StoreSpec ExitsKept
CHECK_DEADLOCK FALSE
