\* Two hosts race for one target; the one that also cleans up is cut off from
\* the database or told to stop.
SPECIFICATION ExecSpec
CONSTANTS
  w1 = w1
  w2 = w2
  h1 = h1
  h2 = h2
  NoTarget = NoTarget
  NoWorker = NoWorker
  MaxRuns = 2
  NumSteps = 1
  Refs = {main}
  Targets = {prod}
  Workers = {w1, w2}
  Plans <- DeployPlans
  MaxPending = 2
  Engines = {h1, h2}
  Engine <- TwoHosts
  Triggers = {"push"}
  Cleaners = {w1}
  Frail = {w1}
  Faults = {"cut", "shutdown"}
  MaxFaults = 1
CONSTRAINT OneAtATime
INVARIANTS ScriptOwnsTarget StartedRecorded
CHECK_DEADLOCK FALSE
