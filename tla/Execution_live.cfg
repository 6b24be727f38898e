\* A cleanup pass beside a worker that crashes or whose Docker engine fails.
SPECIFICATION FairSpec
CONSTANTS
  w1 = w1
  w2 = w2
  h1 = h1
  h2 = h2
  NoTarget = NoTarget
  NoWorker = NoWorker
  MaxRuns = 1
  NumSteps = 1
  Refs = {main}
  Targets = {prod}
  Workers = {w1, w2}
  Plans <- DeployPlans
  MaxPending = 2
  Engines = {h1}
  Engine <- OneHost
  Triggers = {"manual"}
  Cleaners = {w2}
  Frail = {w1}
  Faults = {"crash", "docker"}
  MaxFaults = 1
PROPERTIES RunsEnd TargetsFreed LeftoversGo
