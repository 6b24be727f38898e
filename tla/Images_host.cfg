\* Two workers on one host, removals and runs competing for its lock.
SPECIFICATION ImagesSpec
CONSTANTS
  Workers = {w1, w2}
  NoWorker = none
  Bases = {base}
  Versions = {v1, v2}
  Pipelines <- MCPipelines
  HeadStatus = "passed"
  MaxRuns = 2
  MaxIds = 4
  MaxOps = 1
  FactsLimit = 1
  Automation = "low-disk"
  Faults = {"crash"}
  MaxFaults = 1
INVARIANTS ImagesSafe
PROPERTIES RemovesOnlyPlanned PruneSpares
CHECK_DEADLOCK FALSE
SYMMETRY Symmetry
