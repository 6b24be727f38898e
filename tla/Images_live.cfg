\* Operations and runs end through every fault, on a host with two tags.
SPECIFICATION ImagesSpec
CONSTANTS
  Workers = {w1, w2}
  NoWorker = none
  Bases = {base}
  Versions = {v1}
  Pipelines <- MCReuse
  HeadStatus = "queued"
  MaxRuns = 2
  MaxIds = 2
  MaxOps = 1
  FactsLimit = 1
  Automation = "low-disk"
  Faults = {"crash", "shutdown", "read", "docker", "record", "pause"}
  MaxFaults = 1
PROPERTIES OperationsEnd RunsStart
CHECK_DEADLOCK FALSE
