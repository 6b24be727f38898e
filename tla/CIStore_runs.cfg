\* The whole life of one run with every kind of plan, and two runs that deploy
\* to one target.
SPECIFICATION Spec
CONSTANTS
  MaxRuns = 3
  NumSteps = 1
  Refs = {main}
  Targets = {prod}
  NoTarget = NoTarget
  Workers = {w1}
  NoWorker = NoWorker
  Plans <- MixedPlans
  MaxPending = 2
INVARIANTS IInv PendingBounded
PROPERTIES EndedStaysFinal ReceiptStaysFinal OwnerHandedOver NewerDeploymentStays DeploysRecorded
CONSTRAINT Bound
