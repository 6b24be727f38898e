\* The instance stops where the bound on operations is spent.
CHECK_DEADLOCK FALSE
SPECIFICATION Spec
CONSTANTS
  People = {ann, bob}
  FirstAdmin = ann
  Requests = {r1, r2}
  Addresses = {home}
  Creds = {c1, c2}
  LimitOf <- MCLimitOf
  MaxOwned = 1
  MaxOps = 5
SYMMETRY Symmetry
INVARIANTS AccountsSafe GuessesBounded
PROPERTIES AdminRemains
