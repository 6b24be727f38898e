\* A page follows a run through two faults of every kind.
SPECIFICATION LiveSpec
CONSTANTS
  InboxSize = 1
  MaxChunks = 2
  MaxChanges = 2
  Faults = {"listener", "stream", "refused", "fetch", "access"}
  MaxFaults = 2
INVARIANTS PageSafe
PROPERTIES ChangesShown OutputShown
CHECK_DEADLOCK FALSE
