\* Two people push while an admin changes the rules, access and default branch.
SPECIFICATION Spec
CONSTANTS
  Code <- MCCode
  People = {"alice", "root"}
  Admins = {"root"}
  Names <- MCNames
  PipelineOf <- MCPipelineOf
  Descends <- MCDescends
  Pushes <- MCPushes
  RulePool <- MCRules
  FirstRules <- MCFirstRules
  FirstRefs <- MCFirstRefs
  ReaderSets <- MCReaderSets
  Policies <- MCPolicies
  MaxChanges = 1
  MaxPushes = 2
INVARIANTS RuleFound PushSafe DeployHasTarget
PROPERTIES DefaultBranchStays PushAuthorized
CHECK_DEADLOCK FALSE
