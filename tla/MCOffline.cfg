SPECIFICATION Spec
CONSTANTS
  GenerationLimit = 3
  KeyLimit = 2
  MaxHops = 2
  FileLimit = 3
  Paths <- MCPaths
  Directories = {0, 9}
  Root = 9
  Within <- MCWithin
  Skipped = {4}
  Scripts <- MCScripts
  Ruleset <- MCRuleset
INVARIANTS AcceptedIsJustified AcceptedInOrder RecordedIsEarned ObservedTreeExisted
CHECK_DEADLOCK FALSE
