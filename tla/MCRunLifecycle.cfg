SPECIFICATION FairSpec
CONSTANTS
  Plans <- AllPlans
  MaxReadinessAttempts = 2
  NoError = NoError
INVARIANTS TypeOK EarnedClean EvidenceIsEarned NothingLeftBehind OutcomeInContract
PROPERTIES ExportIsGuarded RunTerminates
