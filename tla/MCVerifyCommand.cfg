SPECIFICATION Spec
CONSTANTS
  Outcomes <- ContractOutcomes
  Requests = {1, 2}
  Required = {"resource-usage"}
  PrepareCodes <- Preparation
  RefetchCodes = {"SOURCE_SYMLINK_ESCAPE"}
  NoError = NoError
INVARIANTS TypeOK VerifiedIsEarned StableIsEarned BadRepeatShows
