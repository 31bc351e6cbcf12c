SPECIFICATION Spec
CONSTANTS
  Outcomes <- AgreeingOutcomes
  Requests = {2}
  Required = {}
  PrepareCodes <- Preparation
  RefetchCodes = {"SOURCE_SYMLINK_ESCAPE"}
  NoError = NoError
INVARIANT CallerCleanupAgrees
