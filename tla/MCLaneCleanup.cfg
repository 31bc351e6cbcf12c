SPECIFICATION Spec
CONSTANTS
  Proc = {p1}
  Gates = 1
  Results <- SingleResults
INVARIANT CleanupFailureIsReported
