SPECIFICATION Spec
CONSTANTS
  Proc = {p1, p2}
  Gates = 2
  Results <- PairedResults
SYMMETRY Producers
INVARIANTS ReportIsTrue PassIsEarned OutcomesAreValid
PROPERTIES LeftoversAreReported
