SPECIFICATION Spec
CONSTANTS
  Publishers = {p1, p2}
  Families <- MCFamilies
  EditLimit = 2
INVARIANTS
  PublishedIsWhole
  DurabilityIsTrue
  OutcomeIsTrue
  ReleasedIsQualified
CHECK_DEADLOCK FALSE
