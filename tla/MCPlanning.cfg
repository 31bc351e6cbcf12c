SPECIFICATION Spec
CONSTANTS
    Cases <- MCCases
    Text <- MCText
    EditedCases <- MCEditedCases
    MaxEdits = 2
    Requested = {0, 1, 3, 11}
INVARIANTS
    AggregateFollowsTable
    PlanIsFaithful
    PlannedIsExecutable
CHECK_DEADLOCK FALSE
