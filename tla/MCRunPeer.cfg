SPECIFICATION Spec
CONSTANTS
  Plans <- PeerPlan
  MaxReadinessAttempts = 2
  NoError = NoError
INVARIANT PeerNeverLeaks
