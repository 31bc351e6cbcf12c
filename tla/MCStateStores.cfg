SPECIFICATION WaiterSpec
CONSTANTS
  Proc = {p1, p2}
  root = root
  successor = successor
  Scope = {root}
  Key = {root, successor}
  Channel = {stable}
  d1 = d1
  d2 = d2
  Digest = {d1, d2}
  Envelope = {e1}
  MaxGeneration = 2
  AtStart = {"durable"}
  MaxTries = 1
  Directory <- RotationDirectory
  ScopeOf <- RotationScope
  Input <- Rotations
  Valid <- ValidRotation
  Classify <- ClassifyRotation
  NoRecord = NoRecord
  Unreadable = Unreadable
  Nobody = Nobody
  NoResponse = NoResponse
INVARIANTS TypeOK AcceptedNeverRegresses AcceptanceIsAChain
PROPERTIES ImplementsRegister WaitIsBounded
