SPECIFICATION PowerSpec
CONSTANTS
  Proc = {p1, p2}
  root = root
  successor = successor
  Scope <- PolicyAndIndex
  Key = {root}
  Channel = {stable}
  d1 = d1
  d2 = d2
  Digest = {d1, d2}
  Envelope = {e1}
  MaxGeneration = 2
  AtStart = {"absent", "durable"}
  MaxTries = 0
  Directory <- ReleaseDirectory
  ScopeOf <- ReleaseScopeOf
  Input <- Releases
  Valid <- ValidReleaseInput
  Classify <- ClassifyRelease
  NoRecord = NoRecord
  Unreadable = Unreadable
  Nobody = Nobody
  NoResponse = NoResponse
SYMMETRY Processes
PROPERTY CommittedSurvives
