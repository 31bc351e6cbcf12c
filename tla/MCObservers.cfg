SPECIFICATION Spec
CONSTANTS
  ChannelSize = 4
  Paths <- MCPaths
  DeclaredWrites <- MCWrites
  PatternLimit = 2
  ChangeLimit = 2
  EntryLimit = 4
  Modes = {"compare", "python", "node"}
  Steps <- MCSteps
  WindowLimit = 2
  RuleLimit = 2
  NotificationLimit = 2
  QueueLimit = 2
  ReadLimit = 1
  InitialFiles <- MCFiles
  MaxWrites <- MCMaxWrites
  MaxStrayWrites = 1
  MaxFaults = 1
  MaxLimitEvents <- MCMaxLimitEvents
  Endpoints = {"svc", "other"}
  Declared = "svc"
  MaxGap = 2
  SampleLimit = 4
  EndpointLimit = 2
  TransitionLimit = 4
  PeerMaxFaults = 1
  MaxOpens = 2
  RepeatLimit = 10
  RenderedChangeLimit = 2
  RenderedNotifications = 2
  RenderedWindows = 2
  RenderedRules = 2
  RenderedEndpoints = 2
INVARIANTS ReportShowsWhatWasDecided TraceTypeOK LongListenerIsSeen ClearIsSound ObserversAgree TraceIsWhole LimitEventsSurface
CHECK_DEADLOCK FALSE
PROPERTY SessionEnds
