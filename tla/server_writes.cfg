\* Overlapping requests, each statement a step.
SPECIFICATION Spec
CONSTANTS
  None = None
  CodeDelay = 1
  CodeTTL = 2
  MaxFailures = 1
  MaxCodeClock = 2
  MaxAsks = 2
  MaxGuesses = 2
  MaxTotpSends = 5
  MaxFaults = 1
  BackupCodes = 1
  MaxEnabled = 1
  MaxRows = 3
  MaxWriters = 2
  MaxRotations = 3
  p1 = p1
  p2 = p2
  k1 = k1
  k2 = k2
  Servers = {p1, p2}
  McpKeys = {k1, k2}
  MaxCalls = 3
  MaxMcpStops = 1
  MaxIconCalls = 3
  MaxIconFaults = 1
  a = a
  b = b
  c1 = c1
  Tabs = {a, b}
  Calls = {c1}
  MaxStale = 1
  MaxTokens = 3
  MaxRevocations = 1
SYMMETRY Symmetric
CHECK_DEADLOCK FALSE
INVARIANTS
  CodesHold
  SecondFactorHolds
  ChannelsHold
  RetriesAddNothing
  IconsFollowRows
  TokensHold
  SessionFollowsUser
