\* One reminder, one process whose scan loop and dispatch loop share an owner id.
SPECIFICATION Spec
CONSTANTS
  r1 = r1
  r2 = r2
  s1 = s1
  c1 = c1
  p1 = p1
  p2 = p2
  scanLoop = scanLoop
  dispatchLoop = dispatchLoop
  other = other
  NoOwner = NoOwner
  NoChannel = NoChannel
  Reminders = {r1}
  Subscriptions = {s1}
  Channels = {c1}
  SubscriptionOf <- MCSubscriptionOf
  ChannelsOf <- MCChannelsOf
  ManualEnded = {}
  LegacySent = {}
  Instances = {p1}
  Dispatchers = {scanLoop, dispatchLoop}
  InstanceOf <- MCInstanceOf
  ScanLoops = {scanLoop}
  LeaseTTL = 1
  ExpiryWindow = 4
  DateExpiry <- MCDateExpiry
  BackoffSteps <- MCBackoffSteps
  MaxAttempts = 2
  BatchSize = 1
  Workers = 1
  Horizon = 5
INVARIANTS
  LeaseExclusive
  SentLoggedOnce
  DuplicateNeedsLapse
PROPERTIES
  SettledForGood
