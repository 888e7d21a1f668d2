\* Two processes that crash and restart; a log from before the outbox covers r2.
SPECIFICATION FairSpec
CONSTANTS
  r1 = r1
  r2 = r2
  s1 = s1
  c1 = c1
  p1 = p1
  p2 = p2
  scanLoop = scanLoop
  dispatchLoop = dispatchLoop
  other = other
  NoOwner = NoOwner
  NoChannel = NoChannel
  Reminders = {r1, r2}
  Subscriptions = {s1}
  Channels = {c1}
  SubscriptionOf <- MCSubscriptionOf
  ChannelsOf <- MCChannelsOf
  ManualEnded = {}
  LegacySent = {r2}
  Instances = {p1, p2}
  Dispatchers = {scanLoop, other}
  InstanceOf <- MCInstanceOf
  ScanLoops = {scanLoop}
  LeaseTTL = 1
  ExpiryWindow = 4
  DateExpiry <- MCDateExpirySoon
  BackoffSteps <- MCBackoffSteps
  MaxAttempts = 2
  BatchSize = 1
  Workers = 1
  Horizon = 2
PROPERTIES
  DeliveryPromise
  OpenRowsClose
