\* Two subscriptions with two writes, a deletion and two handlers at a time; a login
\* page with three exchanges; a tab with two calls at a time.
SPECIFICATION PartsSpec
CONSTANTS
  None = None
  s1 = s1
  s2 = s2
  Subs = {s1, s2}
  Created = {s1}
  MaxWrites = 2
  MaxInvalidations = 3
  MaxRuns = 2
  MaxHandlers = 3
  MaxLoads = 1
  MaxTrips = 3
  a = a
  c1 = c1
  c2 = c2
  Tabs = {a}
  Calls = {c1, c2}
  MaxStale = 2
  MaxTokens = 2
  MaxRevocations = 1
CHECK_DEADLOCK FALSE
INVARIANTS
  CacheAgrees
  ActsOnWhatIsShown
  PagesCatchUp
  SignInEnds
PROPERTIES
  NothingWaitsForEver
