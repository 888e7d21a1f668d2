\* One page at a time, each with the bounds of its module.
SPECIFICATION Spec
CONSTANTS
  None = None
  MaxFlows = 2
  MaxPrompts = 3
  MaxTickets = 1
  MaxAdminSends = 3
  MaxEvents = 1
  MaxSends = 3
  MaxOpenings = 2
  MaxAccountSends = 3
  MaxTransfers = 4
  ChannelTypes <- FormTypes
  MaxChannelEdits = 2
  MaxSaves = 2
  MaxEdits = 3
  MaxToggles = 3
  MaxForms = 2
  MaxPicks = 2
  MaxSubmits = 2
  MaxLookups = 2
  MaxRateClock = 1
  MaxTouches = 3
CHECK_DEADLOCK FALSE
INVARIANTS
  RestoresAreProven
  AdminPageAgrees
  ListsAgree
  AddressAgrees
  ImportAgrees
  ChosenIconIsSaved
  ListIsHonest
PROPERTIES
  ChannelKept
  FormKept
  RatesKept
  LooksAgree
