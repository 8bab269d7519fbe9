SPECIFICATION FairSpec
CONSTANTS
  Filters = {f1, f2}
  SomeFilters = {f1}
  Messages = {m1, m2}
  MaxRefs = 2
  MaxClients = 2
  MaxRequests = 3
  MaxOutstanding = 2
  MaxMessages = 3
CONSTRAINT InBounds
INVARIANTS
  TypeOK
  StatusComesFirst
  StateFollowsLink
  OnlyCurrentClientIsLive
  SubscribingWaitsForAnswer
  FiltersInUseAreAsked
PROPERTIES
  IsOutbox
  PendingSettles
CHECK_DEADLOCK FALSE
