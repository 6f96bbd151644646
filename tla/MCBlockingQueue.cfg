CONSTANTS
  c1 = c1
  c2 = c2
  Consumers = {c1, c2}
  Sizes <- MCSizes
  Policies <- MCPolicies
  MaxPosts = 4
  MaxWakes = 2
SPECIFICATION FairSpec
INVARIANTS
  TypeOK
  Accounting
  NotificationsCoverItems
PROPERTIES
  ChannelSpec
  ItemsLeave
  WakeReturns
CHECK_DEADLOCK FALSE
