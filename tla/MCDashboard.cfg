SPECIFICATION FairSpec
CONSTANTS
  i1 = i1
  i2 = i2
  g1 = g1
  g2 = g2
  g3 = g3
  AnyItem = AnyItem
  Item = {i1, i2}
  First = i1
  free = free
  basic = basic
  Plan = {free, basic}
  Limits <- MCLimits
  SourceOf <- MCSourceOf
  DestinationOf <- MCDestinationOf
  MaxFlights = 2
  MaxPolls = 1
  Budgets <- MCBudgets
INVARIANTS  LimitMessageAgrees SavesWhatWasRead TwiceNeedsOther
PROPERTIES PendingIsFollowed
\* The user may stop: every bound of the budget used and every answer shown.
CHECK_DEADLOCK FALSE
