SPECIFICATION FairSpec
CONSTANTS
  p1 = p1
  p2 = p2
  NoProc = NoProc
  Proc = {p1, p2}
  Creator = {p1}
  MaxBoots = 2
  Scenarios <- MCScenarios
INVARIANTS TypeOK NoDeadEntry EntryHoldsLease
PROPERTIES EntryNotOverwritten ReleaseAfterClose LostLeaseDropped
\* The manager rests when nobody asks and the bound of boots is used.
CHECK_DEADLOCK FALSE
