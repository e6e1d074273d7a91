SPECIFICATION FairSpec
CONSTANTS
  NoDocument = NoDocument
  Referral = {r1, r2}
  Document = {d1}
  DocumentOf <- MCDocumentOf
  Days = 2
  MaxTime = 2
  MaxWebhooks = 1
  MaxJobs = 1
  MaxAdmins = 1
  MaxFailures = 1
INVARIANTS  EarlyRewardNeedsRace 
PROPERTIES  WaitingIsJudged
\* The clock stops at MaxTime, and then every actor may be done.
CHECK_DEADLOCK FALSE
