SPECIFICATION Spec
CONSTANTS
  Paid = {BASIC, PRO}
  BASIC = BASIC
  PRO = PRO
  Period = 1
  MaxTime = 1
  MaxSubs = 2
  MaxPayments = 1
  MaxEvents = 2
  MaxFailures = 1
  MaxTasks = 2
  MaxWebhooks = 1
SYMMETRY Plans
INVARIANTS TypeOK ProcessedWasApplied 
PROPERTIES OlderKeepsPlan
