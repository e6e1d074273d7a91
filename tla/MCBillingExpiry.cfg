SPECIFICATION Spec
CONSTANTS
  Paid = {BASIC, PRO}
  BASIC = BASIC
  PRO = PRO
  Period = 2
  MaxTime = 2
  MaxSubs = 2
  MaxPayments = 1
  MaxEvents = 2
  MaxFailures = 0
  MaxTasks = 1
  MaxWebhooks = 1
SYMMETRY Plans
INVARIANTS ReactivatedKeepsPlan
