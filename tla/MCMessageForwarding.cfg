SPECIFICATION Spec
CONSTANTS
  m1 = m1
  d1 = d1
  d2 = d2
  Message = {m1}
  Dest = {d1, d2}
  DailyLimit = 1
  MaxRuns = 2
  MaxCaptures = 2
  Plans = {"FREE", "PAID"}
INVARIANTS TypeOK AutoOnce SentIsDelivered LimitOverrun NoResend
SYMMETRY Groups
