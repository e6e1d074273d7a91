SPECIFICATION RoutesSpec
CONSTANTS
  s1 = s1
  s2 = s2
  g1 = g1
  d1 = d1
  d2 = d2
  r1 = r1
  r2 = r2
  Session = {s1, s2}
  Group = {g1}
  Dest = {d1, d2}
  Slot = {r1, r2}
  TtlMs = 1
  MaxTime = 1
  MaxGeneration = 1
  MaxCalls = 2
  MaxRoutes = 2
  MaxRequests = 3
  MaxSources = 1
  MaxDests = 1
INVARIANTS HitIsRouted OverrunNeedsRace HitIsCurrent AnswerIsCurrent PendingInFlight
SYMMETRY Symmetry
\* The service rests when the requests of the bound are served.
CHECK_DEADLOCK FALSE
