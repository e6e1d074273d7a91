SPECIFICATION Spec
CONSTANTS
  p1 = p1
  p2 = p2
  p3 = p3
  w1 = w1
  w2 = w2
  s1 = s1
  NoWorker = NoWorker
  Proc = {p1, p2, p3}
  Worker = {w1, w2}
  WorkerOf <- MCWorkerOf
  Session = {s1}
  LeaseMs = 1
  MaxTime = 2
  MaxTokens = 3
  MaxCalls = 2
INVARIANTS UniqueOwner
PROPERTIES NoTheft ImplementsLease
SYMMETRY Twins
