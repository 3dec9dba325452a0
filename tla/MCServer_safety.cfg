SPECIFICATION Spec
CONSTANTS
  t1 = t1
  t2 = t2
  c1 = c1
  c2 = c2
  c3 = c3
  Threads = {t1, t2}
  Clients = {c1, c2, c3}
  MaxFds = 2
  Requests = {"status", "refused", "unready", "throwing"}
  None = none
SYMMETRY MCSymmetry
INVARIANTS SessionOnOneThread  StatusCountsTheAnswered
PROPERTY KeepsPromise
CHECK_DEADLOCK FALSE
