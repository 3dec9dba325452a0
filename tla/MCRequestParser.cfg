SPECIFICATION Spec
CONSTANTS
  t1 = t1
  t2 = t2
  Threads = {t1, t2}
  Requests <- MCRequests
  MaxParses = 3
SYMMETRY MCSymmetry
INVARIANTS TypeOK UncrossedIsFaithful UncrossedStaysInBuffer
CHECK_DEADLOCK FALSE
