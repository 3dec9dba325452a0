SPECIFICATION Spec
CONSTANTS
  t1 = t1
  t2 = t2
  Threads = {t1, t2}
  Requests <- MCRequests
  MaxParses = 3
SYMMETRY MCSymmetry
INVARIANT FieldsAreOwn
CHECK_DEADLOCK FALSE
