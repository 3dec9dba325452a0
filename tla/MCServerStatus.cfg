SPECIFICATION Spec
CONSTANTS
  t1 = t1
  t2 = t2
  ok = ok
  notFound = notFound
  hello = hello
  world = world
  Threads = {t1, t2}
  Urls = {hello, world}
  Codes = {ok, notFound}
  Total = total
  MaxCalls = 3
SYMMETRY ThreadSymmetry
INVARIANTS NeverOvercounted SerialExact SerialPageAgrees
CHECK_DEADLOCK FALSE
