SPECIFICATION FairSpec
CONSTANTS
  t1 = t1
  t2 = t2
  c1 = c1
  c2 = c2
  c3 = c3
  Threads = {t1, t2}
  Clients = {c1, c2, c3}
  MaxFds = 2
  Requests = {"page", "endless"}
  None = none
PROPERTIES EventuallyAnswered EventuallyAccepted FailedAcceptEndsServer
CHECK_DEADLOCK FALSE
