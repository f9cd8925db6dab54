SPECIFICATION Spec
CONSTANTS
  s1 = s1
  d1 = d1
  d2 = d2
  None = None
  Unread = Unread
  Posts = {p1, p2}
  Mine = {p1}
  Seed <- MCSeed
  Demo <- MCDemo
  PageSize = 1
  Start = 1
  MaxTime = 2
  MaxFaults = 1
  MaxFailures = 1
INVARIANTS TypeOK NothingSkippedUnlessTorn TwiceOnlyIfInserted
PROPERTY AcceptedIdemsArrive
CHECK_DEADLOCK FALSE
