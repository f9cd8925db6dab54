SPECIFICATION FairSpec
CONSTANTS
  Orders = {o1, o2}
  Seeds = {{o1}, {o1, o2}}
  Absent = Absent
  None = None
  Skews <- FastAndSlow
  PerStamp = 2
  MaxVersion = 2
  MaxClicks = 2
  MaxFaults = 2
INVARIANTS
  TypeOK
  QuietMeansServer
PROPERTIES
  ClickHolds
  EventsNeverGoBack
  EndsUpShown
CHECK_DEADLOCK FALSE
