SPECIFICATION FairSpec
CONSTANTS
  Orders = {o1, o2}
  None = None
  MaxVersion = 1
  MaxClicks = 2
  MaxFailures = 2
  MaxBreaks = 1
CHECK_DEADLOCK FALSE
INVARIANTS
  TypeOK
  SettledMeansShown
PROPERTY HeardIsShown
