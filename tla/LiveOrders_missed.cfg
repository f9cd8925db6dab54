SPECIFICATION FairSpec
CONSTANTS
  Orders = {o1}
  None = None
  MaxVersion = 1
  MaxClicks = 0
  MaxFailures = 0
  MaxBreaks = 0
CHECK_DEADLOCK FALSE
PROPERTY LiveShowsTheOrders
