SPECIFICATION FairSpec
CONSTANTS
  Tasks = {t1, t2, t3}
  None = None
  MaxFaults = 1
CHECK_DEADLOCK FALSE
INVARIANTS
  TypeOK
  OneConnectionUnlessTrouble
  DeliveredUnlessTrouble
  RecoversWhenCalm
PROPERTY EveryPublishEnds
