SPECIFICATION FairSpec
CONSTANTS
  Streams = {s1, s2}
  Absent = Absent
  Faults = {"crash", "channel", "queue"}
  MaxFaults = 2
  MaxEvents = 1
CHECK_DEADLOCK FALSE
INVARIANTS
  TypeOK
  OneConnection
  ReadyMissesNothing
PROPERTIES
  NeverHangs
  DeadSubscriptionClosesStream
  Recovers
