SPECIFICATION FairSpec
CONSTANTS
  Streams = {s1}
  Absent = Absent
  Faults = {}
  MaxFaults = 0
  MaxEvents = 1
CHECK_DEADLOCK FALSE
PROPERTY AbortReleasesQueue
