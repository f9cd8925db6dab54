SPECIFICATION FairSpec
CONSTANTS
  o1 = o1
  o2 = o2
  Absent = Absent
  Barista = Barista
  Orders = {o1, o2}
  Requests = {r1, r2}
  Seed <- SeedBrewing
  Start = 1
  MaxTime = 2
INVARIANTS
  TypeOK
  AnnouncementsAreStoredVersions
  ChangesAnnouncedUnlessOvertaken
  NoiseOnlyWhenOvertaken
  BaristaMovesForwardUnlessPatched
PROPERTIES
  EveryOrderGetsReady
  ImplementsAtomicOrders
