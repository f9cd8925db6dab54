SPECIFICATION Spec
CONSTANTS
  o1 = o1
  o2 = o2
  Absent = Absent
  Barista = Barista
  Orders = {o1, o2}
  Requests = {r1, r2}
  Seed <- SeedBrewing
  Start = 2
  MaxTime = 3
SYMMETRY Symmetry
INVARIANTS
  TypeOK
  LatestChangeAnnouncedUnlessOvertaken
  EventsAreAtLeastAsNewAsTheirUpdate
PROPERTY ImplementsAtomicOrders
