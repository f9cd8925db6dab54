SPECIFICATION Spec
CONSTANTS
  o1 = o1
  o2 = o2
  Absent = Absent
  Barista = Barista
  Orders = {o1, o2}
  Requests = {r1, r2}
  Seed <- SeedPending
  Start = 1
  MaxTime = 1
INVARIANT NoNoise
