SPECIFICATION FairSpec
CONSTANTS
  Orders = {1, 2, 3}
  Absent = Absent
  None = None
  Customer = customer
  Barista = barista
  Seed <- OneReady
  PageLimit = 1
  ListLimit = 1
  Days <- Some
INVARIANTS
  TypeOK
  AlertedOncePerEntry
  AlertsHaveTimers
  ConfirmedIsShown
PROPERTIES
  KeepsThePromise
  OrderIsShownReady
CHECK_DEADLOCK FALSE
