SPECIFICATION FairSpec
CONSTANTS
  a1 = a1
  a2 = a2
  s1 = s1
  s2 = s2
  Attendants = {a1, a2}
  Sales = {s1, s2}
  Seller <- TwoSellers
  Total <- Totals
  Rates = {333}
  MaxRates = 0
  Workers = {w1}
  Drills = {k1}
  Posts = {}
  MaxReceives = 2
  Retention = 1
  PerDay = 1
  LastInstant = 2
  EarlyDrills = FALSE
  NULL = NULL
INVARIANT AckedDayIsComplete
PROPERTY DayIsClosed
CHECK_DEADLOCK FALSE
