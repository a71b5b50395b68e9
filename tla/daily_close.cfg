SPECIFICATION Spec
CONSTANTS
  a1 = a1
  a2 = a2
  s1 = s1
  s2 = s2
  Attendants = {a1}
  Sales = {s1, s2}
  Seller <- OneSeller
  Total <- Totals
  Rates = {333}
  MaxRates = 1
  Workers = {w1, w2}
  Drills = {}
  Posts = {p1}
  MaxReceives = 1
  Retention = 1
  PerDay = 1
  LastInstant = 2
  EarlyDrills = FALSE
  NULL = NULL
SYMMETRY Interchangeable
INVARIANTS TypeOK CountedOnce RowsAreWhole RateSettled RoundedDown
CHECK_DEADLOCK FALSE
