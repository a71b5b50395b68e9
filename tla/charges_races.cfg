SPECIFICATION Spec
CONSTANTS
  ChargeIds = {c1, c2}
  Sales = {s1, s2}
  Customer <- SameCustomer
  Requests = {p1, p2}
  Deliveries = {d1, d2}
  TimerPasses = {r1}
  AdminPasses = {}
  MaxAttempts = 1
  ReconcileAfter = 0
  AdoptionWindow = 1
  PurgeAges = {}
  MaxClock = 0
  Confirm = TRUE
  Anomalies = {}
  NULL = NULL
SYMMETRY Interchangeable
INVARIANTS TypeOK OnePushPerSale AttributionCorrect FailedIsDefinite ConfirmedBeforePaid
CHECK_DEADLOCK FALSE
