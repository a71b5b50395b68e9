SPECIFICATION Spec
CONSTANTS
  ChargeIds = {c1}
  Sales = {s1}
  Customer <- OwnCustomer
  Requests = {p1}
  Deliveries = {d1}
  TimerPasses = {r1}
  AdminPasses = {}
  MaxAttempts = 1
  ReconcileAfter = 0
  AdoptionWindow = 1
  PurgeAges = {1}
  MaxClock = 1
  Confirm = TRUE
  Anomalies = {}
  NULL = NULL
INVARIANT PurgedMovedNoMoney
CHECK_DEADLOCK FALSE
