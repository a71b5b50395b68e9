SPECIFICATION FairSpec
CONSTANTS
  ChargeIds = {c1}
  Sales = {s1}
  Customer <- OwnCustomer
  Requests = {p1}
  Deliveries = {d1, d2}
  TimerPasses = {r1}
  AdminPasses = {a1}
  MaxAttempts = 1
  ReconcileAfter = 0
  AdoptionWindow = 1
  PurgeAges = {1}
  MaxClock = 1
  Confirm = TRUE
  Anomalies = {"wrong_amount", "unsupported"}
  NULL = NULL
INVARIANTS UnconfirmedOnlyAfterHold AppliedIsResolution
PROPERTIES HeldIsFrozen NothingSilentlyStuck ImplementsLedger
CHECK_DEADLOCK FALSE
