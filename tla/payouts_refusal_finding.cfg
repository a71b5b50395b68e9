SPECIFICATION Spec
CONSTANTS
  Attendants = {a1}
  PayoutIds = {p1}
  Workers = {w1}
  Drills = {}
  Triggers = {t1}
  Handlers = {h1}
  Amounts = {1}
  MaxReceives = 2
  B2C_MAX_ATTEMPTS = 3
  NULL = NULL
INVARIANT FailedMovedNoMoney
CHECK_DEADLOCK FALSE
