SPECIFICATION Spec
CONSTANTS
  Attendants = {a1}
  PayoutIds = {p1, p2}
  Workers = {w1}
  Drills = {k1}
  Triggers = {t1}
  Handlers = {h1, h2}
  Amounts = {0, 1, 2}
  MaxReceives = 1
  B2C_MAX_ATTEMPTS = 2
  NULL = NULL
SYMMETRY Interchangeable
INVARIANTS TypeOK OneDisbursement AmountsAgree LedgerAgrees
PROPERTY RowsAreFinal
CHECK_DEADLOCK FALSE
