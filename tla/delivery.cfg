SPECIFICATION FairSpec
CONSTANTS
  Sales = {s1}
  ChargeIds = {c1}
  Payers = {h1}
  Relays = {r1}
  Workers = {w1, w2}
  Copies = {n1, n2}
  MaxReceives = 2
  Retention = TRUE
  Redrives = 1
  NULL = NULL
INVARIANTS TypeOK PaidWasSettled NoSaleLost
PROPERTIES PaidIsKept EventuallyPaid
CHECK_DEADLOCK FALSE
