SPECIFICATION FairSpec
CONSTANTS
  Payments = {p1, p2}
  Pushes = {p1}
  Queries = {}
  Flushes = {f1, f2}
  Amounts = {100}
  Delay = 1
  MaxClock = 0
  TTL = 4
  Margin = 1
  Timeout = 1
  BodyTime = 1
  Revocations = 2
INVARIANT RetrySuffices
PROPERTY CallbacksLand
CHECK_DEADLOCK FALSE
