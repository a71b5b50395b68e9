SPECIFICATION FairSpec
CONSTANTS
  Payments = {p1}
  Pushes = {p1}
  Queries = {q1}
  Flushes = {f1}
  Amounts = {10050, 300, 500}
  Delay = 1
  MaxClock = 4
  TTL = 4
  Margin = 1
  Timeout = 1
  BodyTime = 1
  Revocations = 2
INVARIANT NeverStraddles
PROPERTIES ImplementsMpesa EveryCallAnswered
CHECK_DEADLOCK FALSE
