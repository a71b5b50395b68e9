SPECIFICATION Spec
CONSTANTS
  Tenants = {t1, t2}
  Keys = {k1}
  AttendantIds = {a1, a2}
  ProductIds = {p1, p2}
  SaleIds = {s1, s2}
  Requests = {r1, r2}
  Conflict = Conflict
  NULL = NULL
SYMMETRY Interchangeable
INVARIANTS TypeOK OneSalePerKey TenantsApart
PROPERTY ImplementsBook
CHECK_DEADLOCK FALSE
