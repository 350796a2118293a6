\* The default configuration, a payer of two payments with funds for one, no failures.
SPECIFICATION Spec
\* The clients stop presenting payments and the clock stops: MaxSends, MaxTime.
CHECK_DEADLOCK FALSE
CONSTANTS
  None = None
  k1 = k1
  k2 = k2
  p1 = p1
  p2 = p2
  p3 = p3
  p4 = p4
  Payers = {k1}
  TTL = 30
  PruneAt = 1
  MaxTime = 0
  Reqs = {r1, r2}
  Payments = {p1, p2}
  PayerOf <- OnePayer
  Window <- AlwaysGood
  Stuck = {}
  Table <- Absent
  Funds = 1
  MaxSends = 2
  Faults = {}
SYMMETRY Symmetry
INVARIANTS
  ServedIsPaid
