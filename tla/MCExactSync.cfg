\* Settles awaited. Cached verification of two payers in a cache that is pruned
\* above one entry; one payment lapses, one was not signed by the payer it names,
\* one has no readable payer and is always verified.
SPECIFICATION Spec
\* The clients stop presenting payments and the clock stops: MaxSends, MaxTime.
CHECK_DEADLOCK FALSE
CONSTANTS
  None = None
  k1 = k1
  k2 = k2
  p1 = p1
  p2 = p2
  p3 = p3
  p4 = p4
  Payers = {k1, k2}
  TTL = 2
  PruneAt = 1
  MaxTime = 3
  Reqs = {r1, r2}
  Payments = {p1, p2, p3, p4}
  PayerOf <- MixedPayers
  Window <- Windows
  Stuck = {}
  Table <- SyncCached
  Funds = 1
  MaxSends = 3
  Faults = {"verify", "upstream", "settle", "drop", "restart"}
SYMMETRY Symmetry
INVARIANTS
  TypeOK
  TrustIsEarned
  ServedIsAccountedFor
PROPERTIES
  TrustOutlivesPruning
  IsPayPerDelivery
