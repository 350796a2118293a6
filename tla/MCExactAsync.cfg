\* Settles spawned: a payment that lapses and one that its payer did not sign,
\* presented again and again; the settles of the latter may hang.
SPECIFICATION FairSpec
\* The clients stop presenting payments and the clock stops: MaxSends, MaxTime.
CHECK_DEADLOCK FALSE
CONSTANTS
  None = None
  k1 = k1
  k2 = k2
  p1 = p1
  p2 = p2
  p3 = p3
  p4 = p4
  Payers = {k1}
  TTL = 2
  PruneAt = 1
  MaxTime = 3
  Reqs = {r1, r2}
  Payments = {p1, p2}
  PayerOf <- OnePayer
  Window <- Windows
  Stuck = {p2}
  Table <- AsyncCached
  Funds = 1
  MaxSends = 3
  Faults = {"verify", "upstream", "settle", "drop", "withdraw"}
INVARIANTS
  ServedIsAccountedFor
PROPERTIES
  EveryServedEnds
  IsPayPerDelivery
