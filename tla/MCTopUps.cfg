\* One channel, two requests in flight, no overlapping run: longer sequences of
\* deposits, vouchers and claims, with charges that reach u128::MAX.
SPECIFICATION Spec
CONSTANTS
  None = None
  Cids = {c1}
  Reqs = {r1, r2}
  Periodic = {p}
  Admin = {}
  Amount = 2
  MaxU128 = 5
  MaxOwed = 9
  EscrowCap = 5
  Remainders = {}
  Vouchers = {2, 4, 5}
  Deposits = {2, 3}
  SnapshotReplies = {"settle"}
  Unreadable = {"totalClaimed"}
  Faults = {"deposit", "claim", "settle", "restart"}
SYMMETRY Symmetry
INVARIANTS
  TypeOK
  CapitalBacked
  RevenueCovered
