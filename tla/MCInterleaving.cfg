\* One channel, two requests in flight, the periodic run and an admin run that
\* overlaps it, every failure but the upstream's, deposits and top-ups up to
\* EscrowCap, and every place a facilitator may put the channel state, or none.
SPECIFICATION Spec
CONSTANTS
  None = None
  Cids = {c1}
  Reqs = {r1, r2}
  Periodic = {p}
  Admin = {a1}
  Amount = 1
  MaxU128 = 5
  MaxOwed = 5
  EscrowCap = 2
  Remainders = {}
  Vouchers = {1, 2}
  Deposits = {1, 2}
  SnapshotReplies = {"settle", "verify"}
  Unreadable = {"balance", "totalClaimed"}
  Faults = {"deposit", "drop", "claim", "settle", "restart"}
SYMMETRY Symmetry
INVARIANTS
  RevenueCovered
  WrittenOffIsClaimed
  NextVoucherIsAdmitted
PROPERTIES
  CompletedRunIsFinal
  IsPaymentChannel
