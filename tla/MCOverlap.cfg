\* The periodic run and an admin run overlap, nothing fails.
SPECIFICATION Spec
CONSTANTS
  None = None
  Cids = {c1}
  Reqs = {r1}
  Periodic = {p}
  Admin = {a1}
  Amount = 1
  MaxU128 = 7
  MaxOwed = 7
  EscrowCap = 2
  Remainders = {}
  Vouchers = {1, 2}
  Deposits = {2}
  SnapshotReplies = {"settle"}
  Unreadable = {}
  Faults = {}
SYMMETRY Symmetry
PROPERTIES
  NoDoubleClaim
