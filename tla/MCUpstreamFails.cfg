\* One request, an upstream that fails.
SPECIFICATION Spec
CONSTANTS
  None = None
  Cids = {c1}
  Reqs = {r1}
  Periodic = {p}
  Admin = {}
  Amount = 1
  MaxU128 = 7
  MaxOwed = 7
  EscrowCap = 2
  Remainders = {}
  Vouchers = {1, 2}
  Deposits = {2}
  SnapshotReplies = {"settle"}
  Unreadable = {}
  Faults = {"upstream"}
SYMMETRY Symmetry
INVARIANTS
  FailedKeepsFunds
