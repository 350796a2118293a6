\* One request at a time, a second deposit, nothing fails.
SPECIFICATION Spec
CONSTANTS
  None = None
  Cids = {c1}
  Reqs = {r1}
  Periodic = {p}
  Admin = {}
  Amount = 1
  MaxU128 = 9
  MaxOwed = 9
  EscrowCap = 3
  Remainders = {}
  Vouchers = {1, 2, 3}
  Deposits = {1, 2}
  SnapshotReplies = {"settle"}
  Unreadable = {}
  Faults = {}
SYMMETRY Symmetry
INVARIANTS
  UnclaimedIsClaimable
