\* One deposit per channel, overlapping runs, every failure and restarts, and a
\* buyer that signs its next voucher on top of the answer it got.
SPECIFICATION ToldSpec
CONSTANTS
  None = None
  Cids = {c1}
  Reqs = {r1, r2}
  Periodic = {p}
  Admin = {a1}
  Amount = 1
  MaxU128 = 9
  MaxOwed = 9
  EscrowCap = 3
  Remainders = {1}
  Vouchers = {1, 2, 3}
  Deposits = {3}
  SnapshotReplies = {"settle"}
  Unreadable = {}
  Faults = {"deposit", "upstream", "drop", "claim", "settle", "restart"}
SYMMETRY Symmetry
INVARIANTS
  WrittenOffIsPaidOut
  UnclaimedIsClaimable
  FollowersAreServed
