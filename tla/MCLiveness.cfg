\* One channel funded once, failing calls, two runs of which either may hang.
SPECIFICATION FairSpec
CONSTANTS
  None = None
  Cids = {c1}
  Reqs = {r1}
  Periodic = {p}
  Admin = {a1}
  Amount = 1
  MaxU128 = 5
  MaxOwed = 5
  EscrowCap = 2
  Remainders = {}
  Vouchers = {1, 2}
  Deposits = {2}
  SnapshotReplies = {"settle"}
  Unreadable = {}
  Faults = {"deposit", "upstream", "drop", "claim", "settle"}
PROPERTIES
  ChargesArePaidOut
