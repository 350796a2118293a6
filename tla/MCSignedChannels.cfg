\* Two channels of one key, two requests, one run; payers withdraw,
\* and the router restarts.
SPECIFICATION SignedSpec
CONSTANTS
  None = None
  Keys = {k1}
  Zero = Zero
  Nobody = Nobody
  Salts = {s1, s2}
  k1 = k1
  s1 = s1
  s2 = s2
  Chains = {1, 2}
  Ceilings = {1, 2}
  Bad = Bad
  ChainId = 1
  Signatures <- InCirculation
  Payloads <- Presented
  Cids <- ComputedIds
  Reqs = {r1, r2}
  Periodic = {p}
  Admin = {}
  Amount = 1
  MaxU128 = 5
  MaxOwed = 5
  EscrowCap = 2
  Remainders = {1}
  Vouchers = {1, 2}
  Deposits = {2}
  SnapshotReplies = {"settle"}
  Unreadable = {}
  Faults = {"restart"}
SYMMETRY Symmetry
INVARIANTS
  ClaimsAreSigned
PROPERTIES
  NoDoubleClaim
  IsPaymentChannel
