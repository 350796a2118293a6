\* Two channels of each of two payers, and a contract wallet's, on two chains.
SPECIFICATION Spec
CONSTANTS
  Keys = {k1, k2}
  Zero = Zero
  Nobody = Nobody
  Salts = {s1, s2}
  Chains = {1, 2}
  Ceilings = {1, 2}
  Bad = Bad
  ChainId = 1
  Scheme = "exact"
  None = None
  MaxSigned = 2
SYMMETRY Symmetry
INVARIANTS
  AcceptedWasSigned
  SignedIsAccepted
