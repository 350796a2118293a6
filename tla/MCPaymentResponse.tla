------------------------- MODULE MCPaymentResponse --------------------------
(***************************************************************************)
(* PaymentResponse for TLC: as in MCBatchSettlement, slots, channels and   *)
(* admin runs are interchangeable.                                         *)
(***************************************************************************)
EXTENDS PaymentResponse, TLC

Symmetry ==
  Permutations(Cids) \cup Permutations(Reqs) \cup Permutations(Admin)
=============================================================================
