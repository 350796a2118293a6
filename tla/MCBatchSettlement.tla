------------------------- MODULE MCBatchSettlement -------------------------
(***************************************************************************)
(* BatchSettlement for TLC: the slots of `req`, the channel ids and the    *)
(* overlapping admin runs are interchangeable.  The runs that check        *)
(* liveness use BatchSettlement itself, without symmetry.                  *)
(***************************************************************************)
EXTENDS BatchSettlement, TLC

Symmetry ==
  Permutations(Cids) \cup Permutations(Reqs) \cup Permutations(Admin)
=============================================================================
