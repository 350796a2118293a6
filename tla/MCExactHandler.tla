--------------------------- MODULE MCExactHandler ---------------------------
(***************************************************************************)
(* ExactHandler for TLC: two payments that name one payer, of which it     *)
(* signed one, one of another payer, one without a readable payer.         *)
(***************************************************************************)
EXTENDS ExactHandler, TLC

CONSTANTS k1, k2, p1, p2, p3, p4

\* The [runtime] table of each run; absent, the defaults hold.
SyncCached == [settlement |-> "sync", verify_mode |-> "cached",
               verify_cache_ttl_secs |-> 2]
AsyncCached == [SyncCached EXCEPT !.settlement = "async"]
Absent == [field \in {} |-> None]

OnePayer  == (p1 :> k1) @@ (p2 :> k1)
MixedPayers == OnePayer @@ (p3 :> k2) @@ (p4 :> None)

\* p1 lapses, p2 names a payer that did not sign it, the others stay good.
Windows == [p \in Payments |-> IF p = p1 THEN (0..1) \cap Time
                               ELSE IF p = p2 THEN {} ELSE Time]
AlwaysGood == [p \in Payments |-> Time]

Symmetry == Permutations(Reqs)
=============================================================================
