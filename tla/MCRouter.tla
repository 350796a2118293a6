------------------------------ MODULE MCRouter ------------------------------
(***************************************************************************)
(* Router for TLC: keys and salts are interchangeable.                     *)
(***************************************************************************)
EXTENDS Router, TLC

Symmetry == Permutations(Keys) \cup Permutations(Salts)
=============================================================================
