----------------------------- MODULE MCProvider -----------------------------
(***************************************************************************)
(* Bounds for Provider.  30 and 3 searches are scaled down to 2 and 2, in  *)
(* frame_safety to 1 and 1.                                                *)
(***************************************************************************)
EXTENDS Provider, TLC

CONSTANTS u1, u2, near, far

Symmetry == Permutations({near, far}) \cup Permutations({u1, u2})
=============================================================================
