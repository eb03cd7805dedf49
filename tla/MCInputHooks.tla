---------------------------- MODULE MCInputHooks ----------------------------
(***************************************************************************)
(* Bounds for InputHooks.                                                  *)
(***************************************************************************)
EXTENDS InputHooks, TLC

CONSTANTS d1, d2, NoHandle

Symmetry == Permutations({d1, d2})
=============================================================================
