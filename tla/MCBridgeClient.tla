--------------------------- MODULE MCBridgeClient ---------------------------
(***************************************************************************)
(* Bounds for BridgeClient.  The lengths 65536 and 4 are scaled down to 1  *)
(* and 2: the frames below then are one of the longest accepted length and *)
(* one that is too long.                                                   *)
(***************************************************************************)
EXTENDS BridgeClient, TLC

CONSTANTS fd1, fd2, pose, status, on, off, wip, nothing, noise

NoFrames  == {}
TwoFrames == {[len |-> 1, msg |-> wip], [len |-> 2, msg |-> noise]}

Symmetry == Permutations({fd1, fd2})
=============================================================================
