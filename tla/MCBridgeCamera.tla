--------------------------- MODULE MCBridgeCamera ---------------------------
(* Small instances of BridgeCamera for TLC. *)
EXTENDS BridgeCamera, TLC

ConnSymmetry == Permutations(Conns)
=============================================================================
