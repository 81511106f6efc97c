---------------------------- MODULE MCScoutClient ----------------------------
(* Small instances of ScoutClient for TLC. *)
EXTENDS ScoutClient, TLC

Symmetry == Permutations(Callers)
=============================================================================
