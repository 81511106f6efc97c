------------------------------ MODULE MCTeleop ------------------------------
(* Small instances of Teleop for TLC. *)
EXTENDS Teleop

(* Two ticks a period at the base scale, and one at twice the scale: the   *)
(* higher the speed the higher the rate.                                   *)
MCPeriod == [s \in 1..4 |-> IF s <= 2 THEN 2 ELSE 1]
=============================================================================
