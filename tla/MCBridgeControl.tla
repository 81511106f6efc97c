-------------------------- MODULE MCBridgeControl --------------------------
(* Small instances of BridgeControl for TLC. *)
EXTENDS BridgeControl, TLC

Velocity(c, t) == [type |-> "velocity", cmd |-> c, timeout |-> t]
Plain(t) == [type |-> t]

(* Every kind of line, with both rejected timeouts. *)
MCAllRequests ==
  {Plain(t) : t \in {"ping", "stop", "bad", "overlong"}}
    \cup {Velocity(c, t) : c \in Cmds, t \in 0..MaxTimeout + 1}

(* What stops the robot, what moves it, and a timeout that is too long. *)
MCMotionRequests ==
  {Plain("stop")} \cup {Velocity(c, t) : c \in Cmds, t \in MaxTimeout..MaxTimeout + 1}

ConnSymmetry == Permutations(Conns)
=============================================================================
