------------------------------- MODULE Motion -------------------------------
(***************************************************************************)
(* Velocities, limits and the Scout's twist (src/src/motion.rs).  A number *)
(* that the user gives is a multiple of some unit, or NaN or an infinity.  *)
(***************************************************************************)
EXTENDS Integers

Value == [finite : BOOLEAN, n : Int]
Finite(n) == [finite |-> TRUE, n |-> n]
NotFinite == [finite |-> FALSE, n |-> 0]

Axes == {"forward", "lateral", "yaw"}

Velocity == [Axes -> Value]

(* Only linear_x, linear_y and angular_z of a twist are ever not zero. *)
ScoutTwist == [linear_x : Int, linear_y : Int, angular_z : Int]
ZeroTwist == [linear_x |-> 0, linear_y |-> 0, angular_z |-> 0]

Positive(value) == value.finite /\ value.n > 0

Clamp(n, limit) == IF n > limit THEN limit ELSE IF n < -limit THEN -limit ELSE n

(* validate_finite and validate_limit, of every axis. *)
Mappable(velocity, limits) ==
  \A axis \in Axes : velocity[axis].finite /\ Positive(limits[axis])

(* Mutation: the robot's first axis is taken for the one that points left. *)
ToTwistUnswapped(velocity, limits) ==
  [linear_x  |-> Clamp(velocity["lateral"].n, limits["lateral"].n),
   linear_y  |-> Clamp(velocity["forward"].n, limits["forward"].n),
   angular_z |-> Clamp(velocity["yaw"].n, limits["yaw"].n)]

(* The Scout drives forward along linear_y, and its linear_x points right. *)
ToScoutTwist(velocity, limits) ==
  [linear_x  |-> -Clamp(velocity["lateral"].n, limits["lateral"].n),
   linear_y  |-> Clamp(velocity["forward"].n, limits["forward"].n),
   angular_z |-> Clamp(velocity["yaw"].n, limits["yaw"].n)]

(* What the robot does with a twist. *)
Applied(twist) ==
  [forward |-> twist.linear_y, lateral |-> -twist.linear_x, yaw |-> twist.angular_z]
=============================================================================
