---------------------------- MODULE MotionLease ----------------------------
(***************************************************************************)
(* What the integration bridge promises about the robot's motion, without  *)
(* threads, sockets or clocks (docs/protocol.md, "Local integration bridge *)
(* protocol"): one client at a time holds the right to move the robot, the *)
(* command in force is the holder's or zero, whoever takes the right over  *)
(* starts from zero, and the publisher sends what was in force when it     *)
(* looked, one twist per look.  Once publication is closed the only twist  *)
(* still sent is zero.  BridgeControl is shown to implement it.            *)
(***************************************************************************)
CONSTANTS
  Clients,   \* those who may hold the right to move the robot
  Nobody,    \* the holder when there is none
  Twists,    \* the twists that may be published, Zero among them
  Zero,      \* the twist that stops the robot
  Nothing    \* the latch when the publisher has not looked

VARIABLES
  holder,    \* who may set the command
  cmd,       \* the command in force
  latched,   \* what the publisher saw and has not sent yet
  out,       \* the twist sent last
  open       \* FALSE once the publisher has stopped looking

vars == <<holder, cmd, latched, out, open>>

Init ==
  /\ holder = Nobody
  /\ cmd = Zero
  /\ latched = Nothing
  /\ out = Zero
  /\ open = TRUE

Acquire(c) ==
  /\ holder = Nobody
  /\ cmd = Zero
  /\ holder' = c
  /\ UNCHANGED <<cmd, latched, out, open>>

Set(t) ==
  /\ holder # Nobody
  /\ cmd' = t
  /\ UNCHANGED <<holder, latched, out, open>>

(* A command may be cleared at any time: on request, on expiry, at a       *)
(* hand-over, at shutdown.                                                 *)
Clear ==
  /\ cmd' = Zero
  /\ UNCHANGED <<holder, latched, out, open>>

Release ==
  /\ holder # Nobody
  /\ holder' = Nobody
  /\ cmd' = Zero
  /\ UNCHANGED <<latched, out, open>>

(* The publisher looks: it sees the command, or finds it expired and       *)
(* clears it.                                                              *)
Latch ==
  /\ open
  /\ latched = Nothing
  /\ cmd' \in {cmd, Zero}
  /\ latched' = cmd'
  /\ UNCHANGED <<holder, out, open>>

Emit ==
  /\ latched # Nothing
  /\ out' = latched
  /\ latched' = Nothing
  /\ UNCHANGED <<holder, cmd, open>>

Close ==
  /\ open' = FALSE
  /\ latched' = Nothing
  /\ UNCHANGED <<holder, cmd, out>>

EmitLastZero ==
  /\ ~open
  /\ out' = Zero
  /\ UNCHANGED <<holder, cmd, latched, open>>

Next ==
  \/ \E c \in Clients : Acquire(c)
  \/ \E t \in Twists : Set(t)
  \/ Clear
  \/ Release
  \/ Latch
  \/ Emit
  \/ Close
  \/ EmitLastZero

Spec == Init /\ [][Next]_vars
=============================================================================
