-------------------------- MODULE TimedMoveProofs --------------------------
(***************************************************************************)
(* Theorems about TimedMove for every request, limit, period and number of *)
(* attempts: the motion is the one asked for, it ends with zero, and, if   *)
(* the program's own steps take no time, it stops in time.                 *)
(***************************************************************************)
EXTENDS TimedMove, TLAPS

-----------------------------------------------------------------------------
(* The inductive invariant. *)

Waiting == {"register", "look", "doze", "unheard", "pause", "connected"}
Moving == {"check", "send", "wait", "park", "stop", "flush"}

(* One publisher, from its registration to the end of its use, and an      *)
(* attempt left wherever the next one may be registered.                   *)
Registered ==
  /\ pc \in {"look", "doze", "unheard", "connected"} \cup Moving => publishers = 1
  /\ pc \in {"validate", "register", "pause"} => publishers = 0
  /\ pc = "validate" => attempt = 0
  /\ pc \in {"register", "pause"} => attempt < Attempts

(* Past the validation there is a valid request and its twist. *)
Validated ==
  pc \in Waiting \cup Moving \/ sent # "nothing" =>
    Valid(request) /\ twist = ToScoutTwist(request.velocity, Limits)

(* What has been sent, and what has failed, at each place. *)
Reported ==
  /\ pc \in {"validate"} \cup Waiting => sent = "nothing"
  /\ pc \notin {"stop", "flush", "done"} => ~sendError
  /\ pc \notin {"flush", "done"} => ~stopError /\ sent # "zero"
  /\ pc = "flush" => sent = "zero" \/ stopError
  /\ EndsWithZero

(* The signal: nothing is sent after it but the twist that was decided on. *)
Signalled ==
  /\ running <=> handler = "idle"
  /\ running => interrupted = Never /\ late = 0
  /\ pc \in {"validate", "send"} \cup Waiting => late = 0
  /\ late <= 1
  /\ interrupted.pc \in BeforeMotion => sent # "motion" /\ pc \notin {"send", "wait", "park"}

(* With Punctual: the deadline, and the instant of the signal. *)
InTime ==
  Punctual =>
    /\ pc \in {"check", "send", "wait", "stop"} => now <= deadline
    /\ pc = "park" => now <= wake /\ wake <= deadline
    /\ handler = "done" /\ pc \in {"send", "wait", "park"} => token
    /\ ~running /\ pc = "send" => now = interrupted.at
    /\ ~running /\ sent = "motion" /\ ~stopError => now = interrupted.at

IInv == TypeOK /\ Registered /\ Validated /\ Reported /\ Signalled /\ InTime

-----------------------------------------------------------------------------
(* The operators. *)

(* Clamping keeps a number inside the limits, and changes only what is not. *)
LEMMA ClampBounds ==
  ASSUME NEW n \in Int, NEW limit \in Int, limit > 0
  PROVE  /\ Clamp(n, limit) \in -limit..limit
         /\ Clamp(n, limit) = n \/ (n > limit /\ Clamp(n, limit) = limit)
                                \/ (n < -limit /\ Clamp(n, limit) = -limit)
         /\ n # 0 => Clamp(n, limit) # 0
BY DEF Clamp

(* The numbers of a valid request are numbers of ticks. *)
LEMMA RequestNumbers ==
  ASSUME request \in Requests, Valid(request)
  PROVE  Period \in Nat /\ request.duration.n \in Nat
<1>1. /\ request.rate.n \in Nat \ {0}
      /\ request.duration.n \in Nat
  BY TimedMoveAssumption DEF Valid, Positive, Value
<1>2. Second \in Nat
  BY TimedMoveAssumption
<1> QED BY <1>1, <1>2 DEF Period

(* What a valid request is mapped to moves the robot as it was asked. *)
LEMMA TwistIsMotion ==
  ASSUME NEW r \in Requests, Valid(r)
  PROVE  LET t == ToScoutTwist(r.velocity, Limits)
         IN  /\ t \in ScoutTwist
             /\ \A axis \in Axes : /\ r.velocity[axis].finite
                                   /\ r.velocity[axis].n \in Int
                                   /\ Limits[axis].n \in Int /\ Limits[axis].n > 0
                                   /\ Applied(t)[axis] = Clamp(r.velocity[axis].n, Limits[axis].n)
<1> DEFINE t == ToScoutTwist(r.velocity, Limits)
<1>1. /\ r.velocity \in [Axes -> Value]
      /\ Limits \in [Axes -> Value]
  BY TimedMoveAssumption DEF Velocity
<1>2. \A axis \in Axes : /\ r.velocity[axis] \in Value
                         /\ Limits[axis] \in Value
                         /\ r.velocity[axis].finite
                         /\ Limits[axis].n > 0
  BY <1>1 DEF Valid, Mappable, Positive
<1>3. \A axis \in Axes : r.velocity[axis].n \in Int /\ Limits[axis].n \in Int
  BY <1>2 DEF Value
<1>4. \A axis \in Axes : Clamp(r.velocity[axis].n, Limits[axis].n) \in Int
  BY <1>3 DEF Clamp
<1>5. /\ "forward" \in Axes /\ "lateral" \in Axes /\ "yaw" \in Axes
  BY DEF Axes
<1>6. t \in ScoutTwist
  BY <1>4, <1>5 DEF ToScoutTwist, ScoutTwist
<1>7. \A axis \in Axes : Applied(t)[axis] = Clamp(r.velocity[axis].n, Limits[axis].n)
  BY <1>4, <1>5 DEF ToScoutTwist, Applied, Axes
<1> QED BY <1>2, <1>3, <1>6, <1>7
-----------------------------------------------------------------------------
(* The invariant is inductive. *)

LEMMA InitInv == Init => IInv
<1> SUFFICES ASSUME Init PROVE IInv
  OBVIOUS
<1>1. FlagsOK
  BY DEF Init, FlagsOK
<1>3. ValuesOK
  BY TimedMoveAssumption DEF Init, ValuesOK, MovePlaces, Never, ScoutTwist, ZeroTwist
<1>2. Registered /\ Validated /\ Reported /\ Signalled /\ InTime
  BY DEF Init, Registered, Validated, Reported, Signalled, InTime, EndsWithZero, Never,
         Waiting, Moving, BeforeMotion
<1> QED BY <1>1, <1>2, <1>3, Zenon DEF IInv, TypeOK

(* One step per action, and under it one per part of the invariant that    *)
(* needs different facts.                                                  *)
LEMMA StepInv == IInv /\ [Next]_vars => IInv'
<1> SUFFICES ASSUME IInv, [Next]_vars PROVE IInv'
  OBVIOUS
<1> USE DEF world, signalVars, connectVars, outVars, requestVars
<1>0. FlagsOK /\ ValuesOK /\ Registered /\ Validated /\ Reported /\ Signalled /\ InTime
  BY Zenon DEF IInv, TypeOK
<1>1. CASE Validate
  <2>0. Valid(request) => ToScoutTwist(request.velocity, Limits) \in ScoutTwist
    BY <1>0, TwistIsMotion DEF ValuesOK
  <2>1. FlagsOK'
    BY <1>0, <1>1 DEF Validate, FlagsOK
  <2>2. ValuesOK'
    BY <1>0, <1>1, <2>0, TimedMoveAssumption DEF Validate, ValuesOK,
       MovePlaces, Registered, Waiting, Moving
  <2>3. Registered' /\ Validated' /\ Reported'
    BY <1>0, <1>1, TimedMoveAssumption DEF Validate, Registered,
       Validated, Reported, EndsWithZero, ValuesOK, Waiting, Moving
  <2>4. Signalled' /\ InTime'
    BY <1>0, <1>1, <2>0, TimedMoveAssumption DEF Validate, Signalled,
       InTime, Reported, ValuesOK, Waiting, BeforeMotion, Never
  <2> QED BY <2>1, <2>2, <2>3, <2>4, Zenon DEF IInv, TypeOK
<1>2. CASE Register
  <2>1. FlagsOK'
    BY <1>0, <1>2 DEF Register, FlagsOK
  <2>2. ValuesOK'
    BY <1>0, <1>2, TimedMoveAssumption DEF Register, ValuesOK, MovePlaces,
       Registered, Waiting, Moving
  <2>3. Registered' /\ Validated' /\ Reported'
    BY <1>0, <1>2 DEF Register, Registered, Validated, Reported,
       EndsWithZero, ValuesOK, Waiting, Moving
  <2>4. Signalled' /\ InTime'
    BY <1>0, <1>2, TimedMoveAssumption DEF Register, Signalled, InTime,
       Reported, ValuesOK, Waiting, BeforeMotion, Never
  <2> QED BY <2>1, <2>2, <2>3, <2>4, Zenon DEF IInv, TypeOK
<1>3. CASE Look
  <2>1. FlagsOK'
    BY <1>0, <1>3 DEF Look, LookWhile, FlagsOK
  <2>2. ValuesOK'
    BY <1>0, <1>3, TimedMoveAssumption DEF Look, LookWhile, ValuesOK,
       MovePlaces, Registered, Waiting, Moving
  <2>3. Registered' /\ Validated' /\ Reported'
    BY <1>0, <1>3 DEF Look, LookWhile, Registered, Validated, Reported,
       EndsWithZero, ValuesOK, Waiting, Moving
  <2>4. Signalled' /\ InTime'
    BY <1>0, <1>3, TimedMoveAssumption DEF Look, LookWhile, Signalled,
       InTime, Reported, ValuesOK, Waiting, BeforeMotion, Never
  <2> QED BY <2>1, <2>2, <2>3, <2>4, Zenon DEF IInv, TypeOK
<1>4. CASE Doze
  <2>1. FlagsOK'
    BY <1>0, <1>4 DEF Doze, FlagsOK
  <2>2. ValuesOK'
    BY <1>0, <1>4, TimedMoveAssumption DEF Doze, ValuesOK, MovePlaces,
       Registered, Waiting, Moving
  <2>3. Registered' /\ Validated' /\ Reported'
    BY <1>0, <1>4 DEF Doze, Registered, Validated, Reported, EndsWithZero,
       ValuesOK, Waiting, Moving
  <2>4. Signalled' /\ InTime'
    BY <1>0, <1>4, TimedMoveAssumption DEF Doze, Signalled, InTime,
       Reported, ValuesOK, Waiting, BeforeMotion, Never
  <2> QED BY <2>1, <2>2, <2>3, <2>4, Zenon DEF IInv, TypeOK
<1>5. CASE Retry
  <2>1. FlagsOK'
    BY <1>0, <1>5 DEF Retry, RetryWith, FlagsOK
  <2>2. ValuesOK'
    BY <1>0, <1>5, TimedMoveAssumption DEF Retry, RetryWith, ValuesOK,
       MovePlaces, Registered, Waiting, Moving
  <2>3. Registered' /\ Validated' /\ Reported'
    BY <1>0, <1>5 DEF Retry, RetryWith, Registered, Validated, Reported,
       EndsWithZero, ValuesOK, Waiting, Moving
  <2>4. Signalled' /\ InTime'
    BY <1>0, <1>5, TimedMoveAssumption DEF Retry, RetryWith, Signalled,
       InTime, Reported, ValuesOK, Waiting, BeforeMotion, Never
  <2> QED BY <2>1, <2>2, <2>3, <2>4, Zenon DEF IInv, TypeOK
<1>6. CASE Pause
  <2>1. FlagsOK'
    BY <1>0, <1>6 DEF Pause, FlagsOK
  <2>2. ValuesOK'
    BY <1>0, <1>6, TimedMoveAssumption DEF Pause, ValuesOK, MovePlaces,
       Registered, Waiting, Moving
  <2>3. Registered' /\ Validated' /\ Reported'
    BY <1>0, <1>6 DEF Pause, Registered, Validated, Reported,
       EndsWithZero, ValuesOK, Waiting, Moving
  <2>4. Signalled' /\ InTime'
    BY <1>0, <1>6, TimedMoveAssumption DEF Pause, Signalled, InTime,
       Reported, ValuesOK, Waiting, BeforeMotion, Never
  <2> QED BY <2>1, <2>2, <2>3, <2>4, Zenon DEF IInv, TypeOK
<1>7. CASE StartMotion
  <2>0. request.duration.n \in Nat
    BY <1>0, <1>7, RequestNumbers DEF StartMotion, Validated, Waiting, ValuesOK
  <2>1. FlagsOK'
    BY <1>0, <1>7 DEF StartMotion, FlagsOK
  <2>2. ValuesOK'
    BY <1>0, <1>7, <2>0, TimedMoveAssumption DEF StartMotion, ValuesOK,
       MovePlaces, Registered, Waiting, Moving
  <2>3. Registered' /\ Validated' /\ Reported'
    BY <1>0, <1>7 DEF StartMotion, Registered, Validated, Reported,
       EndsWithZero, ValuesOK, Waiting, Moving
  <2>4. Signalled' /\ InTime'
    BY <1>0, <1>7, <2>0, TimedMoveAssumption DEF StartMotion, Signalled,
       InTime, Reported, ValuesOK, Waiting, BeforeMotion, Never
  <2> QED BY <2>1, <2>2, <2>3, <2>4, Zenon DEF IInv, TypeOK
<1>8. CASE Check
  <2>1. FlagsOK'
    BY <1>0, <1>8 DEF Check, MoveWhile, FlagsOK
  <2>2. ValuesOK'
    BY <1>0, <1>8, TimedMoveAssumption DEF Check, MoveWhile, ValuesOK,
       MovePlaces, Registered, Waiting, Moving
  <2>3. Registered' /\ Validated' /\ Reported'
    BY <1>0, <1>8 DEF Check, MoveWhile, Registered, Validated, Reported,
       EndsWithZero, ValuesOK, Waiting, Moving
  <2>4. Signalled' /\ InTime'
    BY <1>0, <1>8, TimedMoveAssumption DEF Check, MoveWhile, Signalled,
       InTime, Reported, ValuesOK, Waiting, BeforeMotion, Never
  <2> QED BY <2>1, <2>2, <2>3, <2>4, Zenon DEF IInv, TypeOK
<1>9. CASE Send
  <2>1. FlagsOK'
    BY <1>0, <1>9 DEF Send, SendOr, FlagsOK
  <2>2. ValuesOK'
    BY <1>0, <1>9, TimedMoveAssumption DEF Send, SendOr, ValuesOK,
       MovePlaces, Registered, Waiting, Moving, Lesser
  <2>3. Registered' /\ Validated' /\ Reported'
    BY <1>0, <1>9 DEF Send, SendOr, Registered, Validated, Reported,
       EndsWithZero, ValuesOK, Waiting, Moving
  <2>4. Signalled' /\ InTime'
    BY <1>0, <1>9, TimedMoveAssumption DEF Send, SendOr, Signalled,
       InTime, Reported, ValuesOK, Waiting, BeforeMotion, Never, Lesser
  <2> QED BY <2>1, <2>2, <2>3, <2>4, Zenon DEF IInv, TypeOK
<1>10. CASE NextWait
  <2>0. Period \in Nat
    BY <1>0, <1>10, RequestNumbers DEF NextWait, ParkFor, Validated, Moving, ValuesOK
  <2>1. FlagsOK'
    BY <1>0, <1>10 DEF NextWait, ParkFor, FlagsOK
  <2>2. ValuesOK'
    BY <1>0, <1>10, <2>0, TimedMoveAssumption DEF NextWait, ParkFor,
       ValuesOK, MovePlaces, Registered, Waiting, Moving, Lesser
  <2>3. Registered' /\ Validated' /\ Reported'
    BY <1>0, <1>10 DEF NextWait, ParkFor, Registered, Validated, Reported,
       EndsWithZero, ValuesOK, Waiting, Moving
  <2>4. Signalled' /\ InTime'
    BY <1>0, <1>10, <2>0, TimedMoveAssumption DEF NextWait, ParkFor,
       Signalled, InTime, Reported, ValuesOK, Waiting, BeforeMotion,
       Never, Lesser
  <2> QED BY <2>1, <2>2, <2>3, <2>4, Zenon DEF IInv, TypeOK
<1>11. CASE Park
  <2>1. FlagsOK'
    BY <1>0, <1>11 DEF Park, FlagsOK
  <2>2. ValuesOK'
    BY <1>0, <1>11, TimedMoveAssumption DEF Park, ValuesOK, MovePlaces,
       Registered, Waiting, Moving
  <2>3. Registered' /\ Validated' /\ Reported'
    BY <1>0, <1>11 DEF Park, Registered, Validated, Reported,
       EndsWithZero, ValuesOK, Waiting, Moving
  <2>4. Signalled' /\ InTime'
    BY <1>0, <1>11, TimedMoveAssumption DEF Park, Signalled, InTime,
       Reported, ValuesOK, Waiting, BeforeMotion, Never
  <2> QED BY <2>1, <2>2, <2>3, <2>4, Zenon DEF IInv, TypeOK
<1>12. CASE SendStop
  <2>1. FlagsOK'
    BY <1>0, <1>12 DEF SendStop, FlagsOK
  <2>2. ValuesOK'
    BY <1>0, <1>12, TimedMoveAssumption DEF SendStop, ValuesOK,
       MovePlaces, Registered, Waiting, Moving
  <2>3. Registered' /\ Validated' /\ Reported'
    BY <1>0, <1>12 DEF SendStop, Registered, Validated, Reported,
       EndsWithZero, ValuesOK, Waiting, Moving
  <2>4. Signalled' /\ InTime'
    BY <1>0, <1>12, TimedMoveAssumption DEF SendStop, Signalled, InTime,
       Reported, ValuesOK, Waiting, BeforeMotion, Never
  <2> QED BY <2>1, <2>2, <2>3, <2>4, Zenon DEF IInv, TypeOK
<1>13. CASE Finish
  <2>1. FlagsOK'
    BY <1>0, <1>13 DEF Finish, FlagsOK
  <2>2. ValuesOK'
    BY <1>0, <1>13, TimedMoveAssumption DEF Finish, ValuesOK, MovePlaces,
       Registered, Waiting, Moving
  <2>3. Registered' /\ Validated' /\ Reported'
    BY <1>0, <1>13 DEF Finish, Registered, Validated, Reported,
       EndsWithZero, ValuesOK, Waiting, Moving
  <2>4. Signalled' /\ InTime'
    BY <1>0, <1>13, TimedMoveAssumption DEF Finish, Signalled, InTime,
       Reported, ValuesOK, Waiting, BeforeMotion, Never
  <2> QED BY <2>1, <2>2, <2>3, <2>4, Zenon DEF IInv, TypeOK
<1>14. CASE Interrupt
  <2>1. FlagsOK'
    BY <1>0, <1>14 DEF Interrupt, FlagsOK
  <2>2. ValuesOK'
    BY <1>0, <1>14, TimedMoveAssumption DEF Interrupt, ValuesOK,
       MovePlaces, Registered, Waiting, Moving
  <2>3. Registered' /\ Validated' /\ Reported'
    BY <1>0, <1>14 DEF Interrupt, Registered, Validated, Reported,
       EndsWithZero, ValuesOK, Waiting, Moving
  <2>4. Signalled' /\ InTime'
    BY <1>0, <1>14, TimedMoveAssumption DEF Interrupt, Signalled, InTime,
       Reported, ValuesOK, Waiting, BeforeMotion, Never
  <2> QED BY <2>1, <2>2, <2>3, <2>4, Zenon DEF IInv, TypeOK
<1>15. CASE Unpark
  <2>1. FlagsOK'
    BY <1>0, <1>15 DEF Unpark, HandlerEnds, FlagsOK
  <2>2. ValuesOK'
    BY <1>0, <1>15, TimedMoveAssumption DEF Unpark, HandlerEnds, ValuesOK,
       MovePlaces, Registered, Waiting, Moving
  <2>3. Registered' /\ Validated' /\ Reported'
    BY <1>0, <1>15 DEF Unpark, HandlerEnds, Registered, Validated,
       Reported, EndsWithZero, ValuesOK, Waiting, Moving
  <2>4. Signalled' /\ InTime'
    BY <1>0, <1>15, TimedMoveAssumption DEF Unpark, HandlerEnds,
       Signalled, InTime, Reported, ValuesOK, Waiting, BeforeMotion, Never
  <2> QED BY <2>1, <2>2, <2>3, <2>4, Zenon DEF IInv, TypeOK
<1>16. CASE Subscribe
  <2>1. FlagsOK'
    BY <1>0, <1>16 DEF Subscribe, FlagsOK
  <2>2. ValuesOK'
    BY <1>0, <1>16, TimedMoveAssumption DEF Subscribe, ValuesOK,
       MovePlaces, Registered, Waiting, Moving
  <2>3. Registered' /\ Validated' /\ Reported'
    BY <1>0, <1>16 DEF Subscribe, Registered, Validated, Reported,
       EndsWithZero, ValuesOK, Waiting, Moving
  <2>4. Signalled' /\ InTime'
    BY <1>0, <1>16, TimedMoveAssumption DEF Subscribe, Signalled, InTime,
       Reported, ValuesOK, Waiting, BeforeMotion, Never
  <2> QED BY <2>1, <2>2, <2>3, <2>4, Zenon DEF IInv, TypeOK
<1>17. CASE RosLost
  <2>1. FlagsOK'
    BY <1>0, <1>17 DEF RosLost, FlagsOK
  <2>2. ValuesOK'
    BY <1>0, <1>17, TimedMoveAssumption DEF RosLost, ValuesOK, MovePlaces,
       Registered, Waiting, Moving
  <2>3. Registered' /\ Validated' /\ Reported'
    BY <1>0, <1>17 DEF RosLost, Registered, Validated, Reported,
       EndsWithZero, ValuesOK, Waiting, Moving
  <2>4. Signalled' /\ InTime'
    BY <1>0, <1>17, TimedMoveAssumption DEF RosLost, Signalled, InTime,
       Reported, ValuesOK, Waiting, BeforeMotion, Never
  <2> QED BY <2>1, <2>2, <2>3, <2>4, Zenon DEF IInv, TypeOK
<1>18. CASE Tick
  <2>1. FlagsOK'
    BY <1>0, <1>18 DEF Tick, Asleep, FlagsOK
  <2>2. ValuesOK'
    BY <1>0, <1>18, TimedMoveAssumption DEF Tick, Asleep, ValuesOK,
       MovePlaces, Registered, Waiting, Moving
  <2>3. Registered' /\ Validated' /\ Reported'
    BY <1>0, <1>18 DEF Tick, Asleep, Registered, Validated, Reported,
       EndsWithZero, ValuesOK, Waiting, Moving
  <2>4. Signalled' /\ InTime'
    BY <1>0, <1>18, TimedMoveAssumption DEF Tick, Asleep, Signalled,
       InTime, Reported, ValuesOK, Waiting, BeforeMotion, Never
  <2> QED BY <2>1, <2>2, <2>3, <2>4, Zenon DEF IInv, TypeOK
<1>19. CASE UNCHANGED vars
  <2>1. FlagsOK' /\ ValuesOK' /\ Registered' /\ Validated'
    BY <1>0, <1>19 DEF vars, FlagsOK, ValuesOK, Registered, Validated
  <2>2. Reported' /\ Signalled' /\ InTime'
    BY <1>0, <1>19 DEF vars, Reported, EndsWithZero, Signalled, InTime
  <2> QED BY <2>1, <2>2, Zenon DEF IInv, TypeOK
<1> QED
  BY <1>1, <1>2, <1>3, <1>4, <1>5, <1>6, <1>7, <1>8, <1>9, <1>10,
     <1>11, <1>12, <1>13, <1>14, <1>15, <1>16, <1>17, <1>18, <1>19 DEF Next, Main, SendVelocity

(* Every reachable state satisfies it.                                     *)
THEOREM Inductive == Spec => []IInv
BY InitInv, StepInv, PTL DEF Spec

-----------------------------------------------------------------------------
(* What follows from it. *)

(* Every variable keeps its type; at most one publisher is registered.     *)
THEOREM TypeCorrect == Spec => []TypeOK
<1>1. IInv => TypeOK
  BY DEF IInv
<1> QED BY <1>1, Inductive, PTL

(* The motion sent is the one asked for, within its limits on every axis,  *)
(* and what has moved the robot ends with zero or reports an error.        *)
THEOREM MotionIsSafe == Spec => []MotionSafe
<1>1. IInv => MotionSafe
  <2> SUFFICES ASSUME IInv PROVE MovesAsAsked
    BY DEF IInv, Reported, MotionSafe
  <2> SUFFICES ASSUME sent = "motion"
               PROVE  /\ \E axis \in Axes : Applied(twist)[axis] # 0
                      /\ \A axis \in Axes :
                           LET asked == request.velocity[axis]
                               done == Applied(twist)[axis]
                               limit == Limits[axis].n
                           IN  /\ asked.finite
                               /\ done = asked.n \/ (asked.n > limit /\ done = limit)
                                                 \/ (asked.n < -limit /\ done = -limit)
                               /\ done \in -limit..limit
    BY DEF MovesAsAsked
  <2>1. /\ request \in Requests
        /\ Valid(request)
        /\ twist = ToScoutTwist(request.velocity, Limits)
    BY DEF IInv, TypeOK, ValuesOK, Validated
  <2>2. \A axis \in Axes : /\ request.velocity[axis].finite
                           /\ request.velocity[axis].n \in Int
                           /\ Limits[axis].n \in Int /\ Limits[axis].n > 0
                           /\ Applied(twist)[axis] = Clamp(request.velocity[axis].n, Limits[axis].n)
    BY <2>1, TwistIsMotion
  <2>3. PICK axis \in Axes : request.velocity[axis] # Finite(0)
    BY <2>1 DEF Valid, IsDefault
  <2>4. request.velocity[axis] \in Value
    BY <2>1, TimedMoveAssumption DEF Velocity
  <2>5. request.velocity[axis].n # 0
    BY <2>2, <2>3, <2>4 DEF Value, Finite
  <2>6. Applied(twist)[axis] # 0
    BY <2>2, <2>5, ClampBounds
  <2> QED BY <2>2, <2>6, ClampBounds
<1> QED BY <1>1, Inductive, PTL

(* When only its sleeps take time, the motion is over at its deadline and  *)
(* at once after Ctrl-C, wherever in the wait or the motion that comes.    *)
THEOREM MotionIsInTime == ASSUME Punctual PROVE Spec => []MotionStopsInTime
<1>1. ASSUME IInv PROVE MotionStopsInTime
  <2>0. FlagsOK /\ ValuesOK /\ Reported /\ Signalled /\ InTime
    BY <1>1 DEF IInv, TypeOK
  <2>1. MotionEndsOnTime
    BY <2>0 DEF MotionEndsOnTime, ValuesOK, MovePlaces, Reported, InTime, Waiting
  <2>2. InterruptHolds
    BY <2>0 DEF InterruptHolds, Signalled
  <2>3. InterruptIsPrompt
    BY <2>0 DEF InterruptIsPrompt, InTime
  <2> QED BY <2>1, <2>2, <2>3 DEF MotionStopsInTime
<1> QED BY <1>1, Inductive, PTL
=============================================================================
