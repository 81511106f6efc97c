------------------------------ MODULE TimedMove ------------------------------
(***************************************************************************)
(* `moorebot-scout drive` and `move` (src/src/main.rs): send_velocity      *)
(* maps the velocity to a twist, waits for the motor controller to         *)
(* subscribe, publishes the twist until the duration is over or Ctrl-C is  *)
(* pressed, and then publishes zero.                                       *)
(*                                                                         *)
(* The Ctrl-C handler runs on a thread of its own: it clears `running` and *)
(* then unparks the main thread.  A token left by unpark makes the next    *)
(* park_timeout return at once.  With Punctual the program's own steps     *)
(* take no time and only its sleeps do; without it time may pass anywhere. *)
(***************************************************************************)
EXTENDS Motion

CONSTANTS
  Requests,     \* what is asked for: [velocity, duration, rate]
  Limits,       \* MotionLimits::default()
  MaxDuration,  \* 60 seconds
  MaxRate,      \* 100 Hz; the lowest rate is 1
  Second,       \* the ticks of a second, so that a period is Second / rate
  Attempts,     \* MOTOR_CONNECTION_ATTEMPTS
  WaitTime,     \* MOTOR_CONNECTION_WAIT
  WaitPoll,     \* the sleep between two looks at the subscribers
  RetryPause,   \* MOTOR_CONNECTION_RETRY_PAUSE
  FlushTime,    \* the sleep after the last zero
  Faults,       \* "register", "send": calls that may fail; "ros": the node
                \* goes down; "spurious": park_timeout returns early
  Punctual,     \* the program's own steps take no time
  MaxTime       \* bound: the clock stops here

ASSUME TimedMoveAssumption ==
  /\ Requests \subseteq [velocity : Velocity, duration : Value, rate : Value]
  /\ Limits \in Velocity
  /\ MaxDuration \in Nat
  /\ MaxRate \in Nat \ {0}
  /\ Second \in Nat
  /\ Second >= MaxRate
  /\ Attempts \in Nat \ {0}
  /\ WaitTime \in Nat
  /\ WaitPoll \in Nat \ {0}
  /\ RetryPause \in Nat
  /\ FlushTime \in Nat
  /\ Faults \subseteq {"register", "send", "ros", "spurious"}
  /\ Punctual \in BOOLEAN
  /\ MaxTime \in Nat

VARIABLES
  now,          \* Instant::now()
  rosOk,        \* rosrust::is_ok()
  running,      \* the AtomicBool the Ctrl-C handler clears
  handler,      \* the handler's place
  token,        \* the main thread's unpark token
  pc,           \* the main thread's place
  request,      \* what the user asked for
  twist,        \* the twist it is mapped to
  attempt,      \* the connection attempt
  publishers,   \* the publishers that are registered with the ROS master
  subscribed,   \* the motor controller is connected to the last of them
  deadline,     \* when the wait, and later the motion, is over
  wake,         \* when the current sleep is over
  sendError,    \* a motion twist could not be sent
  stopError,    \* the last zero could not be sent
  result,       \* what send_velocity returns
  sent,         \* the twist sent last
  late,         \* history: motion twists sent after Ctrl-C, up to 2
  interrupted   \* history: when Ctrl-C was pressed, and where

world == <<now, rosOk>>
signalVars == <<running, handler, token, interrupted>>
connectVars == <<attempt, publishers, subscribed>>
outVars == <<sendError, stopError, result, sent, late>>
requestVars == <<request, twist>>
vars == <<world, signalVars, pc, requestVars, connectVars, deadline, wake, outVars>>

Lesser(a, b) == IF a <= b THEN a ELSE b
Never == [at |-> 0, pc |-> "never"]

Init ==
  /\ now = 0
  /\ rosOk = TRUE
  /\ running = TRUE
  /\ handler = "idle"
  /\ token = FALSE
  /\ pc = "validate"
  /\ request \in Requests
  /\ twist = ZeroTwist
  /\ attempt = 0
  /\ publishers = 0
  /\ subscribed = FALSE
  /\ deadline = 0
  /\ wake = 0
  /\ sendError = FALSE
  /\ stopError = FALSE
  /\ result = "none"
  /\ sent = "nothing"
  /\ late = 0
  /\ interrupted = Never

-----------------------------------------------------------------------------
(* send_velocity up to the motion, with connect_motor_controller. *)

(* velocity == Velocity::default(); NaN is equal to nothing. *)
IsDefault(velocity) == \A axis \in Axes : velocity[axis] = Finite(0)

(* Mutation: the components are clamped as they are, infinite or not. *)
ValidAnyhow(r) ==
  /\ Positive(r.duration) /\ r.duration.n <= MaxDuration
  /\ r.rate.finite /\ r.rate.n \in 1..MaxRate
  /\ ~IsDefault(r.velocity)

(* What move_velocity and send_velocity let through. *)
Valid(r) ==
  /\ Positive(r.duration) /\ r.duration.n <= MaxDuration
  /\ r.rate.finite /\ r.rate.n \in 1..MaxRate
  /\ ~IsDefault(r.velocity)
  /\ Mappable(r.velocity, Limits)

Validate ==
  /\ pc = "validate"
  /\ IF Valid(request)
       THEN pc' = "register" /\ twist' = ToScoutTwist(request.velocity, Limits) /\ UNCHANGED result
       ELSE pc' = "done" /\ result' = "refused" /\ UNCHANGED twist
  /\ UNCHANGED <<world, signalVars, request, connectVars, deadline, wake,
                 sendError, stopError, sent, late>>

(* TwistPublisher::new, and the start of wait_for_a_subscriber. *)
Register ==
  /\ pc = "register"
  /\ \/ /\ pc' = "look"
        /\ attempt' = attempt + 1
        /\ publishers' = publishers + 1
        /\ deadline' = now + WaitTime
        /\ UNCHANGED result
     \/ /\ "register" \in Faults
        /\ pc' = "done"
        /\ result' = "error"
        /\ UNCHANGED <<attempt, publishers, deadline>>
  /\ UNCHANGED <<world, signalVars, requestVars, subscribed, wake, sendError, stopError, sent, late>>

(* One round of wait_for_a_subscriber. *)
LookWhile(waiting) ==
  /\ pc = "look"
  /\ pc' = IF subscribed THEN "connected" ELSE IF waiting THEN "doze" ELSE "unheard"
  /\ wake' = IF pc' = "doze" THEN now + WaitPoll ELSE wake
  /\ UNCHANGED <<world, signalVars, requestVars, connectVars, deadline, outVars>>

(* Mutation: only a subscriber ends the wait. *)
LookOn == LookWhile(TRUE)

Look == LookWhile(rosOk /\ now < deadline)

Doze ==
  /\ pc = "doze"
  /\ now >= wake
  /\ pc' = "look"
  /\ UNCHANGED <<world, signalVars, requestVars, connectVars, deadline, wake, outVars>>

(* Nobody subscribed, and n publishers are left for the next attempt. *)
RetryWith(n) ==
  /\ pc = "unheard"
  /\ publishers' = n
  /\ subscribed' = FALSE
  /\ IF attempt < Attempts
       THEN pc' = "pause" /\ wake' = now + RetryPause /\ UNCHANGED result
       ELSE pc' = "done" /\ result' = "error" /\ UNCHANGED wake
  /\ UNCHANGED <<world, signalVars, requestVars, attempt, deadline, sendError, stopError, sent, late>>

(* Mutation: the publisher lives on while the next one is registered. *)
RetryKeeping == RetryWith(publishers)

Retry == RetryWith(publishers - 1)

Pause ==
  /\ pc = "pause"
  /\ now >= wake
  /\ pc' = "register"
  /\ UNCHANGED <<world, signalVars, requestVars, connectVars, deadline, wake, outVars>>

-----------------------------------------------------------------------------
(* send_velocity: the motion. *)

StartMotion ==
  /\ pc = "connected"
  /\ pc' = "check"
  /\ deadline' = now + request.duration.n
  /\ UNCHANGED <<world, signalVars, requestVars, connectVars, wake, outVars>>

MoveWhile(moving) ==
  /\ pc = "check"
  /\ pc' = IF moving THEN "send" ELSE "stop"
  /\ UNCHANGED <<world, signalVars, requestVars, connectVars, deadline, wake, outVars>>

(* Mutation: only the deadline ends the motion. *)
CheckDeadline == MoveWhile(now < deadline)

Check == MoveWhile(running /\ now < deadline)

(* The twist is sent, or the error is kept and the motion is over. *)
SendOr(failed) ==
  /\ pc = "send"
  /\ \/ /\ pc' = "wait"
        /\ sent' = "motion"
        /\ late' = IF running THEN late ELSE Lesser(late + 1, 2)
        /\ UNCHANGED sendError
     \/ /\ "send" \in Faults
        /\ pc' = failed
        /\ sendError' = TRUE
        /\ UNCHANGED <<sent, late>>
  /\ UNCHANGED <<world, signalVars, requestVars, connectVars, deadline, wake, stopError, result>>

(* Mutation: the error ends send_velocity. *)
SendReturns == SendOr("done")

Send == SendOr("stop")

ParkFor(wait) ==
  /\ pc = "wait"
  /\ IF now < deadline
       THEN pc' = "park" /\ wake' = now + wait
       ELSE pc' = "stop" /\ UNCHANGED wake
  /\ UNCHANGED <<world, signalVars, requestVars, connectVars, deadline, outVars>>

Period == Second \div request.rate.n

(* Mutation: the wait is a whole period. *)
NextWaitWhole == ParkFor(Period)

(* next_motion_wait: a period, cut short by the deadline. *)
NextWait == ParkFor(Lesser(Period, deadline - now))

(* park_timeout returns, and takes the token. *)
Park ==
  /\ pc = "park"
  /\ token \/ now >= wake \/ "spurious" \in Faults
  /\ token' = FALSE
  /\ pc' = "check"
  /\ UNCHANGED <<world, running, handler, interrupted, requestVars, connectVars, deadline,
                 wake, outVars>>

SendStop ==
  /\ pc = "stop"
  /\ pc' = "flush"
  /\ wake' = now + FlushTime
  /\ \/ sent' = "zero" /\ UNCHANGED stopError
     \/ "send" \in Faults /\ stopError' = TRUE /\ UNCHANGED sent
  /\ UNCHANGED <<world, signalVars, requestVars, connectVars, deadline, sendError, result, late>>

(* The flush is over; the publisher is dropped on return. *)
Finish ==
  /\ pc = "flush"
  /\ now >= wake
  /\ pc' = "done"
  /\ publishers' = publishers - 1
  /\ result' = IF sendError \/ stopError THEN "error" ELSE "ok"
  /\ UNCHANGED <<world, signalVars, requestVars, attempt, subscribed, deadline, wake,
                 sendError, stopError, sent, late>>

(* The steps after ros1::init. *)
SendVelocity ==
  \/ Register \/ Look \/ Doze \/ Retry \/ Pause \/ StartMotion
  \/ Check \/ Send \/ NextWait \/ Park \/ SendStop \/ Finish

Main == Validate \/ SendVelocity

-----------------------------------------------------------------------------
(* The Ctrl-C handler, the motor controller and the clock. *)

(* Ctrl-C, once ROS is initialised and the handler installed. *)
Interrupt ==
  /\ handler = "idle"
  /\ pc \notin {"validate", "done"}
  /\ handler' = "cleared"
  /\ running' = FALSE
  /\ interrupted' = [at |-> now, pc |-> pc]
  /\ UNCHANGED <<world, token, pc, requestVars, connectVars, deadline, wake, outVars>>

HandlerEnds(t) ==
  /\ handler = "cleared"
  /\ handler' = "done"
  /\ token' = t
  /\ UNCHANGED <<world, running, interrupted, pc, requestVars, connectVars, deadline, wake, outVars>>

(* Mutation: the main thread is left to its sleep. *)
UnparkNobody == HandlerEnds(token)

Unpark == HandlerEnds(TRUE)

(* The motor controller connects to a registered publisher, or goes away. *)
Subscribe ==
  /\ publishers > 0
  /\ subscribed' = ~subscribed
  /\ UNCHANGED <<world, signalVars, pc, requestVars, attempt, publishers, deadline, wake, outVars>>

RosLost ==
  /\ "ros" \in Faults
  /\ rosOk
  /\ pc # "done"
  /\ rosOk' = FALSE
  /\ UNCHANGED <<now, signalVars, pc, requestVars, connectVars, deadline, wake, outVars>>

Asleep ==
  /\ pc \in {"doze", "pause", "park", "flush"}
  /\ now < wake
  /\ ~(pc = "park" /\ token)

Tick ==
  /\ pc # "done"
  /\ now < MaxTime
  /\ Punctual => Asleep /\ handler # "cleared"
  /\ now' = now + 1
  /\ UNCHANGED <<rosOk, signalVars, pc, requestVars, connectVars, deadline, wake, outVars>>

Next == Main \/ Interrupt \/ Unpark \/ Subscribe \/ RosLost \/ Tick

Spec == Init /\ [][Next]_vars

-----------------------------------------------------------------------------
(* Properties. *)

MovePlaces == {"validate", "register", "look", "doze", "unheard", "pause", "connected",
               "check", "send", "wait", "park", "stop", "flush", "done"}

FlagsOK ==
  /\ rosOk \in BOOLEAN
  /\ running \in BOOLEAN
  /\ token \in BOOLEAN
  /\ subscribed \in BOOLEAN
  /\ sendError \in BOOLEAN
  /\ stopError \in BOOLEAN

ValuesOK ==
  /\ now \in 0..MaxTime
  /\ handler \in {"idle", "cleared", "done"}
  /\ pc \in MovePlaces
  /\ request \in Requests
  /\ twist \in ScoutTwist
  /\ attempt \in 0..Attempts
  /\ publishers \in 0..1
  /\ deadline \in Nat
  /\ wake \in Nat
  /\ result \in {"none", "refused", "error", "ok"}
  /\ sent \in {"nothing", "motion", "zero"}
  /\ late \in 0..2
  /\ interrupted \in [at : 0..MaxTime, pc : MovePlaces \cup {"never"}]

TypeOK == FlagsOK /\ ValuesOK

(* A command that has moved the robot ends with a zero twist, unless that  *)
(* send failed, and then it does not report success.                       *)
EndsWithZero ==
  pc = "done" /\ sent # "nothing" =>
    /\ sent = "zero" \/ stopError
    /\ result = "ok" <=> ~sendError /\ ~stopError

(* The motion that was sent is the one that was asked for: it has its      *)
(* direction on every axis and its speed where the limits allow that, and  *)
(* it is a motion.  Nothing else is ever sent, whatever the numbers given. *)
MovesAsAsked ==
  sent = "motion" =>
    /\ \E axis \in Axes : Applied(twist)[axis] # 0
    /\ \A axis \in Axes :
         LET asked == request.velocity[axis]
             done == Applied(twist)[axis]
             limit == Limits[axis].n
         IN  /\ asked.finite
             /\ done = asked.n \/ (asked.n > limit /\ done = limit)
                                \/ (asked.n < -limit /\ done = -limit)
             /\ done \in -limit..limit

(* What moves the robot is the motion asked for, and zero comes last.      *)
MotionSafe == EndsWithZero /\ MovesAsAsked

(* The motion is over at its deadline, whatever the period.                *)
MotionEndsOnTime == sent = "motion" /\ pc # "done" /\ ~stopError => now <= deadline

(* After Ctrl-C at most the one twist is sent that the loop had already    *)
(* decided on; if the motor controller was still being waited for, none.   *)
BeforeMotion == {"register", "look", "doze", "unheard", "pause", "connected"}

InterruptHolds ==
  /\ late <= 1
  /\ interrupted.pc \in BeforeMotion => sent # "motion"

(* A motion that is interrupted ends at once, not at the end of a period.  *)
InterruptIsPrompt ==
  sent = "motion" /\ ~running /\ ~stopError => now = interrupted.at

(* The motion stops in time: at its deadline or at Ctrl-C, at once and for *)
(* good, wherever in the wait or in the motion that comes.                 *)
MotionStopsInTime == MotionEndsOnTime /\ InterruptHolds /\ InterruptIsPrompt
=============================================================================
