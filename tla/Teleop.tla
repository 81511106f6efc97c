------------------------------- MODULE Teleop -------------------------------
(***************************************************************************)
(* The keyboard session of `moorebot-scout teleop` (src/src/main.rs):      *)
(* TeleopControl turns key events into held directions with deadlines, and *)
(* run_teleop_session polls the terminal, handles at most one event per    *)
(* round and publishes a twist whenever next_publish is due.               *)
(*                                                                         *)
(* A motion key is an axis and a direction.  KeyHold sets `pressed` and    *)
(* `deadline` together, so a hold is its deadline, or NotHeld.  Deadlines  *)
(* are instants of a counter that Tick advances.  With Punctual the loop's *)
(* own steps take no time and only waiting does, which is what bounds on   *)
(* its reaction need; without it time may pass between any two steps.      *)
(***************************************************************************)
EXTENDS Integers, Sequences

CONSTANTS
  Axes,             \* forward, strafe, turn
  Terminals,        \* the values reliable_key_release may have
  RepeatGrace,      \* TELEOP_INITIAL_REPEAT_GRACE, in ticks
  RepeatDeadman,    \* TELEOP_REPEAT_DEADMAN
  ReleaseDeadman,   \* TELEOP_KEY_RELEASE_DEADMAN
  UnitScale,        \* speed_scale 1.0, in units of the model
  ScaleStep,        \* SPEED_SCALE_STEP
  MinScale,         \* MIN_SPEED_SCALE
  MaxScale,         \* maximum_speed_scale
  Period,           \* the publish period at each scale, in ticks
  Commands,         \* the other keys that are pressed
  Faults,           \* "send", "input", "save", "ros": calls that may fail;
                    \* "lost": key-up events that never arrive
  Punctual,         \* the loop's own steps take no time
  MaxEvents,        \* bound: events from the keyboard
  MaxTime           \* bound: the clock stops here

Scales == MinScale..MaxScale
Keys == Axes \X {1, -1}
MotionEvents == [type : {"press", "repeat", "release"}, key : Keys]
OtherEvents == [type : {"capture", "faster", "slower", "exit", "other"}]
Zero == [a \in Axes |-> 0]
Twists == [Axes -> -MaxScale..MaxScale]
NotHeld == -1

ASSUME TeleopAssumption ==
  /\ Terminals \subseteq BOOLEAN
  /\ Punctual \in BOOLEAN
  /\ RepeatGrace \in Nat \ {0}
  /\ RepeatDeadman \in Nat \ {0}
  /\ ReleaseDeadman \in Nat \ {0}
  /\ RepeatDeadman <= RepeatGrace
  /\ MinScale \in Nat \ {0}
  /\ MaxScale \in Nat
  /\ UnitScale \in Nat
  /\ ScaleStep \in Nat \ {0}
  /\ MinScale <= UnitScale
  /\ MinScale <= MaxScale
  /\ Period \in [Scales -> Nat \ {0}]
  /\ Commands \subseteq {"capture", "faster", "slower", "exit", "other"}
  /\ Faults \subseteq {"send", "input", "save", "ros", "lost"}
  /\ MaxEvents \in Nat
  /\ MaxTime \in Nat

VARIABLES
  now,          \* Instant::now()
  running,      \* the AtomicBool the Ctrl-C handler clears
  rosOk,        \* rosrust::is_ok()
  reliable,     \* reliable_key_release: the terminal reports key-up
  held,         \* TeleopControl: each key's deadline, or NotHeld
  scale,        \* speed_scale
  nextPublish,  \* next_publish
  pc,           \* the loop's place
  period,       \* the period computed at the start of this round
  pollEnd,      \* when poll gives up
  sample,       \* the instant the publication was found due
  picked,       \* the twist it is about to send
  sent,         \* the twist handed to the ROS publisher last
  stopFailed,   \* the session's last send failed
  queue,        \* events the terminal holds
  events,       \* bound: events from the keyboard so far
  down,         \* the motion keys that are physically down
  releasedAt,   \* history: when each key's release was handled last
  refreshedAt,  \* history: when each key was given its deadline last
  until         \* history: the deadline each key was given since the last
                \* capture

world == <<running, rosOk, reliable>>
controlVars == <<held, scale, nextPublish>>
loopVars == <<period, pollEnd, sample, picked>>
outVars == <<sent, stopFailed>>
keyboard == <<queue, events, down>>
history == <<releasedAt, refreshedAt, until>>

vars == <<now, running, rosOk, reliable, held, scale, nextPublish, pc, period, pollEnd,
          sample, picked, sent, stopFailed, queue, events, down,
          releasedAt, refreshedAt, until>>

Lesser(a, b) == IF a <= b THEN a ELSE b
Greater(a, b) == IF a >= b THEN a ELSE b
InitialScale == Lesser(UnitScale, MaxScale)

Init ==
  /\ now = 0
  /\ running = TRUE
  /\ rosOk = TRUE
  /\ reliable \in Terminals
  /\ held = [k \in Keys |-> NotHeld]
  /\ scale = InitialScale
  /\ nextPublish = 0
  /\ pc = "first"
  /\ period = Period[InitialScale]
  /\ pollEnd = 0
  /\ sample = 0
  /\ picked = Zero
  /\ sent = Zero
  /\ stopFailed = FALSE
  /\ queue = <<>>
  /\ events = 0
  /\ down = {}
  /\ releasedAt = [k \in Keys |-> 0]
  /\ refreshedAt = [k \in Keys |-> 0]
  /\ until = [k \in Keys |-> NotHeld]

-----------------------------------------------------------------------------
(* TeleopControl. *)

(* Mutation: a deadline that has been reached still counts. *)
ActiveInclusive(k) == held[k] >= now

Active(k) == held[k] > now

Sign(k) == IF Active(k) THEN 1 ELSE 0

(* TeleopControl::velocity: opposite keys cancel, and every axis is scaled. *)
Velocity == [a \in Axes |-> (Sign(<<a, 1>>) - Sign(<<a, -1>>)) * scale]

(* A press while the key is active is a repeat: terminals without key-up   *)
(* reports send repeats as presses.                                        *)
IsRepeat(e) == e.type = "repeat" \/ Active(e.key)

(* Mutation: a repeat extends the deadline the key has. *)
DeadlineExtended(e) ==
  Greater(now, held[e.key]) +
    (IF reliable THEN ReleaseDeadman ELSE IF IsRepeat(e) THEN RepeatDeadman ELSE RepeatGrace)

(* The deadline TeleopControl::refresh gives a key. *)
Deadline(e) ==
  now + (IF reliable THEN ReleaseDeadman
         ELSE IF IsRepeat(e) THEN RepeatDeadman ELSE RepeatGrace)

(* Mutation: the scale is not clamped from above. *)
AdjustedScaleFree(e) ==
  Greater(MinScale, IF e.type = "faster" THEN scale + ScaleStep ELSE scale - ScaleStep)

AdjustedScale(e) ==
  Greater(MinScale, Lesser(MaxScale,
    IF e.type = "faster" THEN scale + ScaleStep ELSE scale - ScaleStep))

-----------------------------------------------------------------------------
(* run_teleop_session. *)

(* The zero twist sent before the loop. *)
SendFirst ==
  /\ pc = "first"
  /\ \/ pc' = "check" /\ sent' = Zero
     \/ "send" \in Faults /\ pc' = "leaving" /\ UNCHANGED sent
  /\ UNCHANGED <<now, world, controlVars, loopVars, stopFailed, keyboard, history>>

(* The start of a round: leave, or compute how long poll may wait. *)
RoundWhile(going, end) ==
  /\ pc = "check"
  /\ IF going
       THEN pc' = "poll" /\ period' = Period[scale] /\ pollEnd' = end
       ELSE pc' = "leaving" /\ UNCHANGED <<period, pollEnd>>
  /\ UNCHANGED <<now, world, controlVars, sample, picked, outVars, keyboard, history>>

UntilDue == now + Lesser(Greater(nextPublish - now, 0), Period[scale])

(* Mutation: every poll waits a whole period. *)
StartRoundAnew == RoundWhile(running /\ rosOk, now + Period[scale])

(* Mutation: only Ctrl-C ends the loop. *)
StartRoundDeaf == RoundWhile(running, UntilDue)

StartRound == RoundWhile(running /\ rosOk, UntilDue)

PollTimeout ==
  /\ pc = "poll"
  /\ queue = <<>>
  /\ now >= pollEnd
  /\ pc' = "due"
  /\ UNCHANGED <<now, world, controlVars, loopVars, outVars, keyboard, history>>

(* poll, read or a write to the terminal fails. *)
InputFailsTo(place) ==
  /\ pc = "poll"
  /\ "input" \in Faults
  /\ pc' = place
  /\ UNCHANGED <<now, world, controlVars, loopVars, outVars, keyboard, history>>

(* Mutation: the error skips the last stop. *)
InputFailsOut == InputFailsTo("exited")

InputFails == InputFailsTo("leaving")

(* The branches of handle_key, and what the loop does with its result. *)
PressMotionKey(e) ==
  /\ e.type \in {"press", "repeat"}
  /\ held' = [held EXCEPT ![e.key] = Deadline(e)]
  /\ refreshedAt' = [refreshedAt EXCEPT ![e.key] = now]
  /\ until' = [until EXCEPT ![e.key] = Deadline(e)]
  /\ pc' = "due"
  /\ UNCHANGED <<scale, nextPublish, releasedAt>>

ReleaseMotionKey(e) ==
  /\ e.type = "release"
  /\ held' = [held EXCEPT ![e.key] = NotHeld]
  /\ releasedAt' = [releasedAt EXCEPT ![e.key] = now]
  /\ pc' = "due"
  /\ UNCHANGED <<scale, nextPublish, refreshedAt, until>>

CaptureLeaving(e, keys) ==
  /\ e.type = "capture"
  /\ held' = keys
  /\ until' = [k \in Keys |-> NotHeld]
  /\ pc' = "stop"
  /\ UNCHANGED <<scale, nextPublish, releasedAt, refreshedAt>>

(* Mutation: the keys stay held while the picture is saved. *)
CaptureHolding(e) == CaptureLeaving(e, held)

Capture(e) == CaptureLeaving(e, [k \in Keys |-> NotHeld])

ChangeSpeed(e) ==
  /\ e.type \in {"faster", "slower"}
  /\ scale' = AdjustedScale(e)
  /\ nextPublish' = now
  /\ pc' = "due"
  /\ UNCHANGED <<held, history>>

Exit(e) ==
  /\ e.type = "exit"
  /\ pc' = "leaving"
  /\ UNCHANGED <<controlVars, history>>

Ignore(e) ==
  /\ e.type = "other"
  /\ pc' = "due"
  /\ UNCHANGED <<controlVars, history>>

HandleKey ==
  /\ pc = "poll"
  /\ queue # <<>>
  /\ queue' = Tail(queue)
  /\ LET e == Head(queue)
     IN \/ PressMotionKey(e) \/ ReleaseMotionKey(e) \/ Capture(e)
        \/ ChangeSpeed(e) \/ Exit(e) \/ Ignore(e)
  /\ UNCHANGED <<now, world, loopVars, outVars, events, down>>

(* Mutation: the picture is saved before the robot is stopped. *)
StopLater ==
  /\ pc = "stop"
  /\ pc' = "saving"
  /\ UNCHANGED <<now, world, controlVars, loopVars, outVars, keyboard, history>>

(* The robot is stopped before the disk is touched. *)
StopForCapture ==
  /\ pc = "stop"
  /\ \/ pc' = "saving" /\ sent' = Zero
     \/ "send" \in Faults /\ pc' = "leaving" /\ UNCHANGED sent
  /\ UNCHANGED <<now, world, controlVars, loopVars, stopFailed, keyboard, history>>

(* save_latest_picture returns, after however long. *)
SavePicture ==
  /\ pc = "saving"
  /\ \/ pc' = "due" /\ nextPublish' = now + period
     \/ "save" \in Faults /\ pc' = "leaving" /\ UNCHANGED nextPublish
  /\ UNCHANGED <<now, world, held, scale, loopVars, outVars, keyboard, history>>

(* The end of a round: is a publication due? *)
WhenDue ==
  /\ pc = "due"
  /\ IF now >= nextPublish
       THEN /\ pc' = "send"
            /\ sample' = now
            /\ picked' = Velocity
            /\ held' = [k \in Keys |-> IF Active(k) THEN held[k] ELSE NotHeld]
       ELSE pc' = "check" /\ UNCHANGED <<sample, picked, held>>
  /\ UNCHANGED <<now, world, scale, nextPublish, period, pollEnd, outVars,
                 keyboard, history>>

Publish ==
  /\ pc = "send"
  /\ \/ /\ pc' = "check"
        /\ sent' = picked
        /\ nextPublish' = sample + Period[scale]
     \/ "send" \in Faults /\ pc' = "leaving" /\ UNCHANGED <<sent, nextPublish>>
  /\ UNCHANGED <<now, world, held, scale, loopVars, stopFailed, keyboard, history>>

(* The last zero, sent whatever ended the session. *)
SendLast ==
  /\ pc = "leaving"
  /\ pc' = "exited"
  /\ \/ sent' = Zero /\ UNCHANGED stopFailed
     \/ "send" \in Faults /\ stopFailed' = TRUE /\ UNCHANGED sent
  /\ UNCHANGED <<now, world, controlVars, loopVars, keyboard, history>>

Loop ==
  \/ SendFirst \/ StartRound \/ PollTimeout \/ HandleKey
  \/ StopForCapture \/ SavePicture \/ WhenDue \/ Publish \/ SendLast

-----------------------------------------------------------------------------
(* The keyboard, the terminal and the world. *)

Emit(e) == queue' = Append(queue, e)

Typing == events < MaxEvents /\ pc # "exited" /\ events' = events + 1

KeyDown(k) ==
  /\ Typing
  /\ k \notin down
  /\ down' = down \cup {k}
  /\ Emit([type |-> "press", key |-> k])

(* Terminals without key-up reports send repeats as presses. *)
KeyRepeats(k) ==
  /\ Typing
  /\ k \in down
  /\ Emit([type |-> IF reliable THEN "repeat" ELSE "press", key |-> k])
  /\ UNCHANGED down

(* A key-up event is not reported, or gets lost with the focus. *)
KeyUp(k) ==
  /\ Typing
  /\ k \in down
  /\ down' = down \ {k}
  /\ \/ reliable /\ Emit([type |-> "release", key |-> k])
     \/ ~reliable /\ UNCHANGED queue
     \/ "lost" \in Faults /\ UNCHANGED queue

OtherKey ==
  /\ Typing
  /\ \E t \in Commands : Emit([type |-> t])
  /\ UNCHANGED down

Keyboard ==
  /\ \/ \E k \in Keys : KeyDown(k) \/ KeyRepeats(k) \/ KeyUp(k)
     \/ OtherKey
  /\ UNCHANGED <<now, world, pc, controlVars, loopVars, outVars, history>>

(* The Ctrl-C handler. *)
Signal ==
  /\ running
  /\ pc # "exited"
  /\ running' = FALSE
  /\ UNCHANGED <<now, rosOk, reliable, pc, controlVars, loopVars, outVars, keyboard, history>>

RosLost ==
  /\ "ros" \in Faults
  /\ rosOk
  /\ pc # "exited"
  /\ rosOk' = FALSE
  /\ UNCHANGED <<now, running, reliable, pc, controlVars, loopVars, outVars, keyboard, history>>

Waiting == pc = "poll" /\ queue = <<>> /\ now < pollEnd

(* Time passes; beyond the bound only until a last wait is over. *)
Tick ==
  /\ pc # "exited"
  /\ Punctual => Waiting \/ pc = "saving"
  /\ \/ now < MaxTime
     \/ Waiting /\ ~(running /\ rosOk) /\ now < MaxTime + Period[MinScale]
  /\ now' = now + 1
  /\ UNCHANGED <<world, pc, controlVars, loopVars, outVars, keyboard, history>>

(* The end of the session, or of the modelled time. *)
Done ==
  /\ pc = "exited" \/ now >= MaxTime
  /\ UNCHANGED vars

Next == Loop \/ InputFails \/ Keyboard \/ Signal \/ RosLost \/ Tick \/ Done

Spec == Init /\ [][Next]_vars

(* The thread is scheduled, poll times out, a write to the disk ends;      *)
(* nothing makes a call fail.                                              *)
FairSpec == Spec /\ WF_vars(Loop) /\ WF_vars(Tick)

-----------------------------------------------------------------------------
(* Properties. *)

TypeOK ==
  /\ now \in Nat
  /\ running \in BOOLEAN
  /\ rosOk \in BOOLEAN
  /\ reliable \in Terminals
  /\ held \in [Keys -> Nat \cup {NotHeld}]
  /\ scale \in Scales
  /\ nextPublish \in Nat
  /\ pc \in {"first", "check", "poll", "stop", "saving", "due", "send", "leaving", "exited"}
  /\ period \in Nat
  /\ pollEnd \in Nat
  /\ sample \in Nat
  /\ picked \in Twists
  /\ sent \in Twists
  /\ stopFailed \in BOOLEAN
  /\ queue \in Seq(MotionEvents \cup OtherEvents)
  /\ events \in Nat
  /\ down \subseteq Keys
  /\ releasedAt \in [Keys -> Nat]
  /\ refreshedAt \in [Keys -> Nat]
  /\ until \in [Keys -> Nat \cup {NotHeld}]

(* The robot moves in the direction of key k. *)
Moves(twist, k) == twist[k[1]] * k[2] > 0

(* While a picture is saved, however long the disk takes, the robot has    *)
(* been told to stop.                                                      *)
StoppedWhileSaving == pc = "saving" => sent = Zero

(* After a capture a direction is published again only if an event for its *)
(* key was handled since: nothing held before resumes by itself.           *)
CaptureForgetsKeys ==
  \A k \in Keys :
    /\ pc \in {"check", "poll", "due", "send"} /\ Moves(sent, k) => until[k] # NotHeld
    /\ pc = "send" /\ Moves(picked, k) => until[k] # NotHeld

(* A capture stops the robot, and it stays stopped by itself.              *)
CaptureStops == StoppedWhileSaving /\ CaptureForgetsKeys

(* A session that has ended, for whatever reason, has told the robot to    *)
(* stop last, unless that send failed.                                     *)
EndsWithZero == pc = "exited" => sent = Zero \/ stopFailed

(* Where key-up events are reported and none is lost, the robot moves      *)
(* along a key for at most one publish period after the key's release has  *)
(* been read, whatever other keys are pressed meanwhile.                   *)
ReleaseQueued(k) == \E i \in 1..Len(queue) : queue[i] = [type |-> "release", key |-> k]

KeyUpStops ==
  \A k \in Keys :
    reliable /\ pc = "poll" /\ Moves(sent, k)
      => k \in down \/ ReleaseQueued(k) \/ now <= releasedAt[k] + Period[scale]

(* Whatever events are lost, the robot moves along a key for less than one *)
(* publish period after the deadline the key was given last, and, counted  *)
(* from the key's last press or repeat, after the longest deadman: presses *)
(* taken for first ones do not add up.                                     *)
LongestDeadman == IF reliable THEN ReleaseDeadman ELSE RepeatGrace

DeadmanStops ==
  \A k \in Keys :
    pc = "poll" /\ Moves(sent, k)
      => /\ now < until[k] + Period[scale]
         /\ now < refreshedAt[k] + LongestDeadman + Period[scale]

(* docs/getting-started.md:493-495 of terminals without key-up reports:    *)
(* they "allow up to 1.1 seconds for the first repeat and stop a direction *)
(* within 350 milliseconds when repeats cease".                            *)
StopsWithinDeadman ==
  \A k \in Keys :
    pc = "poll" /\ Moves(sent, k) => now <= until[k]

(* Ctrl-C, or a lost ROS node, ends the session. *)
SignalEndsSession == ~running \/ ~rosOk ~> pc = "exited"
=============================================================================
