---------------------------- MODULE TeleopProofs ----------------------------
(***************************************************************************)
(* Theorems about Teleop for every set of axes, deadlines, speeds, periods *)
(* and any number of key events: a session ends with zero, a capture stops *)
(* the robot, and, if the loop's own steps take no time, the robot stops   *)
(* in time after a key's release or its last deadline.                     *)
(***************************************************************************)
EXTENDS Teleop, SequenceTheorems, TLAPS

-----------------------------------------------------------------------------
(* The inductive invariant. *)

(* A round, from its start to the publication that ends it. *)
Round == {"check", "poll", "due", "send"}

(* A key that is held has the deadline it was given last, and only keys    *)
(* whose deadline was ahead when the publication fell due are in it.       *)
HeldIsUntil ==
  \A k \in Keys :
    /\ held[k] # NotHeld => until[k] = held[k]
    /\ pc = "send" /\ Moves(picked, k) => held[k] # NotHeld /\ held[k] > sample

(* A deadline is not further ahead of the press or repeat it was given for *)
(* than the longest deadman.                                               *)
DeadlinesBounded ==
  \A k \in Keys : until[k] <= refreshedAt[k] + LongestDeadman

(* The direction that was published last has had a deadline since the last *)
(* capture.                                                                *)
SentWasHeld ==
  \A k \in Keys : pc \in Round /\ Moves(sent, k) => until[k] # NotHeld

(* With Punctual: no publication is late, and none is further away than    *)
(* one period.                                                             *)
OnTime ==
  Punctual =>
    /\ nextPublish <= now + Period[scale]
    /\ pc = "first" => now = 0 /\ nextPublish = 0
    /\ pc \in {"poll", "stop", "saving"} => period = Period[scale]
    /\ pc \in {"check", "poll"} => now <= nextPublish
    /\ pc = "poll" => pollEnd = nextPublish
    /\ pc = "send" => sample = now

(* The next publication is not further away than the end of what a key may *)
(* still cause.                                                            *)
NextBefore(end) == nextPublish <= end \/ (pc = "due" /\ now >= nextPublish)

DeadlineNear ==
  Punctual =>
    \A k \in Keys :
      pc \in {"check", "poll", "due"} /\ Moves(sent, k)
        => NextBefore(until[k] + Period[scale] - 1)

(* Where key-up is reported and never lost: a key that is up has its       *)
(* release behind its last press, and is not held once that is handled.    *)
QueuedAfter(i, k) ==
  \E j \in 1..Len(queue) : j > i /\ queue[j] = [type |-> "release", key |-> k]

Pressed(e, k) == e.type \in {"press", "repeat"} /\ e.key = k

ReleasesReported ==
  reliable /\ "lost" \notin Faults =>
    /\ \A k \in Keys : held[k] # NotHeld => k \in down \/ ReleaseQueued(k)
    /\ \A i \in 1..Len(queue) : \A k \in Keys :
         Pressed(queue[i], k) => k \in down \/ QueuedAfter(i, k)

ReleaseNear ==
  Punctual /\ reliable /\ "lost" \notin Faults =>
    \A k \in Keys :
      pc \in {"check", "poll", "due"} /\ Moves(sent, k)
        => \/ k \in down \/ ReleaseQueued(k)
           \/ NextBefore(releasedAt[k] + Period[scale])

IInv ==
  /\ TypeOK
  /\ EndsWithZero
  /\ StoppedWhileSaving
  /\ HeldIsUntil
  /\ DeadlinesBounded
  /\ SentWasHeld
  /\ OnTime
  /\ DeadlineNear
  /\ ReleasesReported
  /\ ReleaseNear

-----------------------------------------------------------------------------
(* The operators. *)

(* No direction is in the zero twist. *)
LEMMA ZeroIsStill == \A k \in Keys : ~Moves(Zero, k)
BY DEF Moves, Zero, Keys

(* A scale and the signs of six keys make a twist, and it moves the robot  *)
(* only along keys that are active.                                        *)
LEMMA VelocityIsActive ==
  ASSUME scale \in Scales
  PROVE  /\ Velocity \in Twists
         /\ \A k \in Keys : Moves(Velocity, k) => Active(k)
<1>1. /\ scale \in Nat \ {0} /\ scale <= MaxScale /\ MaxScale \in Nat
  BY TeleopAssumption DEF Scales
<1>2. ASSUME NEW a \in Axes
      PROVE  \/ Velocity[a] = scale /\ Active(<<a, 1>>)
             \/ Velocity[a] = -scale /\ Active(<<a, -1>>)
             \/ Velocity[a] = 0
  <2>1. Velocity[a] = (Sign(<<a, 1>>) - Sign(<<a, -1>>)) * scale
    BY DEF Velocity
  <2>2. (Sign(<<a, 1>>) = 1 /\ Active(<<a, 1>>)) \/ Sign(<<a, 1>>) = 0
    BY DEF Sign
  <2>3. (Sign(<<a, -1>>) = 1 /\ Active(<<a, -1>>)) \/ Sign(<<a, -1>>) = 0
    BY DEF Sign
  <2>4. (1 - 0) * scale = scale /\ (0 - 1) * scale = -scale
    BY <1>1
  <2>5. (1 - 1) * scale = 0 /\ (0 - 0) * scale = 0
    BY <1>1
  <2> QED BY <2>1, <2>2, <2>3, <2>4, <2>5
<1>3. \A a \in Axes : Velocity[a] \in -MaxScale..MaxScale
  <2> SUFFICES ASSUME NEW a \in Axes PROVE Velocity[a] \in -MaxScale..MaxScale
    OBVIOUS
  <2>1. Velocity[a] = scale \/ Velocity[a] = -scale \/ Velocity[a] = 0
    BY <1>2
  <2> QED BY <1>1, <2>1
<1>4. Velocity \in Twists
  BY <1>3 DEF Velocity, Twists
<1>5. ASSUME NEW k \in Keys, Moves(Velocity, k)
      PROVE  Active(k)
  <2>1. PICK a \in Axes, d \in {1, -1} : k = <<a, d>>
    BY DEF Keys
  <2>2. Velocity[a] * d > 0
    BY <1>5, <2>1 DEF Moves
  <2>3. CASE d = 1
    <3>1. Velocity[a] > 0
      BY <1>1, <1>3, <2>2, <2>3
    <3>2. Velocity[a] # -scale /\ Velocity[a] # 0
      BY <1>1, <3>1
    <3>3. Active(<<a, 1>>)
      BY <1>2, <3>2
    <3> QED BY <2>1, <2>3, <3>3
  <2>4. CASE d = -1
    <3>1. Velocity[a] < 0
      BY <1>1, <1>3, <2>2, <2>4
    <3>2. Velocity[a] # scale /\ Velocity[a] # 0
      BY <1>1, <3>1
    <3>3. Active(<<a, -1>>)
      BY <1>2, <3>2
    <3> QED BY <2>1, <2>4, <3>3
  <2> QED BY <2>3, <2>4
<1> QED BY <1>4, <1>5

(* A deadline lies ahead, and a speed stays between its limits. *)
LEMMA DeadlineAhead ==
  ASSUME NEW e, now \in Nat
  PROVE  Deadline(e) \in Nat /\ Deadline(e) > now
<1>1. /\ ReleaseDeadman \in Nat \ {0}
      /\ RepeatDeadman \in Nat \ {0}
      /\ RepeatGrace \in Nat \ {0}
  BY TeleopAssumption
<1> QED BY <1>1 DEF Deadline

LEMMA DeadlineBound ==
  ASSUME NEW e, now \in Nat
  PROVE  Deadline(e) <= now + LongestDeadman
<1>1. /\ ReleaseDeadman \in Nat /\ RepeatDeadman \in Nat /\ RepeatGrace \in Nat
      /\ RepeatDeadman <= RepeatGrace
  BY TeleopAssumption
<1> QED BY <1>1 DEF Deadline, LongestDeadman

LEMMA SpeedInLimits ==
  ASSUME NEW e, scale \in Scales
  PROVE  AdjustedScale(e) \in Scales
<1>1. /\ MinScale \in Nat \ {0} /\ MaxScale \in Nat /\ MinScale <= MaxScale
      /\ ScaleStep \in Nat
  BY TeleopAssumption
<1> QED BY <1>1 DEF AdjustedScale, Scales, Greater, Lesser

LEMMA PeriodPositive == \A s \in Scales : Period[s] \in Nat \ {0}
BY TeleopAssumption

(* An event about a motion key is about one of the keys. *)
LEMMA MotionKey ==
  ASSUME NEW e \in MotionEvents \cup OtherEvents, e.type \in {"press", "repeat", "release"}
  PROVE  e.key \in Keys /\ e = [type |-> e.type, key |-> e.key]
BY DEF MotionEvents, OtherEvents

(* Taking the first event, and adding one at the end. *)
LEMMA QueueHead ==
  ASSUME TypeOK, queue # <<>>, queue' = Tail(queue)
  PROVE  /\ Head(queue) = queue[1]
         /\ Head(queue) \in MotionEvents \cup OtherEvents
         /\ queue' \in Seq(MotionEvents \cup OtherEvents)
         /\ Len(queue) \in Nat /\ Len(queue') = Len(queue) - 1
         /\ \A i \in 1..Len(queue') : queue'[i] = queue[i + 1]
<1>1. queue \in Seq(MotionEvents \cup OtherEvents)
  BY DEF TypeOK
<1>2. Head(queue) = queue[1]
  BY <1>1
<1> QED BY <1>1, <1>2, HeadTailProperties, LenProperties

LEMMA QueueEnd ==
  ASSUME TypeOK, NEW e \in MotionEvents \cup OtherEvents, Emit(e)
  PROVE  /\ queue' \in Seq(MotionEvents \cup OtherEvents)
         /\ Len(queue) \in Nat /\ Len(queue') = Len(queue) + 1
         /\ \A i \in 1..Len(queue) : queue'[i] = queue[i]
         /\ queue'[Len(queue) + 1] = e
<1>1. queue \in Seq(MotionEvents \cup OtherEvents)
  BY DEF TypeOK
<1> QED BY <1>1, AppendProperties, LenProperties DEF Emit

-----------------------------------------------------------------------------
(* Types. *)

FlagsOK ==
  /\ running \in BOOLEAN
  /\ rosOk \in BOOLEAN
  /\ reliable \in Terminals
  /\ stopFailed \in BOOLEAN

LEMMA NextFlags == FlagsOK /\ [Next]_vars => FlagsOK'
<1> SUFFICES ASSUME FlagsOK, [Next]_vars PROVE FlagsOK'
  OBVIOUS
<1> USE DEF FlagsOK, world, outVars
<1>1. CASE SendFirst \/ PollTimeout \/ StopForCapture \/ SavePicture \/ WhenDue \/ Publish
  BY <1>1, Zenon DEF SendFirst, PollTimeout, StopForCapture, SavePicture, WhenDue, Publish
<1>2. CASE StartRound
  BY <1>2, Zenon DEF StartRound, RoundWhile
<1>3. CASE HandleKey
  BY <1>3, Zenon DEF HandleKey
<1>4. CASE SendLast
  <2>1. UNCHANGED world
    BY <1>4, Zenon DEF SendLast
  <2>2. stopFailed' \in BOOLEAN
    BY <1>4, Zenon DEF SendLast
  <2> QED BY <2>1, <2>2, Zenon
<1>5. CASE InputFails
  BY <1>5, Zenon DEF InputFails, InputFailsTo
<1>6. CASE Keyboard
  BY <1>6, Zenon DEF Keyboard
<1>7. CASE Signal
  BY <1>7, Zenon DEF Signal
<1>8. CASE RosLost
  BY <1>8, Zenon DEF RosLost
<1>9. CASE Tick
  BY <1>9, Zenon DEF Tick
<1>10. CASE Done \/ UNCHANGED vars
  BY <1>10, Zenon DEF Done, vars
<1> QED BY <1>1, <1>2, <1>3, <1>4, <1>5, <1>6, <1>7, <1>8, <1>9, <1>10, Zenon DEF Next, Loop

ValuesOK ==
  /\ now \in Nat
  /\ held \in [Keys -> Nat \cup {NotHeld}]
  /\ scale \in Scales
  /\ nextPublish \in Nat
  /\ pc \in {"first", "check", "poll", "stop", "saving", "due", "send", "leaving", "exited"}
  /\ period \in Nat
  /\ pollEnd \in Nat
  /\ sample \in Nat
  /\ picked \in Twists
  /\ sent \in Twists
  /\ queue \in Seq(MotionEvents \cup OtherEvents)
  /\ events \in Nat
  /\ down \subseteq Keys
  /\ releasedAt \in [Keys -> Nat]
  /\ refreshedAt \in [Keys -> Nat]
  /\ until \in [Keys -> Nat \cup {NotHeld}]

LEMMA TypeParts == TypeOK <=> FlagsOK /\ ValuesOK
BY Zenon DEF TypeOK, FlagsOK, ValuesOK

LEMMA ZeroIsTwist == Zero \in Twists
BY TeleopAssumption DEF Zero, Twists

LEMMA InitTypes == Init => TypeOK
<1> SUFFICES ASSUME Init PROVE TypeOK
  OBVIOUS
<1>1. FlagsOK
  BY Zenon DEF Init, FlagsOK
<1>2. InitialScale \in Scales
  BY TeleopAssumption DEF InitialScale, Lesser, Scales
<1>3. ValuesOK
  BY <1>2, ZeroIsTwist, PeriodPositive DEF Init, ValuesOK
<1> QED BY <1>1, <1>3, TypeParts

LEMMA NextValues == TypeOK /\ [Next]_vars => ValuesOK'
<1> SUFFICES ASSUME TypeOK, [Next]_vars PROVE ValuesOK'
  OBVIOUS
<1>0. ValuesOK
  BY TypeParts
<1> USE DEF ValuesOK, controlVars, loopVars, keyboard, history, outVars
<1>1. CASE SendFirst \/ StopForCapture
  BY <1>0, <1>1, ZeroIsTwist DEF SendFirst, StopForCapture
<1>2. CASE StartRound
  <2>1. Period[scale] \in Nat
    BY <1>0, PeriodPositive
  <2>2. UntilDue \in Nat
    BY <1>0, <2>1 DEF UntilDue, Lesser, Greater
  <2>3. /\ period' \in {period, Period[scale]}
        /\ pollEnd' \in {pollEnd, UntilDue}
        /\ pc' \in {"poll", "leaving"}
        /\ UNCHANGED <<now, controlVars, sample, picked, sent, keyboard, history>>
    <3>1. CASE running /\ rosOk
      BY <1>2, <3>1 DEF StartRound, RoundWhile
    <3>2. CASE ~(running /\ rosOk)
      BY <1>2, <3>2 DEF StartRound, RoundWhile
    <3> QED BY <3>1, <3>2
  <2> QED BY <1>0, <2>1, <2>2, <2>3
<1>3. CASE PollTimeout
  BY <1>0, <1>3 DEF PollTimeout
<1>4. CASE HandleKey
  <2> DEFINE e == Head(queue)
  <2>1. /\ e \in MotionEvents \cup OtherEvents
        /\ queue' \in Seq(MotionEvents \cup OtherEvents)
        /\ UNCHANGED <<now, loopVars, outVars, events, down>>
        /\ PressMotionKey(e) \/ ReleaseMotionKey(e) \/ Capture(e) \/ ChangeSpeed(e) \/ Exit(e) \/ Ignore(e)
    BY <1>4, QueueHead DEF HandleKey
  <2>2. Deadline(e) \in Nat
    BY <1>0, DeadlineAhead
  <2>3. AdjustedScale(e) \in Scales
    BY <1>0, SpeedInLimits
  <2> HIDE DEF e
  <2>4. CASE PressMotionKey(e)
    BY <1>0, <2>1, <2>2, <2>4 DEF PressMotionKey
  <2>5. CASE ReleaseMotionKey(e)
    BY <1>0, <2>1, <2>5 DEF ReleaseMotionKey
  <2>6. CASE Capture(e)
    BY <1>0, <2>1, <2>6 DEF Capture, CaptureLeaving
  <2>7. CASE ChangeSpeed(e)
    BY <1>0, <2>1, <2>3, <2>7 DEF ChangeSpeed
  <2>8. CASE Exit(e) \/ Ignore(e)
    BY <1>0, <2>1, <2>8 DEF Exit, Ignore
  <2> QED BY <2>1, <2>4, <2>5, <2>6, <2>7, <2>8
<1>5. CASE SavePicture
  BY <1>0, <1>5 DEF SavePicture
<1>6. CASE WhenDue
  <2>1. [k \in Keys |-> IF Active(k) THEN held[k] ELSE NotHeld] \in [Keys -> Nat \cup {NotHeld}]
    BY <1>0
  <2>2. CASE now >= nextPublish
    BY <1>0, <1>6, <2>1, <2>2, VelocityIsActive DEF WhenDue
  <2>3. CASE ~(now >= nextPublish)
    BY <1>0, <1>6, <2>3 DEF WhenDue
  <2> QED BY <2>2, <2>3
<1>7. CASE Publish
  <2>1. Period[scale] \in Nat
    BY <1>0, PeriodPositive
  <2> QED BY <1>0, <1>7, <2>1 DEF Publish
<1>8. CASE SendLast
  BY <1>0, <1>8, ZeroIsTwist DEF SendLast
<1>9. CASE InputFails
  BY <1>0, <1>9 DEF InputFails, InputFailsTo
<1>10. CASE Keyboard
  <2>1. /\ UNCHANGED <<now, pc, controlVars, loopVars, outVars, history>>
        /\ events' = events + 1
    BY <1>10 DEF Keyboard, KeyDown, KeyRepeats, KeyUp, OtherKey, Typing
  <2>2. down' \subseteq Keys
    BY <1>0, <1>10 DEF Keyboard, KeyDown, KeyRepeats, KeyUp, OtherKey
  <2>3. UNCHANGED queue \/ \E e \in MotionEvents \cup OtherEvents : Emit(e)
    BY <1>10, TeleopAssumption DEF Keyboard, KeyDown, KeyRepeats, KeyUp, OtherKey,
       MotionEvents, OtherEvents
  <2>4. queue' \in Seq(MotionEvents \cup OtherEvents)
    BY <1>0, <2>3, QueueEnd
  <2> QED BY <1>0, <2>1, <2>2, <2>4
<1>11. CASE Signal \/ RosLost
  BY <1>0, <1>11 DEF Signal, RosLost
<1>12. CASE Tick
  BY <1>0, <1>12 DEF Tick
<1>13. CASE Done \/ UNCHANGED vars
  BY <1>0, <1>13 DEF Done, vars
<1> QED BY <1>1, <1>2, <1>3, <1>4, <1>5, <1>6, <1>7, <1>8, <1>9, <1>10, <1>11, <1>12, <1>13
        DEF Next, Loop

LEMMA NextTypes == TypeOK /\ [Next]_vars => TypeOK'
<1> SUFFICES ASSUME TypeOK, [Next]_vars PROVE TypeOK'
  OBVIOUS
<1>1. FlagsOK'
  BY NextFlags, TypeParts
<1>2. ValuesOK'
  BY NextValues
<1> QED BY <1>1, <1>2, Zenon DEF TypeOK, FlagsOK, ValuesOK

-----------------------------------------------------------------------------
(* What the steps outside the loop leave alone. *)

Outside == Keyboard \/ Signal \/ RosLost \/ Tick \/ Done

LEMMA OutsideKeeps ==
  ASSUME Outside \/ UNCHANGED vars
  PROVE  UNCHANGED <<reliable, pc, held, scale, nextPublish, period, pollEnd, sample, picked,
                     sent, stopFailed, releasedAt, refreshedAt, until>>
<1> USE DEF world, controlVars, loopVars, outVars, keyboard, history
<1>1. CASE Keyboard
  BY <1>1 DEF Keyboard
<1>2. CASE Signal \/ RosLost
  BY <1>2 DEF Signal, RosLost
<1>3. CASE Tick
  BY <1>3 DEF Tick
<1>4. CASE Done \/ UNCHANGED vars
  BY <1>4 DEF Done, vars
<1> QED BY <1>1, <1>2, <1>3, <1>4 DEF Outside

-----------------------------------------------------------------------------
(* The zero twists. *)

LEMMA NextEnds == EndsWithZero /\ [Next]_vars => EndsWithZero'
<1> SUFFICES ASSUME EndsWithZero, [Next]_vars, pc' = "exited" PROVE sent' = Zero \/ stopFailed'
  BY DEF EndsWithZero
<1>1. CASE Outside \/ UNCHANGED vars
  <2>1. UNCHANGED <<pc, sent, stopFailed>>
    BY <1>1, OutsideKeeps
  <2> QED BY <2>1 DEF EndsWithZero
<1>2. CASE SendLast
  BY <1>2 DEF SendLast
<1>3. CASE Loop /\ ~SendLast
  BY <1>3 DEF Loop, SendFirst, StartRound, RoundWhile, PollTimeout, HandleKey, PressMotionKey,
     ReleaseMotionKey, Capture, CaptureLeaving, ChangeSpeed, Exit, Ignore, StopForCapture,
     SavePicture, WhenDue, Publish
<1>4. CASE InputFails
  BY <1>4 DEF InputFails, InputFailsTo
<1> QED BY <1>1, <1>2, <1>3, <1>4 DEF Next, Outside

LEMMA NextStopped == StoppedWhileSaving /\ [Next]_vars => StoppedWhileSaving'
<1> SUFFICES ASSUME StoppedWhileSaving, [Next]_vars, pc' = "saving" PROVE sent' = Zero
  BY DEF StoppedWhileSaving
<1>1. CASE Outside \/ UNCHANGED vars
  <2>1. UNCHANGED <<pc, sent>>
    BY <1>1, OutsideKeeps
  <2> QED BY <2>1 DEF StoppedWhileSaving
<1>2. CASE StopForCapture
  BY <1>2 DEF StopForCapture
<1>3. CASE Loop /\ ~StopForCapture
  BY <1>3 DEF Loop, SendFirst, StartRound, RoundWhile, PollTimeout, HandleKey, PressMotionKey,
     ReleaseMotionKey, Capture, CaptureLeaving, ChangeSpeed, Exit, Ignore, SavePicture, WhenDue,
     Publish, SendLast
<1>4. CASE InputFails
  BY <1>4 DEF InputFails, InputFailsTo
<1> QED BY <1>1, <1>2, <1>3, <1>4 DEF Next, Outside

-----------------------------------------------------------------------------
(* Held keys and their deadlines. *)

LEMMA NextHeld == TypeOK /\ HeldIsUntil /\ [Next]_vars => HeldIsUntil'
<1> SUFFICES ASSUME TypeOK, HeldIsUntil, [Next]_vars, NEW k \in Keys
             PROVE  /\ held'[k] # NotHeld => until'[k] = held'[k]
                    /\ pc' = "send" /\ Moves(picked', k) => held'[k] # NotHeld /\ held'[k] > sample'
  BY DEF HeldIsUntil
<1> USE DEF controlVars, loopVars, history
<1>0. /\ held \in [Keys -> Nat \cup {NotHeld}]
      /\ until \in [Keys -> Nat \cup {NotHeld}]
      /\ scale \in Scales
      /\ now \in Nat
  BY DEF TypeOK
<1>1. CASE /\ UNCHANGED <<held, until>>
           /\ pc' # "send" \/ UNCHANGED <<pc, picked, sample>>
  BY <1>1 DEF HeldIsUntil
<1>2. CASE Outside \/ UNCHANGED vars
  BY <1>1, <1>2, OutsideKeeps
<1>3. CASE HandleKey
  <2> DEFINE e == Head(queue)
  <2>1. /\ e \in MotionEvents \cup OtherEvents
        /\ PressMotionKey(e) \/ ReleaseMotionKey(e) \/ Capture(e) \/ ChangeSpeed(e) \/ Exit(e) \/ Ignore(e)
    BY <1>3, QueueHead DEF HandleKey
  <2> HIDE DEF e
  <2>2. CASE PressMotionKey(e)
    BY <1>0, <2>2 DEF PressMotionKey, HeldIsUntil
  <2>3. CASE ReleaseMotionKey(e)
    BY <1>0, <2>3 DEF ReleaseMotionKey, HeldIsUntil
  <2>4. CASE Capture(e)
    BY <1>0, <2>4 DEF Capture, CaptureLeaving
  <2>5. CASE ChangeSpeed(e) \/ Exit(e) \/ Ignore(e)
    BY <1>1, <2>5 DEF ChangeSpeed, Exit, Ignore
  <2> QED BY <2>1, <2>2, <2>3, <2>4, <2>5
<1>4. CASE WhenDue
  <2>1. CASE now >= nextPublish
    <3>1. /\ picked' = Velocity /\ sample' = now
          /\ held'[k] = IF Active(k) THEN held[k] ELSE NotHeld
          /\ until' = until
      BY <1>4, <2>1 DEF WhenDue
    <3>2. held'[k] # NotHeld => until'[k] = held'[k]
      BY <3>1 DEF HeldIsUntil
    <3>3. Moves(picked', k) => Active(k)
      BY <1>0, <3>1, VelocityIsActive
    <3>4. Active(k) => held'[k] = held[k] /\ held[k] > now /\ held[k] # NotHeld
      BY <1>0, <3>1 DEF Active, NotHeld
    <3> QED BY <3>1, <3>2, <3>3, <3>4
  <2>2. CASE ~(now >= nextPublish)
    BY <1>1, <1>4, <2>2 DEF WhenDue
  <2> QED BY <2>1, <2>2
<1>5. CASE Loop /\ ~HandleKey /\ ~WhenDue
  BY <1>1, <1>5 DEF Loop, SendFirst, StartRound, RoundWhile, PollTimeout, StopForCapture,
     SavePicture, Publish, SendLast
<1>6. CASE InputFails
  BY <1>1, <1>6 DEF InputFails, InputFailsTo
<1> QED BY <1>2, <1>3, <1>4, <1>5, <1>6 DEF Next, Outside

LEMMA NextBounded ==
  ASSUME TypeOK, DeadlinesBounded, [Next]_vars
  PROVE  DeadlinesBounded'
<1> SUFFICES ASSUME NEW k \in Keys
             PROVE  until'[k] <= refreshedAt'[k] + LongestDeadman'
  BY DEF DeadlinesBounded
<1> USE DEF world, controlVars, loopVars, history
<1>0. /\ until \in [Keys -> Nat \cup {NotHeld}]
      /\ refreshedAt \in [Keys -> Nat]
      /\ now \in Nat
      /\ LongestDeadman \in Nat
      /\ until[k] <= refreshedAt[k] + LongestDeadman
  BY TeleopAssumption DEF TypeOK, DeadlinesBounded, LongestDeadman
<1>1. CASE UNCHANGED <<reliable, refreshedAt, until>>
  BY <1>0, <1>1 DEF LongestDeadman
<1>2. CASE HandleKey
  <2> DEFINE e == Head(queue)
  <2>1. /\ LongestDeadman' = LongestDeadman
        /\ \/ PressMotionKey(e) \/ ReleaseMotionKey(e) \/ Capture(e)
           \/ ChangeSpeed(e) \/ Exit(e) \/ Ignore(e)
    BY <1>2 DEF HandleKey, LongestDeadman
  <2>2. Deadline(e) <= now + LongestDeadman
    BY <1>0, DeadlineBound
  <2> HIDE DEF e
  <2>3. CASE PressMotionKey(e)
    <3>1. \/ until'[k] = Deadline(e) /\ refreshedAt'[k] = now
          \/ until'[k] = until[k] /\ refreshedAt'[k] = refreshedAt[k]
      BY <1>0, <2>3 DEF PressMotionKey
    <3> QED BY <1>0, <2>1, <2>2, <3>1
  <2>4. CASE Capture(e)
    <3>1. until'[k] = NotHeld /\ refreshedAt'[k] = refreshedAt[k]
      BY <2>4 DEF Capture, CaptureLeaving
    <3>2. refreshedAt[k] \in Nat
      BY <1>0
    <3> QED BY <1>0, <2>1, <3>1, <3>2 DEF NotHeld
  <2>5. CASE ReleaseMotionKey(e) \/ ChangeSpeed(e) \/ Exit(e) \/ Ignore(e)
    <3>1. UNCHANGED <<refreshedAt, until>>
      BY <2>5 DEF ReleaseMotionKey, ChangeSpeed, Exit, Ignore
    <3> QED BY <1>0, <2>1, <3>1
  <2> QED BY <2>1, <2>3, <2>4, <2>5
<1>3. CASE Outside \/ UNCHANGED vars
  BY <1>1, <1>3, OutsideKeeps
<1>4. CASE Loop /\ ~HandleKey
  BY <1>1, <1>4 DEF Loop, SendFirst, StartRound, RoundWhile, PollTimeout, StopForCapture,
     SavePicture, WhenDue, Publish, SendLast
<1>5. CASE InputFails
  BY <1>1, <1>5 DEF InputFails, InputFailsTo
<1> QED BY <1>2, <1>3, <1>4, <1>5 DEF Next, Outside

LEMMA NextSentHeld ==
  ASSUME TypeOK, HeldIsUntil, StoppedWhileSaving, SentWasHeld, [Next]_vars
  PROVE  SentWasHeld'
<1> SUFFICES ASSUME NEW k \in Keys, pc' \in Round, Moves(sent', k)
             PROVE  until'[k] # NotHeld
  BY DEF SentWasHeld
<1> USE DEF controlVars, loopVars, history, outVars
<1>1. CASE pc \in Round /\ UNCHANGED <<sent, until>>
  BY <1>1 DEF SentWasHeld
<1>2. CASE Outside \/ UNCHANGED vars
  BY <1>1, <1>2, OutsideKeeps
<1>3. CASE sent' = Zero
  BY <1>3, ZeroIsStill
<1>4. CASE SendFirst \/ StopForCapture
  BY <1>3, <1>4 DEF SendFirst, StopForCapture, Round
<1>5. CASE SavePicture
  BY <1>3, <1>5 DEF SavePicture, Round, StoppedWhileSaving
<1>6. CASE StartRound \/ PollTimeout \/ WhenDue
  BY <1>1, <1>6 DEF StartRound, RoundWhile, PollTimeout, WhenDue, Round
<1>7. CASE HandleKey
  <2> DEFINE e == Head(queue)
  <2>1. /\ e \in MotionEvents \cup OtherEvents /\ pc = "poll" /\ sent' = sent
        /\ PressMotionKey(e) \/ ReleaseMotionKey(e) \/ Capture(e) \/ ChangeSpeed(e) \/ Exit(e) \/ Ignore(e)
    BY <1>7, QueueHead DEF HandleKey
  <2>2. until[k] # NotHeld
    BY <2>1 DEF SentWasHeld, Round
  <2>3. Deadline(e) \in Nat
    BY DeadlineAhead DEF TypeOK
  <2> HIDE DEF e
  <2>4. CASE PressMotionKey(e)
    <3>1. until'[k] = until[k] \/ until'[k] = Deadline(e)
      BY <2>4 DEF PressMotionKey, TypeOK
    <3> QED BY <2>2, <2>3, <3>1 DEF NotHeld
  <2>5. CASE ReleaseMotionKey(e) \/ ChangeSpeed(e) \/ Exit(e) \/ Ignore(e)
    BY <2>2, <2>5 DEF ReleaseMotionKey, ChangeSpeed, Exit, Ignore
  <2>6. CASE Capture(e)
    BY <2>6 DEF Capture, CaptureLeaving, Round
  <2> QED BY <2>1, <2>4, <2>5, <2>6
<1>8. CASE Publish
  <2>1. pc = "send" /\ sent' = picked /\ until' = until
    BY <1>8 DEF Publish, Round
  <2> QED BY <2>1 DEF HeldIsUntil
<1>9. CASE SendLast \/ InputFails
  BY <1>9 DEF SendLast, InputFails, InputFailsTo, Round
<1> QED BY <1>2, <1>4, <1>5, <1>6, <1>7, <1>8, <1>9 DEF Next, Loop, Outside

-----------------------------------------------------------------------------
(* With Punctual: the times of the loop. *)

(* Time passes only while the loop waits or a picture is saved. *)
LEMMA TimePasses ==
  ASSUME TypeOK, Punctual, [Next]_vars
  PROVE  \/ now' = now
         \/ /\ now' = now + 1
            /\ Waiting \/ pc = "saving"
            /\ UNCHANGED <<reliable, held, scale, nextPublish, pc, period, pollEnd, sample, picked,
                           sent, stopFailed, queue, down, releasedAt, refreshedAt, until>>
<1> USE DEF world, controlVars, loopVars, outVars, keyboard, history
<1>1. CASE Tick
  BY <1>1 DEF Tick
<1>2. CASE Loop
  BY <1>2 DEF Loop, SendFirst, StartRound, RoundWhile, PollTimeout, HandleKey, StopForCapture,
     SavePicture, WhenDue, Publish, SendLast
<1>3. CASE InputFails \/ Keyboard \/ Signal \/ RosLost \/ Done \/ UNCHANGED vars
  BY <1>3 DEF InputFails, InputFailsTo, Keyboard, Signal, RosLost, Done, vars
<1> QED BY <1>1, <1>2, <1>3 DEF Next

LEMMA NextOnTime ==
  ASSUME TypeOK, OnTime, [Next]_vars
  PROVE  OnTime'
<1> SUFFICES ASSUME Punctual
             PROVE  /\ nextPublish' <= now' + Period[scale']
                    /\ pc' = "first" => now' = 0 /\ nextPublish' = 0
                    /\ pc' \in {"poll", "stop", "saving"} => period' = Period[scale']
                    /\ pc' \in {"check", "poll"} => now' <= nextPublish'
                    /\ pc' = "poll" => pollEnd' = nextPublish'
                    /\ pc' = "send" => sample' = now'
  BY DEF OnTime
<1> USE DEF controlVars, loopVars
<1>0. /\ now \in Nat /\ nextPublish \in Nat /\ scale \in Scales
      /\ Period[scale] \in Nat \ {0}
      /\ period \in Nat /\ pollEnd \in Nat
  BY PeriodPositive DEF TypeOK
<1>9. /\ nextPublish <= now + Period[scale]
      /\ pc = "first" => now = 0 /\ nextPublish = 0
      /\ pc \in {"poll", "stop", "saving"} => period = Period[scale]
      /\ pc \in {"check", "poll"} => now <= nextPublish
      /\ pc = "poll" => pollEnd = nextPublish
      /\ pc = "send" => sample = now
  BY DEF OnTime
<1>1. CASE Tick
  <2>1. /\ now' = now + 1
        /\ Waiting \/ pc = "saving"
        /\ UNCHANGED <<scale, nextPublish, pc, period, pollEnd, sample>>
    BY <1>1 DEF Tick
  <2>2. CASE Waiting
    BY <1>0, <1>9, <2>1, <2>2 DEF Waiting
  <2>3. CASE pc = "saving"
    BY <1>0, <1>9, <2>1, <2>3
  <2> QED BY <2>1, <2>2, <2>3
<1>2. CASE UNCHANGED <<now, scale, nextPublish, pc, period, pollEnd, sample>>
  BY <1>2, <1>9
<1>3. CASE (Outside /\ ~Tick) \/ UNCHANGED vars
  <2>1. UNCHANGED <<scale, nextPublish, pc, period, pollEnd, sample>>
    BY <1>3, OutsideKeeps
  <2>2. now' = now
    BY <1>3 DEF Outside, Keyboard, Signal, RosLost, Done, vars
  <2> QED BY <1>2, <2>1, <2>2
<1>4. CASE SendFirst
  BY <1>0, <1>4, <1>9 DEF SendFirst
<1>5. CASE StartRound
  <2>1. CASE running /\ rosOk
    <3>1. /\ pc = "check" /\ pc' = "poll" /\ period' = Period[scale] /\ pollEnd' = UntilDue
          /\ UNCHANGED <<now, scale, nextPublish>>
      BY <1>5, <2>1 DEF StartRound, RoundWhile
    <3>2. UntilDue = nextPublish
      BY <1>0, <1>9, <3>1 DEF UntilDue, Lesser, Greater
    <3> QED BY <1>0, <1>9, <3>1, <3>2
  <2>2. CASE ~(running /\ rosOk)
    BY <1>0, <1>5, <1>9, <2>2 DEF StartRound, RoundWhile
  <2> QED BY <2>1, <2>2
<1>6. CASE HandleKey
  <2> DEFINE e == Head(queue)
  <2>1. /\ pc = "poll" /\ UNCHANGED <<now, period, pollEnd, sample>>
        /\ PressMotionKey(e) \/ ReleaseMotionKey(e) \/ Capture(e) \/ ChangeSpeed(e) \/ Exit(e) \/ Ignore(e)
    BY <1>6 DEF HandleKey
  <2> HIDE DEF e
  <2>2. CASE PressMotionKey(e) \/ ReleaseMotionKey(e) \/ Capture(e) \/ Exit(e) \/ Ignore(e)
    BY <1>0, <1>9, <2>1, <2>2 DEF PressMotionKey, ReleaseMotionKey, Capture, CaptureLeaving, Exit, Ignore
  <2>3. CASE ChangeSpeed(e)
    <3>1. /\ scale' \in Scales /\ nextPublish' = now /\ pc' = "due"
      BY <1>0, <2>3, SpeedInLimits DEF ChangeSpeed
    <3>2. Period[scale'] \in Nat
      BY <3>1, PeriodPositive
    <3> QED BY <1>0, <2>1, <3>1, <3>2
  <2> QED BY <2>1, <2>2, <2>3
<1>7. CASE PollTimeout \/ StopForCapture \/ SendLast \/ InputFails
  BY <1>0, <1>7, <1>9 DEF PollTimeout, StopForCapture, SendLast, InputFails, InputFailsTo
<1>8. CASE SavePicture
  BY <1>0, <1>8, <1>9 DEF SavePicture
<1>10. CASE WhenDue
  BY <1>0, <1>9, <1>10 DEF WhenDue
<1>11. CASE Publish
  BY <1>0, <1>9, <1>11 DEF Publish
<1> QED BY <1>1, <1>3, <1>4, <1>5, <1>6, <1>7, <1>8, <1>10, <1>11 DEF Next, Loop, Outside

(* A round that goes on without a new deadline or a publication keeps what *)
(* bounds the next publication, whatever time passes.                      *)
LEMMA NextBeforeKept ==
  ASSUME TypeOK, NEW end \in Int, NextBefore(end),
         pc \in {"check", "poll", "due"}, pc' \in {"check", "poll", "due"},
         UNCHANGED nextPublish, now' = now \/ now' = now + 1,
         pc = "due" /\ pc' # "due" => now < nextPublish
  PROVE  NextBefore(end)'
<1>1. now \in Nat /\ nextPublish \in Nat
  BY DEF TypeOK
<1> QED BY <1>1 DEF NextBefore

(* What a step of the loop leaves of the twist that moves the robot along  *)
(* a key: the round goes on, or a publication is due, or it is published.  *)
LEMMA MovingSteps ==
  ASSUME TypeOK, StoppedWhileSaving, [Next]_vars, NEW k \in Keys,
         pc' \in {"check", "poll", "due"}, Moves(sent', k)
  PROVE  \/ Outside \/ UNCHANGED vars
         \/ /\ StartRound \/ PollTimeout \/ WhenDue
            /\ pc = "due" /\ pc' # "due" => now < nextPublish
            /\ pc \in {"check", "poll", "due"}
            /\ UNCHANGED <<now, reliable, held, scale, nextPublish, sent, releasedAt, until, queue, down>>
         \/ HandleKey /\ ~Capture(Head(queue)) /\ ~Exit(Head(queue))
         \/ Publish /\ sent' = picked
<1> USE DEF world, controlVars, loopVars, history, keyboard, outVars
<1>1. sent' # Zero
  BY ZeroIsStill
<1>2. ~SendFirst /\ ~StopForCapture
  BY <1>1 DEF SendFirst, StopForCapture
<1>3. ~SavePicture
  BY <1>1 DEF SavePicture, StoppedWhileSaving
<1>4. CASE StartRound \/ PollTimeout
  BY <1>4 DEF StartRound, RoundWhile, PollTimeout
<1>5. CASE WhenDue
  <2>1. CASE now >= nextPublish
    BY <1>5, <2>1 DEF WhenDue
  <2>2. CASE ~(now >= nextPublish)
    <3>1. now \in Nat /\ nextPublish \in Nat
      BY DEF TypeOK
    <3> QED BY <1>5, <2>2, <3>1 DEF WhenDue
  <2> QED BY <2>1, <2>2
<1>6. CASE HandleKey
  BY <1>6 DEF HandleKey, Capture, CaptureLeaving, Exit
<1>7. CASE Publish
  BY <1>7 DEF Publish
<1>8. ~SendLast /\ ~InputFails
  BY DEF SendLast, InputFails, InputFailsTo
<1> QED BY <1>2, <1>3, <1>4, <1>5, <1>6, <1>7, <1>8 DEF Next, Loop, Outside

LEMMA NextDeadlineNear ==
  ASSUME TypeOK, HeldIsUntil, StoppedWhileSaving, SentWasHeld, OnTime, DeadlineNear, [Next]_vars
  PROVE  DeadlineNear'
<1> SUFFICES ASSUME Punctual, NEW k \in Keys, pc' \in {"check", "poll", "due"}, Moves(sent', k)
             PROVE  NextBefore(until[k] + Period[scale] - 1)'
  BY DEF DeadlineNear
<1> USE DEF controlVars, loopVars, history, outVars
<1>0. /\ now \in Nat /\ nextPublish \in Nat /\ scale \in Scales
      /\ Period[scale] \in Nat \ {0} /\ until[k] \in Int
  BY PeriodPositive DEF TypeOK, NotHeld
<1> DEFINE end == until[k] + Period[scale] - 1
<1>1. end \in Int
  BY <1>0
<1>2. pc \in {"check", "poll", "due"} /\ sent' = sent => NextBefore(end)
  BY DEF DeadlineNear
<1>3. ASSUME /\ UNCHANGED <<until, scale, nextPublish, sent>>
             /\ now' = now \/ now' = now + 1
             /\ pc \in {"check", "poll", "due"}
             /\ pc = "due" /\ pc' # "due" => now < nextPublish
      PROVE  NextBefore(until[k] + Period[scale] - 1)'
  <2>1. NextBefore(end)
    BY <1>2, <1>3
  <2>2. end' = end
    BY <1>3
  <2> HIDE DEF end
  <2>3. nextPublish' <= end \/ (pc' = "due" /\ now' >= nextPublish')
    BY <1>0, <1>1, <1>3, <2>1 DEF NextBefore
  <2> QED BY <1>3, <2>3 DEF NextBefore, end
<1>4. CASE Outside \/ UNCHANGED vars
  <2>1. UNCHANGED <<pc, scale, nextPublish, sent, until>>
    BY <1>4, OutsideKeeps
  <2>2. now' = now \/ now' = now + 1
    BY TimePasses
  <2> QED BY <1>3, <2>1, <2>2
<1>5. CASE /\ StartRound \/ PollTimeout \/ WhenDue
           /\ pc = "due" /\ pc' # "due" => now < nextPublish
           /\ pc \in {"check", "poll", "due"}
           /\ UNCHANGED <<now, scale, nextPublish, sent, until>>
  BY <1>3, <1>5
<1>6. CASE HandleKey /\ ~Capture(Head(queue)) /\ ~Exit(Head(queue))
  <2> DEFINE e == Head(queue)
  <2>1. /\ pc = "poll" /\ UNCHANGED <<now, sent>>
        /\ PressMotionKey(e) \/ ReleaseMotionKey(e) \/ ChangeSpeed(e) \/ Ignore(e)
    BY <1>6 DEF HandleKey
  <2>2. Deadline(e) \in Nat /\ Deadline(e) > now
    BY <1>0, DeadlineAhead
  <2> HIDE DEF e
  <2>3. CASE PressMotionKey(e)
    <3>1. /\ until'[k] = until[k] \/ until'[k] = Deadline(e)
          /\ UNCHANGED <<scale, nextPublish>>
      BY <2>3 DEF PressMotionKey, TypeOK
    <3>2. nextPublish <= now + Period[scale] /\ now <= nextPublish
      BY <2>1 DEF OnTime
    <3>3. nextPublish <= until[k] + Period[scale] - 1
      BY <1>0, <1>2, <2>1 DEF NextBefore
    <3>4. nextPublish' <= until'[k] + Period[scale'] - 1
      BY <1>0, <2>2, <3>1, <3>2, <3>3
    <3> QED BY <3>4 DEF NextBefore
  <2>4. CASE ReleaseMotionKey(e) \/ Ignore(e)
    BY <1>3, <2>1, <2>4 DEF ReleaseMotionKey, Ignore
  <2>5. CASE ChangeSpeed(e)
    BY <1>0, <2>1, <2>5 DEF ChangeSpeed, NextBefore
  <2> QED BY <2>1, <2>3, <2>4, <2>5
<1>7. CASE Publish /\ sent' = picked
  <2>1. /\ pc = "send" /\ nextPublish' = sample + Period[scale]
        /\ UNCHANGED <<now, scale, until>>
    BY <1>7 DEF Publish
  <2>2. sample = now /\ until[k] > now
    BY <1>7, <2>1 DEF OnTime, HeldIsUntil
  <2>3. nextPublish' <= until'[k] + Period[scale'] - 1
    BY <1>0, <2>1, <2>2
  <2> QED BY <2>3 DEF NextBefore
<1> QED BY <1>4, <1>5, <1>6, <1>7, MovingSteps

-----------------------------------------------------------------------------
(* Releases in the queue. *)

Release(k) == [type |-> "release", key |-> k]

(* Handling the first event leaves the releases behind it. *)
LEMMA ReleasesBehind ==
  ASSUME TypeOK, queue # <<>>, queue' = Tail(queue), NEW k \in Keys
  PROVE  /\ ReleaseQueued(k) /\ Head(queue) # Release(k) => ReleaseQueued(k)'
         /\ QueuedAfter(1, k) => ReleaseQueued(k)'
         /\ \A i \in 1..Len(queue') : QueuedAfter(i + 1, k) => QueuedAfter(i, k)'
<1>1. /\ Head(queue) = queue[1]
      /\ Len(queue) \in Nat /\ Len(queue') = Len(queue) - 1
      /\ \A i \in 1..Len(queue') : queue'[i] = queue[i + 1]
  BY QueueHead
<1>2. ASSUME NEW j \in 1..Len(queue), j > 1
      PROVE  j - 1 \in 1..Len(queue') /\ queue'[j - 1] = queue[j]
  BY <1>1, <1>2
<1>3. ReleaseQueued(k) /\ Head(queue) # Release(k) => ReleaseQueued(k)'
  <2> SUFFICES ASSUME ReleaseQueued(k), Head(queue) # Release(k)
               PROVE  \E i \in 1..Len(queue') : queue'[i] = [type |-> "release", key |-> k]
    BY DEF ReleaseQueued
  <2>1. PICK j \in 1..Len(queue) : queue[j] = [type |-> "release", key |-> k]
    BY DEF ReleaseQueued
  <2>2. j > 1
    BY <1>1, <2>1 DEF Release
  <2> QED BY <1>2, <2>1, <2>2
<1>4. QueuedAfter(1, k) => ReleaseQueued(k)'
  BY <1>2 DEF QueuedAfter, ReleaseQueued
<1>5. ASSUME NEW i \in 1..Len(queue'), QueuedAfter(i + 1, k)
      PROVE  QueuedAfter(i, k)'
  <2>1. PICK j \in 1..Len(queue) : j > i + 1 /\ queue[j] = [type |-> "release", key |-> k]
    BY <1>5 DEF QueuedAfter
  <2>2. j - 1 \in 1..Len(queue') /\ j - 1 > i /\ queue'[j - 1] = queue[j]
    BY <1>1, <1>2, <2>1
  <2> QED BY <2>1, <2>2 DEF QueuedAfter
<1> QED BY <1>3, <1>4, <1>5

(* A new event leaves the releases that are queued. *)
LEMMA ReleasesAhead ==
  ASSUME TypeOK, NEW e \in MotionEvents \cup OtherEvents, Emit(e), NEW k \in Keys
  PROVE  /\ ReleaseQueued(k) => ReleaseQueued(k)'
         /\ \A i \in 1..Len(queue) : QueuedAfter(i, k) => QueuedAfter(i, k)'
         /\ e = Release(k) => /\ ReleaseQueued(k)'
                             /\ \A i \in 1..Len(queue) : QueuedAfter(i, k)'
<1>1. /\ Len(queue) \in Nat /\ Len(queue') = Len(queue) + 1
      /\ \A i \in 1..Len(queue) : queue'[i] = queue[i]
      /\ queue'[Len(queue) + 1] = e
  BY QueueEnd
<1>2. \A i \in 1..Len(queue) : i \in 1..Len(queue')
  BY <1>1
<1>3. ReleaseQueued(k) => ReleaseQueued(k)'
  BY <1>1, <1>2 DEF ReleaseQueued
<1>4. ASSUME NEW i \in 1..Len(queue), QueuedAfter(i, k) PROVE QueuedAfter(i, k)'
  BY <1>1, <1>2, <1>4 DEF QueuedAfter
<1>5. ASSUME e = Release(k)
      PROVE  /\ ReleaseQueued(k)'
             /\ \A i \in 1..Len(queue) : QueuedAfter(i, k)'
  <2>1. Len(queue) + 1 \in 1..Len(queue') /\ \A i \in 1..Len(queue) : Len(queue) + 1 > i
    BY <1>1
  <2> QED BY <1>1, <1>5, <2>1 DEF ReleaseQueued, QueuedAfter, Release
<1> QED BY <1>3, <1>4, <1>5

LEMMA ReliableKept == ASSUME [Next]_vars PROVE reliable' = reliable
BY DEF Next, Loop, SendFirst, StartRound, RoundWhile, PollTimeout, HandleKey, StopForCapture,
   SavePicture, WhenDue, Publish, SendLast, InputFails, InputFailsTo, Keyboard, Signal, RosLost,
   Tick, Done, vars, world

(* The loop's steps but one, and the world's, do not touch the keyboard.   *)
LEMMA KeyboardKept ==
  ASSUME [Next]_vars, ~HandleKey, ~Keyboard
  PROVE  UNCHANGED <<queue, down, releasedAt>>
<1> USE DEF keyboard, history
<1>1. CASE Loop
  BY <1>1 DEF Loop, SendFirst, StartRound, RoundWhile, PollTimeout, StopForCapture,
     SavePicture, WhenDue, Publish, SendLast
<1>2. CASE InputFails \/ Signal \/ RosLost \/ Tick \/ Done \/ UNCHANGED vars
  BY <1>2 DEF InputFails, InputFailsTo, Signal, RosLost, Tick, Done, vars
<1> QED BY <1>1, <1>2 DEF Next

(* What the keyboard does where key-up is reported and never lost. *)
Reported(e) ==
  \/ /\ e.type \in {"press", "repeat"}
     /\ e.key \in Keys /\ down' = down \cup {e.key}
  \/ \E k \in Keys : e = Release(k) /\ down' = down \ {k}
  \/ e.type \in {"capture", "faster", "slower", "exit", "other"} /\ down' = down

LEMMA KeyboardReports ==
  ASSUME TypeOK, Keyboard, reliable, "lost" \notin Faults
  PROVE  \E e \in MotionEvents \cup OtherEvents : Emit(e) /\ Reported(e)
<1>1. ASSUME NEW k \in Keys, KeyDown(k) \/ KeyRepeats(k)
      PROVE  \E e \in MotionEvents : Emit(e) /\ Reported(e)
  <2>1. PICK t \in {"press", "repeat"} : Emit([type |-> t, key |-> k])
    BY <1>1 DEF KeyDown, KeyRepeats
  <2>2. down' = down \cup {k}
    BY <1>1 DEF KeyDown, KeyRepeats
  <2>3. [type |-> t, key |-> k] \in MotionEvents
    BY DEF MotionEvents
  <2>4. Reported([type |-> t, key |-> k])
    BY <2>2 DEF Reported
  <2> QED BY <2>1, <2>3, <2>4
<1>2. ASSUME NEW k \in Keys, KeyUp(k)
      PROVE  \E e \in MotionEvents : Emit(e) /\ Reported(e)
  <2>1. Emit(Release(k)) /\ down' = down \ {k}
    BY <1>2 DEF KeyUp, Release
  <2>2. Release(k) \in MotionEvents
    BY DEF Release, MotionEvents
  <2>3. Reported(Release(k))
    BY <2>1 DEF Reported
  <2> QED BY <2>1, <2>2, <2>3
<1>3. ASSUME OtherKey
      PROVE  \E e \in OtherEvents : Emit(e) /\ Reported(e)
  <2>1. PICK t \in Commands : Emit([type |-> t])
    BY <1>3 DEF OtherKey
  <2>2. down' = down
    BY <1>3 DEF OtherKey
  <2>3. t \in {"capture", "faster", "slower", "exit", "other"}
    BY TeleopAssumption
  <2>4. [type |-> t] \in OtherEvents
    BY <2>3 DEF OtherEvents
  <2>5. Reported([type |-> t])
    BY <2>2, <2>3 DEF Reported
  <2> QED BY <2>1, <2>4, <2>5
<1> QED BY <1>1, <1>2, <1>3 DEF Keyboard

LEMMA NextReleases ==
  ASSUME TypeOK, ReleasesReported, [Next]_vars
  PROVE  ReleasesReported'
<1> USE DEF controlVars, history
<1> SUFFICES ASSUME reliable, "lost" \notin Faults
             PROVE  /\ \A k \in Keys : held'[k] # NotHeld => k \in down' \/ ReleaseQueued(k)'
                    /\ \A i \in 1..Len(queue') : \A k \in Keys :
                         Pressed(queue'[i], k) => k \in down' \/ QueuedAfter(i, k)'
  BY ReliableKept DEF ReleasesReported
<1>0. /\ \A k \in Keys : held[k] # NotHeld => k \in down \/ ReleaseQueued(k)
      /\ \A i \in 1..Len(queue) : \A k \in Keys :
           Pressed(queue[i], k) => k \in down \/ QueuedAfter(i, k)
  BY DEF ReleasesReported
<1>1. CASE ~HandleKey /\ ~Keyboard
  <2>1. UNCHANGED <<queue, down>>
    BY <1>1, KeyboardKept
  <2>2. \A k \in Keys : held'[k] # NotHeld => held[k] # NotHeld
    <3>1. CASE WhenDue
      <4>1. held' = held \/ held' = [k \in Keys |-> IF Active(k) THEN held[k] ELSE NotHeld]
        BY <3>1 DEF WhenDue
      <4> QED BY <4>1
    <3>2. CASE ~WhenDue
      <4>1. held' = held
        <5>1. CASE Outside \/ UNCHANGED vars
          BY <5>1, OutsideKeeps
        <5>2. CASE Loop \/ InputFails
          BY <1>1, <3>2, <5>2 DEF Loop, SendFirst, StartRound, RoundWhile, PollTimeout,
             StopForCapture, SavePicture, Publish, SendLast, InputFails, InputFailsTo
        <5> QED BY <5>1, <5>2 DEF Next, Outside
      <4> QED BY <4>1
    <3> QED BY <3>1, <3>2
  <2> QED BY <1>0, <2>1, <2>2 DEF ReleaseQueued, QueuedAfter
<1>2. CASE HandleKey
  <2> DEFINE e == Head(queue)
  <2>1. /\ queue # <<>> /\ queue' = Tail(queue) /\ down' = down
        /\ PressMotionKey(e) \/ ReleaseMotionKey(e) \/ Capture(e) \/ ChangeSpeed(e) \/ Exit(e) \/ Ignore(e)
    BY <1>2 DEF HandleKey, keyboard
  <2>2. /\ e = queue[1] /\ e \in MotionEvents \cup OtherEvents
        /\ Len(queue) \in Nat /\ Len(queue') = Len(queue) - 1
        /\ \A i \in 1..Len(queue') : queue'[i] = queue[i + 1]
        /\ \A i \in 1..Len(queue) : queue[i] \in MotionEvents \cup OtherEvents
    BY <2>1, QueueHead, ElementOfSeq DEF TypeOK
  <2>3. 1 \in 1..Len(queue)
    BY <2>1, <2>2, EmptySeq DEF TypeOK
  <2> HIDE DEF e
  <2>4. ASSUME NEW k \in Keys, held'[k] # NotHeld
        PROVE  k \in down' \/ ReleaseQueued(k)'
    <3>1. CASE Pressed(e, k)
      <4>1. k \in down \/ QueuedAfter(1, k)
        BY <1>0, <2>2, <2>3, <3>1
      <4> QED BY <2>1, <4>1, ReleasesBehind
    <3>2. CASE ~Pressed(e, k)
      <4>1. held[k] # NotHeld
        BY <2>1, <2>4, <3>2 DEF PressMotionKey, ReleaseMotionKey, Capture, CaptureLeaving,
           ChangeSpeed, Exit, Ignore, TypeOK, Pressed
      <4>2. e # Release(k)
        <5>1. CASE e = Release(k)
          <6>1. e.type = "release" /\ e.key = k
            BY <5>1 DEF Release
          <6>2. ReleaseMotionKey(e)
            BY <2>1, <6>1 DEF PressMotionKey, Capture, CaptureLeaving, ChangeSpeed, Exit, Ignore
          <6> QED BY <2>4, <6>1, <6>2 DEF ReleaseMotionKey, TypeOK
        <5> QED BY <5>1
      <4>3. k \in down \/ ReleaseQueued(k)
        BY <1>0, <4>1
      <4> QED BY <2>1, <4>2, <4>3, ReleasesBehind DEF e
    <3> QED BY <3>1, <3>2
  <2>5. ASSUME NEW i \in 1..Len(queue'), NEW k \in Keys, Pressed(queue'[i], k)
        PROVE  k \in down' \/ QueuedAfter(i, k)'
    <3>1. i + 1 \in 1..Len(queue) /\ queue'[i] = queue[i + 1]
      BY <2>2
    <3>2. k \in down \/ QueuedAfter(i + 1, k)
      BY <1>0, <2>5, <3>1
    <3> QED BY <2>1, <3>2, ReleasesBehind
  <2> QED BY <2>4, <2>5
<1>3. CASE Keyboard
  <2>1. PICK e \in MotionEvents \cup OtherEvents : Emit(e) /\ Reported(e)
    BY <1>3, KeyboardReports
  <2>2. /\ Len(queue) \in Nat /\ Len(queue') = Len(queue) + 1
        /\ \A i \in 1..Len(queue) : queue'[i] = queue[i]
        /\ queue'[Len(queue) + 1] = e
    BY <2>1, QueueEnd
  <2>3. held' = held
    BY <1>3 DEF Keyboard
  <2>4. ASSUME NEW k \in Keys, k \in down, k \notin down'
        PROVE  e = Release(k)
    BY <2>1, <2>4 DEF Reported
  <2>5. ASSUME NEW k \in Keys, held'[k] # NotHeld
        PROVE  k \in down' \/ ReleaseQueued(k)'
    <3>1. k \in down \/ ReleaseQueued(k)
      BY <1>0, <2>3, <2>5
    <3> QED BY <2>1, <2>4, <3>1, ReleasesAhead
  <2>6. ASSUME NEW i \in 1..Len(queue'), NEW k \in Keys, Pressed(queue'[i], k)
        PROVE  k \in down' \/ QueuedAfter(i, k)'
    <3>1. CASE i = Len(queue) + 1
      BY <2>1, <2>2, <2>6, <3>1 DEF Reported, Release, Pressed
    <3>2. CASE i # Len(queue) + 1
      <4>1. i \in 1..Len(queue) /\ queue'[i] = queue[i]
        BY <2>2, <3>2
      <4>2. k \in down \/ QueuedAfter(i, k)
        BY <1>0, <2>6, <4>1
      <4> QED BY <2>1, <2>4, <4>1, <4>2, ReleasesAhead
    <3> QED BY <3>1, <3>2
  <2> QED BY <2>5, <2>6
<1> QED BY <1>1, <1>2, <1>3

LEMMA NextReleaseNear ==
  ASSUME TypeOK, HeldIsUntil, StoppedWhileSaving, OnTime, ReleasesReported, ReleaseNear, [Next]_vars
  PROVE  ReleaseNear'
<1> SUFFICES ASSUME Punctual, reliable, "lost" \notin Faults,
                    NEW k \in Keys, pc' \in {"check", "poll", "due"}, Moves(sent', k)
             PROVE  k \in down' \/ ReleaseQueued(k)' \/ NextBefore(releasedAt[k] + Period[scale])'
  BY ReliableKept DEF ReleaseNear
<1> USE DEF controlVars, loopVars, history, outVars, keyboard
<1>0. /\ now \in Nat /\ nextPublish \in Nat /\ scale \in Scales
      /\ Period[scale] \in Nat \ {0} /\ releasedAt[k] \in Nat
  BY PeriodPositive DEF TypeOK
<1> DEFINE end == releasedAt[k] + Period[scale]
<1>1. end \in Int
  BY <1>0
<1>2. pc \in {"check", "poll", "due"} /\ sent' = sent => k \in down \/ ReleaseQueued(k) \/ NextBefore(end)
  BY DEF ReleaseNear
<1>3. ASSUME UNCHANGED <<releasedAt, scale, nextPublish>>,
             now' = now \/ now' = now + 1,
             pc \in {"check", "poll", "due"},
             pc = "due" /\ pc' # "due" => now < nextPublish,
             NextBefore(end)
      PROVE  NextBefore(releasedAt[k] + Period[scale])'
  <2>1. end' = end
    BY <1>3
  <2>2. NextBefore(end)
    BY <1>3
  <2> HIDE DEF end
  <2>3. nextPublish' <= end \/ (pc' = "due" /\ now' >= nextPublish')
    BY <1>0, <1>1, <1>3, <2>2 DEF NextBefore
  <2> QED BY <2>1, <2>3 DEF NextBefore, end
<1>4. CASE Outside \/ UNCHANGED vars
  <2>1. UNCHANGED <<pc, scale, nextPublish, sent, releasedAt>>
    BY <1>4, OutsideKeeps
  <2>2. now' = now \/ now' = now + 1
    BY TimePasses
  <2>3. k \in down \/ ReleaseQueued(k) => k \in down' \/ ReleaseQueued(k)'
    <3>1. CASE Keyboard
      <4>1. PICK e \in MotionEvents \cup OtherEvents : Emit(e) /\ Reported(e)
        BY <3>1, KeyboardReports
      <4>2. k \in down /\ k \notin down' => e = Release(k)
        BY <4>1 DEF Reported
      <4> QED BY <4>1, <4>2, ReleasesAhead
    <3>2. CASE ~Keyboard
      <4>1. ~HandleKey
        <5>1. HandleKey => pc = "poll" /\ Len(queue') # Len(queue)
          BY QueueHead DEF HandleKey
        <5>2. ~Keyboard /\ (Outside \/ UNCHANGED vars) => queue' = queue
          BY DEF Outside, Signal, RosLost, Tick, Done, vars
        <5> QED BY <1>4, <3>2, <5>1, <5>2
      <4>2. UNCHANGED <<queue, down>>
        BY <3>2, <4>1, KeyboardKept
      <4> QED BY <4>2 DEF ReleaseQueued
    <3> QED BY <3>1, <3>2
  <2> QED BY <1>2, <1>3, <2>1, <2>2, <2>3
<1>5. CASE /\ StartRound \/ PollTimeout \/ WhenDue
           /\ pc = "due" /\ pc' # "due" => now < nextPublish
           /\ pc \in {"check", "poll", "due"}
           /\ UNCHANGED <<now, scale, nextPublish, sent, releasedAt, queue, down>>
  <2>1. k \in down \/ ReleaseQueued(k) => k \in down' \/ ReleaseQueued(k)'
    BY <1>5 DEF ReleaseQueued
  <2> QED BY <1>2, <1>3, <1>5, <2>1
<1>6. CASE HandleKey /\ ~Capture(Head(queue)) /\ ~Exit(Head(queue))
  <2> DEFINE e == Head(queue)
  <2>1. /\ pc = "poll" /\ UNCHANGED <<now, sent, down>>
        /\ queue # <<>> /\ queue' = Tail(queue)
        /\ PressMotionKey(e) \/ ReleaseMotionKey(e) \/ ChangeSpeed(e) \/ Ignore(e)
    BY <1>6 DEF HandleKey
  <2>2. ReleaseQueued(k) /\ e # Release(k) => ReleaseQueued(k)'
    BY <2>1, ReleasesBehind
  <2> HIDE DEF e
  <2>3. CASE ChangeSpeed(e)
    BY <1>0, <2>1, <2>3 DEF ChangeSpeed, NextBefore
  <2>4. CASE ReleaseMotionKey(e) /\ e.key = k
    <3>1. /\ releasedAt'[k] = now
          /\ UNCHANGED <<scale, nextPublish>>
      BY <2>4 DEF ReleaseMotionKey, TypeOK
    <3>2. nextPublish <= now + Period[scale]
      BY DEF OnTime
    <3> QED BY <1>0, <3>1, <3>2 DEF NextBefore
  <2>5. CASE PressMotionKey(e) \/ (ReleaseMotionKey(e) /\ e.key # k) \/ Ignore(e)
    <3>1. /\ UNCHANGED <<scale, nextPublish>> /\ pc' = "due"
          /\ releasedAt'[k] = releasedAt[k]
      BY <2>5 DEF PressMotionKey, ReleaseMotionKey, Ignore, TypeOK
    <3>2. e # Release(k)
      BY <2>5 DEF PressMotionKey, ReleaseMotionKey, Ignore, Release
    <3>3. CASE NextBefore(end)
      <4>1. nextPublish <= end
        BY <2>1, <3>3 DEF NextBefore
      <4>2. nextPublish' <= releasedAt'[k] + Period[scale']
        BY <3>1, <4>1
      <4> QED BY <4>2 DEF NextBefore
    <3> QED BY <1>2, <2>1, <2>2, <3>2, <3>3
  <2> QED BY <2>1, <2>3, <2>4, <2>5
<1>7. CASE Publish /\ sent' = picked
  <2>1. pc = "send" /\ UNCHANGED <<queue, down>>
    BY <1>7 DEF Publish
  <2>2. held[k] # NotHeld
    BY <1>7, <2>1 DEF HeldIsUntil
  <2> QED BY <2>1, <2>2 DEF ReleasesReported, ReleaseQueued
<1> QED BY <1>4, <1>5, <1>6, <1>7, MovingSteps

-----------------------------------------------------------------------------
(* The invariant, and what it says. *)

LEMMA InitInv == Init => IInv
<1> SUFFICES ASSUME Init PROVE IInv
  OBVIOUS
<1>1. TypeOK
  BY InitTypes
<1>2. EndsWithZero /\ StoppedWhileSaving
  BY DEF Init, EndsWithZero, StoppedWhileSaving
<1>3. HeldIsUntil /\ SentWasHeld
  BY DEF Init, HeldIsUntil, SentWasHeld, Round
<1>7. DeadlinesBounded
  BY TeleopAssumption DEF Init, DeadlinesBounded, LongestDeadman, NotHeld
<1>4. OnTime
  <2>1. scale \in Scales
    BY <1>1 DEF TypeOK
  <2>2. Period[scale] \in Nat
    BY <2>1, PeriodPositive
  <2> QED BY <2>2 DEF Init, OnTime
<1>5. DeadlineNear /\ ReleaseNear
  BY DEF Init, DeadlineNear, ReleaseNear
<1>6. ReleasesReported
  BY DEF Init, ReleasesReported
<1> QED BY <1>1, <1>2, <1>3, <1>4, <1>5, <1>6, <1>7 DEF IInv

LEMMA NextInv == IInv /\ [Next]_vars => IInv'
<1> SUFFICES ASSUME IInv, [Next]_vars PROVE IInv'
  OBVIOUS
<1>1. TypeOK'
  BY NextTypes DEF IInv
<1>2. EndsWithZero' /\ StoppedWhileSaving'
  BY NextEnds, NextStopped DEF IInv
<1>3. HeldIsUntil' /\ DeadlinesBounded' /\ SentWasHeld'
  BY NextHeld, NextBounded, NextSentHeld DEF IInv
<1>4. OnTime' /\ DeadlineNear'
  BY NextOnTime, NextDeadlineNear DEF IInv
<1>5. ReleasesReported' /\ ReleaseNear'
  BY NextReleases, NextReleaseNear DEF IInv
<1> QED BY <1>1, <1>2, <1>3, <1>4, <1>5 DEF IInv

LEMMA Invariance == Spec => []IInv
BY InitInv, NextInv, PTL DEF Spec

(* Every variable keeps its type: the scale stays between its limits and   *)
(* the twists between the twists those allow.                              *)
THEOREM TypeCorrect == Spec => []TypeOK
<1>1. IInv => TypeOK
  BY DEF IInv
<1> QED BY <1>1, Invariance, PTL

(* teleop's last send is the zero twist, or failed, whichever of its calls *)
(* fails, whoever stops it and however long anything takes.                *)
THEOREM SessionEndsWithZero == Spec => []EndsWithZero
<1>1. IInv => EndsWithZero
  BY DEF IInv
<1> QED BY <1>1, Invariance, PTL

(* The robot stands while a picture is saved, and nothing held before      *)
(* moves it again: each direction published after a capture is one whose   *)
(* key was handled after it.                                               *)
THEOREM CaptureStopsRobot == Spec => []CaptureStops
<1>1. IInv => CaptureStops
  <2> SUFFICES ASSUME IInv PROVE CaptureStops
    OBVIOUS
  <2>1. ASSUME NEW k \in Keys, pc = "send", Moves(picked, k)
        PROVE  until[k] # NotHeld
    BY <2>1 DEF IInv, HeldIsUntil
  <2>2. ASSUME NEW k \in Keys, pc \in {"check", "poll", "due", "send"}, Moves(sent, k)
        PROVE  until[k] # NotHeld
    BY <2>2 DEF IInv, SentWasHeld, Round
  <2> QED BY <2>1, <2>2 DEF IInv, CaptureStops, CaptureForgetsKeys
<1> QED BY <1>1, Invariance, PTL

(* If the loop's own steps take no time, a direction is published for less *)
(* than a period after the deadline its key was given last, and after the  *)
(* longest deadman counted from its key's last press or repeat, whatever   *)
(* events are lost.                                                        *)
THEOREM DeadmanStopsRobot ==
  ASSUME Punctual
  PROVE  Spec => []DeadmanStops
<1>1. IInv => DeadmanStops
  <2> SUFFICES ASSUME IInv, NEW k \in Keys, pc = "poll", Moves(sent, k)
               PROVE  /\ now < until[k] + Period[scale]
                      /\ now < refreshedAt[k] + LongestDeadman + Period[scale]
    BY DEF DeadmanStops
  <2>1. /\ now \in Nat /\ nextPublish \in Nat /\ until[k] \in Int /\ Period[scale] \in Nat
    BY PeriodPositive DEF IInv, TypeOK, NotHeld
  <2>2. now <= nextPublish /\ nextPublish <= until[k] + Period[scale] - 1
    BY DEF IInv, OnTime, DeadlineNear, NextBefore
  <2>3. /\ refreshedAt[k] \in Nat /\ LongestDeadman \in Nat
        /\ until[k] <= refreshedAt[k] + LongestDeadman
    BY TeleopAssumption DEF IInv, TypeOK, DeadlinesBounded, LongestDeadman
  <2> QED BY <2>1, <2>2, <2>3
<1> QED BY <1>1, Invariance, PTL

(* If also the terminal reports key-up and no event is lost, a direction   *)
(* is published for at most a period after its key's release was read.     *)
THEOREM KeyUpStopsRobot ==
  ASSUME Punctual, "lost" \notin Faults
  PROVE  Spec => []KeyUpStops
<1>1. IInv => KeyUpStops
  <2> SUFFICES ASSUME IInv, NEW k \in Keys, reliable, pc = "poll", Moves(sent, k)
               PROVE  k \in down \/ ReleaseQueued(k) \/ now <= releasedAt[k] + Period[scale]
    BY DEF KeyUpStops
  <2>1. /\ now \in Nat /\ nextPublish \in Nat /\ releasedAt[k] \in Nat /\ Period[scale] \in Nat
    BY PeriodPositive DEF IInv, TypeOK
  <2>2. now <= nextPublish
    BY DEF IInv, OnTime
  <2>3. k \in down \/ ReleaseQueued(k) \/ nextPublish <= releasedAt[k] + Period[scale]
    BY DEF IInv, ReleaseNear, NextBefore
  <2> QED BY <2>1, <2>2, <2>3
<1> QED BY <1>1, Invariance, PTL
=============================================================================
