------------------------- MODULE ScoutClientProofs -------------------------
(***************************************************************************)
(* Theorems about ScoutClient for any number of threads, requests and      *)
(* frames, and for both languages: the lock keeps the control connection   *)
(* in step, so that a call returns the answer to its own request and a     *)
(* stop holds; and one thread's frames are whole.                          *)
(***************************************************************************)
EXTENDS ScoutClient, SequenceTheorems, TLAPS

-----------------------------------------------------------------------------
(* The inductive invariant. *)

(* What a caller at each place has called. *)
CallsKnown ==
  \A c \in Callers :
    /\ pc[c] \in {"waiting", "sending", "reading"} => op[c] \in Requests \cup {"close"}
    /\ pc[c] = "closing" => op[c] = "close"
    /\ pc[c] \in {"connect", "length", "body"} => op[c] = "frame"

(* No reply is missing, and the next one that arrives can be read. *)
InStep == ~unread /\ ~refuses /\ control # "closed"

Answer(q, ok) == [id |-> q.id, type |-> q.type, ok |-> ok]

(* A bridge that went down has taken the lines it was sent with it.        *)
NoneWhenDown == control = "down" => requests = <<>>

(* In step, the wire carries at most the line of the caller that reads, or *)
(* the answer to it; a stop that is answered has stopped the robot.        *)
WireIsReaders ==
  InStep =>
    \/ requests = <<>> /\ replies = <<>>
    \/ /\ lock \in Callers
       /\ pc[lock] = "reading"
       /\ \/ requests = <<line[lock]>> /\ replies = <<>>
          \/ /\ requests = <<>>
             /\ \E ok \in BOOLEAN :
                  /\ replies = <<Answer(line[lock], ok)>>
                  /\ ok /\ line[lock].type = "stop" => ~moving

(* Since a stop returned, no velocity has been called for, or is on its    *)
(* way to the bridge.                                                      *)
NothingMoves ==
  stopped =>
    /\ \A c \in Callers : pc[c] = "idle" \/ op[c] # "velocity"
    /\ ~unread => ~moving /\ \A i \in 1..Len(requests) : requests[i].type # "velocity"

IInv ==
  /\ TypeOK
  /\ CallsKnown
  /\ NoneWhenDown
  /\ WireIsReaders
  /\ NothingMoves
  /\ RepliesMatch

(* Of one thread: what the camera connection has delivered or owes, at     *)
(* each place of the call.                                                 *)
Owed == camera = "open" /\ asked = 1 /\ stream = <<>>

Part(p, f) == [part |-> p, of |-> f]

FramesInStep ==
  \A c \in Callers :
    /\ pc[c] \notin {"length", "body"} => asked = 0 /\ stream = <<>>
    /\ pc[c] = "length" =>
         Owed \/ (asked = 0 /\ stream = <<Part("length", frames), Part("body", frames)>>)
    /\ pc[c] = "body" => asked = 0 /\ stream = <<Part("body", frame.length)>>

-----------------------------------------------------------------------------
(* Types. *)

FlagsOK ==
  /\ closed \in BOOLEAN
  /\ refuses \in BOOLEAN
  /\ moving \in BOOLEAN
  /\ stopped \in BOOLEAN
  /\ unread \in BOOLEAN

CallsOK ==
  /\ pc \in [Callers -> {"idle", "waiting", "sending", "reading", "closing",
                         "connect", "length", "body"}]
  /\ op \in [Callers -> Requests \cup {"none", "close", "frame"}]
  /\ line \in [Callers -> Lines]
  /\ reply \in [Callers -> {None} \cup ReplyLines]
  /\ outcome \in [Callers -> {"none", "ok", "error", "nothing"}]
  /\ lock \in Callers \cup {Nobody}
  /\ \A c \in Callers : pc[c] \in {"sending", "reading"} => lock = c

WireOK ==
  /\ language \in Languages
  /\ control \in {"open", "closed", "down"}
  /\ requests \in Seq(Lines \ {None})
  /\ replies \in Seq(ReplyLines)
  /\ sentCount \in Nat
  /\ Len(requests) + Len(replies) <= sentCount

StreamParts == [part : {"length", "body"}, of : Nat]

CameraOK ==
  /\ camera \in {"none", "open"}
  /\ stream \in Seq(StreamParts)
  /\ asked \in Nat
  /\ frame \in [length : Nat, body : Nat]
  /\ frames \in Nat
  /\ asks \in 0..MaxFrames

LEMMA InitTypes == Init => FlagsOK /\ CallsOK /\ WireOK /\ CameraOK
<1> SUFFICES ASSUME Init PROVE FlagsOK /\ CallsOK /\ WireOK /\ CameraOK
  OBVIOUS
<1>1. FlagsOK
  BY Zenon DEF Init, FlagsOK
<1>2. CallsOK
  BY DEF Init, CallsOK, Lines, None
<1>3. WireOK
  BY DEF Init, WireOK
<1>4. CameraOK
  BY ScoutClientAssumption DEF Init, CameraOK
<1> QED BY <1>1, <1>2, <1>3, <1>4

LEMMA NextFlags == FlagsOK /\ [Next]_vars => FlagsOK'
<1> SUFFICES ASSUME FlagsOK, [Next]_vars PROVE FlagsOK'
  OBVIOUS
<1> USE DEF FlagsOK, callVars, controlVars, wire, cameraVars, history
<1>1. ASSUME NEW c \in Callers, Call(c) \/ ReadJpeg(c) \/ Step(c) PROVE FlagsOK'
  <2>1. CASE Call(c)
    BY <2>1, Zenon DEF Call
  <2>2. CASE ReadJpeg(c)
    BY <2>2, Zenon DEF ReadJpeg, CameraOnly
  <2>3. CASE TakeLock(c)
    BY <2>3, Zenon DEF TakeLock, TakeLockIf
  <2>4. CASE SendLine(c)
    BY <2>4, Zenon DEF SendLine
  <2>5. CASE ReadReply(c)
    BY <2>5, Zenon DEF ReadReply
  <2>6. CASE ReadTimeout(c)
    BY <2>6, Zenon DEF ReadTimeout, FailsTo, LosesSync
  <2>7. CASE ReadFails(c)
    BY <2>7, Zenon DEF ReadFails, FailsTo, LosesSync
  <2>8. CASE Interrupted(c)
    BY <2>8, Zenon DEF Interrupted, FailsTo
  <2>9. CASE Shut(c)
    BY <2>9, Zenon DEF Shut, ShutWith
  <2>10. CASE AskFrame(c) \/ ReadLength(c) \/ ReadBody(c) \/ FrameFails(c)
    BY <2>10, Zenon DEF AskFrame, ReadLength, ReadBody, ReadPart, FrameFails, FrameFailsWith,
       CameraOnly
  <2> QED BY <1>1, <2>1, <2>2, <2>3, <2>4, <2>5, <2>6, <2>7, <2>8, <2>9, <2>10, Zenon DEF Step
<1>2. CASE HandleLine
  BY <1>2, Zenon DEF HandleLine, BridgeOnly
<1>3. CASE Expire \/ GoDown \/ SendFrame
  BY <1>3, Zenon DEF Expire, GoDown, SendFrame, BridgeOnly
<1>4. CASE Done \/ UNCHANGED vars
  BY <1>4, Zenon DEF Done, vars
<1> QED BY <1>1, <1>2, <1>3, <1>4, Zenon DEF Next, Bridge

LEMMA TypeParts == TypeOK <=> FlagsOK /\ CallsOK /\ WireOK /\ CameraOK
BY DEF TypeOK, FlagsOK, CallsOK, WireOK, CameraOK, StreamParts

LEMMA NextCalls ==
  ASSUME CallsOK, WireOK, CallsKnown, [Next]_vars
  PROVE  CallsOK'
<1>a. /\ Operations \subseteq Requests \cup {"close", "frame"}
      /\ Nobody \notin Callers
  BY ScoutClientAssumption
<1> USE DEF callVars, Goto, Ends, Raises
<1>1. ASSUME NEW c \in Callers, Call(c) \/ ReadJpeg(c) \/ Step(c) PROVE CallsOK'
  <2>1. CASE Call(c)
    <3>1. PICK o \in Operations \ {"frame"} :
            /\ op' = [op EXCEPT ![c] = o]
            /\ IF closed
                 THEN Goto(c, "idle") /\ outcome' = [outcome EXCEPT ![c] = Refusal(o)]
                 ELSE /\ Goto(c, "waiting")
                      /\ UNCHANGED outcome
      BY <2>1 DEF Call
    <3>2. Refusal(o) \in {"nothing", "error"}
      BY DEF Refusal
    <3>3. UNCHANGED <<line, reply, lock>>
      BY <2>1 DEF Call
    <3>4. /\ outcome' \in [Callers -> {"none", "ok", "error", "nothing"}]
          /\ op' \in [Callers -> Requests \cup {"none", "close", "frame"}]
          /\ pc' = [pc EXCEPT ![c] = "idle"] \/ pc' = [pc EXCEPT ![c] = "waiting"]
      BY <1>a, <3>1, <3>2 DEF CallsOK
    <3> QED BY <3>3, <3>4 DEF CallsOK
  <2>2. CASE ReadJpeg(c)
    BY <2>2 DEF ReadJpeg, CameraOnly, CallsOK
  <2>3. CASE TakeLock(c)
    BY <1>a, <2>3 DEF TakeLock, TakeLockIf, CallsOK
  <2>4. CASE SendLine(c)
    <3>1. CASE control = "closed"
      BY <2>4, <3>1 DEF SendLine, CallsOK
    <3>2. CASE control # "closed"
      <4>1. Request(op[c]) \in Requests
        BY <2>4 DEF SendLine, CallsKnown, Request, Requests
      <4>2. [id |-> sentCount + 1, type |-> Request(op[c])] \in Lines
        BY <4>1 DEF WireOK, Lines
      <4> QED BY <2>4, <3>2, <4>2 DEF SendLine, CallsOK
    <3> QED BY <3>1, <3>2
  <2>5. CASE ReadReply(c)
    <3>1. Head(replies) \in ReplyLines
      BY <2>5, HeadTailProperties DEF ReadReply, WireOK
    <3> QED BY <1>a, <2>5, <3>1 DEF ReadReply, CallsOK
  <2>6. CASE ReadTimeout(c) \/ ReadFails(c) \/ Interrupted(c)
    BY <1>a, <2>6 DEF ReadTimeout, ReadFails, Interrupted, FailsTo, CallsOK
  <2>7. CASE Shut(c)
    BY <2>7 DEF Shut, ShutWith, CallsOK
  <2>8. CASE AskFrame(c) \/ ReadLength(c)
    BY <2>8 DEF AskFrame, ReadLength, ReadPart, CameraOnly, CallsOK
  <2>9. CASE ReadBody(c) \/ FrameFails(c)
    BY <2>9 DEF ReadBody, ReadPart, FrameFails, FrameFailsWith, CameraOnly, CallsOK
  <2> QED BY <1>1, <2>1, <2>2, <2>3, <2>4, <2>5, <2>6, <2>7, <2>8, <2>9 DEF Step
<1>2. CASE Bridge \/ Done \/ UNCHANGED vars
  <2>1. UNCHANGED callVars
    BY <1>2 DEF Bridge, HandleLine, Expire, GoDown, SendFrame, BridgeOnly, Done, vars
  <2> QED BY <2>1 DEF CallsOK
<1> QED BY <1>1, <1>2 DEF Next

LEMMA NextKnown ==
  ASSUME CallsOK, CallsKnown, [Next]_vars
  PROVE  CallsKnown'
<1>a. Operations \subseteq Requests \cup {"close", "frame"}
  BY ScoutClientAssumption
<1> USE DEF callVars, Goto, Ends, Raises, CallsOK, CallsKnown
<1>1. ASSUME NEW c \in Callers, Call(c) \/ ReadJpeg(c) \/ Step(c) PROVE CallsKnown'
  <2>1. CASE Call(c)
    BY <1>a, <2>1 DEF Call
  <2>2. CASE ReadJpeg(c)
    BY <2>2 DEF ReadJpeg, CameraOnly
  <2>3. CASE TakeLock(c) \/ SendLine(c)
    BY <2>3 DEF TakeLock, TakeLockIf, SendLine
  <2>4. CASE ReadReply(c)
    BY <2>4 DEF ReadReply
  <2>5. CASE ReadTimeout(c) \/ ReadFails(c) \/ Interrupted(c)
    BY <2>5 DEF ReadTimeout, ReadFails, Interrupted, FailsTo
  <2>6. CASE Shut(c)
    BY <2>6 DEF Shut, ShutWith
  <2>7. CASE AskFrame(c) \/ ReadLength(c) \/ ReadBody(c) \/ FrameFails(c)
    BY <2>7 DEF AskFrame, ReadLength, ReadBody, ReadPart, FrameFails, FrameFailsWith, CameraOnly
  <2> QED BY <1>1, <2>1, <2>2, <2>3, <2>4, <2>5, <2>6, <2>7 DEF Step
<1>2. CASE Bridge \/ Done \/ UNCHANGED vars
  BY <1>2 DEF Bridge, HandleLine, Expire, GoDown, SendFrame, BridgeOnly, Done, vars
<1> QED BY <1>1, <1>2 DEF Next

LEMMA NextWire ==
  ASSUME CallsOK, WireOK, CallsKnown, [Next]_vars
  PROVE  WireOK'
<1> USE DEF wire, controlVars, WireOK
<1>1. ASSUME NEW c \in Callers, Call(c) \/ ReadJpeg(c) \/ Step(c) PROVE WireOK'
  <2>1. CASE Call(c) \/ ReadJpeg(c) \/ TakeLock(c)
    BY <2>1 DEF Call, ReadJpeg, CameraOnly, TakeLock, TakeLockIf
  <2>2. CASE SendLine(c)
    <3> DEFINE q == [id |-> sentCount + 1, type |-> Request(op[c])]
    <3>1. CASE control = "closed"
      BY <2>2, <3>1 DEF SendLine
    <3>2. CASE control # "closed"
      <4>1. Request(op[c]) \in Requests
        BY <2>2 DEF SendLine, CallsKnown, Request, Requests
      <4>2. q \in Lines \ {None}
        BY <4>1 DEF Lines, None
      <4>3. /\ line'[c] = q
            /\ sentCount' = sentCount + 1
            /\ requests' = requests \/ requests' = Append(requests, line'[c])
            /\ UNCHANGED <<language, control, replies>>
        BY <2>2, <3>2 DEF SendLine, CallsOK
      <4> HIDE DEF q
      <4>4. requests' = requests \/ requests' = Append(requests, q)
        BY <4>3
      <4>5. requests' \in Seq(Lines \ {None}) /\ Len(requests') <= Len(requests) + 1
        BY <4>2, <4>4
      <4> QED BY <4>3, <4>5
    <3> QED BY <3>1, <3>2
  <2>3. CASE ReadReply(c)
    <3>1. Tail(replies) \in Seq(ReplyLines) /\ Len(Tail(replies)) = Len(replies) - 1
      BY <2>3, HeadTailProperties DEF ReadReply
    <3> QED BY <2>3, <3>1 DEF ReadReply
  <2>4. CASE ReadTimeout(c) \/ ReadFails(c) \/ Interrupted(c)
    BY <2>4 DEF ReadTimeout, ReadFails, Interrupted, FailsTo, LosesSync
  <2>5. CASE Shut(c)
    BY <2>5 DEF Shut, ShutWith
  <2>6. CASE AskFrame(c) \/ ReadLength(c) \/ ReadBody(c) \/ FrameFails(c)
    BY <2>6 DEF AskFrame, ReadLength, ReadBody, ReadPart, FrameFails, FrameFailsWith, CameraOnly
  <2> QED BY <1>1, <2>1, <2>2, <2>3, <2>4, <2>5, <2>6 DEF Step
<1>2. CASE HandleLine
  <2> DEFINE q == Head(requests)
  <2>1. /\ q \in Lines \ {None}
        /\ Tail(requests) \in Seq(Lines \ {None}) /\ Len(Tail(requests)) = Len(requests) - 1
    BY <1>2, HeadTailProperties DEF HandleLine
  <2>2. q.id \in Nat \ {0} /\ q.type \in Requests
    BY <2>1 DEF Lines
  <2>3. PICK r \in ReplyLines : replies' = Append(replies, r)
    <3>1. [id |-> q.id, type |-> q.type, ok |-> TRUE] \in ReplyLines
      BY <2>2 DEF ReplyLines
    <3>2. [id |-> q.id, type |-> q.type, ok |-> FALSE] \in ReplyLines
      BY <2>2 DEF ReplyLines
    <3> QED BY <1>2, <3>1, <3>2 DEF HandleLine
  <2>4. replies' \in Seq(ReplyLines) /\ Len(replies') = Len(replies) + 1
    BY <2>3
  <2> QED BY <1>2, <2>1, <2>4 DEF HandleLine, BridgeOnly
<1>3. CASE GoDown
  <2>1. Len(requests) \in Nat /\ Len(replies) \in Nat /\ Len(<<>>) = 0
    BY LenProperties
  <2>2. /\ requests' = <<>> /\ control' = "down"
        /\ UNCHANGED <<language, replies, sentCount>>
    BY <1>3 DEF GoDown, BridgeOnly
  <2> QED BY <2>1, <2>2
<1>4. CASE Expire \/ SendFrame \/ Done \/ UNCHANGED vars
  BY <1>4 DEF Expire, SendFrame, BridgeOnly, Done, vars
<1> QED BY <1>1, <1>2, <1>3, <1>4 DEF Next, Bridge

LEMMA NextCamera == CameraOK /\ [Next]_vars => CameraOK'
<1> SUFFICES ASSUME CameraOK, [Next]_vars PROVE CameraOK'
  OBVIOUS
<1> USE DEF cameraVars, CameraOK
<1>1. ASSUME NEW c \in Callers, Call(c) \/ ReadJpeg(c) \/ Step(c) PROVE CameraOK'
  <2>1. CASE Call(c) \/ TakeLock(c) \/ SendLine(c) \/ ReadReply(c)
    BY <2>1 DEF Call, TakeLock, TakeLockIf, SendLine, ReadReply
  <2>2. CASE ReadJpeg(c)
    BY <2>2, ScoutClientAssumption DEF ReadJpeg
  <2>3. ASSUME UNCHANGED <<frame, frames, asks>>,
               \/ UNCHANGED <<camera, stream, asked>>
               \/ camera' = "none" /\ stream' = <<>> /\ asked' = 0
        PROVE  CameraOK'
    <3>1. <<>> \in Seq(StreamParts)
      OBVIOUS
    <3>2. stream' \in Seq(StreamParts) /\ camera' \in {"none", "open"} /\ asked' \in Nat
      <4>1. CASE UNCHANGED <<camera, stream, asked>>
        BY <4>1
      <4>2. CASE camera' = "none" /\ stream' = <<>> /\ asked' = 0
        BY <3>1, <4>2
      <4> QED BY <2>3, <4>1, <4>2
    <3>3. frame' = frame /\ frames' = frames /\ asks' = asks
      BY <2>3
    <3> QED BY <3>2, <3>3
  <2>4. CASE ReadTimeout(c) \/ ReadFails(c)
    <3>1. \/ FailsTo(c, Ends(c, "error"), LosesSync(TRUE), Nobody)
          \/ FailsTo(c, Ends(c, "error"), LosesSync(refuses), Nobody)
      BY <2>4 DEF ReadTimeout, ReadFails
    <3> QED BY <2>3, <3>1 DEF FailsTo, LosesSync
  <2>5. CASE Interrupted(c) \/ Shut(c) \/ FrameFails(c)
    BY <2>3, <2>5 DEF Interrupted, FailsTo, Shut, ShutWith, FrameFails, FrameFailsWith
  <2>6. CASE ReadLength(c) \/ ReadBody(c)
    <3>1. stream # <<>> /\ stream' = Tail(stream)
      BY <2>6 DEF ReadLength, ReadBody, ReadPart
    <3>2. Head(stream) \in StreamParts /\ stream' \in Seq(StreamParts)
      BY <3>1, HeadTailProperties
    <3>3. \/ frame' = [frame EXCEPT !["length"] = Head(stream).of]
          \/ frame' = [frame EXCEPT !["body"] = Head(stream).of]
      BY <2>6 DEF ReadLength, ReadBody, ReadPart
    <3>4. frame' \in [length : Nat, body : Nat]
      BY <3>2, <3>3 DEF StreamParts
    <3> QED BY <2>6, <3>2, <3>4 DEF ReadLength, ReadBody, ReadPart
  <2>7. CASE AskFrame(c)
    BY <2>7 DEF AskFrame
  <2> QED BY <1>1, <2>1, <2>2, <2>4, <2>5, <2>6, <2>7 DEF Step
<1>2. CASE SendFrame
  <2>1. frames' = frames + 1 /\ frames + 1 \in Nat
    BY <1>2 DEF SendFrame
  <2>2. <<[part |-> "length", of |-> frames'], [part |-> "body", of |-> frames']>>
          \in Seq(StreamParts)
    BY <2>1 DEF StreamParts
  <2> QED BY <1>2, <2>1, <2>2 DEF SendFrame
<1>3. CASE HandleLine \/ Expire \/ GoDown \/ Done \/ UNCHANGED vars
  BY <1>3 DEF HandleLine, Expire, GoDown, Done, vars
<1> QED BY <1>1, <1>2, <1>3 DEF Next, Bridge

-----------------------------------------------------------------------------
(* The wire. *)

LEMMA NextWhenDown == NoneWhenDown /\ [Next]_vars => NoneWhenDown'
<1> SUFFICES ASSUME NoneWhenDown, [Next]_vars PROVE NoneWhenDown'
  OBVIOUS
<1> USE DEF wire, controlVars, NoneWhenDown
<1>1. ASSUME NEW c \in Callers, Call(c) \/ ReadJpeg(c) \/ Step(c) PROVE NoneWhenDown'
  <2>1. CASE Call(c) \/ ReadJpeg(c) \/ TakeLock(c) \/ SendLine(c) \/ ReadReply(c)
    BY <2>1 DEF Call, ReadJpeg, CameraOnly, TakeLock, TakeLockIf, SendLine, ReadReply
  <2>2. CASE ReadTimeout(c) \/ ReadFails(c) \/ Interrupted(c) \/ Shut(c)
    BY <2>2 DEF ReadTimeout, ReadFails, Interrupted, FailsTo, LosesSync, Shut, ShutWith
  <2>3. CASE AskFrame(c) \/ ReadLength(c) \/ ReadBody(c) \/ FrameFails(c)
    BY <2>3 DEF AskFrame, ReadLength, ReadBody, ReadPart, FrameFails, FrameFailsWith, CameraOnly
  <2> QED BY <1>1, <2>1, <2>2, <2>3 DEF Step
<1>2. CASE Bridge \/ Done \/ UNCHANGED vars
  BY <1>2 DEF Bridge, HandleLine, Expire, GoDown, SendFrame, BridgeOnly, Done, vars
<1> QED BY <1>1, <1>2 DEF Next

(* A step that neither changes the wire nor the reader's place.            *)
LEMMA WireKept ==
  ASSUME WireIsReaders, InStep' => InStep,
         UNCHANGED <<requests, replies>>, moving' => moving,
         lock \in Callers /\ pc[lock] = "reading" =>
           lock' = lock /\ pc'[lock] = "reading" /\ line'[lock] = line[lock]
  PROVE  WireIsReaders'
BY DEF WireIsReaders, Answer

LEMMA NextReaders ==
  ASSUME FlagsOK, CallsOK, WireOK, NoneWhenDown, WireIsReaders, [Next]_vars
  PROVE  WireIsReaders'
<1>a. Nobody \notin Callers
  BY ScoutClientAssumption
<1> USE DEF callVars, wire, controlVars, history, Goto, Ends, Raises, CallsOK
<1>1. ASSUME NEW c \in Callers, Call(c) \/ ReadJpeg(c) \/ Step(c) PROVE WireIsReaders'
  <2>1. CASE Call(c) \/ ReadJpeg(c) \/ TakeLock(c)
    <3>1. /\ UNCHANGED <<controlVars, requests, replies, moving, line, unread>>
          /\ lock' = lock \/ lock = Nobody
          /\ pc[c] \in {"idle", "waiting"}
          /\ \A d \in Callers : d = c \/ pc'[d] = pc[d]
      BY <2>1 DEF Call, MayCall, ReadJpeg, CameraOnly, TakeLock, TakeLockIf
    <3> QED BY <1>a, <3>1, WireKept DEF InStep
  <2>2. CASE SendLine(c)
    <3>1. pc[c] = "sending" /\ lock = c
      BY <2>2 DEF SendLine
    <3>2. InStep => requests = <<>> /\ replies = <<>>
      BY <3>1 DEF WireIsReaders
    <3>3. CASE control = "closed"
      BY <2>2, <3>3 DEF SendLine, WireIsReaders, InStep
    <3>4. CASE control # "closed"
      <4>1. /\ pc'[c] = "reading" /\ lock' = c /\ UNCHANGED <<controlVars, unread, replies>>
            /\ requests' = requests \/ requests' = Append(requests, line'[c])
        BY <2>2, <3>1, <3>4 DEF SendLine
      <4>2. InStep' => replies' = <<>> /\ (requests' = <<>> \/ requests' = <<line'[c]>>)
        BY <3>2, <4>1 DEF InStep
      <4> QED BY <4>1, <4>2 DEF WireIsReaders
    <3> QED BY <3>3, <3>4
  <2>3. CASE ReadReply(c)
    <3>1. /\ pc[c] = "reading" /\ lock = c /\ replies # <<>> /\ replies' = Tail(replies)
          /\ UNCHANGED <<controlVars, unread, requests>>
      BY <2>3 DEF ReadReply
    <3>2. InStep => requests = <<>> /\ Tail(replies) = <<>>
      <4>1. \A x : Tail(<<x>>) = <<>>
        OBVIOUS
      <4>2. InStep => requests = <<>> /\ \E x : replies = <<x>>
        BY <3>1 DEF WireIsReaders
      <4> QED BY <4>1, <4>2
    <3> QED BY <3>1, <3>2 DEF WireIsReaders, InStep
  <2>4. CASE ReadTimeout(c)
    <3>1. ~InStep'
      BY <2>4 DEF ReadTimeout, FailsTo, LosesSync, InStep
    <3> QED BY <3>1 DEF WireIsReaders
  <2>5. CASE ReadFails(c)
    <3>1. CASE InStep'
      <4>1. /\ InStep /\ control = "down" /\ replies = <<>>
            /\ UNCHANGED <<control, requests, replies>>
        BY <2>5, <3>1 DEF ReadFails, FailsTo, LosesSync, InStep, FlagsOK
      <4>2. requests = <<>>
        BY <4>1 DEF NoneWhenDown
      <4> QED BY <4>1, <4>2 DEF WireIsReaders
    <3> QED BY <3>1 DEF WireIsReaders
  <2>6. CASE Interrupted(c) \/ Shut(c)
    <3>1. ~InStep'
      BY <2>6 DEF Interrupted, FailsTo, Shut, ShutWith, InStep
    <3> QED BY <3>1 DEF WireIsReaders
  <2>7. CASE AskFrame(c) \/ ReadLength(c) \/ ReadBody(c) \/ FrameFails(c)
    <3>1. /\ UNCHANGED <<controlVars, requests, replies, moving, line, lock, unread>>
          /\ pc[c] \in {"connect", "length", "body"}
          /\ \A d \in Callers : d = c \/ pc'[d] = pc[d]
      BY <2>7 DEF AskFrame, ReadLength, ReadBody, ReadPart, FrameFails, FrameFailsWith, CameraOnly
    <3> QED BY <3>1, WireKept DEF InStep
  <2> QED BY <1>1, <2>1, <2>2, <2>3, <2>4, <2>5, <2>6, <2>7 DEF Step
<1>2. CASE HandleLine
  <2>1. /\ UNCHANGED <<pc, line, lock, refuses, control, unread>>
        /\ requests # <<>> /\ requests' = Tail(requests)
    BY <1>2 DEF HandleLine, BridgeOnly
  <2>2. CASE InStep
    <3> DEFINE q == line[lock]
    <3>1. /\ lock \in Callers /\ pc[lock] = "reading"
          /\ requests = <<q>> /\ replies = <<>>
      BY <2>1, <2>2 DEF WireIsReaders
    <3>2. Head(requests) = q /\ requests' = <<>>
      BY <2>1, <3>1
    <3>3. \E ok \in BOOLEAN :
            /\ replies' = <<Answer(q, ok)>>
            /\ ok /\ q.type = "stop" => ~moving'
      <4> HIDE DEF q
      <4>1. CASE /\ moving' = IF q.type = "ping" THEN moving ELSE q.type = "velocity"
                 /\ replies' = Append(replies, Answer(q, TRUE))
        <5>1. replies' = <<Answer(q, TRUE)>>
          BY <3>1, <4>1
        <5>2. q.type = "stop" => ~moving'
          <6>1. "stop" # "ping" /\ "stop" # "velocity"
            OBVIOUS
          <6> QED BY <4>1, <6>1, Zenon
        <5> QED BY <5>1, <5>2
      <4>2. CASE replies' = Append(replies, Answer(q, FALSE))
        <5>1. replies' = <<Answer(q, FALSE)>>
          BY <3>1, <4>2
        <5> QED BY <5>1
      <4> QED BY <1>2, <3>2, <4>1, <4>2 DEF HandleLine, Answer
    <3> QED BY <2>1, <3>1, <3>2, <3>3 DEF WireIsReaders
  <2>3. CASE ~InStep
    BY <2>1, <2>3 DEF WireIsReaders, InStep
  <2> QED BY <2>2, <2>3
<1>3. CASE GoDown
  <2>1. UNCHANGED <<pc, line, lock, refuses, replies, unread>>
    BY <1>3 DEF GoDown, BridgeOnly
  <2>2. InStep' => InStep
    BY <1>3, <2>1 DEF GoDown, InStep
  <2> QED BY <1>3, <2>1, <2>2 DEF GoDown, WireIsReaders, Answer
<1>4. CASE Expire \/ SendFrame \/ Done \/ UNCHANGED vars
  <2>1. /\ UNCHANGED <<pc, line, lock, refuses, control, requests, replies, unread>>
        /\ moving' => moving
    BY <1>4 DEF Expire, SendFrame, BridgeOnly, Done, vars
  <2> QED BY <2>1, WireKept DEF InStep
<1> QED BY <1>1, <1>2, <1>3, <1>4 DEF Next, Bridge

-----------------------------------------------------------------------------
(* What a stop promises. *)

LEMMA NextNothingMoves ==
  ASSUME FlagsOK, CallsOK, WireOK, CallsKnown, WireIsReaders, NothingMoves, [Next]_vars
  PROVE  NothingMoves'
<1> USE DEF callVars, wire, controlVars, history, Goto, Ends, Raises, CallsOK, NothingMoves
<1>1. ASSUME NEW c \in Callers, Call(c) \/ ReadJpeg(c) \/ Step(c) PROVE NothingMoves'
  <2>1. CASE Call(c)
    <3>1. PICK o \in Operations \ {"frame"} :
            /\ op' = [op EXCEPT ![c] = o]
            /\ stopped' = (stopped /\ o # "velocity")
      BY <2>1, Zenon DEF Call
    <3>2. stopped' => stopped /\ o # "velocity"
      BY <3>1
    <3>3. /\ \A d \in Callers : d = c \/ pc'[d] = pc[d]
          /\ UNCHANGED <<requests, moving, unread>>
      BY <2>1 DEF Call
    <3> QED BY <3>1, <3>2, <3>3
  <2>2. CASE ReadJpeg(c)
    BY <2>2 DEF ReadJpeg, CameraOnly
  <2>3. CASE TakeLock(c)
    BY <2>3 DEF TakeLock, TakeLockIf
  <2>4. CASE SendLine(c)
    <3>1. /\ pc[c] = "sending" /\ UNCHANGED <<op, moving, stopped, unread>>
          /\ \A d \in Callers : d = c \/ pc'[d] = pc[d]
      BY <2>4 DEF SendLine
    <3>2. CASE UNCHANGED requests
      BY <3>1, <3>2
    <3>3. CASE requests' = Append(requests, line'[c]) /\ line'[c].type = Request(op[c])
      <4>1. stopped => line'[c].type # "velocity"
        BY <3>1, <3>3 DEF Request
      <4>2. /\ Len(requests') = Len(requests) + 1 /\ requests'[Len(requests) + 1] = line'[c]
            /\ \A i \in 1..Len(requests) : requests'[i] = requests[i]
            /\ Len(requests) \in Nat
        BY <3>3 DEF WireOK
      <4>3. \A i \in 1..(Len(requests) + 1) : i \in 1..Len(requests) \/ i = Len(requests) + 1
        BY <4>2
      <4> QED BY <3>1, <4>1, <4>2, <4>3
    <3> QED BY <2>4, <3>2, <3>3 DEF SendLine
  <2>5. CASE ReadReply(c)
    <3>1. /\ pc[c] = "reading" /\ lock = c /\ replies # <<>> /\ ~refuses /\ control # "closed"
          /\ UNCHANGED <<op, requests, moving, unread>>
          /\ pc' = [pc EXCEPT ![c] = IF op[c] = "close" THEN "closing" ELSE "idle"]
      BY <2>5 DEF ReadReply
    <3>2. CASE stopped
      BY <3>1, <3>2
    <3>3. CASE ~stopped /\ stopped'
      <4>1. /\ Head(replies).ok /\ Head(replies).type = "stop" /\ line[c].type = "stop"
            /\ Alone(c)
        BY <2>5, <3>3 DEF ReadReply
      <4>2. \A d \in Callers : pc'[d] = "idle" \/ op'[d] # "velocity"
        BY <3>1, <4>1 DEF Alone
      <4>3. ~unread => requests = <<>> /\ ~moving
        <5> SUFFICES ASSUME ~unread PROVE requests = <<>> /\ ~moving
          OBVIOUS
        <5>1. requests = <<>>
          BY <3>1 DEF WireIsReaders, InStep
        <5>2. PICK ok \in BOOLEAN : /\ replies = <<Answer(line[lock], ok)>>
                                    /\ ok /\ line[lock].type = "stop" => ~moving
          BY <3>1 DEF WireIsReaders, InStep
        <5>3. Head(replies).ok = ok
          BY <5>2 DEF Answer
        <5> QED BY <3>1, <4>1, <5>1, <5>2, <5>3
      <4> QED BY <3>1, <4>2, <4>3
    <3> QED BY <3>2, <3>3
  <2>6. CASE ReadTimeout(c) \/ ReadFails(c) \/ Interrupted(c)
    <3>1. /\ \/ pc' = [pc EXCEPT ![c] = IF op[c] = "close" THEN "closing" ELSE "idle"]
             \/ pc' = [pc EXCEPT ![c] = "idle"]
          /\ UNCHANGED <<op, requests, moving, stopped>>
          /\ unread' = unread \/ unread' = TRUE
      BY <2>6 DEF ReadTimeout, ReadFails, Interrupted, FailsTo
    <3> QED BY <3>1
  <2>7. CASE Shut(c)
    BY <2>7 DEF Shut, ShutWith
  <2>8. CASE AskFrame(c) \/ ReadLength(c) \/ ReadBody(c) \/ FrameFails(c)
    <3>1. /\ pc[c] \in {"connect", "length", "body"}
          /\ \A d \in Callers : d = c \/ pc'[d] = pc[d]
          /\ UNCHANGED <<op, requests, moving, stopped, unread>>
      BY <2>8 DEF AskFrame, ReadLength, ReadBody, ReadPart, FrameFails, FrameFailsWith, CameraOnly
    <3> QED BY <3>1
  <2> QED BY <1>1, <2>1, <2>2, <2>3, <2>4, <2>5, <2>6, <2>7, <2>8 DEF Step
<1>2. CASE HandleLine
  <2>1. /\ UNCHANGED <<pc, op, stopped, unread>>
        /\ requests # <<>> /\ requests' = Tail(requests)
        /\ moving' = moving \/ moving' = (Head(requests).type = "velocity")
    BY <1>2 DEF HandleLine, BridgeOnly
  <2>2. /\ Len(requests) \in Nat \ {0} /\ Head(requests) = requests[1]
        /\ Len(requests') = Len(requests) - 1
        /\ \A i \in 1..Len(requests') : requests'[i] = requests[i + 1]
    BY <2>1, HeadTailProperties DEF WireOK
  <2>3. 1 \in 1..Len(requests) /\ \A i \in 1..Len(requests') : i + 1 \in 1..Len(requests)
    BY <2>2
  <2>4. stopped /\ ~unread => ~moving'
    <3>1. stopped /\ ~unread => ~moving /\ Head(requests).type # "velocity"
      BY <2>2, <2>3
    <3> QED BY <2>1, <3>1, Zenon
  <2> QED BY <2>1, <2>2, <2>3, <2>4
<1>3. CASE GoDown
  <2>1. \A i \in 1..Len(<<>>) : FALSE
    OBVIOUS
  <2> QED BY <1>3, <2>1 DEF GoDown, BridgeOnly
<1>4. CASE Expire \/ SendFrame \/ Done \/ UNCHANGED vars
  BY <1>4 DEF Expire, SendFrame, BridgeOnly, Done, vars
<1> QED BY <1>1, <1>2, <1>3, <1>4 DEF Next, Bridge

-----------------------------------------------------------------------------
(* The replies. *)

(* A step that takes no caller back to idle with a reply.                  *)
LEMMA RepliesKept ==
  ASSUME RepliesMatch, unread' = unread \/ unread' = TRUE, UNCHANGED reply,
         \A c \in Callers :
           \/ UNCHANGED <<pc[c], op[c], line[c], outcome[c]>>
           \/ pc'[c] # "idle" \/ outcome'[c] # "ok" \/ op'[c] \notin Requests
  PROVE  RepliesMatch'
BY DEF RepliesMatch

LEMMA NextReplies ==
  ASSUME FlagsOK, CallsOK, CallsKnown, WireIsReaders, RepliesMatch, [Next]_vars
  PROVE  RepliesMatch'
<1> USE DEF callVars, wire, controlVars, history, Goto, Ends, Raises, CallsOK
<1>1. ASSUME NEW c \in Callers, Call(c) \/ ReadJpeg(c) \/ Step(c) PROVE RepliesMatch'
  <2>1. CASE Call(c)
    BY <2>1, RepliesKept DEF Call, Refusal
  <2>2. CASE ReadJpeg(c) \/ TakeLock(c)
    BY <2>2, RepliesKept DEF ReadJpeg, CameraOnly, TakeLock, TakeLockIf
  <2>3. CASE SendLine(c)
    BY <2>3, RepliesKept DEF SendLine
  <2>4. CASE ReadReply(c)
    <3>1. /\ pc[c] = "reading" /\ lock = c /\ replies # <<>> /\ ~refuses /\ control # "closed"
          /\ UNCHANGED <<op, line, unread>>
          /\ reply' = [reply EXCEPT ![c] = Head(replies)]
          /\ \A d \in Callers : d = c \/ UNCHANGED <<pc[d], outcome[d]>>
      BY <2>4 DEF ReadReply
    <3>2. ~unread => Head(replies).id = line[c].id
      <4> SUFFICES ASSUME ~unread PROVE Head(replies).id = line[c].id
        OBVIOUS
      <4>1. \E ok \in BOOLEAN : replies = <<Answer(line[c], ok)>>
        BY <3>1 DEF WireIsReaders, InStep
      <4> QED BY <4>1 DEF Answer
    <3> QED BY <3>1, <3>2 DEF RepliesMatch
  <2>5. CASE ReadTimeout(c) \/ ReadFails(c) \/ Interrupted(c)
    BY <2>5, RepliesKept DEF ReadTimeout, ReadFails, Interrupted, FailsTo
  <2>6. CASE Shut(c)
    <3>1. op'[c] \notin Requests
      BY <2>6 DEF Shut, ShutWith, CallsKnown, Requests
    <3> QED BY <2>6, <3>1, RepliesKept DEF Shut, ShutWith
  <2>7. CASE AskFrame(c) \/ ReadLength(c) \/ ReadBody(c) \/ FrameFails(c)
    <3>1. /\ pc[c] \in {"connect", "length", "body"} /\ UNCHANGED <<op, line, reply, unread>>
          /\ \A d \in Callers : d = c \/ UNCHANGED <<pc[d], outcome[d]>>
      BY <2>7 DEF AskFrame, ReadLength, ReadBody, ReadPart, FrameFails, FrameFailsWith, CameraOnly
    <3>2. op'[c] \notin Requests
      BY <3>1 DEF CallsKnown, Requests
    <3> QED BY <3>1, <3>2, RepliesKept
  <2> QED BY <1>1, <2>1, <2>2, <2>3, <2>4, <2>5, <2>6, <2>7 DEF Step
<1>2. CASE Bridge \/ Done \/ UNCHANGED vars
  <2>1. UNCHANGED callVars /\ UNCHANGED unread
    BY <1>2 DEF Bridge, HandleLine, Expire, GoDown, SendFrame, BridgeOnly, Done, vars
  <2> QED BY <2>1, RepliesKept
<1> QED BY <1>1, <1>2 DEF Next

-----------------------------------------------------------------------------
(* One thread's frames. *)

OneCaller == \A c, d \in Callers : c = d

LEMMA NextFrames ==
  ASSUME OneCaller, CallsOK, CameraOK, FramesInStep, [Next]_vars
  PROVE  FramesInStep'
<1> USE DEF OneCaller, callVars, controlVars, cameraVars, Goto, Ends, Raises, CallsOK, FramesInStep, Part
<1>1. ASSUME NEW c \in Callers, Call(c) \/ ReadJpeg(c) \/ Step(c) PROVE FramesInStep'
  <2>0. \A d \in Callers : d = c
    OBVIOUS
  <2>1. ASSUME pc[c] \notin {"length", "body"}, pc'[c] \notin {"length", "body"},
               \/ UNCHANGED <<asked, stream>>
               \/ asked' = 0 /\ stream' = <<>>
        PROVE  FramesInStep'
    BY <2>0, <2>1
  <2>2. CASE Call(c) \/ ReadJpeg(c) \/ TakeLock(c) \/ SendLine(c) \/ ReadReply(c)
    BY <2>1, <2>2 DEF Call, MayCall, ReadJpeg, TakeLock, TakeLockIf, SendLine, ReadReply
  <2>3. CASE ReadTimeout(c) \/ ReadFails(c)
    <3>1. \/ FailsTo(c, Ends(c, "error"), LosesSync(TRUE), Nobody)
          \/ FailsTo(c, Ends(c, "error"), LosesSync(refuses), Nobody)
      BY <2>3 DEF ReadTimeout, ReadFails
    <3> QED BY <2>1, <3>1 DEF FailsTo, LosesSync
  <2>4. CASE Interrupted(c) \/ Shut(c)
    BY <2>1, <2>4 DEF Interrupted, FailsTo, Shut, ShutWith
  <2>5. CASE AskFrame(c)
    <3>1. pc'[c] = "length" /\ camera' = "open" /\ asked' = 1 /\ stream' = <<>>
      BY <2>5 DEF AskFrame
    <3> QED BY <2>0, <3>1 DEF Owed
  <2>6. CASE ReadLength(c)
    <3>1. /\ pc[c] = "length" /\ pc'[c] = "body" /\ stream # <<>> /\ asked' = asked
          /\ stream' = Tail(stream)
          /\ frame' = [frame EXCEPT !["length"] = Head(stream).of]
      BY <2>6 DEF ReadLength, ReadPart
    <3>2. asked = 0 /\ stream = <<Part("length", frames), Part("body", frames)>>
      BY <3>1 DEF Owed
    <3>3. Head(stream).of = frames /\ Tail(stream) = <<Part("body", frames)>>
      BY <3>2
    <3>4. frame'.length = frames
      BY <3>1, <3>3 DEF CameraOK
    <3> QED BY <2>0, <3>1, <3>2, <3>3, <3>4
  <2>7. CASE ReadBody(c)
    <3>1. pc[c] = "body" /\ pc'[c] = "idle" /\ asked' = asked /\ stream' = Tail(stream)
      BY <2>7 DEF ReadBody, ReadPart
    <3>2. asked = 0 /\ stream = <<Part("body", frame.length)>>
      BY <3>1
    <3>3. \A x : Tail(<<x>>) = <<>>
      OBVIOUS
    <3> QED BY <2>0, <3>1, <3>2, <3>3
  <2>8. CASE FrameFails(c)
    <3>1. pc'[c] = "idle" /\ asked' = 0 /\ stream' = <<>>
      BY <2>8 DEF FrameFails, FrameFailsWith
    <3> QED BY <2>0, <3>1
  <2> QED BY <1>1, <2>2, <2>3, <2>4, <2>5, <2>6, <2>7, <2>8 DEF Step
<1>2. CASE SendFrame
  <2>1. /\ UNCHANGED <<pc, frame>> /\ asked > 0 /\ asked' = asked - 1
        /\ stream' = stream \o <<Part("length", frames'), Part("body", frames')>>
    BY <1>2 DEF SendFrame, BridgeOnly
  <2>2. ASSUME NEW c \in Callers
        PROVE  /\ pc[c] = "length" /\ asked' = 0
               /\ stream' = <<Part("length", frames'), Part("body", frames')>>
    <3>1. asked # 0
      BY <2>1 DEF CameraOK
    <3>2. pc[c] = "length" /\ Owed
      BY <3>1
    <3>3. asked = 1 /\ stream = <<>>
      BY <3>2 DEF Owed
    <3> QED BY <2>1, <3>2, <3>3
  <2> QED BY <2>1, <2>2
<1>3. CASE HandleLine \/ Expire \/ GoDown \/ Done \/ UNCHANGED vars
  <2>1. UNCHANGED <<pc, cameraVars>>
    BY <1>3 DEF HandleLine, Expire, GoDown, BridgeOnly, Done, vars
  <2> QED BY <2>1 DEF Owed
<1> QED BY <1>1, <1>2, <1>3 DEF Next, Bridge

LEMMA NextWholeFrames ==
  ASSUME OneCaller, CallsOK, CameraOK, CallsKnown, FramesInStep, WholeFrames, [Next]_vars
  PROVE  WholeFrames'
<1> USE DEF OneCaller, callVars, cameraVars, Goto, Ends, Raises, CallsOK, WholeFrames
<1>1. ASSUME NEW c \in Callers, Call(c) \/ ReadJpeg(c) \/ Step(c) PROVE WholeFrames'
  <2>0. \A d \in Callers : d = c
    OBVIOUS
  <2>1. CASE Call(c)
    BY <2>0, <2>1 DEF Call
  <2>2. CASE ReadJpeg(c) \/ TakeLock(c) \/ AskFrame(c) \/ ReadLength(c)
    BY <2>0, <2>2 DEF ReadJpeg, TakeLock, TakeLockIf, AskFrame, ReadLength, ReadPart
  <2>3. CASE SendLine(c) \/ ReadReply(c) \/ Shut(c)
    <3>1. op'[c] = op[c] /\ op[c] # "frame"
      BY <2>3 DEF SendLine, ReadReply, Shut, ShutWith, CallsKnown, Requests
    <3> QED BY <2>0, <3>1
  <2>4. CASE ReadTimeout(c) \/ ReadFails(c) \/ Interrupted(c) \/ FrameFails(c)
    <3>1. outcome'[c] = "error"
      BY <2>4 DEF ReadTimeout, ReadFails, Interrupted, FailsTo, FrameFails, FrameFailsWith
    <3> QED BY <2>0, <3>1
  <2>5. CASE ReadBody(c)
    <3>1. pc[c] = "body" /\ frame' = [frame EXCEPT !["body"] = Head(stream).of]
      BY <2>5 DEF ReadBody, ReadPart
    <3>2. Head(stream).of = frame.length
      BY <3>1 DEF FramesInStep, Part
    <3>3. frame'.length = frame.length /\ frame'.body = Head(stream).of
      BY <3>1 DEF CameraOK
    <3> QED BY <3>2, <3>3
  <2> QED BY <1>1, <2>1, <2>2, <2>3, <2>4, <2>5 DEF Step
<1>2. CASE Bridge \/ Done \/ UNCHANGED vars
  <2>1. UNCHANGED callVars /\ UNCHANGED frame
    BY <1>2 DEF Bridge, HandleLine, Expire, GoDown, SendFrame, BridgeOnly, Done, vars
  <2> QED BY <2>1
<1> QED BY <1>1, <1>2 DEF Next

-----------------------------------------------------------------------------
(* The theorems. *)

LEMMA InitInv == Init => IInv
<1> SUFFICES ASSUME Init PROVE IInv
  OBVIOUS
<1>1. TypeOK
  BY InitTypes, TypeParts
<1>2. CallsKnown /\ NoneWhenDown /\ WireIsReaders /\ NothingMoves /\ RepliesMatch
  BY DEF Init, CallsKnown, NoneWhenDown, WireIsReaders, NothingMoves, RepliesMatch
<1> QED BY <1>1, <1>2 DEF IInv

LEMMA NextInv == IInv /\ [Next]_vars => IInv'
<1> SUFFICES ASSUME IInv, [Next]_vars PROVE IInv'
  OBVIOUS
<1>0. FlagsOK /\ CallsOK /\ WireOK /\ CameraOK
  BY TypeParts DEF IInv
<1>1. FlagsOK' /\ CallsOK' /\ WireOK' /\ CameraOK'
  BY <1>0, NextFlags, NextCalls, NextWire, NextCamera DEF IInv
<1>2. TypeOK'
  BY <1>1 DEF TypeOK, FlagsOK, CallsOK, WireOK, CameraOK, StreamParts
<1>3. CallsKnown' /\ NoneWhenDown' /\ WireIsReaders' /\ NothingMoves' /\ RepliesMatch'
  BY <1>0, NextKnown, NextWhenDown, NextReaders, NextNothingMoves, NextReplies DEF IInv
<1> QED BY <1>2, <1>3 DEF IInv

LEMMA Invariance == Spec => []IInv
BY InitInv, NextInv, PTL DEF Spec

(* Every variable keeps its type, and who sends or reads holds the lock.   *)
THEOREM TypeCorrect == Spec => []TypeOK
<1>1. IInv => TypeOK
  BY DEF IInv
<1> QED BY <1>1, Invariance, PTL

(* However many threads share a client, and whatever replies are late, a   *)
(* call that returns normally returns the bridge's answer to its own       *)
(* request, and once stop has returned the robot does not move until a     *)
(* velocity is called for, as long as no call was interrupted.             *)
THEOREM CallsMeanIt == Spec => []CallsMeanWhatTheyReturn
<1>1. IInv => CallsMeanWhatTheyReturn
  BY DEF IInv, NothingMoves, CallsMeanWhatTheyReturn, StopHolds
<1> QED BY <1>1, Invariance, PTL

(* A program with one thread gets whole frames: a length and its own       *)
(* bytes, whichever transfer failed before.                                *)
THEOREM FramesAreWhole ==
  ASSUME OneCaller
  PROVE  Spec => []WholeFrames
<1>1. Init => FramesInStep /\ WholeFrames
  BY DEF Init, FramesInStep, WholeFrames
<1>2. IInv /\ FramesInStep /\ WholeFrames /\ [Next]_vars => FramesInStep' /\ WholeFrames'
  <2> SUFFICES ASSUME IInv, FramesInStep, WholeFrames, [Next]_vars
               PROVE  FramesInStep' /\ WholeFrames'
    OBVIOUS
  <2>1. CallsOK /\ CameraOK /\ CallsKnown
    BY TypeParts DEF IInv
  <2> QED BY <2>1, NextFrames, NextWholeFrames
<1> QED BY <1>1, <1>2, Invariance, PTL DEF Spec
=============================================================================
