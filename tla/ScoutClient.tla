---------------------------- MODULE ScoutClient ----------------------------
(***************************************************************************)
(* The bridge's clients: ScoutClient of the Python package (client.py) and *)
(* MoorebotScout of the MATLAB one (MoorebotScout.m).  Requests and their  *)
(* replies share one control connection, frames come over another that is  *)
(* opened again after a failure.  Callers are the threads of a program     *)
(* that share one client; MATLAB has one.  The bridge is abstracted to     *)
(* what BridgeControl and BridgeCamera show of it: requests are handled    *)
(* and answered in order, and a closed connection stops the robot.         *)
(*                                                                         *)
(* A Python reader that has timed out refuses to read again (the standard  *)
(* library's SocketIO); a MATLAB client closes itself instead.             *)
(***************************************************************************)
EXTENDS Integers, Sequences

CONSTANTS
  Languages,    \* "python", "matlab": the clients there are
  Callers,      \* the threads that use the client
  Operations,   \* the calls they make
  Faults,       \* "timeout": a reply is late; "interrupt": KeyboardInterrupt
                \* during a read; "rejected": the bridge refuses a request;
                \* "down": the bridge closes the connection; "frame": a
                \* camera transfer fails
  MaxRequests,  \* bound: requests, and one more for close
  MaxFrames     \* bound: camera requests

Requests == {"velocity", "stop", "ping"}
None == [id |-> 0]
Nobody == "nobody"

ASSUME ScoutClientAssumption ==
  /\ Languages \subseteq {"python", "matlab"}
  /\ Nobody \notin Callers
  /\ Operations \subseteq Requests \cup {"close", "frame"}
  /\ Faults \subseteq {"timeout", "interrupt", "rejected", "down", "frame"}
  /\ MaxRequests \in Nat
  /\ MaxFrames \in Nat

VARIABLES
  language,    \* the client's
  pc,          \* each caller's place
  op,          \* what it has called
  line,        \* the request it sends or waits for the reply of
  reply,       \* the reply its last call took
  outcome,     \* what the call returned
  lock,        \* _control_lock: its holder, or none
  closed,      \* _closed, Closed
  control,     \* the control connection: "open", "closed" by the client or
               \* "down", closed by the bridge
  refuses,     \* the reader has timed out
  requests,    \* lines on their way to the bridge
  replies,     \* lines on their way to the client
  sentCount,   \* the number of requests so far
  moving,      \* the bridge's command moves the robot
  camera,      \* the camera connection: "none" or "open"
  stream,      \* what the camera connection has delivered
  asked,       \* frames the bridge still owes this connection
  frame,       \* the length and the body read last
  frames,      \* the number of frames so far
  asks,        \* bound: camera requests so far
  stopped,     \* history: stop returned, and no velocity was called since
  unread       \* history: a call was interrupted before its reply was read

callVars == <<pc, op, line, reply, outcome, lock>>
controlVars == <<closed, control, refuses>>
wire == <<requests, replies, sentCount, moving>>
cameraVars == <<camera, stream, asked, frame, frames, asks>>
history == <<stopped, unread>>
vars == <<language, callVars, controlVars, wire, cameraVars, history>>

Init ==
  /\ language \in Languages
  /\ pc = [c \in Callers |-> "idle"]
  /\ op = [c \in Callers |-> "none"]
  /\ line = [c \in Callers |-> None]
  /\ reply = [c \in Callers |-> None]
  /\ outcome = [c \in Callers |-> "none"]
  /\ lock = Nobody
  /\ closed = FALSE
  /\ control = "open"
  /\ refuses = FALSE
  /\ requests = <<>>
  /\ replies = <<>>
  /\ sentCount = 0
  /\ moving = FALSE
  /\ camera = "none"
  /\ stream = <<>>
  /\ asked = 0
  /\ frame = [length |-> 0, body |-> 0]
  /\ frames = 0
  /\ asks = 0
  /\ stopped = FALSE
  /\ unread = FALSE

-----------------------------------------------------------------------------
(* The control connection. *)

Goto(c, place) == pc' = [pc EXCEPT ![c] = place]

(* A call ends; close goes on to shut the sockets. *)
Ends(c, how) ==
  /\ Goto(c, IF op[c] = "close" THEN "closing" ELSE "idle")
  /\ outcome' = [outcome EXCEPT ![c] = how]

(* An exception that close does not catch leaves it there, as any call.    *)
Raises(c) ==
  /\ Goto(c, "idle")
  /\ outcome' = [outcome EXCEPT ![c] = "error"]

Request(o) == IF o = "close" THEN "stop" ELSE o

(* A closed MATLAB client ignores a stop, and both ignore another close.   *)
Refusal(o) ==
  IF o = "close" \/ (o = "stop" /\ language = "matlab") THEN "nothing" ELSE "error"

(* MATLAB makes one call at a time. *)
MayCall(c) ==
  pc[c] = "idle" /\ (language = "python" \/ \A d \in Callers : pc[d] = "idle")

(* A call begins and looks whether the client is closed. *)
Call(c) ==
  /\ MayCall(c)
  /\ \E o \in Operations \ {"frame"} :
       /\ op' = [op EXCEPT ![c] = o]
       /\ IF closed
            THEN Goto(c, "idle") /\ outcome' = [outcome EXCEPT ![c] = Refusal(o)]
            ELSE /\ sentCount < MaxRequests + (IF o = "close" THEN 1 ELSE 0)
                 /\ Goto(c, "waiting")
                 /\ UNCHANGED outcome
       /\ stopped' = (stopped /\ o # "velocity")
  /\ UNCHANGED <<language, line, reply, lock, controlVars, wire, cameraVars, unread>>

TakeLockIf(c, free) ==
  /\ pc[c] = "waiting"
  /\ free
  /\ lock' = c
  /\ Goto(c, "sending")
  /\ UNCHANGED <<language, op, line, reply, outcome, controlVars, wire, cameraVars, history>>

(* Mutation: the lock is not waited for. *)
TakeLockAnyway(c) == TakeLockIf(c, TRUE)

TakeLock(c) == TakeLockIf(c, lock = Nobody)

SendLine(c) ==
  /\ pc[c] = "sending"
  /\ IF control = "closed"
       THEN /\ Ends(c, "error")
            /\ lock' = Nobody
            /\ UNCHANGED <<line, requests, sentCount>>
       ELSE /\ Goto(c, "reading")
            /\ line' = [line EXCEPT ![c] = [id |-> sentCount + 1, type |-> Request(op[c])]]
            /\ sentCount' = sentCount + 1
            /\ requests' = IF control = "open" THEN Append(requests, line'[c]) ELSE requests
            /\ UNCHANGED <<outcome, lock>>
  /\ UNCHANGED <<language, op, reply, controlVars, replies, moving, cameraVars, history>>

(* No other call that could move the robot is under way. *)
Alone(c) == \A d \in Callers \ {c} : pc[d] = "idle" \/ op[d] # "velocity"

(* A reply is read: an error, one of another type, or the expected one. *)
ReadReply(c) ==
  /\ pc[c] = "reading"
  /\ replies # <<>>
  /\ ~refuses
  /\ control # "closed"
  /\ LET r == Head(replies)
         ok == r.ok /\ r.type = line[c].type
     IN /\ Ends(c, IF ok THEN "ok" ELSE "error")
        /\ reply' = [reply EXCEPT ![c] = r]
        /\ stopped' = ((ok /\ r.type = "stop" /\ Alone(c)) \/ stopped)
  /\ replies' = Tail(replies)
  /\ lock' = Nobody
  /\ UNCHANGED <<language, op, line, controlVars, requests, sentCount, moving, cameraVars,
                 unread>>

(* The lost reply leaves the lines and the replies one apart. *)
LosesSync(keeps) ==
  IF language = "python"
    THEN refuses' = keeps /\ UNCHANGED <<closed, control, camera, stream, asked>>
    ELSE /\ closed' = TRUE
         /\ control' = "closed"
         /\ camera' = "none"
         /\ stream' = <<>>
         /\ asked' = 0
         /\ UNCHANGED refuses

FailsTo(c, end, loss, holder) ==
  /\ pc[c] = "reading"
  /\ end
  /\ loss
  /\ lock' = holder
  /\ UNCHANGED <<language, op, line, reply, wire, frame, frames, asks, stopped>>

Late == "timeout" \in Faults /\ replies = <<>> /\ control # "closed"

(* Mutation: a client that lost a reply goes on as if nothing had happened.*)
ReadTimeoutStays(c) ==
  /\ Late
  /\ FailsTo(c, Ends(c, "error"), UNCHANGED <<controlVars, camera, stream, asked>>, Nobody)
  /\ UNCHANGED unread

(* Mutation: the lock is kept by the call that failed. *)
ReadTimeoutHolding(c) ==
  Late /\ FailsTo(c, Ends(c, "error"), LosesSync(TRUE), c) /\ UNCHANGED unread

(* The reply is late. *)
ReadTimeout(c) ==
  Late /\ FailsTo(c, Ends(c, "error"), LosesSync(TRUE), Nobody) /\ UNCHANGED unread

(* Reading fails for good: it timed out before, or there is an end of file.*)
ReadFails(c) ==
  /\ refuses \/ control = "closed" \/ (control = "down" /\ replies = <<>>)
  /\ FailsTo(c, Ends(c, "error"), LosesSync(refuses), Nobody)
  /\ UNCHANGED unread

(* KeyboardInterrupt leaves the reply unread; MATLAB has no such exception.*)
(* close catches only the errors of its stop: an interrupted close leaves  *)
(* the client open.                                                        *)
Interrupted(c) ==
  /\ "interrupt" \in Faults
  /\ language = "python"
  /\ FailsTo(c, Raises(c), UNCHANGED <<controlVars, camera, stream, asked>>, Nobody)
  /\ unread' = TRUE

(* close: the flag and then the sockets, also when its stop has failed. *)
ShutWith(c, connection) ==
  /\ pc[c] = "closing"
  /\ Goto(c, "idle")
  /\ closed' = TRUE
  /\ control' = connection
  /\ camera' = "none"
  /\ stream' = <<>>
  /\ asked' = 0
  /\ UNCHANGED <<language, op, line, reply, outcome, lock, refuses, wire, frame, frames,
                 asks, history>>

(* Mutation: the control connection is left to the garbage collector. *)
ShutHalf(c) == ShutWith(c, control)

Shut(c) == ShutWith(c, "closed")

-----------------------------------------------------------------------------
(* The camera connection. *)

CameraOnly == UNCHANGED <<language, line, reply, lock, controlVars, wire, history>>

ReadJpeg(c) ==
  /\ MayCall(c)
  /\ "frame" \in Operations
  /\ asks < MaxFrames
  /\ ~closed
  /\ asks' = asks + 1
  /\ op' = [op EXCEPT ![c] = "frame"]
  /\ Goto(c, "connect")
  /\ CameraOnly
  /\ UNCHANGED <<outcome, camera, stream, asked, frame, frames>>

(* The connection is opened if there is none, and a frame is asked for. *)
AskFrame(c) ==
  /\ pc[c] = "connect"
  /\ camera' = "open"
  /\ asked' = asked + 1
  /\ Goto(c, "length")
  /\ CameraOnly
  /\ UNCHANGED <<op, outcome, stream, frame, frames, asks>>

ReadPart(c, part, place) ==
  /\ pc[c] = part
  /\ stream # <<>>
  /\ frame' = [frame EXCEPT ![part] = Head(stream).of]
  /\ stream' = Tail(stream)
  /\ Goto(c, place)
  /\ CameraOnly
  /\ UNCHANGED <<op, camera, asked, frames, asks>>

ReadLength(c) == ReadPart(c, "length", "body") /\ UNCHANGED outcome

ReadBody(c) == ReadPart(c, "body", "idle") /\ outcome' = [outcome EXCEPT ![c] = "ok"]

(* The transfer fails, or the socket was closed under it. *)
FrameFailsWith(c, reset) ==
  /\ pc[c] \in {"connect", "length", "body"}
  /\ "frame" \in Faults \/ (camera = "none" /\ pc[c] # "connect")
  /\ Goto(c, "idle")
  /\ outcome' = [outcome EXCEPT ![c] = "error"]
  /\ reset
  /\ CameraOnly
  /\ UNCHANGED <<op, frame, frames, asks>>

(* Mutation: the connection is kept after a failed transfer. *)
FrameFailsOpen(c) == FrameFailsWith(c, UNCHANGED <<camera, stream, asked>>)

FrameFails(c) == FrameFailsWith(c, camera' = "none" /\ stream' = <<>> /\ asked' = 0)

-----------------------------------------------------------------------------
(* The bridge. *)

BridgeOnly == UNCHANGED <<language, callVars, closed, refuses, history>>

HandleLine ==
  /\ control # "down"
  /\ requests # <<>>
  /\ requests' = Tail(requests)
  /\ LET q == Head(requests)
     IN \/ /\ moving' = IF q.type = "ping" THEN moving ELSE q.type = "velocity"
           /\ replies' = Append(replies, [id |-> q.id, type |-> q.type, ok |-> TRUE])
        \/ /\ "rejected" \in Faults /\ q.type = "velocity"
           /\ replies' = Append(replies, [id |-> q.id, type |-> q.type, ok |-> FALSE])
           /\ UNCHANGED moving
  /\ BridgeOnly
  /\ UNCHANGED <<control, sentCount, cameraVars>>

(* The command's own deadline, the end of the connection, a shutdown. *)
Expire ==
  /\ moving
  /\ \/ control = "closed" /\ requests = <<>>
     \/ "timeout" \in Faults
  /\ moving' = FALSE
  /\ BridgeOnly
  /\ UNCHANGED <<control, requests, replies, sentCount, cameraVars>>

GoDown ==
  /\ "down" \in Faults
  /\ control = "open"
  /\ control' = "down"
  /\ moving' = FALSE
  /\ requests' = <<>>
  /\ BridgeOnly
  /\ UNCHANGED <<replies, sentCount, cameraVars>>

SendFrame ==
  /\ camera = "open"
  /\ asked > 0
  /\ asked' = asked - 1
  /\ frames' = frames + 1
  /\ stream' = stream \o <<[part |-> "length", of |-> frames'], [part |-> "body", of |-> frames']>>
  /\ BridgeOnly
  /\ UNCHANGED <<control, wire, camera, frame, asks>>

Step(c) ==
  \/ TakeLock(c) \/ SendLine(c) \/ ReadReply(c) \/ ReadTimeout(c) \/ ReadFails(c)
  \/ Interrupted(c) \/ Shut(c) \/ AskFrame(c) \/ ReadLength(c) \/ ReadBody(c) \/ FrameFails(c)

Bridge == HandleLine \/ Expire \/ GoDown \/ SendFrame

Done ==
  /\ \A c \in Callers : pc[c] = "idle"
  /\ UNCHANGED vars

Next == (\E c \in Callers : Call(c) \/ ReadJpeg(c) \/ Step(c)) \/ Bridge \/ Done

Spec == Init /\ [][Next]_vars

(* Callers are scheduled; the lock is not fair, but a caller only waits    *)
(* for as many calls as others make.  The bridge handles what it has       *)
(* received and notices the end of a connection.                           *)
FairSpec ==
  /\ Spec
  /\ \A c \in Callers : WF_vars(Step(c))
  /\ WF_vars(HandleLine)
  /\ WF_vars(control = "closed" /\ Expire)

-----------------------------------------------------------------------------
(* Properties. *)

Lines == {None} \cup [id : Nat \ {0}, type : Requests]
ReplyLines == [id : Nat \ {0}, type : Requests, ok : BOOLEAN]

TypeOK ==
  /\ language \in Languages
  /\ pc \in [Callers -> {"idle", "waiting", "sending", "reading", "closing",
                         "connect", "length", "body"}]
  /\ op \in [Callers -> Requests \cup {"none", "close", "frame"}]
  /\ line \in [Callers -> Lines]
  /\ reply \in [Callers -> {None} \cup ReplyLines]
  /\ outcome \in [Callers -> {"none", "ok", "error", "nothing"}]
  /\ lock \in Callers \cup {Nobody}
  /\ \A c \in Callers : pc[c] \in {"sending", "reading"} => lock = c
  /\ closed \in BOOLEAN
  /\ control \in {"open", "closed", "down"}
  /\ refuses \in BOOLEAN
  /\ requests \in Seq(Lines \ {None})
  /\ replies \in Seq(ReplyLines)
  /\ sentCount \in Nat
  /\ Len(requests) + Len(replies) <= sentCount
  /\ moving \in BOOLEAN
  /\ camera \in {"none", "open"}
  /\ stream \in Seq([part : {"length", "body"}, of : Nat])
  /\ asked \in Nat
  /\ frame \in [length : Nat, body : Nat]
  /\ frames \in Nat
  /\ asks \in 0..MaxFrames
  /\ stopped \in BOOLEAN
  /\ unread \in BOOLEAN

(* A call that returns normally returns the bridge's answer to its own     *)
(* request, whatever replies were late before, as long as no call was      *)
(* interrupted before its reply was read.                                  *)
RepliesMatch ==
  \A c \in Callers :
    ~unread /\ pc[c] = "idle" /\ outcome[c] = "ok" /\ op[c] \in Requests
      => reply[c].id = line[c].id

(* The docstring of ScoutClient.set_velocity (client.py:110-111): "The     *)
(* returned tuple contains the values after the Rust driver applies the    *)
(* Scout's safety limits", to this call's vector.                          *)
AppliedIsThisCalls ==
  \A c \in Callers :
    pc[c] = "idle" /\ outcome[c] = "ok" /\ op[c] = "velocity" => reply[c].id = line[c].id

(* When stop has returned, the robot does not move until the program calls *)
(* for a velocity again, as long as no call was interrupted.               *)
StopHolds == stopped /\ ~unread => ~moving

(* A call that returned has done what it was called for.                   *)
CallsMeanWhatTheyReturn == RepliesMatch /\ StopHolds

(* A frame that is returned is one frame: its length and its own bytes.    *)
(* Stated of one thread: nothing protects the camera connection of several.*)
WholeFrames ==
  \A c \in Callers :
    pc[c] = "idle" /\ op[c] = "frame" /\ outcome[c] = "ok" => frame.length = frame.body

(* Every call ends, also when others end badly while they hold the lock.   *)
CallsReturn == \A c \in Callers : pc[c] \in {"waiting", "sending", "reading"} ~> pc[c] = "idle"

(* A closed client's robot stops, and for good.                            *)
CloseStops == closed ~> [](~moving)

(* Calls come back, and close keeps its promise.                           *)
CallsEnd == CallsReturn /\ CloseStops
=============================================================================
