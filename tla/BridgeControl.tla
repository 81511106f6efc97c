--------------------------- MODULE BridgeControl ---------------------------
(***************************************************************************)
(* The control half of `moorebot-scout bridge`                             *)
(* (src/src/integration_bridge.rs) together with the loop in main.rs that  *)
(* publishes its motion command to the robot.                              *)
(*                                                                         *)
(* Four kinds of process share the motion state under one mutex: the       *)
(* publishing loop (main), the control listener, one worker thread per     *)
(* accepted connection, and the clients at the other end of the sockets.   *)
(* Each critical section of the mutex is one action; everything a thread   *)
(* keeps between two critical sections (the instant it sampled, the twist  *)
(* it is about to send, the request lines it has read) is state, so that   *)
(* the interleavings between them are explored.                            *)
(*                                                                         *)
(* Time is a counter that Tick advances; a deadline is an instant.  A      *)
(* request is what a control line means, a twist is a model value.         *)
(***************************************************************************)
EXTENDS Integers, Sequences

CONSTANTS
  Conns,        \* control connections; an id stands for one TCP connection
  NoConn,       \* no connection
  Cmds,         \* the twists that move the robot
  Zero,         \* ScoutTwist::zero()
  NoTwist,      \* the publishing loop holds no twist
  MaxTimeout,   \* maximum_command_timeout, in ticks
  Requests,     \* the requests clients send
  Faults,       \* the fallible calls that may fail
  MaxRequests,  \* bound: requests sent, over all connections
  MaxTime       \* bound: the clock stops here unless a command is unexpired

Twists == Cmds \cup {Zero}

AllRequests ==
  [type : {"ping", "stop", "bad", "overlong"}]
    \cup [type : {"velocity"}, cmd : Twists, timeout : Nat]

ASSUME BridgeAssumption ==
  /\ NoConn \notin Conns
  /\ Zero \notin Cmds
  /\ NoTwist \notin Twists
  /\ MaxTimeout \in Nat \ {0}
  /\ Requests \subseteq AllRequests
  /\ Faults \subseteq {"send", "spawn", "write", "ros"}
  /\ MaxRequests \in Nat
  /\ MaxTime \in Nat

VARIABLES
  now,        \* Instant::now()
  running,    \* the AtomicBool shared by every thread and the Ctrl-C handler
  rosOk,      \* rosrust::is_ok()
  command,    \* MotionState.command
  deadline,   \* MotionState.deadline, None being an instant before all others
  armedBy,    \* history: the connection whose velocity is stored
  armedAt,    \* history: the instant at which it was stored
  mainPc,     \* the publishing loop's place
  sample,     \* the instant it passes to current_command
  picked,     \* the twist current_command returned to it
  pickedAt,   \* history: armedAt when it returned that
  sent,       \* the twist handed to the ROS publisher last
  stopFailed, \* stop_result is an error
  lisPc,      \* the control listener's place
  arrived,    \* the connection it is dealing with
  owner,      \* its `owner` handle: the connection of the worker it holds
  backlog,    \* connections waiting to be accepted
  wpc,        \* each connection's worker's place
  pending,    \* the lines a worker has read and not handled
  response,   \* the reply a worker is about to write
  client,     \* each client's end of its connection
  sock,       \* requests on their way to a worker
  reply,      \* what reached each client last, "eof" being the end
  requests    \* bound: the number of requests sent

motion  == <<command, deadline, armedBy, armedAt>>
mainVars == <<mainPc, sample, picked, pickedAt, sent, stopFailed>>
listenerVars == <<lisPc, arrived, owner>>
workerVars == <<wpc, pending, response>>
clientVars == <<client, sock, reply, requests>>
world == <<now, rosOk>>

vars == <<now, running, rosOk, command, deadline, armedBy, armedAt, mainPc,
          sample, picked, pickedAt, sent, stopFailed, lisPc, arrived, owner,
          backlog, wpc, pending, response, client, sock, reply, requests>>

Never == -1   \* deadline == None: no instant lies before it

Init ==
  /\ now = 0
  /\ running = TRUE
  /\ rosOk = TRUE
  /\ command = Zero
  /\ deadline = Never
  /\ armedBy = NoConn
  /\ armedAt = 0
  /\ mainPc = "first"
  /\ sample = 0
  /\ picked = NoTwist
  /\ pickedAt = 0
  /\ sent = Zero
  /\ stopFailed = FALSE
  /\ lisPc = "check"
  /\ arrived = NoConn
  /\ owner = NoConn
  /\ backlog = <<>>
  /\ wpc = [c \in Conns |-> "none"]
  /\ pending = [c \in Conns |-> <<>>]
  /\ response = [c \in Conns |-> "none"]
  /\ client = [c \in Conns |-> "new"]
  /\ sock = [c \in Conns |-> <<>>]
  /\ reply = [c \in Conns |-> "none"]
  /\ requests = 0

-----------------------------------------------------------------------------
(* The motion state. *)

(* MotionState::stop *)
StopMotion ==
  /\ command' = Zero
  /\ deadline' = Never
  /\ armedBy' = NoConn
  /\ armedAt' = 0

(* Mutation: a deadline that has been reached still counts. *)
InForceInclusive(t) == deadline >= t

(* The test of MotionState::current: the command is in force at instant t. *)
InForce(t) == deadline > t

(* Mutation: the timeout is subtracted. *)
StoreVelocityInPast(c, r) ==
  /\ command' = r.cmd
  /\ deadline' = now - r.timeout
  /\ armedBy' = c
  /\ armedAt' = now

(* A velocity request the bridge accepts, stored at this instant. *)
StoreVelocity(c, r) ==
  /\ command' = r.cmd
  /\ deadline' = now + r.timeout
  /\ armedBy' = c
  /\ armedAt' = now

AcceptedTimeout(t) == t # 0 /\ t <= MaxTimeout

-----------------------------------------------------------------------------
(* The publishing loop. *)

(* The process is gone: main has returned and every thread with it. *)
Ended == mainPc \in {"exited", "aborted"}

(* The zero twist sent before the loop; its `?` leaves the function, and   *)
(* the process, without stopping the bridge.                               *)
MainFirst ==
  /\ mainPc = "first"
  /\ \/ mainPc' = "check" /\ sent' = Zero
     \/ "send" \in Faults /\ mainPc' = "aborted" /\ UNCHANGED sent
  /\ UNCHANGED <<sample, picked, pickedAt, stopFailed>>
  /\ UNCHANGED <<world, running, motion, listenerVars, backlog, workerVars, clientVars>>

MainCheck ==
  /\ mainPc = "check"
  /\ mainPc' = IF running /\ rosOk THEN "sample" ELSE "closing"
  /\ UNCHANGED <<sample, picked, pickedAt, sent, stopFailed>>
  /\ UNCHANGED <<world, running, motion, listenerVars, backlog, workerVars, clientVars>>

(* Instant::now() is evaluated before current_command takes the mutex. *)
MainSample ==
  /\ mainPc = "sample"
  /\ mainPc' = "lock"
  /\ sample' = now
  /\ UNCHANGED <<picked, pickedAt, sent, stopFailed>>
  /\ UNCHANGED <<world, running, motion, listenerVars, backlog, workerVars, clientVars>>

(* Mutation: the command is returned whatever its deadline. *)
MainLockUntimed ==
  /\ mainPc = "lock"
  /\ mainPc' = "send"
  /\ picked' = command
  /\ pickedAt' = armedAt
  /\ UNCHANGED <<sample, sent, stopFailed>>
  /\ UNCHANGED <<world, running, motion, listenerVars, backlog, workerVars, clientVars>>

(* current_command: an expired command is cleared by whoever looks at it. *)
MainLock ==
  /\ mainPc = "lock"
  /\ mainPc' = "send"
  /\ \/ InForce(sample) /\ picked' = command /\ UNCHANGED motion
     \/ ~InForce(sample) /\ picked' = Zero /\ StopMotion
  /\ pickedAt' = armedAt
  /\ UNCHANGED <<sample, sent, stopFailed>>
  /\ UNCHANGED <<world, running, listenerVars, backlog, workerVars, clientVars>>

(* The twist is handed to ROS, then park_timeout delays the next check; a  *)
(* send error breaks out of the loop.                                      *)
MainSend ==
  /\ mainPc = "send"
  /\ \/ mainPc' = "check" /\ sent' = picked
     \/ "send" \in Faults /\ mainPc' = "closing" /\ UNCHANGED sent
  /\ sample' = 0
  /\ picked' = NoTwist
  /\ pickedAt' = 0
  /\ UNCHANGED stopFailed
  /\ UNCHANGED <<world, running, motion, listenerVars, backlog, workerVars, clientVars>>

MainClosing ==
  /\ mainPc = "closing"
  /\ mainPc' = "lastZero"
  /\ running' = FALSE
  /\ UNCHANGED <<sample, picked, pickedAt, sent, stopFailed>>
  /\ UNCHANGED <<world, motion, listenerVars, backlog, workerVars, clientVars>>

(* Mutation: the command in force is sent instead of zero. *)
MainLastCommand ==
  /\ mainPc = "lastZero"
  /\ mainPc' = "shutdown"
  /\ sent' = command
  /\ UNCHANGED <<sample, picked, pickedAt, stopFailed>>
  /\ UNCHANGED <<world, running, motion, listenerVars, backlog, workerVars, clientVars>>

MainLastZero ==
  /\ mainPc = "lastZero"
  /\ mainPc' = "shutdown"
  /\ \/ sent' = Zero /\ UNCHANGED stopFailed
     \/ "send" \in Faults /\ stopFailed' = TRUE /\ UNCHANGED sent
  /\ UNCHANGED <<sample, picked, pickedAt>>
  /\ UNCHANGED <<world, running, motion, listenerVars, backlog, workerVars, clientVars>>

(* IntegrationBridge::shutdown up to the joins. *)
MainShutdown ==
  /\ mainPc = "shutdown"
  /\ mainPc' = "join"
  /\ running' = FALSE
  /\ StopMotion
  /\ UNCHANGED <<sample, picked, pickedAt, sent, stopFailed>>
  /\ UNCHANGED <<world, listenerVars, backlog, workerVars, clientVars>>

MainJoin ==
  /\ mainPc = "join"
  /\ lisPc = "done"
  /\ mainPc' = "exited"
  /\ UNCHANGED <<sample, picked, pickedAt, sent, stopFailed>>
  /\ UNCHANGED <<world, running, motion, listenerVars, backlog, workerVars, clientVars>>

Main ==
  \/ MainFirst \/ MainCheck \/ MainSample \/ MainLock \/ MainSend
  \/ MainClosing \/ MainLastZero \/ MainShutdown \/ MainJoin

-----------------------------------------------------------------------------
(* The control listener. *)

(* A write to a client fails if it is gone, or does not read for           *)
(* CLIENT_WRITE_TIMEOUT.                                                   *)
WriteCanFail(c) == client[c] = "closed" \/ "write" \in Faults

(* Mutation: an owner whose client has hung up counts as finished. *)
OwnerListens == owner # NoConn /\ client[owner] = "open"

(* It holds a worker that JoinHandle::is_finished does not report. *)
OwnerLives == owner # NoConn /\ wpc[owner] # "finished"

ListenerCheck ==
  /\ lisPc = "check"
  /\ lisPc' = IF running THEN "accept" ELSE "join"
  /\ UNCHANGED <<arrived, owner>>
  /\ UNCHANGED <<world, running, motion, mainVars, backlog, workerVars, clientVars>>

(* accept() is nonblocking: with nobody waiting the loop sleeps and starts *)
(* again.                                                                  *)
ListenerAccept ==
  /\ lisPc = "accept"
  /\ \/ /\ backlog = <<>>
        /\ lisPc' = "check"
        /\ UNCHANGED <<arrived, backlog>>
     \/ /\ backlog # <<>>
        /\ lisPc' = "arrived"
        /\ arrived' = Head(backlog)
        /\ backlog' = Tail(backlog)
  /\ UNCHANGED owner
  /\ UNCHANGED <<world, running, motion, mainVars, workerVars, clientVars>>

(* Mutation: the robot is stopped before the owner is looked at. *)
ListenerArrivedStops ==
  /\ lisPc = "arrived"
  /\ IF OwnerLives
       THEN lisPc' = "reject" /\ UNCHANGED owner
       ELSE lisPc' = "arm" /\ owner' = NoConn
  /\ StopMotion
  /\ UNCHANGED arrived
  /\ UNCHANGED <<world, running, mainVars, backlog, workerVars, clientVars>>

(* A finished owner is joined; a connection that arrives while the owner   *)
(* lives is rejected.                                                      *)
ListenerArrived ==
  /\ lisPc = "arrived"
  /\ IF OwnerLives
       THEN lisPc' = "reject" /\ UNCHANGED owner
       ELSE lisPc' = "arm" /\ owner' = NoConn
  /\ UNCHANGED arrived
  /\ UNCHANGED <<world, running, motion, mainVars, backlog, workerVars, clientVars>>

ListenerRejectWhen(ready) ==
  /\ lisPc = "reject"
  /\ ready
  /\ lisPc' = "check"
  /\ \/ reply' = [reply EXCEPT ![arrived] = "busy"]
     \/ WriteCanFail(arrived) /\ reply' = [reply EXCEPT ![arrived] = "eof"]
  /\ arrived' = NoConn
  /\ UNCHANGED <<owner, client, sock, requests>>
  /\ UNCHANGED <<world, running, motion, mainVars, backlog, workerVars>>

(* Mutation: the rejection waits, without a timeout, for the client to     *)
(* hang up.                                                                *)
ListenerRejectWaits == ListenerRejectWhen(client[arrived] = "closed")

(* The busy reply may fail to be written; the stream is dropped either way. *)
ListenerReject == ListenerRejectWhen(TRUE)

ListenerArm ==
  /\ lisPc = "arm"
  /\ lisPc' = "spawn"
  /\ StopMotion
  /\ UNCHANGED <<arrived, owner>>
  /\ UNCHANGED <<world, running, mainVars, backlog, workerVars, clientVars>>

ListenerSpawnElse(holds) ==
  /\ lisPc = "spawn"
  /\ lisPc' = "check"
  /\ \/ /\ owner' = arrived
        /\ wpc' = [wpc EXCEPT ![arrived] = "hello"]
        /\ UNCHANGED reply
     \/ /\ "spawn" \in Faults
        /\ reply' = [reply EXCEPT ![arrived] = "eof"]
        /\ owner' = holds
        /\ UNCHANGED wpc
  /\ arrived' = NoConn
  /\ UNCHANGED <<pending, response, client, sock, requests>>
  /\ UNCHANGED <<world, running, motion, mainVars, backlog>>

(* Mutation: control is taken although no worker could be spawned. *)
ListenerSpawnTaken == ListenerSpawnElse(arrived)

(* Spawning the worker may fail: `.ok()` leaves no owner, and the stream   *)
(* is dropped with the closure.                                            *)
ListenerSpawn == ListenerSpawnElse(NoConn)

(* Mutation: the last owner is not joined. *)
ListenerDetach ==
  /\ lisPc = "join"
  /\ lisPc' = "done"
  /\ owner' = NoConn
  /\ UNCHANGED arrived
  /\ UNCHANGED <<world, running, motion, mainVars, backlog, workerVars, clientVars>>

ListenerJoin ==
  /\ lisPc = "join"
  /\ ~OwnerLives
  /\ lisPc' = "done"
  /\ owner' = NoConn
  /\ UNCHANGED arrived
  /\ UNCHANGED <<world, running, motion, mainVars, backlog, workerVars, clientVars>>

Listener ==
  /\ ~Ended
  /\ \/ ListenerCheck \/ ListenerAccept \/ ListenerArrived \/ ListenerReject
     \/ ListenerArm \/ ListenerSpawn \/ ListenerJoin

-----------------------------------------------------------------------------
(* A connection's worker: serve_control_client, then the final stop.       *)

Goto(c, pc) == wpc' = [wpc EXCEPT ![c] = pc]

(* serve_control_client returns.  It owns the stream, so the client sees   *)
(* the end of the connection now, before the worker's final stop.          *)
Leave(c) ==
  /\ Goto(c, "stopping")
  /\ reply' = [reply EXCEPT ![c] = "eof"]
  /\ pending' = [pending EXCEPT ![c] = <<>>]
  /\ response' = [response EXCEPT ![c] = "none"]
  /\ sock' = [sock EXCEPT ![c] = <<>>]
  /\ UNCHANGED <<client, requests>>

(* The hello line; any error before the loop leaves serve_control_client. *)
WorkerHello(c) ==
  /\ wpc[c] = "hello"
  /\ \/ /\ Goto(c, "check")
        /\ reply' = [reply EXCEPT ![c] = "hello"]
        /\ UNCHANGED <<pending, response, client, sock, requests>>
     \/ WriteCanFail(c) /\ Leave(c)
  /\ UNCHANGED <<world, running, motion, mainVars, listenerVars, backlog>>

(* Mutation: `loop` instead of `while running`. *)
WorkerLoop(c) ==
  /\ wpc[c] = "check"
  /\ Goto(c, "read")
  /\ UNCHANGED <<pending, response, clientVars>>
  /\ UNCHANGED <<world, running, motion, mainVars, listenerVars, backlog>>

WorkerCheck(c) ==
  /\ wpc[c] = "check"
  /\ \/ running /\ Goto(c, "read") /\ UNCHANGED <<pending, response, clientVars>>
     \/ ~running /\ Leave(c)
  /\ UNCHANGED <<world, running, motion, mainVars, listenerVars, backlog>>

(* One read() returns some of the lines that have arrived. *)
WorkerRead(c) ==
  /\ wpc[c] = "read"
  /\ \E n \in 1..Len(sock[c]) :
        /\ pending' = [pending EXCEPT ![c] = SubSeq(sock[c], 1, n)]
        /\ sock' = [sock EXCEPT ![c] = SubSeq(@, n + 1, Len(@))]
  /\ Goto(c, "handle")
  /\ UNCHANGED <<response, client, reply, requests>>
  /\ UNCHANGED <<world, running, motion, mainVars, listenerVars, backlog>>

(* read() times out on an idle connection. *)
WorkerReadTimeout(c) ==
  /\ wpc[c] = "read"
  /\ sock[c] = <<>>
  /\ client[c] = "open"
  /\ Goto(c, "check")
  /\ UNCHANGED <<pending, response>>
  /\ UNCHANGED <<world, running, motion, mainVars, listenerVars, backlog, clientVars>>

(* Mutation: a read of 0 bytes is taken for a timeout. *)
WorkerReadEndIgnored(c) ==
  /\ wpc[c] = "read"
  /\ client[c] = "closed"
  /\ Goto(c, "check")
  /\ UNCHANGED <<pending, response>>
  /\ UNCHANGED <<world, running, motion, mainVars, listenerVars, backlog, clientVars>>

(* The client has closed its end: read() returns 0 after the last line, or *)
(* a reset discards the lines not read yet.                                *)
WorkerReadEnd(c) ==
  /\ wpc[c] = "read"
  /\ client[c] = "closed"
  /\ Leave(c)
  /\ UNCHANGED <<world, running, motion, mainVars, listenerVars, backlog>>

(* The next line of the batch: every line read is handled before `running` *)
(* is looked at again.                                                     *)
HandleVelocity(c, r) ==
  /\ r.type = "velocity"
  /\ \/ /\ AcceptedTimeout(r.timeout)
        /\ StoreVelocity(c, r)
        /\ response' = [response EXCEPT ![c] = "velocity"]
     \/ /\ ~AcceptedTimeout(r.timeout)
        /\ response' = [response EXCEPT ![c] = "error"]
        /\ UNCHANGED motion
  /\ Goto(c, "reply")

(* Mutation: `stop` is acknowledged and left to the deadline. *)
HandleStopLazily(c, r) ==
  /\ r.type = "stop"
  /\ response' = [response EXCEPT ![c] = "stop"]
  /\ Goto(c, "reply")
  /\ UNCHANGED motion

HandleStop(c, r) ==
  /\ r.type = "stop"
  /\ StopMotion
  /\ response' = [response EXCEPT ![c] = "stop"]
  /\ Goto(c, "reply")

HandleOther(c, r) ==
  /\ r.type \in {"ping", "bad"}
  /\ response' = [response EXCEPT ![c] = IF r.type = "ping" THEN "pong" ELSE "error"]
  /\ Goto(c, "reply")
  /\ UNCHANGED motion

(* A line above MAX_CONTROL_LINE_BYTES is answered and ends the connection. *)
HandleOverlong(c, r) ==
  /\ r.type = "overlong"
  /\ Goto(c, "refuse")
  /\ UNCHANGED <<response, motion>>

WorkerHandle(c) ==
  /\ wpc[c] = "handle"
  /\ LET r == Head(pending[c])
     IN HandleVelocity(c, r) \/ HandleStop(c, r) \/ HandleOther(c, r) \/ HandleOverlong(c, r)
  /\ pending' = [pending EXCEPT ![c] = Tail(@)]
  /\ UNCHANGED <<world, running, mainVars, listenerVars, backlog, clientVars>>

WorkerReply(c) ==
  /\ wpc[c] = "reply"
  /\ \/ /\ Goto(c, IF pending[c] = <<>> THEN "check" ELSE "handle")
        /\ reply' = [reply EXCEPT ![c] = response[c]]
        /\ response' = [response EXCEPT ![c] = "none"]
        /\ UNCHANGED <<pending, client, sock, requests>>
     \/ WriteCanFail(c) /\ Leave(c)
  /\ UNCHANGED <<world, running, motion, mainVars, listenerVars, backlog>>

WorkerRefuse(c) ==
  /\ wpc[c] = "refuse"
  /\ Leave(c)
  /\ UNCHANGED <<world, running, motion, mainVars, listenerVars, backlog>>

(* Mutation: the closure ends without a stop. *)
WorkerStoppedSilently(c) ==
  /\ wpc[c] = "stopping"
  /\ Goto(c, "finished")
  /\ UNCHANGED <<pending, response, motion>>
  /\ UNCHANGED <<world, running, mainVars, listenerVars, backlog, clientVars>>

(* The closure's stop; is_finished turns true with it. *)
WorkerStopped(c) ==
  /\ wpc[c] = "stopping"
  /\ Goto(c, "finished")
  /\ StopMotion
  /\ UNCHANGED <<pending, response>>
  /\ UNCHANGED <<world, running, mainVars, listenerVars, backlog, clientVars>>

Worker(c) ==
  /\ ~Ended
  /\ \/ WorkerHello(c) \/ WorkerCheck(c)
     \/ WorkerRead(c) \/ WorkerReadTimeout(c) \/ WorkerReadEnd(c)
     \/ WorkerHandle(c) \/ WorkerReply(c) \/ WorkerRefuse(c) \/ WorkerStopped(c)

-----------------------------------------------------------------------------
(* The clients, and the world the bridge does not control.                 *)

Serving == {"hello", "check", "read", "handle", "reply", "refuse"}
Live == Serving \cup {"stopping"}

(* Connecting is refused once the listener has returned. *)
Connect(c) ==
  /\ client[c] = "new"
  /\ lisPc # "done"
  /\ client' = [client EXCEPT ![c] = "open"]
  /\ backlog' = Append(backlog, c)
  /\ UNCHANGED <<sock, reply, requests>>
  /\ UNCHANGED <<world, running, motion, mainVars, listenerVars, workerVars>>

(* A client may write requests without waiting for replies; those written  *)
(* before the hello arrives are like requests written right after it.      *)
SendRequest(c) ==
  /\ client[c] = "open"
  /\ reply[c] \notin {"none", "busy", "eof"}
  /\ requests < MaxRequests
  /\ \E r \in Requests : sock' = [sock EXCEPT ![c] = Append(@, r)]
  /\ requests' = requests + 1
  /\ UNCHANGED <<client, reply>>
  /\ UNCHANGED <<world, running, motion, mainVars, listenerVars, backlog, workerVars>>

(* The client closes its socket, or its process dies; after the bridge has *)
(* dropped the connection that changes nothing.                            *)
Disconnect(c) ==
  /\ client[c] = "open"
  /\ reply[c] \notin {"busy", "eof"}
  /\ client' = [client EXCEPT ![c] = "closed"]
  /\ UNCHANGED <<sock, reply, requests>>
  /\ UNCHANGED <<world, running, motion, mainVars, listenerVars, backlog, workerVars>>

Client(c) ==
  /\ ~Ended
  /\ Connect(c) \/ SendRequest(c) \/ Disconnect(c)

(* The Ctrl-C handler. *)
Signal ==
  /\ ~Ended
  /\ running
  /\ running' = FALSE
  /\ UNCHANGED <<world, motion, mainVars, listenerVars, backlog, workerVars, clientVars>>

RosLost ==
  /\ ~Ended
  /\ "ros" \in Faults
  /\ rosOk
  /\ rosOk' = FALSE
  /\ UNCHANGED <<now, running, motion, mainVars, listenerVars, backlog, workerVars, clientVars>>

(* The clock runs to MaxTime, and on until a stored command has expired. *)
Tick ==
  /\ ~Ended
  /\ now < MaxTime \/ InForce(now)
  /\ now' = now + 1
  /\ UNCHANGED <<rosOk, running, motion, mainVars, listenerVars, backlog, workerVars, clientVars>>

Terminated ==
  /\ Ended
  /\ UNCHANGED vars

Next ==
  \/ Main
  \/ Listener
  \/ \E c \in Conns : Worker(c)
  \/ \E c \in Conns : Client(c)
  \/ Signal
  \/ RosLost
  \/ Tick
  \/ Terminated

Spec == Init /\ [][Next]_vars

(* Every thread of the process is scheduled and every blocking call it     *)
(* makes has a timeout, and time passes.  Nothing is assumed of clients,   *)
(* signals, ROS, or whether a fallible call succeeds.                      *)
Fairness ==
  /\ WF_vars(Main)
  /\ WF_vars(Listener)
  /\ \A c \in Conns : WF_vars(Worker(c))
  /\ WF_vars(Tick)

FairSpec == Spec /\ Fairness

-----------------------------------------------------------------------------
(* Properties. *)

TypeOK ==
  /\ now \in Nat
  /\ running \in BOOLEAN
  /\ rosOk \in BOOLEAN
  /\ command \in Twists
  /\ deadline \in Nat \cup {Never}
  /\ armedBy \in Conns \cup {NoConn}
  /\ armedAt \in Nat
  /\ mainPc \in {"first", "check", "sample", "lock", "send", "closing",
                 "lastZero", "shutdown", "join", "exited", "aborted"}
  /\ sample \in Nat
  /\ picked \in Twists \cup {NoTwist}
  /\ pickedAt \in Nat
  /\ sent \in Twists
  /\ stopFailed \in BOOLEAN
  /\ lisPc \in {"check", "accept", "arrived", "reject", "arm", "spawn", "join", "done"}
  /\ arrived \in Conns \cup {NoConn}
  /\ owner \in Conns \cup {NoConn}
  /\ backlog \in Seq(Conns)
  /\ wpc \in [Conns -> Live \cup {"none", "finished"}]
  /\ pending \in [Conns -> Seq(Requests)]
  /\ response \in [Conns -> {"none", "velocity", "stop", "pong", "error"}]
  /\ client \in [Conns -> {"new", "open", "closed"}]
  /\ sock \in [Conns -> Seq(Requests)]
  /\ reply \in [Conns -> {"none", "hello", "busy", "velocity", "stop", "pong", "error", "eof"}]
  /\ requests \in Nat

(* A twist that moves the robot is handed to ROS only if the client asked  *)
(* for it less than the maximum timeout before the instant at which the    *)
(* publishing loop looked, although that instant is taken before the mutex *)
(* and the command may be cleared or replaced before the twist is sent.    *)
NoStalePublication ==
  mainPc = "send" /\ picked \in Cmds => sample < pickedAt + MaxTimeout

(* At most one worker serves or has yet to stop the robot, and the         *)
(* listener holds its handle: `owner` is taken only once is_finished.      *)
(* Control is not taken for a connection that never got a worker.          *)
SingleOwner ==
  /\ \A c \in Conns : wpc[c] \in Live => owner = c
  /\ owner # NoConn => wpc[owner] # "none"

(* A command that moves the robot was stored by the worker the listener    *)
(* holds, and that worker has not made its final stop: no command outlives *)
(* its client or passes to the next one.                                   *)
MotionBelongsToOwner ==
  command \in Cmds => armedBy \in Conns /\ owner = armedBy /\ wpc[armedBy] \in Live

(* From the reply to `stop` until the owner's next request is handled the  *)
(* motion state is zero, whoever else connects or is turned away.          *)
StopAckMeansStopped ==
  \A c \in Conns :
    reply[c] = "stop" /\ wpc[c] \in {"check", "read", "handle"} => command = Zero

(* When main returns through shutdown() the listener has joined the last   *)
(* worker, no command is left, and the robot was told to stop last unless  *)
(* that send failed.                                                       *)
CleanShutdown ==
  mainPc = "exited" =>
    /\ lisPc = "done"
    /\ \A c \in Conns : wpc[c] \in {"none", "finished"}
    /\ command = Zero
    /\ sent = Zero \/ stopFailed

(* An unexpired command is replaced or cleared only by the worker of the   *)
(* client that gave it or by the bridge's shutdown: not by a client that   *)
(* is told "busy", and not by a publishing loop that looked too early.     *)
LiveCommandIsOwnersToCancel ==
  [][InForce(now) /\ command # Zero /\ <<command, deadline>>' # <<command, deadline>>
       => wpc'[armedBy] # wpc[armedBy] \/ mainPc = "shutdown"]_vars

(* The bridge implements the lease: the holder is the connection whose     *)
(* worker has not made its final stop, and the publisher holds at most one *)
(* twist that the motion state no longer contains.                         *)
Holder ==
  IF owner # NoConn /\ wpc[owner] \in Live THEN owner ELSE NoConn

Lease == INSTANCE MotionLease WITH
  Clients <- Conns,
  Nobody <- NoConn,
  Twists <- Twists,
  Zero <- Zero,
  Nothing <- NoTwist,
  holder <- Holder,
  cmd <- command,
  latched <- picked,
  out <- sent,
  open <- mainPc \in {"first", "check", "sample", "lock", "send"}

ImplementsLease == Lease!Spec

(* A client that has gone away gives the bridge back, whatever requests it *)
(* left behind and whatever the others do.                                 *)
DisconnectFreesBridge ==
  \A c \in Conns :
    client[c] = "closed" /\ wpc[c] \in Live ~> wpc[c] = "finished" \/ Ended

(* Ctrl-C ends the process: every thread the shutdown joins notices it.    *)
SignalShutsDown == ~running ~> Ended

(* Requests being finite, the robot ends up stopped, without any client    *)
(* disconnecting or sending `stop`: the last command runs into its         *)
(* deadline.  Only a failed last send leaves it to the robot.              *)
RobotStops == <>[](sent = Zero \/ stopFailed)
=============================================================================
