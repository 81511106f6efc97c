------------------------ MODULE BridgeControlProofs ------------------------
(***************************************************************************)
(* Proofs about BridgeControl for any set of connections, requests, twists *)
(* and faults and any bounds.                                              *)
(***************************************************************************)
EXTENDS BridgeControl, SequenceTheorems, TLAPS

-----------------------------------------------------------------------------
(* Type correctness. *)

(* A worker about to handle a line has one, so Head and Tail are defined. *)
LinePending == \A c \in Conns : wpc[c] = "handle" => pending[c] # <<>>

(* The publishing loop has a twist to send when it is about to send. *)
TwistPicked == mainPc = "send" <=> picked # NoTwist

(* The listener deals with a connection between accepting it and looking   *)
(* for the next.                                                           *)
ConnArrived == lisPc \in {"arrived", "reject", "arm", "spawn"} => arrived \in Conns

TypeInv == TypeOK /\ LinePending /\ TwistPicked /\ ConnArrived

(* An accepted line carries a twist and a timeout. *)
LEMMA VelocityFields ==
  ASSUME NEW r \in Requests, r.type = "velocity"
  PROVE  r.cmd \in Twists /\ r.timeout \in Nat
  BY BridgeAssumption DEF AllRequests

LEMMA InitType == Init => TypeInv
<1> SUFFICES ASSUME Init PROVE TypeInv OBVIOUS
<1>1. <<>> \in Seq(Conns) /\ <<>> \in Seq(Requests) OBVIOUS
<1>3. [c \in Conns |-> <<>>] \in [Conns -> Seq(Requests)] BY <1>1
<1>2. running \in BOOLEAN /\ rosOk \in BOOLEAN /\ stopFailed \in BOOLEAN BY Zenon DEF Init
<1> QED BY <1>1, <1>2, <1>3, BridgeAssumption DEF Init, TypeInv, TypeOK, LinePending, TwistPicked, ConnArrived, Twists, Never

LEMMA MainType ==
  ASSUME TypeInv, Main
  PROVE  TypeInv'
<1> USE BridgeAssumption DEF TypeInv, TypeOK, LinePending, TwistPicked, ConnArrived, world, motion, listenerVars,
        workerVars, clientVars, Twists, Never
<1>1. CASE MainFirst BY <1>1 DEF MainFirst
<1>2. CASE MainCheck BY <1>2 DEF MainCheck
<1>3. CASE MainSample BY <1>3 DEF MainSample
<1>4. CASE MainLock BY <1>4 DEF MainLock, StopMotion
<1>5. CASE MainSend BY <1>5 DEF MainSend
<1>6. CASE MainClosing
  <2>1. running' \in BOOLEAN BY <1>6, Zenon DEF MainClosing
  <2> QED BY <1>6, <2>1 DEF MainClosing
<1>7. CASE MainLastZero
  <2>1. stopFailed' \in BOOLEAN BY <1>7, Zenon DEF MainLastZero
  <2>2. sent' \in Twists BY <1>7 DEF MainLastZero
  <2>3. UNCHANGED <<sample, picked, pickedAt, world, running, motion, listenerVars,
                    backlog, workerVars, clientVars>>
    BY <1>7 DEF MainLastZero
  <2>4. mainPc = "lastZero" /\ mainPc' = "shutdown" BY <1>7 DEF MainLastZero
  <2> QED BY <2>1, <2>2, <2>3, <2>4
<1>8. CASE MainShutdown BY <1>8 DEF MainShutdown, StopMotion
<1>9. CASE MainJoin BY <1>9 DEF MainJoin
<1> QED BY <1>1, <1>2, <1>3, <1>4, <1>5, <1>6, <1>7, <1>8, <1>9 DEF Main

LEMMA ListenerType ==
  ASSUME TypeInv, Listener
  PROVE  TypeInv'
<1> USE BridgeAssumption DEF TypeInv, TypeOK, LinePending, TwistPicked, ConnArrived, world, motion, mainVars,
        workerVars, clientVars, Twists, Never, Live, Serving
<1>1. CASE ListenerCheck BY <1>1 DEF ListenerCheck
<1>2. CASE ListenerAccept
  <2>1. CASE backlog = <<>> BY <1>2, <2>1 DEF ListenerAccept
  <2>2. CASE backlog # <<>>
    <3>1. Head(backlog) \in Conns /\ Tail(backlog) \in Seq(Conns)
      BY <2>2, HeadTailProperties
    <3>2. backlog' \in Seq(Conns) /\ arrived' \in Conns /\ lisPc' = "arrived"
      BY <1>2, <2>2, <3>1 DEF ListenerAccept
    <3>3. UNCHANGED <<owner, world, running, motion, mainVars, workerVars, clientVars>>
      BY <1>2 DEF ListenerAccept
    <3> QED BY <3>2, <3>3
  <2> QED BY <2>1, <2>2
<1>3. CASE ListenerArrived BY <1>3 DEF ListenerArrived
<1>4. CASE ListenerReject
  <2>1. PICK last \in {"busy", "eof"} : reply' = [reply EXCEPT ![arrived] = last]
    BY <1>4 DEF ListenerReject, ListenerRejectWhen
  <2> QED BY <1>4, <2>1 DEF ListenerReject, ListenerRejectWhen
<1>5. CASE ListenerArm BY <1>5 DEF ListenerArm, StopMotion
<1>6. CASE ListenerSpawn
  <2>1. CASE owner' = arrived /\ wpc' = [wpc EXCEPT ![arrived] = "hello"] /\ UNCHANGED reply
    BY <1>6, <2>1 DEF ListenerSpawn, ListenerSpawnElse
  <2>2. CASE reply' = [reply EXCEPT ![arrived] = "eof"] /\ owner' = NoConn /\ UNCHANGED wpc
    BY <1>6, <2>2 DEF ListenerSpawn, ListenerSpawnElse
  <2> QED BY <1>6, <2>1, <2>2 DEF ListenerSpawn, ListenerSpawnElse
<1>7. CASE ListenerJoin BY <1>7 DEF ListenerJoin
<1> QED BY <1>1, <1>2, <1>3, <1>4, <1>5, <1>6, <1>7 DEF Listener

LEMMA WorkerType ==
  ASSUME TypeInv, NEW c \in Conns, Worker(c)
  PROVE  TypeInv'
<1> USE BridgeAssumption DEF TypeInv, TypeOK, LinePending, TwistPicked, ConnArrived, world, motion, mainVars,
        listenerVars, clientVars, Live, Serving, Goto
<1>0. <<>> \in Seq(Requests) BY EmptySeq
<1>a. ASSUME Leave(c), UNCHANGED <<world, running, motion, mainVars, listenerVars, backlog>>
      PROVE  TypeInv'
  BY <1>0, <1>a DEF Leave
<1>1. CASE WorkerHello(c)
  <2>1. CASE Leave(c) BY <1>1, <1>a, <2>1 DEF WorkerHello
  <2>2. CASE /\ Goto(c, "check")
             /\ reply' = [reply EXCEPT ![c] = "hello"]
             /\ UNCHANGED <<pending, response, client, sock, requests>>
    BY <1>1, <2>2 DEF WorkerHello
  <2> QED BY <1>1, <2>1, <2>2 DEF WorkerHello
<1>2. CASE WorkerCheck(c)
  <2>1. CASE Leave(c) BY <1>2, <1>a, <2>1 DEF WorkerCheck
  <2>2. CASE Goto(c, "read") /\ UNCHANGED <<pending, response, clientVars>>
    BY <1>2, <2>2 DEF WorkerCheck
  <2> QED BY <1>2, <2>1, <2>2 DEF WorkerCheck
<1>3. CASE WorkerRead(c)
  <2>1. PICK n \in 1..Len(sock[c]) :
          /\ pending' = [pending EXCEPT ![c] = SubSeq(sock[c], 1, n)]
          /\ sock' = [sock EXCEPT ![c] = SubSeq(@, n + 1, Len(@))]
    BY <1>3 DEF WorkerRead
  <2>2. sock[c] \in Seq(Requests) OBVIOUS
  <2>3. \A i \in 1..Len(sock[c]) : sock[c][i] \in Requests BY <2>2, ElementOfSeq
  <2>4. SubSeq(sock[c], 1, n) \in Seq(Requests) /\ Len(SubSeq(sock[c], 1, n)) = n
    BY <2>2, <2>3, SubSeqProperties, LenProperties
  <2>5. SubSeq(sock[c], n + 1, Len(sock[c])) \in Seq(Requests)
    BY <2>2, <2>3, SubSeqProperties, LenProperties
  <2>6. SubSeq(sock[c], 1, n) # <<>>
    <3>1. n # 0 /\ Len(<<>>) = 0 BY <2>2, LenProperties, EmptySeq
    <3>2. Len(SubSeq(sock[c], 1, n)) # Len(<<>>) BY <2>4, <3>1, Zenon
    <3> QED BY <3>2, Zenon
  <2>7. PICK p \in Seq(Requests) : p # <<>> /\ pending' = [pending EXCEPT ![c] = p]
    BY <2>1, <2>4, <2>6
  <2>8. PICK q \in Seq(Requests) : sock' = [sock EXCEPT ![c] = q]
    BY <2>1, <2>5
  <2>9. wpc' = [wpc EXCEPT ![c] = "handle"] /\ UNCHANGED <<response, client, reply, requests>>
    BY <1>3 DEF WorkerRead
  <2>10. UNCHANGED <<world, running, motion, mainVars, listenerVars, backlog>>
    BY <1>3 DEF WorkerRead
  <2> QED BY <2>7, <2>8, <2>9, <2>10
<1>4. CASE WorkerReadTimeout(c) BY <1>4 DEF WorkerReadTimeout, workerVars
<1>5. CASE WorkerReadEnd(c) BY <1>5, <1>a DEF WorkerReadEnd
<1>6. CASE WorkerHandle(c)
  <2>1. pending[c] \in Seq(Requests) /\ pending[c] # <<>> BY <1>6 DEF WorkerHandle
  <2> DEFINE r == Head(pending[c])
  <2>2. r \in Requests /\ Tail(pending[c]) \in Seq(Requests) BY <2>1, HeadTailProperties
  <2> HIDE DEF r
  <2>3. PICK rest \in Seq(Requests) : pending' = [pending EXCEPT ![c] = rest]
    BY <1>6, <2>2 DEF WorkerHandle
  <2>4. UNCHANGED <<world, running, mainVars, listenerVars, backlog, clientVars>>
    BY <1>6 DEF WorkerHandle
  <2>5. CASE HandleVelocity(c, r)
    <3>1. r.cmd \in Twists /\ r.timeout \in Nat
      BY <2>2, <2>5, VelocityFields DEF HandleVelocity
    <3>2. CASE StoreVelocity(c, r) /\ response' = [response EXCEPT ![c] = "velocity"]
      BY <2>3, <2>4, <2>5, <3>1, <3>2 DEF HandleVelocity, StoreVelocity
    <3>3. CASE UNCHANGED motion /\ response' = [response EXCEPT ![c] = "error"]
      BY <2>3, <2>4, <2>5, <3>3 DEF HandleVelocity
    <3> QED BY <2>5, <3>2, <3>3 DEF HandleVelocity
  <2>6. CASE HandleStop(c, r)
    BY <2>3, <2>4, <2>6 DEF HandleStop, StopMotion, Twists
  <2>7. CASE HandleOther(c, r) BY <2>3, <2>4, <2>7 DEF HandleOther
  <2>8. CASE HandleOverlong(c, r) BY <2>3, <2>4, <2>8 DEF HandleOverlong
  <2> QED BY <1>6, <2>5, <2>6, <2>7, <2>8 DEF WorkerHandle, r
<1>7. CASE WorkerReply(c)
  <2>1. CASE Leave(c) BY <1>7, <1>a, <2>1 DEF WorkerReply
  <2>2. CASE /\ Goto(c, IF pending[c] = <<>> THEN "check" ELSE "handle")
             /\ reply' = [reply EXCEPT ![c] = response[c]]
             /\ response' = [response EXCEPT ![c] = "none"]
             /\ UNCHANGED <<pending, client, sock, requests>>
    BY <1>7, <2>2 DEF WorkerReply
  <2> QED BY <1>7, <2>1, <2>2 DEF WorkerReply
<1>8. CASE WorkerRefuse(c) BY <1>8, <1>a DEF WorkerRefuse
<1>9. CASE WorkerStopped(c) BY <1>9 DEF WorkerStopped, StopMotion, Twists
<1> QED BY <1>1, <1>2, <1>3, <1>4, <1>5, <1>6, <1>7, <1>8, <1>9 DEF Worker

LEMMA ClientType ==
  ASSUME TypeInv, NEW c \in Conns, Client(c)
  PROVE  TypeInv'
<1> USE DEF TypeInv, TypeOK, LinePending, TwistPicked, ConnArrived, world, motion, mainVars, listenerVars, workerVars
<1>1. CASE Connect(c)
  <2>1. Append(backlog, c) \in Seq(Conns) BY AppendProperties
  <2> QED BY <1>1, <2>1 DEF Connect
<1>2. CASE SendRequest(c)
  <2>1. PICK r \in Requests : sock' = [sock EXCEPT ![c] = Append(@, r)]
    BY <1>2 DEF SendRequest
  <2>2. Append(sock[c], r) \in Seq(Requests) BY AppendProperties
  <2> QED BY <1>2, <2>1, <2>2 DEF SendRequest
<1>3. CASE Disconnect(c) BY <1>3 DEF Disconnect
<1> QED BY <1>1, <1>2, <1>3 DEF Client

LEMMA NextType == TypeInv /\ [Next]_vars => TypeInv'
<1> SUFFICES ASSUME TypeInv, [Next]_vars PROVE TypeInv' OBVIOUS
<1> USE DEF TypeInv, TypeOK, LinePending, TwistPicked, ConnArrived, world, motion, mainVars, listenerVars,
        workerVars, clientVars
<1>1. CASE Main BY <1>1, MainType
<1>2. CASE Listener BY <1>2, ListenerType
<1>3. CASE \E c \in Conns : Worker(c) BY <1>3, WorkerType
<1>4. CASE \E c \in Conns : Client(c) BY <1>4, ClientType
<1>5. CASE Signal
  <2>1. running' \in BOOLEAN BY <1>5, Zenon DEF Signal
  <2> QED BY <1>5, <2>1 DEF Signal
<1>6. CASE RosLost
  <2>1. rosOk' \in BOOLEAN BY <1>6, Zenon DEF RosLost
  <2> QED BY <1>6, <2>1 DEF RosLost
<1>7. CASE Tick BY <1>7 DEF Tick
<1>8. CASE UNCHANGED vars BY <1>8 DEF vars
<1> QED BY <1>1, <1>2, <1>3, <1>4, <1>5, <1>6, <1>7, <1>8 DEF Next, Terminated

LEMMA TypeInvariant == Spec => []TypeInv
  BY InitType, NextType, PTL DEF Spec

(* Every variable keeps its type. *)
THEOREM TypeCorrect == Spec => []TypeOK
<1>1. TypeInv => TypeOK BY DEF TypeInv
<1> QED BY <1>1, TypeInvariant, PTL

-----------------------------------------------------------------------------
(* The inductive invariant. *)

(* While the listener takes a connection on it holds no worker, and having *)
(* joined the last one it holds none again.                                *)
Ownership ==
  /\ SingleOwner
  /\ lisPc \in {"arm", "spawn", "done"} => owner = NoConn

(* A stored deadline was set by a worker that has not stopped, within the  *)
(* maximum timeout; without a deadline the command is zero.                *)
Armed ==
  /\ deadline # Never =>
       /\ armedBy \in Conns
       /\ wpc[armedBy] \in Live
       /\ deadline <= armedAt + MaxTimeout
  /\ deadline = Never => command = Zero

(* What the publishing loop holds was in force when it looked. *)
Looked ==
  /\ sample <= now
  /\ NoStalePublication

(* The stop a worker is about to acknowledge, or was the last it           *)
(* acknowledged, is in force.                                              *)
Acked ==
  \A c \in Conns :
    \/ wpc[c] \in {"check", "read", "handle"} /\ reply[c] = "stop"
    \/ wpc[c] = "reply" /\ response[c] = "stop"
    => command = Zero

(* Before its loop main has sent nothing that moves the robot, past it main *)
(* has told the robot to stop, and it exits only after the listener.       *)
Closing ==
  /\ mainPc = "first" => sent = Zero
  /\ mainPc = "exited" => lisPc = "done"
  /\ mainPc \in {"shutdown", "join", "exited"} => sent = Zero \/ stopFailed

IInv == TypeInv /\ Ownership /\ Armed /\ Looked /\ Acked /\ Closing

(* What a step of a worker can do to the rest: its place stays live until  *)
(* its final stop, and the motion state is left alone, cleared, or set to  *)
(* an accepted request of this connection.                                 *)
Stores(c) ==
  /\ armedBy' = c
  /\ armedAt' = now
  /\ deadline' \in Nat
  /\ deadline' <= now + MaxTimeout
  /\ wpc' = [wpc EXCEPT ![c] = "reply"]
  /\ response' = [response EXCEPT ![c] = "velocity"]

LEMMA WorkerStep ==
  ASSUME TypeInv, NEW c \in Conns, Worker(c)
  PROVE  /\ wpc[c] \in Live
         /\ \E pc \in Live \cup {"finished"} :
              /\ wpc' = [wpc EXCEPT ![c] = pc]
              /\ pc = "finished" => StopMotion
         /\ UNCHANGED motion \/ StopMotion \/ Stores(c)
         /\ UNCHANGED <<world, running, mainVars, listenerVars>>
<1> USE DEF Live, Serving, Goto
<1>a. ASSUME Leave(c) PROVE wpc' = [wpc EXCEPT ![c] = "stopping"] BY <1>a DEF Leave
<1>1. CASE WorkerHello(c) BY <1>1, <1>a DEF WorkerHello
<1>2. CASE WorkerCheck(c)
  <2>1. \/ wpc' = [wpc EXCEPT ![c] = "read"]
        \/ wpc' = [wpc EXCEPT ![c] = "stopping"]
    BY <1>2, <1>a, Zenon DEF WorkerCheck
  <2> QED BY <1>2, <2>1 DEF WorkerCheck
<1>3. CASE WorkerRead(c) BY <1>3 DEF WorkerRead
<1>4. CASE WorkerReadTimeout(c) BY <1>4 DEF WorkerReadTimeout
<1>5. CASE WorkerReadEnd(c) BY <1>5, <1>a DEF WorkerReadEnd
<1>6. CASE WorkerHandle(c)
  <2> DEFINE r == Head(pending[c])
  <2>1. r \in Requests
    BY <1>6, HeadTailProperties DEF WorkerHandle, TypeInv, TypeOK, LinePending
  <2> HIDE DEF r
  <2>2. wpc[c] = "handle" /\ UNCHANGED <<world, running, mainVars, listenerVars>>
    BY <1>6 DEF WorkerHandle
  <2>3. CASE HandleVelocity(c, r)
    <3>1. r.timeout \in Nat BY <2>1, <2>3, VelocityFields DEF HandleVelocity
    <3>2. CASE UNCHANGED motion BY <2>2, <2>3, <3>2 DEF HandleVelocity
    <3>3. CASE /\ AcceptedTimeout(r.timeout)
               /\ StoreVelocity(c, r)
               /\ response' = [response EXCEPT ![c] = "velocity"]
      <4>1. r.timeout <= MaxTimeout BY <3>3 DEF AcceptedTimeout
      <4>2. Stores(c)
        BY <2>3, <3>1, <3>3, <4>1, BridgeAssumption
           DEF HandleVelocity, StoreVelocity, Stores, TypeInv, TypeOK
      <4> QED BY <2>2, <4>2 DEF Stores
    <3> QED BY <2>3, <3>2, <3>3 DEF HandleVelocity
  <2>4. CASE HandleStop(c, r) BY <2>2, <2>4 DEF HandleStop
  <2>5. CASE HandleOther(c, r) BY <2>2, <2>5 DEF HandleOther
  <2>6. CASE HandleOverlong(c, r) BY <2>2, <2>6 DEF HandleOverlong
  <2> QED BY <1>6, <2>3, <2>4, <2>5, <2>6 DEF WorkerHandle, r
<1>7. CASE WorkerReply(c) BY <1>7, <1>a DEF WorkerReply
<1>8. CASE WorkerRefuse(c) BY <1>8, <1>a DEF WorkerRefuse
<1>9. CASE WorkerStopped(c) BY <1>9 DEF WorkerStopped
<1> QED BY <1>1, <1>2, <1>3, <1>4, <1>5, <1>6, <1>7, <1>8, <1>9 DEF Worker

(* A worker's step changes its place. *)
LEMMA WorkerMoves ==
  ASSUME TypeInv, NEW c \in Conns, Worker(c)
  PROVE  wpc'[c] # wpc[c]
<1> USE DEF TypeInv, TypeOK, Goto
<1>a. ASSUME Leave(c) PROVE wpc'[c] = "stopping" BY <1>a DEF Leave
<1>1. CASE WorkerHello(c) BY <1>1, <1>a DEF WorkerHello
<1>2. CASE WorkerCheck(c)
  <2>1. wpc[c] = "check" BY <1>2 DEF WorkerCheck
  <2>2. wpc'[c] = "stopping" \/ wpc' = [wpc EXCEPT ![c] = "read"]
    BY <1>2, <1>a, Zenon DEF WorkerCheck
  <2> QED BY <2>1, <2>2
<1>3. CASE WorkerRead(c) BY <1>3 DEF WorkerRead
<1>4. CASE WorkerReadTimeout(c) BY <1>4 DEF WorkerReadTimeout
<1>5. CASE WorkerReadEnd(c) BY <1>5, <1>a DEF WorkerReadEnd
<1>6. CASE WorkerHandle(c)
  BY <1>6 DEF WorkerHandle, HandleVelocity, HandleStop, HandleOther, HandleOverlong
<1>7. CASE WorkerReply(c) BY <1>7, <1>a DEF WorkerReply
<1>8. CASE WorkerRefuse(c) BY <1>8, <1>a DEF WorkerRefuse
<1>9. CASE WorkerStopped(c) BY <1>9 DEF WorkerStopped
<1> QED BY <1>1, <1>2, <1>3, <1>4, <1>5, <1>6, <1>7, <1>8, <1>9 DEF Worker

(* What a client, the signal, ROS or the clock can change. *)
LEMMA EnvironmentStep ==
  ASSUME TypeInv,
         \/ \E c \in Conns : Client(c)
         \/ Signal \/ RosLost \/ Tick \/ UNCHANGED vars
  PROVE  /\ now \in Nat /\ now' \in {now, now + 1}
         /\ UNCHANGED <<motion, mainVars, listenerVars, wpc, response, reply>>
<1> USE DEF TypeInv, TypeOK
<1>1. CASE \E c \in Conns : Client(c)
  BY <1>1 DEF Client, Connect, SendRequest, Disconnect, world, workerVars
<1>2. CASE Signal BY <1>2 DEF Signal, world, workerVars, clientVars
<1>3. CASE RosLost BY <1>3 DEF RosLost, workerVars, clientVars
<1>4. CASE Tick BY <1>4 DEF Tick, workerVars, clientVars
<1>5. CASE UNCHANGED vars
  BY <1>5 DEF vars, motion, mainVars, listenerVars
<1> QED BY <1>1, <1>2, <1>3, <1>4, <1>5

LEMMA NextCases ==
  ASSUME [Next]_vars
  PROVE  \/ Main
         \/ Listener
         \/ \E c \in Conns : Worker(c)
         \/ \/ \E c \in Conns : Client(c)
            \/ Signal \/ RosLost \/ Tick \/ UNCHANGED vars
  BY DEF Next, Terminated

LEMMA InitInv == Init => IInv
<1> SUFFICES ASSUME Init PROVE IInv OBVIOUS
<1>1. TypeInv BY InitType
<1>2. Ownership BY DEF Init, Ownership, SingleOwner, Live, Serving
<1>3. Armed BY DEF Init, Armed
<1>4. Looked BY BridgeAssumption DEF Init, Looked, NoStalePublication
<1>5. Acked BY DEF Init, Acked
<1>6. Closing BY DEF Init, Closing
<1> QED BY <1>1, <1>2, <1>3, <1>4, <1>5, <1>6 DEF IInv

LEMMA OwnershipStep ==
  ASSUME TypeInv, Ownership, [Next]_vars
  PROVE  Ownership'
<1> USE DEF Ownership, SingleOwner
<1>1. CASE Main
  <2>1. UNCHANGED <<lisPc, owner, wpc>>
    BY <1>1 DEF Main, MainFirst, MainCheck, MainSample, MainLock, MainSend, MainClosing,
                MainLastZero, MainShutdown, MainJoin, listenerVars, workerVars
  <2> QED BY <2>1
<1>2. CASE Listener
  <2> USE DEF workerVars
  <2>1. CASE ListenerCheck BY <2>1 DEF ListenerCheck
  <2>2. CASE ListenerAccept BY <2>2 DEF ListenerAccept
  <2>3. CASE ListenerArrived
    BY <2>3 DEF ListenerArrived, OwnerLives, Live, Serving
  <2>4. CASE ListenerReject BY <2>4 DEF ListenerReject, ListenerRejectWhen
  <2>5. CASE ListenerArm BY <2>5 DEF ListenerArm
  <2>6. CASE ListenerSpawn
    <3>1. owner = NoConn /\ lisPc' = "check" BY <2>6 DEF ListenerSpawn, ListenerSpawnElse
    <3>2. \A c \in Conns : wpc[c] \notin Live BY <3>1, BridgeAssumption
    <3>3. CASE owner' = arrived /\ wpc' = [wpc EXCEPT ![arrived] = "hello"]
      <4>1. \A c \in Conns : c # arrived => wpc'[c] = wpc[c] BY <3>3 DEF TypeInv, TypeOK
      <4>2. arrived \in Conns BY <2>6 DEF ListenerSpawn, ListenerSpawnElse, TypeInv, ConnArrived
      <4>3. wpc'[arrived] = "hello" BY <3>3, <4>2 DEF TypeInv, TypeOK
      <4> QED BY <3>1, <3>2, <3>3, <4>1, <4>3
    <3>4. CASE UNCHANGED wpc /\ owner' = NoConn BY <3>1, <3>2, <3>4
    <3> QED BY <2>6, <3>3, <3>4 DEF ListenerSpawn, ListenerSpawnElse
  <2>7. CASE ListenerJoin
    BY <2>7 DEF ListenerJoin, OwnerLives, Live, Serving
  <2> QED BY <1>2, <2>1, <2>2, <2>3, <2>4, <2>5, <2>6, <2>7 DEF Listener
<1>3. CASE \E c \in Conns : Worker(c)
  <2>1. PICK c \in Conns : Worker(c) BY <1>3
  <2>2. /\ wpc[c] \in Live
        /\ wpc'[c] # "none"
        /\ \A d \in Conns : d # c => wpc'[d] = wpc[d]
        /\ UNCHANGED <<lisPc, owner>>
    BY <2>1, WorkerStep DEF listenerVars, TypeInv, TypeOK, Live, Serving
  <2> QED BY <2>2
<1>4. CASE UNCHANGED <<lisPc, owner, wpc>> BY <1>4
<1> QED BY <1>1, <1>2, <1>3, <1>4, NextCases, EnvironmentStep DEF listenerVars

(* Without a live worker there is no command. *)
LEMMA Unarmed ==
  ASSUME TypeInv, Ownership, Armed, owner = NoConn
  PROVE  deadline = Never /\ command = Zero
  BY BridgeAssumption DEF Ownership, SingleOwner, Armed

LEMMA ArmedStep ==
  ASSUME TypeInv, Ownership, Armed, [Next]_vars
  PROVE  Armed'
<1> USE DEF Armed
<1>a. ASSUME StopMotion PROVE Armed' BY <1>a DEF StopMotion
<1>b. ASSUME UNCHANGED <<motion, wpc>> PROVE Armed' BY <1>b DEF motion
<1>1. CASE Main
  <2>1. UNCHANGED wpc
    BY <1>1 DEF Main, MainFirst, MainCheck, MainSample, MainLock, MainSend, MainClosing,
                MainLastZero, MainShutdown, MainJoin, workerVars
  <2>2. UNCHANGED motion \/ StopMotion
    BY <1>1 DEF Main, MainFirst, MainCheck, MainSample, MainLock, MainSend, MainClosing,
                MainLastZero, MainShutdown, MainJoin
  <2> QED BY <1>a, <1>b, <2>1, <2>2
<1>2. CASE Listener
  <2> USE DEF workerVars
  <2>1. CASE ListenerArm BY <1>a, <2>1 DEF ListenerArm
  <2>2. CASE ListenerSpawn
    <3>1. deadline = Never /\ command = Zero BY <2>2, Unarmed DEF Ownership, ListenerSpawn, ListenerSpawnElse
    <3>2. UNCHANGED motion BY <2>2 DEF ListenerSpawn, ListenerSpawnElse
    <3> QED BY <3>1, <3>2 DEF motion
  <2>3. CASE UNCHANGED <<motion, wpc>> BY <1>b, <2>3
  <2> QED BY <1>2, <2>1, <2>2, <2>3
          DEF Listener, ListenerCheck, ListenerAccept, ListenerArrived, ListenerReject, ListenerRejectWhen, ListenerJoin
<1>3. CASE \E c \in Conns : Worker(c)
  <2>1. PICK c \in Conns : Worker(c) BY <1>3
  <2>2. PICK pc \in Live \cup {"finished"} :
          /\ wpc' = [wpc EXCEPT ![c] = pc]
          /\ pc = "finished" => StopMotion
    BY <2>1, WorkerStep
  <2>3. CASE StopMotion BY <1>a, <2>3
  <2>4. CASE ~StopMotion /\ UNCHANGED motion
    <3>1. pc \in Live BY <2>2, <2>4
    <3>2. \A d \in Conns : wpc[d] \in Live => wpc'[d] \in Live
      BY <2>2, <3>1 DEF TypeInv, TypeOK
    <3> QED BY <2>4, <3>2 DEF motion
  <2>5. CASE Stores(c)
    <3>1. wpc'[c] \in Live BY <2>5 DEF Stores, Live, Serving, TypeInv, TypeOK
    <3>2. deadline' # Never /\ deadline' <= armedAt' + MaxTimeout /\ armedBy' = c
      BY <2>5, BridgeAssumption DEF Stores, Never, TypeInv, TypeOK
    <3> QED BY <3>1, <3>2
  <2> QED BY <2>1, <2>3, <2>4, <2>5, WorkerStep
<1>4. CASE UNCHANGED <<motion, wpc>> BY <1>b, <1>4
<1> QED BY <1>1, <1>2, <1>3, <1>4, NextCases, EnvironmentStep

LEMMA LookedStep ==
  ASSUME TypeInv, Armed, Looked, [Next]_vars
  PROVE  Looked'
<1> USE DEF Looked, NoStalePublication
<1>1. CASE Main
  <2>1. now' = now /\ now \in Nat /\ sample \in Nat
    BY <1>1 DEF Main, MainFirst, MainCheck, MainSample, MainLock, MainSend, MainClosing,
                MainLastZero, MainShutdown, MainJoin, world, TypeInv, TypeOK
  <2>2. CASE MainSample BY <2>1, <2>2 DEF MainSample
  <2>3. CASE MainLock
    <3>1. CASE InForce(sample) /\ picked' = command
      <4>1. deadline \in Nat /\ deadline > sample /\ armedAt \in Nat
        BY <2>1, <3>1 DEF InForce, Never, TypeInv, TypeOK
      <4>2. deadline <= armedAt + MaxTimeout BY <4>1 DEF Armed, Never
      <4>3. sample < armedAt + MaxTimeout BY <2>1, <4>1, <4>2, BridgeAssumption
      <4> QED BY <2>1, <2>3, <4>3 DEF MainLock
    <3>2. CASE picked' = Zero BY <2>1, <2>3, <3>2, BridgeAssumption DEF MainLock
    <3> QED BY <2>3, <3>1, <3>2 DEF MainLock
  <2>4. CASE MainSend BY <2>1, <2>4 DEF MainSend
  <2>5. CASE mainPc' # "send" /\ UNCHANGED sample BY <2>1, <2>5
  <2> QED BY <1>1, <2>2, <2>3, <2>4, <2>5
          DEF Main, MainFirst, MainCheck, MainClosing, MainLastZero, MainShutdown, MainJoin
<1>2. CASE Listener
  BY <1>2 DEF Listener, ListenerCheck, ListenerAccept, ListenerArrived, ListenerReject, ListenerRejectWhen,
              ListenerArm, ListenerSpawn, ListenerSpawnElse, ListenerJoin, world, mainVars
<1>3. CASE \E c \in Conns : Worker(c)
  BY <1>3, WorkerStep DEF world, mainVars
<1>4. CASE now' \in {now, now + 1} /\ UNCHANGED mainVars
  BY <1>4 DEF mainVars, TypeInv, TypeOK
<1> QED BY <1>1, <1>2, <1>3, <1>4, NextCases, EnvironmentStep

(* What a worker's step does to its own replies. *)
LEMMA RepliesStep ==
  ASSUME TypeInv, NEW c \in Conns, Worker(c)
  PROVE  /\ \A d \in Conns \ {c} : /\ wpc'[d] = wpc[d]
                                    /\ reply'[d] = reply[d]
                                    /\ response'[d] = response[d]
         /\ \/ wpc'[c] \in {"stopping", "finished", "refuse"}
            \/ wpc'[c] \in {"check", "read", "handle"} /\ reply'[c] = "hello"
            \/ /\ wpc'[c] \in {"check", "read", "handle"}
               /\ wpc[c] \in {"check", "read", "handle"}
               /\ reply'[c] = reply[c]
               /\ UNCHANGED motion
            \/ /\ wpc[c] = "reply"
               /\ reply'[c] = response[c]
               /\ UNCHANGED motion
               /\ wpc'[c] \in {"check", "handle"}
            \/ wpc'[c] = "reply" /\ (response'[c] = "stop" => StopMotion)
<1> USE DEF TypeInv, TypeOK, Goto, workerVars, clientVars
<1>a. ASSUME Leave(c)
      PROVE  /\ wpc'[c] = "stopping"
             /\ \A d \in Conns \ {c} : /\ wpc'[d] = wpc[d]
                                       /\ reply'[d] = reply[d]
                                       /\ response'[d] = response[d]
  BY <1>a DEF Leave
<1>1. CASE WorkerHello(c)
  <2>1. CASE Leave(c) BY <1>a, <2>1
  <2>2. CASE /\ Goto(c, "check")
             /\ reply' = [reply EXCEPT ![c] = "hello"]
             /\ UNCHANGED <<pending, response, client, sock, requests>>
    BY <2>2
  <2> QED BY <1>1, <2>1, <2>2 DEF WorkerHello
<1>2. CASE WorkerCheck(c)
  <2>1. CASE Leave(c) BY <1>a, <2>1
  <2>2. CASE Goto(c, "read") /\ UNCHANGED <<pending, response, clientVars>>
    BY <1>2, <2>2 DEF WorkerCheck
  <2> QED BY <1>2, <2>1, <2>2 DEF WorkerCheck
<1>3. CASE WorkerRead(c) BY <1>3 DEF WorkerRead
<1>4. CASE WorkerReadTimeout(c) BY <1>4 DEF WorkerReadTimeout
<1>5. CASE WorkerReadEnd(c) BY <1>5, <1>a DEF WorkerReadEnd
<1>6. CASE WorkerHandle(c)
  <2> DEFINE r == Head(pending[c])
  <2> HIDE DEF r
  <2>1. UNCHANGED reply BY <1>6 DEF WorkerHandle
  <2>2. CASE HandleVelocity(c, r) BY <2>1, <2>2 DEF HandleVelocity
  <2>3. CASE HandleStop(c, r) BY <2>1, <2>3 DEF HandleStop
  <2>4. CASE HandleOther(c, r) BY <2>1, <2>4 DEF HandleOther
  <2>5. CASE HandleOverlong(c, r) BY <2>1, <2>5 DEF HandleOverlong
  <2> QED BY <1>6, <2>2, <2>3, <2>4, <2>5 DEF WorkerHandle, r
<1>7. CASE WorkerReply(c)
  <2>1. CASE Leave(c) BY <1>a, <2>1
  <2>2. CASE /\ Goto(c, IF pending[c] = <<>> THEN "check" ELSE "handle")
             /\ reply' = [reply EXCEPT ![c] = response[c]]
             /\ response' = [response EXCEPT ![c] = "none"]
    BY <1>7, <2>2 DEF WorkerReply
  <2> QED BY <1>7, <2>1, <2>2 DEF WorkerReply
<1>8. CASE WorkerRefuse(c) BY <1>8, <1>a DEF WorkerRefuse
<1>9. CASE WorkerStopped(c) BY <1>9 DEF WorkerStopped
<1> QED BY <1>1, <1>2, <1>3, <1>4, <1>5, <1>6, <1>7, <1>8, <1>9 DEF Worker

LEMMA AckedStep ==
  ASSUME TypeInv, Ownership, Armed, Acked, [Next]_vars
  PROVE  Acked'
<1> USE DEF Acked
<1>a. ASSUME StopMotion PROVE Acked' BY <1>a DEF StopMotion
<1>b. ASSUME UNCHANGED <<motion, wpc, reply, response>> PROVE Acked' BY <1>b DEF motion
<1>1. CASE Main
  <2>1. UNCHANGED <<wpc, reply, response>>
    BY <1>1 DEF Main, MainFirst, MainCheck, MainSample, MainLock, MainSend, MainClosing,
                MainLastZero, MainShutdown, MainJoin, workerVars, clientVars
  <2>2. UNCHANGED motion \/ StopMotion
    BY <1>1 DEF Main, MainFirst, MainCheck, MainSample, MainLock, MainSend, MainClosing,
                MainLastZero, MainShutdown, MainJoin
  <2> QED BY <1>a, <1>b, <2>1, <2>2
<1>2. CASE Listener
  <2> USE DEF workerVars, clientVars
  <2>1. CASE ListenerArm BY <1>a, <2>1 DEF ListenerArm
  <2>2. CASE ListenerSpawn
    <3>1. command = Zero /\ command' = Zero
      BY <2>2, Unarmed DEF Ownership, ListenerSpawn, ListenerSpawnElse, motion
    <3> QED BY <3>1
  <2>3. CASE ListenerReject
    <3>1. UNCHANGED <<motion, wpc, response>> BY <2>3 DEF ListenerReject, ListenerRejectWhen
    <3>2. \A c \in Conns : reply'[c] = "stop" => reply[c] = "stop"
      BY <2>3 DEF ListenerReject, ListenerRejectWhen, TypeInv, TypeOK
    <3> QED BY <3>1, <3>2 DEF motion
  <2>4. CASE UNCHANGED <<motion, wpc, reply, response>> BY <1>b, <2>4
  <2> QED BY <1>2, <2>1, <2>2, <2>3, <2>4
          DEF Listener, ListenerCheck, ListenerAccept, ListenerArrived, ListenerJoin
<1>3. CASE \E c \in Conns : Worker(c)
  <2>1. PICK c \in Conns : Worker(c) BY <1>3
  <2>2. CASE StopMotion BY <1>a, <2>2
  <2>3. CASE ~StopMotion
    <3>1. \A d \in Conns \ {c} : wpc'[d] = wpc[d] /\ wpc[d] \notin Live
      BY <2>1, WorkerStep, RepliesStep DEF Ownership, SingleOwner
    <3>2. \A d \in Conns \ {c} : wpc'[d] \notin {"check", "read", "handle", "reply"}
      BY <3>1 DEF Live, Serving
    <3>3. \/ wpc'[c] \in {"check", "read", "handle"} /\ reply'[c] = "stop"
          \/ wpc'[c] = "reply" /\ response'[c] = "stop"
          => command' = Zero
      BY <2>1, <2>3, RepliesStep DEF motion
    <3> QED BY <3>2, <3>3
  <2> QED BY <2>2, <2>3
<1>4. CASE UNCHANGED <<motion, wpc, reply, response>> BY <1>b, <1>4
<1> QED BY <1>1, <1>2, <1>3, <1>4, NextCases, EnvironmentStep

LEMMA ClosingStep ==
  ASSUME TypeInv, Closing, [Next]_vars
  PROVE  Closing'
<1> USE DEF Closing
<1>1. CASE Main
  <2>1. UNCHANGED lisPc
    BY <1>1 DEF Main, MainFirst, MainCheck, MainSample, MainLock, MainSend, MainClosing,
                MainLastZero, MainShutdown, MainJoin, listenerVars
  <2>2. CASE MainLastZero
    <3>1. sent' = Zero \/ stopFailed' BY <2>2, Zenon DEF MainLastZero
    <3>2. mainPc' = "shutdown" BY <2>2 DEF MainLastZero
    <3> QED BY <2>1, <3>1, <3>2
  <2>3. CASE MainShutdown BY <2>1, <2>3 DEF MainShutdown
  <2>4. CASE MainJoin BY <2>1, <2>4 DEF MainJoin
  <2>5. CASE mainPc' \notin {"first", "shutdown", "join", "exited"} BY <2>5
  <2> QED BY <1>1, <2>2, <2>3, <2>4, <2>5
          DEF Main, MainFirst, MainCheck, MainSample, MainLock, MainSend, MainClosing
<1>2. CASE Listener
  BY <1>2 DEF Listener, ListenerCheck, ListenerAccept, ListenerArrived, ListenerReject, ListenerRejectWhen,
              ListenerArm, ListenerSpawn, ListenerSpawnElse, ListenerJoin, mainVars, Ended
<1>3. CASE UNCHANGED <<mainVars, lisPc>> BY <1>3 DEF mainVars
<1>4. CASE \E c \in Conns : Worker(c)
  BY <1>3, <1>4, WorkerStep DEF listenerVars
<1> QED BY <1>1, <1>2, <1>3, <1>4, NextCases, EnvironmentStep DEF listenerVars

LEMMA NextInv == IInv /\ [Next]_vars => IInv'
  BY NextType, OwnershipStep, ArmedStep, LookedStep, AckedStep, ClosingStep DEF IInv

LEMMA Invariant == Spec => []IInv
  BY InitInv, NextInv, PTL DEF Spec

-----------------------------------------------------------------------------
(* The safety properties. *)

(* What the publishing loop sends was asked for within the maximum timeout. *)
THEOREM PublicationFresh == Spec => []NoStalePublication
<1>1. IInv => NoStalePublication BY DEF IInv, Looked
<1> QED BY <1>1, Invariant, PTL

(* One worker at a time serves or has yet to stop the robot. *)
THEOREM OwnerUnique == Spec => []SingleOwner
<1>1. IInv => SingleOwner BY DEF IInv, Ownership
<1> QED BY <1>1, Invariant, PTL

(* A command that moves the robot belongs to the live owner. *)
THEOREM MotionOwned == Spec => []MotionBelongsToOwner
<1>1. ASSUME IInv PROVE MotionBelongsToOwner
  <2>1. SUFFICES ASSUME command \in Cmds
                 PROVE  armedBy \in Conns /\ owner = armedBy /\ wpc[armedBy] \in Live
    BY DEF MotionBelongsToOwner
  <2>2. deadline # Never BY <1>1, <2>1, BridgeAssumption DEF IInv, Armed
  <2> QED BY <1>1, <2>2 DEF IInv, Armed, Ownership, SingleOwner
<1> QED BY <1>1, Invariant, PTL

(* An acknowledged stop is in force until the owner's next request. *)
THEOREM StopAcknowledged == Spec => []StopAckMeansStopped
<1>1. IInv => StopAckMeansStopped BY DEF IInv, Acked, StopAckMeansStopped
<1> QED BY <1>1, Invariant, PTL

(* After a shutdown nothing runs and the robot was told to stop. *)
THEOREM ShutdownClean == Spec => []CleanShutdown
<1>1. ASSUME IInv PROVE CleanShutdown
  <2> SUFFICES ASSUME mainPc = "exited"
               PROVE  /\ lisPc = "done"
                      /\ \A c \in Conns : wpc[c] \in {"none", "finished"}
                      /\ command = Zero
                      /\ sent = Zero \/ stopFailed
    BY DEF CleanShutdown
  <2>1. lisPc = "done" /\ (sent = Zero \/ stopFailed) BY <1>1 DEF IInv, Closing
  <2>2. owner = NoConn BY <1>1, <2>1 DEF IInv, Ownership
  <2>3. \A c \in Conns : wpc[c] \in {"none", "finished"}
    BY <1>1, <2>2, BridgeAssumption DEF IInv, Ownership, SingleOwner, TypeInv, TypeOK
  <2>4. command = Zero BY <1>1, <2>2, Unarmed DEF IInv
  <2> QED BY <2>1, <2>3, <2>4
<1> QED BY <1>1, Invariant, PTL

(* Only its own client's worker or the shutdown takes back a command that  *)
(* has not expired.                                                        *)
THEOREM CommandIsOwners == Spec => LiveCommandIsOwnersToCancel
<1> DEFINE A == InForce(now) /\ command # Zero /\ <<command, deadline>>' # <<command, deadline>>
                  => wpc'[armedBy] # wpc[armedBy] \/ mainPc = "shutdown"
<1>1. ASSUME IInv, [Next]_vars PROVE [A]_vars
  <2> SUFFICES ASSUME InForce(now), <<command, deadline>>' # <<command, deadline>>
               PROVE  wpc'[armedBy] # wpc[armedBy] \/ mainPc = "shutdown"
    OBVIOUS
  <2> USE <1>1 DEF IInv
  <2>1. /\ deadline \in Nat /\ now \in Nat /\ sample \in Nat
        /\ deadline > now /\ sample <= now
    BY DEF InForce, Never, TypeInv, TypeOK, Looked
  <2>2. armedBy \in Conns /\ owner = armedBy /\ wpc[armedBy] \in Live
    BY <2>1 DEF Armed, Never, Ownership, SingleOwner
  <2>3. ~UNCHANGED motion BY DEF motion
  <2>4. CASE Main
    <3>1. ~MainLock BY <2>1, <2>3 DEF MainLock, InForce
    <3> QED BY <2>3, <2>4, <3>1
            DEF Main, MainFirst, MainCheck, MainSample, MainSend, MainClosing,
                MainLastZero, MainShutdown, MainJoin
  <2>5. CASE Listener
    <3>1. ~ListenerArm BY <2>2, BridgeAssumption DEF ListenerArm, Ownership
    <3> QED BY <2>3, <2>5, <3>1
            DEF Listener, ListenerCheck, ListenerAccept, ListenerArrived, ListenerReject, ListenerRejectWhen,
                ListenerSpawn, ListenerSpawnElse, ListenerJoin
  <2>6. CASE \E c \in Conns : Worker(c)
    <3>1. PICK c \in Conns : Worker(c) BY <2>6
    <3>2. c = armedBy BY <2>2, <3>1, WorkerStep DEF Ownership, SingleOwner
    <3>3. wpc'[c] # wpc[c]
      BY <2>3, <3>1, WorkerMoves
    <3> QED BY <3>2, <3>3
  <2> QED BY <2>3, <2>4, <2>5, <2>6, NextCases, EnvironmentStep
<1> QED BY <1>1, Invariant, PTL DEF Spec, LiveCommandIsOwnersToCancel

-----------------------------------------------------------------------------
(* Refinement: the bridge implements MotionLease. *)

LeaseStep == [Lease!Next]_(Lease!vars)

LEMMA LeaseInit == Init => Lease!Init
<1> SUFFICES ASSUME Init PROVE Lease!Init OBVIOUS
<1>1. Holder = NoConn BY DEF Init, Holder
<1>2. mainPc \in {"first", "check", "sample", "lock", "send"} BY DEF Init
<1> QED BY <1>1, <1>2 DEF Init, Lease!Init

(* A step that leaves the lease's state alone. *)
LEMMA LeaseStutter ==
  ASSUME Holder' = Holder, UNCHANGED <<command, picked, sent>>,
         mainPc' \in {"first", "check", "sample", "lock", "send"}
           <=> mainPc \in {"first", "check", "sample", "lock", "send"}
  PROVE  LeaseStep
<1>1. (mainPc' \in {"first", "check", "sample", "lock", "send"})
        = (mainPc \in {"first", "check", "sample", "lock", "send"})
  OBVIOUS
<1> QED BY <1>1 DEF LeaseStep, Lease!vars

LEMMA MainLease ==
  ASSUME IInv, Main
  PROVE  LeaseStep
<1> USE DEF IInv, TypeInv, TwistPicked
<1>0. Holder' = Holder
  BY DEF Main, MainFirst, MainCheck, MainSample, MainLock, MainSend, MainClosing,
         MainLastZero, MainShutdown, MainJoin, listenerVars, workerVars, Holder
<1>1. CASE MainFirst
  <2>1. sent = Zero /\ picked = NoTwist BY <1>1 DEF MainFirst, Closing
  <2>2. CASE mainPc' = "check" /\ sent' = Zero
    BY <1>0, <1>1, <2>1, <2>2, LeaseStutter DEF MainFirst, motion
  <2>3. CASE mainPc' = "aborted" /\ UNCHANGED sent
    <3>1. Lease!Close
      <4>1. UNCHANGED <<command, sent, picked>> BY <1>1, <2>3 DEF MainFirst, motion
      <4>2. ~(mainPc' \in {"first", "check", "sample", "lock", "send"}) BY <2>3
      <4> QED BY <1>0, <2>1, <4>1, <4>2 DEF Lease!Close
    <3> QED BY <3>1 DEF LeaseStep, Lease!Next
  <2> QED BY <1>1, <2>2, <2>3 DEF MainFirst
<1>2. CASE MainCheck
  <2>1. picked = NoTwist /\ UNCHANGED <<command, sent, picked>>
    BY <1>2 DEF MainCheck, motion
  <2>2. CASE mainPc' = "sample" BY <1>0, <1>2, <2>1, <2>2, LeaseStutter DEF MainCheck
  <2>3. CASE mainPc' = "closing"
    <3>1. ~(mainPc' \in {"first", "check", "sample", "lock", "send"}) BY <2>3
    <3>2. Lease!Close BY <1>0, <2>1, <3>1 DEF Lease!Close
    <3> QED BY <3>2 DEF LeaseStep, Lease!Next
  <2> QED BY <1>2, <2>2, <2>3 DEF MainCheck
<1>3. CASE MainSample BY <1>0, <1>3, LeaseStutter DEF MainSample, motion
<1>4. CASE MainLock
  <2>1. mainPc = "lock" /\ mainPc' = "send" /\ picked = NoTwist /\ UNCHANGED sent
    BY <1>4 DEF MainLock
  <2>2. command' \in {command, Zero} /\ picked' = command'
    BY <1>4 DEF MainLock, motion, StopMotion
  <2>3. /\ mainPc \in {"first", "check", "sample", "lock", "send"}
        /\ mainPc' \in {"first", "check", "sample", "lock", "send"}
    BY <2>1
  <2>4. Lease!Latch BY <1>0, <2>1, <2>2, <2>3 DEF Lease!Latch
  <2> QED BY <2>4 DEF LeaseStep, Lease!Next
<1>5. CASE MainSend
  <2>1. mainPc = "send" /\ picked # NoTwist /\ picked' = NoTwist /\ UNCHANGED command
    BY <1>5 DEF MainSend, motion
  <2>2. CASE mainPc' = "check" /\ sent' = picked
    <3>1. /\ mainPc \in {"first", "check", "sample", "lock", "send"}
          /\ mainPc' \in {"first", "check", "sample", "lock", "send"}
      BY <2>1, <2>2
    <3>2. Lease!Emit BY <1>0, <2>1, <2>2, <3>1 DEF Lease!Emit
    <3> QED BY <3>2 DEF LeaseStep, Lease!Next
  <2>3. CASE mainPc' = "closing" /\ UNCHANGED sent
    <3>1. ~(mainPc' \in {"first", "check", "sample", "lock", "send"}) BY <2>3
    <3>2. Lease!Close BY <1>0, <2>1, <2>3, <3>1 DEF Lease!Close
    <3> QED BY <3>2 DEF LeaseStep, Lease!Next
  <2> QED BY <1>5, <2>2, <2>3 DEF MainSend
<1>6. CASE MainClosing BY <1>0, <1>6, LeaseStutter DEF MainClosing, motion
<1>7. CASE MainLastZero
  <2>1. /\ mainPc \notin {"first", "check", "sample", "lock", "send"}
        /\ mainPc' \notin {"first", "check", "sample", "lock", "send"}
        /\ UNCHANGED <<command, picked>>
    BY <1>7 DEF MainLastZero, motion
  <2>2. CASE sent' = Zero
    <3>1. Lease!EmitLastZero BY <1>0, <2>1, <2>2 DEF Lease!EmitLastZero
    <3> QED BY <3>1 DEF LeaseStep, Lease!Next
  <2>3. CASE UNCHANGED sent BY <1>0, <2>1, <2>3, LeaseStutter
  <2> QED BY <1>7, <2>2, <2>3, Zenon DEF MainLastZero
<1>8. CASE MainShutdown
  <2>1. /\ mainPc \notin {"first", "check", "sample", "lock", "send"}
        /\ mainPc' \notin {"first", "check", "sample", "lock", "send"}
        /\ UNCHANGED <<sent, picked>> /\ command' = Zero
    BY <1>8 DEF MainShutdown, StopMotion
  <2>2. Lease!Clear BY <1>0, <2>1 DEF Lease!Clear
  <2> QED BY <2>2 DEF LeaseStep, Lease!Next
<1>9. CASE MainJoin BY <1>0, <1>9, LeaseStutter DEF MainJoin, motion
<1> QED BY <1>1, <1>2, <1>3, <1>4, <1>5, <1>6, <1>7, <1>8, <1>9 DEF Main

LEMMA ListenerLease ==
  ASSUME IInv, Listener
  PROVE  LeaseStep
<1> USE DEF IInv, TypeInv, TypeOK, mainVars, workerVars, Holder
<1>0. UNCHANGED <<mainPc, picked, sent>>
  BY DEF Listener, ListenerCheck, ListenerAccept, ListenerArrived, ListenerReject, ListenerRejectWhen,
         ListenerArm, ListenerSpawn, ListenerSpawnElse, ListenerJoin
<1>1. CASE ListenerCheck \/ ListenerAccept \/ ListenerReject
  <2>1. Holder' = Holder /\ UNCHANGED command
    BY <1>1 DEF ListenerCheck, ListenerAccept, ListenerReject, ListenerRejectWhen, motion
  <2> QED BY <1>0, <2>1, LeaseStutter
<1>2. CASE ListenerArrived \/ ListenerJoin
  <2>1. Holder' = Holder
    BY <1>2 DEF ListenerArrived, ListenerJoin, OwnerLives, Live, Serving
  <2>2. UNCHANGED command BY <1>2 DEF ListenerArrived, ListenerJoin, motion
  <2> QED BY <1>0, <2>1, <2>2, LeaseStutter
<1>3. CASE ListenerArm
  <2>1. Holder' = Holder /\ command' = Zero BY <1>3 DEF ListenerArm, StopMotion
  <2>2. Lease!Clear BY <1>0, <2>1 DEF Lease!Clear
  <2> QED BY <2>2 DEF LeaseStep, Lease!Next
<1>4. CASE ListenerSpawn
  <2>1. owner = NoConn /\ command = Zero /\ UNCHANGED command
    BY <1>4, Unarmed DEF ListenerSpawn, ListenerSpawnElse, Ownership, motion
  <2>2. arrived \in Conns BY <1>4 DEF ListenerSpawn, ListenerSpawnElse, ConnArrived
  <2>3. CASE owner' = NoConn /\ UNCHANGED wpc
    <3>1. Holder' = Holder BY <2>1, <2>3
    <3> QED BY <1>0, <2>1, <3>1, LeaseStutter
  <2>4. CASE owner' = arrived /\ wpc' = [wpc EXCEPT ![arrived] = "hello"]
    <3>1. Holder = NoConn /\ Holder' = arrived
      BY <2>1, <2>2, <2>4, BridgeAssumption DEF Live, Serving
    <3>2. Lease!Acquire(arrived) BY <1>0, <2>1, <3>1 DEF Lease!Acquire
    <3> QED BY <2>2, <3>2 DEF LeaseStep, Lease!Next
  <2> QED BY <1>4, <2>3, <2>4 DEF ListenerSpawn, ListenerSpawnElse
<1> QED BY <1>1, <1>2, <1>3, <1>4 DEF Listener

LEMMA WorkerLease ==
  ASSUME IInv, TypeInv', NEW c \in Conns, Worker(c)
  PROVE  LeaseStep
<1> USE DEF IInv, mainVars
<1>1. UNCHANGED <<mainPc, picked, sent, owner>> BY WorkerStep DEF listenerVars
<1>2. owner = c /\ Holder = c
  BY WorkerStep, BridgeAssumption DEF Ownership, SingleOwner, Holder
<1>3. PICK pc \in Live \cup {"finished"} :
        /\ wpc' = [wpc EXCEPT ![c] = pc]
        /\ pc = "finished" => StopMotion
  BY WorkerStep
<1>4. wpc'[c] = pc BY <1>3 DEF TypeInv, TypeOK
<1>5. CASE pc = "finished"
  <2>1. Holder' = NoConn /\ command' = Zero
    BY <1>1, <1>2, <1>3, <1>4, <1>5 DEF Holder, StopMotion, Live, Serving
  <2>2. Lease!Release BY <1>1, <1>2, <2>1, BridgeAssumption DEF Lease!Release
  <2> QED BY <2>2 DEF LeaseStep, Lease!Next
<1>6. CASE pc \in Live
  <2>1. Holder' = Holder BY <1>1, <1>2, <1>4, <1>6, BridgeAssumption DEF Holder
  <2>2. command' \in Twists BY DEF TypeInv, TypeOK
  <2>3. Lease!Set(command') BY <1>1, <1>2, <2>1, BridgeAssumption DEF Lease!Set
  <2> QED BY <2>2, <2>3 DEF LeaseStep, Lease!Next
<1> QED BY <1>3, <1>5, <1>6

(* The threads, the mutex and the deadlines implement the lease: one       *)
(* holder, its command or zero, and one twist in flight per look.          *)
THEOREM LeaseImplemented == Spec => ImplementsLease
<1>1. ASSUME IInv, IInv', [Next]_vars PROVE LeaseStep
  <2>1. CASE Main BY <1>1, <2>1, MainLease
  <2>2. CASE Listener BY <1>1, <2>2, ListenerLease
  <2>3. CASE \E c \in Conns : Worker(c) BY <1>1, <2>3, WorkerLease DEF IInv
  <2>4. CASE UNCHANGED <<motion, mainVars, listenerVars, wpc>>
    <3>1. Holder' = Holder /\ UNCHANGED <<command, picked, sent, mainPc>>
      BY <2>4 DEF motion, mainVars, listenerVars, Holder
    <3> QED BY <3>1, LeaseStutter
  <2> QED BY <1>1, <2>1, <2>2, <2>3, <2>4, NextCases, EnvironmentStep DEF IInv
<1> QED BY <1>1, LeaseInit, Invariant, PTL DEF Spec, ImplementsLease, Lease!Spec, LeaseStep
=============================================================================
