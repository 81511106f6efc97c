------------------------- MODULE BridgeCameraProofs -------------------------
(***************************************************************************)
(* Theorems about BridgeCamera for every set of connections, limit and     *)
(* number of frames: places are neither leaked nor exceeded, and a         *)
(* connection receives fresh frames, in order, and none it has not asked   *)
(* for.                                                                    *)
(***************************************************************************)
EXTENDS BridgeCamera, FiniteSetTheorems, SequenceTheorems, TLAPS

-----------------------------------------------------------------------------
(* The inductive invariant. *)

Working == {c \in Conns : wpc[c] \in Live}

Admitting == {"count", "refuse", "spawn"}

(* The connections the listener has not decided about. *)
Pending(c) == c = arrived \/ \E i \in 1..Len(backlog) : backlog[i] = c

(* The listener deals with one connection at a time, each only once, and   *)
(* no connection it has not decided about has a worker.                    *)
EachAdmittedOnce ==
  /\ lisPc \in Admitting <=> arrived \in Conns
  /\ \A i \in 1..Len(backlog) : backlog[i] # arrived
  /\ \A i, j \in 1..Len(backlog) : backlog[i] = backlog[j] => i = j
  /\ \A c \in Conns : client[c] = "new" => ~Pending(c)
  /\ \A c \in Conns : client[c] = "new" \/ Pending(c) => wpc[c] = "none"

(* A connection on its way to a worker has a place. *)
RoomForWorker ==
  /\ AtMostMaxClients
  /\ lisPc = "spawn" => Cardinality(Working) < MaxClients

(* What a connection has received is not newer than what its worker has    *)
(* seen, and what it is about to receive is newer.                         *)
NewerNext ==
  /\ jpeg = generation
  /\ \A c \in Conns :
       /\ seen[c] <= generation
       /\ \A i \in 1..Len(got[c]) : got[c][i] <= seen[c]
       /\ wpc[c] = "write" => /\ held[c] = seen[c]
                              /\ \A i \in 1..Len(got[c]) : got[c][i] < held[c]

IInv ==
  /\ TypeOK
  /\ EachAdmittedOnce
  /\ PlacesMatchWorkers
  /\ RoomForWorker
  /\ NewerNext
  /\ FreshFrames
  /\ NoUnaskedFrame

-----------------------------------------------------------------------------
(* Types. *)

LEMMA InitTypes == Init => TypeOK
BY CameraAssumption DEF Init, TypeOK, NoFrame, Live

(* What a worker that leaves keeps of its connection. *)
ConnectionTypes ==
  /\ wpc \in [Conns -> Live \cup {"none", "finished"}]
  /\ seen \in [Conns -> Nat]
  /\ held \in [Conns -> Nat]
  /\ inbox \in [Conns -> Seq(Bytes)]
  /\ client \in [Conns -> {"new", "open", "closed", "dropped", "refused"}]
  /\ asked \in [Conns -> Nat]
  /\ got \in [Conns -> Seq(Nat)]

LEMMA LeaveTypes ==
  ASSUME NEW c \in Conns, ConnectionTypes, Leave(c)
  PROVE  ConnectionTypes'
BY DEF ConnectionTypes, Leave, Goto, NoFrame, Live

(* The count of places is a number as long as it counts something.         *)
LEMMA NextTypes == TypeOK /\ [Next]_vars /\ clients' \in Nat => TypeOK'
<1> SUFFICES ASSUME TypeOK, [Next]_vars, clients' \in Nat PROVE TypeOK'
  OBVIOUS
<1> USE CameraAssumption DEF TypeOK, Live, frameVars, listenerVars, workerVars, clientVars
<1>1. CASE Publish
  BY <1>1 DEF Publish
<1>2. CASE Signal
  BY <1>2 DEF Signal
<1>3. CASE MainLeave
  BY <1>3 DEF MainLeave
<1>4. CASE MainShutdown
  BY <1>4 DEF MainShutdown, MainDropSubscription, MainJoin
<1>5. CASE Listener
  <2>1. CASE ListenerCheck
    BY <2>1 DEF ListenerCheck
  <2>2. CASE ListenerAccept
    <3>1. CASE backlog = <<>>
      BY <2>2, <3>1 DEF ListenerAccept
    <3>2. CASE backlog # <<>>
      <4>1. Head(backlog) \in Conns /\ Tail(backlog) \in Seq(Conns)
        BY <3>2, HeadTailProperties
      <4> QED BY <2>2, <3>2, <4>1 DEF ListenerAccept
    <3> QED BY <3>1, <3>2
  <2>3. CASE ListenerCount
    BY <2>3 DEF ListenerCount
  <2>4. CASE ListenerRefuse
    BY <2>4 DEF ListenerRefuse
  <2>5. CASE ListenerSpawn
    BY <2>5 DEF ListenerSpawn
  <2> QED BY <1>5, <2>1, <2>2, <2>3, <2>4, <2>5 DEF Listener
<1>6. ASSUME NEW c \in Conns, Worker(c) PROVE TypeOK'
  <2>0. Leave(c) => ConnectionTypes'
    BY LeaveTypes DEF ConnectionTypes
  <2> USE DEF Goto, NoFrame
  <2>1. CASE WorkerCheck(c)
    <3>1. CASE running
      BY <2>1, <3>1 DEF WorkerCheck
    <3>2. CASE ~running
      <4>1. /\ ConnectionTypes'
            /\ UNCHANGED <<running, mainPc, frameVars, listenerVars>>
        BY <2>0, <2>1, <3>2 DEF WorkerCheck
      <4> QED BY <4>1 DEF ConnectionTypes
    <3> QED BY <3>1, <3>2
  <2>2. CASE WorkerRead(c)
    <3>1. CASE Head(inbox[c]) = "ask"
      <4>1. Tail(inbox[c]) \in Seq(Bytes)
        BY <2>2, HeadTailProperties DEF WorkerRead
      <4>2. /\ inbox' = [inbox EXCEPT ![c] = Tail(inbox[c])]
            /\ wpc' = [wpc EXCEPT ![c] = "wait"]
            /\ UNCHANGED <<running, mainPc, frameVars, listenerVars, seen, held, client, asked, got>>
        BY <2>2, <3>1 DEF WorkerRead
      <4> QED BY <4>1, <4>2
    <3>2. CASE Head(inbox[c]) # "ask"
      <4>1. /\ ConnectionTypes'
            /\ UNCHANGED <<running, mainPc, frameVars, listenerVars>>
        BY <2>0, <2>2, <3>2 DEF WorkerRead
      <4> QED BY <4>1 DEF ConnectionTypes
    <3> QED BY <3>1, <3>2
  <2>3. CASE WorkerReadTimeout(c)
    BY <2>3 DEF WorkerReadTimeout
  <2>4. CASE WorkerReadEnd(c)
    BY <2>4 DEF WorkerReadEnd, Leave
  <2>5. CASE WorkerTake(c)
    <3>1. CASE jpeg = NoFrame
      BY <2>5, <3>1 DEF WorkerTake
    <3>2. CASE jpeg # NoFrame
      <4>1. /\ seen' = [seen EXCEPT ![c] = generation]
            /\ held' = [held EXCEPT ![c] = jpeg]
            /\ wpc' = [wpc EXCEPT ![c] = "write"]
            /\ UNCHANGED <<running, mainPc, frameVars, listenerVars, clientVars>>
        BY <2>5, <3>2 DEF WorkerTake
      <4> QED BY <4>1
    <3> QED BY <3>1, <3>2
  <2>6. CASE WorkerWaitEnd(c)
    BY <2>6 DEF WorkerWaitEnd, Leave
  <2>7. CASE WorkerWrite(c)
    <3>1. Append(got[c], held[c]) \in Seq(Nat)
      BY AppendProperties
    <3> QED BY <2>7, <3>1 DEF WorkerWrite
  <2>8. CASE WorkerWriteLost(c)
    BY <2>8 DEF WorkerWriteLost, Leave
  <2>9. CASE WorkerWriteToClosed(c)
    BY <2>9 DEF WorkerWriteToClosed
  <2>10. CASE WorkerRelease(c)
    BY <2>10 DEF WorkerRelease
  <2> QED BY <1>6, <2>1, <2>2, <2>3, <2>4, <2>5, <2>6, <2>7, <2>8, <2>9, <2>10 DEF Worker
<1>7. ASSUME NEW c \in Conns, Client(c) PROVE TypeOK'
  <2>1. CASE Connect(c)
    BY <2>1 DEF Connect
  <2>2. CASE Ask(c)
    <3>1. \A b \in Bytes : Append(inbox[c], b) \in Seq(Bytes)
      BY AppendProperties
    <3>2. PICK b \in Bytes : inbox' = [inbox EXCEPT ![c] = Append(inbox[c], b)]
      BY <2>2 DEF Ask
    <3>3. /\ asked' = [asked EXCEPT ![c] = asked[c] + 1]
          /\ UNCHANGED <<client, got, running, mainPc, frameVars, listenerVars, workerVars>>
      BY <2>2 DEF Ask
    <3> QED BY <3>1, <3>2, <3>3
  <2>3. CASE Close(c)
    BY <2>3 DEF Close
  <2> QED BY <1>7, <2>1, <2>2, <2>3 DEF Client
<1>8. CASE UNCHANGED vars
  BY <1>8 DEF vars
<1> QED BY <1>1, <1>2, <1>3, <1>4, <1>5, <1>6, <1>7, <1>8 DEF Next, Terminated

-----------------------------------------------------------------------------
(* What a step of a worker does to the connection's place. *)

LEMMA WorkerStep ==
  ASSUME TypeOK, NEW c \in Conns, Worker(c)
  PROVE  /\ wpc[c] \in Live
         /\ \/ /\ \E pc \in Live : wpc' = [wpc EXCEPT ![c] = pc]
               /\ clients' = clients
            \/ /\ wpc' = [wpc EXCEPT ![c] = "finished"]
               /\ clients' = clients - 1
         /\ client' = client \/ client' = [client EXCEPT ![c] = "dropped"]
         /\ UNCHANGED <<running, mainPc, generation, jpeg, lisPc, arrived, backlog, asked>>
<1> DEFINE Step == /\ wpc[c] \in Live
                   /\ \/ /\ \E pc \in Live : wpc' = [wpc EXCEPT ![c] = pc]
                         /\ clients' = clients
                      \/ /\ wpc' = [wpc EXCEPT ![c] = "finished"]
                         /\ clients' = clients - 1
                   /\ client' = client \/ client' = [client EXCEPT ![c] = "dropped"]
                   /\ UNCHANGED <<running, mainPc, generation, jpeg, lisPc, arrived, backlog, asked>>
<1> USE DEF frameVars, listenerVars, workerVars, clientVars, Live, Goto, NoFrame
<1>0. ASSUME Leave(c), wpc[c] \in Live, UNCHANGED <<running, mainPc, frameVars, listenerVars>>
      PROVE  Step
  <2>1. client' = client \/ client' = [client EXCEPT ![c] = "dropped"]
    <3>1. CASE client[c] = "open"
      BY <1>0, <3>1 DEF Leave, TypeOK
    <3>2. CASE client[c] # "open"
      BY <1>0, <3>2 DEF Leave, TypeOK
    <3> QED BY <3>1, <3>2
  <2> QED BY <1>0, <2>1 DEF Leave
<1>1. CASE WorkerCheck(c)
  BY <1>0, <1>1 DEF WorkerCheck
<1>2. CASE WorkerRead(c)
  BY <1>0, <1>2 DEF WorkerRead
<1>3. CASE WorkerReadTimeout(c)
  BY <1>3 DEF WorkerReadTimeout
<1>4. CASE WorkerReadEnd(c)
  BY <1>0, <1>4 DEF WorkerReadEnd
<1>5. CASE WorkerTake(c)
  BY <1>5 DEF WorkerTake
<1>6. CASE WorkerWaitEnd(c)
  BY <1>0, <1>6 DEF WorkerWaitEnd
<1>7. CASE WorkerWrite(c)
  BY <1>7 DEF WorkerWrite
<1>8. CASE WorkerWriteLost(c)
  BY <1>0, <1>8 DEF WorkerWriteLost
<1>9. CASE WorkerWriteToClosed(c)
  BY <1>9 DEF WorkerWriteToClosed
<1>10. CASE WorkerRelease(c)
  BY <1>10 DEF WorkerRelease
<1> QED BY <1>1, <1>2, <1>3, <1>4, <1>5, <1>6, <1>7, <1>8, <1>9, <1>10 DEF Worker

-----------------------------------------------------------------------------
(* Each connection is dealt with once. *)

LEMMA NextAdmitted == TypeOK /\ EachAdmittedOnce /\ [Next]_vars => EachAdmittedOnce'
<1> SUFFICES ASSUME TypeOK, EachAdmittedOnce, [Next]_vars PROVE EachAdmittedOnce'
  OBVIOUS
<1> USE DEF frameVars, listenerVars, workerVars, clientVars
<1>1. CASE UNCHANGED <<lisPc, arrived, backlog, client, wpc>>
  BY <1>1 DEF EachAdmittedOnce, Pending
<1>2. CASE Listener
  <2>1. CASE ListenerCheck
    BY <2>1 DEF ListenerCheck, EachAdmittedOnce, Pending, Admitting
  <2>2. CASE ListenerAccept /\ backlog = <<>>
    BY <2>2 DEF ListenerAccept, EachAdmittedOnce, Pending, Admitting
  <2>3. CASE ListenerAccept /\ backlog # <<>>
    <3>1. /\ lisPc' = "count"
          /\ arrived' = Head(backlog)
          /\ backlog' = Tail(backlog)
          /\ UNCHANGED <<client, wpc>>
      BY <2>3 DEF ListenerAccept
    <3>2. /\ Len(backlog) \in Nat \ {0}
          /\ Len(backlog') = Len(backlog) - 1
          /\ \A i \in 1..Len(backlog') : backlog'[i] = backlog[i + 1]
          /\ arrived' = backlog[1]
          /\ arrived' \in Conns
      BY <2>3, <3>1, HeadTailProperties, EmptySeq, ElementOfSeq DEF TypeOK
    <3>3. \A i \in 1..Len(backlog') : backlog'[i] # arrived'
      BY <3>2 DEF EachAdmittedOnce
    <3>4. \A i, j \in 1..Len(backlog') : backlog'[i] = backlog'[j] => i = j
      BY <3>2 DEF EachAdmittedOnce
    <3>5. \A c \in Conns : Pending(c)' => Pending(c)
      BY <3>2 DEF Pending
    <3> QED BY <3>1, <3>2, <3>3, <3>4, <3>5 DEF EachAdmittedOnce, Admitting
  <2>4. CASE ListenerCount
    BY <2>4 DEF ListenerCount, EachAdmittedOnce, Pending, Admitting
  <2>5. CASE ListenerRefuse \/ ListenerSpawn
    <3>1. /\ lisPc \in Admitting
          /\ lisPc' = "check"
          /\ arrived' = NoConn
          /\ client' = client \/ client' = [client EXCEPT ![arrived] = "refused"]
          /\ wpc' = wpc \/ wpc' = [wpc EXCEPT ![arrived] = "check"]
          /\ UNCHANGED backlog
      BY <2>5 DEF ListenerRefuse, ListenerSpawn, Admitting
    <3>2. arrived \in Conns /\ NoConn \notin Conns
      BY <3>1, CameraAssumption DEF EachAdmittedOnce
    <3>3. /\ \A i \in 1..Len(backlog) : backlog[i] \in Conns
          /\ \A c \in Conns : Pending(c)' <=> Pending(c) /\ c # arrived
      BY <3>1, <3>2, ElementOfSeq DEF Pending, EachAdmittedOnce, TypeOK
    <3>4. Pending(arrived) /\ wpc[arrived] = "none" /\ client[arrived] # "new"
      BY <3>2 DEF Pending, EachAdmittedOnce
    <3>5. \A c \in Conns : /\ client'[c] = "new" => client[c] = "new" /\ c # arrived
                           /\ c # arrived => wpc'[c] = wpc[c]
      BY <3>1, <3>2, <3>4 DEF TypeOK
    <3> QED BY <3>1, <3>2, <3>3, <3>5 DEF EachAdmittedOnce, Admitting
  <2> QED BY <1>2, <2>1, <2>2, <2>3, <2>4, <2>5 DEF Listener
<1>3. ASSUME NEW c \in Conns, Worker(c) PROVE EachAdmittedOnce'
  <2>1. /\ wpc[c] # "none"
        /\ UNCHANGED <<lisPc, arrived, backlog>>
    BY <1>3, WorkerStep DEF Live
  <2>2. \A d \in Conns : d # c => wpc'[d] = wpc[d]
    BY <1>3, WorkerStep DEF TypeOK
  <2>3. \A d \in Conns : client'[d] = "new" => client[d] = "new"
    <3>1. client' = client \/ client' = [client EXCEPT ![c] = "dropped"]
      BY <1>3, WorkerStep
    <3> QED BY <3>1 DEF TypeOK
  <2> QED BY <2>1, <2>2, <2>3 DEF EachAdmittedOnce, Pending
<1>4. ASSUME NEW c \in Conns, Client(c) PROVE EachAdmittedOnce'
  <2>1. CASE Connect(c)
    <3>1. /\ client[c] = "new"
          /\ client' = [client EXCEPT ![c] = "open"]
          /\ backlog' = Append(backlog, c)
          /\ UNCHANGED <<lisPc, arrived, wpc>>
      BY <2>1 DEF Connect
    <3>2. /\ Len(backlog) \in Nat
          /\ Len(backlog') = Len(backlog) + 1
          /\ \A i \in 1..Len(backlog) : backlog'[i] = backlog[i]
          /\ backlog'[Len(backlog) + 1] = c
      BY <3>1, AppendProperties, LenProperties DEF TypeOK
    <3>3. c # arrived /\ \A i \in 1..Len(backlog) : backlog[i] # c
      BY <3>1 DEF EachAdmittedOnce, Pending
    <3>4. \A d \in Conns : Pending(d)' <=> Pending(d) \/ d = c
      BY <3>1, <3>2 DEF Pending
    <3>5. \A d \in Conns : client'[d] = "new" => client[d] = "new" /\ d # c
      BY <3>1 DEF TypeOK
    <3>6. \A d \in Conns : client'[d] = "new" => ~Pending(d)'
      BY <3>4, <3>5 DEF EachAdmittedOnce
    <3>7. \A d \in Conns : client'[d] = "new" \/ Pending(d)' => wpc'[d] = "none"
      BY <3>1, <3>4, <3>5 DEF EachAdmittedOnce
    <3>8. \A i \in 1..Len(backlog') : backlog'[i] # arrived'
      BY <3>1, <3>2, <3>3 DEF EachAdmittedOnce
    <3>9. \A i, j \in 1..Len(backlog') : backlog'[i] = backlog'[j] => i = j
      BY <3>2, <3>3 DEF EachAdmittedOnce
    <3> QED BY <3>1, <3>6, <3>7, <3>8, <3>9 DEF EachAdmittedOnce
  <2>2. CASE Ask(c)
    BY <1>1, <2>2 DEF Ask
  <2>3. CASE Close(c)
    BY <2>3 DEF Close, EachAdmittedOnce, Pending, TypeOK
  <2> QED BY <1>4, <2>1, <2>2, <2>3 DEF Client
<1>5. CASE Publish \/ Signal \/ MainLeave \/ MainShutdown \/ Terminated \/ UNCHANGED vars
  BY <1>1, <1>5 DEF Publish, Signal, MainLeave, MainShutdown, MainDropSubscription, MainJoin,
                    Terminated, vars
<1> QED BY <1>2, <1>3, <1>4, <1>5 DEF Next

-----------------------------------------------------------------------------
(* Places. *)

LEMMA WorkingFinite == IsFiniteSet(Working) /\ Cardinality(Working) \in Nat
BY CameraAssumption, FS_Subset, FS_CardinalityType DEF Working

(* A change of one connection's place changes the number of workers by at  *)
(* most one.                                                               *)
LEMMA WorkingChange ==
  ASSUME TypeOK, NEW c \in Conns, NEW pc, wpc' = [wpc EXCEPT ![c] = pc]
  PROVE  Cardinality(Working') = Cardinality(Working)
           + (IF pc \in Live THEN 1 ELSE 0) - (IF wpc[c] \in Live THEN 1 ELSE 0)
<1>1. IsFiniteSet(Working) /\ Cardinality(Working) \in Nat
  BY WorkingFinite
<1>2. CASE pc \in Live
  <2>1. Working' = Working \cup {c}
    BY <1>2 DEF Working, TypeOK
  <2>2. c \in Working <=> wpc[c] \in Live
    BY DEF Working
  <2> QED BY <1>1, <1>2, <2>1, <2>2, FS_AddElement
<1>3. CASE pc \notin Live
  <2>1. Working' = Working \ {c}
    BY <1>3 DEF Working, TypeOK
  <2>2. c \in Working <=> wpc[c] \in Live
    BY DEF Working
  <2>3. Cardinality(Working \ {c})
          = IF c \in Working THEN Cardinality(Working) - 1 ELSE Cardinality(Working)
    BY <1>1, FS_RemoveElement
  <2> QED BY <1>1, <1>3, <2>1, <2>2, <2>3
<1> QED BY <1>2, <1>3

LEMMA NextPlaces ==
  ASSUME TypeOK, EachAdmittedOnce, PlacesMatchWorkers, RoomForWorker, [Next]_vars
  PROVE  PlacesMatchWorkers' /\ RoomForWorker'
<1> USE DEF frameVars, listenerVars, workerVars, clientVars
<1> DEFINE n == Cardinality(Working)
<1>0. /\ n \in Nat
      /\ n <= MaxClients /\ MaxClients \in Nat
      /\ clients = n + (IF lisPc \in {"refuse", "spawn"} THEN 1 ELSE 0)
      /\ lisPc = "spawn" => n < MaxClients
  BY WorkingFinite, CameraAssumption DEF PlacesMatchWorkers, RoomForWorker, AtMostMaxClients, Working
<1>9. ASSUME /\ Cardinality(Working') <= MaxClients
             /\ clients' = Cardinality(Working') + (IF lisPc' \in {"refuse", "spawn"} THEN 1 ELSE 0)
             /\ lisPc' = "spawn" => Cardinality(Working') < MaxClients
      PROVE  PlacesMatchWorkers' /\ RoomForWorker'
  BY <1>9 DEF PlacesMatchWorkers, RoomForWorker, AtMostMaxClients, Working
<1>8. UNCHANGED wpc => Cardinality(Working') = n
  BY DEF Working
<1> HIDE DEF n
<1>1. CASE UNCHANGED <<lisPc, clients, wpc>>
  BY <1>0, <1>1, <1>8, <1>9
<1>2. CASE Listener
  <2>1. CASE ListenerCheck
    BY <1>0, <1>8, <1>9, <2>1 DEF ListenerCheck
  <2>2. CASE ListenerAccept
    BY <1>0, <1>8, <1>9, <2>2 DEF ListenerAccept
  <2>3. CASE ListenerCount
    BY <1>0, <1>8, <1>9, <2>3 DEF ListenerCount
  <2>4. CASE ListenerRefuse
    BY <1>0, <1>8, <1>9, <2>4 DEF ListenerRefuse
  <2>5. CASE ListenerSpawn
    <3>1. CASE wpc' = [wpc EXCEPT ![arrived] = "check"] /\ clients' = clients
      <4>1. arrived \in Conns /\ wpc[arrived] = "none"
        BY <2>5 DEF ListenerSpawn, EachAdmittedOnce, Pending, Admitting
      <4>2. "check" \in Live /\ wpc[arrived] \notin Live
        BY <4>1 DEF Live
      <4>3. Cardinality(Working') = n + 1 - 0
        BY <3>1, <4>1, <4>2, WorkingChange DEF n
      <4> QED BY <1>0, <1>9, <2>5, <3>1, <4>3 DEF ListenerSpawn
    <3>2. CASE wpc' = wpc /\ clients' = clients - 1
      BY <1>0, <1>8, <1>9, <2>5, <3>2 DEF ListenerSpawn
    <3> QED BY <2>5, <3>1, <3>2 DEF ListenerSpawn
  <2> QED BY <1>2, <2>1, <2>2, <2>3, <2>4, <2>5 DEF Listener
<1>3. ASSUME NEW c \in Conns, Worker(c) PROVE PlacesMatchWorkers' /\ RoomForWorker'
  <2>1. wpc[c] \in Live /\ lisPc' = lisPc
    BY <1>3, WorkerStep
  <2>2. ASSUME NEW pc \in Live, wpc' = [wpc EXCEPT ![c] = pc], clients' = clients
        PROVE  PlacesMatchWorkers' /\ RoomForWorker'
    <3>1. Cardinality(Working') = n + 1 - 1
      BY <2>1, <2>2, WorkingChange DEF n
    <3> QED BY <1>0, <1>9, <2>1, <2>2, <3>1
  <2>3. CASE wpc' = [wpc EXCEPT ![c] = "finished"] /\ clients' = clients - 1
    <3>1. "finished" \notin Live
      BY DEF Live
    <3>2. Cardinality(Working') = n + 0 - 1
      BY <2>1, <2>3, <3>1, WorkingChange DEF n
    <3> QED BY <1>0, <1>9, <2>1, <2>3, <3>2
  <2> QED BY <1>3, <2>2, <2>3, WorkerStep
<1>4. ASSUME NEW c \in Conns, Client(c) PROVE UNCHANGED <<lisPc, clients, wpc>>
  BY <1>4 DEF Client, Connect, Ask, Close
<1>5. CASE Publish \/ Signal \/ MainLeave \/ MainShutdown \/ Terminated \/ UNCHANGED vars
  BY <1>1, <1>5 DEF Publish, Signal, MainLeave, MainShutdown, MainDropSubscription, MainJoin,
                    Terminated, vars
<1> QED BY <1>1, <1>2, <1>3, <1>4, <1>5 DEF Next

-----------------------------------------------------------------------------
(* Frames. *)

(* A worker takes a frame, writes it, or touches neither what it has seen  *)
(* nor what it has sent.                                                   *)
WorkerTook(c) ==
  /\ wpc[c] = "wait"
  /\ generation # seen[c]
  /\ seen' = [seen EXCEPT ![c] = generation]
  /\ held' = [held EXCEPT ![c] = jpeg]
  /\ wpc' = [wpc EXCEPT ![c] = "write"]
  /\ UNCHANGED <<got, inbox>>

WorkerWrote(c) ==
  /\ wpc[c] = "write"
  /\ got' = [got EXCEPT ![c] = Append(got[c], held[c])]
  /\ held' = [held EXCEPT ![c] = NoFrame]
  /\ wpc' = [wpc EXCEPT ![c] = "check"]
  /\ UNCHANGED <<seen, inbox>>

(* It reads a request, or gives up those that are left, or neither.        *)
WorkerElse(c) ==
  /\ \E f : held' = [held EXCEPT ![c] = f] \/ held' = held
  /\ \/ /\ inbox[c] # <<>>
        /\ inbox' = [inbox EXCEPT ![c] = Tail(inbox[c])]
        /\ wpc' = [wpc EXCEPT ![c] = "wait"]
        /\ wpc[c] = "read"
     \/ /\ inbox' = inbox \/ inbox' = [inbox EXCEPT ![c] = <<>>]
        /\ \E pc \in {"check", "read", "release", "finished"} : wpc' = [wpc EXCEPT ![c] = pc]
  /\ UNCHANGED <<seen, got>>

LEMMA WorkerFrames ==
  ASSUME TypeOK, NEW c \in Conns, Worker(c)
  PROVE  WorkerTook(c) \/ WorkerWrote(c) \/ WorkerElse(c)
<1> USE DEF clientVars, Goto
<1>0. ASSUME Leave(c) PROVE WorkerElse(c)
  BY <1>0 DEF Leave, WorkerElse
<1>1. CASE WorkerCheck(c)
  BY <1>0, <1>1 DEF WorkerCheck, WorkerElse
<1>2. CASE WorkerRead(c)
  BY <1>0, <1>2 DEF WorkerRead, WorkerElse
<1>3. CASE WorkerReadTimeout(c)
  BY <1>3 DEF WorkerReadTimeout, WorkerElse
<1>4. CASE WorkerReadEnd(c)
  BY <1>0, <1>4 DEF WorkerReadEnd
<1>5. CASE WorkerTake(c)
  BY <1>5 DEF WorkerTake, WorkerTook, WorkerElse
<1>6. CASE WorkerWaitEnd(c)
  BY <1>0, <1>6 DEF WorkerWaitEnd
<1>7. CASE WorkerWrite(c)
  BY <1>7 DEF WorkerWrite, WorkerWrote
<1>8. CASE WorkerWriteLost(c)
  BY <1>0, <1>8 DEF WorkerWriteLost
<1>9. CASE WorkerWriteToClosed(c)
  BY <1>9 DEF WorkerWriteToClosed, WorkerElse
<1>10. CASE WorkerRelease(c)
  BY <1>10 DEF WorkerRelease, WorkerElse
<1> QED BY <1>1, <1>2, <1>3, <1>4, <1>5, <1>6, <1>7, <1>8, <1>9, <1>10 DEF Worker

(* One connection's part of NewerNext and FreshFrames. *)
InOrder(c) ==
  /\ seen[c] <= generation
  /\ \A i \in 1..Len(got[c]) : got[c][i] <= seen[c]
  /\ wpc[c] = "write" => /\ held[c] = seen[c]
                         /\ \A i \in 1..Len(got[c]) : got[c][i] < held[c]
  /\ \A i, j \in 1..Len(got[c]) : i < j => got[c][i] < got[c][j]

LEMMA InOrderAll == NewerNext /\ FreshFrames <=> jpeg = generation /\ \A c \in Conns : InOrder(c)
BY DEF NewerNext, FreshFrames, InOrder

(* A worker touches no other connection. *)
LEMMA OthersKeep ==
  ASSUME TypeOK, NEW c \in Conns, Worker(c), NEW d \in Conns, d # c
  PROVE  /\ seen'[d] = seen[d] /\ held'[d] = held[d] /\ got'[d] = got[d]
         /\ wpc'[d] = wpc[d] /\ inbox'[d] = inbox[d]
<1>1. CASE WorkerTook(c)
  BY <1>1 DEF WorkerTook, TypeOK
<1>2. CASE WorkerWrote(c)
  BY <1>2 DEF WorkerWrote, TypeOK
<1>3. CASE WorkerElse(c)
  <2>1. seen' = seen /\ got' = got
    BY <1>3 DEF WorkerElse
  <2>2. held'[d] = held[d]
    BY <1>3 DEF WorkerElse, TypeOK
  <2>3. wpc'[d] = wpc[d] /\ inbox'[d] = inbox[d]
    BY <1>3 DEF WorkerElse, TypeOK
  <2> QED BY <2>1, <2>2, <2>3
<1> QED BY <1>1, <1>2, <1>3, WorkerFrames

LEMMA NextOrder ==
  ASSUME TypeOK, jpeg = generation, \A c \in Conns : InOrder(c), [Next]_vars
  PROVE  jpeg' = generation' /\ \A c \in Conns : InOrder(c)'
<1> USE DEF frameVars, listenerVars, workerVars, clientVars
<1>0. \A c \in Conns : /\ seen[c] \in Nat /\ held[c] \in Nat /\ Len(got[c]) \in Nat
                       /\ \A i \in 1..Len(got[c]) : got[c][i] \in Nat
  BY LenProperties, ElementOfSeq DEF TypeOK
<1>1. CASE Publish
  BY <1>0, <1>1 DEF Publish, InOrder, TypeOK
<1>2. CASE UNCHANGED <<generation, jpeg, seen, held, got>> /\ \A c \in Conns : wpc'[c] = "write" => wpc[c] = "write"
  BY <1>2 DEF InOrder
<1>3. CASE Signal \/ MainLeave \/ MainShutdown \/ Terminated \/ UNCHANGED vars
  BY <1>2, <1>3 DEF Signal, MainLeave, MainShutdown, MainDropSubscription, MainJoin, Terminated, vars
<1>4. CASE Listener
  BY <1>2, <1>4 DEF Listener, ListenerCheck, ListenerAccept, ListenerCount, ListenerRefuse,
                    ListenerSpawn, TypeOK
<1>5. ASSUME NEW c \in Conns, Client(c)
      PROVE  jpeg' = generation' /\ \A d \in Conns : InOrder(d)'
  BY <1>2, <1>5 DEF Client, Connect, Ask, Close
<1>6. ASSUME NEW c \in Conns, Worker(c)
      PROVE  jpeg' = generation' /\ \A d \in Conns : InOrder(d)'
  <2>1. UNCHANGED <<generation, jpeg>>
    BY <1>6, WorkerStep
  <2>2. ASSUME NEW d \in Conns, d # c PROVE InOrder(d)'
    <3>1. /\ seen'[d] = seen[d] /\ held'[d] = held[d]
          /\ got'[d] = got[d] /\ wpc'[d] = wpc[d]
      BY <1>6, <2>2, OthersKeep
    <3> QED BY <2>1, <3>1 DEF InOrder
  <2>3. InOrder(c)'
    <3>1. CASE WorkerTook(c)
      <4>1. /\ seen'[c] = generation /\ held'[c] = generation
            /\ got'[c] = got[c] /\ seen[c] < generation
        BY <1>0, <3>1 DEF WorkerTook, InOrder, TypeOK
      <4>2. Len(got'[c]) = Len(got[c]) /\ \A i \in 1..Len(got[c]) : got'[c][i] = got[c][i]
        BY <4>1
      <4>3. generation \in Nat
        BY DEF TypeOK
      <4>4. \A i \in 1..Len(got'[c]) : got'[c][i] <= seen'[c] /\ got'[c][i] < held'[c]
        BY <1>0, <4>1, <4>2, <4>3 DEF InOrder
      <4>5. \A i, j \in 1..Len(got'[c]) : i < j => got'[c][i] < got'[c][j]
        BY <4>1 DEF InOrder
      <4> QED BY <2>1, <4>1, <4>3, <4>4, <4>5 DEF InOrder
    <3>2. CASE WorkerWrote(c)
      <4>1. /\ got'[c] = Append(got[c], held[c])
            /\ seen'[c] = seen[c] /\ wpc[c] = "write" /\ wpc'[c] = "check"
        BY <3>2 DEF WorkerWrote, TypeOK
      <4>2. /\ Len(got'[c]) = Len(got[c]) + 1
            /\ \A i \in 1..Len(got[c]) : got'[c][i] = got[c][i]
            /\ got'[c][Len(got[c]) + 1] = held[c]
        BY <4>1, AppendProperties, <1>0 DEF TypeOK
      <4>3. \A i \in 1..Len(got'[c]) : got'[c][i] <= seen'[c]
        BY <1>0, <4>1, <4>2 DEF InOrder
      <4>4. \A i, j \in 1..Len(got'[c]) : i < j => got'[c][i] < got'[c][j]
        BY <1>0, <4>1, <4>2 DEF InOrder
      <4> QED BY <2>1, <4>1, <4>3, <4>4 DEF InOrder
    <3>3. CASE WorkerElse(c)
      BY <2>1, <3>3 DEF WorkerElse, InOrder, TypeOK
    <3> QED BY <1>6, <3>1, <3>2, <3>3, WorkerFrames
  <2> QED BY <2>1, <2>2, <2>3
<1> QED BY <1>1, <1>3, <1>4, <1>5, <1>6 DEF Next

-----------------------------------------------------------------------------
(* Requests. *)

Owed(pc) == IF pc \in {"wait", "write"} THEN 1 ELSE 0

LEMMA NextAsked == TypeOK /\ NoUnaskedFrame /\ [Next]_vars => NoUnaskedFrame'
<1> SUFFICES ASSUME TypeOK, NoUnaskedFrame, [Next]_vars,
                    NEW d \in Conns
             PROVE  Len(got'[d]) + Len(inbox'[d]) + Owed(wpc'[d]) <= asked'[d]
  BY DEF NoUnaskedFrame, Owed
<1> USE DEF frameVars, listenerVars, workerVars, clientVars
<1> DEFINE g == Len(got[d])
           i == Len(inbox[d])
           o == Owed(wpc[d])
           a == asked[d]
           gg == Len(got'[d])
           ii == Len(inbox'[d])
           oo == Owed(wpc'[d])
           aa == asked'[d]
<1>0. /\ g \in Nat /\ i \in Nat /\ a \in Nat
      /\ g + i + o <= a
  BY LenProperties DEF TypeOK, NoUnaskedFrame, Owed
<1>7. o \in 0..1 /\ oo \in 0..1 /\ (wpc'[d] = wpc[d] => oo = o)
  BY DEF Owed
<1>8. /\ wpc'[d] \notin {"wait", "write"} => oo = 0
      /\ wpc[d] \notin {"wait", "write"} => o = 0
      /\ wpc[d] \in {"wait", "write"} => o = 1
  BY DEF Owed
<1>9. /\ got' = got => gg = g
      /\ inbox' = inbox => ii = i
      /\ asked' = asked => aa = a
  OBVIOUS
<1> HIDE DEF g, i, o, a, gg, ii, oo, aa
<1>10. SUFFICES gg + ii + oo <= aa
  BY DEF gg, ii, oo, aa
<1>1. CASE gg = g /\ ii = i /\ aa = a /\ oo <= o
  BY <1>0, <1>1, <1>7
<1>2. CASE Publish \/ Signal \/ MainLeave \/ MainShutdown \/ Terminated \/ UNCHANGED vars
  <2>1. UNCHANGED <<got, inbox, asked, wpc>>
    BY <1>2 DEF Publish, Signal, MainLeave, MainShutdown, MainDropSubscription, MainJoin,
                Terminated, vars
  <2> QED BY <1>1, <1>7, <1>9, <2>1
<1>3. CASE Listener
  <2>1. UNCHANGED <<got, inbox, asked>> /\ (wpc'[d] = wpc[d] \/ wpc'[d] = "check")
    BY <1>3 DEF Listener, ListenerCheck, ListenerAccept, ListenerCount, ListenerRefuse,
                ListenerSpawn, TypeOK
  <2> QED BY <1>1, <1>7, <1>8, <1>9, <2>1
<1>4. ASSUME NEW c \in Conns, Worker(c) PROVE gg + ii + oo <= aa
  <2>0. aa = a
    BY <1>4, <1>9, WorkerStep
  <2>1. CASE d # c
    <3>1. got'[d] = got[d] /\ inbox'[d] = inbox[d] /\ wpc'[d] = wpc[d]
      BY <1>4, <2>1, OthersKeep
    <3>2. gg = g /\ ii = i /\ oo = o
      BY <3>1 DEF g, gg, i, ii, o, oo
    <3> QED BY <1>1, <1>7, <2>0, <3>2
  <2>2. CASE d = c /\ WorkerTook(c)
    <3>1. UNCHANGED <<got, inbox>> /\ wpc[d] = "wait"
      BY <2>2 DEF WorkerTook
    <3> QED BY <1>1, <1>7, <1>8, <1>9, <2>0, <3>1
  <2>3. CASE d = c /\ WorkerWrote(c)
    <3>1. /\ got'[d] = Append(got[d], held[d]) /\ inbox' = inbox
          /\ wpc[d] = "write" /\ wpc'[d] = "check"
      BY <2>3 DEF WorkerWrote, TypeOK
    <3>2. gg = g + 1
      BY <3>1, AppendProperties DEF TypeOK, g, gg
    <3>3. o = 1 /\ oo = 0 /\ ii = i
      BY <1>8, <1>9, <3>1
    <3> QED BY <1>0, <2>0, <3>2, <3>3
  <2>4. CASE d = c /\ WorkerElse(c)
    <3>1. gg = g
      BY <1>9, <2>4 DEF WorkerElse
    <3>2. CASE /\ inbox[c] # <<>>
               /\ inbox' = [inbox EXCEPT ![c] = Tail(inbox[c])]
               /\ wpc' = [wpc EXCEPT ![c] = "wait"]
               /\ wpc[c] = "read"
      <4>1. inbox'[d] = Tail(inbox[d]) /\ inbox[d] \in Seq(Bytes) /\ inbox[d] # <<>>
        BY <2>4, <3>2 DEF TypeOK
      <4>2. ii = i - 1
        BY <4>1, HeadTailProperties DEF i, ii
      <4>3. o = 0
        BY <1>8, <2>4, <3>2
      <4> QED BY <1>0, <1>7, <2>0, <3>1, <4>2, <4>3
    <3>3. CASE /\ inbox' = inbox \/ inbox' = [inbox EXCEPT ![c] = <<>>]
               /\ \E pc \in {"check", "read", "release", "finished"} : wpc' = [wpc EXCEPT ![c] = pc]
      <4>1. wpc'[d] \notin {"wait", "write"}
        BY <2>4, <3>3 DEF TypeOK
      <4>2. inbox'[d] = inbox[d] \/ inbox'[d] = <<>>
        BY <2>4, <3>3 DEF TypeOK
      <4>3. ii = i \/ ii = 0
        BY <4>2, EmptySeq DEF i, ii
      <4> QED BY <1>0, <1>7, <1>8, <2>0, <3>1, <4>1, <4>3
    <3> QED BY <2>4, <3>2, <3>3 DEF WorkerElse
  <2> QED BY <1>4, <2>1, <2>2, <2>3, <2>4, WorkerFrames
<1>5. ASSUME NEW c \in Conns, Client(c) PROVE gg + ii + oo <= aa
  <2>1. CASE Connect(c) \/ Close(c)
    <3>1. UNCHANGED <<got, inbox, asked, wpc>>
      BY <2>1 DEF Connect, Close
    <3> QED BY <1>1, <1>7, <1>9, <3>1
  <2>2. CASE Ask(c)
    <3>1. PICK b \in Bytes : inbox' = [inbox EXCEPT ![c] = Append(inbox[c], b)]
      BY <2>2 DEF Ask
    <3>2. asked' = [asked EXCEPT ![c] = asked[c] + 1] /\ got' = got /\ wpc' = wpc
      BY <2>2 DEF Ask
    <3>3. gg = g /\ oo = o
      BY <1>7, <1>9, <3>2
    <3>4. CASE d = c
      <4>1. Len(Append(inbox[d], b)) = Len(inbox[d]) + 1
        BY AppendProperties DEF TypeOK
      <4>2. inbox'[d] = Append(inbox[d], b) /\ asked'[d] = asked[d] + 1
        BY <3>1, <3>2, <3>4 DEF TypeOK
      <4>3. ii = i + 1 /\ aa = a + 1
        BY <4>1, <4>2 DEF i, ii, a, aa
      <4> QED BY <1>0, <1>7, <3>3, <4>3
    <3>5. CASE d # c
      <4>1. inbox'[d] = inbox[d] /\ asked'[d] = asked[d]
        BY <3>1, <3>2, <3>5 DEF TypeOK
      <4>2. ii = i /\ aa = a
        BY <4>1 DEF i, ii, a, aa
      <4> QED BY <1>1, <1>7, <3>3, <4>2
    <3> QED BY <3>4, <3>5
  <2> QED BY <1>5, <2>1, <2>2 DEF Client
<1> QED BY <1>2, <1>3, <1>4, <1>5 DEF Next

-----------------------------------------------------------------------------
(* The invariant, and what it says. *)

LEMMA InitInv == Init => IInv
<1> SUFFICES ASSUME Init PROVE IInv
  OBVIOUS
<1>1. TypeOK
  BY InitTypes
<1>2. EachAdmittedOnce
  BY CameraAssumption DEF Init, EachAdmittedOnce, Admitting, Pending
<1>3. Working = {}
  BY DEF Init, Working, Live
<1>4. PlacesMatchWorkers /\ RoomForWorker
  <2>1. Cardinality(Working) = 0 /\ 0 <= MaxClients
    BY <1>3, FS_EmptySet, CameraAssumption
  <2>2. PlacesMatchWorkers
    BY <2>1 DEF Init, PlacesMatchWorkers, Working
  <2>3. RoomForWorker
    BY <2>1 DEF Init, RoomForWorker, AtMostMaxClients, Working
  <2> QED BY <2>2, <2>3
<1>5. NewerNext /\ FreshFrames /\ NoUnaskedFrame
  BY CameraAssumption DEF Init, NewerNext, FreshFrames, NoUnaskedFrame, NoFrame
<1> QED BY <1>1, <1>2, <1>4, <1>5 DEF IInv

LEMMA NextInv == IInv /\ [Next]_vars => IInv'
<1> SUFFICES ASSUME IInv, [Next]_vars PROVE IInv'
  OBVIOUS
<1>1. EachAdmittedOnce'
  BY NextAdmitted DEF IInv
<1>2. PlacesMatchWorkers' /\ RoomForWorker'
  BY NextPlaces DEF IInv
<1>3. clients' \in Nat
  <2>1. Cardinality(Working') \in Nat
    BY CameraAssumption, FS_Subset, FS_CardinalityType DEF Working
  <2> QED BY <1>2, <2>1 DEF PlacesMatchWorkers, Working
<1>4. TypeOK'
  BY <1>3, NextTypes DEF IInv
<1>5. NewerNext' /\ FreshFrames'
  <2>1. jpeg = generation /\ \A c \in Conns : InOrder(c)
    BY InOrderAll DEF IInv
  <2>2. jpeg' = generation' /\ \A c \in Conns : InOrder(c)'
    BY <2>1, NextOrder DEF IInv
  <2> QED BY <2>2 DEF NewerNext, FreshFrames, InOrder
<1>6. NoUnaskedFrame'
  BY NextAsked DEF IInv
<1> QED BY <1>1, <1>2, <1>4, <1>5, <1>6 DEF IInv

LEMMA Invariance == Spec => []IInv
BY InitInv, NextInv, PTL DEF Spec

(* Every variable keeps its type; the count of places is never negative.   *)
THEOREM TypeCorrect == Spec => []TypeOK
<1>1. IInv => TypeOK
  BY DEF IInv
<1> QED BY <1>1, Invariance, PTL

(* The AtomicUsize of admitted connections counts the workers that run and *)
(* the connection being decided about, and no more than MaxClients workers *)
(* run, whichever spawn or write fails and whoever leaves when.            *)
THEOREM PlacesAreKept == Spec => []PlacesKept
<1>1. IInv => PlacesKept
  BY DEF IInv, PlacesKept, RoomForWorker
<1> QED BY <1>1, Invariance, PTL

(* A connection receives frames in the order of publication, each once,    *)
(* and never more of them than it has sent requests.                       *)
THEOREM FramesAreAsAsked == Spec => []FramesAsAsked
<1>1. IInv => FramesAsAsked
  BY DEF IInv, FramesAsAsked
<1> QED BY <1>1, Invariance, PTL
=============================================================================
