---------------------------- MODULE BridgeCamera ----------------------------
(***************************************************************************)
(* The camera half of `moorebot-scout bridge`                              *)
(* (src/src/integration_bridge.rs): the camera callback publishes frames   *)
(* into a slot that holds the latest one, a listener admits at most        *)
(* MaxClients connections, and one worker thread per connection answers    *)
(* each request with a frame newer than the last it returned there.        *)
(*                                                                         *)
(* The frame slot's mutex makes the worker's look at it one action; what   *)
(* the worker took is state until it is written.  A frame is the number of *)
(* the publication that brought it, 0 standing for none.                   *)
(***************************************************************************)
EXTENDS Integers, Sequences, FiniteSets, Functions

CONSTANTS
  Conns,       \* camera connections; an id stands for one TCP connection
  NoConn,      \* no connection
  MaxClients,  \* MAX_CAMERA_CLIENTS
  Bytes,       \* the bytes clients send: "ask" is 1, "bad" any other
  MaxAsks,     \* bound: bytes sent, over all connections
  MaxFrames,   \* bound: frames published, far below the wrap of the u64
  Faults       \* the fallible calls that may fail

ASSUME CameraAssumption ==
  /\ NoConn \notin Conns
  /\ IsFiniteSet(Conns)
  /\ MaxClients \in Nat \ {0}
  /\ Bytes \subseteq {"ask", "bad"}
  /\ MaxAsks \in Nat
  /\ MaxFrames \in Nat
  /\ Faults \subseteq {"spawn", "write"}

VARIABLES
  running,     \* the AtomicBool shared by every thread and the Ctrl-C handler
  mainPc,      \* the bridge's main thread, as far as the camera is concerned
  generation,  \* LatestFrame.generation
  jpeg,        \* LatestFrame.jpeg
  clients,     \* the AtomicUsize that counts admitted connections
  lisPc,       \* the camera listener's place
  arrived,     \* the connection it is dealing with
  backlog,     \* connections waiting to be accepted
  wpc,         \* each connection's worker's place
  seen,        \* its seen_generation
  held,        \* the frame it cloned and has not written yet
  inbox,       \* bytes on their way to it
  client,      \* each client's end of its connection
  asked,       \* the bytes each client has sent
  got          \* the frames each client has received, in order

frameVars == <<generation, jpeg>>
listenerVars == <<clients, lisPc, arrived, backlog>>
workerVars == <<wpc, seen, held>>
clientVars == <<inbox, client, asked, got>>

vars == <<running, mainPc, generation, jpeg, clients, lisPc, arrived, backlog,
          wpc, seen, held, inbox, client, asked, got>>

NoFrame == 0

Init ==
  /\ running = TRUE
  /\ mainPc = "loop"
  /\ generation = 0
  /\ jpeg = NoFrame
  /\ clients = 0
  /\ lisPc = "check"
  /\ arrived = NoConn
  /\ backlog = <<>>
  /\ wpc = [c \in Conns |-> "none"]
  /\ seen = [c \in Conns |-> 0]
  /\ held = [c \in Conns |-> NoFrame]
  /\ inbox = [c \in Conns |-> <<>>]
  /\ client = [c \in Conns |-> "new"]
  /\ asked = [c \in Conns |-> 0]
  /\ got = [c \in Conns |-> <<>>]

Ended == mainPc = "exited"

-----------------------------------------------------------------------------
(* The camera callback and the main thread. *)

(* FrameSink::publish, called for every JPEG frame until main drops the    *)
(* subscription.  Workers wait with a timeout, so notify_all only decides  *)
(* how soon they look again.                                               *)
Publish ==
  /\ mainPc \in {"loop", "drop"}
  /\ generation < MaxFrames
  /\ generation' = generation + 1
  /\ jpeg' = generation + 1
  /\ UNCHANGED <<running, mainPc, listenerVars, workerVars, clientVars>>

(* The Ctrl-C handler. *)
Signal ==
  /\ ~Ended
  /\ running
  /\ running' = FALSE
  /\ UNCHANGED <<mainPc, frameVars, listenerVars, workerVars, clientVars>>

(* The publishing loop ends: `running` is false, ROS is gone or a send     *)
(* failed.                                                                 *)
MainLeave ==
  /\ mainPc = "loop"
  /\ mainPc' = "drop"
  /\ running' = FALSE
  /\ UNCHANGED <<frameVars, listenerVars, workerVars, clientVars>>

MainDropSubscription ==
  /\ mainPc = "drop"
  /\ mainPc' = "join"
  /\ UNCHANGED <<running, frameVars, listenerVars, workerVars, clientVars>>

(* shutdown() joins the listener but no worker: those end with the process. *)
MainJoin ==
  /\ mainPc = "join"
  /\ lisPc = "done"
  /\ mainPc' = "exited"
  /\ UNCHANGED <<running, frameVars, listenerVars, workerVars, clientVars>>

MainShutdown == MainDropSubscription \/ MainJoin

-----------------------------------------------------------------------------
(* The camera listener. *)

(* Mutation: `loop` instead of `while running`. *)
ListenerLoop ==
  /\ lisPc = "check"
  /\ lisPc' = "accept"
  /\ UNCHANGED <<clients, arrived, backlog>>
  /\ UNCHANGED <<running, mainPc, frameVars, workerVars, clientVars>>

ListenerCheck ==
  /\ lisPc = "check"
  /\ lisPc' = IF running THEN "accept" ELSE "done"
  /\ UNCHANGED <<clients, arrived, backlog>>
  /\ UNCHANGED <<running, mainPc, frameVars, workerVars, clientVars>>

ListenerAccept ==
  /\ lisPc = "accept"
  /\ \/ /\ backlog = <<>>
        /\ lisPc' = "check"
        /\ UNCHANGED <<arrived, backlog>>
     \/ /\ backlog # <<>>
        /\ lisPc' = "count"
        /\ arrived' = Head(backlog)
        /\ backlog' = Tail(backlog)
  /\ UNCHANGED clients
  /\ UNCHANGED <<running, mainPc, frameVars, workerVars, clientVars>>

(* Mutation: `>` instead of `>=`. *)
ListenerCountLate ==
  /\ lisPc = "count"
  /\ clients' = clients + 1
  /\ lisPc' = IF clients > MaxClients THEN "refuse" ELSE "spawn"
  /\ UNCHANGED <<arrived, backlog>>
  /\ UNCHANGED <<running, mainPc, frameVars, workerVars, clientVars>>

(* Mutation: a connection that is refused is not counted first. *)
ListenerCountAdmitted ==
  /\ lisPc = "count"
  /\ clients' = IF clients >= MaxClients THEN clients ELSE clients + 1
  /\ lisPc' = IF clients >= MaxClients THEN "refuse" ELSE "spawn"
  /\ UNCHANGED <<arrived, backlog>>
  /\ UNCHANGED <<running, mainPc, frameVars, workerVars, clientVars>>

(* fetch_add, and the test of the value it replaced. *)
ListenerCount ==
  /\ lisPc = "count"
  /\ clients' = clients + 1
  /\ lisPc' = IF clients >= MaxClients THEN "refuse" ELSE "spawn"
  /\ UNCHANGED <<arrived, backlog>>
  /\ UNCHANGED <<running, mainPc, frameVars, workerVars, clientVars>>

(* fetch_sub, and the stream is shut down without a byte. *)
ListenerRefuse ==
  /\ lisPc = "refuse"
  /\ lisPc' = "check"
  /\ clients' = clients - 1
  /\ arrived' = NoConn
  /\ client' = [client EXCEPT ![arrived] = "refused"]
  /\ UNCHANGED <<backlog, inbox, asked, got>>
  /\ UNCHANGED <<running, mainPc, frameVars, workerVars>>

(* Mutation: the count is not taken back when there is no worker. *)
ListenerSpawnCounted ==
  /\ lisPc = "spawn"
  /\ lisPc' = "check"
  /\ \/ /\ wpc' = [wpc EXCEPT ![arrived] = "check"]
        /\ UNCHANGED client
     \/ /\ "spawn" \in Faults
        /\ client' = [client EXCEPT ![arrived] = "refused"]
        /\ UNCHANGED wpc
  /\ arrived' = NoConn
  /\ UNCHANGED <<clients, backlog, seen, held, inbox, asked, got>>
  /\ UNCHANGED <<running, mainPc, frameVars>>

(* Spawning the worker may fail; the stream is dropped with the closure.   *)
ListenerSpawn ==
  /\ lisPc = "spawn"
  /\ lisPc' = "check"
  /\ \/ /\ wpc' = [wpc EXCEPT ![arrived] = "check"]
        /\ UNCHANGED <<clients, client>>
     \/ /\ "spawn" \in Faults
        /\ clients' = clients - 1
        /\ client' = [client EXCEPT ![arrived] = "refused"]
        /\ UNCHANGED wpc
  /\ arrived' = NoConn
  /\ UNCHANGED <<backlog, seen, held, inbox, asked, got>>
  /\ UNCHANGED <<running, mainPc, frameVars>>

Listener ==
  /\ ~Ended
  /\ \/ ListenerCheck \/ ListenerAccept \/ ListenerCount
     \/ ListenerRefuse \/ ListenerSpawn

-----------------------------------------------------------------------------
(* A connection's worker: serve_camera_client, then the fetch_sub. *)

Goto(c, pc) == wpc' = [wpc EXCEPT ![c] = pc]

(* serve_camera_client returns and drops the stream. *)
Leave(c) ==
  /\ Goto(c, "release")
  /\ held' = [held EXCEPT ![c] = NoFrame]
  /\ inbox' = [inbox EXCEPT ![c] = <<>>]
  /\ client' = [client EXCEPT ![c] = IF @ = "open" THEN "dropped" ELSE @]
  /\ UNCHANGED <<seen, asked, got>>

WorkerCheck(c) ==
  /\ wpc[c] = "check"
  /\ \/ running /\ Goto(c, "read") /\ UNCHANGED <<seen, held, clientVars>>
     \/ ~running /\ Leave(c)
  /\ UNCHANGED <<running, mainPc, frameVars, listenerVars>>

(* read_exact of one byte: a request, or an error that ends the connection. *)
WorkerRead(c) ==
  /\ wpc[c] = "read"
  /\ inbox[c] # <<>>
  /\ \/ /\ Head(inbox[c]) = "ask"
        /\ Goto(c, "wait")
        /\ inbox' = [inbox EXCEPT ![c] = Tail(@)]
        /\ UNCHANGED <<seen, held, client, asked, got>>
     \/ Head(inbox[c]) # "ask" /\ Leave(c)
  /\ UNCHANGED <<running, mainPc, frameVars, listenerVars>>

(* Mutation: a timeout is taken for a request. *)
WorkerReadTimeoutAsks(c) ==
  /\ wpc[c] = "read"
  /\ inbox[c] = <<>>
  /\ client[c] = "open"
  /\ Goto(c, "wait")
  /\ UNCHANGED <<seen, held, clientVars>>
  /\ UNCHANGED <<running, mainPc, frameVars, listenerVars>>

WorkerReadTimeout(c) ==
  /\ wpc[c] = "read"
  /\ inbox[c] = <<>>
  /\ client[c] = "open"
  /\ Goto(c, "check")
  /\ UNCHANGED <<seen, held, clientVars>>
  /\ UNCHANGED <<running, mainPc, frameVars, listenerVars>>

(* Mutation: the end of the stream is taken for a timeout. *)
WorkerReadEndIgnored(c) ==
  /\ wpc[c] = "read"
  /\ client[c] = "closed"
  /\ Goto(c, "check")
  /\ UNCHANGED <<seen, held, clientVars>>
  /\ UNCHANGED <<running, mainPc, frameVars, listenerVars>>

(* The client has closed its end: the end of the stream, or a reset that   *)
(* discards the bytes not read yet.                                        *)
WorkerReadEnd(c) ==
  /\ wpc[c] = "read"
  /\ client[c] = "closed"
  /\ Leave(c)
  /\ UNCHANGED <<running, mainPc, frameVars, listenerVars>>

(* Mutation: the connection's generation is not recorded. *)
WorkerTakeUnseen(c) ==
  /\ wpc[c] = "wait"
  /\ running
  /\ generation # seen[c]
  /\ held' = [held EXCEPT ![c] = jpeg]
  /\ Goto(c, "write")
  /\ UNCHANGED <<seen, clientVars>>
  /\ UNCHANGED <<running, mainPc, frameVars, listenerVars>>

(* The look at the slot that ends the wait: a generation this connection   *)
(* has not had.  A slot without a frame would lose the request.            *)
WorkerTake(c) ==
  /\ wpc[c] = "wait"
  /\ running
  /\ generation # seen[c]
  /\ IF jpeg = NoFrame
       THEN Goto(c, "check") /\ UNCHANGED <<seen, held>>
       ELSE /\ seen' = [seen EXCEPT ![c] = generation]
            /\ held' = [held EXCEPT ![c] = jpeg]
            /\ Goto(c, "write")
  /\ UNCHANGED clientVars
  /\ UNCHANGED <<running, mainPc, frameVars, listenerVars>>

WorkerWaitEnd(c) ==
  /\ wpc[c] = "wait"
  /\ ~running
  /\ Leave(c)
  /\ UNCHANGED <<running, mainPc, frameVars, listenerVars>>

(* Mutation: the generation is recorded once the frame has been written. *)
WorkerWriteSees(c) ==
  /\ wpc[c] = "write"
  /\ client[c] = "open"
  /\ got' = [got EXCEPT ![c] = Append(@, held[c])]
  /\ seen' = [seen EXCEPT ![c] = generation]
  /\ held' = [held EXCEPT ![c] = NoFrame]
  /\ Goto(c, "check")
  /\ UNCHANGED <<inbox, client, asked>>
  /\ UNCHANGED <<running, mainPc, frameVars, listenerVars>>

(* The length and the JPEG are written. *)
WorkerWrite(c) ==
  /\ wpc[c] = "write"
  /\ client[c] = "open"
  /\ got' = [got EXCEPT ![c] = Append(@, held[c])]
  /\ held' = [held EXCEPT ![c] = NoFrame]
  /\ Goto(c, "check")
  /\ UNCHANGED <<seen, inbox, client, asked>>
  /\ UNCHANGED <<running, mainPc, frameVars, listenerVars>>

(* A write to a client that is gone fails, or is lost in the socket; one   *)
(* to a client that does not read for CLIENT_WRITE_TIMEOUT fails.          *)
WorkerWriteLost(c) ==
  /\ wpc[c] = "write"
  /\ \/ client[c] = "closed" \/ "write" \in Faults
     /\ Leave(c)
  /\ UNCHANGED <<running, mainPc, frameVars, listenerVars>>

WorkerWriteToClosed(c) ==
  /\ wpc[c] = "write"
  /\ client[c] = "closed"
  /\ held' = [held EXCEPT ![c] = NoFrame]
  /\ Goto(c, "check")
  /\ UNCHANGED <<seen, clientVars>>
  /\ UNCHANGED <<running, mainPc, frameVars, listenerVars>>

WorkerRelease(c) ==
  /\ wpc[c] = "release"
  /\ Goto(c, "finished")
  /\ clients' = clients - 1
  /\ UNCHANGED <<seen, held, lisPc, arrived, backlog, clientVars>>
  /\ UNCHANGED <<running, mainPc, frameVars>>

Worker(c) ==
  /\ ~Ended
  /\ \/ WorkerCheck(c)
     \/ WorkerRead(c) \/ WorkerReadTimeout(c) \/ WorkerReadEnd(c)
     \/ WorkerTake(c) \/ WorkerWaitEnd(c)
     \/ WorkerWrite(c) \/ WorkerWriteLost(c) \/ WorkerWriteToClosed(c)
     \/ WorkerRelease(c)

-----------------------------------------------------------------------------
(* The clients. *)

Connect(c) ==
  /\ client[c] = "new"
  /\ lisPc # "done"
  /\ client' = [client EXCEPT ![c] = "open"]
  /\ backlog' = Append(backlog, c)
  /\ UNCHANGED <<clients, lisPc, arrived, inbox, asked, got>>
  /\ UNCHANGED <<running, mainPc, frameVars, workerVars>>

(* A client may ask again before it has its frame. *)
Ask(c) ==
  /\ client[c] = "open"
  /\ FoldFunction(+, 0, asked) < MaxAsks
  /\ \E b \in Bytes : inbox' = [inbox EXCEPT ![c] = Append(@, b)]
  /\ asked' = [asked EXCEPT ![c] = @ + 1]
  /\ UNCHANGED <<client, got>>
  /\ UNCHANGED <<running, mainPc, frameVars, listenerVars, workerVars>>

(* A client gives up, after a timeout of its own or for good. *)
Close(c) ==
  /\ client[c] = "open"
  /\ client' = [client EXCEPT ![c] = "closed"]
  /\ UNCHANGED <<inbox, asked, got>>
  /\ UNCHANGED <<running, mainPc, frameVars, listenerVars, workerVars>>

Client(c) ==
  /\ ~Ended
  /\ Connect(c) \/ Ask(c) \/ Close(c)

Terminated ==
  /\ Ended
  /\ UNCHANGED vars

Next ==
  \/ Publish
  \/ Signal
  \/ MainLeave
  \/ MainShutdown
  \/ Listener
  \/ \E c \in Conns : Worker(c)
  \/ \E c \in Conns : Client(c)
  \/ Terminated

Spec == Init /\ [][Next]_vars

(* Threads are scheduled and their blocking calls have timeouts.  Main     *)
(* leaves its loop once `running` is false; nothing else makes it, and     *)
(* nothing is assumed of the camera, the clients or fallible calls.        *)
Fairness ==
  /\ WF_vars(MainLeave /\ ~running)
  /\ WF_vars(MainShutdown)
  /\ WF_vars(Listener)
  /\ \A c \in Conns : WF_vars(Worker(c))

FairSpec == Spec /\ Fairness

-----------------------------------------------------------------------------
(* Properties. *)

Live == {"check", "read", "wait", "write", "release"}

TypeOK ==
  /\ running \in BOOLEAN
  /\ mainPc \in {"loop", "drop", "join", "exited"}
  /\ generation \in Nat
  /\ jpeg \in Nat
  /\ clients \in Nat
  /\ lisPc \in {"check", "accept", "count", "refuse", "spawn", "done"}
  /\ arrived \in Conns \cup {NoConn}
  /\ backlog \in Seq(Conns)
  /\ wpc \in [Conns -> Live \cup {"none", "finished"}]
  /\ seen \in [Conns -> Nat]
  /\ held \in [Conns -> Nat]
  /\ inbox \in [Conns -> Seq(Bytes)]
  /\ client \in [Conns -> {"new", "open", "closed", "dropped", "refused"}]
  /\ asked \in [Conns -> Nat]
  /\ got \in [Conns -> Seq(Nat)]

(* The counter counts the workers that have not released their place, and  *)
(* the connection the listener is admitting or refusing: no path of the    *)
(* listener or of a worker leaks a place or gives one back twice.          *)
PlacesMatchWorkers ==
  clients = Cardinality({c \in Conns : wpc[c] \in Live})
              + (IF lisPc \in {"refuse", "spawn"} THEN 1 ELSE 0)

(* No more than MaxClients connections are served at once, although the    *)
(* counter itself may pass MaxClients while a connection is refused.       *)
AtMostMaxClients ==
  Cardinality({c \in Conns : wpc[c] \in Live}) <= MaxClients

(* The bookkeeping of places, whatever fails and whoever leaves when.      *)
PlacesKept == PlacesMatchWorkers /\ AtMostMaxClients

(* A connection receives each frame at most once and in the order of       *)
(* publication, whatever is published between its looks and its writes.    *)
FreshFrames ==
  \A c \in Conns : \A i, j \in 1..Len(got[c]) : i < j => got[c][i] < got[c][j]

(* A connection receives no more frames than it has asked for, counting    *)
(* the request being answered.                                             *)
NoUnaskedFrame ==
  \A c \in Conns :
    Len(got[c]) + Len(inbox[c]) + (IF wpc[c] \in {"wait", "write"} THEN 1 ELSE 0) <= asked[c]

(* What a connection receives is what it asked for.                        *)
FramesAsAsked == FreshFrames /\ NoUnaskedFrame

(* The frame a client received last. *)
Newest(c) == IF got[c] = <<>> THEN 0 ELSE got[c][Len(got[c])]

(* A request of a client that stays is answered once a frame newer than    *)
(* the last one it received has been published: a frame that arrives while *)
(* an older one is being written is not missed.                            *)
NewFrameAnswers ==
  \A c \in Conns : \A n \in 1..MaxAsks :
    (wpc[c] \in Live /\ asked[c] >= n /\ Len(got[c]) < n /\ Newest(c) < generation)
      ~> (Len(got[c]) >= n \/ Newest(c) = generation \/ client[c] # "open" \/ ~running)

(* The worker of a client that has closed its socket gives its place back, *)
(* unless it is waiting for a frame or has a request left to read.         *)
DisconnectFreesPlace ==
  \A c \in Conns :
    (client[c] = "closed" /\ wpc[c] \in {"check", "read", "write"} /\ inbox[c] = <<>>)
      ~> (wpc[c] = "finished" \/ Ended)

(* Clients are served and let go, however the others behave.               *)
RequestsServed == NewFrameAnswers /\ DisconnectFreesPlace

(* What integrations/README.md:141 promises a client that closed its camera *)
(* socket after a failed transfer, "a later camera request reconnects": a  *)
(* connection is turned away only while MaxClients others are open at their *)
(* clients' end, or closed and about to be noticed by a worker that runs.  *)
Occupied(c) ==
  {d \in Conns \ {c} : client[d] = "open" \/ wpc[d] \in Live \ {"wait"}}

LaterRequestReconnects ==
  [][running /\ lisPc = "count" /\ lisPc' = "refuse"
       => Cardinality(Occupied(arrived)) >= MaxClients]_vars

(* Ctrl-C ends the process although workers wait for frames. *)
SignalShutsDown == ~running ~> Ended
=============================================================================
