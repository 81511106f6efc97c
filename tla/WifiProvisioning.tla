-------------------------- MODULE WifiProvisioning --------------------------
(***************************************************************************)
(* provision_wifi (src/src/ros1/wifi.rs): the one-shot conversation that   *)
(* asks the Scout to join a router.  The ROS master is asked for the       *)
(* service's address, the service is connected to and greeted, and then    *)
(* the credentials are sent and the robot's answer is read, all under one  *)
(* deadline.  The robot may switch networks at any point after it has the  *)
(* credentials, which cuts the connection.                                 *)
(*                                                                         *)
(* A host is a literal address or a name (which a worker thread resolves); *)
(* frames are abstracted to what their reader tells apart.  Every read and *)
(* write is given what remains of the deadline.  With Punctual time passes *)
(* only while one of them blocks.                                          *)
(***************************************************************************)
EXTENDS Integers

CONSTANTS
  Timeouts,      \* the timeouts that are asked for, in ticks
  MinTimeout,    \* one second
  MaxTimeout,    \* 60 seconds
  AddressTime,   \* the two seconds one address may take
  MaxAddresses,  \* the eight addresses that are tried
  Hosts,         \* forms of the master's host: "ip", "name"
  Endpoints,     \* answers of the master: a service at an "ip", a "name" or
                 \* the Scout's "internal" name, a URI that is "bad", a
                 \* service that is "absent", or "garbage"
  Greetings,     \* answers to the handshake: "good", "error", "garbage" (an
                 \* invalid header or another schema)
  Replies,       \* answers to the request, see AllReplies
  Faults,        \* "net": any connection may fail; "spawn": no DNS thread
  Punctual,      \* the program's own steps take no time
  MaxTime        \* bound: the clock stops here

(* A reply is a flag and a frame, of the robot's own decision: "zero" and  *)
(* "code" are one byte, "long" exceeds the reader's limit.                 *)
AllReplies == [robot : {"accepted", "rejected", "failed"}, flag : 0..2,
               frame : {"zero", "code", "message", "empty", "long"}]

ASSUME WifiProvisioningAssumption ==
  /\ Timeouts \subseteq Nat
  /\ MinTimeout \in Nat \ {0}
  /\ MaxTimeout \in Nat
  /\ AddressTime \in Nat \ {0}
  /\ MaxAddresses \in Nat \ {0}
  /\ Hosts \subseteq {"ip", "name"}
  /\ Endpoints \subseteq {"ip", "name", "internal", "bad", "absent", "garbage"}
  /\ Greetings \subseteq {"good", "error", "garbage"}
  /\ Replies \subseteq AllReplies
  /\ Faults \subseteq {"net", "spawn"}
  /\ Punctual \in BOOLEAN
  /\ MaxTime \in Nat
  \* the robot does not lie: a whole answer says what it decided
  /\ \A r \in Replies :
       /\ r.flag = 1 /\ r.frame = "zero" => r.robot = "accepted"
       /\ r.flag = 1 /\ r.frame = "code" => r.robot = "rejected"
       /\ r.flag = 0 /\ r.frame # "long" => r.robot = "failed"

VARIABLES
  now,        \* Instant::now()
  timeout,    \* what the caller asked for
  pc,         \* the caller's place
  deadline,   \* the one deadline
  phase,      \* whom the connection is for: "master" or "service"
  host,       \* the form of that one's host
  dns,        \* the DNS worker: "none", "asking", "found" or "failed"
  addresses,  \* how many addresses are left to try
  last,       \* the last address's error
  began,      \* when connect began, and how many addresses ended since
  until,      \* when the current address is given up
  greeting,   \* the service's answer to the handshake
  written,    \* how much of the credentials was written
  writes,     \* history: how often the credentials were begun
  robot,      \* what the robot has decided
  reply,      \* its reply
  arrived,    \* how many of the reply's two parts have arrived
  cut,        \* the connection is broken
  result,     \* what provision_wifi returns
  exit        \* what wifi_setup tells the user

connecting == <<phase, host, dns, addresses, last, began, until>>
sending == <<written, writes>>
robotVars == <<robot, reply, arrived, cut>>
vars == <<now, timeout, pc, deadline, connecting, greeting, sending, robotVars, result, exit>>

Lesser(a, b) == IF a <= b THEN a ELSE b
NoReply == [robot |-> "waiting"]

(* remaining(deadline) fails. *)
TimeIsUp == now >= deadline

Return(r) == pc' = "report" /\ result' = r

Init ==
  /\ now = 0
  /\ timeout \in Timeouts
  /\ pc = "start"
  /\ deadline = 0
  /\ phase = "master"
  /\ host = "ip"
  /\ dns = "none"
  /\ addresses = 0
  /\ last = "transport"
  /\ began = [at |-> 0, tried |-> 0]
  /\ until = 0
  /\ greeting = "none"
  /\ written = "none"
  /\ writes = 0
  /\ robot = "waiting"
  /\ reply = NoReply
  /\ arrived = 0
  /\ cut = FALSE
  /\ result = "none"
  /\ exit = "none"

-----------------------------------------------------------------------------
(* Discovery and connection. *)

(* The timeout, the master's URI and the caller's name are validated. *)
Start ==
  /\ pc = "start"
  /\ \/ /\ timeout \in MinTimeout..MaxTimeout
        /\ pc' = "resolve"
        /\ deadline' = now + timeout
        /\ host' \in Hosts
        /\ UNCHANGED result
     \/ Return("config") /\ UNCHANGED <<deadline, host>>
  /\ UNCHANGED <<now, timeout, phase, dns, addresses, last, began, until, greeting,
                 sending, robotVars, exit>>

(* connect begins with the addresses that were found. *)
Found(n) ==
  /\ pc' = "connect"
  /\ addresses' = n
  /\ last' = "transport"
  /\ began' = [at |-> now, tried |-> 0]

(* A literal address needs no DNS; a name needs a thread. *)
Resolve ==
  /\ pc = "resolve"
  /\ \/ host = "ip" /\ Found(1) /\ UNCHANGED <<dns, result>>
     \/ host = "name" /\ pc' = "resolving" /\ dns' = "asking"
        /\ UNCHANGED <<addresses, last, began, result>>
     \/ host = "name" /\ "spawn" \in Faults /\ Return("transport")
        /\ UNCHANGED <<dns, addresses, last, began>>
  /\ UNCHANGED <<now, timeout, deadline, phase, host, until, greeting, sending, robotVars, exit>>

(* The worker's answer, or the end of the wait. *)
ResolvedOr(patience) ==
  /\ pc = "resolving"
  /\ \/ dns = "found" /\ (\E n \in 0..MaxAddresses :
          IF n = 0 THEN Return("transport") /\ UNCHANGED <<addresses, last, began>>
                   ELSE Found(n) /\ UNCHANGED result)
     \/ dns = "failed" /\ Return("transport") /\ UNCHANGED <<addresses, last, began>>
     \/ patience /\ Return("timeout") /\ UNCHANGED <<addresses, last, began>>
  /\ UNCHANGED <<now, timeout, deadline, phase, host, dns, until, greeting, sending,
                 robotVars, exit>>

(* Mutation: the worker is waited for without a timeout. *)
ResolvedPatient == ResolvedOr(FALSE)

(* recv_timeout, and the time check before it. *)
Resolved == ResolvedOr(TimeIsUp)

(* The next address is given until t. *)
TryAddressUntil(t) ==
  /\ pc = "connect"
  /\ IF addresses = 0 THEN Return(last) /\ UNCHANGED until
     ELSE IF TimeIsUp THEN Return("timeout") /\ UNCHANGED until
     ELSE pc' = "connecting" /\ until' = t /\ UNCHANGED result
  /\ UNCHANGED <<now, timeout, deadline, phase, host, dns, addresses, last, began, greeting,
                 sending, robotVars, exit>>

(* Mutation: an address may take two seconds whatever remains. *)
TryAddressLate == TryAddressUntil(now + AddressTime)

(* Mutation: an address may take all that remains. *)
TryAddressLong == TryAddressUntil(deadline)

TryAddress == TryAddressUntil(Lesser(deadline, now + AddressTime))

Connected ==
  /\ pc = "connecting"
  /\ pc' = IF phase = "master" THEN "ask" ELSE "greet"
  /\ UNCHANGED <<now, timeout, deadline, connecting, greeting, sending, robotVars, result, exit>>

(* An address refuses, or is silent for its time; n are left to try. *)
AddressFailsLeaving(n) ==
  /\ pc = "connecting"
  /\ \/ "net" \in Faults /\ last' = "transport"
     \/ now >= until /\ last' = "timeout"
  /\ pc' = "connect"
  /\ addresses' = n
  /\ began' = [began EXCEPT !.tried = @ + 1]
  /\ UNCHANGED <<now, timeout, deadline, phase, host, dns, until, greeting, sending, robotVars,
                 result, exit>>

(* Mutation: the address that failed is tried again. *)
AddressFailsAgain == AddressFailsLeaving(addresses)

AddressFails == AddressFailsLeaving(addresses - 1)

(* The lookup is written whole, or the answer has arrived. *)
Asked ==
  /\ pc = "ask"
  /\ ~TimeIsUp
  /\ pc' = "answer"
  /\ UNCHANGED <<now, timeout, deadline, connecting, greeting, sending, robotVars, result, exit>>

(* The master's answer; the Scout's internal name stands for the address   *)
(* the master was reached at.                                              *)
Answered ==
  /\ pc = "answer"
  /\ ~TimeIsUp
  /\ \E e \in Endpoints :
       \/ e = "garbage" /\ Return("protocol") /\ UNCHANGED connecting
       \/ e = "absent" /\ Return("unavailable") /\ UNCHANGED connecting
       \/ e = "bad" /\ Return("config") /\ UNCHANGED connecting
       \/ /\ e \in {"ip", "internal"}
          /\ phase' = "service"
          /\ host' = "ip"
          /\ Found(1)
          /\ UNCHANGED <<dns, until, result>>
       \/ /\ e = "name"
          /\ phase' = "service"
          /\ host' = "name"
          /\ pc' = "resolve"
          /\ UNCHANGED <<dns, addresses, last, began, until, result>>
  /\ UNCHANGED <<now, timeout, deadline, greeting, sending, robotVars, exit>>

-----------------------------------------------------------------------------
(* The service. *)

Greeted ==
  /\ pc = "greet"
  /\ ~TimeIsUp
  /\ pc' = "greeted"
  /\ UNCHANGED <<now, timeout, deadline, connecting, greeting, sending, robotVars, result, exit>>

(* The service's answer; only some answers go on. *)
HandshakeIf(supported) ==
  /\ pc = "greeted"
  /\ ~TimeIsUp
  /\ greeting' \in Greetings
  /\ IF greeting' \in supported THEN pc' = "send" /\ UNCHANGED result
     ELSE Return(IF greeting' = "error" THEN "failed" ELSE "protocol")
  /\ UNCHANGED <<now, timeout, deadline, connecting, sending, robotVars, exit>>

(* Mutation: the service's schema is not compared. *)
HandshakeBlind == HandshakeIf({"good", "garbage"})

Handshake == HandshakeIf({"good"})

(* A read or a write before the credentials fails, or the time is up. *)
Broken ==
  /\ pc \in {"ask", "answer", "greet", "greeted"}
  /\ \/ "net" \in Faults /\ Return("transport")
     \/ TimeIsUp /\ Return("timeout")
  /\ UNCHANGED <<now, timeout, deadline, connecting, greeting, sending, robotVars, exit>>

(* The credentials are written, whole or up to a failure. *)
SendOr(failure) ==
  /\ pc = "send"
  /\ writes' = writes + 1
  /\ \/ ~TimeIsUp /\ written' = "all" /\ pc' = "success" /\ UNCHANGED result
     \/ (TimeIsUp \/ "net" \in Faults) /\ written' \in {"none", "some"} /\ Return(failure)
  /\ UNCHANGED <<now, timeout, deadline, connecting, greeting, robotVars, exit>>

(* Mutation: a failed write is reported as any other failure. *)
SendCredentialsPlain == SendOr("transport")

SendCredentials == SendOr("uncertain")

(* The reply's first byte. *)
ReadFlag ==
  /\ pc = "success"
  /\ \/ arrived >= 1 /\ ~TimeIsUp
        /\ IF reply.flag \in {0, 1} THEN pc' = "body" /\ UNCHANGED result
                                    ELSE Return("uncertain")
     \/ (TimeIsUp \/ cut) /\ Return("uncertain")
  /\ UNCHANGED <<now, timeout, deadline, connecting, greeting, sending, robotVars, exit>>

(* What a whole reply means. *)
Meaning(r) ==
  IF r.flag = 1
    THEN IF r.frame = "zero" THEN "accepted"
         ELSE IF r.frame = "code" THEN "rejected" ELSE "uncertain"
    ELSE IF r.frame = "long" THEN "uncertain" ELSE "failed"

ReadBody ==
  /\ pc = "body"
  /\ \/ arrived = 2 /\ ~TimeIsUp /\ Return(Meaning(reply))
     \/ (TimeIsUp \/ cut) /\ Return("uncertain")
  /\ UNCHANGED <<now, timeout, deadline, connecting, greeting, sending, robotVars, exit>>

(* wifi_setup tells the user. *)
Report ==
  /\ pc = "report"
  /\ pc' = "done"
  /\ exit' = IF result = "accepted" THEN "success"
             ELSE IF result = "uncertain" THEN "unknown" ELSE "failure"
  /\ UNCHANGED <<now, timeout, deadline, connecting, greeting, sending, robotVars, result>>

Caller ==
  \/ Start \/ Resolve \/ Resolved \/ TryAddress \/ Connected \/ AddressFails \/ Asked
  \/ Answered \/ Greeted \/ Handshake \/ Broken \/ SendCredentials \/ ReadFlag \/ ReadBody
  \/ Report

-----------------------------------------------------------------------------
(* The DNS worker, the robot, the network and the clock. *)

(* The worker may answer after nobody waits any more. *)
DnsAnswers ==
  /\ dns = "asking"
  /\ dns' \in {"found", "failed"}
  /\ UNCHANGED <<now, timeout, pc, deadline, phase, host, addresses, last, began, until,
                 greeting, sending, robotVars, result, exit>>

(* The robot acts on a whole request, and its reply gets through in parts. *)
RobotDecides ==
  /\ written = "all"
  /\ robot = "waiting"
  /\ ~cut
  /\ reply' \in Replies
  /\ robot' = reply'.robot
  /\ UNCHANGED <<now, timeout, pc, deadline, connecting, greeting, sending, arrived, cut,
                 result, exit>>

ReplyArrives ==
  /\ robot # "waiting"
  /\ ~cut
  /\ arrived < 2
  /\ arrived' = arrived + 1
  /\ UNCHANGED <<now, timeout, pc, deadline, connecting, greeting, sending, robot, reply, cut,
                 result, exit>>

(* The robot leaves the network. *)
Cut ==
  /\ writes > 0
  /\ ~cut
  /\ cut' = TRUE
  /\ UNCHANGED <<now, timeout, pc, deadline, connecting, greeting, sending, robot, reply,
                 arrived, result, exit>>

Blocked ==
  \/ pc \in {"resolving", "ask", "answer", "greet", "greeted", "send", "success", "body"}
     /\ ~TimeIsUp
  \/ pc = "connecting" /\ now < until

Tick ==
  /\ pc # "done"
  /\ now < MaxTime
  /\ Punctual => Blocked
  /\ now' = now + 1
  /\ UNCHANGED <<timeout, pc, deadline, connecting, greeting, sending, robotVars, result, exit>>

(* The program has ended, or the modelled time. *)
Done ==
  /\ pc = "done" \/ now = MaxTime
  /\ UNCHANGED vars

Next == Caller \/ DnsAnswers \/ RobotDecides \/ ReplyArrives \/ Cut \/ Tick \/ Done

Spec == Init /\ [][Next]_vars

(* The caller's thread is scheduled and time passes; nothing is assumed of *)
(* the network, the DNS server or the robot.                               *)
FairSpec == Spec /\ WF_vars(Caller) /\ WF_vars(Tick)

-----------------------------------------------------------------------------
(* Properties. *)

TypeOK ==
  /\ now \in 0..MaxTime
  /\ timeout \in Timeouts
  /\ pc \in {"start", "resolve", "resolving", "connect", "connecting", "ask", "answer",
             "greet", "greeted", "send", "success", "body", "report", "done"}
  /\ deadline \in Nat
  /\ phase \in {"master", "service"}
  /\ host \in {"ip", "name"}
  /\ dns \in {"none", "asking", "found", "failed"}
  /\ addresses \in 0..MaxAddresses
  /\ last \in {"transport", "timeout"}
  /\ began \in [at : 0..MaxTime, tried : 0..MaxAddresses]
  /\ until \in Nat
  /\ greeting \in Greetings \cup {"none"}
  /\ written \in {"none", "some", "all"}
  /\ writes \in 0..1
  /\ robot \in {"waiting", "accepted", "rejected", "failed"}
  /\ reply \in Replies \cup {NoReply}
  /\ arrived \in 0..2
  /\ cut \in BOOLEAN
  /\ result \in {"none", "config", "timeout", "transport", "protocol", "unavailable",
                 "failed", "rejected", "accepted", "uncertain"}
  /\ exit \in {"none", "success", "unknown", "failure"}

(* A definite failure is reported only when the robot has certainly not    *)
(* acted: nothing was written, or the robot itself said so.  A success is  *)
(* reported only when the robot accepted.                                  *)
DefiniteIsTrue ==
  /\ exit = "failure" => written = "none" \/ robot \in {"rejected", "failed"}
  /\ exit = "success" => robot = "accepted"
  /\ result \in {"rejected", "failed"} => written = "none" \/ robot = result

(* Credentials are written only to a service that has shown the supported  *)
(* schema, and at most once.                                               *)
CredentialsOnce ==
  /\ writes <= 1
  /\ writes > 0 => phase = "service" /\ greeting = "good"

(* One deadline covers everything: discovery, every address, the handshake *)
(* and the reply.                                                          *)
InTime == pc \notin {"start", "report", "done"} => now <= deadline

(* An address that stays silent delays the next one by AddressTime at most.*)
SilentAddressCosts ==
  pc \in {"connect", "connecting"} =>
    now - began.at <= AddressTime * (began.tried + IF pc = "connecting" THEN 1 ELSE 0)

(* The deadline is one, and it is shared fairly.                           *)
DeadlineShared == InTime /\ SilentAddressCosts
=============================================================================
