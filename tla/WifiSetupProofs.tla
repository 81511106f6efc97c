-------------------------- MODULE WifiSetupProofs --------------------------
(***************************************************************************)
(* Theorems about WifiProvisioning and WifiSetup for every timeout, number *)
(* of addresses, reply, password and limit: a definite answer is true, the *)
(* credentials are the user's and sent at most once, to a service that has *)
(* greeted, and one deadline covers every step.                            *)
(***************************************************************************)
EXTENDS WifiSetup, FiniteSetTheorems, SequenceTheorems, TLAPS

-----------------------------------------------------------------------------
(* The inductive invariant of the conversation. *)

(* Every address that is tried is one of those that were found. *)
AddressesLeft ==
  /\ pc \in {"connect", "connecting"} => began.tried + addresses <= MaxAddresses
  /\ pc = "connecting" => addresses > 0

BeforeSending == {"start", "resolve", "resolving", "connect", "connecting", "ask", "answer",
                  "greet", "greeted", "send"}

(* Nothing is written before the service's greeting. *)
SentAfterGreeting ==
  /\ pc \in BeforeSending => writes = 0
  /\ writes = 0 => written = "none"
  /\ pc \in {"greet", "greeted", "send"} => phase = "service"
  /\ pc = "send" => greeting = "good"
  /\ pc \in {"success", "body"} => written = "all"
  /\ CredentialsOnce

(* The robot decides on a whole request, and what has arrived is its reply.*)
RobotReplied ==
  /\ robot = "waiting" => arrived = 0
  /\ robot # "waiting" => written = "all" /\ reply \in Replies /\ robot = reply.robot
  /\ pc = "body" => arrived > 0 /\ reply.flag \in {0, 1}

(* What each result says of what was written and decided. *)
ResultIsTrue ==
  /\ pc \notin {"report", "done"} => result = "none"
  /\ result \in {"accepted", "rejected"} => robot = result
  /\ result = "failed" => written = "none" \/ robot = "failed"
  /\ result \in {"config", "timeout", "transport", "protocol", "unavailable"} => written = "none"
  /\ pc = "report" => result # "none"
  /\ pc # "done" => exit = "none"
  /\ exit = "success" => result = "accepted"
  /\ exit = "failure" => result \notin {"none", "accepted", "uncertain"}

(* With Punctual: the deadline, and what each address has cost. *)
OnTime ==
  Punctual =>
    /\ InTime
    /\ pc = "connect" => now - began.at <= AddressTime * began.tried
    /\ pc = "connecting" => /\ now <= until /\ until <= deadline
                            /\ until - began.at <= AddressTime * (began.tried + 1)

IInv ==
  /\ TypeOK
  /\ AddressesLeft
  /\ SentAfterGreeting
  /\ RobotReplied
  /\ ResultIsTrue
  /\ OnTime

(* The inductive invariant of the password: what was read is what was      *)
(* typed until something does not fit, and then nothing is accepted.       *)
ReadAsTyped ==
  /\ place \in {"start", "line", "validate", "accepted"} => password = typed
  /\ place \in {"start", "line"} => ~tooLong
  /\ place = "keys" /\ ~tooLong => password = typed

(* Together: the clock of the conversation starts with the credentials.    *)
NothingSentBefore == writes > 0 => place = "accepted"

-----------------------------------------------------------------------------
(* Types. *)

FlagsOK == cut \in BOOLEAN

ValuesOK ==
  /\ now \in 0..MaxTime
  /\ timeout \in Timeouts
  /\ pc \in BeforeSending \cup {"success", "body", "report", "done"}
  /\ deadline \in Nat
  /\ phase \in {"master", "service"}
  /\ host \in {"ip", "name"}
  /\ dns \in {"none", "asking", "found", "failed"}
  /\ addresses \in 0..MaxAddresses
  /\ last \in {"transport", "timeout"}
  /\ began \in [at : 0..MaxTime, tried : 0..MaxAddresses]
  /\ until \in Nat
  /\ greeting \in Greetings \cup {"none"}
  /\ written \in {"none", "some", "all"}
  /\ writes \in 0..1
  /\ robot \in {"waiting", "accepted", "rejected", "failed"}
  /\ reply \in Replies \cup {NoReply}
  /\ arrived \in 0..2
  /\ result \in {"none", "config", "timeout", "transport", "protocol", "unavailable",
                 "failed", "rejected", "accepted", "uncertain"}
  /\ exit \in {"none", "success", "unknown", "failure"}

LEMMA TypeParts == TypeOK <=> FlagsOK /\ ValuesOK
BY DEF TypeOK, FlagsOK, ValuesOK, BeforeSending

LEMMA InitTypes == Init => TypeOK
<1> SUFFICES ASSUME Init PROVE TypeOK
  OBVIOUS
<1>1. FlagsOK
  BY Zenon DEF Init, FlagsOK
<1>2. ValuesOK
  BY WifiProvisioningAssumption DEF Init, ValuesOK, BeforeSending, NoReply
<1> QED BY <1>1, <1>2, TypeParts

LEMMA NextFlags == FlagsOK /\ [Next]_vars => FlagsOK'
<1> SUFFICES ASSUME FlagsOK, [Next]_vars PROVE FlagsOK'
  OBVIOUS
<1> USE DEF FlagsOK, robotVars, vars
<1>1. CASE Caller
  <2>1. UNCHANGED robotVars
    BY <1>1, Zenon DEF Caller, Start, Resolve, Resolved, ResolvedOr, TryAddress, TryAddressUntil,
       Connected, AddressFails, AddressFailsLeaving, Asked, Answered, Greeted, Handshake,
       HandshakeIf, Broken, SendCredentials, SendOr, ReadFlag, ReadBody, Report
  <2> QED BY <2>1, Zenon
<1>2. CASE DnsAnswers \/ RobotDecides \/ ReplyArrives \/ Tick
  BY <1>2, Zenon DEF DnsAnswers, RobotDecides, ReplyArrives, Tick
<1>3. CASE Cut
  BY <1>3, Zenon DEF Cut
<1>4. CASE Done \/ UNCHANGED vars
  BY <1>4, Zenon DEF Done
<1> QED BY <1>1, <1>2, <1>3, <1>4, Zenon DEF Next

LEMMA NextValues ==
  ASSUME TypeOK, AddressesLeft, SentAfterGreeting, [Next]_vars
  PROVE  ValuesOK'
<1>0. ValuesOK
  BY TypeParts
<1>c. /\ MaxAddresses \in Nat \ {0} /\ AddressTime \in Nat /\ MaxTime \in Nat
      /\ Timeouts \subseteq Nat /\ Hosts \subseteq {"ip", "name"}
      /\ Greetings \subseteq {"good", "error", "garbage"}
      /\ \A r \in Replies : r.robot \in {"accepted", "rejected", "failed"}
  BY WifiProvisioningAssumption DEF AllReplies
<1> USE DEF ValuesOK, connecting, sending, robotVars, BeforeSending, Return
<1>1. CASE Start
  <2>1. now + timeout \in Nat
    BY <1>0, <1>c
  <2>2. /\ pc' \in {"resolve", "report"} /\ deadline' \in {deadline, now + timeout}
        /\ host' \in Hosts \cup {host} /\ result' \in {result, "config"}
        /\ UNCHANGED <<now, timeout, phase, dns, addresses, last, began, until, greeting,
                       sending, robotVars, exit>>
    BY <1>1 DEF Start
  <2> QED BY <1>0, <1>c, <2>1, <2>2
<1>2. ASSUME NEW n \in 0..MaxAddresses, Found(n)
      PROVE  /\ pc' = "connect"
             /\ addresses' \in 0..MaxAddresses
             /\ last' \in {"transport", "timeout"}
             /\ began' \in [at : 0..MaxTime, tried : 0..MaxAddresses]
  BY <1>0, <1>2, <1>c DEF Found
<1>3. CASE Resolve
  <2>1. 1 \in 0..MaxAddresses
    BY <1>c
  <2> QED BY <1>0, <1>2, <1>3, <2>1 DEF Resolve
<1>4. CASE Resolved
  <2>1. CASE \E n \in 0..MaxAddresses : Found(n) /\ UNCHANGED result
    BY <1>0, <1>2, <1>4, <2>1 DEF Resolved, ResolvedOr
  <2>2. CASE /\ pc' = "report" /\ result' \in {"transport", "timeout"}
             /\ UNCHANGED <<addresses, last, began>>
    BY <1>0, <1>4, <2>2 DEF Resolved, ResolvedOr
  <2> QED BY <1>4, <2>1, <2>2 DEF Resolved, ResolvedOr
<1>5. CASE TryAddress
  <2>1. Lesser(deadline, now + AddressTime) \in Nat
    BY <1>0, <1>c DEF Lesser
  <2> QED BY <1>0, <1>5, <2>1 DEF TryAddress, TryAddressUntil
<1>6. CASE Connected
  BY <1>0, <1>6 DEF Connected
<1>7. CASE AddressFails
  <2>1. addresses - 1 \in 0..MaxAddresses /\ began.tried + 1 \in 0..MaxAddresses
    BY <1>0, <1>7, <1>c DEF AddressFails, AddressFailsLeaving, AddressesLeft
  <2>2. began' = [at |-> began.at, tried |-> began.tried + 1]
    BY <1>0, <1>7 DEF AddressFails, AddressFailsLeaving
  <2>3. began' \in [at : 0..MaxTime, tried : 0..MaxAddresses]
    BY <1>0, <2>1, <2>2
  <2> QED BY <1>0, <1>7, <2>1, <2>3 DEF AddressFails, AddressFailsLeaving
<1>8. CASE Asked \/ Greeted
  BY <1>0, <1>8 DEF Asked, Greeted
<1>9. CASE Answered
  <2>1. CASE Found(1) /\ phase' = "service" /\ host' = "ip" /\ UNCHANGED <<dns, until, result>>
    <3>1. 1 \in 0..MaxAddresses
      BY <1>c
    <3> QED BY <1>0, <1>2, <1>9, <2>1, <3>1 DEF Answered
  <2>2. CASE UNCHANGED connecting /\ pc' = "report" /\ result' \in {"protocol", "unavailable", "config"}
    BY <1>0, <1>9, <2>2 DEF Answered
  <2>3. CASE /\ phase' = "service" /\ host' = "name" /\ pc' = "resolve"
             /\ UNCHANGED <<dns, addresses, last, began, until, result>>
    BY <1>0, <1>9, <2>3 DEF Answered
  <2> QED BY <1>9, <2>1, <2>2, <2>3 DEF Answered
<1>10. CASE Handshake
  BY <1>0, <1>10 DEF Handshake, HandshakeIf
<1>11. CASE Broken
  BY <1>0, <1>11 DEF Broken
<1>12. CASE SendCredentials
  <2>1. writes = 0
    BY <1>12 DEF SendCredentials, SendOr, SentAfterGreeting
  <2> QED BY <1>0, <1>12, <2>1 DEF SendCredentials, SendOr
<1>13. CASE ReadFlag \/ Report
  BY <1>0, <1>13 DEF ReadFlag, Report
<1>14. CASE ReadBody
  <2>1. Meaning(reply) \in {"accepted", "rejected", "uncertain", "failed"}
    BY DEF Meaning
  <2> QED BY <1>0, <1>14, <2>1 DEF ReadBody
<1>15. CASE DnsAnswers
  BY <1>0, <1>15 DEF DnsAnswers
<1>16. CASE RobotDecides
  BY <1>0, <1>16, <1>c DEF RobotDecides
<1>17. CASE ReplyArrives \/ Cut
  BY <1>0, <1>17 DEF ReplyArrives, Cut
<1>18. CASE Tick
  BY <1>0, <1>18, <1>c DEF Tick
<1>19. CASE Done \/ UNCHANGED vars
  BY <1>0, <1>19 DEF Done, vars
<1> QED BY <1>1, <1>3, <1>4, <1>5, <1>6, <1>7, <1>8, <1>9, <1>10, <1>11, <1>12, <1>13, <1>14,
           <1>15, <1>16, <1>17, <1>18, <1>19 DEF Next, Caller

LEMMA NextTypes ==
  ASSUME TypeOK, AddressesLeft, SentAfterGreeting, [Next]_vars
  PROVE  TypeOK'
<1>1. FlagsOK'
  BY NextFlags, TypeParts
<1>2. ValuesOK'
  BY NextValues
<1> QED BY <1>1, <1>2 DEF TypeOK, FlagsOK, ValuesOK, BeforeSending

-----------------------------------------------------------------------------
(* What the two sides leave alone. *)

World == DnsAnswers \/ RobotDecides \/ ReplyArrives \/ Cut \/ Tick \/ Done

LEMMA WorldKeeps ==
  ASSUME World \/ UNCHANGED vars
  PROVE  UNCHANGED <<timeout, pc, deadline, phase, host, addresses, last, began, until, greeting,
                     written, writes, result, exit>>
<1> USE DEF connecting, sending, robotVars
<1>1. CASE DnsAnswers \/ RobotDecides \/ ReplyArrives \/ Cut \/ Tick
  BY <1>1 DEF DnsAnswers, RobotDecides, ReplyArrives, Cut, Tick
<1>2. CASE Done \/ UNCHANGED vars
  BY <1>2 DEF Done, vars
<1> QED BY <1>1, <1>2 DEF World

LEMMA CallerKeeps ==
  ASSUME Caller
  PROVE  UNCHANGED <<now, timeout, robot, reply, arrived, cut>>
BY DEF Caller, Start, Resolve, Resolved, ResolvedOr, TryAddress, TryAddressUntil, Connected,
   AddressFails, AddressFailsLeaving, Asked, Answered, Greeted, Handshake, HandshakeIf, Broken,
   SendCredentials, SendOr, ReadFlag, ReadBody, Report, robotVars

(* An address that is tried is counted out of those that are left.         *)
LEMMA NextAddresses ==
  ASSUME TypeOK, AddressesLeft, [Next]_vars
  PROVE  AddressesLeft'
<1>0. /\ addresses \in Nat /\ began.tried \in Nat
      /\ MaxAddresses \in Nat /\ 1 <= MaxAddresses
  BY WifiProvisioningAssumption DEF TypeOK
<1> USE DEF connecting, Return
<1>1. ASSUME NEW n \in 0..MaxAddresses, Found(n)
      PROVE  AddressesLeft'
  BY <1>0, <1>1 DEF Found, AddressesLeft
<1>2. CASE UNCHANGED <<pc, began, addresses>>
  BY <1>2 DEF AddressesLeft
<1>3. CASE pc' \notin {"connect", "connecting"}
  BY <1>3 DEF AddressesLeft
<1>4. CASE World \/ UNCHANGED vars
  BY <1>2, <1>4, WorldKeeps
<1>5. CASE Resolve
  <2>1. 1 \in 0..MaxAddresses
    BY <1>0
  <2> QED BY <1>1, <1>3, <1>5, <2>1 DEF Resolve
<1>6. CASE Resolved
  BY <1>1, <1>3, <1>6 DEF Resolved, ResolvedOr
<1>7. CASE Answered
  <2>1. 1 \in 0..MaxAddresses
    BY <1>0
  <2> QED BY <1>1, <1>3, <1>7, <2>1 DEF Answered
<1>8. CASE TryAddress
  BY <1>0, <1>8 DEF TryAddress, TryAddressUntil, AddressesLeft
<1>9. CASE AddressFails
  <2>1. /\ pc = "connecting" /\ pc' = "connect" /\ addresses' = addresses - 1
        /\ began'.tried = began.tried + 1
    BY <1>9 DEF AddressFails, AddressFailsLeaving, TypeOK
  <2> QED BY <1>0, <2>1 DEF AddressesLeft
<1>10. CASE Start \/ Connected \/ Asked \/ Greeted \/ Handshake \/ Broken \/ SendCredentials
            \/ ReadFlag \/ ReadBody \/ Report
  BY <1>3, <1>10 DEF Start, Connected, Asked, Greeted, Handshake, HandshakeIf, Broken,
     SendCredentials, SendOr, ReadFlag, ReadBody, Report
<1> QED BY <1>4, <1>5, <1>6, <1>7, <1>8, <1>9, <1>10 DEF Next, Caller, World

-----------------------------------------------------------------------------
(* What is sent. *)

LEMMA NextSent ==
  ASSUME TypeOK, SentAfterGreeting, [Next]_vars
  PROVE  SentAfterGreeting'
<1> USE DEF connecting, sending, Return, Found, SentAfterGreeting, CredentialsOnce, BeforeSending
<1>1. CASE World \/ UNCHANGED vars
  BY <1>1, WorldKeeps
<1>2. CASE Start \/ Resolve \/ Resolved \/ TryAddress \/ AddressFails \/ Asked \/ Broken
  BY <1>2 DEF Start, Resolve, Resolved, ResolvedOr, TryAddress, TryAddressUntil, AddressFails,
     AddressFailsLeaving, Asked, Broken
<1>3. CASE Connected
  BY <1>3 DEF Connected, TypeOK
<1>4. CASE Answered
  BY <1>4 DEF Answered
<1>5. CASE Greeted
  BY <1>5 DEF Greeted
<1>6. CASE Handshake
  BY <1>6 DEF Handshake, HandshakeIf
<1>7. CASE SendCredentials
  BY <1>7 DEF SendCredentials, SendOr
<1>8. CASE ReadFlag \/ ReadBody \/ Report
  BY <1>8 DEF ReadFlag, ReadBody, Report
<1> QED BY <1>1, <1>2, <1>3, <1>4, <1>5, <1>6, <1>7, <1>8 DEF Next, Caller, World

-----------------------------------------------------------------------------
(* What the robot replies, and what is made of it. *)

LEMMA NextReplied ==
  ASSUME TypeOK, SentAfterGreeting, RobotReplied, [Next]_vars
  PROVE  RobotReplied'
<1> USE DEF connecting, sending, robotVars, Return, Found, RobotReplied
<1>0. arrived \in 0..2 /\ \A r \in Replies : r.robot # "waiting"
  BY WifiProvisioningAssumption DEF TypeOK, AllReplies
<1>1. CASE DnsAnswers \/ Cut \/ Tick \/ Done \/ UNCHANGED vars
  BY <1>1 DEF DnsAnswers, Cut, Tick, Done, vars
<1>2. CASE RobotDecides
  BY <1>0, <1>2 DEF RobotDecides
<1>3. CASE ReplyArrives
  BY <1>0, <1>3 DEF ReplyArrives
<1>4. CASE SendCredentials
  <2>1. robot = "waiting"
    BY <1>4 DEF SendCredentials, SendOr, SentAfterGreeting, BeforeSending
  <2> QED BY <1>4, <2>1 DEF SendCredentials, SendOr
<1>5. CASE ReadFlag
  BY <1>0, <1>5 DEF ReadFlag
<1>6. CASE Caller /\ ~SendCredentials /\ ~ReadFlag
  <2>1. UNCHANGED <<robot, reply, arrived>>
    BY <1>6, CallerKeeps
  <2>2. UNCHANGED written /\ pc' # "body"
    BY <1>6 DEF Caller, Start, Resolve, Resolved, ResolvedOr, TryAddress, TryAddressUntil, Connected,
       AddressFails, AddressFailsLeaving, Asked, Answered, Greeted, Handshake, HandshakeIf, Broken,
       ReadBody, Report
  <2> QED BY <2>1, <2>2
<1> QED BY <1>1, <1>2, <1>3, <1>4, <1>5, <1>6 DEF Next

(* A whole reply says what the robot decided. *)
LEMMA MeaningIsTrue ==
  ASSUME NEW r \in Replies, r.flag \in {0, 1}
  PROVE  /\ Meaning(r) \in {"accepted", "rejected", "failed", "uncertain"}
         /\ Meaning(r) # "uncertain" => Meaning(r) = r.robot
<1>1. /\ r \in AllReplies
      /\ r.flag = 1 /\ r.frame = "zero" => r.robot = "accepted"
      /\ r.flag = 1 /\ r.frame = "code" => r.robot = "rejected"
      /\ r.flag = 0 /\ r.frame # "long" => r.robot = "failed"
  BY WifiProvisioningAssumption
<1> QED BY <1>1 DEF Meaning

LEMMA NextResult ==
  ASSUME TypeOK, SentAfterGreeting, RobotReplied, ResultIsTrue, [Next]_vars
  PROVE  ResultIsTrue'
<1> USE DEF connecting, sending, robotVars, Return, Found
<1>1. CASE DnsAnswers \/ ReplyArrives \/ Cut \/ Tick \/ Done \/ UNCHANGED vars
  BY <1>1 DEF DnsAnswers, ReplyArrives, Cut, Tick, Done, vars, ResultIsTrue
<1>2. CASE RobotDecides
  BY <1>2 DEF RobotDecides, ResultIsTrue
<1>3. CASE Start \/ Resolve \/ Resolved \/ TryAddress \/ Connected \/ AddressFails \/ Asked
           \/ Answered \/ Greeted \/ Handshake \/ Broken
  <2>1. /\ pc \in BeforeSending /\ pc # "send"
        /\ UNCHANGED <<written, exit>>
        /\ \/ pc' \notin {"report", "done"} /\ UNCHANGED result
           \/ pc' = "report" /\ result' \in {"config", "timeout", "transport", "protocol",
                                              "unavailable", "failed"}
    BY <1>3 DEF Start, Resolve, Resolved, ResolvedOr, TryAddress, TryAddressUntil, Connected,
       AddressFails, AddressFailsLeaving, Asked, Answered, Greeted, Handshake, HandshakeIf, Broken,
       BeforeSending, TypeOK
  <2>2. written = "none" /\ result = "none" /\ exit = "none"
    BY <2>1 DEF SentAfterGreeting, ResultIsTrue, BeforeSending
  <2> QED BY <2>1, <2>2 DEF ResultIsTrue
<1>4. CASE SendCredentials
  BY <1>4 DEF SendCredentials, SendOr, ResultIsTrue
<1>5. CASE ReadFlag
  BY <1>5 DEF ReadFlag, ResultIsTrue
<1>6. CASE ReadBody
  <2>1. pc = "body" /\ pc' = "report" /\ UNCHANGED <<robot, written, exit>>
        /\ result' \in {Meaning(reply), "uncertain"}
    BY <1>6 DEF ReadBody
  <2>2. reply \in Replies /\ reply.flag \in {0, 1} /\ robot = reply.robot
    BY <2>1 DEF RobotReplied, TypeOK
  <2>3. /\ result' \in {"accepted", "rejected", "failed", "uncertain"}
        /\ result' # "uncertain" => result' = robot
    BY <2>1, <2>2, MeaningIsTrue
  <2>4. exit = "none"
    BY <2>1 DEF ResultIsTrue
  <2> QED BY <2>1, <2>3, <2>4 DEF ResultIsTrue
<1>7. CASE Report
  BY <1>7 DEF Report, ResultIsTrue
<1> QED BY <1>1, <1>2, <1>3, <1>4, <1>5, <1>6, <1>7 DEF Next, Caller

-----------------------------------------------------------------------------
(* The deadline. *)

LEMMA OneMoreAddress ==
  ASSUME NEW a \in Nat, NEW t \in Nat
  PROVE  a * (t + 1) = a * t + a
OBVIOUS

LEMMA NextOnTime ==
  ASSUME TypeOK, OnTime, [Next]_vars
  PROVE  OnTime'
<1> SUFFICES ASSUME Punctual PROVE OnTime'
  BY DEF OnTime
<1>0. /\ now \in Nat /\ timeout \in Nat /\ deadline \in Nat /\ until \in Nat
      /\ began.at \in Nat /\ began.tried \in Nat /\ AddressTime \in Nat
  BY WifiProvisioningAssumption DEF TypeOK
<1>i. /\ InTime
      /\ pc = "connect" => now - began.at <= AddressTime * began.tried
      /\ pc = "connecting" => /\ now <= until /\ until <= deadline
                              /\ until - began.at <= AddressTime * (began.tried + 1)
  BY DEF OnTime
<1> USE DEF connecting, sending, robotVars, Return, InTime, TimeIsUp
<1>1. ASSUME InTime', pc' \notin {"connect", "connecting"}
      PROVE  OnTime'
  BY <1>1 DEF OnTime
<1>2. ASSUME NEW n \in 0..MaxAddresses, Found(n), UNCHANGED <<now, deadline>>,
             pc \notin {"start", "report", "done"}
      PROVE  OnTime'
  <2>1. pc' = "connect" /\ began' = [at |-> now, tried |-> 0] /\ now <= deadline
    BY <1>2, <1>i DEF Found
  <2>2. began'.at = now /\ began'.tried = 0 /\ now - now <= AddressTime * 0
    BY <1>0, <2>1
  <2> QED BY <1>2, <2>1, <2>2 DEF OnTime
<1>3. CASE Start
  <2>1. \/ pc' = "resolve" /\ deadline' = now + timeout /\ UNCHANGED now
        \/ pc' = "report"
    BY <1>3 DEF Start
  <2> QED BY <1>0, <1>1, <2>1
<1>4. CASE Resolve
  <2>1. 1 \in 0..MaxAddresses
    BY WifiProvisioningAssumption
  <2> QED BY <1>i, <1>1, <1>2, <1>4, <2>1 DEF Resolve
<1>5. CASE Resolved
  BY <1>i, <1>1, <1>2, <1>5 DEF Resolved, ResolvedOr
<1>6. CASE Answered
  <2>1. 1 \in 0..MaxAddresses
    BY WifiProvisioningAssumption
  <2> QED BY <1>i, <1>1, <1>2, <1>6, <2>1 DEF Answered
<1>7. CASE TryAddress
  <2>1. CASE pc' = "report"
    BY <1>1, <2>1
  <2>2. CASE pc' # "report"
    <3>1. /\ pc = "connect" /\ pc' = "connecting" /\ now < deadline
          /\ until' = Lesser(deadline, now + AddressTime)
          /\ UNCHANGED <<now, deadline, began>>
      BY <1>0, <1>7, <2>2 DEF TryAddress, TryAddressUntil
    <3>2. now <= until' /\ until' <= deadline /\ until' <= now + AddressTime /\ until' \in Nat
      BY <1>0, <3>1 DEF Lesser
    <3>3. AddressTime * (began.tried + 1) = AddressTime * began.tried + AddressTime
      BY <1>0, OneMoreAddress
    <3>4. AddressTime * began.tried \in Nat
      BY <1>0
    <3>5. until' - began.at <= AddressTime * (began.tried + 1)
      <4> DEFINE spent == AddressTime * began.tried
                 more == AddressTime * (began.tried + 1)
      <4>1. now - began.at <= spent /\ spent \in Nat /\ more = spent + AddressTime
        BY <1>i, <3>1, <3>3, <3>4
      <4> HIDE DEF spent, more
      <4>2. until' - began.at <= more
        BY <1>0, <3>2, <4>1
      <4> QED BY <4>2 DEF more
    <3> QED BY <1>0, <3>1, <3>2, <3>5 DEF OnTime
  <2> QED BY <2>1, <2>2
<1>8. CASE AddressFails
  <2>1. /\ pc = "connecting" /\ pc' = "connect" /\ UNCHANGED <<now, deadline>>
        /\ began' = [began EXCEPT !.tried = @ + 1]
    BY <1>8 DEF AddressFails, AddressFailsLeaving
  <2>2. began'.at = began.at /\ began'.tried = began.tried + 1
    BY <2>1 DEF TypeOK
  <2>3. /\ now <= until /\ until <= deadline
        /\ until - began.at <= AddressTime * (began.tried + 1)
    BY <1>i, <2>1
  <2>4. now - began.at <= AddressTime * (began.tried + 1)
    <3> DEFINE more == AddressTime * (began.tried + 1)
    <3>1. more \in Nat /\ until - began.at <= more
      BY <1>0, <2>3
    <3> HIDE DEF more
    <3>2. now - began.at <= more
      BY <1>0, <2>3, <3>1
    <3> QED BY <3>2 DEF more
  <2> QED BY <1>0, <2>1, <2>2, <2>3, <2>4 DEF OnTime
<1>9. CASE Connected \/ Asked \/ Greeted \/ Handshake \/ Broken \/ SendCredentials
           \/ ReadFlag \/ ReadBody \/ Report
  <2>1. /\ UNCHANGED <<now, deadline>>
        /\ pc \notin {"start", "report", "done"} \/ pc' = "done"
        /\ pc' \notin {"connect", "connecting"}
    BY <1>9 DEF Connected, Asked, Greeted, Handshake, HandshakeIf, Broken, SendCredentials, SendOr,
       ReadFlag, ReadBody, Report
  <2> QED BY <1>i, <1>1, <2>1
<1>10. CASE Tick
  <2>1. /\ now' = now + 1 /\ UNCHANGED <<pc, deadline, began, until>>
        /\ \/ pc \notin {"connect", "connecting"} /\ now < deadline
           \/ pc = "connecting" /\ now < until
    BY <1>0, <1>10 DEF Tick, Blocked
  <2> QED BY <1>0, <1>i, <2>1 DEF OnTime
<1>11. CASE DnsAnswers \/ RobotDecides \/ ReplyArrives \/ Cut \/ Done \/ UNCHANGED vars
  <2>1. UNCHANGED <<now, pc, deadline, began, until>>
    BY <1>11 DEF DnsAnswers, RobotDecides, ReplyArrives, Cut, Done, vars
  <2> QED BY <1>i, <2>1 DEF OnTime
<1> QED BY <1>3, <1>4, <1>5, <1>6, <1>7, <1>8, <1>9, <1>10, <1>11 DEF Next, Caller

-----------------------------------------------------------------------------
(* The conversation. *)

LEMMA InitInv == Init => IInv
<1> SUFFICES ASSUME Init PROVE IInv
  OBVIOUS
<1>1. TypeOK
  BY InitTypes
<1>2. AddressesLeft /\ SentAfterGreeting /\ RobotReplied /\ ResultIsTrue
  BY DEF Init, AddressesLeft, SentAfterGreeting, CredentialsOnce, BeforeSending, RobotReplied,
     ResultIsTrue
<1>3. OnTime
  BY DEF Init, OnTime, InTime
<1> QED BY <1>1, <1>2, <1>3 DEF IInv

LEMMA NextInv == IInv /\ [Next]_vars => IInv'
<1> SUFFICES ASSUME IInv, [Next]_vars PROVE IInv'
  OBVIOUS
<1> USE DEF IInv
<1>1. TypeOK' /\ AddressesLeft' /\ SentAfterGreeting'
  BY NextTypes, NextAddresses, NextSent
<1>2. RobotReplied' /\ ResultIsTrue' /\ OnTime'
  BY NextReplied, NextResult, NextOnTime
<1> QED BY <1>1, <1>2

LEMMA Invariance == Spec => []IInv
BY InitInv, NextInv, PTL DEF Spec

(* What provision_wifi returns and wifi_setup tells is what happened: a    *)
(* failure that is definite is one the robot never saw the credentials of, *)
(* or itself reported, and a success is one the robot reported.            *)
THEOREM DefiniteAnswersAreTrue == Spec => []DefiniteIsTrue
<1>1. IInv => DefiniteIsTrue
  BY DEF IInv, TypeOK, SentAfterGreeting, RobotReplied, ResultIsTrue, DefiniteIsTrue
<1> QED BY <1>1, Invariance, PTL

(* When the program's own steps take no time, no step of the conversation  *)
(* outlasts the one deadline, and an address that stays silent delays the  *)
(* next one by no more than its share.                                     *)
THEOREM DeadlineIsShared == ASSUME Punctual PROVE Spec => []DeadlineShared
<1>1. IInv => DeadlineShared
  <2> SUFFICES ASSUME IInv PROVE DeadlineShared
    OBVIOUS
  <2>0. /\ now \in Nat /\ until \in Nat /\ began.at \in Nat
        /\ began.tried \in Nat /\ AddressTime \in Nat
    BY WifiProvisioningAssumption DEF IInv, TypeOK
  <2>1. /\ InTime
        /\ pc = "connect" => now - began.at <= AddressTime * began.tried
        /\ pc = "connecting" => /\ now <= until
                                /\ until - began.at <= AddressTime * (began.tried + 1)
    BY DEF IInv, OnTime
  <2>2. CASE pc = "connect"
    <3>1. began.tried + 0 = began.tried
      BY <2>0
    <3> QED BY <2>1, <2>2, <3>1 DEF DeadlineShared, SilentAddressCosts
  <2>3. CASE pc = "connecting"
    <3> DEFINE more == AddressTime * (began.tried + 1)
    <3>1. more \in Nat /\ now <= until /\ until - began.at <= more
      BY <2>0, <2>1, <2>3
    <3> HIDE DEF more
    <3>2. now - began.at <= more
      BY <2>0, <3>1
    <3> QED BY <2>1, <2>3, <3>2 DEF DeadlineShared, SilentAddressCosts, more
  <2>4. CASE pc \notin {"connect", "connecting"}
    BY <2>1, <2>4 DEF DeadlineShared, SilentAddressCosts
  <2> QED BY <2>2, <2>3, <2>4
<1> QED BY <1>1, Invariance, PTL

-----------------------------------------------------------------------------
(* The password: it is read within the limit of its source.                *)

Characters == Chars \cup {CR}

(* One more character has its bytes more, and one less does not have more. *)
LEMMA LengthOfAppend ==
  ASSUME NEW s \in Seq(Characters), IsFiniteSet(BytesOf(s)), NEW c \in Characters
  PROVE  /\ IsFiniteSet(BytesOf(Append(s, c)))
         /\ Length(Append(s, c)) = Length(s) + WidthOf(c)
<1> DEFINE n == Len(s) + 1  added == {n} \X (1..WidthOf(c))
<1>1. WidthOf(c) \in Nat
  BY WifiPasswordAssumption DEF WidthOf, Characters
<1>2. /\ DOMAIN Append(s, c) = DOMAIN s \cup {n} /\ n \notin DOMAIN s
      /\ Append(s, c)[n] = c /\ \A i \in DOMAIN s : Append(s, c)[i] = s[i]
  OBVIOUS
<1>3. BytesOf(Append(s, c)) = BytesOf(s) \cup added
  <2> HIDE DEF n
  <2> QED BY <1>2 DEF BytesOf
<1>4. BytesOf(s) \cap added = {}
  <2> HIDE DEF n
  <2> QED BY <1>2 DEF BytesOf
<1>5. IsFiniteSet(added) /\ Cardinality(added) = WidthOf(c)
  <2>1. IsFiniteSet({n}) /\ Cardinality({n}) = 1
    BY FS_Singleton
  <2>2. IsFiniteSet(1..WidthOf(c)) /\ Cardinality(1..WidthOf(c)) = WidthOf(c)
    BY <1>1, FS_Interval
  <2>3. IsFiniteSet(added) /\ Cardinality(added) = 1 * WidthOf(c)
    <3> HIDE DEF n
    <3> QED BY <2>1, <2>2, FS_Product
  <2> QED BY <1>1, <2>3
<1> HIDE DEF added
<1>6. Cardinality(BytesOf(s)) \in Nat /\ Cardinality({}) = 0
  BY FS_CardinalityType, FS_EmptySet
<1>7. /\ IsFiniteSet(BytesOf(s) \cup added)
      /\ Cardinality(BytesOf(s) \cup added) = Cardinality(BytesOf(s)) + WidthOf(c) - 0
  BY <1>4, <1>5, <1>6, FS_Union
<1> QED BY <1>1, <1>3, <1>6, <1>7 DEF Length

LEMMA LengthOfFront ==
  ASSUME NEW s \in Seq(Characters), s # <<>>
  PROVE  /\ Front(s) \in Seq(Characters)
         /\ IsFiniteSet(BytesOf(s)) =>
              IsFiniteSet(BytesOf(Front(s))) /\ Length(Front(s)) <= Length(s)
<1>1. /\ Front(s) \in Seq(Characters)
      /\ DOMAIN Front(s) \subseteq DOMAIN s
      /\ \A i \in DOMAIN Front(s) : Front(s)[i] = s[i]
  BY DEF Front
<1>2. BytesOf(Front(s)) \subseteq BytesOf(s)
  BY <1>1 DEF BytesOf
<1> QED BY <1>1, <1>2, FS_Subset DEF Length

(* The password's variables: its bytes stay within the limit of its source. *)
PasswordTypes ==
  /\ source \in {"stdin", "prompt"}
  /\ ssid \in Ssids
  /\ place \in {"start", "line", "keys", "validate", "accepted", "refused"}
  /\ password \in Seq(Characters) /\ typed \in Seq(Characters)
  /\ IsFiniteSet(BytesOf(password))
  /\ Length(password) <= IF source = "stdin" THEN MaxBytes + 2 ELSE MaxBytes
  /\ place = "line" => source = "stdin" /\ Length(password) = Len(password)
  /\ place = "keys" => source = "prompt"
  /\ place = "start" => password = <<>>
  /\ keys \in 0..MaxKeys

LatchOK == tooLong \in BOOLEAN

LEMMA NoLength == IsFiniteSet(BytesOf(<<>>)) /\ Length(<<>>) = 0
<1>1. BytesOf(<<>>) = {}
  BY DEF BytesOf
<1> QED BY <1>1, FS_EmptySet DEF Length

LEMMA PasswordInitTypes == PasswordInit => PasswordTypes /\ LatchOK
<1> SUFFICES ASSUME PasswordInit PROVE PasswordTypes /\ LatchOK
  OBVIOUS
<1>1. LatchOK
  BY Zenon DEF PasswordInit, LatchOK
<1>2. PasswordTypes
  BY NoLength, WifiPasswordAssumption DEF PasswordInit, PasswordTypes
<1> QED BY <1>1, <1>2

LEMMA LatchType == LatchOK /\ ReadPassword => LatchOK'
BY Zenon DEF LatchOK, ReadPassword, PromptOrStdin, TakeByte, TakeLf, EndOfInput, ReadFails,
   TypeChar, Erase, EraseLeaving, Enter, Cancel, IgnoreKey, Validate, ReadByte, PressKey

LEMMA NextPasswordTypes == PasswordTypes /\ ReadPassword => PasswordTypes'
<1> SUFFICES ASSUME PasswordTypes, ReadPassword PROVE PasswordTypes'
  OBVIOUS
<1> USE WifiPasswordAssumption
<1>0. Length(password) \in Nat
  BY FS_CardinalityType DEF PasswordTypes, Length
<1>1. ASSUME UNCHANGED <<source, ssid, password, typed>>,
             place' \in {"line", "keys", "validate", "accepted", "refused"},
             place' = "line" => source = "stdin" /\ Length(password) = Len(password),
             place' = "keys" => source = "prompt",
             keys' \in 0..MaxKeys
      PROVE  PasswordTypes'
  BY <1>1 DEF PasswordTypes
<1>2. CASE PromptOrStdin
  <2>1. password = <<>> /\ Len(<<>>) = 0
    BY <1>2 DEF PromptOrStdin, PasswordTypes
  <2> QED BY <1>1, <1>2, <2>1, NoLength DEF PromptOrStdin, PasswordTypes
<1>3. CASE TakeByte
  <2>1. PICK b \in Bytes \ {LF} :
          /\ typed' = Append(typed, b)
          /\ IF TooManyBytes
               THEN place' = "refused" /\ UNCHANGED password
               ELSE password' = Append(password, b) /\ UNCHANGED place
    BY <1>3 DEF TakeByte
  <2>2. b \in Characters /\ WidthOf(b) = 1
    BY DEF Bytes, Characters, WidthOf
  <2>3. /\ password \in Seq(Characters) /\ typed \in Seq(Characters)
        /\ source = "stdin" /\ place = "line" /\ Length(password) = Len(password)
        /\ IsFiniteSet(BytesOf(password))
        /\ UNCHANGED <<source, ssid>> /\ keys' \in 0..MaxKeys
    BY <1>3 DEF TakeByte, ReadByte, PasswordTypes
  <2>4. typed' \in Seq(Characters)
    BY <2>1, <2>2, <2>3, AppendProperties
  <2>5. CASE TooManyBytes
    BY <2>1, <2>3, <2>4, <2>5 DEF PasswordTypes
  <2>6. CASE ~TooManyBytes
    <3>1. password' = Append(password, b) /\ place' = place
      BY <2>1, <2>6
    <3>2. /\ password' \in Seq(Characters) /\ Len(password') = Len(password) + 1
          /\ Len(password) \in Nat
      BY <2>2, <2>3, <3>1, AppendProperties, LenProperties
    <3>3. IsFiniteSet(BytesOf(password')) /\ Length(password') = Length(password) + 1
      BY <2>2, <2>3, <3>1, LengthOfAppend
    <3>4. Len(password) < MaxBytes + 2
      BY <2>6, <3>2 DEF TooManyBytes
    <3>5. Length(password)' <= MaxBytes + 2 /\ Length(password)' = Len(password)'
      BY <2>3, <3>2, <3>3, <3>4
    <3> QED BY <2>3, <2>4, <3>1, <3>2, <3>3, <3>5 DEF PasswordTypes
  <2> QED BY <2>5, <2>6
<1>4. CASE TakeLf
  <2>1. /\ password \in Seq(Characters) /\ typed \in Seq(Characters)
        /\ source = "stdin" /\ IsFiniteSet(BytesOf(password))
        /\ UNCHANGED <<source, ssid>> /\ keys' \in 0..MaxKeys
    BY <1>4 DEF TakeLf, ReadByte, PasswordTypes
  <2>2. \A s \in Seq(Characters) : LineOf(s) \in Seq(Characters)
    BY LengthOfFront DEF LineOf
  <2>3. /\ IsFiniteSet(BytesOf(LineOf(password)))
        /\ Length(LineOf(password)) <= Length(password)
    BY <1>0, <2>1, LengthOfFront DEF LineOf
  <2>4. /\ password' \in {password, LineOf(password)}
        /\ place' \in {"refused", "validate"}
        /\ typed' = LineOf(typed)
    BY <1>4 DEF TakeLf, EndLine
  <2>5. /\ password' \in Seq(Characters) /\ typed' \in Seq(Characters)
        /\ IsFiniteSet(BytesOf(password)') /\ Length(password)' <= Length(password)
        /\ Length(password)' \in Nat
    BY <1>0, <2>1, <2>2, <2>3, <2>4, FS_CardinalityType DEF Length
  <2> QED BY <1>0, <2>1, <2>4, <2>5 DEF PasswordTypes
<1>5. CASE EndOfInput
  BY <1>1, <1>5 DEF EndOfInput, EndLine, PasswordTypes
<1>6. CASE ReadFails \/ Enter \/ Cancel \/ IgnoreKey \/ Validate
  BY <1>1, <1>6 DEF ReadFails, Enter, Cancel, IgnoreKey, PressKey, Validate, PasswordTypes
<1>7. CASE TypeChar
  <2>1. PICK c \in Chars :
          /\ typed' = Append(typed, c)
          /\ IF tooLong \/ Length(password) + Width[c] > MaxBytes
               THEN tooLong' = TRUE /\ UNCHANGED password
               ELSE password' = Append(password, c) /\ UNCHANGED tooLong
    BY <1>7 DEF TypeChar
  <2>2. c \in Characters /\ WidthOf(c) = Width[c] /\ Width[c] \in Nat
    BY DEF Characters, WidthOf
  <2>3. /\ password \in Seq(Characters) /\ typed \in Seq(Characters)
        /\ source = "prompt" /\ place = "keys" /\ IsFiniteSet(BytesOf(password))
        /\ UNCHANGED <<source, ssid, place>> /\ keys' \in 0..MaxKeys
    BY <1>7 DEF TypeChar, PressKey, PasswordTypes
  <2>4. typed' \in Seq(Characters)
    BY <2>1, <2>2, <2>3, AppendProperties
  <2>5. CASE UNCHANGED password
    BY <2>3, <2>4, <2>5 DEF PasswordTypes
  <2>6. CASE password' = Append(password, c) /\ Length(password) + Width[c] <= MaxBytes
    <3>1. password' \in Seq(Characters)
      BY <2>2, <2>3, <2>6, AppendProperties
    <3>2. /\ IsFiniteSet(BytesOf(password'))
          /\ Length(password') = Length(password) + Width[c]
      BY <2>2, <2>3, <2>6, LengthOfAppend
    <3> QED BY <2>3, <2>4, <2>6, <3>1, <3>2 DEF PasswordTypes
  <2> QED BY <1>0, <2>1, <2>2, <2>5, <2>6
<1>8. CASE Erase
  <2>1. /\ password \in Seq(Characters) /\ typed \in Seq(Characters)
        /\ source = "prompt" /\ place = "keys" /\ IsFiniteSet(BytesOf(password))
        /\ UNCHANGED <<source, ssid, place>> /\ keys' \in 0..MaxKeys
        /\ Length(password) <= MaxBytes
        /\ password' = WithoutLast(password) /\ typed' = WithoutLast(typed)
    BY <1>8 DEF Erase, EraseLeaving, PressKey, PasswordTypes
  <2>2. \A s \in Seq(Characters) : WithoutLast(s) \in Seq(Characters)
    BY LengthOfFront DEF WithoutLast
  <2>3. /\ IsFiniteSet(BytesOf(password')) /\ Length(password') <= Length(password)
    BY <1>0, <2>1, LengthOfFront DEF WithoutLast
  <2>4. Length(password') \in Nat
    BY <2>3, FS_CardinalityType DEF Length
  <2> QED BY <1>0, <2>1, <2>2, <2>3, <2>4 DEF PasswordTypes
<1> QED BY <1>2, <1>3, <1>4, <1>5, <1>6, <1>7, <1>8 DEF ReadPassword

-----------------------------------------------------------------------------
(* The command as a whole. *)

LEMMA SetupSteps == [SetupNext]_setupVars => [Next]_vars
BY DEF SetupNext, ReadStep, Provision, NoPassword, setupVars

LEMMA SetupImplementsProvisioning == SetupSpec => Spec
<1>1. SetupInit => Init
  BY DEF SetupInit
<1> QED BY <1>1, SetupSteps, PTL DEF SetupSpec, Spec

(* What is typed and what is read are edited alike.                        *)
LEMMA NextRead ==
  ASSUME ReadAsTyped, [SetupNext]_setupVars
  PROVE  ReadAsTyped'
<1> USE DEF ReadAsTyped
<1>1. CASE UNCHANGED passwordVars
  BY <1>1 DEF passwordVars
<1>2. CASE PromptOrStdin \/ ReadFails
  BY <1>2 DEF PromptOrStdin, ReadFails
<1>3. CASE TakeByte
  BY <1>3 DEF TakeByte, ReadByte
<1>4. CASE TakeLf
  <2>1. password = typed
    BY <1>4 DEF TakeLf, ReadByte
  <2> QED BY <1>4, <2>1 DEF TakeLf, ReadByte, EndLine
<1>5. CASE EndOfInput
  BY <1>5 DEF EndOfInput, EndLine
<1>6. CASE TypeChar
  BY <1>6 DEF TypeChar, PressKey
<1>7. CASE Erase
  BY <1>7 DEF Erase, EraseLeaving, PressKey
<1>8. CASE Enter \/ Cancel \/ IgnoreKey
  BY <1>8 DEF Enter, Cancel, IgnoreKey, PressKey
<1>9. CASE Validate
  BY <1>9 DEF Validate
<1> QED BY <1>1, <1>2, <1>3, <1>4, <1>5, <1>6, <1>7, <1>8, <1>9
        DEF SetupNext, ReadStep, ReadPassword, Provision, NoPassword, setupVars

(* The conversation waits for the credentials, which are then settled.     *)
LEMMA NextNothingSent ==
  ASSUME TypeOK, NothingSentBefore, [SetupNext]_setupVars
  PROVE  NothingSentBefore'
<1> USE DEF NothingSentBefore
<1>1. CASE ReadStep
  <2>1. UNCHANGED writes /\ place # "accepted"
    BY <1>1 DEF ReadStep, ReadPassword, PromptOrStdin, TakeByte, TakeLf, ReadByte, EndOfInput,
       ReadFails, TypeChar, Erase, EraseLeaving, Enter, Cancel, IgnoreKey, PressKey, Validate,
       vars, sending
  <2> QED BY <2>1
<1>2. CASE Provision(Next)
  BY <1>2 DEF Provision, passwordVars
<1>3. CASE NoPassword \/ UNCHANGED setupVars
  BY <1>3 DEF NoPassword, setupVars, vars, sending, passwordVars
<1> QED BY <1>1, <1>2, <1>3 DEF SetupNext

LEMMA SetupInvariance == SetupSpec => [](IInv /\ ReadAsTyped /\ NothingSentBefore)
<1>1. SetupInit => IInv /\ ReadAsTyped /\ NothingSentBefore
  BY InitInv DEF SetupInit, Init, PasswordInit, ReadAsTyped, NothingSentBefore
<1>2. ASSUME IInv, ReadAsTyped, NothingSentBefore, [SetupNext]_setupVars
      PROVE  IInv' /\ ReadAsTyped' /\ NothingSentBefore'
  <2>1. TypeOK
    BY <1>2 DEF IInv
  <2> QED BY <1>2, <2>1, SetupSteps, NextInv, NextRead, NextNothingSent
<1> QED BY <1>1, <1>2, PTL DEF SetupSpec

(* Every variable of the conversation has its type, and the password never *)
(* has more bytes than its source admits, in whatever characters it is     *)
(* typed and however it is corrected.                                      *)
THEOREM TypeCorrect == SetupSpec => []SetupTypeOK
<1>1. SetupSpec => []TypeOK
  <2>1. IInv => TypeOK
    BY DEF IInv
  <2> QED BY <2>1, SetupInvariance, PTL
<1>2. SetupSpec => [](PasswordTypes /\ LatchOK)
  <2>1. SetupInit => PasswordTypes /\ LatchOK
    BY PasswordInitTypes DEF SetupInit
  <2>2. ASSUME PasswordTypes, LatchOK, [SetupNext]_setupVars
        PROVE  PasswordTypes' /\ LatchOK'
    <3>1. CASE ReadPassword
      BY <2>2, <3>1, NextPasswordTypes, LatchType, Zenon
    <3>2. CASE UNCHANGED passwordVars
      <4>1. PasswordTypes'
        BY <2>2, <3>2, Zenon DEF passwordVars, PasswordTypes
      <4>2. LatchOK'
        BY <2>2, <3>2, Zenon DEF passwordVars, LatchOK
      <4> QED BY <4>1, <4>2
    <3> QED BY <2>2, <3>1, <3>2, Zenon DEF SetupNext, ReadStep, Provision, NoPassword, setupVars
  <2> QED BY <2>1, <2>2, PTL DEF SetupSpec
<1>3. PasswordTypes /\ LatchOK => PasswordTypeOK
  BY Zenon DEF PasswordTypes, LatchOK, PasswordTypeOK, Characters
<1>4. TypeOK /\ PasswordTypeOK => SetupTypeOK
  BY Zenon DEF SetupTypeOK
<1> QED BY <1>1, <1>2, <1>3, <1>4, PTL

(* The credentials that are sent are the ones the user gave, corrections   *)
(* included and nothing cut off; they are sent at most once, only after    *)
(* they were accepted, and only to a service that has shown the schema.    *)
THEOREM CredentialsAreAsGiven == SetupSpec => []CredentialsAsGiven
<1>1. IInv /\ ReadAsTyped /\ NothingSentBefore => CredentialsAsGiven
  BY DEF IInv, SentAfterGreeting, ReadAsTyped, NothingSentBefore, CredentialsAsGiven,
     PasswordAsTyped
<1> QED BY <1>1, SetupInvariance, PTL

(* The whole command keeps what the conversation keeps.                    *)
THEOREM SetupAnswersAreTrue == SetupSpec => []DefiniteIsTrue
BY SetupImplementsProvisioning, DefiniteAnswersAreTrue, PTL

THEOREM SetupDeadlineIsShared == ASSUME Punctual PROVE SetupSpec => []DeadlineShared
BY SetupImplementsProvisioning, DeadlineIsShared, PTL
=============================================================================
