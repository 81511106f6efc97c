----------------------------- MODULE RosConnect -----------------------------
(***************************************************************************)
(* ros1::init (src/src/ros1.rs): the master's URI is resolved, the first   *)
(* of its addresses that accepts a connection is chosen, then the address  *)
(* that this computer advertises, and the ROS client is initialised.       *)
(***************************************************************************)
EXTENDS Integers, SequencesExt

CONSTANTS
  Addresses,    \* the addresses a resolver may return
  IPv4,         \* those of them that are IPv4
  NoAddress,    \* none of them
  MaxTried,     \* 8 destinations are tried
  ConnectTime   \* MASTER_CONNECT_TIMEOUT

ASSUME RosConnectAssumption ==
  /\ IsFiniteSet(Addresses)
  /\ IPv4 \subseteq Addresses
  /\ NoAddress \notin Addresses
  /\ MaxTried \in Nat \ {0}
  /\ ConnectTime \in Nat

VARIABLES
  reach,      \* init's place
  listing,    \* what the resolver returned
  remaining,  \* the destinations that are left to try
  answering,  \* the addresses at which the master can be reached
  master,     \* master_address
  spent       \* the time spent connecting

reachVars == <<reach, listing, remaining, answering, master, spent>>

ReachInit ==
  /\ reach = "resolve"
  /\ listing = <<>>
  /\ remaining = <<>>
  /\ answering = {}
  /\ master = NoAddress
  /\ spent = 0

-----------------------------------------------------------------------------
(* Mutation: the destinations are tried as the resolver lists them. *)
AsListed(addresses) == {addresses}

(* sort_by_key(!is_ipv4), which is stable: the result is a permutation in  *)
(* which the keys ascend, and with equal keys the positions.               *)
IPv4First(addresses) ==
  LET key(i) == IF addresses[i] \in IPv4 THEN 0 ELSE 1
      Ascends(p) == \A i, j \in DOMAIN p : i < j =>
        key(p[i]) < key(p[j]) \/ (key(p[i]) = key(p[j]) /\ p[i] < p[j])
  IN  {[i \in DOMAIN p |-> addresses[p[i]]] :
         p \in {q \in Bijection(DOMAIN addresses, DOMAIN addresses) : Ascends(q)}}

(* master_authority and to_socket_addrs: a URI without http:// or a port,  *)
(* a name that does not resolve, and an empty answer are errors.           *)
Resolve ==
  /\ reach = "resolve"
  /\ \/ /\ \E found \in SetToAllKPermutations(Addresses) \ {<<>>} :
             \E destinations \in IPv4First(found) :
               /\ listing' = found
               /\ remaining' = SubSeq(destinations, 1, Min({MaxTried, Len(found)}))
        /\ answering' \in SUBSET Addresses
        /\ reach' = "try"
     \/ reach' = "failed" /\ UNCHANGED <<listing, remaining, answering>>
  /\ UNCHANGED <<master, spent>>

(* connect_timeout to the next destination: a connection, a refusal that   *)
(* comes at once, or silence until the timeout.                            *)
TryNext ==
  /\ reach = "try"
  /\ remaining # <<>>
  /\ remaining' = Tail(remaining)
  /\ IF Head(remaining) \in answering
       THEN reach' = "route" /\ master' = Head(remaining) /\ UNCHANGED spent
       ELSE spent' \in {spent, spent + ConnectTime} /\ UNCHANGED <<reach, master>>
  /\ UNCHANGED <<listing, answering>>

Unreachable ==
  /\ reach = "try"
  /\ remaining = <<>>
  /\ reach' = "failed"
  /\ UNCHANGED <<listing, remaining, answering, master, spent>>

(* --advertise-address, parsed, or the address that the operating system   *)
(* routes from (route_local_address), unless that is unspecified.          *)
Advertise ==
  /\ reach = "route"
  /\ reach' \in {"node", "failed"}
  /\ UNCHANGED <<listing, remaining, answering, master, spent>>

(* set_host_alias, the environment, and try_init_with_options. *)
InitNode ==
  /\ reach = "node"
  /\ reach' \in {"ready", "failed"}
  /\ UNCHANGED <<listing, remaining, answering, master, spent>>

(* init has returned, and its locals are gone. *)
ReachForgotten ==
  /\ reach' = "resolve"
  /\ listing' = <<>> /\ remaining' = <<>> /\ answering' = {}
  /\ master' = NoAddress
  /\ spent' = 0

ReachStep == Resolve \/ TryNext \/ Unreachable \/ Advertise \/ InitNode

-----------------------------------------------------------------------------
(* Properties. *)

ReachTypeOK ==
  /\ reach \in {"resolve", "try", "route", "node", "ready", "failed"}
  /\ \A s \in {listing, remaining} : ToSet(s) \subseteq Addresses
  /\ answering \subseteq Addresses
  /\ master \in Addresses \cup {NoAddress}
  /\ spent \in Nat

(* The addresses of the listing that are preferred to the one at i: IPv4   *)
(* before IPv6, and within a family the resolver's order.                  *)
Preferred(i) ==
  {listing[j] : j \in {k \in DOMAIN listing :
     IF listing[k] \in IPv4 <=> listing[i] \in IPv4 THEN k < i ELSE listing[k] \in IPv4}}

(* The session uses the master's best address that answers, whatever the   *)
(* order in which the resolver lists them, and gives up only when none of  *)
(* the best MaxTried does; silent addresses cost a bounded time.           *)
MasterIsFirstThatAnswers ==
  /\ spent <= ConnectTime * MaxTried
  /\ master # NoAddress =>
       \E i \in DOMAIN listing :
         /\ master = listing[i]
         /\ master \in answering
         /\ Preferred(i) \cap answering = {}
  /\ reach = "failed" /\ master = NoAddress =>
       \A i \in DOMAIN listing :
         listing[i] \in answering => Cardinality(Preferred(i)) >= MaxTried
=============================================================================
