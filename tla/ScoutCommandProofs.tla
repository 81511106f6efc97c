------------------------- MODULE ScoutCommandProofs -------------------------
(***************************************************************************)
(* A run of moorebot-scout keeps what its parts promise, for all values of *)
(* the constants.  First each part by itself: an inductive invariant of    *)
(* the republisher, the lookup of the Scout's name, the sensor monitor and *)
(* the pictures of teleop.  Then the command: each of its steps is a step  *)
(* of a part or leaves the part alone, so that what was proved of the part *)
(* holds of the whole.                                                     *)
(***************************************************************************)
EXTENDS ScoutCommand, TimedMoveProofs, MessagesProofs, SequenceTheorems,
  FiniteSetTheorems, WellFoundedInduction

-----------------------------------------------------------------------------
(* Every nonempty set of numbers has a least one. *)
LEMMA LeastNumber ==
  ASSUME NEW T, T \subseteq Nat, T # {}
  PROVE  Min(T) \in T /\ \A n \in T : Min(T) <= n
<1>1. PICK m \in T : \A n \in T : <<n, m>> \notin OpToRel(<, Nat)
  BY NatLessThanWellFounded, WFMin, Zenon
<1>2. \A n \in T : ~(n < m)
  BY <1>1 DEF OpToRel
<1>3. \A n \in T : m <= n
  BY <1>2
<1> QED BY <1>3, Zenon DEF Min

-----------------------------------------------------------------------------
(* RosConnect: the master's address is the best one that answers.          *)

(* The steps of init, and its end. *)
ReachNext == ReachStep \/ ReachForgotten

(* p puts the IPv4 addresses of s first, and otherwise keeps the order. *)
Sorts(p, s) ==
  /\ p \in Bijection(DOMAIN s, DOMAIN s)
  /\ \A i, j \in DOMAIN s : i < j =>
       \/ s[p[i]] \in IPv4 /\ s[p[j]] \notin IPv4
       \/ (s[p[i]] \in IPv4 <=> s[p[j]] \in IPv4) /\ p[i] < p[j]

TryCount == Min({MaxTried, Len(listing)})

(* The first k destinations of the order p have been tried, and none of    *)
(* them answered but the last, if it is the master.                        *)
Tried(p, k) ==
  /\ k <= TryCount
  /\ Len(remaining) = TryCount - k
  /\ \A i \in 1..(TryCount - k) : remaining[i] = listing[p[k + i]]
  /\ spent <= ConnectTime * k
  /\ \A i \in 1..k : listing[p[i]] \in answering => i = k /\ master = listing[p[k]]
  /\ master # NoAddress => k \in 1..TryCount /\ master = listing[p[k]] /\ master \in answering
  /\ reach = "failed" /\ master = NoAddress => k = TryCount

ReachTypes ==
  /\ reach \in {"resolve", "try", "route", "node", "ready", "failed"}
  /\ listing \in Seq(Addresses) /\ remaining \in Seq(Addresses)
  /\ \A i, j \in DOMAIN listing : listing[i] = listing[j] => i = j
  /\ answering \subseteq Addresses
  /\ master \in Addresses \cup {NoAddress}
  /\ spent \in Nat
  /\ listing = <<>> => reach \in {"resolve", "failed"} /\ master = NoAddress /\ spent = 0
  /\ reach = "resolve" => listing = <<>>
  /\ reach = "try" => master = NoAddress
  /\ reach \in {"route", "node"} => master # NoAddress

ReachInv ==
  /\ ReachTypes
  /\ listing # <<>> => \E p, k : k \in Nat /\ Sorts(p, listing) /\ Tried(p, k)

LEMMA TryCountIs ==
  ASSUME listing \in Seq(Addresses), listing # <<>>
  PROVE  /\ TryCount \in 1..Len(listing) /\ TryCount <= MaxTried
         /\ TryCount = MaxTried \/ TryCount = Len(listing)
<1>1. Len(listing) \in Nat \ {0}
  OBVIOUS
<1>2. {MaxTried, Len(listing)} \subseteq Nat
  BY <1>1, RosConnectAssumption
<1>3. /\ TryCount \in {MaxTried, Len(listing)}
      /\ \A n \in {MaxTried, Len(listing)} : TryCount <= n
  BY <1>2, LeastNumber DEF TryCount
<1> QED BY <1>1, <1>3, RosConnectAssumption

LEMMA Products ==
  \A k \in Nat : /\ ConnectTime * k \in Nat
                 /\ ConnectTime * (k + 1) = ConnectTime * k + ConnectTime
                 /\ \A m \in Nat : k <= m => ConnectTime * k <= ConnectTime * m
BY RosConnectAssumption

(* The listing is one of the resolver's, and its order sorts it. *)
LEMMA Listings ==
  ASSUME NEW found \in SetToAllKPermutations(Addresses), found # <<>>
  PROVE  /\ found \in Seq(Addresses)
         /\ \A i, j \in DOMAIN found : found[i] = found[j] => i = j
<1>1. PICK S \in SUBSET Addresses : found \in SetToSeqs(S)
  BY DEF SetToAllKPermutations
<1>2. found \in [1..Cardinality(S) -> S]
  BY <1>1 DEF SetToSeqs
<1>3. Cardinality(S) \in Nat
  BY RosConnectAssumption, FS_Subset, FS_CardinalityType
<1> QED BY <1>1, <1>2, <1>3, IsASeq DEF SetToSeqs

LEMMA Orders ==
  ASSUME NEW s, NEW t \in IPv4First(s)
  PROVE  \E p : Sorts(p, s) /\ t = [i \in DOMAIN s |-> s[p[i]]]
BY DEF IPv4First, Sorts, Bijection, Injection

(* What is left of the order, and what is left after one more. *)
LEMMA FirstOnes ==
  ASSUME NEW s \in Seq(Addresses), NEW n \in 0..Len(s)
  PROVE  /\ SubSeq(s, 1, n) \in Seq(Addresses)
         /\ Len(SubSeq(s, 1, n)) = n
         /\ \A i \in 1..n : SubSeq(s, 1, n)[i] = s[i]
OBVIOUS

LEMMA OneMore ==
  ASSUME NEW s, NEW p, NEW n \in Nat, NEW k \in Nat, NEW rest \in Seq(Addresses), rest # <<>>,
         Len(rest) = n - k, \A i \in 1..(n - k) : rest[i] = s[p[k + i]]
  PROVE  /\ k < n
         /\ Head(rest) = s[p[k + 1]] /\ Head(rest) \in Addresses
         /\ Tail(rest) \in Seq(Addresses) /\ Len(Tail(rest)) = n - (k + 1)
         /\ \A i \in 1..(n - (k + 1)) : Tail(rest)[i] = s[p[(k + 1) + i]]
<1>1. k < n
  BY EmptySeq, LenProperties
<1>2. Head(rest) = rest[1] /\ rest[1] \in Addresses
  BY HeadTailProperties
<1>3. /\ Tail(rest) \in Seq(Addresses) /\ Len(Tail(rest)) = n - (k + 1)
      /\ \A i \in 1..(n - (k + 1)) : Tail(rest)[i] = rest[i + 1]
  BY <1>1, HeadTailProperties
<1>4. rest[1] = s[p[k + 1]]
  BY <1>1
<1>5. \A i \in 1..(n - (k + 1)) : Tail(rest)[i] = s[p[(k + 1) + i]]
  <2> TAKE i \in 1..(n - (k + 1))
  <2>1. i + 1 \in 1..(n - k) /\ k + (i + 1) = (k + 1) + i
    BY <1>1
  <2>2. rest[i + 1] = s[p[k + (i + 1)]]
    BY <2>1
  <2> QED BY <1>3, <2>1, <2>2
<1> QED BY <1>1, <1>2, <1>3, <1>4, <1>5

LEMMA ReachInitInv == ReachInit => ReachInv
BY RosConnectAssumption DEF ReachInit, ReachInv, ReachTypes

LEMMA ReachStepInv == ReachInv /\ [ReachNext]_reachVars => ReachInv'
<1> SUFFICES ASSUME ReachInv, [ReachNext]_reachVars PROVE ReachInv'
  OBVIOUS
<1> USE RosConnectAssumption DEF ReachInv
<1>1. CASE Resolve
  <2>1. CASE reach' = "failed"
    BY <1>1, <2>1 DEF Resolve, ReachTypes
  <2>2. ASSUME NEW found \in SetToAllKPermutations(Addresses), found # <<>>,
               NEW t \in IPv4First(found),
               listing' = found,
               remaining' = SubSeq(t, 1, Min({MaxTried, Len(found)})),
               answering' \in SUBSET Addresses, reach' = "try", UNCHANGED <<master, spent>>
        PROVE  ReachInv'
    <3>1. listing = <<>> /\ master = NoAddress /\ spent = 0
      BY <1>1, <2>2 DEF Resolve, ReachTypes
    <3>2. /\ found \in Seq(Addresses)
          /\ \A i, j \in DOMAIN found : found[i] = found[j] => i = j
      BY <2>2, Listings
    <3>3. PICK p : Sorts(p, found) /\ t = [i \in DOMAIN found |-> found[p[i]]]
      BY Orders
    <3>4. /\ TryCount' = Min({MaxTried, Len(found)})
          /\ TryCount' \in 1..Len(found)
      <4>1. (listing \in Seq(Addresses) /\ listing # <<>>)' => (TryCount \in 1..Len(listing))'
        BY TryCountIs, PTL
      <4> QED BY <2>2, <3>2, <4>1 DEF TryCount
    <3>5. \A i \in 1..Len(found) : p[i] \in 1..Len(found)
      BY <3>2, <3>3 DEF Sorts, Bijection, Injection
    <3>6. t \in Seq(Addresses) /\ Len(t) = Len(found)
      BY <3>2, <3>3, <3>5
    <3>7. /\ remaining' \in Seq(Addresses)
          /\ Len(remaining)' = TryCount' - 0
          /\ \A i \in 1..(TryCount' - 0) : remaining'[i] = listing'[p[0 + i]]
      <4>1. TryCount' \in 0..Len(t) /\ remaining' = SubSeq(t, 1, TryCount')
        BY <2>2, <3>4, <3>6
      <4>2. /\ remaining' \in Seq(Addresses) /\ Len(remaining') = TryCount'
            /\ \A i \in 1..TryCount' : remaining'[i] = t[i]
        BY <3>6, <4>1, FirstOnes
      <4>3. \A i \in 1..TryCount' : t[i] = found[p[0 + i]]
        BY <3>2, <3>3, <3>4
      <4>4. TryCount' - 0 = TryCount'
        BY <3>4
      <4> QED BY <2>2, <4>2, <4>3, <4>4
    <3>8. ReachTypes'
      BY <2>2, <3>1, <3>2, <3>7 DEF ReachTypes
    <3>9. Tried(p, 0)'
      <4>1. spent' = 0 /\ ConnectTime * 0 = 0 /\ 0 <= TryCount' /\ master' = NoAddress
            /\ 1..0 = {} /\ reach' = "try"
        BY <2>2, <3>1, <3>4
      <4> QED BY <3>7, <4>1 DEF Tried
    <3> QED BY <2>2, <3>3, <3>8, <3>9
  <2> QED BY <1>1, <2>1, <2>2 DEF Resolve
<1>2. CASE TryNext
  <2>1. reach = "try" /\ listing # <<>> /\ master = NoAddress
    BY <1>2 DEF TryNext, ReachTypes
  <2>2. PICK p, k : k \in Nat /\ Sorts(p, listing) /\ Tried(p, k)
    BY <2>1, Zenon
  <2>3. TryCount \in 1..Len(listing) /\ TryCount' = TryCount
    BY <1>2, <2>1, TryCountIs DEF TryNext, TryCount, ReachTypes
  <2>4. /\ Len(remaining) = TryCount - k
        /\ \A i \in 1..(TryCount - k) : remaining[i] = listing[p[k + i]]
        /\ remaining # <<>> /\ remaining \in Seq(Addresses)
        /\ remaining' = Tail(remaining)
    BY <1>2, <2>2 DEF TryNext, Tried, ReachTypes
  <2>5. \A i \in 1..k : listing[p[i]] \notin answering
    <3> SUFFICES ASSUME NEW i \in 1..k, listing[p[i]] \in answering PROVE FALSE
      OBVIOUS
    <3>1. i = k /\ master = listing[p[k]]
      BY <2>2 DEF Tried
    <3> QED BY <2>1, <3>1 DEF ReachTypes
  <2>6. /\ k < TryCount
        /\ Head(remaining) = listing[p[k + 1]] /\ Head(remaining) \in Addresses
        /\ Tail(remaining) \in Seq(Addresses) /\ Len(Tail(remaining)) = TryCount - (k + 1)
        /\ \A i \in 1..(TryCount - (k + 1)) : Tail(remaining)[i] = listing[p[(k + 1) + i]]
    <3>1. TryCount \in Nat /\ k \in Nat
      BY <2>2, <2>3
    <3> HIDE DEF ReachInv
    <3> QED BY <2>4, <3>1, OneMore
  <2>7. /\ remaining' \in Seq(Addresses) /\ Len(remaining)' = TryCount' - (k + 1)
        /\ \A i \in 1..(TryCount' - (k + 1)) : remaining'[i] = listing'[p[(k + 1) + i]]
    <3>1. UNCHANGED listing
      BY <1>2 DEF TryNext
    <3> QED BY <2>3, <2>4, <2>6, <3>1
  <2>8. ConnectTime * (k + 1) = ConnectTime * k + ConnectTime /\ ConnectTime * k \in Nat
    BY <2>2, Products
  <2>9. spent' \in Nat /\ spent' <= ConnectTime * (k + 1)
    <3> DEFINE before == ConnectTime * k  after == ConnectTime * (k + 1)
    <3>1. after = before + ConnectTime /\ before \in Nat /\ spent <= before
      BY <2>2, <2>8 DEF Tried
    <3> HIDE DEF before, after
    <3>2. spent' \in Nat /\ spent' <= after
      BY <1>2, <3>1 DEF TryNext, ReachTypes
    <3> QED BY <3>2 DEF after
  <2>10. ReachTypes'
    BY <1>2, <2>1, <2>6, <2>7, <2>9 DEF TryNext, ReachTypes
  <2>11. Tried(p, k + 1)'
    <3>0. PICK n : n = k + 1
      OBVIOUS
    <3>1. /\ n \in 1..TryCount' /\ UNCHANGED <<listing, answering>>
          /\ \A i \in 1..n : i = n \/ i \in 1..k
          /\ Head(remaining) = listing[p[n]]
      BY <1>2, <2>2, <2>3, <2>6, <3>0 DEF TryNext
    <3>2. n <= TryCount' /\ spent' <= ConnectTime * n
          /\ Len(remaining)' = TryCount' - n
          /\ \A i \in 1..(TryCount' - n) : remaining'[i] = listing'[p[n + i]]
      BY <2>7, <2>9, <3>0, <3>1
    <3>3. ASSUME Head(remaining) \in answering PROVE Tried(p, n)'
      <4>1. master' = listing[p[n]] /\ reach' = "route"
        BY <1>2, <3>1, <3>3 DEF TryNext
      <4> QED BY <2>5, <3>1, <3>2, <3>3, <4>1 DEF Tried
    <3>4. ASSUME Head(remaining) \notin answering PROVE Tried(p, n)'
      <4>1. master' = NoAddress /\ reach' = "try"
        BY <1>2, <2>1, <3>4 DEF TryNext
      <4> QED BY <2>5, <3>1, <3>2, <3>4, <4>1 DEF Tried
    <3> QED BY <3>0, <3>3, <3>4
  <2>12. Sorts(p, listing)' /\ k + 1 \in Nat
    BY <1>2, <2>2 DEF TryNext, Sorts
  <2> QED BY <2>10, <2>11, <2>12
<1>3. CASE Unreachable
  <2>1. PICK p, k : k \in Nat /\ Sorts(p, listing) /\ Tried(p, k)
    BY <1>3, Zenon DEF Unreachable, ReachTypes
  <2>2. TryCount \in 1..Len(listing) /\ TryCount' = TryCount
    BY <1>3, TryCountIs DEF Unreachable, TryCount, ReachTypes
  <2>3. k = TryCount
    <3>1. Len(remaining) = 0 /\ Len(remaining) = TryCount - k
      BY <1>3, <2>1 DEF Unreachable, Tried
    <3> QED BY <2>1, <2>2, <3>1
  <2>4. Sorts(p, listing)' /\ Tried(p, k)'
    BY <1>3, <2>1, <2>2, <2>3 DEF Unreachable, Sorts, Tried
  <2>5. ReachTypes'
    BY <1>3 DEF Unreachable, ReachTypes
  <2> QED BY <2>1, <2>4, <2>5
<1>4. CASE Advertise \/ InitNode
  <2>1. listing # <<>>
    BY <1>4 DEF Advertise, InitNode, ReachTypes
  <2>2. PICK p, k : k \in Nat /\ Sorts(p, listing) /\ Tried(p, k)
    BY <2>1, Zenon
  <2>3. Sorts(p, listing)' /\ Tried(p, k)'
    BY <1>4, <2>2 DEF Advertise, InitNode, ReachTypes, Sorts, Tried, TryCount
  <2>4. ReachTypes'
    BY <1>4, <2>1 DEF Advertise, InitNode, ReachTypes
  <2> QED BY <2>2, <2>3, <2>4
<1>5. CASE ReachForgotten
  BY <1>5 DEF ReachForgotten, ReachTypes
<1>6. CASE UNCHANGED reachVars
  <2>1. ReachTypes'
    BY <1>6 DEF reachVars, ReachTypes
  <2>2. \A p, k : Sorts(p, listing) /\ Tried(p, k) => Sorts(p, listing)' /\ Tried(p, k)'
    <3> SUFFICES ASSUME NEW p, NEW k, Sorts(p, listing) /\ Tried(p, k)
                 PROVE  Sorts(p, listing)' /\ Tried(p, k)'
      OBVIOUS
    <3>1. Sorts(p, listing)'
      BY <1>6, Zenon DEF reachVars, Sorts
    <3>2. TryCount' = TryCount
      BY <1>6, Zenon DEF reachVars, TryCount
    <3>3. Tried(p, k)'
      BY <1>6, <3>2, Zenon DEF reachVars, Tried
    <3> QED BY <3>1, <3>3
  <2>3. UNCHANGED listing
    BY <1>6 DEF reachVars
  <2> QED BY <2>1, <2>2, <2>3, Zenon
<1> QED BY <1>1, <1>2, <1>3, <1>4, <1>5, <1>6 DEF ReachNext, ReachStep

(* The destinations before the one at i are those preferred to it. *)
LEMMA Before ==
  ASSUME NEW p, Sorts(p, listing), NEW i \in DOMAIN listing, listing \in Seq(Addresses)
  PROVE  \A j \in DOMAIN listing :
           (IF listing[j] \in IPv4 <=> listing[p[i]] \in IPv4
              THEN j < p[i] ELSE listing[j] \in IPv4)
             <=> \E l \in 1..(i - 1) : j = p[l]
<1>0. /\ DOMAIN listing = 1..Len(listing) /\ Len(listing) \in Nat
      /\ \A l \in DOMAIN listing : p[l] \in DOMAIN listing
      /\ \A l, m \in DOMAIN listing : p[l] = p[m] => l = m
  BY DEF Sorts, Bijection, Injection, IsInjective
<1> SUFFICES ASSUME NEW j \in DOMAIN listing
             PROVE  (IF listing[j] \in IPv4 <=> listing[p[i]] \in IPv4
                       THEN j < p[i] ELSE listing[j] \in IPv4)
                      <=> \E l \in 1..(i - 1) : j = p[l]
  OBVIOUS
<1>1. PICK l \in DOMAIN listing : p[l] = j
  BY DEF Sorts, Bijection, Surjection
<1>2. CASE l < i
  <2>1. \/ listing[j] \in IPv4 /\ listing[p[i]] \notin IPv4
        \/ (listing[j] \in IPv4 <=> listing[p[i]] \in IPv4) /\ j < p[i]
    BY <1>1, <1>2 DEF Sorts
  <2>2. l \in 1..(i - 1)
    BY <1>0, <1>2
  <2> QED BY <1>1, <2>1, <2>2
<1>3. CASE l = i
  <2>1. \A m \in 1..(i - 1) : j # p[m]
    BY <1>0, <1>1, <1>3
  <2> QED BY <1>0, <1>1, <1>3, <2>1
<1>4. CASE i < l
  <2>1. \/ listing[p[i]] \in IPv4 /\ listing[j] \notin IPv4
        \/ (listing[p[i]] \in IPv4 <=> listing[j] \in IPv4) /\ p[i] < j
    BY <1>1, <1>4 DEF Sorts
  <2>2. \A m \in 1..(i - 1) : j # p[m]
    BY <1>0, <1>1, <1>4
  <2> QED BY <1>0, <2>1, <2>2
<1> QED BY <1>0, <1>2, <1>3, <1>4

LEMMA ReachInvBest == ReachInv => ReachTypeOK /\ MasterIsFirstThatAnswers
<1> SUFFICES ASSUME ReachInv PROVE ReachTypeOK /\ MasterIsFirstThatAnswers
  OBVIOUS
<1> USE RosConnectAssumption
<1>0. ReachTypes /\ (listing = <<>> => DOMAIN listing = {})
  BY DEF ReachInv
<1>1. ReachTypeOK
  <2>1. \A s \in Seq(Addresses) : ToSet(s) \subseteq Addresses
    BY ElementOfSeq DEF ToSet
  <2> QED BY <1>0, <2>1 DEF ReachTypes, ReachTypeOK
<1>2. CASE listing = <<>>
  <2>1. ConnectTime * MaxTried \in Nat
    BY Products
  <2> QED BY <1>0, <1>1, <1>2, <2>1 DEF ReachTypes, MasterIsFirstThatAnswers
<1>3. ASSUME listing # <<>> PROVE MasterIsFirstThatAnswers
  <2>1. PICK p, k : k \in Nat /\ Sorts(p, listing) /\ Tried(p, k)
    BY <1>3 DEF ReachInv
  <2>2. /\ TryCount \in 1..Len(listing) /\ TryCount <= MaxTried
        /\ TryCount = MaxTried \/ TryCount = Len(listing)
    BY <1>0, <1>3, TryCountIs DEF ReachTypes
  <2>3. /\ DOMAIN listing = 1..Len(listing) /\ Len(listing) \in Nat
        /\ \A l \in DOMAIN listing : p[l] \in DOMAIN listing
        /\ \A l, m \in DOMAIN listing : p[l] = p[m] => l = m
        /\ \A j \in DOMAIN listing : \E l \in DOMAIN listing : p[l] = j
    BY <1>0, <2>1 DEF ReachTypes, Sorts, Bijection, Injection, Surjection, IsInjective
  <2>4. \A i \in DOMAIN listing : Preferred(p[i]) = {listing[p[l]] : l \in 1..(i - 1)}
    <3> TAKE i \in DOMAIN listing
    <3>1. \A j \in DOMAIN listing :
            (IF listing[j] \in IPv4 <=> listing[p[i]] \in IPv4
               THEN j < p[i] ELSE listing[j] \in IPv4)
              <=> \E l \in 1..(i - 1) : j = p[l]
      BY <1>0, <2>1, Before DEF ReachTypes
    <3>2. \A l \in 1..(i - 1) : p[l] \in DOMAIN listing
      BY <2>3
    <3> QED BY <3>1, <3>2 DEF Preferred
  <2>5. spent <= ConnectTime * MaxTried
    <3> DEFINE sofar == ConnectTime * k  most == ConnectTime * MaxTried
    <3>1. spent <= sofar /\ k <= MaxTried
      BY <2>1, <2>2 DEF Tried
    <3>2. sofar \in Nat /\ most \in Nat /\ sofar <= most
      BY <2>1, <3>1, Products
    <3> HIDE DEF sofar, most
    <3> QED BY <1>0, <3>1, <3>2 DEF ReachTypes, most
  <2>6. ASSUME master # NoAddress
        PROVE  \E i \in DOMAIN listing : /\ master = listing[i] /\ master \in answering
                                         /\ Preferred(i) \cap answering = {}
    <3>1. /\ k \in 1..TryCount /\ master = listing[p[k]] /\ master \in answering
          /\ \A i \in 1..k : listing[p[i]] \in answering => i = k
      BY <2>1, <2>6 DEF Tried
    <3>2. k \in DOMAIN listing /\ p[k] \in DOMAIN listing
      <4> PICK n, m : n = Len(listing) /\ m = TryCount
        OBVIOUS
      <4>0. n \in Nat /\ m \in 1..n /\ k \in 1..m
        BY <2>2, <2>3, <3>1
      <4>1. k \in 1..Len(listing)
        BY <4>0
      <4> QED BY <2>3, <4>1
    <3>3. \A l \in 1..(k - 1) : listing[p[l]] \notin answering
      BY <2>1, <3>1
    <3>4. Preferred(p[k]) \cap answering = {}
      BY <2>4, <3>2, <3>3
    <3> QED BY <3>1, <3>2, <3>4
  <2>7. ASSUME reach = "failed", master = NoAddress,
               NEW i \in DOMAIN listing, listing[i] \in answering
        PROVE  Cardinality(Preferred(i)) >= MaxTried
    <3>1. k = TryCount /\ \A l \in 1..k : listing[p[l]] \in answering => master = listing[p[k]]
      BY <2>1, <2>7 DEF Tried
    <3>2. \A l \in 1..TryCount : listing[p[l]] \notin answering
      <4>1. listing[p[TryCount]] \in Addresses
        BY <1>0, <2>2, <2>3, ElementOfSeq DEF ReachTypes
      <4> QED BY <2>7, <3>1, <4>1
    <3>3. PICK n \in DOMAIN listing : p[n] = i
      BY <2>3
    <3>4. n > TryCount /\ TryCount = MaxTried
      <4>1. listing[p[n]] \in answering /\ n \in 1..Len(listing)
        BY <2>3, <2>7, <3>3
      <4>2. n \notin 1..TryCount
        BY <3>2, <4>1
      <4> PICK len, m : len = Len(listing) /\ m = TryCount
        OBVIOUS
      <4>3. len \in Nat /\ m \in 1..len /\ n \in 1..len /\ n \notin 1..m
            /\ m <= MaxTried /\ (m = MaxTried \/ m = len)
        BY <2>2, <2>3, <4>1, <4>2
      <4>4. n > m /\ m = MaxTried
        BY <4>3
      <4> QED BY <4>4
    <3>5. {listing[p[l]] : l \in 1..MaxTried} \subseteq Preferred(i)
      <4>1. Preferred(i) = {listing[p[l]] : l \in 1..(n - 1)}
        BY <2>4, <3>3
      <4>2. \A l \in 1..MaxTried : l \in 1..(n - 1)
        BY <2>3, <3>3, <3>4
      <4> QED BY <4>1, <4>2
    <3> DEFINE f == [l \in 1..MaxTried |-> listing[p[l]]]
    <3>6. f \in Injection(1..MaxTried, Preferred(i))
      <4>1. f \in [1..MaxTried -> Preferred(i)]
        BY <3>5
      <4>2. \A l, m \in 1..MaxTried : listing[p[l]] = listing[p[m]] => l = m
        <5>1. \A l \in 1..MaxTried : l \in DOMAIN listing
          BY <2>2, <2>3, <3>4
        <5>2. \A l, m \in DOMAIN listing : listing[p[l]] = listing[p[m]] => p[l] = p[m]
          BY <1>0, <2>3 DEF ReachTypes
        <5> QED BY <2>3, <5>1, <5>2
      <4> QED BY <4>1, <4>2 DEF Injection, IsInjective
    <3>7. IsFiniteSet(Preferred(i))
      <4>1. Preferred(i) \subseteq Addresses
        BY <1>0, ElementOfSeq DEF ReachTypes, Preferred
      <4> QED BY <4>1, FS_Subset
    <3>8. Cardinality(1..MaxTried) = MaxTried
      BY FS_Interval
    <3>9. Cardinality(1..MaxTried) <= Cardinality(Preferred(i))
      <4> HIDE DEF f
      <4> QED BY <3>6, <3>7, FS_Injection
    <3>10. Cardinality(Preferred(i)) \in Nat
      BY <3>7, FS_CardinalityType
    <3> QED BY <3>8, <3>9, <3>10
  <2> QED BY <2>5, <2>6, <2>7 DEF MasterIsFirstThatAnswers
<1> QED BY <1>1, <1>2, <1>3

-----------------------------------------------------------------------------
(* CameraRelay: every frame is accounted for, whenever ROS is shut down.   *)

(* The steps of the republisher, whenever the command lets it take them. *)
RelayNext ==
  \/ StartRelay \/ SpinEnds \/ RelayReport \/ RelayCallback
  \/ \E b \in FrameBodies : FrameArrives(b)

(* The inductive invariant. *)

RelayTypes ==
  /\ frameLog \in Seq(FrameBodies) /\ Len(frameLog) <= MaxFrames
  /\ slot \in 0..Len(frameLog)
  /\ job \in [stage : {"none", "send", "forward", "drop"}, frame : 0..Len(frameLog)]
  /\ taken \in Nat /\ forwarded \in Nat /\ dropped \in Nat /\ settled \in Nat
  /\ images \in Seq(Nat)
  /\ relayAt \in {"start", "spin", "forwarded", "dropped", "ended", "failed"}
  /\ report \in [forwarded : Nat, dropped : Nat]

(* A frame is taken once, and the one in the queue has not been taken. *)
FrameNumbers ==
  /\ job.stage = "none" <=> job = NoJob
  /\ job.stage \in {"send", "forward"} => job.frame # 0 /\ Jpeg(frameLog[job.frame])
  /\ taken + (IF slot = 0 THEN 0 ELSE 1) <= Len(frameLog)
  /\ slot # 0 => job.frame < slot

(* The images are whole JPEG frames, each newer than the one before, and   *)
(* older than what is still to be sent.                                    *)
ImagesInOrder ==
  \A i \in 1..Len(images) :
    /\ images[i] \in 1..Len(frameLog)
    /\ Jpeg(frameLog[images[i]])
    /\ i > 1 => images[i - 1] < images[i]
    /\ slot # 0 => images[i] < slot
    /\ job.stage = "send" => images[i] < job.frame

Counted ==
  /\ forwarded + dropped + InHand({"send", "forward", "drop"}) = taken
  /\ Len(images) = forwarded + InHand({"forward"})

(* What has been read of the two counters, one after the other. *)
Reading ==
  /\ settled <= forwarded + dropped
  /\ relayAt \in {"start", "spin"} => settled = 0
  /\ relayAt = "dropped" => /\ settled <= report.forwarded + dropped
                            /\ report.forwarded <= forwarded
  /\ relayAt = "ended" => /\ settled <= report.forwarded + report.dropped
                          /\ report.forwarded + report.dropped <= forwarded + dropped

RelayInv == RelayTypes /\ FrameNumbers /\ ImagesInOrder /\ Counted /\ Reading

LEMMA RelayInitInv == RelayInit => RelayInv
BY CameraRelayAssumption DEF RelayInit, RelayInv, RelayTypes, FrameNumbers,
   ImagesInOrder, Counted, Reading,
   InHand, NoJob

LEMMA RelayStepInv == RelayInv /\ [RelayNext]_relayVars => RelayInv'
<1> SUFFICES ASSUME RelayInv, [RelayNext]_relayVars PROVE RelayInv'
  OBVIOUS
<1> USE DEF frameVars, RelayInv
<1>1. CASE StartRelay
  BY <1>1 DEF StartRelay, RelayTypes, FrameNumbers, ImagesInOrder, Counted, Reading, InHand
<1>2. CASE SpinEnds
  BY <1>2 DEF SpinEnds, RelayTypes, FrameNumbers, ImagesInOrder, Counted, Reading, InHand
<1>3. CASE ReadForwarded
  <2>1. report' = [forwarded |-> forwarded, dropped |-> report.dropped]
    BY <1>3 DEF ReadForwarded, RelayTypes
  <2>2. RelayTypes' /\ FrameNumbers' /\ ImagesInOrder' /\ Counted'
    BY <1>3, <2>1 DEF ReadForwarded, RelayTypes, FrameNumbers, ImagesInOrder, Counted,
       InHand
  <2>3. Reading'
    BY <1>3, <2>1 DEF ReadForwarded, RelayTypes, Reading
  <2> QED BY <2>2, <2>3
<1>4. CASE ReadDropped
  <2>1. report' = [forwarded |-> report.forwarded, dropped |-> dropped]
    BY <1>4 DEF ReadDropped, RelayTypes
  <2>2. RelayTypes' /\ FrameNumbers' /\ ImagesInOrder' /\ Counted'
    BY <1>4, <2>1 DEF ReadDropped, RelayTypes, FrameNumbers, ImagesInOrder, Counted, InHand
  <2>3. Reading'
    BY <1>4, <2>1 DEF ReadDropped, RelayTypes, Reading
  <2> QED BY <2>2, <2>3
<1>5. CASE TakeFrame
  <2>1. slot \in 1..Len(frameLog) /\ frameLog[slot] \in FrameBodies
    BY <1>5 DEF TakeFrame, RelayTypes
  <2>2. IsJpeg(frameLog[slot]) => Jpeg(frameLog[slot])
    BY <2>1, CameraRelayAssumption, JpegIsWhole
  <2>3. RelayTypes' /\ FrameNumbers'
    BY <1>5, <2>1, <2>2 DEF TakeFrame, RelayTypes, FrameNumbers, NoJob
  <2>4. ImagesInOrder'
    BY <1>5, <2>1 DEF TakeFrame, RelayTypes, ImagesInOrder
  <2>5. Counted' /\ Reading'
    BY <1>5 DEF TakeFrame, RelayTypes, Counted, Reading, InHand, NoJob
  <2> QED BY <2>3, <2>4, <2>5
<1>6. CASE SendImage
  <2>1. job.stage = "send" /\ job.frame \in 1..Len(frameLog) /\ Jpeg(frameLog[job.frame])
    BY <1>6 DEF SendImage, RelayTypes, FrameNumbers
  <2>2. CASE job' = [job EXCEPT !.stage = "forward"] /\ images' = Append(images, job.frame)
    <3>1. job' = [stage |-> "forward", frame |-> job.frame]
      BY <2>2 DEF RelayTypes
    <3>2. /\ images' \in Seq(Nat)
          /\ Len(images') = Len(images) + 1
          /\ images'[Len(images) + 1] = job.frame
          /\ \A i \in 1..Len(images) : images'[i] = images[i]
      BY <2>1, <2>2 DEF RelayTypes
    <3>3. RelayTypes' /\ FrameNumbers'
      BY <1>6, <2>1, <3>1, <3>2 DEF SendImage, RelayTypes, FrameNumbers, NoJob
    <3>4. ImagesInOrder'
      <4>1. frameLog' = frameLog /\ slot' = slot /\ Len(images) \in Nat /\ job'.stage # "send"
        BY <1>6, <3>1 DEF SendImage, RelayTypes
      <4>2. ASSUME NEW i \in 1..Len(images)
            PROVE  /\ images'[i] \in 1..Len(frameLog) /\ Jpeg(frameLog[images'[i]])
                   /\ images'[i] < job.frame
                   /\ i > 1 => images'[i - 1] < images'[i]
                   /\ slot # 0 => images'[i] < slot
        <5>1. i > 1 => i - 1 \in 1..Len(images)
          BY <4>1
        <5> QED BY <2>1, <3>2, <5>1 DEF ImagesInOrder
      <4>3. slot # 0 => job.frame < slot
        BY DEF FrameNumbers
      <4>4. \A i \in 1..(Len(images) + 1) : i \in 1..Len(images) \/ i = Len(images) + 1
        BY <4>1
      <4>5. LET n == Len(images) + 1
            IN  /\ images'[n] \in 1..Len(frameLog) /\ Jpeg(frameLog[images'[n]])
                /\ n > 1 => images'[n - 1] < images'[n]
                /\ slot # 0 => images'[n] < slot
        BY <2>1, <3>2, <4>1, <4>2, <4>3
      <4> QED BY <3>2, <4>1, <4>2, <4>4, <4>5 DEF ImagesInOrder, Jpeg
    <3>5. Counted' /\ Reading'
      BY <1>6, <2>1, <3>1, <3>2 DEF SendImage, RelayTypes, Counted, Reading, InHand
    <3> QED BY <3>3, <3>4, <3>5
  <2>3. CASE job' = [job EXCEPT !.stage = "drop"] /\ UNCHANGED images
    <3>1. job' = [stage |-> "drop", frame |-> job.frame]
      BY <2>3 DEF RelayTypes
    <3>2. RelayTypes' /\ FrameNumbers' /\ ImagesInOrder'
      BY <1>6, <2>1, <2>3, <3>1 DEF SendImage, RelayTypes, FrameNumbers, ImagesInOrder,
         NoJob
    <3>3. Counted' /\ Reading'
      BY <1>6, <2>1, <2>3, <3>1 DEF SendImage, RelayTypes, Counted, Reading, InHand
    <3> QED BY <3>2, <3>3
  <2> QED BY <1>6, <2>2, <2>3 DEF SendImage
<1>7. CASE Count
  <2>1. RelayTypes' /\ FrameNumbers' /\ ImagesInOrder'
    BY <1>7 DEF Count, RelayTypes, FrameNumbers, ImagesInOrder, NoJob
  <2>2. Counted' /\ Reading'
    <3>1. CASE job.stage = "forward"
      BY <1>7, <3>1 DEF Count, RelayTypes, Counted, Reading, InHand, NoJob
    <3>2. CASE job.stage = "drop"
      BY <1>7, <3>2 DEF Count, RelayTypes, Counted, Reading, InHand, NoJob
    <3> QED BY <1>7, <3>1, <3>2 DEF Count
  <2> QED BY <2>1, <2>2
<1>8. ASSUME NEW b \in FrameBodies, FrameArrives(b) PROVE RelayInv'
  <2>0. frameLog' \in Seq(FrameBodies) /\ Len(frameLog') = Len(frameLog) + 1
    BY <1>8 DEF FrameArrives, RelayTypes
  <2>1. RelayTypes'
    BY <1>8, <2>0, CameraRelayAssumption DEF FrameArrives, RelayTypes
  <2>2. \A i \in 1..Len(frameLog) : frameLog'[i] = frameLog[i]
    BY <1>8 DEF FrameArrives, RelayTypes
  <2>3. slot' \in {slot, Len(frameLog) + 1} /\ UNCHANGED <<job, taken, images>>
    BY <1>8, <2>0 DEF FrameArrives
  <2>4. FrameNumbers'
    BY <2>0, <2>2, <2>3 DEF RelayTypes, FrameNumbers, NoJob
  <2>5. ImagesInOrder'
    BY <2>0, <2>2, <2>3 DEF RelayTypes, ImagesInOrder
  <2>6. Counted' /\ Reading'
    BY <1>8 DEF FrameArrives, Counted, Reading, InHand
  <2> QED BY <2>1, <2>4, <2>5, <2>6
<1>9. CASE UNCHANGED relayVars
  BY <1>9 DEF relayVars, RelayTypes, FrameNumbers, ImagesInOrder, Counted, Reading, InHand
<1> QED
  BY <1>1, <1>2, <1>3, <1>4, <1>5, <1>6, <1>7, <1>8, <1>9 DEF RelayNext, RelayReport,
     RelayCallback

LEMMA RelayInvType == RelayInv => RelayTypeOK
<1> SUFFICES ASSUME RelayInv PROVE RelayTypeOK
  OBVIOUS
<1>1. images \in Seq(1..Len(frameLog))
  <2>1. \A i \in 1..Len(images) : images[i] \in 1..Len(frameLog)
    BY DEF RelayInv, ImagesInOrder
  <2>2. images \in Seq(Nat)
    BY DEF RelayInv, RelayTypes
  <2> QED BY <2>1, <2>2
<1> QED BY <1>1 DEF RelayInv, RelayTypes, FrameNumbers, Counted, Reading, RelayTypeOK,
   InHand

LEMMA RelayInvAccounts == RelayInv => FramesAccounted
<1> SUFFICES ASSUME RelayInv PROVE FramesAccounted
  OBVIOUS
<1>1. DOMAIN images = 1..Len(images)
  BY DEF RelayInv, RelayTypes
<1>2. \A i \in DOMAIN images :
       /\ i > 1 => images[i - 1] < images[i]
       /\ Jpeg(frameLog[images[i]])
  BY <1>1 DEF RelayInv, ImagesInOrder
<1> QED BY <1>2 DEF RelayInv, RelayTypes, Counted, Reading, FramesAccounted, Jpeg, InHand

-----------------------------------------------------------------------------
(* ScoutLookup: the Scout that is named comes from a whole output.         *)

(* The steps of the lookup and of the child, and the end of the lookup. *)
LookNext == LookStep \/ ReaderStep \/ ChildStep \/ LookForgotten

(* The inductive invariant. *)

LookTypes ==
  /\ look \in {"start", "wait", "join", "done"}
  /\ program \in 1..Len(Programs)
  /\ waited \in 0..LookTime
  /\ child \in {"none", "running", "ok", "bad", "killed"}
  /\ output \in Seq(Words) /\ Len(output) <= MaxOutput
  /\ keeper \in BOOLEAN
  /\ reader \in {"none", "reading", "done", "error"}
  /\ got \in 0..(OutputLimit + 1) /\ got <= Len(output)

(* A reader that is done has read all there is or more than the limit, and *)
(* a child that has ended stays as it is.                                  *)
ReadToEnd ==
  /\ reader = "done" => got > OutputLimit \/ got = Len(output)
  /\ look = "wait" => child \in {"running", "ok", "bad"}
  /\ look = "join" => child \in {"ok", "bad"}

(* There is no name before the lookup is done. *)
NameAtEnd == look # "done" => name = OtherWord

LookInv == LookTypes /\ ReadToEnd /\ NameAtEnd /\ NameFromWholeOutput

LEMMA LookInitInv == LookInit => LookInv
<1> SUFFICES ASSUME LookInit PROVE LookInv
  OBVIOUS
<1>1. <<>> \in Seq(Words) /\ Len(<<>>) = 0
  OBVIOUS
<1>2. keeper \in BOOLEAN
  BY Zenon DEF LookInit
<1> QED BY <1>1, <1>2, ScoutLookupAssumption
           DEF LookInit, LookInv, LookTypes, ReadToEnd, NameAtEnd, NameFromWholeOutput

LEMMA NotFoundInv ==
  ASSUME LookTypes, NotFound
  PROVE  /\ program' \in 1..Len(Programs)
         /\ look' \in {"start", "done"}
         /\ name' = OtherWord
BY ScoutLookupAssumption DEF LookTypes, NotFound

LEMMA LookStepInv == LookInv /\ [LookNext]_lookVars => LookInv'
<1> SUFFICES ASSUME LookInv, [LookNext]_lookVars PROVE LookInv'
  OBVIOUS
<1> USE ScoutLookupAssumption DEF LookInv
<1>1. CASE Spawn
  <2>1. CASE look' = "wait"
    <3>1. keeper' \in BOOLEAN
      BY <1>1, <2>1, Zenon DEF Spawn, NotFound
    <3> QED BY <1>1, <2>1, <3>1 DEF Spawn, NotFound, LookTypes, ReadToEnd, NameAtEnd,
       NameFromWholeOutput
  <2>2. CASE NotFound /\ UNCHANGED <<waited, child, output, keeper, reader, got>>
    BY <2>2, NotFoundInv DEF LookTypes, ReadToEnd, NameAtEnd, NameFromWholeOutput
  <2>3. CASE look' = "done" /\ UNCHANGED <<program, waited, child, output, keeper, reader, got, name>>
    BY <2>3 DEF LookTypes, ReadToEnd, NameAtEnd, NameFromWholeOutput
  <2> QED BY <1>1, <2>1, <2>2, <2>3 DEF Spawn
<1>2. CASE Poll
  BY <1>2 DEF Poll, LookTypes, ReadToEnd, NameAtEnd, NameFromWholeOutput
<1>3. CASE Ended
  BY <1>3 DEF Ended, LookTypes, ReadToEnd, NameAtEnd, NameFromWholeOutput
<1>4. CASE KillChild
  <2>1. LookTypes' /\ ReadToEnd' /\ name' = OtherWord
    BY <1>4, NotFoundInv DEF KillChild, LookTypes, ReadToEnd
  <2> QED BY <2>1 DEF NameAtEnd, NameFromWholeOutput
<1>5. CASE Join
  <2>1. look = "join" /\ UNCHANGED <<waited, child, output, keeper, reader, got>>
    BY <1>5 DEF Join, JoinIf
  <2>2. CASE NotFound
    <3>1. LookTypes' /\ ReadToEnd' /\ name' = OtherWord
      BY <2>1, <2>2, NotFoundInv DEF LookTypes, ReadToEnd
    <3> QED BY <3>1 DEF NameAtEnd, NameFromWholeOutput
  <2>3. CASE ~NotFound
    <3> DEFINE text == SubSeq(output, 1, got)
    <3>1. /\ reader = "done" /\ child = "ok" /\ got <= OutputLimit
          /\ name' = KnownScoutInText(text) /\ look' = "done" /\ program' = program
      BY <1>5, <2>3 DEF Join, JoinIf, Found
    <3>2. got = Len(output)
      BY <3>1 DEF LookTypes, ReadToEnd
    <3>3. text = output
      BY <3>2 DEF LookTypes
    <3> QED BY <2>1, <3>1, <3>2, <3>3 DEF LookTypes, ReadToEnd, NameAtEnd,
       NameFromWholeOutput
  <2> QED BY <2>2, <2>3
<1>6. CASE ReaderReads
  BY <1>6 DEF ReaderReads, LookTypes, ReadToEnd, NameAtEnd, NameFromWholeOutput
<1>7. CASE ReaderEnds
  BY <1>7 DEF ReaderEnds, LookTypes, ReadToEnd, NameAtEnd, NameFromWholeOutput
<1>8. ASSUME NEW word \in Words, Writes(word) PROVE LookInv'
  <2>1. output' \in Seq(Words) /\ Len(output') = Len(output) + 1
    BY <1>8 DEF Writes, LookTypes
  <2> QED BY <1>8, <2>1 DEF Writes, LookTypes, ReadToEnd, NameAtEnd, NameFromWholeOutput
<1>9. ASSUME NEW status \in {"ok", "bad"}, Exits(status) PROVE LookInv'
  BY <1>9 DEF Exits, LookTypes, ReadToEnd, NameAtEnd, NameFromWholeOutput
<1>10. CASE KeeperCloses
  BY <1>10 DEF KeeperCloses, LookTypes, ReadToEnd, NameAtEnd, NameFromWholeOutput
<1>11. CASE ReaderFails
  BY <1>11 DEF ReaderFails, LookTypes, ReadToEnd, NameAtEnd, NameFromWholeOutput
<1>12. CASE LookForgotten
  <2>1. <<>> \in Seq(Words) /\ Len(<<>>) = 0
    OBVIOUS
  <2>2. keeper' \in BOOLEAN
    BY <1>12, Zenon DEF LookForgotten
  <2> QED BY <1>12, <2>1, <2>2 DEF LookForgotten, LookTypes, ReadToEnd, NameAtEnd,
     NameFromWholeOutput
<1>13. CASE UNCHANGED lookVars
  BY <1>13 DEF lookVars, LookTypes, ReadToEnd, NameAtEnd, NameFromWholeOutput
<1> QED
  BY <1>1, <1>2, <1>3, <1>4, <1>5, <1>6, <1>7, <1>8, <1>9, <1>10, <1>11, <1>12, <1>13
     DEF LookNext, LookStep, ReaderStep, ChildStep, Kill, PollFails

LEMMA LookInvType == LookInv => LookTypeOK
<1> SUFFICES ASSUME LookInv PROVE LookTypeOK
  OBVIOUS
<1>1. KnownScoutInText(output) \in Words
  <2> DEFINE mentioned == {i \in DOMAIN KnownScouts : KnownScouts[i] \in ToSet(output)}
  <2>1. CASE mentioned = {}
    BY <2>1 DEF KnownScoutInText, Words
  <2>2. CASE mentioned # {}
    <3>1. mentioned \subseteq DOMAIN KnownScouts /\ DOMAIN KnownScouts \subseteq Nat
      BY ScoutLookupAssumption
    <3>2. Min(mentioned) \in mentioned
      <4> HIDE DEF mentioned
      <4> QED BY <2>2, <3>1, LeastNumber
    <3>3. KnownScouts[Min(mentioned)] \in Words
      BY <3>1, <3>2 DEF Words, ToSet
    <3> QED BY <2>2, <3>3 DEF KnownScoutInText
  <2> QED BY <2>1, <2>2
<1>2. name \in Words
  BY <1>1 DEF LookInv, NameFromWholeOutput, Words
<1>3. keeper \in BOOLEAN
  BY Zenon DEF LookInv, LookTypes
<1> QED BY <1>2, <1>3 DEF LookInv, LookTypes, LookTypeOK

-----------------------------------------------------------------------------
(* SensorMonitor: the readings of the monitor only advance.                *)

(* The steps of the monitor, whether ROS is up or not. *)
MonitorNext ==
  \/ StartMonitor \/ MonitorCheck(TRUE) \/ MonitorCheck(FALSE) \/ MonitorPrint \/ CallbackStep
  \/ \E b \in SensorBodies : SensorArrives(b)

(* The inductive invariant. *)

MonitorTypes ==
  /\ sensorLog \in Seq(SensorBodies) /\ Len(sensorLog) <= MaxReadings
  /\ arriving \in [Sensors -> Nat]
  /\ handling \in [Sensors -> Nat]
  /\ readings \in [Sensors -> Nat]
  /\ shown \in [Sensors -> Nat]
  /\ monitorAt \in {"start", "check", "print", "ended"}
  /\ seconds \in MonitorTimes
  /\ elapsed \in 0..seconds

(* The message n is one of this sensor's; or it is one that makes sense. *)
Arrived(s, n) == n # 0 => n <= Len(sensorLog) /\ sensorLog[n].type = s
Sensible(s, n) == Arrived(s, n) /\ (n # 0 => Whole(sensorLog[n]))

(* A message goes from the queue to the callback, the snapshot and the     *)
(* print, and each of them holds an older one than the one before it.      *)
Passed(s) ==
  /\ Arrived(s, arriving[s])
  /\ Sensible(s, handling[s])
  /\ Sensible(s, readings[s])
  /\ Sensible(s, shown[s])
  /\ shown[s] <= readings[s]
  /\ handling[s] # 0 => readings[s] < handling[s]
  /\ arriving[s] # 0 => readings[s] < arriving[s] /\ handling[s] < arriving[s]

MonitorInv == MonitorTypes /\ \A s \in Sensors : Passed(s)

LEMMA MonitorInitInv == MonitorInit => MonitorInv
BY SensorMonitorAssumption DEF MonitorInit, MonitorInv, MonitorTypes, Passed, Arrived,
   Sensible

LEMMA MonitorStepInv == MonitorInv /\ [MonitorNext]_monitorVars => MonitorInv'
<1> SUFFICES ASSUME MonitorInv, [MonitorNext]_monitorVars PROVE MonitorInv'
  OBVIOUS
<1> USE SensorMonitorAssumption DEF sensorVars
<1>0. MonitorTypes /\ \A s \in Sensors : Passed(s)
  BY DEF MonitorInv
<1>1. ASSUME NEW b \in SensorBodies, SensorArrives(b) PROVE MonitorInv'
  <2>1. /\ sensorLog' \in Seq(SensorBodies)
        /\ Len(sensorLog') = Len(sensorLog) + 1
        /\ sensorLog'[Len(sensorLog) + 1] = b
        /\ \A i \in 1..Len(sensorLog) : sensorLog'[i] = sensorLog[i]
    BY <1>0, <1>1 DEF SensorArrives, MonitorTypes
  <2>2. b.type \in Sensors
    OBVIOUS
  <2>3. MonitorTypes'
    BY <1>0, <1>1, <2>1, <2>2 DEF SensorArrives, MonitorTypes
  <2>4. ASSUME NEW s \in Sensors PROVE Passed(s)'
    <3>1. arriving'[s] = arriving[s] \/ (arriving'[s] = Len(sensorLog) + 1 /\ b.type = s)
      BY <1>0, <1>1, <2>1, <2>2 DEF SensorArrives, MonitorTypes
    <3>2. /\ arriving[s] \in Nat /\ handling[s] \in Nat /\ readings[s] \in Nat /\ shown[s] \in Nat
          /\ Len(sensorLog) \in Nat
      BY <1>0 DEF MonitorTypes
    <3>3. UNCHANGED <<handling, readings, shown>>
      BY <1>1 DEF SensorArrives
    <3>4. Passed(s)
      BY <1>0
    <3> QED BY <2>1, <3>1, <3>2, <3>3, <3>4 DEF Passed, Arrived, Sensible
  <2> QED BY <2>3, <2>4 DEF MonitorInv
<1>2. ASSUME NEW r \in Sensors, DecodeSensor(r) PROVE MonitorInv'
  <2>1. MonitorTypes'
    BY <1>0, <1>2 DEF DecodeSensor, MonitorTypes
  <2>2. ASSUME NEW s \in Sensors PROVE Passed(s)'
    <3>1. /\ arriving[s] \in Nat /\ handling[s] \in Nat /\ readings[s] \in Nat /\ shown[s] \in Nat
          /\ Len(sensorLog) \in Nat
      BY <1>0 DEF MonitorTypes
    <3>2. UNCHANGED <<sensorLog, readings, shown>>
      BY <1>2 DEF DecodeSensor
    <3>3. Passed(s)
      BY <1>0
    <3>4. CASE s # r
      <4>1. arriving'[s] = arriving[s] /\ handling'[s] = handling[s]
        BY <1>0, <1>2, <3>4 DEF DecodeSensor, MonitorTypes
      <4> QED BY <3>2, <3>3, <4>1 DEF Passed, Arrived, Sensible
    <3>5. CASE s = r
      <4>1. arriving[s] # 0 /\ handling[s] = 0 /\ arriving'[s] = 0
        BY <1>0, <1>2, <3>5 DEF DecodeSensor, MonitorTypes
      <4>2. \/ handling'[s] = 0
            \/ handling'[s] = arriving[s] /\ Decodes(sensorLog[arriving[s]])
        BY <1>0, <1>2, <3>5, <4>1 DEF DecodeSensor, MonitorTypes
      <4>3. sensorLog[arriving[s]] \in Body
        BY <1>0, <3>1, <3>3, <4>1 DEF MonitorTypes, Passed, Arrived
      <4>4. Decodes(sensorLog[arriving[s]]) => Whole(sensorLog[arriving[s]])
        BY <4>3, DecodesIsWhole
      <4> QED BY <3>1, <3>2, <3>3, <4>1, <4>2, <4>4 DEF Passed, Arrived, Sensible
    <3> QED BY <3>4, <3>5
  <2> QED BY <2>1, <2>2 DEF MonitorInv
<1>3. ASSUME NEW r \in Sensors, StoreReading(r) PROVE MonitorInv'
  <2>1. MonitorTypes'
    BY <1>0, <1>3 DEF StoreReading, MonitorTypes
  <2>2. ASSUME NEW s \in Sensors PROVE Passed(s)'
    <3>1. /\ arriving[s] \in Nat /\ handling[s] \in Nat /\ readings[s] \in Nat /\ shown[s] \in Nat
      BY <1>0 DEF MonitorTypes
    <3>2. UNCHANGED <<sensorLog, arriving, shown>>
      BY <1>3 DEF StoreReading
    <3>3. Passed(s)
      BY <1>0
    <3>4. \/ handling'[s] = handling[s] /\ readings'[s] = readings[s]
          \/ handling[s] # 0 /\ handling'[s] = 0 /\ readings'[s] = handling[s]
      BY <1>0, <1>3 DEF StoreReading, MonitorTypes
    <3> QED BY <3>1, <3>2, <3>3, <3>4 DEF Passed, Arrived, Sensible
  <2> QED BY <2>1, <2>2 DEF MonitorInv
<1>4. CASE StartMonitor \/ MonitorCheck(TRUE) \/ MonitorCheck(FALSE)
  <2>1. MonitorTypes'
    BY <1>0, <1>4 DEF StartMonitor, MonitorCheck, MonitorTypes
  <2>2. ASSUME NEW s \in Sensors PROVE Passed(s)'
    BY <1>0, <1>4 DEF StartMonitor, MonitorCheck, Passed, Arrived, Sensible
  <2> QED BY <2>1, <2>2 DEF MonitorInv
<1>5. CASE MonitorPrint
  <2>1. MonitorTypes'
    BY <1>0, <1>5 DEF MonitorPrint, MonitorTypes
  <2>2. ASSUME NEW s \in Sensors PROVE Passed(s)'
    BY <1>0, <1>5 DEF MonitorPrint, MonitorTypes, Passed, Arrived, Sensible
  <2> QED BY <2>1, <2>2 DEF MonitorInv
<1>6. CASE UNCHANGED monitorVars
  BY <1>0, <1>6 DEF monitorVars, MonitorInv, MonitorTypes, Passed, Arrived, Sensible
<1> QED
  BY <1>1, <1>2, <1>3, <1>4, <1>5, <1>6 DEF MonitorNext, CallbackStep

(* A step that prints another reading prints a newer one that makes sense. *)
LEMMA MonitorStepAdvances ==
  ASSUME MonitorInv, [MonitorNext]_monitorVars, NEW s \in Sensors
  PROVE  ReadingAdvances(s)
<1>1. CASE MonitorPrint
  BY <1>1 DEF MonitorPrint, ReadingAdvances, MonitorInv, MonitorTypes, Passed, Arrived,
     Sensible, sensorVars
<1>2. CASE UNCHANGED shown
  BY <1>2 DEF ReadingAdvances
<1> QED
  BY <1>1, <1>2 DEF MonitorNext, StartMonitor, MonitorCheck, CallbackStep, DecodeSensor,
     StoreReading, SensorArrives, monitorVars, sensorVars

LEMMA MonitorInvType == MonitorInv => MonitorTypeOK
<1> SUFFICES ASSUME MonitorInv PROVE MonitorTypeOK
  OBVIOUS
<1>1. \A f \in {arriving, handling, readings, shown}, s \in Sensors : f[s] \in 0..Len(sensorLog)
  BY DEF MonitorInv, MonitorTypes, Passed, Arrived, Sensible
<1>2. \A f \in {arriving, handling, readings, shown} : f \in [Sensors -> Nat]
  BY DEF MonitorInv, MonitorTypes
<1>3. \A f \in {arriving, handling, readings, shown} : f \in [Sensors -> 0..Len(sensorLog)]
  BY <1>1, <1>2
<1> QED BY <1>3 DEF MonitorInv, MonitorTypes, MonitorTypeOK

-----------------------------------------------------------------------------
(* TeleopPictures: no picture and no other program's file is overwritten.  *)

(* The steps of teleop that this module models. *)
PictureNext ==
  \/ CreateDirectory \/ PictureStep \/ PictureCallback \/ PressSpace \/ LeaveSession
  \/ \E b \in PictureBodies, n \in SequenceNumbers : CameraFrame(b, n)
  \/ \E ms \in Stamps, n \in SequenceNumbers, k \in 0..(MaxSuffix - 1) :
       ForeignFile(FileName(ms, n, k))

(* The inductive invariant. *)

(* A number of a frame that has arrived; 0 is none. *)
Number(n) == n \in Nat /\ n <= Len(cameraLog)

(* The frame that is kept is a whole JPEG. *)
FramesHeld ==
  /\ cameraLog \in Seq([body : PictureBodies, sequence : SequenceNumbers])
  /\ Number(queued)
  /\ \A n \in {decoded, latest} : Number(n) /\ (n # 0 => Jpeg(cameraLog[n].body))
  /\ session \in {"open", "write"} => latest # 0

(* The file that is being written is a new one. *)
FileOpen == session = "write" => Chosen \in DOMAIN files /\ files[Chosen] = Partial

(* Every picture that was reported has its file. *)
SavedKept ==
  /\ \A p \in saved : /\ p.file \in DOMAIN files
                      /\ files[p.file] = p.frame
                      /\ p.frame # 0 /\ Number(p.frame)
                      /\ Jpeg(cameraLog[p.frame].body)
  /\ \A p, q \in saved : p.file = q.file => p = q

TerminalKept ==
  /\ session \in {"directory", "connect", "enter", "keys", "open", "write", "left"}
  /\ session \in {"directory", "connect", "enter", "left"} => term = "cooked"

PictureInv == FramesHeld /\ FileOpen /\ SavedKept /\ TerminalKept

LEMMA PictureInitInv == PictureInit => PictureInv
BY DEF PictureInit, PictureInv, FramesHeld, FileOpen, SavedKept, TerminalKept, Number

(* A new file is one more, and the others are what they were. *)
LEMMA NewFile ==
  ASSUME NEW f, NEW content, f \notin DOMAIN files, files' = With(f, content)
  PROVE  /\ DOMAIN files' = DOMAIN files \cup {f}
         /\ files'[f] = content
         /\ \A g \in DOMAIN files : files'[g] = files[g]
BY DEF With

LEMMA InvWhole == PictureInv => PicturesWhole
BY DEF PictureInv, SavedKept, TerminalKept, PicturesWhole, Jpeg

(* One step per action: it keeps the invariant and every file. *)
LEMMA PictureStepInv == PictureInv /\ [PictureNext]_pictureVars => PictureInv' /\ FilesKept
<1> SUFFICES ASSUME PictureInv, [PictureNext]_pictureVars PROVE PictureInv' /\ FilesKept
  OBVIOUS
<1> USE TeleopPicturesAssumption DEF cameraVars
<1>0. FramesHeld /\ FileOpen /\ SavedKept /\ TerminalKept
  BY DEF PictureInv
<1>a. (UNCHANGED files) => FilesKept
  BY DEF FilesKept
<1>1. CASE CreateDirectory \/ ConnectCamera
  BY <1>0, <1>1, <1>a DEF CreateDirectory, ConnectCamera, Prepare, PictureInv,
     FramesHeld, FileOpen, SavedKept,
     TerminalKept, Number
<1>2. CASE EnterTerminal
  BY <1>0, <1>2, <1>a DEF EnterTerminal, PictureInv, FramesHeld, FileOpen, SavedKept,
     TerminalKept, Number
<1>3. CASE CreateNew
  <2>1. CASE Chosen \in DOMAIN files
    BY <1>0, <1>3, <1>a, <2>1 DEF CreateNew, PictureInv, FramesHeld, FileOpen,
       SavedKept, TerminalKept, Number
  <2>2. CASE Chosen \notin DOMAIN files
    <3>1. files' = With(Chosen, Partial)
      BY <1>3, <2>2 DEF CreateNew
    <3>2. /\ DOMAIN files' = DOMAIN files \cup {Chosen}
          /\ files'[Chosen] = Partial
          /\ \A g \in DOMAIN files : files'[g] = files[g]
      BY <2>2, <3>1, NewFile
    <3>3. Chosen' = Chosen /\ session' = "write" /\ session = "open"
      BY <1>3, <2>2 DEF CreateNew, Chosen
    <3>4. FilesKept
      BY <3>2 DEF FilesKept
    <3>5. FramesHeld' /\ TerminalKept'
      BY <1>0, <1>3, <3>3 DEF CreateNew, FramesHeld, TerminalKept, Number
    <3>6. FileOpen'
      BY <3>2, <3>3 DEF FileOpen
    <3>7. SavedKept'
      BY <1>0, <1>3, <3>2 DEF CreateNew, SavedKept, Number
    <3> QED BY <3>4, <3>5, <3>6, <3>7 DEF PictureInv
  <2> QED BY <2>1, <2>2
<1>4. CASE WritePicture
  <2>1. session = "write" /\ Chosen \in DOMAIN files /\ files[Chosen] = Partial
    BY <1>0, <1>4 DEF WritePicture, FileOpen
  <2>2. /\ DOMAIN files' = DOMAIN files
        /\ files'[Chosen] = latest
        /\ \A g \in DOMAIN files : g # Chosen => files'[g] = files[g]
    BY <1>4, <2>1 DEF WritePicture
  <2>3. FilesKept
    BY <2>1, <2>2 DEF FilesKept
  <2>4. FramesHeld' /\ TerminalKept' /\ FileOpen'
    BY <1>0, <1>4 DEF WritePicture, FramesHeld, TerminalKept, FileOpen, Number
  <2>5. \A p \in saved : p.file # Chosen
    BY <1>0, <2>1 DEF SavedKept, Partial, Number
  <2>6. latest # 0 /\ Number(latest) /\ Jpeg(cameraLog[latest].body)
    BY <1>0, <2>1 DEF FramesHeld
  <2>7. SavedKept'
    BY <1>0, <1>4, <2>1, <2>2, <2>5, <2>6 DEF WritePicture, SavedKept, Number
  <2> QED BY <2>3, <2>4, <2>7 DEF PictureInv
<1>5. CASE NoNameLeft \/ LeaveSession
  BY <1>0, <1>5, <1>a DEF NoNameLeft, LeaveSession, Leave, PictureInv, FramesHeld,
     FileOpen, SavedKept,
     TerminalKept, Number
<1>6. CASE DecodePicture
  <2>1. decoded' = 0 \/ (decoded' = queued /\ IsJpeg(cameraLog[queued].body))
    BY <1>6 DEF DecodePicture
  <2>2. queued \in 1..Len(cameraLog) /\ cameraLog[queued].body \in Body
    <3>1. queued \in 1..Len(cameraLog)
      BY <1>0, <1>6 DEF DecodePicture, FramesHeld, Number
    <3>2. cameraLog[queued] \in [body : PictureBodies, sequence : SequenceNumbers]
      BY <1>0, <3>1, ElementOfSeq DEF FramesHeld
    <3> QED BY <3>1, <3>2
  <2>3. IsJpeg(cameraLog[queued].body) => Jpeg(cameraLog[queued].body)
    BY <2>2, JpegIsWhole
  <2>4. FramesHeld'
    BY <1>0, <1>6, <2>1, <2>2, <2>3 DEF DecodePicture, FramesHeld, Number
  <2>5. FileOpen' /\ SavedKept' /\ TerminalKept'
    BY <1>0, <1>6 DEF DecodePicture, FileOpen, SavedKept, TerminalKept, Number, Chosen
  <2>6. FilesKept
    BY <1>6, <1>a DEF DecodePicture
  <2> QED BY <2>4, <2>5, <2>6 DEF PictureInv
<1>7. CASE KeepPicture
  <2>1. session \notin {"open", "write"}
    BY <1>7 DEF KeepPicture, Saving
  <2>2. FramesHeld'
    BY <1>0, <1>7, <2>1 DEF KeepPicture, FramesHeld, Number
  <2>3. FileOpen' /\ SavedKept' /\ TerminalKept'
    BY <1>0, <1>7, <2>1 DEF KeepPicture, FileOpen, SavedKept, TerminalKept, Number
  <2>4. FilesKept
    BY <1>7, <1>a DEF KeepPicture
  <2> QED BY <2>2, <2>3, <2>4 DEF PictureInv
<1>8. CASE PressSpace
  <2>1. FramesHeld' /\ SavedKept' /\ TerminalKept' /\ FileOpen'
    BY <1>0, <1>8 DEF PressSpace, FramesHeld, SavedKept, TerminalKept, FileOpen, Number
  <2> QED BY <1>8, <1>a, <2>1 DEF PressSpace, PictureInv
<1>9. ASSUME NEW b \in PictureBodies, NEW n \in SequenceNumbers, CameraFrame(b, n)
      PROVE  PictureInv' /\ FilesKept
  <2>1. /\ cameraLog' \in Seq([body : PictureBodies, sequence : SequenceNumbers])
        /\ Len(cameraLog') = Len(cameraLog) + 1
        /\ \A i \in 1..Len(cameraLog) : cameraLog'[i] = cameraLog[i]
    BY <1>0, <1>9 DEF CameraFrame, FramesHeld
  <2>2. UNCHANGED <<decoded, latest, term, session, stamp, suffix, files, saved>>
    BY <1>9 DEF CameraFrame
  <2>3. queued' = queued \/ queued' = Len(cameraLog')
    BY <1>9 DEF CameraFrame
  <2>4. \A i : Number(i) => Number(i)' /\ (i # 0 => cameraLog'[i] = cameraLog[i])
    BY <1>0, <2>1 DEF FramesHeld, Number
  <2>5. FramesHeld'
    BY <1>0, <2>1, <2>2, <2>3, <2>4 DEF FramesHeld, Number
  <2>6. SavedKept' /\ TerminalKept'
    BY <1>0, <2>2, <2>4 DEF SavedKept, TerminalKept
  <2>7. FileOpen'
    <3>1. session = "write" => latest \in 1..Len(cameraLog)
      BY <1>0 DEF FramesHeld, Number
    <3> QED BY <1>0, <2>1, <2>2, <3>1 DEF FileOpen, Chosen
  <2> QED BY <1>a, <2>2, <2>5, <2>6, <2>7 DEF PictureInv
<1>10. ASSUME NEW f, ForeignFile(f) PROVE PictureInv' /\ FilesKept
  <2>1. /\ DOMAIN files' = DOMAIN files \cup {f}
        /\ \A g \in DOMAIN files : files'[g] = files[g]
    BY <1>10, NewFile DEF ForeignFile
  <2>2. FilesKept
    BY <2>1 DEF FilesKept
  <2>3. FramesHeld' /\ SavedKept' /\ TerminalKept' /\ FileOpen'
    BY <1>0, <1>10, <2>1 DEF ForeignFile, FramesHeld, SavedKept, TerminalKept, FileOpen,
       Number
  <2> QED BY <2>2, <2>3 DEF PictureInv
<1>11. CASE UNCHANGED pictureVars
  BY <1>0, <1>11, <1>a DEF pictureVars, PictureInv, FramesHeld, FileOpen, SavedKept,
     TerminalKept, Number, Chosen
<1> QED
  BY <1>1, <1>2, <1>3, <1>4, <1>5, <1>6, <1>7, <1>8, <1>9, <1>10, <1>11
     DEF PictureNext, PictureStep, PictureCallback

(* The names and the contents of the files, and the counters. *)
PictureTypes ==
  /\ term \in {"cooked", "raw", "enhanced"}
  /\ stamp \in Stamps \cup {0}
  /\ session \in {"open", "write"} => stamp \in Stamps
  /\ suffix \in 0..MaxSuffix
  /\ \A f \in DOMAIN files : /\ f \in Stamps \X SequenceNumbers \X (0..MaxSuffix)
                            /\ files[f] \in Foreign..Len(cameraLog)
  /\ \A p \in saved : p = [file |-> p.file, frame |-> p.frame]
  /\ presses \in 0..MaxPictures

LEMMA PictureInitTypes == PictureInit => PictureTypes
BY TeleopPicturesAssumption DEF PictureInit, PictureTypes

LEMMA PictureStepTypes ==
  PictureInv /\ PictureTypes /\ [PictureNext]_pictureVars => PictureTypes'
<1> SUFFICES ASSUME PictureInv, PictureTypes, [PictureNext]_pictureVars PROVE PictureTypes'
  OBVIOUS
<1> USE TeleopPicturesAssumption
<1>0. /\ cameraLog \in Seq([body : PictureBodies, sequence : SequenceNumbers])
      /\ latest \in 0..Len(cameraLog) /\ Len(cameraLog) \in Nat
      /\ session \in {"open", "write"} => latest # 0
  BY DEF PictureInv, FramesHeld, Number
<1>1. session \in {"open", "write"} => Chosen \in Stamps \X SequenceNumbers \X (0..MaxSuffix)
  <2> SUFFICES ASSUME session \in {"open", "write"}
               PROVE  Chosen \in Stamps \X SequenceNumbers \X (0..MaxSuffix)
    OBVIOUS
  <2>1. latest \in 1..Len(cameraLog)
    BY <1>0
  <2>2. cameraLog[latest] \in [body : PictureBodies, sequence : SequenceNumbers]
    BY <1>0, <2>1, ElementOfSeq
  <2>3. cameraLog[latest].sequence \in SequenceNumbers
    BY <2>2
  <2>4. stamp \in Stamps /\ suffix \in 0..MaxSuffix
    BY DEF PictureTypes
  <2> QED BY <2>3, <2>4 DEF Chosen, FileName
<1>2. ASSUME NEW f, NEW content, files' = With(f, content), UNCHANGED <<cameraVars, saved>>,
             f \in Stamps \X SequenceNumbers \X (0..MaxSuffix),
             content \in Foreign..Len(cameraLog)
      PROVE  \A g \in DOMAIN files' : /\ g \in Stamps \X SequenceNumbers \X (0..MaxSuffix)
                                     /\ files'[g] \in Foreign..Len(cameraLog')
  BY <1>2 DEF With, PictureTypes, cameraVars
<1>3. ASSUME NEW b \in PictureBodies, NEW n \in SequenceNumbers, CameraFrame(b, n)
      PROVE  PictureTypes'
  <2>1. Len(cameraLog') = Len(cameraLog) + 1
    BY <1>0, <1>3 DEF CameraFrame
  <2>2. Foreign..Len(cameraLog) \subseteq Foreign..Len(cameraLog')
    BY <1>0, <2>1 DEF Foreign
  <2> QED BY <1>3, <2>2 DEF CameraFrame, PictureTypes
<1>4. CASE DecodePicture \/ KeepPicture \/ CreateDirectory \/ ConnectCamera
  BY <1>4 DEF DecodePicture, KeepPicture, CreateDirectory, ConnectCamera, Prepare, cameraVars,
     PictureTypes
<1>5. CASE EnterTerminal
  BY <1>5 DEF EnterTerminal, cameraVars, PictureTypes
<1>6. CASE PressSpace
  BY <1>6 DEF PressSpace, cameraVars, PictureTypes
<1>7. CASE CreateNew
  <2>1. CASE Chosen \in DOMAIN files
    BY <1>7, <2>1 DEF CreateNew, cameraVars, PictureTypes
  <2>2. CASE Chosen \notin DOMAIN files
    <3>1. /\ files' = With(Chosen, Partial) /\ UNCHANGED <<cameraVars, saved>>
          /\ session' = "write" /\ UNCHANGED <<term, stamp, suffix, presses>>
          /\ session = "open"
      BY <1>7, <2>2 DEF CreateNew
    <3>2. Partial \in Foreign..Len(cameraLog)
      BY <1>0 DEF Partial, Foreign
    <3>3. \A g \in DOMAIN files' : /\ g \in Stamps \X SequenceNumbers \X (0..MaxSuffix)
                                  /\ files'[g] \in Foreign..Len(cameraLog')
      BY <1>1, <1>2, <3>1, <3>2
    <3> QED BY <3>1, <3>3 DEF PictureTypes
  <2> QED BY <2>1, <2>2
<1>8. CASE WritePicture
  <2>1. Chosen \in DOMAIN files
    BY <1>8 DEF WritePicture, PictureInv, FileOpen
  <2>2. latest \in Foreign..Len(cameraLog)
    BY <1>0 DEF Foreign
  <2>3. DOMAIN files' = DOMAIN files /\ \A g \in DOMAIN files : files'[g] \in {files[g], latest}
    BY <1>8, <2>1 DEF WritePicture
  <2>4. \A q \in saved' : q = [file |-> q.file, frame |-> q.frame]
    BY <1>8 DEF WritePicture, PictureTypes
  <2> QED BY <1>8, <2>2, <2>3, <2>4 DEF WritePicture, cameraVars, PictureTypes
<1>9. CASE NoNameLeft \/ LeaveSession
  BY <1>9 DEF NoNameLeft, LeaveSession, Leave, cameraVars, PictureTypes
<1>10. ASSUME NEW ms \in Stamps, NEW n \in SequenceNumbers, NEW k \in 0..(MaxSuffix - 1),
              ForeignFile(FileName(ms, n, k))
       PROVE  PictureTypes'
  <2> DEFINE f == FileName(ms, n, k)
  <2>1. f \in Stamps \X SequenceNumbers \X (0..MaxSuffix)
    BY DEF FileName
  <2>2. Foreign \in Foreign..Len(cameraLog)
    BY <1>0 DEF Foreign
  <2>3. files' = With(f, Foreign) /\ UNCHANGED <<cameraVars, saved>>
        /\ UNCHANGED <<term, session, stamp, suffix, presses>>
    BY <1>10 DEF ForeignFile
  <2>4. \A g \in DOMAIN files' : /\ g \in Stamps \X SequenceNumbers \X (0..MaxSuffix)
                                /\ files'[g] \in Foreign..Len(cameraLog')
    <3> HIDE DEF f
    <3> QED BY <1>2, <2>1, <2>2, <2>3
  <2> QED BY <2>3, <2>4 DEF PictureTypes
<1>11. CASE UNCHANGED pictureVars
  BY <1>11 DEF pictureVars, cameraVars, PictureTypes
<1> QED
  BY <1>3, <1>4, <1>5, <1>6, <1>7, <1>8, <1>9, <1>10, <1>11
     DEF PictureNext, PictureStep, PictureCallback

LEMMA PictureInvType == PictureInv /\ PictureTypes => PictureTypeOK
<1> SUFFICES ASSUME PictureInv, PictureTypes PROVE PictureTypeOK
  OBVIOUS
<1>1. \A n \in {queued, decoded, latest} : n \in 0..Len(cameraLog)
  BY DEF PictureInv, FramesHeld, Number
<1>2. Range(files) \subseteq Foreign..Len(cameraLog)
  BY DEF PictureTypes, Range
<1>3. saved \subseteq [file : DOMAIN files, frame : 1..Len(cameraLog)]
  <2> SUFFICES ASSUME NEW p \in saved
               PROVE  p \in [file : DOMAIN files, frame : 1..Len(cameraLog)]
    OBVIOUS
  <2>1. p.file \in DOMAIN files /\ p.frame \in 1..Len(cameraLog)
    BY DEF PictureInv, SavedKept, Number, FramesHeld
  <2>2. p = [file |-> p.file, frame |-> p.frame]
    BY DEF PictureTypes
  <2> QED BY <2>1, <2>2
<1> QED BY <1>1, <1>2, <1>3 DEF PictureInv, FramesHeld, TerminalKept, PictureTypes, PictureTypeOK

-----------------------------------------------------------------------------
(* The whole command. *)

LEMMA PartsInit ==
  ScoutInit => Init /\ ReachInit /\ RelayInit /\ LookInit /\ MonitorInit /\ PictureInit
BY DEF ScoutInit

LEMMA MoveSteps == [ScoutNext]_scoutVars => [Next]_vars
<1> SUFFICES ASSUME [ScoutNext]_scoutVars PROVE [Next]_vars
  OBVIOUS
<1>1. CASE Arguments
  BY <1>1 DEF Arguments, TeleopOnly, CommandsUnchanged, Next, Main
<1>2. CASE MoveMain \/ MoveHandler \/ MoveWorld \/ MoveTick \/ RosEnds
  BY <1>2 DEF MoveMain, MoveHandler, MoveWorld, MoveTick, RosEnds, Next, Main
<1>3. CASE MonitorMain \/ CameraMain \/ TeleopMain \/ MonitorWorld \/ CameraWorld \/ TeleopWorld
  BY <1>3 DEF MonitorMain, CameraMain, TeleopMain, MonitorWorld, CameraWorld, TeleopWorld,
     MonitorOnly, CameraOnly, TeleopOnly
<1>4. CASE \/ InitStep \/ InitReturns \/ Announce(LookStep) \/ AnnounceReturns \/ Discover
           \/ CommandReturns \/ Announce(ReaderStep) \/ Announce(ChildStep)
  BY <1>4 DEF InitStep, InitReturns, Announce, AnnounceReturns, Discover, CommandReturns,
     CommandsUnchanged
<1>5. CASE ScoutEnded \/ UNCHANGED scoutVars
  BY <1>5 DEF ScoutEnded, scoutVars
<1> QED BY <1>1, <1>2, <1>3, <1>4, <1>5 DEF ScoutNext, MainThread

LEMMA RelaySteps == [ScoutNext]_scoutVars => [RelayNext]_relayVars
<1> SUFFICES ASSUME [ScoutNext]_scoutVars PROVE [RelayNext]_relayVars
  OBVIOUS
<1>1. CASE Arguments
  BY <1>1 DEF Arguments, MoveOnly, TeleopOnly, CommandsUnchanged
<1>2. CASE CameraMain \/ CameraWorld
  BY <1>2 DEF CameraMain, CameraWorld, RelayNext
<1>3. CASE \/ MoveMain \/ MoveHandler \/ MoveWorld \/ MoveTick \/ RosEnds
           \/ MonitorMain \/ TeleopMain \/ MonitorWorld \/ TeleopWorld
  BY <1>3 DEF MoveMain, MoveHandler, MoveWorld, MoveTick, RosEnds, MonitorMain, TeleopMain,
     MonitorWorld, TeleopWorld, MoveOnly, MonitorOnly, TeleopOnly
<1>4. CASE \/ InitStep \/ InitReturns \/ Announce(LookStep) \/ AnnounceReturns \/ Discover
           \/ CommandReturns \/ Announce(ReaderStep) \/ Announce(ChildStep)
  BY <1>4 DEF InitStep, InitReturns, Announce, AnnounceReturns, Discover, CommandReturns,
     CommandsUnchanged
<1>5. CASE ScoutEnded \/ UNCHANGED scoutVars
  BY <1>5 DEF ScoutEnded, scoutVars
<1> QED BY <1>1, <1>2, <1>3, <1>4, <1>5 DEF ScoutNext, MainThread

LEMMA MonitorSteps == [ScoutNext]_scoutVars => [MonitorNext]_monitorVars
<1> SUFFICES ASSUME [ScoutNext]_scoutVars PROVE [MonitorNext]_monitorVars
  OBVIOUS
<1>1. CASE Arguments
  BY <1>1 DEF Arguments, MoveOnly, TeleopOnly, CommandsUnchanged
<1>2. CASE MonitorMain
  <2>1. MonitorCheck(rosOk) => MonitorCheck(TRUE) \/ MonitorCheck(FALSE)
    BY DEF MonitorCheck
  <2> QED BY <1>2, <2>1 DEF MonitorMain, MonitorNext
<1>3. CASE MonitorWorld
  BY <1>3 DEF MonitorWorld, MonitorNext
<1>4. CASE \/ MoveMain \/ MoveHandler \/ MoveWorld \/ MoveTick \/ RosEnds
           \/ CameraMain \/ TeleopMain \/ CameraWorld \/ TeleopWorld
  BY <1>4 DEF MoveMain, MoveHandler, MoveWorld, MoveTick, RosEnds, CameraMain, TeleopMain,
     CameraWorld, TeleopWorld, MoveOnly, CameraOnly, TeleopOnly
<1>5. CASE \/ InitStep \/ InitReturns \/ Announce(LookStep) \/ AnnounceReturns \/ Discover
           \/ CommandReturns \/ Announce(ReaderStep) \/ Announce(ChildStep)
  BY <1>5 DEF InitStep, InitReturns, Announce, AnnounceReturns, Discover, CommandReturns,
     CommandsUnchanged
<1>6. CASE ScoutEnded \/ UNCHANGED scoutVars
  BY <1>6 DEF ScoutEnded, scoutVars
<1> QED BY <1>1, <1>2, <1>3, <1>4, <1>5, <1>6 DEF ScoutNext, MainThread

LEMMA PictureSteps == [ScoutNext]_scoutVars => [PictureNext]_pictureVars
<1> SUFFICES ASSUME [ScoutNext]_scoutVars PROVE [PictureNext]_pictureVars
  OBVIOUS
<1>1. CASE Arguments
  BY <1>1 DEF Arguments, MoveOnly, CommandsUnchanged, PictureNext
<1>2. CASE TeleopMain \/ TeleopWorld
  BY <1>2 DEF TeleopMain, TeleopWorld, PictureNext
<1>3. CASE \/ MoveMain \/ MoveHandler \/ MoveWorld \/ MoveTick \/ RosEnds
           \/ MonitorMain \/ CameraMain \/ MonitorWorld \/ CameraWorld
  BY <1>3 DEF MoveMain, MoveHandler, MoveWorld, MoveTick, RosEnds, MonitorMain, CameraMain,
     MonitorWorld, CameraWorld, MoveOnly, MonitorOnly, CameraOnly
<1>4. CASE \/ InitStep \/ InitReturns \/ Announce(LookStep) \/ AnnounceReturns \/ Discover
           \/ CommandReturns \/ Announce(ReaderStep) \/ Announce(ChildStep)
  BY <1>4 DEF InitStep, InitReturns, Announce, AnnounceReturns, Discover, CommandReturns,
     CommandsUnchanged
<1>5. CASE ScoutEnded \/ UNCHANGED scoutVars
  BY <1>5 DEF ScoutEnded, scoutVars
<1> QED BY <1>1, <1>2, <1>3, <1>4, <1>5 DEF ScoutNext, MainThread

LEMMA LookSteps == [ScoutNext]_scoutVars => [LookNext]_lookVars
<1> SUFFICES ASSUME [ScoutNext]_scoutVars PROVE [LookNext]_lookVars
  OBVIOUS
<1>1. CASE Arguments
  BY <1>1 DEF Arguments, MoveOnly, TeleopOnly
<1>2. CASE \/ Announce(LookStep) \/ Announce(ReaderStep) \/ Announce(ChildStep)
           \/ AnnounceReturns
  BY <1>2 DEF Announce, AnnounceReturns, LookNext
<1>3. CASE \/ MoveMain \/ MoveHandler \/ MoveWorld \/ MoveTick \/ RosEnds
           \/ MonitorMain \/ CameraMain \/ TeleopMain
           \/ MonitorWorld \/ CameraWorld \/ TeleopWorld
  BY <1>3 DEF MoveMain, MoveHandler, MoveWorld, MoveTick, RosEnds, MonitorMain, CameraMain,
     TeleopMain, MonitorWorld, CameraWorld, TeleopWorld, MoveOnly, MonitorOnly, CameraOnly,
     TeleopOnly
<1>4. CASE InitStep \/ InitReturns \/ Discover \/ CommandReturns
  BY <1>4 DEF InitStep, InitReturns, Discover, CommandReturns
<1>5. CASE ScoutEnded \/ UNCHANGED scoutVars
  BY <1>5 DEF ScoutEnded, scoutVars
<1> QED BY <1>1, <1>2, <1>3, <1>4, <1>5 DEF ScoutNext, MainThread

LEMMA ReachSteps == [ScoutNext]_scoutVars => [ReachNext]_reachVars
<1> SUFFICES ASSUME [ScoutNext]_scoutVars PROVE [ReachNext]_reachVars
  OBVIOUS
<1>1. CASE Arguments
  BY <1>1 DEF Arguments, MoveOnly, TeleopOnly
<1>2. CASE InitStep \/ InitReturns
  BY <1>2 DEF InitStep, InitReturns, ReachNext
<1>3. CASE \/ MoveMain \/ MoveHandler \/ MoveWorld \/ MoveTick \/ RosEnds
           \/ MonitorMain \/ CameraMain \/ TeleopMain
           \/ MonitorWorld \/ CameraWorld \/ TeleopWorld
  BY <1>3 DEF MoveMain, MoveHandler, MoveWorld, MoveTick, RosEnds, MonitorMain, CameraMain,
     TeleopMain, MonitorWorld, CameraWorld, TeleopWorld, MoveOnly, MonitorOnly, CameraOnly,
     TeleopOnly
<1>4. CASE \/ Announce(LookStep) \/ Announce(ReaderStep) \/ Announce(ChildStep)
           \/ AnnounceReturns \/ Discover \/ CommandReturns
  BY <1>4 DEF Announce, AnnounceReturns, Discover, CommandReturns
<1>5. CASE ScoutEnded \/ UNCHANGED scoutVars
  BY <1>5 DEF ScoutEnded, scoutVars
<1> QED BY <1>1, <1>2, <1>3, <1>4, <1>5 DEF ScoutNext, MainThread

(* The command's own variables. *)
RunTypes ==
  /\ command \in Commands
  /\ place \in {"arguments", "init", "announce", "command", "ended"}
  /\ listed \in {"nothing", "topics", "services"}

LEMMA RunStepTypes == RunTypes /\ [ScoutNext]_scoutVars => RunTypes'
<1> SUFFICES ASSUME RunTypes, [ScoutNext]_scoutVars PROVE RunTypes'
  OBVIOUS
<1>1. CASE Arguments \/ InitReturns \/ AnnounceReturns \/ Discover \/ CommandReturns
  BY <1>1 DEF Arguments, InitReturns, AnnounceReturns, Discover, CommandReturns, RunTypes
<1>2. CASE \/ InitStep \/ Announce(LookStep) \/ Announce(ReaderStep) \/ Announce(ChildStep)
           \/ RosEnds \/ ScoutEnded \/ UNCHANGED scoutVars
  BY <1>2 DEF InitStep, Announce, RosEnds, ScoutEnded, scoutVars, runVars, RunTypes
<1>3. CASE \/ MoveMain \/ MoveHandler \/ MoveWorld \/ MoveTick
           \/ MonitorMain \/ CameraMain \/ TeleopMain
           \/ MonitorWorld \/ CameraWorld \/ TeleopWorld
  BY <1>3 DEF MoveMain, MoveHandler, MoveWorld, MoveTick, MonitorMain, CameraMain, TeleopMain,
     MonitorWorld, CameraWorld, TeleopWorld, Running, runVars, RunTypes
<1> QED BY <1>1, <1>2, <1>3 DEF ScoutNext, MainThread

-----------------------------------------------------------------------------
(* What holds of every run of the program. *)

(* The command behaves as TimedMove says, whatever happens around it.      *)
THEOREM CommandImplementsMove == ScoutSpec => Spec
BY PartsInit, MoveSteps, PTL DEF ScoutSpec, Spec

(* The motion sent is the one asked for, and it ends with zero.            *)
THEOREM CommandMovesSafely == ScoutSpec => []MotionSafe
BY CommandImplementsMove, MotionIsSafe, PTL

(* The motion stops at its deadline and at Ctrl-C.                         *)
THEOREM CommandStopsInTime == ASSUME Punctual PROVE ScoutSpec => []MotionStopsInTime
BY CommandImplementsMove, MotionIsInTime, PTL

(* camera-bridge counts every frame it takes once, and publishes whole     *)
(* JPEG frames in order.                                                   *)
THEOREM CommandAccountsForFrames == ScoutSpec => []FramesAccounted
BY PartsInit, RelaySteps, RelayInitInv, RelayStepInv, RelayInvAccounts, PTL DEF ScoutSpec

(* The session uses the master's best address that answers, and gives up   *)
(* only when none of those it may try does, after a bounded time.          *)
THEOREM CommandFindsFirstMaster == ScoutSpec => []MasterIsFirstThatAnswers
BY PartsInit, ReachSteps, ReachInitInv, ReachStepInv, ReachInvBest, PTL DEF ScoutSpec

(* A Scout is named only from a whole output.                              *)
THEOREM CommandNamesFromWholeOutput == ScoutSpec => []NameFromWholeOutput
<1>1. LookInv => NameFromWholeOutput
  BY DEF LookInv
<1> QED BY <1>1, PartsInit, LookSteps, LookInitInv, LookStepInv, PTL DEF ScoutSpec

(* monitor replaces a reading only by a newer one that makes sense.        *)
THEOREM CommandReadingsAdvance == ScoutSpec => ReadingsAdvance
<1>1. MonitorInv /\ [ScoutNext]_scoutVars => [\A s \in Sensors : ReadingAdvances(s)]_shown
  BY MonitorSteps, MonitorStepAdvances
<1>2. ScoutSpec => []MonitorInv
  BY PartsInit, MonitorSteps, MonitorInitInv, MonitorStepInv, PTL DEF ScoutSpec
<1> QED BY <1>1, <1>2, PTL DEF ScoutSpec, ReadingsAdvance

(* teleop overwrites no file, and reports whole pictures only.             *)
THEOREM CommandKeepsPictures == ScoutSpec => PicturesKept
<1>1. PictureInv /\ [ScoutNext]_scoutVars => [FilesKept /\ PicturesWhole']_pictureVars
  <2> SUFFICES ASSUME PictureInv, [ScoutNext]_scoutVars
               PROVE  FilesKept /\ PicturesWhole'
    OBVIOUS
  <2>1. PictureInv' /\ FilesKept
    BY PictureSteps, PictureStepInv
  <2>2. PictureInv' => PicturesWhole'
    BY InvWhole, PTL
  <2> QED BY <2>1, <2>2
<1>2. ScoutSpec => []PictureInv
  BY PartsInit, PictureSteps, PictureInitInv, PictureStepInv, PTL DEF ScoutSpec
<1> QED BY <1>1, <1>2, PTL DEF ScoutSpec, PicturesKept

(* Every variable of every part has its type: no frame's number is beyond  *)
(* the frames, no reader reads beyond the limit, no name of a picture has  *)
(* more than MaxSuffix.                                                    *)
THEOREM CommandTypeCorrect == ScoutSpec => []ScoutTypeOK
<1>1. ScoutSpec => []TypeOK
  BY CommandImplementsMove, TypeCorrect, PTL
<1>2. ScoutSpec => []ReachTypeOK
  BY PartsInit, ReachSteps, ReachInitInv, ReachStepInv, ReachInvBest, PTL DEF ScoutSpec
<1>3. ScoutSpec => []LookTypeOK
  BY PartsInit, LookSteps, LookInitInv, LookStepInv, LookInvType, PTL DEF ScoutSpec
<1>4. ScoutSpec => []MonitorTypeOK
  BY PartsInit, MonitorSteps, MonitorInitInv, MonitorStepInv, MonitorInvType, PTL DEF ScoutSpec
<1>5. ScoutSpec => []RelayTypeOK
  BY PartsInit, RelaySteps, RelayInitInv, RelayStepInv, RelayInvType, PTL DEF ScoutSpec
<1>6. ScoutSpec => []PictureTypeOK
  <2>1. PictureInv /\ [ScoutNext]_scoutVars => PictureInv'
    BY PictureSteps, PictureStepInv
  <2>2. PictureInv /\ PictureTypes /\ [ScoutNext]_scoutVars => PictureTypes'
    BY PictureSteps, PictureStepTypes
  <2> QED BY <2>1, <2>2, PartsInit, PictureInitInv, PictureInitTypes, PictureInvType, PTL
          DEF ScoutSpec
<1>7. ScoutSpec => []RunTypes
  <2>1. ScoutInit => RunTypes
    BY DEF ScoutInit, RunTypes
  <2> QED BY <2>1, RunStepTypes, PTL DEF ScoutSpec
<1>8. /\ RunTypes /\ TypeOK /\ ReachTypeOK /\ LookTypeOK
      /\ MonitorTypeOK /\ RelayTypeOK /\ PictureTypeOK
      => ScoutTypeOK
  BY Zenon DEF ScoutTypeOK, RunTypes
<1> QED BY <1>1, <1>2, <1>3, <1>4, <1>5, <1>6, <1>7, <1>8, PTL
=============================================================================
