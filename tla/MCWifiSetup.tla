------------------------- MODULE MCWifiSetup -------------------------
(* Small instances of WifiSetup for TLC. *)
EXTENDS WifiSetup

CONSTANTS a, w  \* a character, and one of two bytes

MCWidth == [c \in Chars |-> IF c = w THEN 2 ELSE 1]

(* None, one, one that is too long and one that is not safe. *)
MCSsids == {<<>>, <<a>>, <<a, a>>, <<w>>}

(* Whole replies of a robot that tells the truth, and malformed ones. *)
MCReplies ==
  {r \in AllReplies :
     /\ r.flag = 1 /\ r.frame = "zero" => r.robot = "accepted"
     /\ r.flag = 1 /\ r.frame = "code" => r.robot = "rejected"
     /\ r.flag = 0 /\ r.frame # "long" => r.robot = "failed"
     /\ r.frame = "message" => r.flag = 0
     /\ r.flag = 2 => r.frame = "zero"}
=============================================================================
