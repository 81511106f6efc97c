--------------------------- MODULE MCScoutCommand ---------------------------
(* Small instances of ScoutCommand for TLC. *)
EXTENDS ScoutCommand

(* ------------------------------ move ------------------------------------ *)

MCLimits == [forward |-> Finite(2), lateral |-> Finite(1), yaw |-> Finite(3)]

Asked(forward, lateral, yaw) ==
  [forward |-> forward, lateral |-> lateral, yaw |-> yaw]

Ahead == Asked(Finite(1), Finite(0), Finite(0))
Beyond == Asked(Finite(-5), Finite(2), Finite(-3))

Request(v, seconds_, hz) == [velocity |-> v, duration |-> seconds_, rate |-> hz]

(* Motions that are sent, with periods of two ticks and of one; and every  *)
(* kind of request that is refused.                                        *)
MCRequests ==
  {Request(Ahead, Finite(3), Finite(1)), Request(Beyond, Finite(2), Finite(2)),
   Request(Ahead, Finite(0), Finite(1)), Request(Ahead, Finite(-1), Finite(1)),
   Request(Ahead, Finite(6), Finite(1)), Request(Ahead, NotFinite, Finite(1)),
   Request(Ahead, Finite(3), Finite(0)), Request(Ahead, Finite(3), Finite(3)),
   Request(Ahead, Finite(3), NotFinite),
   Request(Asked(Finite(0), Finite(0), Finite(0)), Finite(3), Finite(1)),
   Request(Asked(Finite(1), NotFinite, Finite(0)), Finite(3), Finite(1))}

(* ------------------------------ messages -------------------------------- *)

(* A frame of `data` bytes whose prefix claims `count`. *)
Frame(data, claimed, byte, starts, ends) ==
  [type |-> "frame", size |-> 41 + data, count |-> claimed, utf8 |-> TRUE,
   percentage |-> 0, stream |-> byte, starts |-> starts, ends |-> ends]

Huge == 2147483647

MCFrameBodies ==
  {Frame(9, 9, 1, TRUE, TRUE),                       \* a JPEG
   Frame(9, 9, 0, TRUE, TRUE),                       \* H.264
   Frame(9, 9, 1, TRUE, FALSE),                      \* a JPEG without its end
   Frame(8, 9, 1, TRUE, TRUE), Frame(10, 9, 1, TRUE, TRUE),
   Frame(9, Huge, 1, TRUE, TRUE),
   Frame(MAX_FRAME_DATA_BYTES, MAX_FRAME_DATA_BYTES, 1, TRUE, TRUE),
   Frame(MAX_FRAME_DATA_BYTES + 1, MAX_FRAME_DATA_BYTES + 1, 1, TRUE, TRUE),
   Frame(MAX_MEDIA_MESSAGE_BYTES, 9, 1, TRUE, TRUE)}

MCPictureBodies ==
  {Frame(9, 9, 1, TRUE, TRUE), Frame(9, 9, 2, TRUE, TRUE), Frame(10, 9, 1, TRUE, TRUE)}

(* A sensor's message with `extra` bytes too many. *)
Sensor(s, claimed, extra, text, percent) ==
  [type |-> s, size |-> FixedBytes(s) + Unit(s) * claimed + extra, count |-> claimed,
   utf8 |-> text, percentage |-> percent, stream |-> 0, starts |-> FALSE, ends |-> FALSE]

MCSensorBodies ==
  {Sensor("imu", 5, 0, TRUE, 0), Sensor("imu", 5, 1, TRUE, 0), Sensor("imu", 5, 0, FALSE, 0),
   Sensor("imu", 5, 9000, TRUE, 0),
   Sensor("tof", 0, 0, TRUE, 0), Sensor("tof", 0, -1, TRUE, 0),
   Sensor("light", MAX_FRAME_ID_BYTES, 0, TRUE, 0),
   Sensor("light", MAX_FRAME_ID_BYTES + 1, 0, TRUE, 0),
   Sensor("battery", 3, 0, TRUE, 100), Sensor("battery", 3, 0, TRUE, 101),
   Sensor("battery", 2, 0, TRUE, 50), Sensor("battery", 65, 0, TRUE, 50)}

(* ------------------------------ discovery ------------------------------- *)

CONSTANTS v4, w4, v6, nowhere, Thorin, Balin, other

MCAddresses == {v4, w4, v6}
MCIPv4 == {v4, w4}
MCKnownScouts == <<Thorin, Balin>>
MCPrograms == <<"netsh", "arp">>
=============================================================================
