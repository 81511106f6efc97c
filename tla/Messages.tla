------------------------------ MODULE Messages ------------------------------
(***************************************************************************)
(* The bodies of the Scout's ROS messages and their decoders (codec.rs,    *)
(* frame.rs, sensors.rs), and the transport's limit (ros1.rs).             *)
(*                                                                         *)
(* A body is what the decoders tell apart: its size in bytes, the length   *)
(* its one variable-length field claims, and the values they test.  The    *)
(* offset of the field's prefix is the same in every body of a type.       *)
(***************************************************************************)
EXTENDS Integers

MAX_FRAME_DATA_BYTES == 16 * 1024 * 1024
MAX_FRAME_ID_BYTES == 4 * 1024
MAX_BATTERY_STATUS_VALUES == 64

MAX_MEDIA_MESSAGE_BYTES == MAX_FRAME_DATA_BYTES + 1024
MAX_SENSOR_MESSAGE_BYTES == MAX_FRAME_ID_BYTES + 4096
MAX_BATTERY_MESSAGE_BYTES == 4 + MAX_BATTERY_STATUS_VALUES * 4

Sensors == {"imu", "tof", "light", "battery"}
Types == Sensors \cup {"frame"}

Body ==
  [type : Types,
   size : Nat,          \* bytes in the body
   count : Nat,         \* the length its variable field claims
   utf8 : BOOLEAN,      \* a header's frame_id is valid text
   percentage : Int,    \* the second value of a battery status
   stream : 0..255,     \* a frame's type byte
   starts : BOOLEAN,    \* its data starts with the JPEG marker
   ends : BOOLEAN]      \* and ends with it

(* How many bytes the subscription accepts. *)
Limit(type) ==
  IF type = "frame" THEN MAX_MEDIA_MESSAGE_BYTES
  ELSE IF type = "battery" THEN MAX_BATTERY_MESSAGE_BYTES
  ELSE MAX_SENSOR_MESSAGE_BYTES

(* BoundedRawMessage::decode. *)
Delivered(b) == b.size <= Limit(b.type)

-----------------------------------------------------------------------------
(* codec.rs: a decoder is a body's size and an offset into it; `ok` turns  *)
(* FALSE when a read fails, and the `?` of the code skips the rest.        *)

Decoder == [size : Nat, offset : Nat, ok : BOOLEAN]

NewDecoder(b) == [size |-> b.size, offset |-> 0, ok |-> TRUE]

Remaining(d) == d.size - d.offset

Require(d, condition) == [d EXCEPT !.ok = d.ok /\ condition]

(* take, and the reads of numbers: `length` bytes, however many fields.    *)
Take(d, length) ==
  IF d.ok /\ length <= Remaining(d)
    THEN [d EXCEPT !.offset = d.offset + length]
    ELSE [d EXCEPT !.ok = FALSE]

(* read_vec_limited: the claimed length is compared before the bytes are   *)
(* looked for.                                                             *)
TakeVec(d, claimed, maximum) == Take(Require(Take(d, 4), claimed <= maximum), claimed)

(* read_string_limited. *)
TakeString(d, b, maximum) == Require(TakeVec(d, b.count, maximum), b.utf8)

(* Mutation: bytes that are left over are ignored. *)
FinishedAnyhow(d) == d.ok

Finished(d) == d.ok /\ Remaining(d) = 0

-----------------------------------------------------------------------------
(* frame.rs and sensors.rs. *)

DecodeFrame(b) == Finished(TakeVec(Take(NewDecoder(b), 37), b.count, MAX_FRAME_DATA_BYTES))

(* decode_header: three numbers and the frame_id. *)
DecodeHeader(b) == TakeString(Take(NewDecoder(b), 12), b, MAX_FRAME_ID_BYTES)

(* A quaternion, two vectors and three covariances. *)
DecodeImu(b) == Finished(Take(DecodeHeader(b), 32 + 2 * 24 + 3 * 72))

DecodeRange(b) == Finished(Take(DecodeHeader(b), 17))

DecodeLight(b) == Finished(Take(DecodeHeader(b), 16))

DecodeBattery(b) ==
  /\ Finished(Take(Require(Take(NewDecoder(b), 4),
                         b.count \in 3..MAX_BATTERY_STATUS_VALUES), 4 * b.count))
  /\ b.percentage \in 0..100

Decodes(b) ==
  \/ b.type = "frame" /\ DecodeFrame(b)
  \/ b.type = "imu" /\ DecodeImu(b)
  \/ b.type = "tof" /\ DecodeRange(b)
  \/ b.type = "light" /\ DecodeLight(b)
  \/ b.type = "battery" /\ DecodeBattery(b)

(* StreamType::from, of the byte as an i8. *)
StreamType(byte) ==
  IF byte = 0 THEN "H264" ELSE IF byte = 1 THEN "Jpeg" ELSE IF byte = 2 THEN "Aac" ELSE "Unknown"

(* The filter of every camera callback. *)
IsJpeg(b) == Decodes(b) /\ StreamType(b.stream) = "Jpeg" /\ b.starts /\ b.ends

-----------------------------------------------------------------------------
(* What the robot's serialiser writes for a value: the reference that the  *)
(* decoders are compared with.                                             *)

FixedBytesOf ==
  [frame |-> 37 + 4, imu |-> 12 + 4 + 296, tof |-> 12 + 4 + 17, light |-> 12 + 4 + 16,
   battery |-> 4]

FixedBytes(type) == FixedBytesOf[type]

Unit(type) == IF type = "battery" THEN 4 ELSE 1

(* The values of the message that this project accepts. *)
Acceptable(b) ==
  /\ b.type = "frame" => b.count <= MAX_FRAME_DATA_BYTES
  /\ b.type \in {"imu", "tof", "light"} => b.count <= MAX_FRAME_ID_BYTES /\ b.utf8
  /\ b.type = "battery" => b.count \in 3..MAX_BATTERY_STATUS_VALUES /\ b.percentage \in 0..100

Whole(b) == b.size = FixedBytes(b.type) + Unit(b.type) * b.count /\ Acceptable(b)
=============================================================================
