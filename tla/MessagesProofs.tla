--------------------------- MODULE MessagesProofs ---------------------------
(***************************************************************************)
(* The decoders compared with the serialiser, for every body: they read    *)
(* no further than its end, and they accept exactly the whole messages.    *)
(***************************************************************************)
EXTENDS Messages, TLAPS

(* A decoder that has read a part of a body. *)
Partway(d) == d \in Decoder /\ d.offset <= d.size

(* take never reads beyond the end. *)
LEMMA TakeStops ==
  ASSUME NEW d, Partway(d), NEW n \in Nat
  PROVE  /\ Partway(Take(d, n))
         /\ Take(d, n).size = d.size
         /\ Take(d, n).ok <=> d.ok /\ n <= d.size - d.offset
         /\ Take(d, n).ok => Take(d, n).offset = d.offset + n
<1>0. d \in Decoder /\ d.offset <= d.size /\ d.size \in Nat /\ d.offset \in Nat /\ d.ok \in BOOLEAN
  BY DEF Partway, Decoder
<1>1. CASE d.ok /\ n <= d.size - d.offset
  <2>1. Take(d, n) = [d EXCEPT !.offset = d.offset + n]
    BY <1>1 DEF Take, Remaining
  <2>2. Take(d, n) = [size |-> d.size, offset |-> d.offset + n, ok |-> d.ok]
    BY <2>1, <1>0 DEF Decoder
  <2> QED BY <1>0, <1>1, <2>2 DEF Partway, Decoder
<1>2. CASE ~(d.ok /\ n <= d.size - d.offset)
  <2>1. Take(d, n) = [d EXCEPT !.ok = FALSE]
    BY <1>2 DEF Take, Remaining
  <2>2. Take(d, n) = [size |-> d.size, offset |-> d.offset, ok |-> FALSE]
    BY <2>1, <1>0 DEF Decoder
  <2> QED BY <1>0, <1>2, <2>2 DEF Partway, Decoder
<1> QED BY <1>1, <1>2

LEMMA RequireKeeps ==
  ASSUME NEW d, Partway(d), NEW condition \in BOOLEAN
  PROVE  /\ Partway(Require(d, condition))
         /\ Require(d, condition).size = d.size
         /\ Require(d, condition).offset = d.offset
         /\ Require(d, condition).ok <=> d.ok /\ condition
BY DEF Partway, Decoder, Require

LEMMA NewStarts ==
  ASSUME NEW b \in Body
  PROVE  Partway(NewDecoder(b)) /\ NewDecoder(b).size = b.size
         /\ NewDecoder(b).offset = 0 /\ NewDecoder(b).ok = TRUE
BY DEF Body, Partway, Decoder, NewDecoder

(* A field with a prefix takes four bytes more than it claims. *)
LEMMA TakeVecStops ==
  ASSUME NEW d, Partway(d), NEW claimed \in Nat, NEW maximum \in Nat
  PROVE  LET v == TakeVec(d, claimed, maximum)
         IN  /\ Partway(v)
             /\ v.size = d.size
             /\ v.ok <=> d.ok /\ claimed <= maximum /\ 4 + claimed <= d.size - d.offset
             /\ v.ok => v.offset = d.offset + 4 + claimed
<1> DEFINE t == Take(d, 4)
           r == Require(t, claimed <= maximum)
           v == Take(r, claimed)
<1>1. /\ Partway(t) /\ t.size = d.size
      /\ t.ok <=> d.ok /\ 4 <= d.size - d.offset
      /\ t.ok => t.offset = d.offset + 4
  BY TakeStops
<1> HIDE DEF t
<1>3. /\ Partway(r) /\ r.size = t.size /\ r.offset = t.offset
      /\ r.ok <=> t.ok /\ claimed <= maximum
  BY <1>1 DEF Require, Partway, Decoder
<1>4. /\ Partway(v) /\ v.size = r.size
      /\ v.ok <=> r.ok /\ claimed <= r.size - r.offset
      /\ v.ok => v.offset = r.offset + claimed
  BY <1>3, TakeStops
<1>5. d.size \in Int /\ d.offset \in Int /\ d.offset <= d.size
  BY DEF Partway, Decoder
<1> HIDE DEF r, v
<1>6. /\ v.ok <=> d.ok /\ claimed <= maximum /\ 4 + claimed <= d.size - d.offset
      /\ v.ok => v.offset = d.offset + 4 + claimed
  BY <1>1, <1>3, <1>4, <1>5
<1>7. TakeVec(d, claimed, maximum) = v
  BY DEF TakeVec, v, r, t
<1>8. v.size = d.size
  BY <1>1, <1>3, <1>4
<1> QED BY <1>4, <1>6, <1>7, <1>8, Zenon

-----------------------------------------------------------------------------
(* A header takes what its string does. *)
LEMMA HeaderStops ==
  ASSUME NEW b \in Body
  PROVE  LET h == DecodeHeader(b)
         IN  /\ Partway(h)
             /\ h.size = b.size
             /\ h.ok <=> b.count <= MAX_FRAME_ID_BYTES /\ 16 + b.count <= b.size /\ b.utf8
             /\ h.ok => h.offset = 16 + b.count
<1> DEFINE d == Take(NewDecoder(b), 12)
           v == TakeVec(d, b.count, MAX_FRAME_ID_BYTES)
           h == Require(v, b.utf8)
<1>1. b.count \in Nat /\ b.size \in Nat /\ b.utf8 \in BOOLEAN
  BY DEF Body
<1>2. /\ Partway(d) /\ d.size = b.size
      /\ d.ok <=> 12 <= b.size
      /\ d.ok => d.offset = 12
  <2> DEFINE e == NewDecoder(b)
  <2>1. Partway(e) /\ e.size = b.size /\ e.offset = 0 /\ e.ok = TRUE
    BY NewStarts
  <2> HIDE DEF e
  <2>2. /\ Partway(Take(e, 12)) /\ Take(e, 12).size = e.size
        /\ Take(e, 12).ok <=> e.ok /\ 12 <= e.size - e.offset
        /\ Take(e, 12).ok => Take(e, 12).offset = e.offset + 12
    BY <2>1, TakeStops
  <2>3. d = Take(e, 12)
    BY DEF e
  <2> HIDE DEF d
  <2> QED BY <1>1, <2>1, <2>2, <2>3
<1>3. MAX_FRAME_ID_BYTES \in Nat
  BY DEF MAX_FRAME_ID_BYTES
<1> HIDE DEF d
<1>4. /\ Partway(v) /\ v.size = d.size
      /\ v.ok <=> d.ok /\ b.count <= MAX_FRAME_ID_BYTES /\ 4 + b.count <= d.size - d.offset
      /\ v.ok => v.offset = d.offset + 4 + b.count
  BY <1>1, <1>2, <1>3, TakeVecStops
<1> HIDE DEF v
<1>5. /\ Partway(h) /\ h.size = v.size /\ h.offset = v.offset
      /\ h.ok <=> v.ok /\ b.utf8
  BY <1>1, <1>4, RequireKeeps
<1> HIDE DEF h
<1>6. /\ h.size = b.size
      /\ h.ok <=> b.count <= MAX_FRAME_ID_BYTES /\ 16 + b.count <= b.size /\ b.utf8
      /\ h.ok => h.offset = 16 + b.count
  <2>1. v.ok <=> b.count <= MAX_FRAME_ID_BYTES /\ 16 + b.count <= b.size
    BY <1>1, <1>2, <1>3, <1>4
  <2> QED BY <1>1, <1>2, <1>4, <1>5, <2>1
<1>7. DecodeHeader(b) = h
  BY DEF DecodeHeader, TakeString, h, v, d
<1> QED BY <1>5, <1>6, <1>7, Zenon

(* A message that is a header and `n` bytes of numbers. *)
LEMMA HeaderMessage ==
  ASSUME NEW b \in Body, NEW n \in Nat
  PROVE  Finished(Take(DecodeHeader(b), n)) <=>
           b.size = 16 + n + b.count /\ b.count <= MAX_FRAME_ID_BYTES /\ b.utf8
<1> DEFINE h == DecodeHeader(b)
           t == Take(h, n)
<1>1. b.count \in Nat /\ b.size \in Nat /\ b.utf8 \in BOOLEAN
  BY DEF Body
<1>2. /\ Partway(h) /\ h.size = b.size
      /\ h.ok <=> b.count <= MAX_FRAME_ID_BYTES /\ 16 + b.count <= b.size /\ b.utf8
      /\ h.ok => h.offset = 16 + b.count
  BY HeaderStops, Zenon
<1> HIDE DEF h
<1>3. /\ t.size = h.size
      /\ t.ok <=> h.ok /\ n <= h.size - h.offset
      /\ t.ok => t.offset = h.offset + n
  BY <1>2, TakeStops
<1>4. MAX_FRAME_ID_BYTES \in Nat
  BY DEF MAX_FRAME_ID_BYTES
<1>5. Finished(t) <=> t.ok /\ t.size - t.offset = 0
  BY DEF Finished, Remaining
<1> HIDE DEF t
<1>6. CASE h.ok
  BY <1>1, <1>2, <1>3, <1>4, <1>5, <1>6 DEF t, h
<1>7. CASE ~h.ok
  <2>1. ~(b.count <= MAX_FRAME_ID_BYTES /\ 16 + b.count <= b.size /\ b.utf8)
    BY <1>2, <1>7
  <2>2. ~Finished(t)
    BY <1>3, <1>5, <1>7
  <2>3. b.size = 16 + n + b.count => 16 + b.count <= b.size
    BY <1>1
  <2> QED BY <2>1, <2>2, <2>3 DEF t, h
<1> QED BY <1>6, <1>7

LEMMA FrameMessage ==
  ASSUME NEW b \in Body
  PROVE  DecodeFrame(b) <=> b.size = 41 + b.count /\ b.count <= MAX_FRAME_DATA_BYTES
<1> DEFINE e == NewDecoder(b)
           d == Take(e, 37)
           v == TakeVec(d, b.count, MAX_FRAME_DATA_BYTES)
<1>1. b.count \in Nat /\ b.size \in Nat /\ MAX_FRAME_DATA_BYTES \in Nat
  BY DEF Body, MAX_FRAME_DATA_BYTES
<1>2. Partway(e) /\ e.size = b.size /\ e.offset = 0 /\ e.ok = TRUE
  BY NewStarts
<1> HIDE DEF e
<1>3. /\ Partway(d) /\ d.size = e.size
      /\ d.ok <=> e.ok /\ 37 <= e.size - e.offset
      /\ d.ok => d.offset = e.offset + 37
  BY <1>2, TakeStops
<1> HIDE DEF d
<1>4. /\ v.size = d.size
      /\ v.ok <=> d.ok /\ b.count <= MAX_FRAME_DATA_BYTES /\ 4 + b.count <= d.size - d.offset
      /\ v.ok => v.offset = d.offset + 4 + b.count
  BY <1>1, <1>3, TakeVecStops
<1>5. Finished(v) <=> v.ok /\ v.size - v.offset = 0
  BY DEF Finished, Remaining
<1> HIDE DEF v
<1>6. Finished(v) <=> b.size = 41 + b.count /\ b.count <= MAX_FRAME_DATA_BYTES
  BY <1>1, <1>2, <1>3, <1>4, <1>5
<1>7. DecodeFrame(b) <=> Finished(v)
  BY DEF DecodeFrame, v, d, e
<1> QED BY <1>6, <1>7

LEMMA BatteryMessage ==
  ASSUME NEW b \in Body
  PROVE  DecodeBattery(b) <=>
           /\ b.size = 4 + 4 * b.count
           /\ b.count \in 3..MAX_BATTERY_STATUS_VALUES
           /\ b.percentage \in 0..100
<1> DEFINE e == NewDecoder(b)
           d == Take(e, 4)
           r == Require(d, b.count \in 3..MAX_BATTERY_STATUS_VALUES)
           t == Take(r, 4 * b.count)
<1>1. b.count \in Nat /\ b.size \in Nat /\ 4 * b.count \in Nat
  BY DEF Body
<1>2. Partway(e) /\ e.size = b.size /\ e.offset = 0 /\ e.ok = TRUE
  BY NewStarts
<1> HIDE DEF e
<1>3. /\ Partway(d) /\ d.size = e.size
      /\ d.ok <=> e.ok /\ 4 <= e.size - e.offset
      /\ d.ok => d.offset = e.offset + 4
  BY <1>2, TakeStops
<1> HIDE DEF d
<1>4. /\ Partway(r) /\ r.size = d.size /\ r.offset = d.offset
      /\ r.ok <=> d.ok /\ b.count \in 3..MAX_BATTERY_STATUS_VALUES
  BY <1>3 DEF Require, Partway, Decoder
<1> HIDE DEF r
<1>5. /\ t.size = r.size
      /\ t.ok <=> r.ok /\ 4 * b.count <= r.size - r.offset
      /\ t.ok => t.offset = r.offset + 4 * b.count
  BY <1>1, <1>4, TakeStops
<1>6. Finished(t) <=> t.ok /\ t.size - t.offset = 0
  BY DEF Finished, Remaining
<1> HIDE DEF t
<1>7. Finished(t) <=> b.size = 4 + 4 * b.count /\ b.count \in 3..MAX_BATTERY_STATUS_VALUES
  <2>1. r.ok <=> 4 <= b.size /\ b.count \in 3..MAX_BATTERY_STATUS_VALUES
    BY <1>1, <1>2, <1>3, <1>4
  <2>2. d.ok <=> 4 <= b.size
    BY <1>1, <1>2, <1>3
  <2>3. CASE b.count \in 3..MAX_BATTERY_STATUS_VALUES /\ 4 <= b.size
    BY <1>1, <1>2, <1>3, <1>4, <1>5, <1>6, <2>1, <2>2, <2>3
  <2>4. CASE ~(b.count \in 3..MAX_BATTERY_STATUS_VALUES /\ 4 <= b.size)
    BY <1>1, <1>5, <1>6, <2>1, <2>4
  <2> QED BY <2>3, <2>4
<1>8. DecodeBattery(b) <=> Finished(t) /\ b.percentage \in 0..100
  BY DEF DecodeBattery, t, r, d, e
<1> QED BY <1>7, <1>8

-----------------------------------------------------------------------------
(* The decoders of codec.rs, frame.rs and sensors.rs accept exactly what   *)
(* the robot's serialiser writes for an acceptable value: no body that is  *)
(* cut off, has bytes left over or lies about its length is a message.     *)
THEOREM DecodesIsWhole ==
  ASSUME NEW b \in Body
  PROVE  Decodes(b) <=> Whole(b)
<1>1. b.count \in Nat /\ b.size \in Nat /\ b.type \in {"imu", "tof", "light", "battery", "frame"}
  BY DEF Body, Types, Sensors
<1>2. CASE b.type = "frame"
  BY <1>1, <1>2, FrameMessage DEF Decodes, Whole, Acceptable, FixedBytes, FixedBytesOf, Unit
<1>3. CASE b.type = "imu"
  <2>1. DecodeImu(b) <=> b.size = 16 + 296 + b.count /\ b.count <= MAX_FRAME_ID_BYTES /\ b.utf8
    BY HeaderMessage DEF DecodeImu
  <2> QED BY <1>1, <1>3, <2>1 DEF Decodes, Whole, Acceptable, FixedBytes, FixedBytesOf, Unit
<1>4. CASE b.type = "tof"
  <2>1. DecodeRange(b) <=> b.size = 16 + 17 + b.count /\ b.count <= MAX_FRAME_ID_BYTES /\ b.utf8
    BY HeaderMessage DEF DecodeRange
  <2> QED BY <1>1, <1>4, <2>1 DEF Decodes, Whole, Acceptable, FixedBytes, FixedBytesOf, Unit
<1>5. CASE b.type = "light"
  <2>1. DecodeLight(b) <=> b.size = 16 + 16 + b.count /\ b.count <= MAX_FRAME_ID_BYTES /\ b.utf8
    BY HeaderMessage DEF DecodeLight
  <2> QED BY <1>1, <1>5, <2>1 DEF Decodes, Whole, Acceptable, FixedBytes, FixedBytesOf, Unit
<1>6. CASE b.type = "battery"
  BY <1>1, <1>6, BatteryMessage DEF Decodes, Whole, Acceptable, FixedBytes,
     FixedBytesOf, Unit
<1> QED BY <1>1, <1>2, <1>3, <1>4, <1>5, <1>6

(* No message that would decode is too long for its subscription.          *)
THEOREM WholeIsDelivered ==
  ASSUME NEW b \in Body, Whole(b)
  PROVE  Delivered(b)
<1>1. b.count \in Nat /\ b.size \in Nat /\ b.type \in {"imu", "tof", "light", "battery", "frame"}
  BY DEF Body, Types, Sensors
<1> USE DEF Whole, Acceptable, FixedBytes, FixedBytesOf, Unit, Delivered, Limit
<1>2. CASE b.type = "frame"
  BY <1>1, <1>2 DEF MAX_MEDIA_MESSAGE_BYTES, MAX_FRAME_DATA_BYTES
<1>3. CASE b.type = "battery"
  BY <1>1, <1>3 DEF MAX_BATTERY_MESSAGE_BYTES, MAX_BATTERY_STATUS_VALUES
<1>4. CASE b.type \in {"imu", "tof", "light"}
  BY <1>1, <1>4 DEF MAX_SENSOR_MESSAGE_BYTES, MAX_FRAME_ID_BYTES
<1> QED BY <1>1, <1>2, <1>3, <1>4

(* A whole frame with a JPEG in it. *)
Jpeg(b) == Whole(b) /\ StreamType(b.stream) = "Jpeg" /\ b.starts /\ b.ends

(* What the filter of a camera callback lets through is one. *)
LEMMA JpegIsWhole ==
  ASSUME NEW b \in Body, IsJpeg(b)
  PROVE  Jpeg(b)
BY DecodesIsWhole DEF IsJpeg, Jpeg
=============================================================================
