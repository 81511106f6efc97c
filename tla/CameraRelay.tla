---------------------------- MODULE CameraRelay ----------------------------
(***************************************************************************)
(* `moorebot-scout camera-bridge` (camera_bridge of src/src/main.rs,       *)
(* CameraBridge of src/src/ros1.rs): a subscription republishes the        *)
(* Scout's JPEG frames as sensor_msgs/CompressedImage and counts what it   *)
(* forwards and drops; the main thread prints both counts when ROS is shut *)
(* down, while the callback thread goes on.                                *)
(***************************************************************************)
EXTENDS Messages, Sequences

CONSTANTS
  FrameBodies,  \* the bodies that arrive
  MaxFrames     \* bound: how many frames arrive

ASSUME CameraRelayAssumption ==
  /\ \A b \in FrameBodies : b \in Body /\ b.type = "frame"
  /\ MaxFrames \in Nat

VARIABLES
  frameLog,     \* every frame so far
  slot,         \* the number of the frame in the subscription's queue
  job,          \* the callback: [stage, frame]
  taken,        \* how many frames the callback has taken
  forwarded,    \* the AtomicU64s
  dropped,
  images,       \* the numbers of the frames that were published
  relayAt,      \* the main thread's place
  report,       \* the two counts it prints
  settled       \* history: the frames handled when ROS was shut down

frameVars == <<frameLog, slot>>
relayVars == <<frameVars, job, taken, forwarded, dropped, images, relayAt, report, settled>>

NoJob == [stage |-> "none", frame |-> 0]

RelayInit ==
  /\ frameLog = <<>>
  /\ slot = 0
  /\ job = NoJob
  /\ taken = 0
  /\ forwarded = 0
  /\ dropped = 0
  /\ images = <<>>
  /\ relayAt = "start"
  /\ report = [forwarded |-> 0, dropped |-> 0]
  /\ settled = 0

-----------------------------------------------------------------------------

FrameArrives(b) ==
  /\ Len(frameLog) < MaxFrames
  /\ relayAt # "start"
  /\ frameLog' = Append(frameLog, b)
  /\ slot' = IF Delivered(b) THEN Len(frameLog') ELSE slot
  /\ UNCHANGED <<job, taken, forwarded, dropped, images, relayAt, report, settled>>

(* The callback decodes and filters a frame, and encodes its image. *)
TakeFrame ==
  /\ job = NoJob
  /\ slot # 0
  /\ job' = [stage |-> IF IsJpeg(frameLog[slot]) THEN "send" ELSE "drop", frame |-> slot]
  /\ slot' = 0
  /\ taken' = taken + 1
  /\ UNCHANGED <<frameLog, forwarded, dropped, images, relayAt, report, settled>>

(* callback_publisher.send *)
SendImage ==
  /\ job.stage = "send"
  /\ \/ job' = [job EXCEPT !.stage = "forward"] /\ images' = Append(images, job.frame)
     \/ job' = [job EXCEPT !.stage = "drop"] /\ UNCHANGED images
  /\ UNCHANGED <<frameVars, taken, forwarded, dropped, relayAt, report, settled>>

(* Mutation: a frame that could not be sent is not counted. *)
CountForwarded ==
  /\ job.stage \in {"forward", "drop"}
  /\ forwarded' = IF job.stage = "forward" THEN forwarded + 1 ELSE forwarded
  /\ job' = NoJob
  /\ UNCHANGED <<frameVars, taken, dropped, images, relayAt, report, settled>>

(* fetch_add of one of the counters. *)
Count ==
  /\ job.stage \in {"forward", "drop"}
  /\ IF job.stage = "forward"
       THEN forwarded' = forwarded + 1 /\ UNCHANGED dropped
       ELSE dropped' = dropped + 1 /\ UNCHANGED forwarded
  /\ job' = NoJob
  /\ UNCHANGED <<frameVars, taken, images, relayAt, report, settled>>

(* CameraBridge::start: the publisher, and then the subscriber. *)
StartRelay ==
  /\ relayAt = "start"
  /\ relayAt' \in {"spin", "failed"}
  /\ UNCHANGED <<frameVars, job, taken, forwarded, dropped, images, report, settled>>

(* rosrust::spin returns when ROS has been shut down. *)
SpinEnds ==
  /\ relayAt = "spin"
  /\ relayAt' = "forwarded"
  /\ settled' = forwarded + dropped
  /\ UNCHANGED <<frameVars, job, taken, forwarded, dropped, images, report>>

(* The two loads, one after the other. *)
ReadForwarded ==
  /\ relayAt = "forwarded"
  /\ relayAt' = "dropped"
  /\ report' = [report EXCEPT !.forwarded = forwarded]
  /\ UNCHANGED <<frameVars, job, taken, forwarded, dropped, images, settled>>

ReadDropped ==
  /\ relayAt = "dropped"
  /\ relayAt' = "ended"
  /\ report' = [report EXCEPT !.dropped = dropped]
  /\ UNCHANGED <<frameVars, job, taken, forwarded, dropped, images, settled>>

RelayCallback == TakeFrame \/ SendImage \/ Count

RelayReport == ReadForwarded \/ ReadDropped

-----------------------------------------------------------------------------
(* Properties. *)

RelayTypeOK ==
  /\ frameLog \in Seq(FrameBodies) /\ Len(frameLog) <= MaxFrames
  /\ slot \in 0..Len(frameLog)
  /\ job \in [stage : {"none", "send", "forward", "drop"}, frame : 0..Len(frameLog)]
  /\ \A n \in {taken, forwarded, dropped, settled} : n \in 0..Len(frameLog)
  /\ images \in Seq(1..Len(frameLog))
  /\ relayAt \in {"start", "spin", "forwarded", "dropped", "ended", "failed"}
  /\ report \in [forwarded : Nat, dropped : Nat]

InHand(stages) == IF job.stage \in stages THEN 1 ELSE 0

(* Every frame that the callback takes ends up in exactly one of the two   *)
(* counts, and those forwarded are the images published: whole JPEGs, in   *)
(* the order in which they arrived.  The printed counts are neither of the *)
(* same instant nor the final ones, but they account for all that was done *)
(* when ROS was shut down, and for no more than was taken.                 *)
FramesAccounted ==
  /\ forwarded + dropped + InHand({"send", "forward", "drop"}) = taken
  /\ Len(images) = forwarded + InHand({"forward"})
  /\ \A i \in DOMAIN images :
       /\ i > 1 => images[i - 1] < images[i]
       /\ LET b == frameLog[images[i]]
          IN  Whole(b) /\ StreamType(b.stream) = "Jpeg" /\ b.starts /\ b.ends
  /\ relayAt = "ended" => report.forwarded + report.dropped \in settled..taken
=============================================================================
