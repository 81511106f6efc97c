--------------------------- MODULE SensorMonitor ---------------------------
(***************************************************************************)
(* `moorebot-scout monitor` (monitor of src/src/main.rs): four             *)
(* subscriptions decode their sensor's messages and keep the last reading  *)
(* in a snapshot, which the main thread prints every second.               *)
(*                                                                         *)
(* A subscription has a queue of one message and a callback thread of its  *)
(* own.  Messages are numbered in the order in which they arrive; 0 is no  *)
(* message, and a reading that is not there.                               *)
(***************************************************************************)
EXTENDS Messages, Sequences

CONSTANTS
  SensorBodies,  \* the bodies that arrive
  MaxReadings,   \* bound: how many messages arrive
  MonitorTimes   \* what --seconds may be; 0 is no limit

ASSUME SensorMonitorAssumption ==
  /\ \A b \in SensorBodies : b \in Body /\ b.type \in Sensors
  /\ MaxReadings \in Nat
  /\ MonitorTimes \subseteq Nat

VARIABLES
  sensorLog,   \* every message so far
  arriving,    \* the message in each queue
  handling,    \* the message each callback has decoded
  readings,    \* SensorSnapshot
  shown,       \* what was printed last
  monitorAt,   \* the main thread's place
  elapsed,     \* since the monitor started, in seconds
  seconds      \* args.seconds

sensorVars == <<sensorLog, arriving, handling, readings, shown>>
monitorVars == <<sensorVars, monitorAt, elapsed, seconds>>

MonitorInit ==
  /\ sensorLog = <<>>
  /\ arriving = [s \in Sensors |-> 0]
  /\ handling = [s \in Sensors |-> 0]
  /\ readings = [s \in Sensors |-> 0]
  /\ shown = [s \in Sensors |-> 0]
  /\ monitorAt = "start"
  /\ elapsed = 0
  /\ seconds \in MonitorTimes

-----------------------------------------------------------------------------

(* The newest message takes the queue's one place; the transport drops one *)
(* that is longer than the subscription accepts.                           *)
SensorArrives(b) ==
  /\ monitorAt # "start"
  /\ Len(sensorLog) < MaxReadings
  /\ sensorLog' = Append(sensorLog, b)
  /\ arriving' = IF Delivered(b) THEN [arriving EXCEPT ![b.type] = Len(sensorLog')] ELSE arriving
  /\ UNCHANGED <<handling, readings, shown, monitorAt, elapsed, seconds>>

(* Mutation: what cannot be decoded is kept as "no reading". *)
DecodeSensorErasing(s) ==
  /\ arriving[s] # 0
  /\ handling[s] = 0
  /\ arriving' = [arriving EXCEPT ![s] = 0]
  /\ IF Decodes(sensorLog[arriving[s]])
       THEN handling' = [handling EXCEPT ![s] = arriving[s]] /\ UNCHANGED readings
       ELSE readings' = [readings EXCEPT ![s] = 0] /\ UNCHANGED handling
  /\ UNCHANGED <<sensorLog, shown, monitorAt, elapsed, seconds>>

(* A callback's decode_ros; a message that is malformed is forgotten. *)
DecodeSensor(s) ==
  /\ arriving[s] # 0
  /\ handling[s] = 0
  /\ arriving' = [arriving EXCEPT ![s] = 0]
  /\ handling' = IF Decodes(sensorLog[arriving[s]])
                   THEN [handling EXCEPT ![s] = arriving[s]]
                   ELSE handling
  /\ UNCHANGED <<sensorLog, readings, shown, monitorAt, elapsed, seconds>>

(* Its lock of the snapshot, which no print is holding. *)
StoreReading(s) ==
  /\ handling[s] # 0
  /\ readings' = [readings EXCEPT ![s] = handling[s]]
  /\ handling' = [handling EXCEPT ![s] = 0]
  /\ UNCHANGED <<sensorLog, arriving, shown, monitorAt, elapsed, seconds>>

CallbackStep == \E s \in Sensors : DecodeSensor(s) \/ StoreReading(s)

(* The four subscriptions, and what a failed one returns. *)
StartMonitor ==
  /\ monitorAt = "start"
  /\ monitorAt' \in {"check", "ended"}
  /\ UNCHANGED <<sensorVars, elapsed, seconds>>

(* Mutation: only the end of ROS ends the monitor. *)
MonitorCheckRos(ok) ==
  /\ monitorAt = "check"
  /\ monitorAt' = IF ok THEN "print" ELSE "ended"
  /\ UNCHANGED <<sensorVars, elapsed, seconds>>

(* The loop's condition. *)
MonitorCheck(ok) ==
  /\ monitorAt = "check"
  /\ monitorAt' = IF ok /\ (seconds = 0 \/ elapsed < seconds) THEN "print" ELSE "ended"
  /\ UNCHANGED <<sensorVars, elapsed, seconds>>

(* The sleep of a second, and the print under the snapshot's lock. *)
MonitorPrint ==
  /\ monitorAt = "print"
  /\ monitorAt' = "check"
  /\ shown' = readings
  /\ elapsed' = IF elapsed < seconds THEN elapsed + 1 ELSE elapsed
  /\ UNCHANGED <<sensorLog, arriving, handling, readings, seconds>>

-----------------------------------------------------------------------------
(* Properties. *)

MonitorTypeOK ==
  /\ sensorLog \in Seq(SensorBodies) /\ Len(sensorLog) <= MaxReadings
  /\ \A f \in {arriving, handling, readings, shown} : f \in [Sensors -> 0..Len(sensorLog)]
  /\ monitorAt \in {"start", "check", "print", "ended"}
  /\ seconds \in MonitorTimes
  /\ elapsed \in 0..seconds

(* A sensor's printed reading is replaced only by a newer one of the same  *)
(* sensor, of a whole message that makes sense; a malformed, oversized or  *)
(* cut off message in between neither shows nor erases what was there.     *)
ReadingAdvances(s) ==
  shown'[s] # shown[s] =>
    /\ shown'[s] > shown[s]
    /\ sensorLog'[shown'[s]].type = s
    /\ Whole(sensorLog'[shown'[s]])

ReadingsAdvance == [][\A s \in Sensors : ReadingAdvances(s)]_shown
=============================================================================
