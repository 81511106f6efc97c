---------------------------- MODULE ScoutCommand ----------------------------
(***************************************************************************)
(* One run of moorebot-scout (run of src/src/main.rs), from its arguments  *)
(* to its end: the arguments are checked, ros1::init finds the master, the *)
(* Scout's name is looked up, and only then the command does its work.     *)
(* `wifi setup` and `bridge` have specifications of their own (WifiSetup,  *)
(* BridgeControl, BridgeCamera), and so have teleop's keys (Teleop).       *)
(*                                                                         *)
(* The state of init and of the lookup is local to these functions: it is  *)
(* gone when they have returned.                                           *)
(***************************************************************************)
EXTENDS TimedMove, RosConnect, ScoutLookup, SensorMonitor, CameraRelay, TeleopPictures

CONSTANT
  Commands   \* the subcommands that are tried

ASSUME ScoutCommandAssumption ==
  Commands \subseteq {"move", "teleop", "monitor", "camera", "discover"}

VARIABLES
  command,   \* the subcommand; "move" is also drive
  place,     \* how far it has come
  listed     \* what discover has printed

runVars == <<command, place, listed>>
scoutVars == <<runVars, vars, reachVars, lookVars, monitorVars, relayVars, pictureVars>>

ScoutInit ==
  /\ command \in Commands
  /\ place = "arguments"
  /\ listed = "nothing"
  /\ Init /\ ReachInit /\ LookInit /\ MonitorInit /\ RelayInit /\ PictureInit
  /\ command # "move" => request = CHOOSE r \in Requests : TRUE
  /\ command # "monitor" => seconds = CHOOSE n \in MonitorTimes : TRUE

-----------------------------------------------------------------------------
(* A step of one part leaves the others alone. *)

MoveOnly == UNCHANGED <<reachVars, lookVars, monitorVars, relayVars, pictureVars>>
MonitorOnly == UNCHANGED <<vars, reachVars, lookVars, relayVars, pictureVars>>
CameraOnly == UNCHANGED <<vars, reachVars, lookVars, monitorVars, pictureVars>>
TeleopOnly == UNCHANGED <<vars, reachVars, lookVars, monitorVars, relayVars>>
CommandsUnchanged == UNCHANGED <<vars, monitorVars, relayVars, pictureVars>>

Running(c) == place = "command" /\ command = c /\ UNCHANGED runVars

(* What is checked before anything else is done. *)
Arguments ==
  /\ place = "arguments"
  /\ \/ command = "move" /\ Validate /\ MoveOnly
     \/ command = "teleop" /\ CreateDirectory /\ TeleopOnly
     \/ command \notin {"move", "teleop"} /\ CommandsUnchanged /\ UNCHANGED <<reachVars, lookVars>>
  /\ place' = IF pc' = "done" \/ session' = "left" THEN "ended" ELSE "init"
  /\ UNCHANGED <<command, listed>>

InitStep ==
  /\ place = "init"
  /\ ReachStep
  /\ UNCHANGED <<runVars, lookVars>> /\ CommandsUnchanged

InitReturns ==
  /\ place = "init"
  /\ \/ reach = "ready" /\ place' = "announce"
     \/ reach = "failed" /\ place' = "ended"
  /\ ReachForgotten
  /\ UNCHANGED <<command, listed, lookVars>> /\ CommandsUnchanged

Announce(step) ==
  /\ place = "announce"
  /\ step
  /\ UNCHANGED <<runVars, reachVars>> /\ CommandsUnchanged

AnnounceReturns ==
  /\ place = "announce"
  /\ look = "done"
  /\ place' = "command"
  /\ LookForgotten
  /\ UNCHANGED <<command, listed, reachVars>> /\ CommandsUnchanged

-----------------------------------------------------------------------------
(* The commands. *)

(* discover: the topics, and then the services, are asked from the master. *)
Discover ==
  /\ place = "command" /\ command = "discover"
  /\ \/ /\ listed' = IF listed = "nothing" THEN "topics" ELSE "services"
        /\ place' = IF listed' = "services" THEN "ended" ELSE place
     \/ place' = "ended" /\ UNCHANGED listed
  /\ UNCHANGED <<command, reachVars, lookVars>> /\ CommandsUnchanged

MoveMain == Running("move") /\ SendVelocity /\ MoveOnly

MonitorMain ==
  Running("monitor") /\ (StartMonitor \/ MonitorCheck(rosOk) \/ MonitorPrint) /\ MonitorOnly

CameraMain ==
  Running("camera") /\ (StartRelay \/ (~rosOk /\ SpinEnds) \/ RelayReport) /\ CameraOnly

TeleopMain == Running("teleop") /\ PictureStep /\ TeleopOnly

CommandReturns ==
  /\ place = "command"
  /\ \/ command = "move" /\ pc = "done"
     \/ command = "monitor" /\ monitorAt = "ended"
     \/ command = "camera" /\ relayAt \in {"ended", "failed"}
     \/ command = "teleop" /\ session = "left"
  /\ place' = "ended"
  /\ UNCHANGED <<command, listed, reachVars, lookVars>> /\ CommandsUnchanged

MainThread ==
  \/ Arguments \/ InitStep \/ InitReturns \/ Announce(LookStep) \/ AnnounceReturns
  \/ Discover \/ MoveMain \/ MonitorMain \/ CameraMain \/ TeleopMain \/ CommandReturns

-----------------------------------------------------------------------------
(* The callbacks, the user, the other processes, the robot and the clock. *)

MoveHandler == Running("move") /\ Unpark /\ MoveOnly

MoveWorld == Running("move") /\ (Interrupt \/ Subscribe) /\ MoveOnly

MoveTick == Running("move") /\ Tick /\ MoveOnly

MonitorWorld ==
  /\ Running("monitor")
  /\ CallbackStep \/ \E b \in SensorBodies : SensorArrives(b)
  /\ MonitorOnly

CameraWorld ==
  /\ Running("camera")
  /\ RelayCallback \/ \E b \in FrameBodies : FrameArrives(b)
  /\ CameraOnly

TeleopWorld ==
  /\ Running("teleop")
  /\ \/ PictureCallback
     \/ \E b \in PictureBodies, n \in SequenceNumbers : CameraFrame(b, n)
     \/ PressSpace \/ LeaveSession
     \/ \E ms \in Stamps, n \in SequenceNumbers, k \in 0..(MaxSuffix - 1) :
          ForeignFile(FileName(ms, n, k))
  /\ TeleopOnly

(* ROS is shut down: by the master, or by the Ctrl-C that rosrust captures *)
(* for monitor and camera-bridge.  Nothing asks before the command runs.   *)
RosEnds ==
  /\ place = "command"
  /\ RosLost
  /\ UNCHANGED runVars /\ MoveOnly

(* The program has ended, or the modelled time. *)
ScoutEnded ==
  /\ place = "ended" \/ now = MaxTime
  /\ UNCHANGED scoutVars

ScoutNext ==
  \/ MainThread \/ Announce(ReaderStep) \/ Announce(ChildStep)
  \/ MoveHandler \/ MoveWorld \/ MoveTick
  \/ MonitorWorld \/ CameraWorld \/ TeleopWorld \/ RosEnds \/ ScoutEnded

ScoutSpec == ScoutInit /\ [][ScoutNext]_scoutVars

(* The threads are scheduled and sleeps end, as in TimedMove; the child,   *)
(* the robot, the user and the other processes owe nothing.                *)
ScoutFairSpec ==
  /\ ScoutSpec
  /\ WF_scoutVars(MainThread)
  /\ WF_scoutVars(Announce(ReaderStep))
  /\ WF_scoutVars(MoveHandler)
  /\ SF_scoutVars(MoveTick)

-----------------------------------------------------------------------------
(* Properties. *)

ScoutTypeOK ==
  /\ command \in Commands
  /\ place \in {"arguments", "init", "announce", "command", "ended"}
  /\ listed \in {"nothing", "topics", "services"}
  /\ TypeOK /\ ReachTypeOK /\ LookTypeOK /\ MonitorTypeOK /\ RelayTypeOK /\ PictureTypeOK

(* A process that keeps the pipe of netsh or arp open after it has ended.  *)
Kept == look = "join" /\ keeper

(* The command ends, unless such a process never closes the pipe: no       *)
(* silent master, hung program, missing motor controller or lost node      *)
(* keeps it.  What runs until Ctrl-C ends after it, and a picture that is  *)
(* being saved is saved or ends the session.                               *)
CommandEnds ==
  /\ (command \in {"move", "discover"} \/ (command = "monitor" /\ seconds > 0)) =>
       <>(place = "ended") \/ <>[]Kept
  /\ [](command \in {"monitor", "camera"} /\ ~rosOk => <>(place = "ended") \/ <>[]Kept)
  /\ Saving ~> ~Saving
=============================================================================
