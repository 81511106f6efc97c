--------------------------- MODULE TeleopPictures ---------------------------
(***************************************************************************)
(* The camera, the pictures and the terminal of `moorebot-scout teleop`    *)
(* (src/src/main.rs); its keys and its motion are the module Teleop.       *)
(*                                                                         *)
(* The camera callback keeps the latest JPEG frame under a mutex, which    *)
(* save_latest_picture holds until the file is written.  A file's name is  *)
(* its time in milliseconds, the frame's sequence number, which the robot  *)
(* chooses, and a suffix; clocks may go back, and other programs write     *)
(* into the directory as well.                                             *)
(***************************************************************************)
EXTENDS Messages, SequencesExt

CONSTANTS
  PictureBodies,  \* the frames' bodies that arrive
  SequenceNumbers,\* their sequence numbers
  Stamps,         \* what the clock may show
  MaxSuffix,      \* 100 suffixes are tried
  MaxPictures,    \* bound: how many frames arrive, and how often Space is pressed
  MaxForeign      \* bound: how many files other programs write

ASSUME TeleopPicturesAssumption ==
  /\ \A b \in PictureBodies : b \in Body /\ b.type = "frame"
  /\ MaxSuffix \in Nat /\ MaxPictures \in Nat /\ MaxForeign \in Nat

VARIABLES
  cameraLog,   \* every frame so far: [body, sequence]
  queued,      \* the frame in the subscription's queue
  decoded,     \* the frame the callback wants to keep
  latest,      \* latest_frame
  term,        \* the terminal: "cooked", "raw" or "enhanced"
  session,     \* run_teleop_session's place
  stamp,       \* timestamp_ms
  suffix,      \* the suffix it is at
  files,       \* the directory: from names to contents
  saved,       \* the pictures it has reported: [file, frame]
  presses      \* how often Space was pressed

cameraVars == <<cameraLog, queued, decoded, latest>>
pictureVars == <<cameraVars, term, session, stamp, suffix, files, saved, presses>>

(* The contents of a file: a frame's number, an unfinished write, or       *)
(* another program's.                                                      *)
Partial == 0
Foreign == -1

FileName(ms, sequence, n) == <<ms, sequence, n>>

PictureInit ==
  /\ cameraLog = <<>>
  /\ queued = 0
  /\ decoded = 0
  /\ latest = 0
  /\ term = "cooked"
  /\ session = "directory"
  /\ stamp = 0
  /\ suffix = 0
  /\ files = <<>>
  /\ saved = {}
  /\ presses = 0

(* The directory with one more file. *)
With(file, content) ==
  [f \in DOMAIN files \cup {file} |-> IF f = file THEN content ELSE files[f]]

-----------------------------------------------------------------------------
(* The camera's callback. *)

CameraFrame(b, sequence) ==
  /\ session \notin {"directory", "connect", "left"}
  /\ Len(cameraLog) < MaxPictures
  /\ cameraLog' = Append(cameraLog, [body |-> b, sequence |-> sequence])
  /\ queued' = IF Delivered(b) THEN Len(cameraLog') ELSE queued
  /\ UNCHANGED <<decoded, latest, term, session, stamp, suffix, files, saved, presses>>

DecodePicture ==
  /\ queued # 0
  /\ decoded = 0
  /\ queued' = 0
  /\ decoded' = IF IsJpeg(cameraLog[queued].body) THEN queued ELSE 0
  /\ UNCHANGED <<cameraLog, latest, term, session, stamp, suffix, files, saved, presses>>

(* save_latest_picture holds the lock. *)
Saving == session \in {"open", "write"}

KeepPicture ==
  /\ decoded # 0
  /\ ~Saving
  /\ latest' = decoded
  /\ decoded' = 0
  /\ UNCHANGED <<cameraLog, queued, term, session, stamp, suffix, files, saved, presses>>

-----------------------------------------------------------------------------
(* The session. *)

(* teleop's checks, create_dir_all, and everything up to the session. *)
Prepare(place, next) ==
  /\ session = place
  /\ session' \in {next, "left"}
  /\ UNCHANGED <<cameraVars, term, stamp, suffix, files, saved, presses>>

CreateDirectory == Prepare("directory", "connect")

ConnectCamera == Prepare("connect", "enter")

(* Mutation: raw mode is kept when the keyboard's flags cannot be pushed. *)
EnterRaw ==
  /\ session = "enter"
  /\ \/ session' = "keys" /\ term' \in {"raw", "enhanced"}
     \/ session' = "left" /\ term' \in {"raw", "cooked"}
  /\ UNCHANGED <<cameraVars, stamp, suffix, files, saved, presses>>

(* RawTerminal::enter: raw mode, and the keyboard's flags if the terminal  *)
(* has them; raw mode is undone when they cannot be set.                   *)
EnterTerminal ==
  /\ session = "enter"
  /\ \/ session' = "keys" /\ term' \in {"raw", "enhanced"}
     \/ session' = "left" /\ UNCHANGED term
  /\ UNCHANGED <<cameraVars, stamp, suffix, files, saved, presses>>

(* Space, after the stop was sent: no frame yet, or the frame, the clock   *)
(* and the first name.                                                     *)
PressSpace ==
  /\ session = "keys"
  /\ presses < MaxPictures
  /\ presses' = presses + 1
  /\ IF latest = 0
       THEN UNCHANGED <<session, stamp, suffix>>
       ELSE session' = "open" /\ stamp' \in Stamps /\ suffix' = 0
  /\ UNCHANGED <<cameraVars, term, files, saved>>

Chosen == FileName(stamp, cameraLog[latest].sequence, suffix)

(* Mutation: a file that is there is opened and cut off. *)
OpenAnyName ==
  /\ session = "open"
  /\ suffix < MaxSuffix
  /\ files' = With(Chosen, Partial)
  /\ session' = "write"
  /\ UNCHANGED <<cameraVars, term, stamp, suffix, saved, presses>>

(* create_new: the file is created, or its name is taken. *)
CreateNew ==
  /\ session = "open"
  /\ suffix < MaxSuffix
  /\ IF Chosen \in DOMAIN files
       THEN suffix' = suffix + 1 /\ UNCHANGED <<files, session>>
       ELSE files' = With(Chosen, Partial) /\ session' = "write" /\ UNCHANGED suffix
  /\ UNCHANGED <<cameraVars, term, stamp, saved, presses>>

WritePicture ==
  /\ session = "write"
  /\ files' = [files EXCEPT ![Chosen] = latest]
  /\ saved' = saved \cup {[file |-> Chosen, frame |-> latest]}
  /\ session' = "keys"
  /\ UNCHANGED <<cameraVars, term, stamp, suffix, presses>>

(* The session is over, and RawTerminal is dropped. *)
Leave(places) ==
  /\ session \in places
  /\ session' = "left"
  /\ term' = "cooked"
  /\ UNCHANGED <<cameraVars, stamp, suffix, files, saved, presses>>

(* Esc or Ctrl-C, and errors: a clock before 1970, a failed open or write. *)
LeaveSession == Leave({"keys", "open", "write"})

(* "could not choose a unique picture filename" *)
NoNameLeft == suffix = MaxSuffix /\ Leave({"open"})

(* Another program writes a file that was not there. *)
ForeignFile(file) ==
  /\ Cardinality({f \in DOMAIN files : files[f] = Foreign}) < MaxForeign
  /\ session \in {"keys", "open"}
  /\ file \notin DOMAIN files
  /\ files' = With(file, Foreign)
  /\ UNCHANGED <<cameraVars, term, session, stamp, suffix, saved, presses>>

PictureCallback == DecodePicture \/ KeepPicture

(* The steps after ros1::init that only wait for the computer. *)
PictureStep ==
  ConnectCamera \/ EnterTerminal \/ CreateNew \/ WritePicture \/ NoNameLeft

-----------------------------------------------------------------------------
(* Properties. *)

PictureTypeOK ==
  /\ cameraLog \in Seq([body : PictureBodies, sequence : SequenceNumbers])
  /\ \A n \in {queued, decoded, latest} : n \in 0..Len(cameraLog)
  /\ term \in {"cooked", "raw", "enhanced"}
  /\ session \in {"directory", "connect", "enter", "keys", "open", "write", "left"}
  /\ stamp \in Stamps \cup {0}
  /\ suffix \in 0..MaxSuffix
  /\ \A f \in DOMAIN files : f \in Stamps \X SequenceNumbers \X (0..MaxSuffix)
  /\ Range(files) \subseteq Foreign..Len(cameraLog)
  /\ saved \subseteq [file : DOMAIN files, frame : 1..Len(cameraLog)]
  /\ presses \in 0..MaxPictures

(* What was reported as saved is one whole JPEG frame, in a file of its    *)
(* own; and however the session ends, also before it has begun, the        *)
(* terminal is as it was.                                                  *)
PicturesWhole ==
  /\ \A p \in saved :
       /\ files[p.file] = p.frame
       /\ LET b == cameraLog[p.frame].body
          IN  Whole(b) /\ StreamType(b.stream) = "Jpeg" /\ b.starts /\ b.ends
  /\ \A p, q \in saved : p.file = q.file => p = q
  /\ session = "left" => term = "cooked"

(* A step changes no file but the one that it has created itself.          *)
FilesKept ==
  \A f \in DOMAIN files :
    /\ f \in DOMAIN files'
    /\ files'[f] # files[f] => files[f] = Partial /\ session = "write"

(* No picture, and no other program's file, is ever overwritten, however   *)
(* the clock and the robot's numbers repeat, and every picture is whole.   *)
PicturesKept == [][FilesKept /\ PicturesWhole']_pictureVars
=============================================================================
