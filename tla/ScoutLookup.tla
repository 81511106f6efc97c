---------------------------- MODULE ScoutLookup ----------------------------
(***************************************************************************)
(* Which Scout is it?  announce_connection, detect_scout and               *)
(* command_output of src/src/main.rs, known_scout_in_text of               *)
(* src/src/robot.rs: netsh (on Windows) and then arp are run, and their    *)
(* output is searched for the identifiers of the known Scouts.             *)
(*                                                                         *)
(* The child writes its output to a pipe that a reader thread empties; the *)
(* main thread polls the child, kills it at the deadline, and joins the    *)
(* reader when the child has ended by itself.  A process that inherited    *)
(* the pipe from the child keeps it open.  The output is a sequence of     *)
(* words, each of them the identifier of a known Scout or another word.    *)
(***************************************************************************)
EXTENDS Integers, SequencesExt

CONSTANTS
  KnownScouts,  \* KNOWN_SCOUTS, a sequence
  OtherWord,    \* what is no Scout's identifier
  Programs,     \* the programs to run, a sequence
  OutputLimit,  \* MAX_SYSTEM_COMMAND_OUTPUT_BYTES
  PipeSize,     \* what the pipe holds
  MaxOutput,    \* bound: the most that a program writes
  LookTime      \* SYSTEM_COMMAND_TIMEOUT, in polls of 10 ms

ASSUME ScoutLookupAssumption ==
  /\ KnownScouts \in Seq(ToSet(KnownScouts))
  /\ OtherWord \notin ToSet(KnownScouts)
  /\ Len(Programs) \in Nat \ {0}
  /\ OutputLimit \in Nat
  /\ PipeSize \in Nat \ {0}
  /\ MaxOutput \in Nat
  /\ LookTime \in Nat

VARIABLES
  look,      \* detect_scout's place
  program,   \* which of Programs it is at
  waited,    \* how long the child has been polled
  child,     \* the child process: "none", "running", "ok", "bad" or "killed"
  output,    \* what the child has written
  keeper,    \* another process has the pipe open
  reader,    \* the reader thread
  got,       \* how much it has read
  name       \* the Scout that was found

lookVars == <<look, program, waited, child, output, keeper, reader, got, name>>

Words == ToSet(KnownScouts) \cup {OtherWord}

LookInit ==
  /\ look = "start"
  /\ program = 1
  /\ waited = 0
  /\ child = "none"
  /\ output = <<>>
  /\ keeper = FALSE
  /\ reader = "none"
  /\ got = 0
  /\ name = OtherWord

-----------------------------------------------------------------------------

(* known_scout_in_text: the first Scout of the list that is mentioned. *)
KnownScoutInText(text) ==
  LET mentioned == {i \in DOMAIN KnownScouts : KnownScouts[i] \in ToSet(text)}
  IN  IF mentioned = {} THEN OtherWord ELSE KnownScouts[Min(mentioned)]

(* command_output returns None or a text without a known Scout: the next   *)
(* program is tried if there is one.                                       *)
NotFound ==
  /\ name' = OtherWord
  /\ IF program < Len(Programs)
       THEN program' = program + 1 /\ look' = "start"
       ELSE look' = "done" /\ UNCHANGED program

Found(scout) ==
  IF scout = OtherWord
    THEN NotFound
    ELSE name' = scout /\ look' = "done" /\ UNCHANGED program

(* The program is spawned with a pipe and a reader of its own, or it is    *)
(* missing, or spawn fails.  Without a Windows system directory (the `?`   *)
(* of windows_system_program) nothing else is tried.                       *)
Spawn ==
  /\ look = "start"
  /\ \/ /\ look' = "wait"
        /\ waited' = 0
        /\ child' = "running"
        /\ output' = <<>>
        /\ keeper' \in BOOLEAN
        /\ reader' = "reading"
        /\ got' = 0
        /\ UNCHANGED <<program, name>>
     \/ NotFound /\ UNCHANGED <<waited, child, output, keeper, reader, got>>
     \/ look' = "done" /\ UNCHANGED <<program, waited, child, output, keeper, reader, got, name>>

(* One try_wait while the child is running, and the sleep after it. *)
Poll ==
  /\ look = "wait"
  /\ child = "running"
  /\ waited < LookTime
  /\ waited' = waited + 1
  /\ UNCHANGED <<look, program, child, output, keeper, reader, got, name>>

(* Its status is there. *)
Ended ==
  /\ look = "wait"
  /\ child # "running"
  /\ look' = "join"
  /\ UNCHANGED <<program, waited, child, output, keeper, reader, got, name>>

(* The child is killed and waited for, and the reader is left alone. *)
KillChild ==
  /\ look = "wait"
  /\ child = "running"
  /\ child' = "killed"
  /\ NotFound
  /\ UNCHANGED <<waited, output, keeper, reader, got>>

(* The deadline has passed. *)
Kill == waited = LookTime /\ KillChild

(* The reader is joined, and its text searched if it is to be trusted.     *)
JoinIf(trusted) ==
  /\ look = "join"
  /\ reader \in {"done", "error"}
  /\ Found(IF reader = "done" /\ trusted THEN KnownScoutInText(SubSeq(output, 1, got)) ELSE OtherWord)
  /\ UNCHANGED <<waited, child, output, keeper, reader, got>>

(* Mutation: an output that was cut off is searched as well. *)
JoinAnyLength == JoinIf(child = "ok")

Join == JoinIf(child = "ok" /\ got <= OutputLimit)

(* detect_scout has returned, and its locals are gone. *)
LookForgotten ==
  /\ look' = "start" /\ program' = 1 /\ waited' = 0
  /\ child' = "none" /\ output' = <<>> /\ keeper' = FALSE
  /\ reader' = "none" /\ got' = 0
  /\ name' = OtherWord

LookStep == Spawn \/ Poll \/ Ended \/ Kill \/ Join

-----------------------------------------------------------------------------
(* The child, the other processes that hold the pipe, and the reader. *)

Writes(word) ==
  /\ child = "running" \/ keeper
  /\ reader = "reading"
  /\ Len(output) < MaxOutput
  /\ Len(output) - got < PipeSize
  /\ output' = Append(output, word)
  /\ UNCHANGED <<look, program, waited, child, keeper, reader, got, name>>

Exits(status) ==
  /\ child = "running"
  /\ child' = status
  /\ UNCHANGED <<look, program, waited, output, keeper, reader, got, name>>

(* try_wait fails. *)
PollFails == waited < LookTime /\ KillChild

KeeperCloses ==
  /\ keeper
  /\ keeper' = FALSE
  /\ UNCHANGED <<look, program, waited, child, output, reader, got, name>>

(* take(OutputLimit + 1).read_to_end *)
ReaderReads ==
  /\ reader = "reading"
  /\ got < Len(output) /\ got <= OutputLimit
  /\ got' = got + 1
  /\ UNCHANGED <<look, program, waited, child, output, keeper, reader, name>>

(* It ends at the limit, or when nobody holds the pipe's other end. *)
ReaderEnds ==
  /\ reader = "reading"
  /\ \/ got > OutputLimit
     \/ got = Len(output) /\ child # "running" /\ ~keeper
  /\ reader' = "done"
  /\ UNCHANGED <<look, program, waited, child, output, keeper, got, name>>

ReaderFails ==
  /\ reader = "reading"
  /\ reader' = "error"
  /\ UNCHANGED <<look, program, waited, child, output, keeper, got, name>>

ReaderStep == ReaderReads \/ ReaderEnds

ChildStep ==
  \/ \E word \in Words : Writes(word)
  \/ \E status \in {"ok", "bad"} : Exits(status)
  \/ PollFails
  \/ KeeperCloses
  \/ ReaderFails

-----------------------------------------------------------------------------
(* Properties. *)

LookTypeOK ==
  /\ look \in {"start", "wait", "join", "done"}
  /\ program \in 1..Len(Programs)
  /\ waited \in 0..LookTime
  /\ child \in {"none", "running", "ok", "bad", "killed"}
  /\ output \in Seq(Words) /\ Len(output) <= MaxOutput
  /\ keeper \in BOOLEAN
  /\ reader \in {"none", "reading", "done", "error"}
  /\ got \in 0..(OutputLimit + 1)
  /\ name \in Words

(* A Scout is named only from an output that was read to its end, within   *)
(* the limit, of a program that ended by itself and successfully, and then *)
(* it is the first known Scout of all that was written; no name is given   *)
(* from the first half of an output that names another Scout in the rest.  *)
NameFromWholeOutput ==
  name # OtherWord =>
    /\ child = "ok"
    /\ reader = "done"
    /\ got = Len(output) /\ got <= OutputLimit
    /\ name = KnownScoutInText(output)
=============================================================================
