---------------------------- MODULE WifiPassword ----------------------------
(***************************************************************************)
(* How `moorebot-scout wifi setup` gets the router's password (main.rs):   *)
(* from a hidden prompt whose keys edit a buffer, or as one line of the    *)
(* standard input; and WifiCredentials::new (src/src/wifi.rs), which       *)
(* accepts it or not.                                                      *)
(*                                                                         *)
(* A character has a width in bytes.  `typed` is what the user has typed   *)
(* and corrected, as a text field without a limit would hold it.           *)
(***************************************************************************)
EXTENDS Integers, FiniteSets, Sequences, SequencesExt

CONSTANTS
  Chars,      \* characters
  Width,      \* len_utf8 of each
  Safe,       \* those safe_firmware_byte admits
  CR, LF,     \* the bytes that end a line
  Ssids,      \* the SSIDs given on the command line
  MaxSsid,    \* 32 bytes
  MinBytes,   \* 8 bytes
  MaxBytes,   \* 63 bytes
  MaxKeys     \* bound: keys pressed, or bytes of the standard input

Bytes == {c \in Chars : Width[c] = 1} \cup {CR, LF}

ASSUME WifiPasswordAssumption ==
  /\ Width \in [Chars -> Nat \ {0}]
  /\ Safe \subseteq {c \in Chars : Width[c] = 1}
  /\ CR \notin Chars /\ LF \notin Chars /\ CR # LF
  /\ Ssids \subseteq Seq(Chars)
  /\ MaxSsid \in Nat
  /\ MinBytes \in Nat
  /\ MaxBytes \in Nat
  /\ MaxKeys \in Nat

VARIABLES
  source,    \* "stdin" for --password-stdin, "prompt" without
  ssid,      \* --ssid
  place,     \* where the command is, until the credentials are accepted
  password,  \* the bytes, or the characters, read so far
  tooLong,   \* read_hidden_wifi_password's latch
  typed,     \* history: what the user means
  keys       \* bound: keys and bytes so far

passwordVars == <<source, ssid, place, password, tooLong, typed, keys>>

WidthOf(c) == IF c \in Chars THEN Width[c] ELSE 1

(* len: how many bytes the characters of s have, each byte being its       *)
(* character's position and its own place in the character.                *)
BytesOf(s) == UNION {{i} \X (1..WidthOf(s[i])) : i \in DOMAIN s}
Length(s) == Cardinality(BytesOf(s))

WithoutLast(s) == IF s = <<>> THEN <<>> ELSE Front(s)

PasswordInit ==
  /\ source \in {"stdin", "prompt"}
  /\ ssid \in Ssids
  /\ place = "start"
  /\ password = <<>>
  /\ tooLong = FALSE
  /\ typed = <<>>
  /\ keys = 0

(* The prompt needs a terminal. *)
PromptOrStdin ==
  /\ place = "start"
  /\ \/ place' = IF source = "stdin" THEN "line" ELSE "keys"
     \/ source = "prompt" /\ place' = "refused"
  /\ UNCHANGED <<source, ssid, password, tooLong, typed, keys>>

-----------------------------------------------------------------------------
(* read_wifi_password *)

ReadByte ==
  /\ place = "line"
  /\ keys < MaxKeys
  /\ keys' = keys + 1
  /\ UNCHANGED <<source, ssid, tooLong>>

TooManyBytes == Len(password) >= MaxBytes + 2

(* The line's end is stripped, a LF or a CR and a LF; an end of file is    *)
(* not.                                                                    *)
LineOf(s) == IF s # <<>> /\ Last(s) = CR THEN Front(s) ELSE s

EndLine(line) ==
  /\ password' = line
  /\ place' = IF Len(line) > MaxBytes THEN "refused" ELSE "validate"

TakeByte ==
  /\ ReadByte
  /\ \E b \in Bytes \ {LF} :
       /\ typed' = Append(typed, b)
       /\ IF TooManyBytes
            THEN place' = "refused" /\ UNCHANGED password
            ELSE password' = Append(password, b) /\ UNCHANGED place

TakeLf ==
  /\ ReadByte
  /\ typed' = LineOf(typed)
  /\ IF TooManyBytes
       THEN place' = "refused" /\ UNCHANGED password
       ELSE EndLine(LineOf(password))

EndOfInput ==
  /\ place = "line"
  /\ EndLine(password)
  /\ UNCHANGED <<source, ssid, tooLong, typed, keys>>

ReadFails ==
  /\ place \in {"line", "keys"}
  /\ place' = "refused"
  /\ UNCHANGED <<source, ssid, password, tooLong, typed, keys>>

-----------------------------------------------------------------------------
(* read_hidden_wifi_password *)

PressKey ==
  /\ place = "keys"
  /\ keys < MaxKeys
  /\ keys' = keys + 1
  /\ UNCHANGED <<source, ssid>>

(* What does not fit is consumed, and what follows it. *)
TypeChar ==
  /\ PressKey
  /\ \E c \in Chars :
       /\ typed' = Append(typed, c)
       /\ IF tooLong \/ Length(password) + Width[c] > MaxBytes
            THEN tooLong' = TRUE /\ UNCHANGED password
            ELSE password' = Append(password, c) /\ UNCHANGED tooLong
  /\ UNCHANGED place

EraseLeaving(latch) ==
  /\ PressKey
  /\ password' = WithoutLast(password)
  /\ typed' = WithoutLast(typed)
  /\ tooLong' = latch
  /\ UNCHANGED place

(* Mutation: a character that is erased makes room for the next. *)
EraseUnlatching == EraseLeaving(FALSE)

Erase == EraseLeaving(tooLong)

Enter ==
  /\ PressKey
  /\ place' = IF tooLong THEN "refused" ELSE "validate"
  /\ UNCHANGED <<password, tooLong, typed>>

(* Escape, Ctrl-C or Ctrl-D. *)
Cancel ==
  /\ PressKey
  /\ place' = "refused"
  /\ UNCHANGED <<password, tooLong, typed>>

(* Key-ups, other keys and characters with Ctrl or Alt are ignored. *)
IgnoreKey ==
  /\ PressKey
  /\ UNCHANGED <<place, password, tooLong, typed>>

-----------------------------------------------------------------------------
(* WifiCredentials::new *)

Fits(s, min, max) == Length(s) \in min..max /\ \A i \in 1..Len(s) : s[i] \in Safe

Validate ==
  /\ place = "validate"
  /\ place' = IF Fits(ssid, 1, MaxSsid) /\ Fits(password, MinBytes, MaxBytes)
                THEN "accepted" ELSE "refused"
  /\ UNCHANGED <<source, ssid, password, tooLong, typed, keys>>

ReadPassword ==
  \/ PromptOrStdin \/ TakeByte \/ TakeLf \/ EndOfInput \/ ReadFails
  \/ TypeChar \/ Erase \/ Enter \/ Cancel \/ IgnoreKey
  \/ Validate

PasswordTypeOK ==
  /\ source \in {"stdin", "prompt"}
  /\ ssid \in Ssids
  /\ place \in {"start", "line", "keys", "validate", "accepted", "refused"}
  /\ password \in Seq(Chars \cup {CR})
  /\ Length(password) <= IF source = "stdin" THEN MaxBytes + 2 ELSE MaxBytes
  /\ tooLong \in BOOLEAN
  /\ typed \in Seq(Chars \cup {CR})
  /\ keys \in 0..MaxKeys

(* A password that is accepted is the one that was typed, corrections      *)
(* included: it is never cut off at the limit, whatever is erased after    *)
(* the limit was reached.                                                  *)
PasswordAsTyped == place = "accepted" => password = typed
=============================================================================
