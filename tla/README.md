# Formal models of `moorebot-scout`

TLA+ modules that model the `moorebot-scout` driver, its commands, its bridge
and the two clients of the bridge, the TLC runs that check them on small
instances, and TLAPS proofs about both halves of the bridge, teleoperation, the
Wi-Fi setup, the clients, the message decoders and the other commands for every
value of their constants.
`PROJECT.json` lists the components, runs, mutants, source lines behind each
definition, findings, hazards and theorems.

## The system

`moorebot-scout` is one Rust program (`src/src/`) that drives a Moorebot Scout
robot over ROS 1, and two thin clients (`src/integrations/`) that talk to its
`bridge` subcommand over localhost TCP.  The robot keeps executing the last
twist it was sent, so nearly every hard property is about when the program
sends zero.

| component | state | operations | what makes it correct |
|---|---|---|---|
| control bridge (`integration_bridge.rs`, control half) | `MotionState {command, deadline}` under a mutex, `running`, the listener's `owner` handle, one worker per connection with its line buffer | accept, reject, spawn, join, serve lines, velocity, stop, ping, shutdown | one client at a time; no command outlives its deadline, its client or a stop; shutdown leaves nothing behind |
| publishing loop (`main.rs`, `integration_bridge`) | the sampled instant, the twist to send, results | send zero, loop {sample, look, send, park}, close, last zero, shutdown, join | what it sends was in force; it always ends with zero |
| camera bridge half (`integration_bridge.rs`) | `LatestFrame {generation, jpeg}`, the client counter, `seen_generation` per worker | publish, accept, count, refuse, spawn, read a request, wait, write, release | bounded clients, no leaked place, no frame twice, no lost wake-up |
| teleoperation (`main.rs`, `TeleopControl`, `run_teleop_session`) | six `KeyHold {pressed, deadline}`, `speed_scale`, `next_publish` | key press/repeat/release, capture, faster/slower, exit, publish | a lost release stops the robot; nothing moves while a picture is saved; the session ends with zero |
| timed moves (`main.rs`, `send_velocity`, `connect_motor_controller`) | the request and its twist, attempt, publisher, deadline, `running` | validate, register, wait, retry, send, park, final zero | the motion is the one asked for, never before a subscriber or past the deadline, always ended by zero |
| router Wi-Fi setup (`ros1/wifi.rs`, `wifi.rs`) | deadline, resolver thread, addresses, connection, outcome | lookup, resolve, connect, handshake, send once, classify the reply | no definite failure once credentials may have arrived; sent at most once; bounded by one deadline |
| Wi-Fi password input (`main.rs`) | the password, `too_long` | read a line or keys | never a truncated password |
| command start-up (`main.rs`, `run`; `ros1.rs`, `init`) | the master's addresses, the one that was reached | check arguments, resolve, connect, choose the local address, initialise the node | the best address that answers, in bounded time |
| ROS transport (`ros1.rs`), `RosShutdownGuard` | the rosrust node | publish, subscribe with a size limit | thin wrapper over rosrust |
| camera republisher (`camera_bridge`; `ros1.rs`, `CameraBridge`) | two atomic counters | forward or drop a frame, report | every frame is counted once, forwarded frames are whole JPEGs in order |
| sensor monitor (`main.rs`, `monitor`) | `SensorSnapshot` under a mutex, four subscriptions | decode, store, print | a reading is replaced only by a newer whole one |
| pictures (`main.rs`, `teleop`, `save_latest_picture`, `RawTerminal`) | the latest frame under a mutex, the directory, the terminal's mode | keep a frame, choose a name, create, write, leave | nothing is overwritten, the terminal is restored |
| decoders (`codec.rs`, `frame.rs`, `sensors.rs`) | offset in a body | read numbers, bounded vectors and strings, finish | exactly the whole messages are accepted |
| velocity mapping (`motion.rs`) | none | validate, clamp and map a velocity | direction and limits hold on every axis |
| robot identification (`main.rs`, `detect_scout`, `command_output`; the table of known Scouts in `robot.rs`) | a child process, its pipe, a reader thread | spawn, poll, kill, join, search | bounded by two seconds, a name only from a whole output |
| `discover` with the tables of `topics.rs` and `services.rs` | none | ask the master twice, print | output only |
| Python client (`client.py`), MATLAB client (`MoorebotScout.m`) | a control stream, a camera stream, closed flag | request/reply, read a frame, close | replies match requests; a failed camera read reconnects |

## How the parts interact

* The publishing loop, the control listener and the control workers share
  `Arc<Mutex<MotionState>>` and the `running` flag.  The Ctrl-C handler only
  clears `running` and unparks the main thread.
* The rosrust subscription thread publishes frames into
  `(Mutex<LatestFrame>, Condvar)`, which the camera workers look at.
* `shutdown()` joins the two listeners; the control listener joins its last
  worker, the camera listener joins nobody.
* Every command but `wifi setup` runs in one order: `run` checks its arguments,
  `ros1::init` finds the master, `announce_connection` names the Scout, and then
  the command works while rosrust's threads call back into a snapshot, a pair of
  counters or the latest picture, each behind its own mutex or atomic.
* The clients talk newline-delimited JSON on the control port and one request
  byte per frame on the camera port.

## What is hard here

* **Interleavings.** The publishing loop reads the clock before it takes the
  motion mutex and sends after it has released it; workers, the listener and
  the shutdown run in between.  A worker's final stop happens after its socket
  was dropped and before `is_finished` turns true, which is when the next
  client may get control.
* **Stale data.** An instant, a twist, a generation or a `running` that was
  read earlier is used later.
* **Time.** Command deadlines, key deadlines, a publish period that is longer
  than a deadline, one deadline shared by a whole network conversation,
  `park_timeout` and its token.
* **Failure.** Sends, spawns, writes, saves, the terminal, the ROS node and the
  robot's network fail one at a time or together, also in the middle of an
  error path.
* **Lost and late messages.** Key-up events are lost, replies are late or never
  read, the robot leaves the network while it is being told to.
* **Limits.** One controlling client, a handful of camera places, the longest
  password.

`PROJECT.json` lists the single hazards with their lines and the properties
that would catch them.

## The modules

An action is one critical section or one call of the code that other actors can
get between; what a thread keeps in local variables from one to the next is
state.  Program counters carry the names of places (`"check"`, `"send"`).
History variables are marked as such where they are declared.  A definition whose
comment starts with "Mutation:" is a plausible bug in the definition after it:
it is never part of `Next`, and each property is violated when its mutation
replaces the definition.

| module | models | state and actions in terms of the code |
|---|---|---|
| `MotionLease` | what the bridge promises about motion, without threads or time | `holder`, the command in force, the twist the publisher has taken, the twist sent last |
| `BridgeControl` | the control half of `integration_bridge.rs` and `integration_bridge` of `main.rs` | `Main*` is the publishing loop (sample, lock, send, closing, last zero, `shutdown`), `Listener*` is `run_control_listener`, `Worker*(c)` is `serve_control_client` with `handle_request` as `Handle*`, `Client(c)` the other end of a socket; `command`/`deadline` are `MotionState` |
| `BridgeCamera` | the camera half | `Publish` is `FrameSink::publish`, `Listener*` is `run_camera_listener` with the counter `clients`, `Worker*(c)` is `serve_camera_client`; a frame is its generation |
| `Teleop` | `TeleopControl`, `run_teleop_session`, the end of `teleop` | `held` is the six `KeyHold`s, `HandleKey` is `handle_key` with one operator per branch, a round is `StartRound` … `WhenDue`, `Publish`; the terminal is a queue of events |
| `Motion` | `motion.rs` | `ToScoutTwist` and its validation over integers and a value that is not finite; `Applied` is what the robot does with a twist |
| `TimedMove` | `drive`, `move_velocity`, `send_velocity`, `connect_motor_controller`, the subscriber wait of `ros1.rs`, the Ctrl-C handler's thread | `Validate`; `Register`, `Look`, `Doze`, `Retry`, `Pause` wait for the motor controller; `Check`, `Send`, `NextWait`, `Park` are the loop; `token` is what `unpark` leaves |
| `RosConnect` | `ros1::init` | `Resolve`, `TryNext`, `Advertise`, `InitNode`; `answering` is where the master can be reached |
| `ScoutLookup` | `announce_connection`, `detect_scout`, `command_output`, `known_scout_in_text` | `Spawn`, `Poll`, `Kill`, `Join` of the main thread, `Reader*` of the reader, `Writes`, `Exits`, `KeeperCloses` of the processes at the other end of the pipe |
| `Messages` | `codec.rs`, `frame.rs`, `sensors.rs`, `BoundedRawMessage` | no state: a `Decoder` is a record, each `decode_ros` a composition of its reads; `Whole` is the reference, what a serialiser writes for an acceptable value |
| `SensorMonitor` | `monitor` | per sensor the queue of one, the callback's reading, the snapshot and what was printed, as numbers of messages |
| `CameraRelay` | `CameraBridge` and `camera_bridge` | `TakeFrame`, `SendImage`, `Count` of the callback, `ReadForwarded`, `ReadDropped` of the main thread |
| `TeleopPictures` | `teleop` around the session, `RawTerminal`, `save_latest_picture` | the camera callback, the slot, `CreateNew`, `WritePicture`, `LeaveSession`; another program writes `ForeignFile`s |
| `ScoutCommand` | `run` | extends `TimedMove` and the six modules after it and orders them: arguments, `init`, announcement, one command, end |
| `WifiProvisioning` | `provision_wifi` of `ros1/wifi.rs` | `pc` is the step of the conversation, `deadline` the one `Instant`, `began`/`until` the budget of one address, `robot`, `reply`, `arrived` the other side |
| `WifiPassword` | `read_wifi_password`, the hidden prompt and `WifiCredentials::new` | `password`, `tooLong`; `typed` is what a text field without a limit would hold |
| `WifiSetup` | `wifi_setup`: the password first, the conversation after | extends the two modules before it and orders them |
| `ScoutClient` | `ScoutClient` of `client.py` and `MoorebotScout` of `MoorebotScout.m` | per caller a place and an operation; `lock`, the connection, lines and replies on the wire, the camera connection's bytes as lengths and bodies; `language` selects what the two do differently |
| `BridgeControlProofs`, `BridgeCameraProofs`, `TeleopProofs`, `TimedMoveProofs`, `MessagesProofs`, `ScoutCommandProofs`, `WifiSetupProofs`, `ScoutClientProofs` | – | the theorems, see What is proved |
| `MC*` | – | the small instances |

External code is modelled from its use: rosrust (`RosLost`, `Subscribe`),
crossterm (the terminal's events), the operating system's sockets, files, child
processes, clock and threads, the robot's Wi-Fi service, and CPython's socket file object, which
refuses to read again after a timeout.

## The runs

Everything is run by `tlc -config X.cfg M`; a pass run finishes within
three minutes on two cores.

| run | question | bounds and why they are enough |
|---|---|---|
| `control_safety` | Is a moving twist ever sent that was stale, replaced, another client's, or stopped? Is control ever taken without a worker? Does the bridge implement `MotionLease`? | Two connections (an owner, and one that is rejected or takes over: the listener deals with one at a time), two requests, a timeout of two ticks and one that is too long; the clock runs while a command is in force. The connections are symmetric. |
| `control_live` | Does a client that left give the bridge back, does Ctrl-C end the process, does an unattended robot stop? | Two connections, one request of every kind, failing spawns, writes and sends |
| `camera_frames` | Do places leak, are frames repeated, missed or unasked, does the shutdown end without the workers? | Two connections for one place, two requests, two frames: enough for a second look, a refusal and a re-used place |
| `camera_reconnect` | (violation) see Findings | – |
| `teleop_session` | Does every session end with zero, and by Ctrl-C? | Both kinds of terminal, every key and every failing call, time passing between any two steps; two events |
| `teleop_keys` | How long does a direction go on after its release, its deadline, its last press, a capture, with failing sends and saves? | Both kinds of terminal, four events (press, repeat, release, a speed change), periods of one and two ticks against deadlines of one, three and four ticks in the code's order; the loop's own steps take no time |
| `teleop_deadline` | (violation) see Findings | – |
| `scout_command` | For every command but `wifi` and `bridge`: is the motion the one asked for and over in time, is the best master chosen, is a Scout named from half an output, are frames, readings and pictures what they should be, and does the command end? | Two requests that are sent, with periods of one and two ticks, and nine that are refused, one for each check; both connection attempts. Three addresses, one of them IPv6, of which two are tried. Outputs of up to three words of which two may be read (so that a name can be before and after the limit), a pipe of one word, two Scouts, two programs, a timeout of one poll. Two messages, frames or pictures: enough to replace one, also by a damaged one; bodies below, at and above every limit. Two instants and two suffixes for two pictures, and one file of another program: enough to run out of names |
| `wifi_setup` | Is what is sent what was typed, once, and is an uncertain outcome ever reported as a failure? Does it end in time? | Passwords of up to two bytes from five keys (enough to pass the limit and erase below it), up to three addresses, timeouts below, in and above the allowed range, every reply the reader tells apart |
| `client_threads` | Is the wire used by one thread at a time, does every call end, does a closed client stop the robot? | Two threads, two requests besides `close` |
| `client_calls` | Does a call ever return another call's reply, does a stop hold, does framing shift? | One caller, three requests, two frames, every kind of failure, both languages |
| `client_interrupt` | (violation) see Findings | – |

Bounds are named constants (`MaxRequests`, `MaxTime`, `MaxAsks`, `MaxFrames`,
`MaxEvents`, `MaxKeys`) and only limit the environment and the clock. Timed
modules count ticks: what matters is the order of deadlines, periods and
timeouts, and the configurations keep the code's order (`RepeatDeadman` <
`RepeatGrace` < `ReleaseDeadman`, for example).

Deadlock is checked in every run but `client_threads`: there each program may
stop calling, and a lock that is never given back has to show as a violation of
`CallsEnd`. Modules that end have a stuttering step for the end only;
`ScoutEnded` also stutters where the modelled time is over, which the runs of
`move` do not reach: `CommandEnds` would be violated if they did.

### Punctual

`Teleop`, `TimedMove` and `WifiProvisioning` have a constant `Punctual`. When it
is TRUE the program's own steps take no time and time passes only while it
waits, which is what a bound such as "within one publish period" can mean for
a program on an operating system without real-time guarantees. `teleop_session`
runs without it.

## Fairness

* Every thread is scheduled: weak fairness of the publishing loop, the
  listeners, each worker, the teleop loop, the main thread, the Ctrl-C handler,
  the reader of a child's output, each caller.
* Time passes: weak fairness of `Tick` (strong in `ScoutCommand`, where
  `park_timeout` may return early any number of times, but not infinitely often
  in one instant).
* The code justifies that a thread is never blocked for good: accepts are
  nonblocking, reads have a 100 ms and writes a two-second timeout, condition
  variables are waited for with a timeout, `poll` has a timeout, clients have
  socket timeouts.
* Nothing is assumed of a child process or of one that inherited its pipe, of
  other programs in the picture directory, of the callbacks, the network, the
  DNS server, the robot, the keyboard, signals, the bridge's clients or whether
  a call fails. The bridge handles what it received in `ScoutClient`, because
  `BridgeControl` shows that it does.
* Python's lock is not fair; a caller waits for as many calls as the others
  make, and these are finite.

## What is proved

### The control bridge

`BridgeControlProofs` proves for every set of connections, requests, twists and
faults and every timeout and bound, from `BridgeAssumption` alone (the special
values differ from the ordinary ones, the maximum timeout is a positive
number):

| theorem | statement |
|---|---|
| `TypeCorrect` | `Spec => []TypeOK` |
| `PublicationFresh` | `Spec => []NoStalePublication` |
| `OwnerUnique` | `Spec => []SingleOwner` |
| `MotionOwned` | `Spec => []MotionBelongsToOwner` |
| `StopAcknowledged` | `Spec => []StopAckMeansStopped` |
| `ShutdownClean` | `Spec => []CleanShutdown` |
| `CommandIsOwners` | `Spec => LiveCommandIsOwnersToCancel` |
| `LeaseImplemented` | `Spec => ImplementsLease`, that is, `BridgeControl` refines `MotionLease` |

They rest on one inductive invariant, `IInv`. None of the properties is
inductive alone:

* `SingleOwner` needs to know that the listener holds no handle while it arms
  and spawns (`Ownership`), or a spawn would lose the previous worker's, and
  that the connection it spawns for is one that arrived (`ConnArrived`).
* `MotionBelongsToOwner` and `NoStalePublication` need `Armed`: whenever there is
  a deadline, the worker that set it is alive and set it at most `MaxTimeout`
  ago, and without one the command is zero. With `Ownership` this makes that
  worker the owner.
* `NoStalePublication` compares an instant that was sampled earlier with one
  stored later; `Looked` adds that the sample is not in the future.
* `StopAckMeansStopped` needs the same statement about a reply that is not yet
  written (`Acked`), because the motion mutex is released before the reply.
* `CleanShutdown` needs what holds at each step of the shutdown (`Closing`).

Each conjunct has its own lemma over the actions that can disturb it, and the
refinement is proved per actor with the invariant as an assumption:
every action of the bridge is one action of the lease or a stutter.

### The camera bridge

`BridgeCameraProofs` proves for every finite set of connections and any number of places,
requests and frames, from `CameraAssumption` alone (the connections are finite and
there is at least one place):

| theorem | statement |
|---|---|
| `TypeCorrect` | `Spec => []TypeOK` |
| `PlacesAreKept` | `Spec => []PlacesKept` |
| `FramesAreAsAsked` | `Spec => []FramesAsAsked` |

`IInv` joins two arguments, one about counting and one about order:

* The counter is changed by the listener before it decides and by a worker after
  it has ended, so that `PlacesMatchWorkers` holds only with the connection that is
  being decided about. To count it once, a connection the listener has not
  decided about may not be in the backlog twice nor have a worker already
  (`EachAdmittedOnce`); to stay within `MaxClients` after the spawn, there must be
  room before it (`RoomForWorker`). `TypeOK` itself needs this argument: the
  counter is decremented, and is a natural number because it counts a set with
  the leaving worker in it.
* A frame that has been picked is newer than everything the connection
  received (`NewerNext`), which makes the next element of `got` larger than the
  last (`FreshFrames`); a worker that answers holds a byte that was asked with
  (`NoUnaskedFrame`).

### Teleoperation

`TeleopProofs` proves from `TeleopAssumption` (deadlines, periods and scales are
positive numbers, the deadman of a repeat is not longer than the grace of a first
press, and no scale is below the lowest) for every set of axes, speeds and events:

| theorem | statement |
|---|---|
| `TypeCorrect` | `Spec => []TypeOK` |
| `SessionEndsWithZero` | `Spec => []EndsWithZero` |
| `CaptureStopsRobot` | `Spec => []CaptureStops` |
| `DeadmanStopsRobot` | `Punctual` implies `Spec => []DeadmanStops` |
| `KeyUpStopsRobot` | `Punctual` and no lost events imply `Spec => []KeyUpStops` |

The first three hold however long each step takes. `IInv` consists of

* `EndsWithZero` and `StoppedWhileSaving`, which are inductive with the types;
* `HeldIsUntil` and `SentWasHeld`: a direction that is published belongs to a key
  that is held and was handled after the last capture. `VelocityIsActive` is
  the lemma about the code's arithmetic behind it: the twist moves the robot
  only along directions whose key is active;
* `DeadlinesBounded`: no deadline is further ahead of the event it was given for
  than the longest deadman, so that late repeats, which get the long grace
  again, do not add up;
* `OnTime`: with `Punctual` no publication is late, so that the next one is at
  most one period away;
* `DeadlineNear` and `ReleaseNear`: while a direction is published, the publication
  that will end it (`NextBefore`) is no further away than the property allows.
  Neither property is inductive without it, as they only look at now;
* `ReleasesReported`: on a terminal that reports key-up, every press in the queue
  has its release behind it, so that a held key is down or will be released.

### The timed motion

`TimedMoveProofs` proves from `TimedMoveAssumption` (a positive number of
attempts, a positive highest rate that is at most a tick, times that are
numbers), for every set of requests, all limits and all faults:

| theorem | statement |
|---|---|
| `TypeCorrect` | `Spec => []TypeOK` |
| `MotionIsSafe` | `Spec => []MotionSafe` |
| `MotionIsInTime` | `Punctual` implies `Spec => []MotionStopsInTime` |

The inductive invariant `IInv` adds to the type of the variables:

* `Registered`: one publisher from its registration on and none before, and an
  attempt left wherever the next one may be registered. Without it `attempt`
  and `publishers` have no bound.
* `Validated`: past the validation there is a valid request and its twist. With
  `TwistIsMotion`, a lemma about the clamp, this is `MovesAsAsked`.
* `Reported`: which of the twist, zero and the two errors there may be at each
  place, so that `Finish` knows what it reports.
* `Signalled`: after Ctrl-C nothing is sent but what was decided on already, and
  nothing at all if the motion had not begun.
* `InTime`, for `Punctual` only: every sleep of the loop ends by the deadline,
  and after the handler has unparked the main thread its token is there, so
  that no time passes between Ctrl-C and the stop.

### The decoders

`MessagesProofs` proves for bodies of any size, any claimed length and any values
that `Decodes(b) <=> Whole(b)` (`DecodesIsWhole`): each decoder, a chain of bounded
reads, accepts exactly what a serialiser writes for an acceptable value, and
`WholeIsDelivered`: no limit of a subscription is too low for it. The lemmas say
where a read leaves the offset (`TakeStops`, `TakeVecStops`, `HeaderStops`).

### The other commands

`ScoutCommandProofs` has an inductive invariant for each part by itself, whatever
its constants, and lifts them to the whole command:

| theorem | statement |
|---|---|
| `CommandImplementsMove` | `ScoutSpec => Spec`, with the `Spec` of `TimedMove` |
| `CommandMovesSafely` | `ScoutSpec => []MotionSafe` |
| `CommandStopsInTime` | `Punctual` implies `ScoutSpec => []MotionStopsInTime` |
| `CommandAccountsForFrames` | `ScoutSpec => []FramesAccounted` |
| `CommandNamesFromWholeOutput` | `ScoutSpec => []NameFromWholeOutput` |
| `CommandReadingsAdvance` | `ScoutSpec => ReadingsAdvance` |
| `CommandKeepsPictures` | `ScoutSpec => PicturesKept` |
| `CommandFindsFirstMaster` | `ScoutSpec => []MasterIsFirstThatAnswers` |
| `CommandTypeCorrect` | `ScoutSpec => []ScoutTypeOK`, the variables of all parts |

A step of the command is a step of one part and leaves the others alone
(`MoveSteps`, `ReachSteps`, `RelaySteps`, `MonitorSteps`, `PictureSteps`, `LookSteps`); that alone
carries the invariants over. They say:

* `ReachInv`: there is an order of the listing (`Sorts`) of which the first k have been
  tried (`Tried`), without an answer but of the last. `Before` says that what the
  order puts before an address is what is preferred to it, and an injection of
  the first `MaxTried` into those counts them. The assumption that there are
  finitely many addresses is needed for the count.
* `RelayInv`: a frame in the queue is newer than the one being handled and than
  every image (`FrameNumbers`, `ImagesInOrder`), and what has been read of one
  counter bounds what the other will add (`Reading`): without it nothing
  could be said about a report that is read in two steps.
* `LookInv`: a reader that has ended had either passed the limit or read all that
  was ever written, and nothing is written after that (`ReadToEnd`); a name is
  there only where the lookup is over.
* `MonitorInv`: along queue, callback, snapshot and print the numbers of a
  sensor's messages only grow, and each is of that sensor.
* `PictureInv`: an unfinished file is the one being written, every saved
  picture has a file of its own (`SavedKept`), and the terminal is in raw mode only
  within the session (`TerminalKept`).

The frames that are forwarded or saved are whole by `DecodesIsWhole`. `LeastNumber`
(every nonempty set of numbers has a least one, from the well-foundedness of `<`) makes
sense of the model's `Min`, in the number of destinations and in the first Scout
mentioned. `IPv4First` is the set of stable orders, of which there is one: written
with `SelectSeq` nothing could be proved about it.

### The Wi-Fi setup

`WifiSetupProofs` proves from `WifiPasswordAssumption` and `WifiProvisioningAssumption` (of which the one that
says something of the world is that a whole reply of the robot tells what it decided)
and for every password, limit, timeout and number of addresses:

| theorem | statement |
|---|---|
| `TypeCorrect` | `SetupSpec => []SetupTypeOK`, with the bound on the password's bytes |
| `DefiniteAnswersAreTrue`, `SetupAnswersAreTrue` | `Spec => []DefiniteIsTrue`, and of `SetupSpec` |
| `DeadlineIsShared`, `SetupDeadlineIsShared` | `Punctual` implies `Spec => []DeadlineShared`, and of `SetupSpec` |
| `CredentialsAreAsGiven` | `SetupSpec => []CredentialsAsGiven` |

The invariant of the conversation, `IInv`, adds to the types:

* `AddressesLeft`: those tried and those left are together those found, without
  which `began.tried` has no bound;
* `SentAfterGreeting`: at every place before the write nothing is written, and from
  the greeting on the connection is the service's;
* `RobotReplied`: the robot decides on a whole request only, and what arrives is the
  reply of that decision. With `MeaningIsTrue`, a lemma about the two bytes and their
  frame, the result that is read is the robot's;
* `ResultIsTrue`: which results there may be at all when something was written, the
  strengthening of `DefiniteIsTrue` to before the report;
* `OnTime`, for `Punctual` only: an address is given up by the deadline and within
  its own share of the time since `connect` began.

A step of the command is a step of the conversation or leaves it alone
(`SetupSteps`), so that all this holds of the command. `ReadAsTyped` is the
invariant of the password: until something did not fit, what was read is what was
typed, and every edit is the same on both; `NothingSentBefore` orders the two.
`PasswordTypes` bounds the bytes: a line has as many bytes as entries, and
`LengthOfAppend` and `LengthOfFront` say what an edit does to `Length`, the
number of the bytes that the characters have.

### The clients

`ScoutClientProofs` proves for both languages, any number of threads, requests and
frames and all faults, from `ScoutClientAssumption` (no thread is called `Nobody`):

| theorem | statement |
|---|---|
| `TypeCorrect` | `Spec => []TypeOK`, with the discipline of the lock |
| `CallsMeanIt` | `Spec => []CallsMeanWhatTheyReturn` |
| `FramesAreWhole` | one thread implies `Spec => []WholeFrames` |

The runs check `CallsMeanWhatTheyReturn` with one caller; the theorem has no such
limit. Its argument:

* `WireIsReaders`: as long as the client is in step (`InStep`: no call was
  interrupted, no reply is missing, the connection was not closed) the wire is empty
  or carries one line or its answer, and that is the line of the thread that holds the
  lock and reads. This is where the lock matters, and why a client that has missed a
  reply must not read again: out of step nothing is known of the wire.
* `NoneWhenDown`: a bridge that went down answers nothing more, so that a failed read
  on a lost connection leaves the client in step.
* `NothingMoves`: since the last stop returned, no thread has a velocity under way
  and none is in the wire; with the answer of a stop goes that the robot stands
  (`WireIsReaders`), which is how it holds when the stop returns.
* `CallsKnown`: which calls may be at which place.

`FramesInStep` does the same for the camera connection: of one thread, at each
place of `read_jpeg` it is known what the connection has delivered or owes. It is
false of two threads, as the code has no lock there.

### Only model-checked

* Liveness (fairness and ENABLED are beyond the prover): `DisconnectFreesBridge`,
  `SignalShutsDown`, `RobotStops`, `RequestsServed`, `SignalEndsSession`, `CommandEnds`,
  `SetupEnds`, `CallsEnd`.

Every safety invariant and every action property of the passing runs is proved,
some of them from `Punctual` or `OneCaller`, as their runs check them.

## Findings

* **An abandoned camera request keeps its place** (`camera_reconnect`). A worker
  that waits for a newer frame looks at the generation and at `running`, never at
  its socket (`integration_bridge.rs:456`). `integrations/README.md:140-142`
  promises that a later camera request reconnects; while no frame arrives it
  can be refused although nobody is connected.
* **A direction outlives its key's deadline** (`teleop_deadline`). The loop waits
  for the next publication, not for a key's deadline (`main.rs:885`), so
  at a low legal rate a direction goes on for up to one more period;
  `docs/getting-started.md:493-495` speaks of 350 milliseconds. `DeadmanStops`
  is the bound that does hold.
* **A call interrupted by KeyboardInterrupt leaves its reply behind**
  (`client_interrupt`, `client.py:205`). Every later call of the Python client
  then returns the previous call's answer. `CallsMeanWhatTheyReturn` is stated
  for clients whose calls were not interrupted. An interrupted `close` leaves the
  client open, as it catches only the errors of its stop (`client.py:80-84`).

The model of `ScoutClient` also shows that `read_jpeg` in one thread may open a camera
connection after another thread's `close` has returned, and that two threads in
`read_jpeg` mix up their frames: only the control connection has a lock, and
nothing says that the camera may be shared. `WholeFrames` is checked with one thread.

## Not modelled

* What rosrust does inside a call. `CommandEnds` covers addresses of the master that
  are silent when `ros1::init` connects to them; a master that accepts the
  connection and then never answers XML-RPC is rosrust's to time out.
* Bytes and text: JSON, XML and HTTP parsing, the fields of a message and their
  byte order. A line is what its reader distinguishes, and a message its size,
  the length it claims and the values that are tested.
* The encoders (`encode_ros`, `encode_request`, the image of the republisher): they
  compute one value from another and neither fail nor keep anything.
* How a hardware identifier may be spelled (`normalize_mac`, `compact_mac`): an
  output is a sequence of words that are identifiers or not.
* Rounding of floating-point numbers: `Motion` clamps integers. Overflow of a
  duration or a number to infinity is a value that is not finite.
* The tables of topics and services, printed text, the parsing of the command
  line, of `.env` files and of `ROS_*` variables; that a URI or an address does not
  parse is a failing step of `RosConnect`.
* rosrust itself, crossterm, CPython and MATLAB beyond what is said above.
* The greeting's validation and the image decoding of the two clients.
* Packaging, continuous integration and documentation: they do not run.

## Plan

1. Done: `MotionLease`, `BridgeControl`, `BridgeCamera`, `Teleop`, `TimedMove`,
   `WifiProvisioning`, `WifiPassword`, `WifiSetup`, `ScoutClient`, `Motion`, `Messages`,
   `RosConnect`, `ScoutLookup`, `SensorMonitor`, `CameraRelay`, `TeleopPictures`,
   `ScoutCommand`; the proofs above.
2. A refinement between the wire of `ScoutClient` and the workers of
   `BridgeControl`, to replace the bridge's half in `ScoutClient`.
