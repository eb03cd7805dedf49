# A formal model of rebocap-linux-compat

The repository connects the Rebocap desktop app, a Windows program that runs
under Wine, to SteamVR on Linux. The app talks to SteamVR through a named pipe;
`bridge.exe`, inside Wine, relays that pipe over TCP to a native SteamVR driver,
which shows the app's trackers as devices, tells the app where the headset is,
and turns the app's walk-in-place speed into thumbstick input by hooking
SteamVR's driver interfaces.

This directory holds TLA+ modules translated from that code, TLC
configurations that check them on small instances, and proofs checked by the
TLA+ proof system. Paths below are relative to the repository (`src/` in
`PROJECT.json`).

## 1. The system

### Components, their state and their operations

| component | source | state | operations |
|---|---|---|---|
| BridgeClient, the driver's TCP client | `driver/src/net.hpp` | `stop_`, `fd_`, `generation_`, `queue_`, two mutexes, the read buffer | network thread: connect, back off, read, frame, close; owner: `connected`, `generation`, `send`, `drain`, `stop` |
| Provider, the frame loop | `driver/src/driver.cpp` 484-735, 990-1056, 1071-1101 | handshake flags, the universe in use, failures, clocks | `RunFrame` (generation check, drain, headset sample, `UpdateUniverse`, status, universe and pose sends) |
| Play space search | `driver/src/driver.cpp` 906-988 | none (reads files and properties) | `SearchUniverse`, chaperone parsing, pose conversion |
| Trackers | `driver/src/driver.cpp` 75-268, 581-594, 853-904 | status, position, `last_message_`, `timed_out_` of each | `AddTracker`, `OnPosition`, `OnStatus`, `CheckTimeout`, `Activate` |
| Walk-in-place, treadmill | `driver/src/driver.cpp` 270-398, 671-851 | the setting, speed, walking flag, time of the last `wip_info`; the controller's device and stick | `OnWipSetting`, `OnWipInfo`, `UpdateWalkInPlace`, `Treadmill::*` |
| Input hooks | `driver/src/input_hooks.hpp` | captured handles, real values, `overriding`, `written_*`, the pending list | four hooks on other drivers' threads; `ResolvePending`, `Drive`, `Remove` on the frame thread |
| Hand pose hook | `driver/src/pose_hooks.hpp`, `driver.cpp` 596-668 | the last hand pose of each hand and its time | `HookPoseUpdated` on other drivers' threads; `OnHandPose`, `FindHandControllers` on the frame thread |
| Vtable patching | `driver/src/vtable.hpp` | none | two `mprotect` calls and a copy |
| Protocol encoding | `driver/src/proto.hpp`, `proto/ReboTracker.proto` | none | `decode`, `encode_status`, `encode_position`, `encode_universe`, `encode_path_failed` |
| bridge.exe | `bridge/bridge.c` | the session: socket, pipe handle, `closing`; overlapped operations | main: accept, `open_pipe`, `sock_to_pipe`, tear down; reader thread: `pipe_to_sock` |
| Installer | `install.py` | installed files, SteamVR's list of drivers, the user's launchers | install, update, uninstall |
| Launcher | `install.py` 150-171 | `bridge.log` | starts bridge.exe and the app |
| Build scripts, tools, tests | `driver/configure.py`, `tools/`, `driver/test/` | - | - |

### How they interact

    Rebocap app --named pipe-- bridge.exe --TCP-- BridgeClient --queue/send-- Provider
                                                                               |  |  |
                                          SteamVR (headset, chaperone) --------+  |  +-- Treadmill, Trackers (devices)
                                          other drivers --hooks-- input_hooks ----+

* bridge.exe has two threads per session, joined by overlapped I/O, `shutdown`
  and `CancelIoEx`.
* BridgeClient has a network thread; everything else of the driver runs on
  vrserver's frame thread. They share `fd_`, `generation_` and `queue_`.
* The input hooks run on the threads of other drivers and share atomics, and no
  lock, with the frame thread.
* Provider learns of a reconnect only by comparing `generation()` with the
  number it saw last.

### What is hard, and what makes each part correct

* *BridgeClient.* The owner copies `fd_` and uses the number while the other
  thread may close it and the process reuse it; a partial write breaks the
  framing; `recv` runs on a blocking socket; `stop()` must return from any
  point. Correct: no wrong or leaked descriptor, nothing after a torn message,
  frames in order, calls return.
* *Provider.* Sends may be dropped, and the connection lost and remade between
  any two lines of a frame. Correct: the flags that suppress repeats never claim
  more than happened on this connection, and what the app must know reaches it.
* *Walk-in-place.* Messages come late or never, settings switch hand and output
  while walking, SteamVR activates the treadmill when it likes. Correct: only
  the selected output moves the player, and the player stops.
* *Input hooks.* Every load and store can interleave with two other drivers.
  Correct: a released stick carries no injected value; sticks are captured by
  role; real input comes back.
* *bridge.exe.* Either side can end at any step, also just as a thread starts an
  operation nobody will cancel. Correct: whole frames in order, none lost while
  both sides live, no handle used after it is closed, and the session ends.
* *Trackers.* Silence, reconnects, late activation, play spaces that change while
  poses expressed in the old one are still on their way. Correct: SteamVR shows
  what the app last said, or disconnected; and in the end a pose and the
  conversion applied to it are of the same play space.
* *Hand pose hook.* Another driver's thread reads what the frame thread writes
  field by field. Correct: no torn pose; the controller's own pose exactly while
  nothing replaces it.
* *Encoding, play space.* Boundaries of varints and blocks, messages of other
  versions, signs and orders of two conversions written in different places.
  Correct: what is meant arrives; the conversions undo one another.
* *Installer.* A run may be killed at any step. Correct: the next one that ends
  leaves one complete driver, whatever was there.

`PROJECT.json` lists every hazard with its line and the properties that cover it.

## 2. Modules

| module | models | built on |
|---|---|---|
| `Link` | what BridgeClient promises: numbered connections, sends that go out whole or not at all, a queue. The abstract specification. | |
| `BridgeClient` | both threads of `net.hpp`, the kernel's descriptors and the peer | refines `Link` |
| `BridgeClientProofs` | its theorems | `BridgeClient` |
| `Provider` | `RunFrame`, the handshake, `UpdateUniverse` | `Link` as its connection |
| `ProviderProofs` | its theorems | `Provider` |
| `InputHooks` | `input_hooks.hpp` | |
| `WalkInPlace` | `OnWipSetting`, `OnWipInfo`, `UpdateWalkInPlace`, `Treadmill` | `Link`; sees sticks as InputHooks leaves them |
| `WalkInPlaceProofs` | its theorems | `WalkInPlace` |
| `Bridge` | `bridge.c` | |
| `BridgeProofs` | its theorems | `Bridge` |
| `Trackers` | `Tracker`, `AddTracker` and the play space they use | `Link` |
| `HandPoses` | `pose_hooks.hpp`, `OnHandPose`, `FindHandControllers`, `vtable.hpp` | |
| `Codec` | `proto.hpp`, and the app's writer of `ReboTracker.proto` | |
| `CodecProofs` | its theorems | `Codec` |
| `PlaySpace` | the search of the chaperone data, the conversions, the direction of the stick | |
| `PlaySpaceProofs` | its theorems | `PlaySpace` |
| `Installer` | `install.py` | |
| `InstallProofs` | the theorems of the input hooks and of the installer | `InputHooks`, `Installer` |
| `MCDevices` | `Trackers` and `HandPoses` in one run | |
| `DevicesProofs` | the theorems of trackers and hand poses | `MCDevices` |
| `MCRelay` | `Bridge`, `Codec` and `PlaySpace` in one run | |
| `MCInstall` | `InputHooks` and `Installer` in one run | |
| `MCFrame` | two scenes of `Provider` for its liveness properties | |
| `MCWalk` | two scenes of `WalkInPlace` for the run `walk` | |
| other `MC*` | model values and bounds for TLC | |

`MCDevices`, `MCRelay` and `MCInstall` are disjoint sums: their parts share no
state, a behaviour is one of a part of them, chosen in the initial state, and the
other parts stay as they began. A property of a part holds trivially in the
behaviours of the others, and is checked in its own exactly as it would be alone.
(The parts of `MCRelay` other than `Bridge` have no liveness property.)

`MCFrame` and `MCWalk` keep a liveness run within reach by scenes, each of which
lets other things vary: a behaviour stays in the scene of its initial state
(`Within`), and every property is asked of all of them. In `MCFrame`, scene
`Headset` has one universe, a headset that comes and goes with its universe id,
and messages; scene `Universes` a headset that moves between two universes with
different play spaces, one always in the chaperone data and one that comes and
goes. Both have two connections, and the fallback on or off. In `MCWalk`, scene
`Outputs` has one hand's stick, the treadmill and a connection that may end;
scene `Sticks` the sticks of both hands, which differ also in the stick control,
and a connection that may be lost and remade. The second connection
of `Sticks` begins with no `wip_info` in the queue (`NothingLeftOver`; what
happens otherwise is finding 2).

Names follow the code; a variable ending in `_` is the member of that name.
`PROJECT.json` "map" gives the lines each definition stands for. Definitions
whose comment begins with "Mutant:" are deliberately wrong versions of the
definition that follows; no specification uses them. They are substituted, one
at a time, to show that each property can fail.

### BridgeClient and Link

`npc` is where the network thread is (`loop`, `socket`, `connect`, `wait`,
`backoff`, `announce`, `publish`, `poll`, `recv`, `parse`, then `lock`, `clear`,
`close`, `unlock`), `opc` where the owner is in a call of `send` or `stop`.
Every system call that can fail has its failure as an alternative. `sock` is the
process's descriptor table: `Other` lets the rest of vrserver open and close
descriptors, so that a number can be reused. A byte is a pair (frame, index), so
a frame read from the wrong offset cannot decode to itself. `decode()` is
abstracted to "the message, or `Garbage`"; `queue_mutex_` makes `drain` and
`push_back` atomic and each is one step. `phase` maps the state to `Link`:
announced once `generation_` is counted, up while `fd_` is set.

### Provider

One action per part of a frame, in the code's order, so that `Link`'s network
thread and SteamVR can step between any two. `L!Send(kind, value, ok)` is a call
of `send()`; `ok = FALSE` covers a full buffer, a failed socket and a torn
message. A play space is an opaque value and a pose is represented by the space
it was expressed in. The 1 s between searches and the 10 ms between poses are
choices (`NoSearch`, `NoHmdPose`). `universe_failures_` is kept modulo
`ReportEvery` above `FallbackAfter` (operator `Bump`), which is all the code
looks at. `SearchUniverse` is abstracted to whether the id is in `known`.
`universe_fallback_` is read once by `Provider::Init` and so is a variable that
`Init` chooses. Received messages touch none of this state.

### InputHooks

`sticks`, `real`, `overriding`, `written` and `pending` are the members of
`State`. Each atomic load or store the other side can see is a step: a hook is
`match` (find the stick, store the real value), `check` (load `overriding`),
`forward`; `Drive` is release, three pairs of load and write-back, steer,
engage, inject. `shown` is what SteamVR holds for a component. The direction of
a speed and the real deflection that turns it are carried along as `aim`.
`pending_mutex` makes the additions and the two ends of `ResolvePending` atomic.
A hook of one device is one call at a time, since a driver updates a component
from one thread.

### WalkInPlace

`inbox_` is what `RunFrame` has drained and not yet handled. `drive` is the
stick that is being driven, as `InputHooks` leaves it when `Drive` returns.
`treadmill_` is `None`, or a controller that SteamVR has added, activated or
deactivated; SteamVR may also refuse it (`Switched`). Time is counted in ticks
of one second (`Stale = 1`), with at least one output in each.
The direction of the stick is `PlaySpace`'s, and the part of `wip_setting` about
hand poses is `HandPoses`'.

### Bridge

`mpc` and `rpc` are the two threads. `rio` and `wio` are the overlapped read and
write: none, pending or cancelled. A frame on the socket is a header cell and a
payload cell, so that the client can be gone in between; a pipe message is one
element, as in message mode. `shut` is `shutdown(SD_BOTH)`, and `JoinTimeout`
the loop that cancels again every 100 ms while the reader has not exited. One
bridge serves clients one after the other, and the history of a session is
cleared when the next begins.

### Trackers

`tracker` is `None`, or the entry in `trackers_`: added, active or gone for
SteamVR, with `status_`, `timed_out_`, the time since `last_message_` (`age`), the
play space `pose_` was expressed in, and the one `qWorldFromDriverRotation` and
`vecWorldFromDriverTranslation` undo (`world`). `shown` is what `Submit` gave
SteamVR last. A frame is `BeginFrame`, then one step for each message, the check
of time-outs and `UpdateUniverse`, as in `RunFrame`; without a connection it only
checks time-outs. `heard` is the play space the app uses, which lags behind
`out["uch"]`. A position whose arrays have the wrong sizes changes nothing but
the status (the code would take the array that is right). Time is counted in
ticks of three seconds, with at least one check in each.

### HandPoses

`call[d]` is device d's thread in `HookPoseUpdated`: load `enabled`, compare
`device_index` of each hand, lock, replace under the lock, or pass through. The
frame thread writes position, rotation and conversion in three steps under the
same mutex, and stores the two indices found one after the other. `given` is what
the original function was called with last. `fresh` is the set of hands whose last
pose is not older than 500 ms, so that expiry is a step of its own.
`PatchVtable` succeeds or fails in `HandsInit` and `Unpatch`.

### Codec

`decode` and the encoders work on sequences of bytes as the code does; only the
widths are constants: `Word` for 2^64, `Half` for 2^31, `MaxGroups` for the 10
groups of a varint, `FloatLen` and `DoubleLen` for the bytes of a float and a
double. The two loops of `decode` are one: a turn of it (`ReadOn`) reads a field
of the message at hand (`Inside`) or the next entry of the payload (`Between`),
and every turn takes a byte, so that as many turns as there are bytes are enough.
The state machine is the *writer*: it puts
fields of the schema or of a later version of it, in any order, packed or not,
several messages one after the other, and remembers in `want` what they mean. A message
whose length would not fit a word is not written. Two messages of the same kind
in one payload are left out: protobuf merges them, the
driver takes the last, and the app sends one message at a time.

### PlaySpace

The search is a small state machine: sources come and go, `Search` is
`UpdateUniverse` as far as it looks things up. The geometry is in operators over
quarter turns and integer lengths, where the code's formulas are exact;
quaternions may have any length, since only their direction is used.

### Installer

One action per group of file operations of `main()` and `uninstall()`, and `Fail`
at any of them. `driver[h]` says how much of the copy in `--home` h is there, and
so whether SteamVR and the next run can read its name.

## 3. The runs

| run | what it asks | states | properties |
|---|---|---|---|
| `client_threads` | two descriptors, two addresses, two connections, two frames a connection, one longest and one too long, cut anywhere | 1.7 M | `TypeOK FdSafe NoLeak NoBlockingRecv FramesInOrder NothingAfterTorn ImplementsLink` |
| `client_live` | fair threads, unfair network | 12 k | `TornCloses CallsReturn` |
| `frame_safety` | everything SteamVR and the network can change inside a frame: headset, two universe ids, their play spaces; a report at every failed search | 4.6 M | `TypeOK HandshakeCurrent` |
| `frame_live` | the headset comes and goes, or moves between two universes while chaperone data come and go; sends dropped, two connections, fallback on or off | 501 k | `UniverseReachesApp ToldWithoutData StatusReachesApp` |
| `frame_moved` | a play space that changes under its id | violation | `UniverseReachesApp` |
| `hooks` | two controllers, both hands, a pending list of two; the installer with two homes, killed at any step | 645 k | `TypeOK OnlyDrivenStick CapturedByRole`, `RunMakesGood` |
| `hooks_return` | a stick with a touch sensor whose driver repeats its reports | 181 k | `RealReturns` |
| `bridge` | two frames that fit and one that does not, pipe messages good, malformed and too long, two a side; payloads of up to three fields and messages; two entries in three sources, all 24 orientations | 437 k | `TypeOK HandleSafe RelayedInOrder NothingLost SessionEnds`, `Understood SentAsMeant`, `ThereAndBack WalksWhereWaistFaces FirstSourceDecides` |
| `bridge_retry` | a client that leaves while the app is not running | violation | `RetryUntilDisconnect` |
| `devices` | a tracker over two play spaces and a connection that comes and goes; a controller, its hook and hand poses with and without a rotation | 218 k | `DevicesTypeOK SilentDisconnects StatusFollowsApp ConvertedAsSent`, `WholePoses ReplacedWhileDue` |
| `walk` | settings off, stick and treadmill, walking and not, a connection that may end; or settings of either hand, a connection that may be remade | 263 k | `TypeOK OneOutput StopsWithoutInfo WalkingEnds OutputFollowsApp` |
| `walk_reconnected` | a message that waits in the queue while the connection is lost and remade | violation | `StopsWithoutInfo` |

Symmetry is used in `client_threads`, `hooks` and `frame_safety`, which check no
liveness. Deadlock is checked except in the runs of `InputHooks`, where a
system without drivers' reports simply stops.

### What they show

* **FdSafe, NoLeak, NoBlockingRecv, NothingAfterTorn, ImplementsLink** - the
  order "lock, clear `fd_`, close" and the second look at `fd_` under
  `send_mutex_` are what keeps `send()` from writing into a reused descriptor;
  `shutdown()` instead of `close()` after a partial write is what lets the reader
  end the connection; counting `generation_` before publishing `fd_` is what
  makes a new connection visible under its own number.
* **HandshakeCurrent** - between frames `status_sent_` and `hello_sent_` are true
  of the connection whose number was read, in the order status, universe, even if
  the connection changed in the middle of earlier frames.
* **TornCloses, CallsReturn** - `send()` and `stop()` return, and a connection on
  which a message was cut does end.
* **StatusReachesApp, UniverseReachesApp, ToldWithoutData** - on a connection that lasts, the app ends up knowing the
  headset's status, after each change of it, and the play space of the headset's universe, in which the
  poses are, also when a new id replaces one that was in use; with no such data it gets
  the fallback, or is told, also when the first report was lost with an earlier
  connection.
* **OnlyDrivenStick, CapturedByRole, RealReturns** - whatever hooks run during a
  release or a change of hand, no injected value stays behind, and the races that
  do exist heal with the driver's next report.
* **RelayedInOrder, NothingLost, HandleSafe, SessionEnds** - in
  particular a `ReadFile` issued just after the cancellation is cancelled again
  by `Join`'s loop, so that main never waits for ever and never closes a handle
  in use.
* **OneOutput, StopsWithoutInfo, WalkingEnds, OutputFollowsApp** - switching the
  output releases the old one, a treadmill activated late starts at rest and then
  follows, a setting that differs from the last one only in hand and stick control
  takes effect, silence stops the player (but see finding 2).
* **SilentDisconnects, StatusFollowsApp** - three seconds without a message that
  arrived show a tracker as disconnected, also when it is the connection that
  ended or nothing ever came, as long as no message waits in the queue while the
  app connects again (finding 2); and whatever time-outs and revivals happened, the
  status the app repeats is the one shown.
* **ConvertedAsSent** - a recentre changes the play space in the driver a frame
  before the app hears of it. Poses in between are shown with a conversion that is
  not theirs; the property says that this heals.
* **WholePoses, ReplacedWhileDue** - a replaced pose is what the messages received
  make together and never half of one; the controller's own pose is back after
  the poses stop, the switch, a change of role or the removal of the hook.
* **Understood, SentAsMeant** - the hand-written codec agrees
  with the schema in both directions, and takes no part of a message for a whole
  one.
* **ThereAndBack, WalksWhereWaistFaces** - the conversion of the headset's pose and
  the one of trackers undo one another for every yaw and translation, and the
  stick is turned so that the player goes where the waist faces in the game's
  coordinates. **FirstSourceDecides** - the sources are asked in order, and a
  malformed one does not hide the next.
* **RunMakesGood** - after any sequence of runs cut off anywhere, homes
  deleted and copies rebuilt without registration, SteamVR finds at most one copy,
  and a run that gets to its end leaves it complete. That a copy is also
  recognised by its folder's name is what makes this so.

### Findings

1. `bridge_retry`: `open_pipe` notices the end of the client by a `MSG_PEEK` that
   returns 0. While bytes that the client sent are unread the peek returns them,
   so a driver that sent its handshake and left keeps the bridge, which serves
   one client, waiting until the app starts.
2. `walk_reconnected`: the queue survives a lost connection and `OnWipInfo`
   stamps a message with the time it is handled, so an old `wip_info` moves the
   player for up to a second after a reconnect. `OnPosition` and `OnStatus` do the
   same: an old message brings a silent tracker back for up to three seconds.
3. `frame_moved`: a play space that changes under the same universe id is not
   sent again.

### Bounds, and why they are enough

* Descriptors: 2, so that a number can be free, the client's or someone else's
  while the client holds the other. Addresses: 2 (first fails, last fails).
* Connections (`MaxGen`): 2, because the code compares a generation only with
  the last one it saw. With two, the old messages of finding 2 violate
  `StopsWithoutInfo` and `SilentDisconnects`: `walk` has two in the scene `Sticks`,
  where none is left over, and one in `Outputs`; `devices` has one, so that what
  `StatusFollowsApp` says of time-outs and rejections is checked on a first
  connection only; `walk_reconnected` has two. The theorems `Stops` and `Disconnects` have no such
  bound: they name the left-over message as the only exception.
* Lengths: 4 bytes of header and 65536 of payload become 2 and 1; the parser
  compares with both and does nothing else with them. An accepted frame is cut in
  the header, in the payload and at its end, and may arrive with the start of the
  next.
* `ReportEvery` and `FallbackAfter`: 30 and 3 become 2 and 2, so that some failed
  searches report and some do not; 1 and 1 in `frame_safety`, which asks nothing
  of reports.
* Universe ids: two, with two play spaces, so that the id in use can be the
  headset's, another one or none; `frame_safety` and the scene `Headset` have the
  absence of an id too. The theorem about `HandshakeCurrent` has no such bound.
* What the headset, the universes and the chaperone data do is divided between the
  two scenes of `frame_live`; `frame_safety` has changes of the headset, the id and
  the play spaces together, without received messages, which touch none of this
  state.
* Hands: two in the scene `Sticks`, one beside the treadmill in `Outputs`.
* Pending components: 2 and 1 instead of 64, so that the list overflows.
* Bridge: pipe and socket hold one message each, so that both block; two
  messages a side, so that order and the state after the first are visible.
* Speeds: `walk` receives one above the limit with `WALKING` and full with
  `STOP_WALKING`, `walk_reconnected` full with `WALKING` and 0 with `STOPPED`. The
  direction a speed takes is `PlaySpace`'s.
* Trackers: one, since they share nothing; the statuses `OK` and `DISCONNECTED`,
  since the code keeps and shows every status alike; two play spaces, so that there is an
  old one and a new one; one connection after none, lost at any time; one message
  waiting, handled any time later. The time-out is one tick.
* Hand poses: one controller whose role changes at will, so that a call is under
  way while everything else changes; messages with a rotation and without.
* Codec: three fields or messages in a payload, so that one comes before and one
  after another; integers of 8 bits in words of 14 (two groups of a varint), with
  -128, -1 and 127; lists of 1, 3 and 4.
* Play spaces: yaws of a quarter and a half turn, one translation with all
  components different, every orientation of quarter turns except half turns
  about an axis between two others (`Borderline`), where the signs of the code's
  quaternion hang on differences that are exactly 0.
* Chaperone data: two entries in all, so that one may precede or follow another in
  one source or in two.
* Installer: two homes.

### Fairness, and why the code justifies it

* Threads run: weak fairness of the network thread's, frame thread's and bridge
  threads' own steps. Nothing is assumed of peers, except where stated.
* `SF(Lock)`, `SF(SendLock)`: a mutex goes to a thread that finds it free again
  and again. `SF(RecvData)`, `SF(RecvEnd)`: a `recv` with data is not interrupted
  by signals for ever.
* Provider: vrserver calls `RunFrame` again and again, and a frame ends. Searches
  are held back by a clock only, so they do not stay away for ever: strong
  fairness of a search, whatever its result. The liveness properties say
  themselves which sends they need: strong fairness of the successful send of a
  kind, on a connection that lasts. A send is dropped only while the socket buffer
  is full; a pose is held back by a clock besides.
* WalkInPlace: vrserver calls `RunFrame` again and again, and time passes. The
  hypothesis of `OutputFollowsApp` is that one setting and one state arrive again
  and again, and no others, which is what the app does (every 2 s,
  `docs/protocol.md`).
* Bridge: a connected client and an app whose pipe is open read what they are
  sent. Without this a full pipe blocks main in `WriteFile`, and
  `SessionEnds` would depend on the app.
* Trackers: vrserver calls `RunFrame`, time passes, the app takes over the play
  space it is told; a send that is repeated in every frame goes through at last.
  That the app goes on sending is a hypothesis of the two liveness properties.
* HandPoses: calls that have begun end, controllers report their poses, the frame
  thread looks for controllers every second until the driver is removed.
* InputHooks: calls that have begun end; `RealReturns` also assumes drivers that
  repeat what they have reported, which controllers do every few milliseconds.

## 4. Proofs

All theorems hold for every value of the constants that the modules' assumptions
allow, and so for any number of descriptors, frames, controllers, trackers'
messages, homes or connections. `PROJECT.json` lists the theorems and, where a run
checks the property too, its name.

The assumptions (`ClientAssumption`, `ProviderAssumption`, `HooksAssumption`,
`WalkAssumption`, `BridgeAssumption`, `TrackersAssumption`, `HandsAssumption`,
`InstallerAssumption`, `PlaySpaceAssumption`, `CodecAssumption`,
`VarintAssumption`) say that bounds are numbers, that a
sent message has the fields of its type in `ReboTracker.proto`, and that markers
such as "no hand" or "none" are not among the values they stand beside. Those of
`Codec` say that a word holds the code's 32-bit integers a whole number of times,
that `MaxGroups` groups are enough for a word, and that the lengths the encoders
write as one byte are less than 128, all of which the code's own 2^64, 2^31, 10, 8
and 4 satisfy. TLC evaluates the assumptions in every run.

Few of the properties are inductive. Each module has an invariant that
implies them (`IInv`; for trackers the types and `SilenceInv`), shown to hold
initially and to be kept by a step, split by action.
TLC checked every such invariant before it was proved, on the instances of the
runs or larger ones (0.2 to 3.4 million states), except `CodecInv`, which speaks of
every sequence of bytes that may follow.

`BridgeClientProofs`: `TypeCorrect`, `FdSafety`, `LeakFreedom`, `RecvReady`,
`TornIsLast`, `Refinement`, `InOrder`.
`FdSafe` needs that the owner's copy of `fd_` is current while it holds the mutex
(`OwnInv`), which needs that only the holder of the mutex clears `fd_`
(`MutexInv`, `PubInv`) and that the network thread keeps the socket open until
then (`HoldInv`). `TornInv` says that a torn connection is shut down or about to
be by the thread that still holds the mutex, and gives `TornIsLast`. `AddrInv` and
`GenInv` close the type of the address and of the counter. `Refinement` maps every
step to a step of `Link` or a stutter: `Announce`, `Publish`, `Clear` (Hangup), the
decoded message (Receive), `Drain`, and the whole or cut write (Deliver, Tear).
`InOrder` (frames are decoded in order, none skipped) is about the contents of the
buffer: `StreamInv` gives each sent frame an offset in the stream (`Offsets`) and
says that the bytes in the buffer and on the wire are those of the frames not yet
decoded, from the offset of the next one. A frame is then decoded at its own
offset (`FrameRead`), wherever reads cut the stream.

`ProviderProofs`: `TypeCorrect`, `HandshakeSafety`, `UsesLink`. The invariant says
what the two flags mean at every step and not only between frames: `hello_sent_`
may be out of date exactly between a status and the universe that follows it in
the same frame (`fpc = "hello"` with `status_due`). A new connection makes both
conjuncts vacuous until the frame thread reads its number, which resets the flags.

`UsesLink`, in `ProviderProofs`, `WalkInPlaceProofs` and `DevicesProofs`, is the
other half of the composition: every step of the component is a step of `Link` or
leaves the connection alone. With `Refinement`, what holds on `Link` holds of the
real client.

`InstallProofs`, for the input hooks: `TypeCorrect`, `CapturedOnce` (`CapturedByRole`) and
`ReleasedIsReal` (`OnlyDrivenStick`). `ListInv`: a component is in one of the
pending list, the work list and the kept ones, once, and not captured yet;
`FreshInv`: only created components no longer on a list carry an injected value;
`StickInv`: what `overriding` is at each step of `Drive`; `DrivenInv`: which
captured component may carry an injected value - those of the stick driven and,
during a release, those that the loop has not written back yet. Hooks on other
threads may step at any of these places.

`WalkInPlaceProofs`: `TypeCorrect`, `OneMoves` (`OneOutput`), `Stops`
(`StopsWithoutInfo`), `FirstConnection`, `UsesLink`. `TreadmillInv`: the treadmill
is marked connected while it is selected, and rests until it is activated; `OutputInv`:
after an update with stale information nothing moves. `StopsWithoutInfo` counts the
time since a message *arrived*, the code since it was *handled*; `AgeInv` relates
the two clocks through inbox and queue. This fails for messages that wait while the
app reconnects, so `Stops` assumes `[]NothingLeftOver`: no connection begins with a
`wip_info` in the queue. `FirstConnection` shows that the hypothesis holds
throughout the first connection, and `walk` assumes it of the second.

`BridgeProofs`: `TypeCorrect`, `HandleSafety`, `InOrder` (`RelayedInOrder`),
`Complete` (`NothingLost`). `ReaderInv`: the reader runs exactly from `OpenPipe` to
`Join`, with pipe and socket there; `ClosingInv`: by when `closing` is set, and
that a write is pending or cancelled only while main waits for it; `FreshInv`: an idle bridge has no
history; `BufferInv`: what each thread holds in its buffer; `CellsInv`: headers and
payloads alternate on the socket; `FramesInv`, `MessagesInv`: what was sent is what
was received, what is in hand and what is queued, in this order, without what the
bridge refuses. The lemmas about `Only` (filtering) take a least
counterexample (`Least`), because the library's induction theorems cannot be
instantiated here.

`DevicesProofs`: for trackers `TrackersTypes`, `Disconnects` (`SilentDisconnects`) and
`FirstConnection`, with the same hypothesis as `Stops` for the same reason: `ReadInv`
says how old a message in the inbox or queue can be, `AgeInv` that a tracker
not shown as disconnected has heard of something since. For the hand poses
`HandsTypes` and `NeverTorn` (`WholePoses`). `LockInv`: the mutex of a hand is held
by the frame thread exactly while it writes that hand's pose, and by a hook while it
replaces a pose with it, one at a time; `PoseInv`: the pose in memory is the one
received, or what has been written of the next one. `TypeCorrect` is about both, as
`MCDevices` puts them together (`DevicesTypeOK`).

`PlaySpaceProofs`: `SearchInOrder` (`FirstSourceDecides`; any number of entries),
`PositionsReturn`, `PosesReturn` (`ThereAndBack`) and `WalksAhead`
(`WalksWhereWaistFaces`), for every play space of an integer translation and a yaw of
quarter turns and for every integer position. A play space in use is one that a
source gave (`PlayTypes`). The argument about rotations: the code's quaternion of
each exact orientation is one of that orientation, in each of the cases
(`QuaternionFits`, which is false for the others: `Borderline`); what
`SendHmdPose` does to a quaternion of any length turns its matrix by minus the yaw
(`TurnedQuaternion`), which is a polynomial identity; and what `OnPosition` does
turns it back (`RotationReturns`). `FloorForward` takes the direction of the waist
out of the turned quaternion (`ForwardLevel`), `Reference` turns the other direction
alike (`ReferenceTurned`), and the difference of two directions on the floor does
not depend on the turn they share (`WalksForward`).

`InstallProofs`, for the installer: `MakesGood` (`RunMakesGood`). `JobInv`: what
each step of a run is for; `BuiltInv`: a copy is registered only when complete;
`CopiesInv`: SteamVR's list names at most one copy, and which; `PathsInv`: the
launchers not yet replaced are still to do.

`CodecProofs`: `UnderstoodAlways` (`Understood`) and `SentAlways` (`SentAsMeant`), for
payloads of any length. `decode` is a recursive function over the bytes, and the
library's induction theorems cannot be instantiated here: that such a function
exists, and what its last value is, is shown by the least number at which it would
fail. The argument goes from small to large. A varint that was written is read as
the number it was (`VarintComesBack`). What a reader takes from a sequence it takes
alike whatever bytes follow (the `...Local` lemmas). So each field the writer can
put is one turn of the loop that sets its member and leaves the rest
(`FieldComesBack`), and an entry of the payload cut short is an error (`CutTurn`).
`Reaches` chains turns, and `DecodeIs` says that `decode` gives the state its turns
end in. The invariant `CodecInv` is that the payload leads the loop to what the
finished messages say (`Meant`), the body to what the open message says (`Saying`),
and a payload cut anywhere but at the end of a field to an error (`Cuts`).
`SentAlways` also needs what a message of a kind can say (`Shape`): a status has no
member that `encode_status` leaves out but the battery.

Only model-checked:

* Liveness (`CallsReturn`, `TornCloses`, `StatusReachesApp`, `UniverseReachesApp`,
  `ToldWithoutData`, `RealReturns`, `SessionEnds`, `WalkingEnds`, `OutputFollowsApp`,
  `StatusFollowsApp`, `ConvertedAsSent`, `ReplacedWhileDue`): fairness is out of the
  prover's reach.

Every invariant that a passing run checks is a theorem, `StopsWithoutInfo` and
`SilentDisconnects` under the hypothesis named above.

## 5. Not modelled

* *FindDefaultChaperonePath*: a look-up of environment variables and one file,
  once, before anything runs.
* *Launcher*: a shell script that starts two programs and watches a log for ten
  seconds. Its first look may see the log of the last run.
* *Installer*: what every run only overwrites (bridge.exe, the build directory,
  the Wine prefix, `rebocap.sh`) and the contents of files. SteamVR started while
  an install runs, which the installer rules out only at its start, is left out
  too, since what SteamVR then writes is not in this code.
* *NoteUnknownId*, logging, device properties, icons and battery.
* *Details of modelled parts*, each about no property here: `decode` narrows a tag
  to an int before it looks at it (`proto.hpp` 175, 188), which changes no valid
  tag; a socket closed with unread data resets the connection, and `RecvFails` of
  `Bridge` is not one of its causes; which device `UpdateWalkInPlace` takes as the
  reference of the stick's direction; a treadmill activated a second time. And
  the rate of `path_failed`: `docs/protocol.md` line 50 says about once per 30
  frames, the code reports once per 30 failed searches, which are at least 1 s
  apart. The model has the code's count, and the properties ask only that the
  report comes.
* *Angles* other than quarter turns, and rounding: the formulas are the same, TLC
  has no real numbers.
* *Build scripts, tools, tests*: not part of the running system. The tests were
  read for the behaviour they expect.
* Failures of `CreateThread`, `CreateEvent` and `SetNamedPipeHandleState` in
  bridge.exe, and allocation failures, are left out.

## 6. Plan

Every component that keeps state is modelled, and every invariant is a theorem
(section 4). What is left, in this order:

1. `NothingLeftOver` as a question to the code: a `drain` when the generation
   changes would make it an invariant; the model of that change is one line of
   `Link`, and `Stops` and `Disconnects` then hold without a hypothesis.
2. `Refinement` and `UsesLink` composed: the frame thread of `Provider` on the
   client of `BridgeClient`, whose owner makes one call at a time.
3. The safety parts of the liveness properties (what must stay true between the
   cause and the effect), so that TLC's runs rest on proved invariants.
