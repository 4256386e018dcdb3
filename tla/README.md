# Appium grid: a verification project

TLA+ models of the Appium grid in `src/packages` (a hub, and an Appium plugin
that turns an Appium server into a node of the hub), TLC runs that check them on
small instances, and TLAPS proofs about the core for every size.

## 1. The system

| Part | State it keeps | Operations | Talks to |
|---|---|---|---|
| Distributor (`hub/src/automation/distributor.ts`) | one `createNewSession` frame per request, a lock | find a node and device, pool it, proxy `createSession`, answer | NodeManager, pool, SessionManager, ExecutionController |
| Device pool (`automation/blocked-device-pool.ts`) | map `node:udid` to device | add, remove, has | Distributor |
| NodeManager and Node (`hub/src/nodes`) | node id to Node; a Node has `isActive`, its devices and a wdProxy; a device has `busy` and `activeControlUser` | add a node, set offline, add, remove, block and unblock devices, start and stop control | everything in the hub |
| SessionManager | session id to (node, device) | add, get (no removal) | WdController, SessionController |
| WebDriver endpoint (`server/express/webdriver`) | none of its own | new session, guard, proxy, DELETE | Distributor, NodeManager |
| Hub socket handlers (`server/socket/services/hub`) | per connection: queued calls | register, device and session messages, disconnect; `wd:execute` with acknowledgement and timeout | nodes |
| Stream endpoint (`server/socket/services/stream`) | rooms, one lock for all clients | start stream with or without control, proxied commands, disconnect | NodeManager, the node's socket |
| Plugin core (`plugin/src/plugin`, `device-manager.ts`, `socket`) | device map with `busy`, socket, event emitters | hook `createSession`, announce devices, register on every connection, forward commands to Appium over HTTP | hub, Appium |
| Trackers (`plugin/src/device/trackers`) | devices seen, abort controllers, poll timer | device added, removed | adb, go-ios, simctl, device manager, remote control |
| Stream controller and Android remote control (`plugin/src/socket/controllers`, `device/remote-control/android`) | per device: stream, control, logs and shell flags, listeners, scrcpy socket | start and stop each, commands, install | device manager, hub's streams |
| iOS remote control (`device/remote-control/ios`) | per device: `started`, `sessionActive`, `sessionId`, the driver, its lock; decoder and flags of the stream | start WDA, create a session, ask who has the session, stream, control, quit | WebDriverAgent (WDA) on the device, go-ios, the stream controller |
| Scrcpy server, APK installer, MJPEG decoder, port allocation | a process on the device; a process and a flag; bytes and offsets; the ports handed out | one algorithm each | the remote controls |
| Login, pagination | rows of the database; none | issue and verify tokens; page numbers | - |
| Database, configuration, logging, express set-up | none after start-up | - | - |

Hub and plugin are Node.js processes: no data races, but every `await`, timer,
HTTP call and socket message is a point where other handlers run. The hard
behaviours are (`PROJECT.json` "hazards" lists them line by line):

* the flag that protects a device changes hands three times (busy in the lock,
  the pool, busy again through messages of the node), while registrations,
  DELETEs and disconnects rewrite it;
* a socket breaks with commands, answers and block messages under way; the hub
  notices late, even after the node is back on a new socket;
* timeouts give up on work that goes on (the 180 s search, the two-minute call), and
  a rejection or an exception that nobody handles ends the whole process;
* clients leave at any moment; requests that lost their client still own a device;
* state is read before a lock is awaited and used inside it (streams), or checked
  before a series of awaits and set after it (trackers, installer, login).

What makes each part correct: a device is given to one request at a time and is
released with its answer (distributor, pool); every request is answered; two
Appium sessions never share a device (hub and plugin together); a registered node
that is connected is active; control of a device has one owner, who is there;
trackers announce a device once and never one that is gone; remote control takes WDA
from no test and knows whose session it is; one scrcpy server and one installation
run on a device; ports are handed out once; pictures arrive whole and in order.

## 2. Modules

| Module | Models | Status |
|---|---|---|
| `Lease` | the abstract promise: a device is leased to one request at a time, a request is served once | checked through `Hub`, proved |
| `Hub` | Distributor, pool, NodeManager, SessionManager, WdController, hub socket handlers, with nodes and clients as an open environment | checked and proved |
| `HubProofs` | inductive invariant and theorems about `Hub` | proved |
| `Grid` | `Hub` closed with the plugin and the socket between them | checked and proved |
| `GridProofs` | the grid implements the hub; inductive invariant and theorems about `Grid` | proved |
| `StreamHub` | the hub's stream endpoint: rooms, owner of control, the lock; the node as an open environment | checked and proved |
| `StreamProofs` | inductive invariant and theorems about `StreamHub` | proved |
| `RemoteControl` | the plugin's stream controller with the remote control of one Android device and its web sockets | checked and proved |
| `RemoteProofs` | inductive invariant and theorems about `RemoteControl` | proved |
| `AndroidTracker` | Android tracker, DeviceManager and RemoteDeviceControlManager, between adb and the hub | checked and proved |
| `TrackerProofs` | inductive invariant and theorems about `AndroidTracker` | proved |
| `IosControl` | remote control of one iPhone: `WdaProxy`, `IosRemoteControl`, its entry in RemoteDeviceControlManager and the handlers of the hub's messages | checked and proved |
| `IosProofs` | inductive invariant and theorems about `IosControl` | proved |
| `IosTracker` | the polls of the iOS tracker on a Mac | checked |
| `Ports` | `getFreePort` | checked and proved |
| `ScrcpyServer` | the start of the scrcpy server of an Android device, overlapping starts included | checked and proved |
| `ApkInstaller` | the installation of apps on an Android device | checked and proved |
| `PartsProofs` | inductive invariants and theorems about `Ports`, `ScrcpyServer` and `ApkInstaller` | proved |
| `MjpegDecoder` | the splitter of WDA's MJPEG stream | checked and proved |
| `DecoderProofs` | inductive invariant and theorems about `MjpegDecoder` | proved |
| `MCHub`, `MCGrid`, `MCStreamHub`, `MCParts` | the small instances; `RemoteControl`, `AndroidTracker` and `IosControl` need none, their configurations give the bounds | - |

The modules meet at messages. `Hub` lets a node say anything and control begin
and end at any time (`DeviceControlStarted`, `DeviceControlStopped`); `Grid`
closes the first with the plugin, `StreamHub` is the detail of the second.
`RemoteControl` accepts every message in every order, those of `StreamHub`
among them, and so does `IosControl`. `AndroidTracker` and `IosTracker` are where the
plugin's devices come from that `Grid` registers. `ScrcpyServer` is the detail of
the `initialize()` that `AndroidTracker` awaits, `ApkInstaller` of a message that
`RemoteControl` leaves out, `MjpegDecoder` of the stream in `IosControl`, where it is
only live or aborted; `Ports` serves both remote controls.

### Hub

Each variable is a field of the code (see the comments at its declaration).
`pc[r]` is the point at which `createNewSession` of request `r` stands;
everything between two awaits is one action. `FindNodeForCapability` is the body
of the lock, `AddDeviceToPool` the continuation behind it, `FindTimeout` the 180
s of `asyncWait`, `CreateSessionTimeout` the two minutes of the call. `conn` and
`via` keep the connection (and with it the Node object and its
ExecutionController) a call was made on, since a disconnect resolves only the
calls queued on that connection.

Event loop. `NewTurn` says that a promise that is already resolved is continued
before the next message, request or timer: between `device.block()` in the lock
and `addDevice()` only other continuations run. How many turns it takes to get
the lock is left open. `ExecuteLock` is in a package that is not part of the
repository; that it runs one function at a time is assumed. The operations of
NodeManager that handlers start without awaiting them take effect with the
handler; the snapshot `getAllNodes()` and the search in it are one step, since
nothing but continuations could run between them.

The end of the hub. A call to a node that is not acknowledged in two minutes is
answered with 500 and then ends the hub: `processWdCommandResponse` goes on to read an
answer that is not there, and the `TypeError` is a rejection that nobody handles.
`CreateSessionTimeout` and `DeleteTimeout` do both; `CommandTimeout` is the timeout of any
other call, of a command to a session or of a call that a disconnect had answered already,
whose timer nothing stops (`hub = "owing"`). After it no action is possible. That an
unhandled rejection or an uncaught exception ends the process is what Node.js does since
version 15 unless told otherwise, and the repository does not; it is assumed of the plugin,
which runs in Appium's process, in `AndroidTracker` and `RemoteControl`, too.

A node may send every message at every time (`NodeMessage`), with any devices and
flags, and a client may go away or DELETE at any time. What is proved of `Hub`
therefore does not depend on the plugin.

### Grid

The plugin's DeviceManager (`pdevice`, `pbusy`), the commands on their way to
Appium (`creates`, `received`), the Appium sessions (`app`) and the socket:
`toHub[n][g]` are the messages under way on connection `g`, in order. `link` is
the plugin's idea of its connection, `conn` the hub's: the plugin may be back on
connection 2 while the hub still holds connection 1 open. What was not delivered
is lost with the connection; what is emitted without one is buffered by the
socket.io client and sent before the registration. An acknowledgement counts only
on the connection of its command; a late one is dropped (`Outdated`). Messages of
older connections that were not delivered are cleared when a new one begins, and the
plugin may announce a device as soon as the hub has handled its registration, a little
before its acknowledgement; `notifyDeviceUsedForSession` is left out, since the device it
looks at is the one the hub asked for.

A createSession that was forwarded to Appium over HTTP outlives its socket:
`received` and `app` survive `LoseConnection`. After a session
the driver refused, `OnSessionRefused` sends UNBLOCK_DEVICE with an object where a udid is
read, so the device stays blocked at plugin and hub, as it does in the code. A session has the name of the
request that made it.

### StreamHub

`sock` are the browsers' sockets, `room` the stream room of a device. A Node object is
numbered by the registration that made it and a GridDevice by the plugging: `node` and
`object` are the ones in NodeManager's maps now. A start keeps what it has read before
the lock (`starting`: Node, GridDevice) and uses it inside (`StartStream`,
`RefuseStream`); the handler of a disconnected client (`leaving`) counts the room and
stops the stream in two steps of one holder of the lock (`LeaveEmptyRoom`, `StopStream`,
`DeviceControlStopped`), since the code awaits between them. A start may get the lock
when its client has disconnected, and nothing looks: whether `join()` then puts the dead
socket into the room depends on the version of socket.io, and whether it gets the lock
before the client's own handler on the order of the lock, so both are left open, and
`ghosts` remembers such clients. `Viewers(d)` are the connected ones in a room, and only
they count as watching. `owner` is the activeControlUser of every GridDevice, also of
those that were replaced. In which order the lock is granted is left open. `told` is the
last stream command sent for a device on a node's socket.

### RemoteControl

One lifetime of one controller, from its entry in RemoteDeviceControlManager to its
removal (`registered`). `sstate` is the readyState of every web socket to the scrcpy
server the controller has made, `ws` the one it holds; a socket that was closed
keeps its listeners and sends its close event whenever the handshake ends
(`SocketCloses`), whatever happened since. A socket closed while it still connects is
`aborted`, and its close event comes before any other event. The open event sends on the
socket the controller has by then; on one that still connects that throws and ends the
plugin (`ended`). The handlers take the plugin-wide lock;
`stage` is how far a STREAM_START is that has it, for startStream waits for a second
lock. The device goes, and sockets open and fail, without any lock. Since the
hub may send every message at every time, and the lock is granted in any order, the
messages that wait for it are no state.

### AndroidTracker

A call is one run of `newDeviceConnected` from adb's add event or from the list of
devices; its number stands for the Device it makes as well. `phase[c]` is where it
is: `waiting` before it looks at its abort signal, `asking` while adb answers,
`reading` the properties, `read` when they are there. Any of this may fail, also for a device
that is there (`GiveUp`, `ReadFails`); the error is swallowed, and `swallowed` remembers the
call. `abortControl` maps a udid to
the call whose controller is in the map, which a later call of the same device
replaces and `cancelAbort` drops whosever it is. `events[d]` are adb's events that
the tracker has not seen; `StartTracker` is the end of adb's tracker and the
next one, which reports what is there; if there is no next one, nobody handles the rejection
and the plugin ends (`NoTracker`, `ended`). `Announce` is what `device_connected` does
at once (the cache, the message to the hub) and `Initialized` what comes after the
awaited `initialize()` of the remote control.

### IosControl

The controller is a service of the container of the device's udid, so one object (and
one `WdaProxy`) serves every plugging of the device. What the tracker says of it is not
what is true of it: `plugged` is the device, `known` the tracker's cache.
`DeviceConnected` and `DeviceRemoved` come in any order and at any time, since polls
overlap: a device may be announced twice, withdrawn while it is there, or go and come
back unnoticed. `init[n]` is the `initialize()` of announcement `n`, `stopping` counts
the `stopAll()`s under way, `entry` is the controller in the manager's map. A creation
is one run of `createNewSession`, the one of an `initialize()` or one for control; its
number is the identity of its driver and its session as well. `phase[c]` is how far it
is: `queued` at the proxy's lock, `starting` WDA, `driving` createSession, `reading` the
id of the session. `active` is the session WDA has: a creation's, a test's
(`TestBegins`; tests get WDA's URL from `updateCapability`) or none. `stage` is the
request to WDA's status that the handler with the plugin-wide lock waits for: three in
`isControllSupported` with its log (`has0`, `act1`, `has2`, `act3`), two in
`startControl` (`has4`, `act5`); `sid` is the session id that `isSessionActive` has read
before it. A driver object has no `driver.wda` until createSession has got that far
(`driverWda`), and then nobody is asked: that counts as no session.

### Ports, ScrcpyServer, ApkInstaller

`Ports`: `probe` is where portfinder's search stands; the search and its restart behind
the last port handed out are steps of the one call that has the lock, and other processes
bind and release ports between them. `ScrcpyServer`: a run stands for the process it
starts; a process that was killed is `dying` until it ends, and is found like a running
one. A run is a `run()` of its own ScrcpyServer object, since every announcement of a
device makes a controller. `ApkInstaller`: a request reads its apk (two awaits) and then
looks at the flag and sets it in one continuation. A process that cannot be started says
nothing, so its request stays `unstarted` and the flag set.

### MjpegDecoder

Bytes are model values; a picture is a byte between the two markers, behind one byte for
boundary and headers. `OnDataReceived` takes any number of bytes up to `MaxChunk`, so
every cut occurs, inside a marker and across several pictures. A picture leaves in events of
`FRAME_SLICE` bytes, the last one shorter (20 KB in the code, three bytes of a picture of five
in the run). The reference is `FramesAreWhole`: the slices of the pictures sent, in order,
without the pictures that repeat the one before.

### IosTracker

A poll (`collectDeviceDetails`) asks for the simulators and for the real devices at the
same time; each answer is compared with `known` when it comes (`SimulatorsAnswer`,
`RealsAnswer`), the unknown real devices are asked for their properties
(`GetDeviceInfo`), and `End` announces and withdraws. `Initialize` is possible as long as no
first poll has ended, `Interval` afterwards, whether or not polls are under way.

## 3. Runs

| Run | Instance | Shows |
|---|---|---|
| `hub_environment` | 1 node, 1 device, 2 requests, 1 DELETE, 2 connections, fair event loop | exclusive allocation, exact pool, refinement of `Lease`, against any node; no request waits and no pool entry stays for ever while the hub is up |
| `hub_timeout` | 1 node, 1 device, 2 requests, 1 DELETE, 1 connection | violation: a call that times out takes the answers of other requests with it |
| `grid_reconnect` | 1 node, 1 device, 2 requests, 2 DELETEs, 2 connections | Appium sessions exclude each other, apart from two named events |
| `grid_terminated` | 1 request, 2 DELETEs | violation: a terminated session is still accepted |
| `grid_stale_socket` | 1 request, 2 connections | violation: a reconnected node goes offline |
| `stream_control` | 2 clients of 2 users, 1 device, 2 registrations, 2 GridDevice objects, fair | viewers are served, control has one owner and a connected viewer, an unwatched stream is stopped |
| `stream_refused` | 1 registration | violation: control is refused although its user has left |
| `remote_control` | 4 web sockets | flags, sockets and listeners agree, nothing runs for a device that is gone |
| `remote_closed` | 3 web sockets | violation: the hub is told that a stream is closed which runs |
| `android_tracker` | 1 device, 3 reports of adb, fair | a device that is gone is forgotten, one that stays is announced |
| `ios_control` | 2 announcements, 1 `stopAll()` at a time, 1 creation for control beside those of the announcements, 1 test | the stream can be reached, the flags of WdaProxy are true, a test keeps its session |
| `plugin_parts` | 3 calls and 4 ports; 2 runs and an old server; 3 requests; 4 pictures of 2 kinds; 2 real devices or 1 and a simulator, 2 polls; fair | ports are distinct and searches end, one server, one installation, whole pictures, known devices |

`plugin_parts` runs five modules that share no state. In a behaviour of `MCParts` only one
of them steps: steps of different parts commute, so every behaviour of a part occurs and
their product, which shows nothing, does not. `Phones` and `PhoneAndSimulators` split the
instance of `IosTracker` in two, since simulators and a locked phone meet nowhere but in
`End`.

Bounds. One device makes requests compete for it, and the theorems show that nothing is
special about one; two connections are the least with which an old socket and a new one
coexist; two DELETEs the least with which one comes after the session has ended. Two
clients are the least with which one watches while another has control, two
registrations and two GridDevices the least with which a start uses an object that was
replaced. With four web sockets one is in use, one in its closing handshake, one
replaced, and one still to come. Three reports are an add, the list and an add after a
replug, or a restart in place of any: the two calls that overlap and one that comes
after. Two announcements are the least with which one comes while the other's
`initialize()`, its session or its `stopAll()` goes on (the device itself goes and comes
without bound), and with the creation for control three creations compete for the
proxy's lock and one test for WDA. Three calls and four ports let a search meet a
blocked port, restart, and leave the rising order. Two runs of the scrcpy server overlap
and find an old one. With four pictures and chunks as long as thirteen of the
twenty-four bytes a chunk may end two and begin a third, and fifteen bytes
(`MAX_BUFFER_SIZE`) can be exceeded. Two polls are the least that overlap. Bounds that
are in guards: `MaxConnections` (`Connect`), `MaxNodes` and `MaxObjects`
(`RegisterNewNode`, `OnNewDeviceConnected`), `MaxSockets` (`OpenStream`), `MaxReports`
(`Report`), `MaxAnnouncements` (`DeviceConnected`), `MaxStops` (`DeviceRemoved`),
`MaxCreations` (`CreateNewSession`), `MaxTests` (`TestBegins`), `MaxPort` (`RunOut`),
`MaxFrames` (`Start`), `MaxChunk` (`OnDataReceived`), `Polls` (`Begin`). The instances
stop when requests, connections, clients or reports are used up, hence `CHECK_DEADLOCK
FALSE`.

Fairness (`FairSpec` of each module). `Hub`: weak fairness of the steps that the event
loop takes by itself: a resolved promise is continued, the interval and the timeout of
`asyncWait` and the timeout of a call fire. Nothing is assumed of nodes, clients
or the network. `EveryRequestAnswered` counts the 400 of an expired search as
the answer, and neither property says anything of a hub that a timeout has ended.
`PoolEntryReleased` has the exception the code has: an attempt that was waiting for
the lock when its request timed out can still put a device in the pool, where it
stays. `StreamHub`: the handler that has the lock goes on (weak), and
a client that left is granted the lock in the end (strong, because others hold it in
between; every function the lock runs ends). `AndroidTracker`: adb delivers its
events, a call is continued when what it awaits is there (weak), and a device
that is asked again and again says at some answer that it has booted (strong) if its lookup does
not fail before. A lookup may fail at any point; `PluggedIsAnnounced` excepts a device whose
latest lookup has (`Swallowed`), and a plugin that has ended. `Ports`: portfinder answers,
so a search that has the lock goes on (weak). `IosTracker`: the hub confirms the registration
and the interval fires (weak), every question of a poll is answered or fails (weak), and
among all polls the lists of simulators and of real devices are answered again and again, and so
is an unlocked device, whether it is the last to answer in its poll or one of several
(strong: `xcrun` and the device service do not fail for ever). Any question of a poll may fail,
and nothing is assumed of a locked device: as long as it is unknown every poll with it fails.

`SessionExclusive` and `RunningIsNotFree` have two exceptions, recorded in
history variables. `misfreed`: a DELETE, which unblocks the device of its session
whatever the node answered, freed a device that others use or on which the session
still runs. `orphaned`: a createSession reached the plugin after the connection
it came on was lost, when the hub had registered the device as free. Without
either exception TLC finds a counterexample; with both, nothing else in the
exchange of messages lets a second session in.

The exceptions of the other modules, each a history variable or a reading of the
state, each reached by some behaviour, and without which TLC finds a
counterexample:

* `ControlIsWatched`, `UnwatchedStreamStops` (`Haunted`): a start was granted to a client that
  had disconnected; control is kept for it or its stream runs until the next viewer has come
  and gone.
* `ControlIsNotTakenOver`: a start that had read a GridDevice which was replaced
  while it waited for the lock sees nobody in control and takes it.
* `SocketsAreOwned` (`replaced`): startStream replaces a socket that is still
  connecting and nobody closes the old one.
* `GoneIsQuiet` (`interrupted`): a start that has the lock when its device goes sets the
  flags of a controller that is not in the map any more.
* `GoneIsForgotten` (`unheard`, `dropped`): the device went while its lookup was past the
  look at the abort signal, or without its own controller in the map; or the removal
  was lost between two trackers of adb. The plugin and the hub then keep a device
  that is not there until it is plugged in and out again.
* `ControllerHasDevice` (`overtaken`): the device went while its controller was
  initialized, which puts it into the map afterwards.
* `PluggedIsAnnounced` (`swallowed`, `ended`): see above.
* `StreamIsReachable` is about a decoder that is live; one that has aborted leaves
  `streamStarted` set, and a later start answers that the stream is started.
* `TestKeepsSession` (`unaware`, `repeated`): the test began after the look at the session, or
  the driver that was asked had no `driver.wda` yet because another creation was under way; or
  the device was announced once more during the test, and the `initialize()` of that asks nobody.
* `KnowsItsSession` (`snatched`): the test began between createSession and the look at
  the id, which then is the test's.
* `KnownHasController` (`hasty`, `refused`): the device was announced while a `stopAll()` went
  on, which then deletes the new entry; or the port forwarding was refused, which rejects
  `initialize()`. The device stays without remote control until it is announced again.
* `StartedIsUp` (`unstopped`): WDA has ended with its device or by a `stopAll()`, and `quit()`
  has not said so to WdaProxy: the device came back before it was withdrawn, no driver was
  there, or `quit()` failed.
* `ControlWorks` (`overlapped`): a creation ended while a look at the status was under
  way, which then compares with the id of before and sets `sessionActive` to false; until
  the next look or creation.
* `OneServer` (`during`, `unseen`): a run that was under way when the servers were killed; a run
  that ended without its server, by the time limit or because it took another server for
  its own.
* `SearchEnds`: only while the ports were handed out in rising order. A port that was bound
  at one search and free at the next makes the order fall, and then the search behind
  the last port can find the same blocked port for ever, with the lock held: no
  device of the plugin gets a port again.
* `LagNeedsBurst` (`burst`): pictures that end in one chunk with another wait.
* `KnownInTheEnd`: a simulator that is erased while it is known stays known; one
  connected device that is unknown and does not answer keeps all real devices from being
  announced and withdrawn.

What the violations show, with the lines, is in `PROJECT.json` under "findings".

## 4. Proofs

`HubProofs` proves, for every set of nodes, devices, requests, DELETEs and any
number of connections:

* `TypeCorrect`: `Spec => []TypeOK`
* `Exclusive`: `Spec => []AllocationExclusive`
* `PoolExact`: `Spec => []PoolAccounted`
* `PoolLeaves`: `Spec => PoolLeavesWithAnswer`
* `Implements`: `Spec => ImplementsLease`, each step of the hub is a step of
  `Lease` or a stutter

from `HubAssumption` only (every device has a node, the devices that match a
request are devices, `NoDevice` is none of them).

The argument. `AllocationExclusive` is not inductive: that no request holds a
device that the search considers free needs that a held device is busy or in the
pool. `IInv` adds `PoolAccounted` (the pool is exactly the devices of the requests
that are between `addDevice` and their answer), `MatchedIsBusy` (a device between
the lock and the pool is still blocked; this is where `NewTurn` is used: no message
can unblock it there) and `Placed` (a request that holds a device has one). Then a
device found free differs from every held one, and each release takes out of the
pool just the request's own device, because the others differ from it.

`GridProofs` proves, for any numbers of nodes, devices, requests, DELETEs and
connections, from `HubAssumption` only:

* `GridImplementsHub`: `GridSpec => Spec`, so that all that `HubProofs` has of the hub
  holds of hub and plugin over their socket
* `GridTypeCorrect`: `GridSpec => []GridTypeOK`
* `SessionsExclusive`: `GridSpec => []SessionExclusive`
* `RunningNeverFree`: `GridSpec => []RunningIsNotFree`

The argument. The plugin's messages are among those the open hub takes
(`StepIsHubStep`), which needs the types of what is on the wire. A device on which
a session runs stays blocked in the hub although blocks come late or never; four
facts carry that:

* `Requested`: until the session runs, its device is blocked because of its request. A
  command can only be acted upon by a plugin whose connection is still the one it was
  sent on (`Direct`), and on that connection no registration is still to come that could
  replace the hub's record of the device; on any other the device counts as `orphaned`.
  From then on the plugin itself has the device blocked.
* `Wired`: every registration under way, or waiting for its connection, lists as blocked
  each device whose session runs; there is at most one, and a device is announced only
  before anything else on the wire mentions it. So no message that comes late makes a
  device in use look free.
* `Linked`: only one of a node's connections holds messages, and no registration
  waits behind the connection the hub has registered the node for.
* `OwnersExclusive`: `SessionExclusive` is not inductive, because a session begins with a
  request and a command: the property holds of whoever has a claim on a device, a
  request that holds it, a command that can still be acted upon, or a session.

Each is stated for devices outside `Exposed`, the two named ways to lose protection,
except where it must hold of all. A lemma per fact goes through the actions of
the grid, and `IInv` of `HubProofs` is a part of the invariant, by `GridImplementsHub`'s
step.

`TrackerProofs` proves `TrackerTypeCorrect`, `GoneDevicesAreForgotten` and
`ControllersHaveDevices`, that is `Spec => []TypeOK`, `[]GoneIsForgotten` and
`[]ControllerHasDevice`, for any devices and any number of adb's reports, from
`TrackerAssumption` (the number is a natural one, and the name of a list not yet
read is no device). That a lookup has a number below the bound needs an account: each
lookup belongs to a report, so the lookups, the add events not yet seen and the
devices of the list not yet gone through are together at most as many as the reports
(`Accounted`). `EventsAgree` says that the last event of a device tells whether it is
there. `GoneIsDead` is `GoneIsForgotten` one step earlier: when the last event of a device
that is gone has been handled, every lookup of it is dead or could not be
reached by the abort. `InitHasDevice` is `ControllerHasDevice` while the controller is
still initialized.

`StreamProofs` proves, for any number of clients, users, devices, registrations and
GridDevices, from `StreamAssumption` (the types of the constants):

* `StreamTypeCorrect`, `Served`, `Watched`: `Spec => []TypeOK`, `[]ViewersAreServed`,
  `[]ControlIsWatched`
* `EndsInEmptyRoom`, `NotTakenOver`: `Spec => ControlEndsInEmptyRoom`,
  `Spec => ControlIsNotTakenOver`

The argument. What the handler of a client that left found out about the room must still
hold when it sends the stop and takes control back: `RoomStaysEmpty` says that the room
is empty as long as that handler has the lock, because a start joins a room only with
the lock. A client that is in a room without a connection either has its own handler
still to come or is a ghost, which is how `Watched` can speak of connected viewers.
`Past` says that no start, viewer or active flag refers to a registration that is still
to come, so that a new Node object has told nothing and serves nobody; `NewIsFree` that
a GridDevice not yet made is controlled by nobody.

`RemoteProofs` proves `RemoteTypeCorrect`, `StreamHasSocket`, `Owned`, `Heard` and `Quiet`,
that is `Spec => []TypeOK`, `[]StartedHasSocket`, `[]SocketsAreOwned`, `[]ControlIsHeard` and
`[]GoneIsQuiet`, for any number of web sockets, from `MaxSockets \in Nat`.
Nothing moves after the plugin has ended, so the end needs no part in the invariant.
`ListensBeforeControl` bridges the wait of a start for the second lock: the
listeners are added before it and the flag set after it. `QuietLock` says that no
start is under way for a device that went while the lock was free. The rest is that
stopStream leaves no living socket but replaced ones (`AfterStop`) and that a close
event, whichever socket it comes from, only resets the flag.

`PartsProofs` has three small modules. It proves `PortsAlwaysDistinct`, `PortsSpec =>
[]PortsAreDistinct`, for any set of calls and any number of ports, from
`PortsAssumption`. `PortsAreDistinct` alone is not inductive: that a port taken now
differs from those taken before needs that they all are in `BLOCKED_PORTS`, which the
search compares with (`PortsInv`); `AppendKeeps` says that a push loses none of them.

It proves `AlwaysOneServer`, `ScrcpySpec => []OneServer`, and the type invariant
for any set of runs, from `ScrcpyAssumption`. `LivesAlone` carries the property from the
moment a run has killed what it found: whatever lives beside it from then on is a run
that was under way or had ended without its server, and what comes later kills first.
`PendingHasRun` says whose a process is that has not appeared yet.

And it proves `AlwaysOneInstallation`, `InstallSpec => []OneInstallation`, for any
set of requests, without an assumption. With the types the property is inductive, because
the flag is read and set in one continuation: a request that finds it unset finds no
process, and none that could not be started.

`IosProofs` proves, for any number of announcements, of `stopAll()`s at a time, of
creations and of tests, from `IosAssumption` (they are natural numbers):

* `IosTypeCorrect`: `Spec => []TypeOK`
* `AlwaysStreamIsReachable`, `AlwaysKnowsItsSession`, `AlwaysKnownHasController`,
  `AlwaysStartedIsUp`, `AlwaysControlWorks`, `AlwaysSessionIsDrivers`: the six invariants of
  the run
* `NoTestLosesItsSession`: `Spec => TestKeepsSession`

The argument. The invariant has a group of facts for each property, and a lemma for the
steps of each group. `CreationFacts` knows a creation that has the proxy's lock by how far it
is: one that starts WDA found it not started, one that drives has made the driver, one that
reads the id has a session that only a test can have replaced. That gives
`SessionIsDrivers`, and that `driver` is set while WDA counts as started, which the other groups
use: a stream is started only then, so a withdrawal finds a driver to stop and the stream
ends with the entry (`StreamFacts`). `TestFacts` says that whatever still goes on during a
test was decided upon before it, had nothing to ask, or belongs to an announcement that came
during the test; `ControlFacts` that a session that runs with the id that counts is known to be
active unless the last look compared with another id; `ManagerFacts` that a `stopAll()` that goes
on while the device is known was met by its announcement. `StartedIsUp` is inductive beside
these.

`DecoderProofs` proves, for any pictures, any number of them, any cut into chunks, any
limit of the buffer and any length of an event, from `DecoderAssumption` (the numbers
are natural, and no picture is a byte of a marker or of a header: coded JPEG data
escapes 0xff, and a thumbnail, which would have markers of its own, is not modelled):

* `EventsAreWhole`: `DecoderSpec => []FramesAreWhole`
* `LagAlwaysNeedsBurst`: `DecoderSpec => []LagNeedsBurst`

The argument. `DataIsRest`: between two chunks the data is exactly what arrived behind the
last picture found, so it begins with a part, and the start is remembered only where it is.
Then the first markers in it are those of the next picture (`StartFound`, `EndFound`), and
`FindIs` says what a chunk does: it takes that picture if its last byte is there. The number
of end markers in the data is the number of pictures complete but not found
(`CompleteIs`, by counting), which gives `LagIsBurst`: a chunk that completes none or one
leaves the lag, because it finds one. The events of the pictures found stand in a row of
`EventsPerPicture` each (`Places`), and a picture found adds its slices at the end (`FrameStep`)
and moves none (`FramesStay`). The bytes are given in closed form, six to a part, so
that no induction over the stream is needed.

Only model-checked: the liveness properties (the prover does not do fairness
here), which are all there is of `IosTracker`, and the runs that end in a violation. Every
invariant and every action property of the passing runs is a theorem.

## 5. Not modelled, and why

* Hub: capability matching (a constant relation), commands other than create and
  delete (they change no state of the grid, except by their timeout, which ends the hub), what
  starts the hub or the plugin again after its end, Appium's own session timeout, sessions
  started at the node itself, unplugging of devices in `Grid` (`Hub` has it),
  `updateSessions` (a list nobody reads), `setNodeOnline` and `isNodeActive` (no caller).
* Streams and Android remote control: the control commands that are passed on, frames,
  device information, the messages that answer a refused start, the end of the process
  (`PROCESS_KILLED`, which stops all controllers), a second controller of the same udid.
  `RemoteControl` has that stopShell starts a new adb shell which nobody ends; no
  property is about it.
* iOS remote control: simulators (the driver starts WDA itself), a WDA that dies while
  its device stays and nobody stops it, the content of gestures, logs and shell (not supported).
  A status request has no time limit and is made under the lock of all devices; in the model,
  which has one device, nobody else waits for it. What `driver.stop()` does to WDA is the
  driver's: nothing, the end of its session, or the end of both (`DriverStop`).
* Start-up of the trackers: a `trackDevices()` that is rejected in `initialize()` goes to the
  caller and fails the start of the plugin; only the later one, of `startTracker`, is modelled.
* MJPEG decoder: `interval` is 0 and `maxFrames` unset wherever it is made, so no picture is
  skipped for its time and no number of pictures ends it.
* Trackers: on systems other than a Mac the plugin lists no real iOS devices; `GoIosTracker`
  has no caller. `FfmpegMjpegDecoder`, `takeSnapshot` and the options of
  `MjpegDecoder`, and `AndroidApkInstaller.stop` have none either.
* Login and users: one lookup and one save per request, and no message or route of the
  grid itself asks for a token. Pagination: no route calls it. Both would be models of code that
  the system does not reach.
* Start-up, configuration, database schema, logging and pages have no state to check.

## 6. Plan

1. `Registry`: `AndroidTracker` composed with registration and the hub's device map, and with
   the entry of `RemoteControl`, so that a device may be plugged in again before the
   sockets of its old controller are closed.
2. `IosTracker`: a safety property of overlapping polls (what a device's last announcement
   may be while it stays), and its proof; then the theorems about `Registry`.
3. Two devices in `IosControl`, for the lock that all devices share.
