----------------------------- MODULE IosControl -----------------------------
(***************************************************************************)
(* Remote control of one iOS device in the plugin: IosRemoteControl with   *)
(* its MJPEG stream, WdaProxy with the driver and the session it holds on  *)
(* WebDriverAgent (WDA), the handlers of the hub's stream messages and the *)
(* entry of the controller in RemoteDeviceControlManager.                  *)
(*                                                                         *)
(* The controller is a service of the container of the device's udid, so   *)
(* the same object serves the device whenever it is announced again.       *)
(* What is announced and withdrawn follows the device late and in any      *)
(* order: polls of the tracker overlap (see IosTracker), and one of them   *)
(* may announce a device that is known, withdraw one that is back, or do   *)
(* neither for one that went and came back between them.                   *)
(* WDA has one session; a test run that was given its URL may replace it.  *)
(* The plugin learns who has the session from WDA's status, one request    *)
(* after the other, and any of them may find things changed.               *)
(*                                                                         *)
(* Real devices: a simulator differs in that the driver starts WDA.  As in *)
(* RemoteControl the messages that wait for the handlers' lock are no      *)
(* state.                                                                  *)
(***************************************************************************)
EXTENDS Naturals

CONSTANTS
    MaxAnnouncements,   \* bound: how often the device is announced
    MaxStops,           \* bound: stopAll()s under way at the same time
    MaxCreations,       \* bound: sessions that control asks for
    MaxTests            \* bound: sessions of tests

ASSUME IosAssumption ==
    /\ MaxAnnouncements \in Nat /\ MaxStops \in Nat
    /\ MaxCreations \in Nat /\ MaxTests \in Nat

\* An announcement stands for its run of initialize().
Announcements == 1 .. MaxAnnouncements

\* A run of createNewSession: the one of an initialize(), or one for control.  It
\* stands for its driver and the session of that, too.
Creations == 1 .. MaxAnnouncements + MaxCreations

None == 0
Test == MaxAnnouncements + MaxCreations + 1

VARIABLES
    plugged,        \* is the device there
    known,          \* is it in the tracker's deviceCache
    announced,      \* announcements so far
    wdaUp,          \* does WDA answer
    active,         \* the session of WDA
    tests,          \* sessions of tests so far
    entry,          \* is the controller in the manager's map
    init,           \* how far an initialize() is
    stopping,       \* stopAll()s under way
    phase,          \* how far a creation is
    started, sessionActive, sessionId,      \* fields of WdaProxy
    driver, driverWda,                      \* its driver, and whether that has driver.wda
    streamDecoder, streamStarted, controlStarted,
    listener,       \* is the hub's handler a listener of the stream
    stage,          \* the request to WDA's status that the handler with the lock waits for
    control,        \* does it start control, or only report
    sid,            \* sessionId, read before the request was made
    free,           \* hasSession() said that there is none
    unaware,        \* history: creations decided upon before the test began, or by a driver
                    \* that could not look
    unawareLook,    \* history: so has the handler found no session
    repeated,       \* history: announcements that came while a test had the session
    unstopped,      \* history: WDA has ended, and WdaProxy was not told
    hasty,          \* history: announced while a stopAll() was under way
    refused,        \* history: the latest initialize() was rejected
    overlapped,     \* history: a creation ended during the last look at the session
    snatched        \* history: a test began between the last session and the look at its id

deviceVars == <<plugged, wdaUp, active, tests>>
trackerVars == <<known, announced>>
managerVars == <<known, announced, entry, init, stopping>>
proxyVars == <<phase, started, sessionActive, sessionId, driver, driverWda>>
streamVars == <<streamDecoder, streamStarted, listener>>
handlerVars == <<stage, control, sid, free>>
historyVars == <<unaware, unawareLook, repeated, unstopped, hasty, refused, overlapped,
                 snatched>>
vars == <<deviceVars, managerVars, proxyVars, streamVars, controlStarted, handlerVars,
          historyVars>>

ActRequests == {"act1", "act3", "act5"}

InLock == {c \in Creations : phase[c] \in {"starting", "driving", "reading"}}

TypeOK ==
    /\ {plugged, known, wdaUp, entry, started, sessionActive, driverWda, streamStarted,
        controlStarted, listener, control, free, unawareLook, unstopped, hasty, refused,
        overlapped, snatched}
            \subseteq BOOLEAN
    /\ announced \in 0 .. MaxAnnouncements /\ tests \in 0 .. MaxTests
    /\ {active, sid, sessionId} \subseteq {None, Test} \cup Creations
    /\ driver \in {None} \cup Creations
    /\ init \in [Announcements -> {"none", "lookup", "creating", "window", "done"}]
    /\ stopping \in 0 .. MaxStops
    /\ phase \in [Creations -> {"none", "queued", "starting", "driving", "reading", "done"}]
    /\ streamDecoder \in {"none", "live", "aborted"}
    /\ streamStarted <=> streamDecoder # "none"
    /\ stage \in {"free", "has0", "act1", "has2", "act3", "has4", "act5"}
    /\ \A c, d \in InLock : c = d
    /\ active # None => plugged /\ wdaUp
    /\ unaware \subseteq Creations
    /\ repeated \subseteq Announcements

Init ==
    /\ plugged = FALSE /\ known = FALSE /\ announced = 0
    /\ wdaUp = FALSE /\ active = None /\ tests = 0
    /\ entry = FALSE
    /\ init = [n \in Announcements |-> "none"] /\ stopping = 0
    /\ phase = [c \in Creations |-> "none"]
    /\ started = FALSE /\ sessionActive = FALSE /\ sessionId = None
    /\ driver = None /\ driverWda = FALSE
    /\ streamDecoder = "none" /\ streamStarted = FALSE /\ controlStarted = FALSE
    /\ listener = FALSE
    /\ stage = "free" /\ control = FALSE /\ sid = None /\ free = FALSE
    /\ unaware = {} /\ unawareLook = FALSE
    /\ repeated = {} /\ unstopped = FALSE /\ hasty = FALSE /\ refused = FALSE
    /\ overlapped = FALSE /\ snatched = FALSE

-----------------------------------------------------------------------------
(* The stream.                                                             *)

\* abort of the decoder: it tells the listeners, and the hub's handler takes
\* itself off if it finds the controller.
AbortDecoder == listener' = (listener /\ ~entry)

\* stopStream of the controller.  A decoder that was aborted says no more.
StopStream ==
    /\ IF streamDecoder = "live" THEN AbortDecoder ELSE UNCHANGED listener
    /\ streamDecoder' = "none"
    /\ streamStarted' = FALSE

\* An error of the connection, no answer for ten seconds, a response that is
\* no MJPEG, or too much data without a frame.
DecoderAborts ==
    /\ streamDecoder = "live"
    /\ streamDecoder' = "aborted"
    /\ AbortDecoder
    /\ UNCHANGED <<deviceVars, managerVars, proxyVars, streamStarted, controlStarted,
                   handlerVars, historyVars>>

-----------------------------------------------------------------------------
(* The device and the manager.                                             *)

Plug ==
    /\ ~plugged
    /\ plugged' = TRUE
    /\ UNCHANGED <<wdaUp, active, tests, managerVars, proxyVars, streamVars, controlStarted,
                   handlerVars, historyVars>>

\* What the history says of a test ends with it.
NoTestNow == unaware' = {} /\ repeated' = {}

\* WDA ends with the device.
Unplug ==
    /\ plugged
    /\ plugged' = FALSE
    /\ wdaUp' = FALSE /\ active' = None
    /\ unstopped' = started
    /\ NoTestNow
    /\ UNCHANGED <<tests, managerVars, proxyVars, streamVars, controlStarted, handlerVars,
                   unawareLook, hasty, refused, overlapped, snatched>>

\* device_connected: initialize() begins with the lookup of WDA's bundle id,
\* whether or not the controller serves the device already.
DeviceConnected ==
    /\ announced < MaxAnnouncements
    /\ known' = TRUE
    /\ announced' = announced + 1
    /\ init' = [init EXCEPT ![announced'] = "lookup"]
    /\ hasty' = (stopping > 0) /\ refused' = FALSE
    /\ repeated' = IF active = Test THEN repeated \cup {announced'} ELSE repeated
    /\ UNCHANGED <<deviceVars, entry, stopping, proxyVars, streamVars, controlStarted,
                   handlerVars, unaware, unawareLook, unstopped, overlapped, snatched>>

\* device_removed: a controller that is in the map is stopped, which begins with
\* driver.stop(); without a driver that fails and the controller leaves the map
\* at once.
DeviceRemoved ==
    /\ announced > 0
    /\ known' = FALSE
    /\ hasty' = FALSE
    /\ entry' = (entry /\ driver # None)
    /\ IF entry' THEN stopping < MaxStops /\ stopping' = stopping + 1 ELSE UNCHANGED stopping
    /\ UNCHANGED <<deviceVars, announced, init, proxyVars, streamVars, controlStarted,
                   handlerVars, unaware, unawareLook, repeated, unstopped, refused, overlapped,
                   snatched>>

\* Faulty variant: the controller leaves the map and its stream goes on.
LeaveWithStream ==
    /\ stopping > 0
    /\ stopping' = stopping - 1
    /\ entry' = FALSE
    /\ UNCHANGED <<plugged, tests, trackerVars, init, phase, sessionActive, sessionId, driver,
                   driverWda, streamVars, controlStarted, handlerVars, unawareLook, hasty,
                   refused, overlapped, snatched>>

\* driver.stop() has ended: the stream stops and the controller leaves the map.
StopAll ==
    /\ stopping > 0
    /\ stopping' = stopping - 1
    /\ StopStream
    /\ entry' = FALSE
    /\ UNCHANGED <<plugged, tests, trackerVars, init, phase, sessionActive, sessionId, driver,
                   driverWda, controlStarted, handlerVars, unawareLook, hasty, refused,
                   overlapped, snatched>>

\* What driver.stop() has done at a device that is there: nothing, it has ended
\* its session, or it has given up the port without which nobody reaches WDA.
DriverStop ==
    \/ UNCHANGED <<wdaUp, active, unaware, repeated>>
    \/ active = driver /\ active' = None /\ UNCHANGED <<wdaUp, unaware, repeated>>
    \/ active' = None /\ wdaUp' = FALSE /\ NoTestNow

\* Faulty variant: WDA still counts as started.
QuitKeepsStarted ==
    /\ StopAll
    /\ DriverStop
    /\ unstopped' = FALSE
    /\ UNCHANGED started

QuitEnds ==
    /\ StopAll
    /\ DriverStop
    /\ started' = FALSE
    /\ unstopped' = FALSE

\* driver.stop() was rejected, which stopAll ignores.
QuitFails ==
    /\ StopAll
    /\ DriverStop
    /\ unstopped' = started
    /\ UNCHANGED started

\* The bundle id: without one there is no WDA, and the controller is used as
\* it is.
LookupBundleId(n) ==
    /\ init[n] = "lookup"
    /\ \/ /\ init' = [init EXCEPT ![n] = "creating"]
          /\ phase' = [phase EXCEPT ![n] = "queued"]
          /\ UNCHANGED entry
       \/ /\ init' = [init EXCEPT ![n] = "done"]
          /\ entry' = TRUE
          /\ UNCHANGED phase
    /\ UNCHANGED <<deviceVars, trackerVars, stopping, started, sessionActive, sessionId, driver,
                   driverWda, streamVars, controlStarted, handlerVars, historyVars>>

\* Faulty variant: a controller whose WDA has not started is not kept.
InitializedIfStarted(n) ==
    /\ init[n] = "window"
    /\ init' = [init EXCEPT ![n] = "done"]
    /\ entry' = (entry \/ started)
    /\ UNCHANGED <<deviceVars, trackerVars, stopping, proxyVars, streamVars, controlStarted,
                   handlerVars, historyVars>>

\* The size of the screen has been read, or not: the result is not looked at.
Initialized(n) ==
    /\ init[n] = "window"
    /\ init' = [init EXCEPT ![n] = "done"]
    /\ entry' = TRUE
    /\ UNCHANGED <<deviceVars, trackerVars, stopping, proxyVars, streamVars, controlStarted,
                   handlerVars, historyVars>>

-----------------------------------------------------------------------------
(* createNewSession, under the proxy's lock.                               *)

\* A creation is over; initialize() goes on with the size of the screen.
End(c) ==
    /\ phase' = [phase EXCEPT ![c] = "done"]
    /\ init' = IF c \in Announcements THEN [init EXCEPT ![c] = "window"] ELSE init

\* A new driver object, which has no driver.wda yet.
NewDriver(c) ==
    /\ phase' = [phase EXCEPT ![c] = "driving"]
    /\ driver' = c
    /\ driverWda' = FALSE

\* Faulty variant: the lock is not taken.
BeginUnlocked(c) ==
    /\ phase[c] = "queued"
    /\ phase' = [phase EXCEPT ![c] = "starting"]
    /\ UNCHANGED <<deviceVars, managerVars, started, sessionActive, sessionId, driver,
                   driverWda, streamVars, controlStarted, handlerVars, historyVars>>

\* WDA is started unless it counts as started.
BeginCreation(c) ==
    /\ phase[c] = "queued"
    /\ InLock = {}
    /\ IF started
       THEN NewDriver(c)
       ELSE /\ phase' = [phase EXCEPT ![c] = "starting"]
            /\ UNCHANGED <<driver, driverWda>>
    /\ UNCHANGED <<deviceVars, managerVars, started, sessionActive, sessionId, streamVars,
                   controlStarted, handlerVars, historyVars>>

\* WDA answers within a minute.  Control starts it without a bundle id, which
\* only succeeds if it runs already.
WdaStarted(c) ==
    /\ phase[c] = "starting"
    /\ plugged /\ (c \in Announcements \/ wdaUp)
    /\ wdaUp' = TRUE
    /\ started' = TRUE
    /\ unstopped' = FALSE
    /\ NewDriver(c)
    /\ UNCHANGED <<plugged, active, tests, managerVars, sessionActive, sessionId, streamVars,
                   controlStarted, handlerVars, unaware, unawareLook, repeated, hasty, refused,
                   overlapped, snatched>>

WdaNotStarted(c) ==
    /\ phase[c] = "starting"
    /\ End(c)
    /\ started' = FALSE
    /\ UNCHANGED <<deviceVars, trackerVars, entry, stopping, sessionActive, sessionId, driver,
                   driverWda, streamVars, controlStarted, handlerVars, historyVars>>

\* The forwarding of the port is refused: nothing catches that, and
\* initialize() is rejected.
ConnectionRefused(c) ==
    /\ phase[c] = "starting"
    /\ phase' = [phase EXCEPT ![c] = "done"]
    /\ init' = IF c \in Announcements THEN [init EXCEPT ![c] = "done"] ELSE init
    /\ refused' = (refused \/ c = announced)
    /\ UNCHANGED <<deviceVars, trackerVars, entry, stopping, started, sessionActive, sessionId,
                   driver, driverWda, streamVars, controlStarted, handlerVars, unaware,
                   unawareLook, repeated, unstopped, hasty, overlapped, snatched>>

DriverFindsWda(c) ==
    /\ phase[c] = "driving" /\ ~driverWda
    /\ driverWda' = TRUE
    /\ UNCHANGED <<deviceVars, managerVars, phase, started, sessionActive, sessionId, driver,
                   streamVars, controlStarted, handlerVars, historyVars>>

\* WDA makes the session and drops the one it had.
SessionCreated(c) ==
    /\ phase[c] = "driving" /\ driverWda
    /\ wdaUp
    /\ active' = c
    /\ phase' = [phase EXCEPT ![c] = "reading"]
    /\ NoTestNow
    /\ UNCHANGED <<plugged, wdaUp, tests, managerVars, started, sessionActive, sessionId,
                   driver, driverWda, streamVars, controlStarted, handlerVars, unawareLook,
                   unstopped, hasty, refused, overlapped, snatched>>

\* Faulty variant: the new session is not noted as active.
ReadWithoutActive(c) ==
    /\ phase[c] = "reading"
    /\ wdaUp
    /\ sessionId' = active
    /\ started' = TRUE
    /\ End(c)
    /\ UNCHANGED <<deviceVars, trackerVars, entry, stopping, sessionActive, driver, driverWda,
                   streamVars, controlStarted, handlerVars, historyVars>>

\* The id of the session is what WDA's status says.
SessionRead(c) ==
    /\ phase[c] = "reading"
    /\ wdaUp
    /\ sessionId' = active
    /\ started' = TRUE /\ sessionActive' = TRUE
    /\ End(c)
    /\ overlapped' = FALSE
    /\ snatched' = (snatched /\ active = Test)
    /\ UNCHANGED <<deviceVars, trackerVars, entry, stopping, driver, driverWda, streamVars,
                   controlStarted, handlerVars, unaware, unawareLook, repeated, unstopped,
                   hasty, refused>>

\* Faulty variant: what failed is not noted.
CreationFailsSilently(c) ==
    /\ phase[c] \in {"driving", "reading"}
    /\ End(c)
    /\ UNCHANGED <<deviceVars, trackerVars, entry, stopping, started, sessionActive, sessionId,
                   driver, driverWda, streamVars, controlStarted, handlerVars, historyVars>>

CreationFails(c) ==
    /\ phase[c] \in {"driving", "reading"}
    /\ End(c)
    /\ started' = FALSE
    /\ UNCHANGED <<deviceVars, trackerVars, entry, stopping, sessionActive, sessionId, driver,
                   driverWda, streamVars, controlStarted, handlerVars, historyVars>>

-----------------------------------------------------------------------------
(* Tests.                                                                  *)

\* A test begins a session on WDA, whose URL updateCapability gave it.
TestBegins ==
    /\ wdaUp /\ tests < MaxTests
    /\ tests' = tests + 1
    /\ active' = Test
    /\ unaware' = {c \in Creations : phase[c] \in {"queued", "starting", "driving"}}
                    \cup {n \in Announcements : init[n] = "lookup"}
    /\ unawareLook' = (unawareLook \/ free)
    /\ snatched' = (snatched \/ \E c \in Creations : phase[c] = "reading")
    /\ UNCHANGED <<plugged, wdaUp, managerVars, proxyVars, streamVars, controlStarted,
                   handlerVars, repeated, unstopped, hasty, refused, overlapped>>

TestEnds ==
    /\ active = Test
    /\ active' = None
    /\ NoTestNow /\ unawareLook' = FALSE
    /\ UNCHANGED <<plugged, wdaUp, tests, managerVars, proxyVars, streamVars, controlStarted,
                   handlerVars, unstopped, hasty, refused, overlapped, snatched>>

-----------------------------------------------------------------------------
(* The handlers.                                                           *)

Handle == stage = "free" /\ entry

\* The wait for an answer of WDA's status; isSessionActive reads sessionId
\* before it.
Ask(request) ==
    /\ stage' = request
    /\ sid' = IF request \in ActRequests THEN sessionId ELSE None
    /\ UNCHANGED control

Release ==
    /\ stage' = "free" /\ control' = FALSE /\ sid' = None /\ free' = FALSE

\* GET_DEVICE_CONTROL_INFO: isControllSupported.
HandleInfo ==
    /\ Handle
    /\ started
    /\ Ask("has0")
    /\ UNCHANGED <<deviceVars, managerVars, proxyVars, streamVars, controlStarted, free,
                   historyVars>>

\* STREAM_START: the stream, unless it counts as started, and then control.
HandleStart(withControl) ==
    /\ Handle
    /\ started
    /\ IF streamStarted
       THEN UNCHANGED streamVars
       ELSE streamDecoder' = "live" /\ streamStarted' = TRUE /\ listener' = TRUE
    /\ control' = withControl
    /\ stage' = IF withControl THEN "has0" ELSE "free"
    /\ UNCHANGED <<deviceVars, managerVars, proxyVars, controlStarted, sid, free, historyVars>>

\* STREAM_STOP.
HandleStop ==
    /\ Handle
    /\ streamStarted \/ controlStarted
    /\ streamDecoder' = "none" /\ streamStarted' = FALSE
    /\ listener' = (listener /\ ~streamStarted)
    /\ controlStarted' = FALSE
    /\ UNCHANGED <<deviceVars, managerVars, proxyVars, handlerVars, historyVars>>

\* getActiveSessionId: a driver without driver.wda has nothing to ask, and
\* takes that for no session.
Answered == driverWda => wdaUp
ActiveSessionId == IF driverWda THEN active ELSE None

IsSessionActive == sid = ActiveSessionId

\* The look ends; the id it compared with may have been replaced meanwhile.
LookEnds ==
    /\ sessionActive' = IsSessionActive
    /\ overlapped' = (sid # sessionId)

\* isControllSupported: no session, or the session of the remote control.
\* Only a handler that starts control goes on.
Supported ==
    IF control /\ ~controlStarted
    THEN Ask("has4") /\ UNCHANGED free
    ELSE Release

\* Its requests, the first two of them for the log.
AnswerSupported ==
    /\ Answered
    /\ \/ stage = "has0" /\ Ask("act1") /\ UNCHANGED <<free, sessionActive, overlapped>>
       \/ stage = "act1" /\ Ask("has2") /\ LookEnds /\ UNCHANGED free
       \/ /\ stage = "has2"
          /\ IF ActiveSessionId = None THEN Supported ELSE Ask("act3") /\ UNCHANGED free
          /\ UNCHANGED <<sessionActive, overlapped>>
       \/ /\ stage = "act3"
          /\ IF IsSessionActive THEN Supported ELSE Release
          /\ LookEnds
    /\ UNCHANGED <<deviceVars, managerVars, phase, started, sessionId, driver, driverWda,
                   streamVars, controlStarted, unaware, unawareLook, repeated, unstopped, hasty,
                   refused, snatched>>

\* startControl: hasSession.
AnswerHasSession ==
    /\ stage = "has4"
    /\ Answered
    /\ free' = (ActiveSessionId = None)
    /\ Ask("act5")
    /\ unawareLook' = ~driverWda
    /\ UNCHANGED <<deviceVars, managerVars, proxyVars, streamVars, controlStarted, unaware,
                   repeated, unstopped, hasty, refused, overlapped, snatched>>

\* createNewSession is called and not awaited.
CreateNewSession ==
    \E c \in Creations \ Announcements :
        /\ phase[c] = "none"
        /\ \A d \in Creations \ Announcements : d < c => phase[d] # "none"
        /\ phase' = [phase EXCEPT ![c] = "queued"]
        /\ unaware' = IF unawareLook /\ active = Test THEN unaware \cup {c} ELSE unaware

\* Faulty variant: the id that WDA answers is kept as the own one.
AnswerAdoptsSession ==
    /\ stage = "act5"
    /\ Answered
    /\ sessionId' = ActiveSessionId
    /\ controlStarted' = TRUE
    /\ Release
    /\ UNCHANGED <<deviceVars, managerVars, phase, started, sessionActive, driver, driverWda,
                   streamVars, historyVars>>

\* Faulty variant: whether there is a session is not looked at.
AnswerAndCreate ==
    /\ stage = "act5"
    /\ Answered
    /\ LookEnds
    /\ controlStarted' = TRUE
    /\ CreateNewSession
    /\ Release
    /\ UNCHANGED <<deviceVars, managerVars, started, sessionId, driver, driverWda, streamVars,
                   unawareLook, repeated, unstopped, hasty, refused, snatched>>

\* startControl: isSessionActive, and what follows from both.
AnswerSessionActive ==
    /\ stage = "act5"
    /\ Answered
    /\ LookEnds
    /\ IF free /\ started
       THEN controlStarted' = TRUE /\ CreateNewSession
       ELSE controlStarted' = IsSessionActive /\ UNCHANGED <<phase, unaware>>
    /\ Release
    /\ unawareLook' = FALSE
    /\ UNCHANGED <<deviceVars, managerVars, started, sessionId, driver, driverWda, streamVars,
                   repeated, unstopped, hasty, refused, snatched>>

\* A request fails: control is not supported, or the handler is rejected.
RequestFails ==
    /\ stage # "free"
    /\ driverWda
    /\ Release
    /\ unawareLook' = FALSE
    /\ UNCHANGED <<deviceVars, managerVars, proxyVars, streamVars, controlStarted, unaware,
                   repeated, unstopped, hasty, refused, overlapped, snatched>>

-----------------------------------------------------------------------------

DeviceStep ==
    Plug \/ Unplug \/ DeviceConnected \/ DeviceRemoved \/ DecoderAborts \/ TestBegins \/ TestEnds

ManagerStep ==
    \/ QuitEnds \/ QuitFails
    \/ \E n \in Announcements : LookupBundleId(n) \/ Initialized(n)

CreationStep ==
    \E c \in Creations :
        \/ BeginCreation(c) \/ WdaStarted(c) \/ WdaNotStarted(c) \/ ConnectionRefused(c)
        \/ DriverFindsWda(c) \/ SessionCreated(c) \/ SessionRead(c) \/ CreationFails(c)

HandlerStep ==
    \/ HandleInfo
    \/ \E withControl \in BOOLEAN : HandleStart(withControl)
    \/ HandleStop
    \/ AnswerSupported \/ AnswerHasSession \/ AnswerSessionActive \/ RequestFails

Next == DeviceStep \/ ManagerStep \/ CreationStep \/ HandlerStep

Spec == Init /\ [][Next]_vars

-----------------------------------------------------------------------------
(* Properties.                                                             *)

\* A stream that is decoded reaches the hub and can be stopped: its controller
\* is in the map and the hub's handler listens, whatever the device and its
\* earlier stopAll() did (ios/index.ts:134-172, 194-202, index.ts:37-43).
StreamIsReachable == streamDecoder = "live" => entry /\ listener

\* Remote control takes WDA from a test only if it could not know of the test:
\* that began after the look at the session, or the driver had nothing to ask
\* because another creation was under way (ios/index.ts:174-187); or if the
\* tracker announced the device while the test ran, since initialize() does not
\* ask who has WDA (ios/index.ts:84, ios.ts:38-41).
TestKeepsSession ==
    [][active = Test /\ active' \in Creations => active' \in unaware \cup repeated]_vars

\* The session of a test is taken for the own one only if it began between the
\* creation of that and the look at its id (wda-proxy.ts:82-93).
KnowsItsSession == sessionId = Test => snatched

\* A device that the tracker has announced and not withdrawn has its controller
\* once initialize() has ended, unless that was rejected or a stopAll() still
\* went on at the announcement: the late delete takes the new entry
\* (index.ts:25-43).
KnownHasController ==
    known /\ init[announced] = "done" => entry \/ hasty \/ refused

\* The flag that lets a creation skip the start of WDA is true only if WDA is
\* up, or the end of WDA has not got through to it: the device came back before
\* it was withdrawn, or its stopAll() found no controller, failed, or is under way
\* (wda-proxy.ts:40-50, 166-169).
StartedIsUp == started => wdaUp \/ unstopped

\* Commands of who controls are performed while the session of the remote
\* control is the one that runs: performActions, performIoHidEvent and rotate
\* look at started and sessionActive only.  A look that overlaps the end of a
\* creation compares with the id of before and turns them off until the next one
\* (wda-proxy.ts:141-144, 183-218).
Performs == started /\ sessionActive

ControlWorks ==
    started /\ controlStarted /\ InLock = {} /\ active \in Creations /\ active = sessionId
        => Performs \/ overlapped

\* They go to the session that runs: no creation that failed has left its driver
\* in the place of the one that holds the session (wda-proxy.ts:51-99).
SessionIsDrivers ==
    started /\ InLock = {} /\ active \in Creations => driver = active
=============================================================================
