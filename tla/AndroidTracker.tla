--------------------------- MODULE AndroidTracker ---------------------------
(***************************************************************************)
(* How Android devices get into the plugin and out of it: the tracker      *)
(* (device/trackers/android), which hears of devices through adb, waits    *)
(* until they have booted and reads their properties, DeviceManager and    *)
(* RemoteDeviceControlManager, which listen to it, and what the hub is     *)
(* told.                                                                   *)
(*                                                                         *)
(* A call is one run of newDeviceConnected; its number also stands for the *)
(* Device object it makes.  Each phase of a call is a continuation of the  *)
(* code between two awaits.  Adb answers for a device only while that is   *)
(* there; the answer, and the tracker's event, may come at any time after. *)
(***************************************************************************)
EXTENDS Naturals, Sequences, FiniteSets

CONSTANTS
    Devices,
    MaxReports      \* bound: how often adb reports a device, by an add event or in its list

ASSUME TrackerAssumption == MaxReports \in Nat /\ "unread" \notin Devices

\* A report makes one call at most.
Calls == 1 .. MaxReports

VARIABLES
    plugged,        \* the devices that are there
    reports,        \* the number of reports so far
    events,         \* events[d]: adb's events for d that the tracker has not seen
    toList,         \* devices of the list still to go through, {"unread"} before it is read
    lister,         \* the call for the latest of them
    calls,          \* calls made so far
    device,         \* the device of a call
    phase,          \* how far a call is
    abortControl,   \* the call whose abort controller the map has for a device
    aborted,        \* calls whose signal is aborted
    cache,          \* deviceCache of the tracker
    sent,           \* what the hub has been told of a device, and DeviceManager
    init,           \* calls whose device's remote controller is being initialized
    controllers,    \* controllers of RemoteDeviceControlManager
    unheard,        \* history: calls for a device that went, which the abort did not reach
    dropped,        \* history: devices whose removal the tracker's restart has lost
    overtaken,      \* history: calls whose device went while the controller was initialized
    swallowed,      \* history: calls that failed although the device was there
    ended           \* the plugin, by a rejection that nobody handles

adbVars == <<plugged, reports, events>>
callVars == <<calls, device, phase, abortControl, aborted>>
listVars == <<toList, lister>>
deviceVars == <<cache, sent, init, controllers>>
historyVars == <<unheard, dropped, overtaken, swallowed>>
vars == <<adbVars, callVars, listVars, deviceVars, historyVars, ended>>

Unread == {"unread"}

TypeOK ==
    /\ plugged \subseteq Devices
    /\ reports \in 0 .. MaxReports
    /\ \A d \in Devices : events[d] \in Seq({"add", "remove"})
    /\ toList = Unread \/ toList \subseteq Devices
    /\ calls \in {0} \cup Calls
    /\ lister \in 0 .. calls
    /\ \A c \in Calls : c <= calls => device[c] \in Devices
    /\ phase \in [Calls -> {"none", "waiting", "asking", "reading", "read", "done"}]
    /\ \A c \in Calls : phase[c] = "none" <=> c > calls
    /\ abortControl \in [Devices -> 0 .. calls]
    /\ aborted \subseteq 1 .. calls
    /\ \A d \in Devices : {cache[d], sent[d], controllers[d]} \subseteq
            {0} \cup {c \in 1 .. calls : device[c] = d /\ phase[c] = "done"}
    /\ init \subseteq 1 .. calls
    /\ ended \in BOOLEAN

Init ==
    /\ plugged = {} /\ reports = 0
    /\ events = [d \in Devices |-> <<>>]
    /\ toList = Unread /\ lister = 0
    /\ calls = 0
    /\ device = [c \in Calls |-> "none"]
    /\ phase = [c \in Calls |-> "none"]
    /\ abortControl = [d \in Devices |-> 0] /\ aborted = {}
    /\ cache = [d \in Devices |-> 0] /\ sent = [d \in Devices |-> 0]
    /\ init = {} /\ controllers = [d \in Devices |-> 0]
    /\ unheard = {} /\ dropped = {} /\ overtaken = {} /\ swallowed = {}
    /\ ended = FALSE

-----------------------------------------------------------------------------
(* Devices and adb.                                                        *)

\* The bound: each report of a device counts.
Report(devices) ==
    /\ reports + Cardinality(devices) <= MaxReports
    /\ reports' = reports + Cardinality(devices)

Plug(d) ==
    /\ d \notin plugged
    /\ Report({d})
    /\ plugged' = plugged \cup {d}
    /\ events' = [events EXCEPT ![d] = Append(@, "add")]
    /\ UNCHANGED <<callVars, listVars, deviceVars, historyVars>>

Unplug(d) ==
    /\ d \in plugged
    /\ plugged' = plugged \ {d}
    /\ events' = [events EXCEPT ![d] = Append(@, "remove")]
    /\ UNCHANGED <<reports, callVars, listVars, deviceVars, historyVars>>

\* The calls for d that have not ended.
Running(d) ==
    {c \in Calls : phase[c] \in {"waiting", "asking", "reading", "read"} /\ device[c] = d}

\* The tracker ends and another takes its place: that one reports the devices
\* that are there, and nothing of those that went.
StartTracker ==
    /\ Report(plugged)
    /\ events' = [d \in Devices |-> IF d \in plugged THEN <<"add">> ELSE <<>>]
    /\ dropped' = dropped \cup
            {d \in Devices \ plugged : cache[d] # 0 \/ Running(d) # {}}
    /\ UNCHANGED <<plugged, callVars, listVars, deviceVars, unheard, overtaken,
                   swallowed>>

\* adb does not give another tracker, and no one waits for startTracker.
NoTracker ==
    /\ ended' = TRUE
    /\ UNCHANGED <<adbVars, callVars, listVars, deviceVars, historyVars>>

-----------------------------------------------------------------------------
(* The tracker.                                                            *)

\* Faulty variant: an abort controller that is in the map is used again.
InitiateOnce(d, c) ==
    IF abortControl[d] = 0
    THEN abortControl' = [abortControl EXCEPT ![d] = c] /\ UNCHANGED aborted
    ELSE /\ aborted' = IF abortControl[d] \in aborted THEN aborted \cup {c} ELSE aborted
         /\ UNCHANGED abortControl

InitiateAbortControl(d, c) ==
    /\ abortControl' = [abortControl EXCEPT ![d] = c]
    /\ UNCHANGED aborted

\* A call begins, unless the tracker has the device.
NewDeviceConnected(d) ==
    IF cache[d] # 0
    THEN UNCHANGED callVars
    ELSE /\ calls' = calls + 1
         /\ device' = [device EXCEPT ![calls'] = d]
         /\ phase' = [phase EXCEPT ![calls'] = "waiting"]
         /\ InitiateAbortControl(d, calls')

OnAdd(d) ==
    /\ events[d] # <<>> /\ Head(events[d]) = "add"
    /\ events' = [events EXCEPT ![d] = Tail(@)]
    /\ NewDeviceConnected(d)
    /\ UNCHANGED <<plugged, reports, listVars, deviceVars, historyVars>>

\* loadDevices: the devices are listed, and gone through one after the other.
ListDevices ==
    /\ toList = Unread
    /\ Report(plugged)
    /\ toList' = plugged
    /\ UNCHANGED <<lister, plugged, events, callVars, deviceVars, historyVars>>

LoadDevice(d) ==
    /\ toList # Unread
    /\ d \in toList
    /\ lister # 0 => phase[lister] = "done"
    /\ toList' = toList \ {d}
    /\ NewDeviceConnected(d)
    /\ lister' = IF cache[d] # 0 THEN lister ELSE calls'
    /\ UNCHANGED <<adbVars, deviceVars, historyVars>>

Step(c, from, to) ==
    /\ phase[c] = from
    /\ phase' = [phase EXCEPT ![c] = to]

\* waitBootComplete: an attempt sees the signal before it asks adb, and not
\* after.
Attempt(c) ==
    /\ Step(c, "waiting", "asking")
    /\ c \notin aborted
    /\ device[c] \in plugged
    /\ UNCHANGED <<adbVars, calls, device, abortControl, aborted, listVars, deviceVars, historyVars>>

NotBooted(c) ==
    /\ Step(c, "asking", "waiting")
    /\ UNCHANGED <<adbVars, calls, device, abortControl, aborted, listVars, deviceVars, historyVars>>

\* cancelAbort drops whatever controller the map has for the device.
Booted(c) ==
    /\ Step(c, "asking", "reading")
    /\ abortControl' = [abortControl EXCEPT ![device[c]] = 0]
    /\ UNCHANGED <<adbVars, calls, device, aborted, listVars, deviceVars, historyVars>>

\* After 60 s the wait is given up.  newDeviceConnected swallows this error, and
\* every other: nothing looks at the device again before adb's next report of it.
GiveUp(c) ==
    /\ \E from \in {"waiting", "asking"} : Step(c, from, "done")
    /\ aborted' = aborted \ {c}
    /\ unheard' = unheard \ {c}
    /\ swallowed' = IF c \in aborted \/ device[c] \notin plugged THEN swallowed
                    ELSE swallowed \cup {c}
    /\ UNCHANGED <<adbVars, calls, device, abortControl, listVars, deviceVars, dropped, overtaken>>

\* The properties and totals of the device, which adb has only of a device that
\* is there, and may fail to give.
ReadProperties(c) ==
    /\ device[c] \in plugged
    /\ Step(c, "reading", "read")
    /\ UNCHANGED <<adbVars, calls, device, abortControl, aborted, listVars, deviceVars, historyVars>>

ReadFails(c) ==
    /\ Step(c, "reading", "done")
    /\ swallowed' = IF device[c] \in plugged THEN swallowed \cup {c} ELSE swallowed
    /\ UNCHANGED <<adbVars, calls, device, abortControl, aborted, listVars, deviceVars, unheard,
                   dropped, overtaken>>

\* Faulty variant: the tracker emits the device and does not keep it.
AnnounceOnly(c) ==
    /\ Step(c, "read", "done")
    /\ sent' = [sent EXCEPT ![device[c]] = c]
    /\ init' = init \cup {c}
    /\ UNCHANGED <<adbVars, calls, device, abortControl, aborted, listVars, cache,
                   controllers, historyVars>>

\* Faulty variant: the call does not end with the announcement.
AnnounceUnended(c) ==
    /\ phase[c] = "read"
    /\ cache' = [cache EXCEPT ![device[c]] = c]
    /\ sent' = [sent EXCEPT ![device[c]] = c]
    /\ init' = init \cup {c}
    /\ UNCHANGED <<adbVars, callVars, listVars, controllers, historyVars>>

\* device_connected: the remote control begins to initialize a controller, and
\* DeviceManager tells the hub at once.
Announce(c) ==
    /\ Step(c, "read", "done")
    /\ cache' = [cache EXCEPT ![device[c]] = c]
    /\ sent' = [sent EXCEPT ![device[c]] = c]
    /\ init' = init \cup {c}
    /\ UNCHANGED <<adbVars, calls, device, abortControl, aborted, listVars, controllers,
                   historyVars>>

-----------------------------------------------------------------------------
(* Removal.                                                                *)

\* The lookup is aborted, if the map has its controller.
Abort(d) ==
    /\ aborted' = IF abortControl[d] # 0 THEN aborted \cup {abortControl[d]} ELSE aborted
    /\ unheard' = unheard \cup
            {c \in Running(d) : phase[c] # "waiting" \/ c \notin aborted'}
    /\ UNCHANGED <<deviceVars, overtaken, swallowed>>

\* Faulty variant: the controller is stopped and stays in the map.
RemoveKeepsController(d) ==
    /\ cache' = [cache EXCEPT ![d] = 0]
    /\ sent' = [sent EXCEPT ![d] = 0]
    /\ overtaken' = overtaken \cup {c \in init : device[c] = d}
    /\ unheard' = unheard \cup Running(d)
    /\ UNCHANGED <<init, controllers, aborted, swallowed>>

\* device_removed: the controller stops, if it is in the map, and leaves it;
\* DeviceManager tells the hub.
Remove(d) ==
    /\ cache' = [cache EXCEPT ![d] = 0]
    /\ sent' = [sent EXCEPT ![d] = 0]
    /\ controllers' = [controllers EXCEPT ![d] = 0]
    /\ overtaken' = overtaken \cup {c \in init : device[c] = d}
    /\ unheard' = unheard \cup Running(d)
    /\ UNCHANGED <<init, aborted, swallowed>>

OnRemove(d) ==
    /\ events[d] # <<>> /\ Head(events[d]) = "remove"
    /\ events' = [events EXCEPT ![d] = Tail(@)]
    /\ IF cache[d] = 0 THEN Abort(d) ELSE Remove(d)
    /\ dropped' = dropped \ {d}
    /\ UNCHANGED <<plugged, reports, calls, device, phase, abortControl, listVars>>

\* initialize() of the remote controller ends, whatever it found.
Initialized(c) ==
    /\ c \in init
    /\ init' = init \ {c}
    /\ controllers' = [controllers EXCEPT ![device[c]] = c]
    /\ UNCHANGED <<adbVars, callVars, listVars, cache, sent, historyVars>>

-----------------------------------------------------------------------------

AdbStep ==
    \/ \E d \in Devices : Plug(d) \/ Unplug(d)
    \/ StartTracker

EventStep == \E d \in Devices : OnAdd(d) \/ OnRemove(d) \/ LoadDevice(d)

CallStep ==
    \E c \in Calls :
        \/ Attempt(c) \/ NotBooted(c) \/ Booted(c) \/ GiveUp(c)
        \/ ReadProperties(c) \/ ReadFails(c) \/ Announce(c) \/ Initialized(c)

Work ==
    /\ AdbStep \/ ListDevices \/ EventStep \/ CallStep
    /\ UNCHANGED ended

Next ==
    /\ ~ended
    /\ Work \/ NoTracker

Spec == Init /\ [][Next]_vars

WhileUp(A) == ~ended /\ A /\ UNCHANGED ended

\* Adb delivers its events and answers or fails, and what is resolved is
\* continued; asked again and again, a device that has booted says so unless the
\* lookup fails first.  Nothing is assumed of who plugs devices.
FairSpec ==
    /\ Spec
    /\ \A d \in Devices : WF_vars(WhileUp(OnAdd(d) \/ OnRemove(d)))
    /\ \A c \in Calls :
        /\ WF_vars(WhileUp(Attempt(c) \/ ReadProperties(c) \/ ReadFails(c) \/ Announce(c)))
        /\ SF_vars(WhileUp(Booted(c)))

-----------------------------------------------------------------------------
(* Properties.                                                             *)

\* The hub and the plugin do not keep a device that is gone, once its removal
\* was handled, apart from two cases: the lookup that announced it was past the
\* look at its abort signal, or had lost its controller to another lookup or to
\* cancelAbort; or the removal was lost between two trackers
\* (android.ts:45-64, 77-80, 114-124).
GoneIsForgotten ==
    \A d \in Devices :
        sent[d] # 0 /\ d \notin plugged /\ events[d] = <<>>
            => sent[d] \in unheard \/ d \in dropped

\* A controller stays in the map without its device only if the device went
\* while the controller was initialized (remote-control/index.ts:25-43).
ControllerHasDevice ==
    \A d \in Devices :
        controllers[d] # 0 /\ cache[d] = 0 => controllers[d] \in overtaken

\* The latest lookup of d has failed although d was there.
Swallowed(d) ==
    \E c \in swallowed :
        device[c] = d /\ \A later \in c + 1 .. calls : device[later] # d

\* A device that stays is announced in the end and remains so, whatever was
\* aborted, listed or lost before, unless its latest lookup failed although the
\* device was there: after 60 s without a boot, or by an error of adb, which
\* newDeviceConnected swallows; and unless the plugin has ended, because adb gave
\* no tracker in place of one that had ended (android.ts:45-112, adb-utils.ts:37-57).
PluggedIsAnnounced ==
    \A d \in Devices :
        <>[](d \in plugged) => <>[](sent[d] # 0) \/ <>[]Swallowed(d) \/ <>ended
=============================================================================
