----------------------------- MODULE StreamHub -----------------------------
(***************************************************************************)
(* The stream endpoint of the hub: browsers that watch a device, one of    *)
(* which may control it (server/socket/services/stream/stream-controller), *)
(* the room of the device, the stream commands the hub sends to the node   *)
(* (hub/controllers/proxy/remote-stream-controller) and the activeControl- *)
(* User that NodeManager keeps in the GridDevice.                          *)
(*                                                                         *)
(* One lock serves all clients.  A start reads the Node object, the device *)
(* and the node's stream controller before it asks for the lock and uses   *)
(* them inside it; meanwhile the node may register anew or the device be   *)
(* plugged in again, which replaces the objects.  Waiting for the lock and *)
(* the awaits inside it may take any number of turns of the event loop;    *)
(* the order in which the lock is granted is left open: ExecuteLock is a   *)
(* library's.                                                              *)
(*                                                                         *)
(* A start may so be granted when its client has disconnected, even after  *)
(* the client's own handler, and nothing in the start asks for that.  What *)
(* join() does then is socket.io's business (since 4.5.0 it does nothing,  *)
(* before it let the dead socket into the room): both are allowed.  Such a *)
(* client is called a ghost.                                               *)
(***************************************************************************)
EXTENDS Naturals, FiniteSets

CONSTANTS
    Clients,      \* stream sockets
    Users,        \* whom they belong to
    Nobody,       \* the null of activeControlUser
    UserOf,       \* the user of a client
    Devices,      \* the devices of the node
    DeviceOf,     \* the device a client's handshake names
    MaxNodes,     \* bound: registrations of the node
    MaxObjects    \* bound: GridDevice objects made for one device

ASSUME StreamAssumption ==
    /\ UserOf \in [Clients -> Users]
    /\ DeviceOf \in [Clients -> Devices]
    /\ Nobody \notin Users \cup Clients
    /\ MaxNodes \in Nat
    /\ MaxObjects \in Nat

VARIABLES
    sock,       \* the sockets of the clients
    room,       \* the sockets in the stream room of a device
    node,       \* the Node object registered, 0 if none
    isActive,   \* the Node objects with isActive
    present,    \* the devices the registered Node object holds
    object,     \* the number of the latest GridDevice object of a device
    owner,      \* activeControlUser of each GridDevice object
    starting,   \* starts that wait for the lock, with what they have read
    leaving,    \* disconnected clients whose handler waits for the lock or has it
    holder,     \* the disconnected client whose handler has the lock
    stage,      \* and how far it is
    told,       \* told[n][d]: the last stream command for d sent on Node object n's socket
    ghosts,     \* history: clients whose start was granted when they had gone and nobody
                \* was left to undo it, until the device is stopped
    via         \* the Node object through which a client last started

clientVars == <<sock, room, via, ghosts>>
nodeVars == <<node, isActive, present, object>>
lockVars == <<starting, leaving, holder, stage>>
vars == <<clientVars, nodeVars, owner, lockVars, told>>

NodeObjects == 1 .. MaxNodes
Objects == 1 .. MaxObjects

StartTask ==
    [client : Clients, control : BOOLEAN, node : {0} \cup NodeObjects, object : {0} \cup Objects]

TypeOK ==
    /\ sock \in [Clients -> {"new", "open", "closed"}]
    /\ room \in [Devices -> SUBSET Clients]
    /\ node \in {0} \cup NodeObjects
    /\ isActive \subseteq NodeObjects
    /\ present \subseteq Devices
    /\ object \in [Devices -> {0} \cup Objects]
    /\ \A d \in present : object[d] # 0
    /\ owner \in [Devices -> [Objects -> Users \cup {Nobody}]]
    /\ starting \subseteq StartTask
    /\ leaving \subseteq Clients
    /\ holder \in leaving \cup {Nobody}
    /\ stage \in {"free", "empty", "stopping"}
    /\ (stage = "free") = (holder = Nobody)
    /\ told \in [NodeObjects -> [Devices -> {"none", "start", "stop"}]]
    /\ via \in [Clients -> {0} \cup NodeObjects]
    /\ ghosts \subseteq Clients

Init ==
    /\ sock = [c \in Clients |-> "new"]
    /\ room = [d \in Devices |-> {}]
    /\ node = 0 /\ isActive = {} /\ present = {}
    /\ object = [d \in Devices |-> 0]
    /\ owner = [d \in Devices |-> [o \in Objects |-> Nobody]]
    /\ starting = {} /\ leaving = {} /\ holder = Nobody /\ stage = "free"
    /\ told = [n \in NodeObjects |-> [d \in Devices |-> "none"]]
    /\ via = [c \in Clients |-> 0]
    /\ ghosts = {}

-----------------------------------------------------------------------------
(* The node, as NodeManager sees it.                                       *)

\* A new, active Node object with new GridDevices, which nobody controls.
RegisterNewNode(devices) ==
    /\ node < MaxNodes
    /\ \A d \in devices : object[d] < MaxObjects
    /\ node' = node + 1
    /\ isActive' = isActive \cup {node'}
    /\ present' = devices
    /\ object' = [d \in Devices |-> IF d \in devices THEN object[d] + 1 ELSE object[d]]
    /\ UNCHANGED <<clientVars, owner, lockVars, told>>

\* Only the Node object that is registered goes offline.
MakeNodeInactive ==
    /\ node \in isActive
    /\ isActive' = isActive \ {node}
    /\ UNCHANGED <<clientVars, node, present, object, owner, lockVars, told>>

OnNewDeviceConnected(d) ==
    /\ node # 0
    /\ object[d] < MaxObjects
    /\ present' = present \cup {d}
    /\ object' = [object EXCEPT ![d] = @ + 1]
    /\ UNCHANGED <<clientVars, node, isActive, owner, lockVars, told>>

OnDeviceDisconnected(d) ==
    /\ d \in present
    /\ present' = present \ {d}
    /\ UNCHANGED <<clientVars, node, isActive, object, owner, lockVars, told>>

\* NodeManager.deviceControlStarted and deviceControlStopped look the device
\* up in the Node object that is registered now.
SetOwner(d, user) ==
    owner' = IF d \in present THEN [owner EXCEPT ![d][object[d]] = user] ELSE owner

-----------------------------------------------------------------------------
(* The clients.                                                            *)

OnConnection(c) ==
    /\ sock[c] = "new"
    /\ sock' = [sock EXCEPT ![c] = "open"]
    /\ UNCHANGED <<room, via, ghosts, nodeVars, owner, lockVars, told>>

\* STREAM_START: read node, device and controller, then wait for the lock.
\* Bound: one start of a client waits at a time.
OnStartStream(c, control) ==
    LET d == DeviceOf[c] IN
    /\ sock[c] = "open"
    /\ \A t \in starting : t.client # c
    /\ starting' = starting \cup
            {[client |-> c, control |-> control, node |-> node,
              object |-> IF d \in present THEN object[d] ELSE 0]}
    /\ UNCHANGED <<clientVars, nodeVars, owner, leaving, holder, stage, told>>

\* Socket.io takes the socket out of its rooms before the handler runs.
OnDisconnect(c) ==
    /\ sock[c] = "open"
    /\ sock' = [sock EXCEPT ![c] = "closed"]
    /\ room' = [room EXCEPT ![DeviceOf[c]] = @ \ {c}]
    /\ leaving' = leaving \cup {c}
    /\ UNCHANGED <<via, ghosts, nodeVars, owner, starting, holder, stage, told>>

-----------------------------------------------------------------------------
(* Inside the lock.                                                        *)

LockIsFree == stage = "free"

\* The Node object read was active, and it had the device.
IsAvailable(t) == t.node \in isActive /\ t.object # 0

\* Somebody controls the device, according to the GridDevice that was read.
IsControlled(t) == owner[DeviceOf[t.client]][t.object] # Nobody

\* STREAM_NOT_AVAILABLE: no such node or device, or control is taken.
RefuseStream(t) ==
    /\ LockIsFree
    /\ t \in starting
    /\ IsAvailable(t) => t.control /\ IsControlled(t)
    /\ starting' = starting \ {t}
    /\ UNCHANGED <<clientVars, nodeVars, owner, leaving, holder, stage, told>>

\* RemoteStreamController: the client joins the room, connected still or, with
\* or without effect, not, and STREAM_START goes to the node; STREAM_STOP ends it.
StartStreaming(n, d, c) ==
    /\ \/ room' = [room EXCEPT ![d] = @ \cup {c}]
       \/ sock[c] = "closed" /\ UNCHANGED room
    /\ ghosts' = IF sock[c] = "closed" /\ (c \in room'[d] \/ c \notin leaving)
                 THEN ghosts \cup {c} ELSE ghosts
    /\ told' = [told EXCEPT ![n][d] = "start"]

StopStreaming(n, d) == told' = [told EXCEPT ![n][d] = "stop"]

\* Faulty variant: the start does not wait for the lock.
StartWithoutLock(t) ==
    LET d == DeviceOf[t.client] IN
    /\ t \in starting
    /\ IsAvailable(t)
    /\ t.control => ~IsControlled(t)
    /\ IF t.control THEN SetOwner(d, UserOf[t.client]) ELSE UNCHANGED owner
    /\ StartStreaming(t.node, d, t.client)
    /\ via' = [via EXCEPT ![t.client] = t.node]
    /\ starting' = starting \ {t}
    /\ UNCHANGED <<sock, nodeVars, leaving, holder, stage>>

\* Faulty variant: control is not checked.
StartWithoutCheck(t) ==
    LET d == DeviceOf[t.client] IN
    /\ LockIsFree
    /\ t \in starting
    /\ IsAvailable(t)
    /\ IF t.control THEN SetOwner(d, UserOf[t.client]) ELSE UNCHANGED owner
    /\ StartStreaming(t.node, d, t.client)
    /\ via' = [via EXCEPT ![t.client] = t.node]
    /\ starting' = starting \ {t}
    /\ UNCHANGED <<sock, nodeVars, leaving, holder, stage>>

\* The stream starts through the Node object that was read; control is noted
\* in the one that is registered.
StartStream(t) ==
    LET d == DeviceOf[t.client] IN
    /\ LockIsFree
    /\ t \in starting
    /\ IsAvailable(t)
    /\ t.control => ~IsControlled(t)
    /\ IF t.control THEN SetOwner(d, UserOf[t.client]) ELSE UNCHANGED owner
    /\ StartStreaming(t.node, d, t.client)
    /\ via' = [via EXCEPT ![t.client] = t.node]
    /\ starting' = starting \ {t}
    /\ UNCHANGED <<sock, nodeVars, leaving, holder, stage>>

\* Faulty variant: the handler ends without a look at the number of sockets.
KeepAlways(c) ==
    /\ LockIsFree
    /\ c \in leaving
    /\ leaving' = leaving \ {c}
    /\ UNCHANGED <<clientVars, nodeVars, owner, starting, holder, stage, told>>

\* The handler of a disconnect counts the sockets in the room: with viewers
\* left there is nothing to stop.
KeepStream(c) ==
    /\ LockIsFree
    /\ c \in leaving
    /\ room[DeviceOf[c]] # {}
    /\ leaving' = leaving \ {c}
    /\ UNCHANGED <<clientVars, nodeVars, owner, starting, holder, stage, told>>

LeaveEmptyRoom(c) ==
    /\ LockIsFree
    /\ c \in leaving
    /\ room[DeviceOf[c]] = {}
    /\ holder' = c
    /\ stage' = "empty"
    /\ UNCHANGED <<clientVars, nodeVars, owner, starting, leaving, told>>

\* Faulty variant: the lock forgets to forget its holder.
ReleaseKeepsHolder ==
    /\ leaving' = leaving \ {holder}
    /\ stage' = "free"
    /\ UNCHANGED holder

ReleaseLock ==
    /\ leaving' = leaving \ {holder}
    /\ holder' = Nobody
    /\ stage' = "free"

\* stopStream: STREAM_STOP goes to the node registered now, if it is active.
StopStream ==
    /\ stage = "empty"
    /\ IF node \in isActive
       THEN /\ StopStreaming(node, DeviceOf[holder])
            /\ stage' = "stopping"
            /\ UNCHANGED <<leaving, holder>>
       ELSE /\ ReleaseLock
            /\ UNCHANGED told
    /\ UNCHANGED <<clientVars, nodeVars, owner, starting>>

ForgetGhosts(d) == ghosts' = {c \in ghosts : DeviceOf[c] # d}

\* Faulty variant: the stream ends, control does not.
StopWithoutControl ==
    /\ stage = "stopping"
    /\ ForgetGhosts(DeviceOf[holder])
    /\ ReleaseLock
    /\ UNCHANGED <<sock, room, via, nodeVars, owner, starting, told>>

DeviceControlStopped ==
    /\ stage = "stopping"
    /\ SetOwner(DeviceOf[holder], Nobody)
    /\ ForgetGhosts(DeviceOf[holder])
    /\ ReleaseLock
    /\ UNCHANGED <<sock, room, via, nodeVars, starting, told>>

-----------------------------------------------------------------------------

NodeStep ==
    \/ \E devices \in SUBSET Devices : RegisterNewNode(devices)
    \/ MakeNodeInactive
    \/ \E d \in Devices : OnNewDeviceConnected(d) \/ OnDeviceDisconnected(d)

ClientStep ==
    \E c \in Clients :
        \/ OnConnection(c)
        \/ \E control \in BOOLEAN : OnStartStream(c, control)
        \/ OnDisconnect(c)

LockStep ==
    \/ \E t \in starting : RefuseStream(t) \/ StartStream(t)
    \/ \E c \in Clients : KeepStream(c) \/ LeaveEmptyRoom(c)
    \/ StopStream
    \/ DeviceControlStopped

Next == NodeStep \/ ClientStep \/ LockStep

Spec == Init /\ [][Next]_vars

\* Who holds the lock goes on, and a disconnected client's handler that waits
\* for it gets it: starts do not keep it out for ever.
FairSpec ==
    /\ Spec
    /\ WF_vars(StopStream) /\ WF_vars(DeviceControlStopped)
    /\ \A c \in Clients : SF_vars(KeepStream(c) \/ LeaveEmptyRoom(c))

-----------------------------------------------------------------------------
(* Properties.                                                             *)

\* Who controls device d, as its present GridDevice says.
ControlOf(d) == IF d \in present THEN owner[d][object[d]] ELSE Nobody

\* A client in the room that started through the Node object registered now
\* has its stream: the last command sent to the node is a start, whatever
\* leaves, starts and lost connections came in between.  This is what counting
\* the room and stopping the stream under one lock is for
\* (stream-controller.ts:45-56, 69-88).
ViewersAreServed ==
    \A c \in Clients :
        LET d == DeviceOf[c] IN
        c \in room[d] /\ via[c] = node => told[node][d] = "start"

\* The connected clients that watch a device.
Viewers(d) == {c \in room[d] : sock[c] = "open"}

\* A start of a client that had gone was granted for the device.
Haunted(d) == \E c \in ghosts : DeviceOf[c] = d

\* A device of an active node is under control only while a connected client
\* is in its room or the handler of one who left is still to come.  Control is
\* kept for nobody in one case: a start was granted to a client that had
\* disconnected, which either took control after everybody had left or put its
\* dead socket into the room (stream-controller.ts:45-56, 69-88, 91-101).
ControlIsWatched ==
    \A d \in Devices :
        node \in isActive /\ ControlOf(d) # Nobody =>
            Viewers(d) # {} \/ (\E c \in leaving : DeviceOf[c] = d) \/ Haunted(d)

\* While the GridDevice is the same, control ends only when the room is empty:
\* a handler that found the room empty does not take control from a client
\* that came after (stream-controller.ts:46-53).
ControlEndsInEmptyRoom ==
    [][\A d \in Devices :
        object'[d] = object[d] /\ d \in present /\ d \in present'
            /\ ControlOf(d) # Nobody /\ ControlOf(d)' = Nobody => room[d] = {}]_vars

\* Control is never taken over from another user, unless the start that takes
\* it has waited for the lock while the GridDevice it had read was replaced
\* (stream-controller.ts:64-65, 78-79).
ControlIsNotTakenOver ==
    [][\A d \in Devices :
        /\ object'[d] = object[d] /\ d \in present /\ d \in present'
        /\ ControlOf(d) # Nobody /\ ControlOf(d)' \notin {ControlOf(d), Nobody}
        => \E t \in starting \ starting' : DeviceOf[t.client] = d /\ t.object # object[d]]_vars

\* "Device is currently used by <username>" (stream-controller.ts:83): a client
\* that is refused control is told so, hence the user who has control is there,
\* or has just left.  In fact control stays while anybody else views the device;
\* a room with only connected sockets in it will do.
RefusedOnlyWhileUsed ==
    [][\A t \in starting \ starting' :
        LET d == DeviceOf[t.client] IN
        /\ IsAvailable(t) /\ t.control /\ IsControlled(t)
        /\ \A c \in room[d] : sock[c] = "open"
        => \E c \in Clients :
                /\ sock[c] = "open" \/ c \in leaving
                /\ UserOf[c] = owner[d][t.object]]_vars

\* A node that streams a device without a connected viewer is told to stop,
\* unless it goes offline, registers anew, somebody comes to watch, or a start
\* was granted to a client that had disconnected: such a stream may run until
\* the next viewer has come and gone (stream-controller.ts:51-53, 69-101).
UnwatchedStreamStops ==
    \A d \in Devices, n \in NodeObjects :
        node = n /\ told[n][d] = "start" /\ Viewers(d) = {}
            ~> \/ told[n][d] = "stop" \/ Viewers(d) # {} \/ Haunted(d)
               \/ node # n \/ n \notin isActive
=============================================================================
