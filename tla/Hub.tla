-------------------------------- MODULE Hub --------------------------------
(***************************************************************************)
(* The hub of the grid: the Distributor that serves "new session" requests *)
(* (packages/hub/src/automation), the NodeManager and SessionManager it    *)
(* reads (packages/hub/src/nodes), the WebDriver endpoint that drives it   *)
(* (server/express/webdriver) and the socket handlers through which the    *)
(* nodes change the same state (server/socket/services/hub).               *)
(*                                                                         *)
(* The system is open: the nodes may send any message that type-checks at  *)
(* any time, clients may send, drop and delete at any time, timers fire at *)
(* any time.  Grid.tla closes it with the plugin that runs in a node.      *)
(*                                                                         *)
(* Event loop.  The hub is one Node.js process.  A handler runs to its     *)
(* first await; what follows an await is an action of its own.  The        *)
(* continuation of a resolved promise runs before the next socket message, *)
(* request or timer, so between device.block() in the distributor's lock   *)
(* and blockedDevicePool.addDevice() only other promise continuations run: *)
(* NewTurn guards every action that an outside event starts.  Acquiring    *)
(* the lock, on the other hand, may take any number of turns.              *)
(*                                                                         *)
(* The end of the hub.  A call to a node that times out ends the process:  *)
(* processWdCommandResponse answers the call and goes on to read the       *)
(* answer that did not come (execution-controller.ts:62-74), a TypeError   *)
(* in an async function nobody awaits, and Node.js (18, see package.json)  *)
(* ends at a rejection nobody handles.  The continuations that the answer  *)
(* started run first.  No code of the repository starts the hub again.     *)
(***************************************************************************)
EXTENDS Naturals, FiniteSets

CONSTANTS
    Requests,        \* POST /session requests; the session a request creates has its name
    Deletes,         \* DELETE /session/:id requests
    Nodes,           \* node ids, uuid(hostname:appiumPort)
    Devices,         \* udids
    NoDevice,        \* a key that is no udid
    HostOf,          \* the node a device is plugged into
    Matches,         \* the devices that satisfy the capabilities of a request
    MaxConnections   \* bound: connections one node makes to the hub

ASSUME HubAssumption ==
    /\ HostOf \in [Devices -> Nodes]
    /\ Matches \in [Requests -> SUBSET Devices]
    /\ NoDevice \notin Devices
    /\ MaxConnections \in Nat

VARIABLES
    hub,       \* the process: "up", "owing" (up, and the timer of a call that was
               \* flushed may still run) or "ended"
    conn,      \* conn[n][g]: the hub's view of the g-th connection of node n
    nodeMap,   \* NodeManager.nodeMap: the connection whose Node object is registered, 0 if none
    active,    \* the nodes whose Node object has isActive
    device,    \* the GridDevices the registered Node objects hold
    busy,      \* the GridDevices that are blocked
    control,   \* the GridDevices that have an activeControlUser
    pool,      \* BlockedAutomationDevicePool
    pc,        \* where createNewSession stands, per request
    dev,       \* the device the request was given
    via,       \* the connection of the Node object the request was given
    closed,    \* requests whose socket closed while the listener was on
    late,      \* requests answered 400 because asyncWait timed out
    session,   \* SessionManager.sessionMap: the device of a session
    delUsed,   \* DELETE requests that were accepted
    deletes    \* outstanding DELETE calls: <<delete, session, connection>>

connVars    == <<conn, nodeMap, active>>
deviceVars  == <<device, busy, control>>
requestVars == <<pc, dev, via, closed, late>>
deleteVars  == <<delUsed, deletes>>
vars == <<hub, connVars, deviceVars, pool, requestVars, session, deleteVars>>

Conns == 1 .. MaxConnections

PC == {"idle",       \* not sent yet
       "polling",    \* in asyncWait, between two attempts
       "queued",     \* in an attempt, waiting for the distributor's lock
       "matched",    \* device.block() done, result on its way out of the lock
       "pooled",     \* addDevice() done, asyncWait about to resolve
       "calling",    \* createSession proxied to the node
       "abandoned",  \* the attempt found a device after asyncWait had given up
       "done"}       \* answered, or dropped because the client went away

TypeOK ==
    /\ hub \in {"up", "owing", "ended"}
    /\ conn \in [Nodes -> [Conns -> {"none", "open", "closed"}]]
    /\ nodeMap \in [Nodes -> {0} \cup Conns]
    /\ active \subseteq Nodes
    /\ device \subseteq Devices
    /\ busy \subseteq device
    /\ control \subseteq device
    /\ pool \subseteq Devices
    /\ pc \in [Requests -> PC]
    /\ dev \in [Requests -> Devices \cup {NoDevice}]
    /\ via \in [Requests -> {0} \cup Conns]
    /\ closed \subseteq Requests
    /\ late \subseteq Requests
    /\ session \in [Requests -> Devices \cup {NoDevice}]
    /\ delUsed \subseteq Deletes
    /\ deletes \subseteq Deletes \X Requests \X Conns

Init ==
    /\ hub = "up"
    /\ conn = [n \in Nodes |-> [g \in Conns |-> "none"]]
    /\ nodeMap = [n \in Nodes |-> 0]
    /\ active = {} /\ device = {} /\ busy = {} /\ control = {} /\ pool = {}
    /\ pc = [r \in Requests |-> "idle"]
    /\ dev = [r \in Requests |-> NoDevice]
    /\ via = [r \in Requests |-> 0]
    /\ closed = {} /\ late = {}
    /\ session = [r \in Requests |-> NoDevice]
    /\ delUsed = {} /\ deletes = {}

-----------------------------------------------------------------------------
(* Helpers.                                                                *)

DevicesOf(n) == {d \in Devices : HostOf[d] = n}

\* The hub takes up an event: no continuation is pending between the lock and
\* the pool.
NewTurn == hub # "ended" /\ \A r \in Requests : pc[r] # "matched"

\* Faulty variant: the pool is not consulted.
FreeDevicesWithoutPool(r) ==
    {d \in Matches[r] \cap device : HostOf[d] \in active /\ d \notin busy \cup control}

\* findDevicesForCapability over the active nodes: not blocked, not under
\* manual control, matching, and not in the pool.
FreeDevicesFor(r) ==
    {d \in Matches[r] \cap device :
        HostOf[d] \in active /\ d \notin busy \cup control \cup pool}

\* SessionManager.addSession never replaces an entry.
AddSession(r, d) ==
    session' = IF session[r] = NoDevice THEN [session EXCEPT ![r] = d] ELSE session

-----------------------------------------------------------------------------
(* Nodes: connections, registration, devices.                              *)

\* A socket of the node reaches the hub; the handlers are attached.
Connect(n, g) ==
    /\ NewTurn
    /\ conn[n][g] = "none"
    /\ \A h \in Conns : h < g => conn[n][h] # "none"
    /\ conn' = [conn EXCEPT ![n][g] = "open"]
    /\ UNCHANGED <<hub, nodeMap, active, deviceVars, pool, requestVars, session, deleteVars>>

\* A new Node object, active, with new GridDevices, replaces the old one.
RegisterNewNode(n, g, devices, blocked) ==
    /\ NewTurn
    /\ conn[n][g] = "open"
    /\ nodeMap' = [nodeMap EXCEPT ![n] = g]
    /\ active' = active \cup {n}
    /\ device' = (device \ DevicesOf(n)) \cup devices
    /\ busy' = (busy \ DevicesOf(n)) \cup blocked
    /\ control' = control \ DevicesOf(n)
    /\ UNCHANGED <<hub, conn, pool, requestVars, session, deleteVars>>

\* The requests and DELETEs whose call is queued on connection g of node n.
QueuedRequests(n, g) ==
    {r \in Requests : pc[r] = "calling" /\ via[r] = g /\ HostOf[dev[r]] = n}
QueuedDeletes(n, g) ==
    {k \in deletes : k[3] = g /\ session[k[2]] \in DevicesOf(n)}

\* Faulty variant: the queue is flushed, the devices stay in the pool.
DisconnectKeepsPool(n, g) ==
    /\ NewTurn
    /\ conn[n][g] = "open"
    /\ conn' = [conn EXCEPT ![n][g] = "closed"]
    /\ active' = active \ {n}
    /\ pc' = [r \in Requests |-> IF r \in QueuedRequests(n, g) THEN "done" ELSE pc[r]]
    /\ deletes' = deletes \ QueuedDeletes(n, g)
    /\ busy' = busy \ {session[k[2]] : k \in QueuedDeletes(n, g)}
    /\ hub' = IF QueuedRequests(n, g) = {} /\ QueuedDeletes(n, g) = {} THEN hub ELSE "owing"
    /\ UNCHANGED <<nodeMap, device, control, pool, dev, via, closed, late, session, delUsed>>

\* The hub notices that the connection is gone: setNodeOffline(nodeId), and
\* every call queued on this connection resolves with an error.  Nothing stops
\* the timers of these calls.
Disconnect(n, g) ==
    /\ NewTurn
    /\ conn[n][g] = "open"
    /\ conn' = [conn EXCEPT ![n][g] = "closed"]
    /\ active' = active \ {n}
    /\ pc' = [r \in Requests |-> IF r \in QueuedRequests(n, g) THEN "done" ELSE pc[r]]
    /\ pool' = pool \ {dev[r] : r \in QueuedRequests(n, g)}
    /\ deletes' = deletes \ QueuedDeletes(n, g)
    /\ busy' = busy \ {session[k[2]] : k \in QueuedDeletes(n, g)}
    /\ hub' = IF QueuedRequests(n, g) = {} /\ QueuedDeletes(n, g) = {} THEN hub ELSE "owing"
    /\ UNCHANGED <<nodeMap, device, control, dev, via, closed, late, session, delUsed>>

\* DEVICE_CONNECTED: a new GridDevice replaces one with the same udid.
OnNewDeviceConnected(n, g, d, blocked) ==
    /\ NewTurn
    /\ conn[n][g] = "open"
    /\ d \in DevicesOf(n)
    /\ IF nodeMap[n] # 0
       THEN /\ device' = device \cup {d}
            /\ busy' = IF blocked THEN busy \cup {d} ELSE busy \ {d}
            /\ control' = control \ {d}
       ELSE UNCHANGED deviceVars
    /\ UNCHANGED <<hub, connVars, pool, requestVars, session, deleteVars>>

\* Faulty variant: the flags of the device outlive it.
ForgetOnlyDevice(n, g, d) ==
    /\ NewTurn
    /\ conn[n][g] = "open"
    /\ d \in DevicesOf(n)
    /\ device' = device \ {d}
    /\ UNCHANGED <<hub, connVars, busy, control, pool, requestVars, session, deleteVars>>

OnDeviceDisconnected(n, g, d) ==
    /\ NewTurn
    /\ conn[n][g] = "open"
    /\ d \in DevicesOf(n)
    /\ device' = device \ {d} /\ busy' = busy \ {d} /\ control' = control \ {d}
    /\ UNCHANGED <<hub, connVars, pool, requestVars, session, deleteVars>>

\* Node.blockDevice and Node.unBlockDevice ignore a key they do not hold.
BlockDevice(n, g, key) ==
    /\ NewTurn
    /\ conn[n][g] = "open"
    /\ key \in DevicesOf(n)
    /\ busy' = busy \cup ({key} \cap device)
    /\ UNCHANGED <<hub, connVars, device, control, pool, requestVars, session, deleteVars>>

UnblockDevice(n, g, key) ==
    /\ NewTurn
    /\ conn[n][g] = "open"
    /\ key \in DevicesOf(n) \cup {NoDevice}
    /\ busy' = busy \ {key}
    /\ UNCHANGED <<hub, connVars, device, control, pool, requestVars, session, deleteVars>>

\* session:new: remember the session, block its device.
OnNewSession(n, g, r, d) ==
    /\ NewTurn
    /\ conn[n][g] = "open"
    /\ d \in DevicesOf(n)
    /\ AddSession(r, d)
    /\ busy' = busy \cup ({d} \cap device)
    /\ UNCHANGED <<hub, connVars, device, control, pool, requestVars, deleteVars>>

\* NodeManager.deviceControlStarted / deviceControlStopped, for the streams.
DeviceControlStarted(d) ==
    /\ NewTurn
    /\ d \in device
    /\ control' = control \cup {d}
    /\ UNCHANGED <<hub, connVars, device, busy, pool, requestVars, session, deleteVars>>

DeviceControlStopped(d) ==
    /\ NewTurn
    /\ d \in control
    /\ control' = control \ {d}
    /\ UNCHANGED <<hub, connVars, device, busy, pool, requestVars, session, deleteVars>>

-----------------------------------------------------------------------------
(* Distributor.createNewSession.                                           *)

SetPC(r, from, to) == pc[r] = from /\ pc' = [pc EXCEPT ![r] = to]

HandleNewSession(r) ==
    /\ NewTurn
    /\ SetPC(r, "idle", "polling")
    /\ UNCHANGED <<hub, connVars, deviceVars, pool, dev, via, closed, late, session, deleteVars>>

\* The client closes its socket before the listener is taken off.
OnRequestClosed(r) ==
    /\ NewTurn
    /\ pc[r] \in {"polling", "queued", "pooled"} /\ r \notin late
    /\ closed' = closed \cup {r}
    /\ UNCHANGED <<hub, connVars, deviceVars, pool, pc, dev, via, late, session, deleteVars>>

\* One attempt of asyncWait: a closed request resolves it, any other asks
\* for the distributor's lock.
Attempt(r) ==
    /\ NewTurn
    /\ SetPC(r, "polling", IF r \in closed THEN "done" ELSE "queued")
    /\ UNCHANGED <<hub, connVars, deviceVars, pool, dev, via, closed, late, session, deleteVars>>

\* Faulty variant: the device is found under the lock, but not blocked there.
FindWithoutBlock(r) ==
    \E d \in FreeDevicesFor(r) :
        /\ hub # "ended" /\ SetPC(r, "queued", "matched")
        /\ dev' = [dev EXCEPT ![r] = d]
        /\ via' = [via EXCEPT ![r] = nodeMap[HostOf[d]]]
        /\ UNCHANGED <<hub, connVars, deviceVars, pool, closed, late, session, deleteVars>>

\* The body of the lock finds a device of an active node and blocks it.
FindNodeForCapability(r) ==
    \E d \in FreeDevicesFor(r) :
        /\ hub # "ended" /\ SetPC(r, "queued", "matched")
        /\ dev' = [dev EXCEPT ![r] = d]
        /\ via' = [via EXCEPT ![r] = nodeMap[HostOf[d]]]
        /\ busy' = busy \cup {d}
        /\ UNCHANGED <<hub, connVars, device, control, pool, closed, late, session, deleteVars>>

\* The body of the lock finds nothing: asyncWait tries again, if it still waits.
FindNoNode(r) ==
    /\ hub # "ended" /\ FreeDevicesFor(r) = {}
    /\ SetPC(r, "queued", IF r \in late THEN "done" ELSE "polling")
    /\ UNCHANGED <<hub, connVars, deviceVars, pool, dev, via, closed, late, session, deleteVars>>

\* Back in the predicate.  After a timeout nobody uses its result.
AddDeviceToPool(r) ==
    /\ SetPC(r, "matched", IF r \in late THEN "abandoned" ELSE "pooled")
    /\ pool' = pool \cup {dev[r]}
    /\ UNCHANGED <<hub, connVars, deviceVars, dev, via, closed, late, session, deleteVars>>

\* asyncWait rejects after 180 s; the client gets its 400 at once, an attempt
\* in flight goes on.
FindTimeout(r) ==
    /\ NewTurn
    /\ pc[r] \in {"polling", "queued"} /\ r \notin late
    /\ late' = late \cup {r}
    /\ pc' = [pc EXCEPT ![r] = IF pc[r] = "polling" THEN "done" ELSE "queued"]
    /\ UNCHANGED <<hub, connVars, deviceVars, pool, dev, via, closed, session, deleteVars>>

\* Faulty variant: the device leaves the pool when the command is sent.
ProxyAndRelease(r) ==
    /\ NewTurn
    /\ SetPC(r, "pooled", IF r \in closed THEN "done" ELSE "calling")
    /\ pool' = pool \ {dev[r]}
    /\ UNCHANGED <<hub, connVars, deviceVars, dev, via, closed, late, session, deleteVars>>

\* Faulty variant: a dropped request leaves its device in the pool.
DropWithoutRelease(r) ==
    /\ NewTurn
    /\ SetPC(r, "pooled", IF r \in closed THEN "done" ELSE "calling")
    /\ UNCHANGED <<hub, connVars, deviceVars, pool, dev, via, closed, late, session, deleteVars>>

\* asyncWait resolves with a device: the request is dropped if the client has
\* gone, else createSession goes to the node through the Node object found.
ProxyCreateSession(r) ==
    /\ NewTurn
    /\ SetPC(r, "pooled", IF r \in closed THEN "done" ELSE "calling")
    /\ pool' = IF r \in closed THEN pool \ {dev[r]} ELSE pool
    /\ UNCHANGED <<hub, connVars, deviceVars, dev, via, closed, late, session, deleteVars>>

\* The node acknowledges wd:execute; a success registers the session.
CreateSessionResponse(r, success) ==
    /\ NewTurn
    /\ pc[r] = "calling"
    /\ conn[HostOf[dev[r]]][via[r]] = "open"
    /\ IF success THEN AddSession(r, dev[r]) ELSE UNCHANGED session
    /\ pool' = pool \ {dev[r]}
    /\ pc' = [pc EXCEPT ![r] = "done"]
    /\ UNCHANGED <<hub, connVars, deviceVars, dev, via, closed, late, deleteVars>>

\* Faulty variant: the timer only watches open connections.
TimeoutWhileOpen(r) ==
    /\ NewTurn
    /\ SetPC(r, "calling", "done")
    /\ conn[HostOf[dev[r]]][via[r]] = "open"
    /\ pool' = pool \ {dev[r]}
    /\ hub' = "ended"
    /\ UNCHANGED <<connVars, deviceVars, dev, via, closed, late, session, deleteVars>>

\* sendMessage gives up after two minutes, whatever became of the connection:
\* the request is answered with 500 and the hub ends.
CreateSessionTimeout(r) ==
    /\ NewTurn
    /\ SetPC(r, "calling", "done")
    /\ pool' = pool \ {dev[r]}
    /\ hub' = "ended"
    /\ UNCHANGED <<connVars, deviceVars, dev, via, closed, late, session, deleteVars>>

-----------------------------------------------------------------------------
(* WdController: DELETE /session/:sessionId.                               *)

\* sessionGaurd lets a known session of an active node through.
ProxyDelete(k, r) ==
    /\ NewTurn
    /\ k \notin delUsed
    /\ session[r] # NoDevice
    /\ HostOf[session[r]] \in active
    /\ nodeMap[HostOf[session[r]]] # 0
    /\ delUsed' = delUsed \cup {k}
    /\ deletes' = deletes \cup {<<k, r, nodeMap[HostOf[session[r]]]>>}
    /\ UNCHANGED <<hub, connVars, deviceVars, pool, requestVars, session>>

\* Whatever the node answered, the device of the session is unblocked.
FinishDelete(k) ==
    /\ deletes' = deletes \ {k}
    /\ busy' = busy \ {session[k[2]]}
    /\ UNCHANGED <<connVars, device, control, pool, requestVars, session, delUsed>>

DeleteResponse(k) ==
    /\ NewTurn
    /\ conn[HostOf[session[k[2]]]][k[3]] = "open"
    /\ FinishDelete(k)
    /\ UNCHANGED hub

DeleteTimeout(k) ==
    /\ NewTurn
    /\ FinishDelete(k)
    /\ hub' = "ended"

\* Any other call that times out: a command of a session the guard lets
\* through, or one that a disconnection had answered before.
CommandTimeout ==
    /\ NewTurn
    /\ \/ hub = "owing"
       \/ \E r \in Requests : session[r] # NoDevice /\ nodeMap[HostOf[session[r]]] # 0
    /\ hub' = "ended"
    /\ UNCHANGED <<connVars, deviceVars, pool, requestVars, session, deleteVars>>

-----------------------------------------------------------------------------
(* Next-state relation.                                                    *)

NodeMessage(n, g) ==
    \/ Connect(n, g)
    \/ \E devices \in SUBSET DevicesOf(n) : \E blocked \in SUBSET devices :
            RegisterNewNode(n, g, devices, blocked)
    \/ Disconnect(n, g)
    \/ \E d \in Devices : \E blocked \in BOOLEAN : OnNewDeviceConnected(n, g, d, blocked)
    \/ \E d \in Devices : OnDeviceDisconnected(n, g, d)
    \/ \E d \in Devices : BlockDevice(n, g, d)
    \/ \E key \in Devices \cup {NoDevice} : UnblockDevice(n, g, key)
    \/ \E r \in Requests, d \in Devices : OnNewSession(n, g, r, d)

RequestStep(r) ==
    \/ HandleNewSession(r)
    \/ OnRequestClosed(r)
    \/ Attempt(r)
    \/ FindNodeForCapability(r)
    \/ FindNoNode(r)
    \/ AddDeviceToPool(r)
    \/ FindTimeout(r)
    \/ ProxyCreateSession(r)
    \/ \E success \in BOOLEAN : CreateSessionResponse(r, success)
    \/ CreateSessionTimeout(r)

DeleteStep ==
    \/ \E k \in Deletes, r \in Requests : ProxyDelete(k, r)
    \/ \E k \in deletes : DeleteResponse(k) \/ DeleteTimeout(k)

ControlStep == \E d \in Devices : DeviceControlStarted(d) \/ DeviceControlStopped(d)

Next ==
    \/ \E n \in Nodes, g \in Conns : NodeMessage(n, g)
    \/ \E r \in Requests : RequestStep(r)
    \/ DeleteStep
    \/ ControlStep
    \/ CommandTimeout

Spec == Init /\ [][Next]_vars

\* The event loop runs continuations and expired timers: a request goes on with
\* the interval of asyncWait, a promise that is resolved or the timeout of its
\* call, and the timeout of asyncWait fires.  Nothing is assumed of clients and
\* nodes, nor of the timers of other calls.
Proceed(r) ==
    \/ Attempt(r)
    \/ FindNodeForCapability(r)
    \/ FindNoNode(r)
    \/ AddDeviceToPool(r)
    \/ ProxyCreateSession(r)
    \/ CreateSessionTimeout(r)

RequestFairness(r) == WF_vars(Proceed(r)) /\ WF_vars(FindTimeout(r))

FairSpec == Spec /\ \A r \in Requests : RequestFairness(r)

-----------------------------------------------------------------------------
(* Properties.                                                             *)

\* A request holds a device from device.block() in the lock until its answer;
\* an abandoned one keeps it.
InPool(r) == pc[r] \in {"pooled", "calling", "abandoned"}
Holds(r) == pc[r] = "matched" \/ InPool(r)

\* Two new-session requests never hold the same device, whatever nodes report
\* or re-register, whatever DELETEs unblock: what the lock, device.block() and
\* BlockedAutomationDevicePool are for (distributor.ts:50-61, 95, 133-155).
AllocationExclusive ==
    \A r, s \in Requests : r # s /\ Holds(r) /\ Holds(s) => dev[r] # dev[s]

\* The pool holds exactly the devices of the requests between addDevice and
\* their answer: an entry is neither forgotten nor removed for another
\* request's sake (distributor.ts:59, 71, 95; execution-controller.ts:13-21).
PoolAccounted == pool = {dev[r] : r \in {s \in Requests : InPool(s)}}

\* A device handed out by the lock is still blocked when the continuation puts
\* it in the pool, so that no other attempt takes it in between
\* (distributor.ts:146 and 59).
MatchedIsBusy == \A r \in Requests : pc[r] = "matched" => dev[r] \in busy

\* A pooled device leaves the pool only with the answer of the request that
\* put it there.
PoolLeavesWithAnswer ==
    [][\A r \in Requests : InPool(r) /\ dev[r] \notin pool' => pc'[r] = "done"]_vars

\* No request waits for its answer for ever (or for the client to be dropped),
\* whatever nodes do, as long as no call times out and ends the hub: the timeouts
\* of asyncWait and of the call see to it (distributor.ts:63-64,
\* execution-controller.ts:50).
Answered(r) == pc[r] = "done" \/ r \in late
EveryRequestAnswered ==
    \A r \in Requests : []<>(pc[r] = "idle" \/ Answered(r) \/ hub = "ended")

\* No device stays in the pool for ever, unless an attempt that outlived its
\* timeout put it there or the pool ends with the hub (distributor.ts:71, 95;
\* execution-controller.ts:13-21, 47-52).
PoolEntryReleased ==
    \A d \in Devices :
        []<>(\/ d \notin pool \/ hub = "ended"
             \/ \E r \in Requests : pc[r] = "abandoned" /\ dev[r] = d)

\* A call that times out is answered with an error of its own, "unknown error"
\* (execution-controller.ts:62-72), and its callback takes its arguments for
\* [null, [response]] (line 60): the timeout of one call is no business of the
\* requests that wait for a device.  It ends the hub, and they get no answer.
TimeoutIsItsOwn ==
    \A r \in Requests : pc[r] \in {"polling", "queued"} /\ r \notin late => hub # "ended"

-----------------------------------------------------------------------------
(* The hub implements the abstract lease of devices to requests.           *)

Leases == {<<r, dev[r]>> : r \in {s \in Requests : Holds(s)}}
Served == {r \in Requests : dev[r] # NoDevice}

L == INSTANCE Lease WITH lease <- Leases, served <- Served

\* Every step of the hub grants a device nobody has to a request that never
\* had one, ends leases, or leaves them alone: the lock, the busy flag and the
\* pool hand over to one another without a gap (distributor.ts:34-155).
ImplementsLease == L!Spec
=============================================================================
