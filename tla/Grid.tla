-------------------------------- MODULE Grid --------------------------------
(***************************************************************************)
(* The hub of Hub.tla closed with the Appium plugin that runs in a node    *)
(* (packages/plugin/src: plugin/index.ts, device-manager.ts, socket/) and  *)
(* with the socket between them.  Appium itself, which creates and deletes *)
(* sessions, and socket.io are external.                                   *)
(*                                                                         *)
(* A connection delivers in order.  When it breaks the hub may notice      *)
(* late, even after the node is back on a new one; what was not delivered  *)
(* by then is lost.  What the node emits while it has no connection waits  *)
(* in the socket's buffer and goes first on the next one.                  *)
(***************************************************************************)
EXTENDS Hub, Sequences

VARIABLES
    link,        \* the connection the plugin's socket uses, 0 if none
    toHub,       \* toHub[n][g]: messages of node n under way on connection g
    buffer,      \* messages a node emitted without a connection
    creates,     \* createSession commands under way to a node
    removals,    \* deleteSession commands under way to a node
    pdevice,     \* DeviceManager.deviceMap of the plugins
    pbusy,       \* the Devices in it that are blocked
    received,    \* createSession commands the node has, not yet at the plugin
    app,         \* the Appium session made for a request
    completed,   \* sessions whose DELETE the hub saw succeed
    misfreed,    \* history: devices a DELETE unblocked though its session did
                 \* not own them, or was still running
    orphaned     \* history: devices of createSession commands that reached the
                 \* plugin after the connection they came on was lost

wireVars == <<link, toHub, buffer, creates, removals>>
pluginVars == <<pdevice, pbusy, received, app>>
historyVars == <<completed, misfreed, orphaned>>
gridVars == <<vars, wireVars, pluginVars, historyVars>>

App == {"none", "creating", "live", "failed", "gone"}

Message ==
    [type : {"register"}, devices : SUBSET Devices, blocked : SUBSET Devices]
    \cup [type : {"connected", "block"}, device : Devices]
    \cup [type : {"unblock"}, device : {NoDevice}]
    \cup [type : {"session"}, session : Requests, device : Devices]
    \cup [type : {"created"}, session : Requests, success : BOOLEAN]
    \cup [type : {"deleted"}, delete : Deletes \X Requests \X Conns, success : BOOLEAN]

GridTypeOK ==
    /\ link \in [Nodes -> {0} \cup Conns]
    /\ toHub \in [Nodes -> [Conns -> Seq(Message)]]
    /\ buffer \in [Nodes -> Seq(Message)]
    /\ creates \subseteq Requests /\ received \subseteq Requests
    /\ removals \subseteq Deletes \X Requests \X Conns
    /\ pdevice \subseteq Devices /\ pbusy \subseteq pdevice
    /\ app \in [Requests -> App]
    /\ completed \subseteq Requests
    /\ misfreed \subseteq Devices /\ orphaned \subseteq Devices

GridInit ==
    /\ Init
    /\ link = [n \in Nodes |-> 0]
    /\ toHub = [n \in Nodes |-> [g \in Conns |-> <<>>]]
    /\ buffer = [n \in Nodes |-> <<>>]
    /\ creates = {} /\ removals = {}
    /\ pdevice = {} /\ pbusy = {} /\ received = {}
    /\ app = [r \in Requests |-> "none"]
    /\ completed = {} /\ misfreed = {} /\ orphaned = {}

-----------------------------------------------------------------------------
(* The socket.                                                             *)

\* What the plugin emits goes on its connection, or waits for the next one.
Emit(n, messages) ==
    IF link[n] # 0
    THEN /\ toHub' = [toHub EXCEPT ![n][link[n]] = @ \o messages]
         /\ UNCHANGED buffer
    ELSE /\ buffer' = [buffer EXCEPT ![n] = @ \o messages]
         /\ UNCHANGED toHub

\* An acknowledgement means something only on the connection of its command.
Ack(n, g, message) == IF link[n] = g THEN <<message>> ELSE <<>>

\* Faulty variant: the registration does not say which devices are in use.
RegisterAllFree(n) ==
    [type |-> "register", devices |-> pdevice \cap DevicesOf(n), blocked |-> {}]

RegisterMessage(n) ==
    [type |-> "register", devices |-> pdevice \cap DevicesOf(n), blocked |-> pbusy \cap DevicesOf(n)]

\* The socket connects or reconnects: first the buffer, then the registration.
ConnectToSocketServer(n) ==
    /\ link[n] = 0
    /\ \E g \in Conns :
        /\ Connect(n, g)
        /\ link' = [link EXCEPT ![n] = g]
        /\ toHub' = [toHub EXCEPT ![n] = [h \in Conns |->
                        IF h = g THEN Append(buffer[n], RegisterMessage(n)) ELSE <<>>]]
    /\ buffer' = [buffer EXCEPT ![n] = <<>>]
    /\ UNCHANGED <<creates, removals, pluginVars, historyVars>>

\* The node loses its connection, and with it the commands on their way.
LoseConnection(n) ==
    /\ link[n] # 0
    /\ link' = [link EXCEPT ![n] = 0]
    /\ creates' = creates \ {r \in creates : HostOf[dev[r]] = n}
    /\ removals' = removals \ {k \in removals : HostOf[session[k[2]]] = n}
    /\ UNCHANGED <<vars, toHub, buffer, pluginVars, historyVars>>

-----------------------------------------------------------------------------
(* The hub's side of the composition.                                      *)

\* The device of session r is taken by another request or session, running or
\* still under way to Appium, or by r's own session, which still runs.
OwnedByOther(r) ==
    \E s \in Requests :
        /\ dev[s] = session[r]
        /\ \/ app[s] \in {"creating", "live"} \/ s \in creates \cup received
           \/ s # r /\ Holds(s)

\* Remember a device that the end of the DELETEs in ks wrongly unblocks.
RecordUnblock(ks) ==
    misfreed' = misfreed \cup {session[k[2]] : k \in {j \in ks : OwnedByOther(j[2])}}

HubDisconnect(n, g) ==
    /\ link[n] # g
    /\ Disconnect(n, g)
    /\ RecordUnblock(QueuedDeletes(n, g))
    /\ toHub' = [toHub EXCEPT ![n][g] = <<>>]
    /\ UNCHANGED <<link, buffer, creates, removals, pluginVars, completed, orphaned>>

\* One handler of the hub runs for each kind of message.
Handle(n, g, m) ==
    \/ /\ m.type = "register"
       /\ RegisterNewNode(n, g, m.devices, m.blocked)
       /\ UNCHANGED historyVars
    \/ /\ m.type = "connected"
       /\ OnNewDeviceConnected(n, g, m.device, FALSE)
       /\ UNCHANGED historyVars
    \/ /\ m.type = "block"
       /\ BlockDevice(n, g, m.device)
       /\ UNCHANGED historyVars
    \/ /\ m.type = "unblock"
       /\ UnblockDevice(n, g, m.device)
       /\ UNCHANGED historyVars
    \/ /\ m.type = "session"
       /\ OnNewSession(n, g, m.session, m.device)
       /\ UNCHANGED historyVars
    \/ /\ m.type = "created"
       /\ CreateSessionResponse(m.session, m.success)
       /\ UNCHANGED historyVars
    \/ /\ m.type = "deleted"
       /\ m.delete \in deletes
       /\ DeleteResponse(m.delete)
       /\ RecordUnblock({m.delete})
       /\ completed' = IF m.success THEN completed \cup {m.delete[2]} ELSE completed
       /\ UNCHANGED orphaned

\* An acknowledgement of a call that timed out is dropped.
Outdated(m) ==
    \/ m.type = "created" /\ pc[m.session] # "calling"
    \/ m.type = "deleted" /\ m.delete \notin deletes

Deliver(n, g) ==
    /\ conn[n][g] = "open" /\ toHub[n][g] # <<>>
    /\ IF Outdated(Head(toHub[n][g]))
       THEN NewTurn /\ UNCHANGED <<vars, historyVars>>
       ELSE Handle(n, g, Head(toHub[n][g]))
    /\ toHub' = [toHub EXCEPT ![n][g] = Tail(@)]
    /\ UNCHANGED <<link, buffer, creates, removals, pluginVars>>

\* The distributor's own steps.
Distribute(r) ==
    /\ \/ HandleNewSession(r) \/ OnRequestClosed(r) \/ Attempt(r)
       \/ FindNodeForCapability(r) \/ FindNoNode(r) \/ AddDeviceToPool(r)
       \/ FindTimeout(r) \/ CreateSessionTimeout(r)
    /\ UNCHANGED <<wireVars, pluginVars, historyVars>>

\* wd:execute leaves on the connection of the Node object that was found.
SendCreateSession(r) ==
    /\ ProxyCreateSession(r)
    /\ creates' = IF r \notin closed /\ link[HostOf[dev[r]]] = via[r]
                  THEN creates \cup {r} ELSE creates
    /\ UNCHANGED <<link, toHub, buffer, removals, pluginVars, historyVars>>

SendDelete(k, r) ==
    /\ ProxyDelete(k, r)
    /\ removals' = IF link[HostOf[session[r]]] = nodeMap[HostOf[session[r]]]
                   THEN removals \cup (deletes' \ deletes) ELSE removals
    /\ UNCHANGED <<link, toHub, buffer, creates, pluginVars, historyVars>>

GiveUpDelete(k) ==
    /\ DeleteTimeout(k)
    /\ RecordUnblock({k})
    /\ UNCHANGED <<wireVars, pluginVars, completed, orphaned>>

OtherCallTimesOut ==
    /\ CommandTimeout
    /\ UNCHANGED <<wireVars, pluginVars, historyVars>>

-----------------------------------------------------------------------------
(* The plugin.                                                             *)

\* The device tracker starts once the node is registered, and finds devices.
\* The plugin learns it from the acknowledgement of its registration; the
\* guard, which the hub sets and never takes back, allows it a little earlier.
OnDeviceAdded(d) ==
    /\ nodeMap[HostOf[d]] # 0
    /\ d \notin pdevice
    /\ pdevice' = pdevice \cup {d}
    /\ Emit(HostOf[d], <<[type |-> "connected", device |-> d]>>)
    /\ UNCHANGED <<vars, link, creates, removals, pbusy, received, app, historyVars>>

\* wd:execute arrives: the CommandController forwards it to the Appium server
\* over HTTP, whatever becomes of the socket.
ExecuteCommand(r) ==
    /\ r \in creates
    /\ creates' = creates \ {r}
    /\ received' = received \cup {r}
    /\ UNCHANGED <<vars, link, toHub, buffer, removals, pdevice, pbusy, app, historyVars>>

\* Faulty variant: the hub is told of the block, the plugin's own device is not.
CreateWithoutBlock(r) ==
    LET n == HostOf[dev[r]] IN
    /\ r \in received
    /\ received' = received \ {r}
    /\ app' = [app EXCEPT ![r] = "creating"]
    /\ Emit(n, <<[type |-> "block", device |-> dev[r]]>>)
    /\ orphaned' = IF link[n] = via[r] THEN orphaned ELSE orphaned \cup {dev[r]}
    /\ UNCHANGED <<vars, link, creates, removals, pdevice, pbusy, completed, misfreed>>

\* createSession reaches the plugin: BLOCK_DEVICE, then on to the driver.
OnCreateSession(r) ==
    LET n == HostOf[dev[r]] IN
    /\ r \in received
    /\ received' = received \ {r}
    /\ app' = [app EXCEPT ![r] = "creating"]
    /\ pbusy' = pbusy \cup ({dev[r]} \cap pdevice)
    /\ Emit(n, <<[type |-> "block", device |-> dev[r]]>>)
    /\ orphaned' = IF link[n] = via[r] THEN orphaned ELSE orphaned \cup {dev[r]}
    /\ UNCHANGED <<vars, link, creates, removals, pdevice, completed, misfreed>>

\* Faulty variant: the driver's answer has no udid to report.
CreatedWithoutUdid(r) ==
    LET n == HostOf[dev[r]] IN
    /\ app[r] = "creating"
    /\ app' = [app EXCEPT ![r] = "live"]
    /\ Emit(n, <<[type |-> "session", session |-> r, device |-> NoDevice]>>
               \o Ack(n, via[r], [type |-> "created", session |-> r, success |-> TRUE]))
    /\ UNCHANGED <<vars, link, creates, removals, pdevice, pbusy, received, historyVars>>

\* The driver made the session: NEW_SESSION, then the answer to the hub.  The
\* hub adds the udid to every request (distributor.ts:78) and the driver takes
\* that device, so that notifyDeviceUsedForSession has nothing to emit.
OnSessionCreated(r) ==
    LET n == HostOf[dev[r]] IN
    /\ app[r] = "creating"
    /\ app' = [app EXCEPT ![r] = "live"]
    /\ Emit(n, <<[type |-> "session", session |-> r, device |-> dev[r]]>>
               \o Ack(n, via[r], [type |-> "created", session |-> r, success |-> TRUE]))
    /\ UNCHANGED <<vars, link, creates, removals, pdevice, pbusy, received, historyVars>>

\* The driver refused: UNBLOCK_DEVICE is emitted with an object where a udid
\* is expected, so that no Map finds the device, here or in the hub.
OnSessionRefused(r) ==
    LET n == HostOf[dev[r]] IN
    /\ app[r] = "creating"
    /\ app' = [app EXCEPT ![r] = "failed"]
    /\ Emit(n, <<[type |-> "unblock", device |-> NoDevice]>>
               \o Ack(n, via[r], [type |-> "created", session |-> r, success |-> FALSE]))
    /\ UNCHANGED <<vars, link, creates, removals, pdevice, pbusy, received, historyVars>>

\* deleteSession is no business of the plugin: Appium ends the session if it
\* has it, and may fail to.
OnDeleteSession(k, success) ==
    LET n == HostOf[session[k[2]]] IN
    /\ k \in removals
    /\ success => app[k[2]] = "live"
    /\ removals' = removals \ {k}
    /\ app' = IF success THEN [app EXCEPT ![k[2]] = "gone"] ELSE app
    /\ Emit(n, Ack(n, k[3], [type |-> "deleted", delete |-> k, success |-> success]))
    /\ UNCHANGED <<vars, link, creates, pdevice, pbusy, received, historyVars>>

-----------------------------------------------------------------------------

GridNext ==
    \/ \E n \in Nodes : ConnectToSocketServer(n) \/ LoseConnection(n)
    \/ \E n \in Nodes, g \in Conns : HubDisconnect(n, g) \/ Deliver(n, g)
    \/ \E r \in Requests : Distribute(r) \/ SendCreateSession(r)
    \/ \E k \in Deletes, r \in Requests : SendDelete(k, r)
    \/ \E k \in deletes : GiveUpDelete(k)
    \/ OtherCallTimesOut
    \/ \E d \in Devices : OnDeviceAdded(d)
    \/ \E r \in Requests : ExecuteCommand(r) \/ OnCreateSession(r)
    \/ \E r \in Requests : OnSessionCreated(r) \/ OnSessionRefused(r)
    \/ \E k \in removals, success \in BOOLEAN : OnDeleteSession(k, success)

GridSpec == GridInit /\ [][GridNext]_gridVars

-----------------------------------------------------------------------------
(* Properties.                                                             *)

Running(r) == app[r] \in {"creating", "live"}

\* The two ways in which a device loses its protection.
Exposed == misfreed \cup orphaned

\* Two Appium sessions share a device only after a DELETE has unblocked a
\* device that its session did not own, or a createSession outlived the
\* connection it came on before it had blocked its device: nothing else in the
\* exchange of block, register, session and answer messages, lost connections
\* and late disconnections lets a second session in (distributor.ts:133-155,
\* plugin/index.ts:56-91, wd-controller.ts:107-112).
SessionExclusive ==
    \A r, s \in Requests :
        r # s /\ Running(r) /\ Running(s) /\ dev[r] = dev[s] => dev[r] \in Exposed

\* The distributor never finds a device free on which Appium runs a session,
\* whether the hub knows of the session or lost the answer with a connection;
\* the same exceptions apply.
RunningIsNotFree ==
    \A r, s \in Requests :
        Running(r) /\ dev[r] \in FreeDevicesFor(s) => dev[r] \in Exposed

-----------------------------------------------------------------------------
(* What the code says of itself and does not do.                           *)

\* "Session <id> is either terminated or not started" (wd-controller.ts:36):
\* the guard is meant to refuse the commands of a session whose DELETE the hub
\* has seen succeed.  A terminated session stays in the map and passes.
TerminatedIsRefused ==
    [][\A k \in deletes' \ deletes : k[2] \notin completed]_gridVars

\* "Node is successfully reconnected to grid again" (plugin client.ts:71): once
\* the hub has handled the registration of the connection the node uses, the
\* node is active.  The late disconnect of the previous socket takes it offline.
ReconnectedIsActive ==
    \A n \in Nodes : link[n] # 0 /\ nodeMap[n] = link[n] => n \in active
=============================================================================
