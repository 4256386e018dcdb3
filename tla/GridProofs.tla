----------------------------- MODULE GridProofs -----------------------------
(***************************************************************************)
(* Proofs about the grid: the hub with the plugin in its nodes, for any    *)
(* numbers of both.                                                        *)
(*                                                                         *)
(* The grid is a hub (GridImplementsHub): its messages are among those the *)
(* open hub takes, so that the theorems of HubProofs hold for it.          *)
(*                                                                         *)
(* A device of a running session stays blocked in the hub although the hub *)
(* is told of blocks late or never.  What keeps it is what is under way on *)
(* the wire (Wired): a registration on its way lists the device as blocked *)
(* and no announcement of it, which would unblock it, is on its way to a   *)
(* hub that has it.  Before the session runs, its request keeps the device *)
(* (Requested): no registration can come on the connection of a command.   *)
(***************************************************************************)
EXTENDS Grid, HubProofs, SequenceTheorems

-----------------------------------------------------------------------------
(* Messages on the wire.                                                   *)

Elements(q) == {q[i] : i \in 1 .. Len(q)}

Registers(m) == m.type = "register"
Announces(m, d) == m.type = "connected" /\ m.device = d
Mentions(m, d) == Announces(m, d) \/ (Registers(m) /\ d \in m.devices)

\* The message b may follow a: one registration at most, and nothing mentions a
\* device before it is announced.
Follows(a, b) ==
    /\ ~(Registers(a) /\ Registers(b))
    /\ \A d \in Devices : Announces(b, d) => ~Mentions(a, d)

Ordered(q) == \A i, j \in 1 .. Len(q) : i < j => Follows(q[i], q[j])

\* What the hub may still get of node n, if connection g lives: what is under
\* way and what waits for the next connection.
Wire(n, g) == toHub[n][g] \o buffer[n]

-----------------------------------------------------------------------------
(* The invariant.                                                          *)

\* A device is in use and has not lost its protection.
Protected(r) == Running(r) /\ dev[r] \notin Exposed

Proper(n, m) ==
    /\ Registers(m) =>
        /\ m.devices \subseteq pdevice \cap DevicesOf(n) /\ m.blocked \subseteq m.devices
        /\ \A r \in Requests : Protected(r) /\ HostOf[dev[r]] = n => dev[r] \in m.blocked
    /\ m.type = "connected" => m.device \in (pdevice \cap DevicesOf(n)) \ device
    /\ m.type \in {"session", "created"} => pc[m.session] \in {"calling", "done"}

Linked(n) ==
    /\ link[n] # 0 =>
        /\ conn[n][link[n]] = "open" /\ buffer[n] = <<>>
        /\ \A g \in Conns : g # link[n] => toHub[n][g] = <<>>
    /\ \A g, h \in Conns : toHub[n][g] # <<>> /\ toHub[n][h] # <<>> => g = h
    /\ n \in active => nodeMap[n] # 0
    /\ nodeMap[n] # 0 =>
        /\ conn[n][nodeMap[n]] # "none"
        /\ \A m \in Elements(toHub[n][nodeMap[n]]) : ~Registers(m)

Wired(n) ==
    /\ \A m \in Elements(buffer[n]) : ~Registers(m)
    /\ \A g \in Conns :
        /\ Ordered(Wire(n, g))
        /\ \A m \in Elements(Wire(n, g)) : Proper(n, m)

\* The request has its device, or the node will do what it asks for.
Pending(r) == pc[r] \in {"matched", "pooled"} \/ r \in creates \cup received

\* The request's command can be sent, or was sent, on the connection of the node.
Direct(r) == link[HostOf[dev[r]]] = via[r]

Requested(r) ==
    /\ r \in creates \cup received \/ app[r] # "none" =>
        pc[r] \in {"calling", "done"} /\ dev[r] \in Devices
    /\ session[r] # NoDevice => pc[r] \in {"calling", "done"}
    /\ r \in creates => Direct(r)
    /\ Pending(r) =>
        /\ via[r] \in Conns /\ conn[HostOf[dev[r]]][via[r]] # "none"
        /\ Direct(r) => nodeMap[HostOf[dev[r]]] = via[r] /\ dev[r] \in busy \cup Exposed
    /\ Protected(r) => dev[r] \in busy \cap pbusy

\* A request or session that has a claim on its device.
Owns(r) == Holds(r) \/ (r \in creates \cup received /\ Direct(r)) \/ Running(r)

OwnersExclusive ==
    \A r, s \in Requests : r # s /\ Owns(r) /\ Owns(s) /\ dev[r] = dev[s] => dev[r] \in Exposed

GridInv ==
    /\ IInv /\ GridTypeOK
    /\ device \subseteq pdevice
    /\ \A n \in Nodes : Linked(n) /\ Wired(n)
    /\ \A r \in Requests : Requested(r)
    /\ OwnersExclusive
    /\ \A k \in deletes \cup removals : session[k[2]] # NoDevice

-----------------------------------------------------------------------------
(* Lemmas about queues.                                                    *)

\* What a concatenation holds and where (client.ts:36-76, socket.io's queues).
LEMMA ConcatElements ==
    ASSUME NEW S, NEW p \in Seq(S), NEW q \in Seq(S)
    PROVE  /\ Elements(p \o q) = Elements(p) \cup Elements(q)
           /\ Elements(p) \subseteq S
           /\ Ordered(p \o q) <=>
                /\ Ordered(p) /\ Ordered(q)
                /\ \A a \in Elements(p), b \in Elements(q) : Follows(a, b)
<1>1. /\ p \o q \in Seq(S) /\ Len(p \o q) = Len(p) + Len(q)
      /\ Len(p) \in Nat /\ Len(q) \in Nat
      /\ \A i \in 1 .. Len(p) + Len(q) :
            (p \o q)[i] = IF i <= Len(p) THEN p[i] ELSE q[i - Len(p)]
  BY ConcatProperties, LenProperties
<1>2. \A i \in 1 .. Len(p) : i \in 1 .. Len(p \o q) /\ (p \o q)[i] = p[i]
  BY <1>1
<1>3. \A j \in 1 .. Len(q) : Len(p) + j \in 1 .. Len(p \o q) /\ (p \o q)[Len(p) + j] = q[j]
  BY <1>1
<1>4. \A i \in 1 .. Len(p \o q) :
        i \in 1 .. Len(p) \/ \E j \in 1 .. Len(q) : i = Len(p) + j
  <2> TAKE i \in 1 .. Len(p \o q)
  <2>1. CASE i <= Len(p)
    BY <1>1, <2>1
  <2>2. CASE i > Len(p)
    <3>1. i - Len(p) \in 1 .. Len(q) /\ i = Len(p) + (i - Len(p))
      BY <1>1, <2>2
    <3> QED
      BY <3>1
  <2> QED
    BY <1>1, <2>1, <2>2
<1>5. Elements(p \o q) = Elements(p) \cup Elements(q)
  <2>1. ASSUME NEW m \in Elements(p \o q) PROVE m \in Elements(p) \cup Elements(q)
    <3>1. PICK i \in 1 .. Len(p \o q) : m = (p \o q)[i]
      BY DEF Elements
    <3> QED
      BY <1>2, <1>3, <1>4, <3>1 DEF Elements
  <2>2. Elements(p) \subseteq Elements(p \o q)
    BY <1>2 DEF Elements
  <2>3. Elements(q) \subseteq Elements(p \o q)
    <3>1. ASSUME NEW j \in 1 .. Len(q) PROVE q[j] \in Elements(p \o q)
      BY <1>3 DEF Elements
    <3> QED
      BY <3>1 DEF Elements
  <2> QED
    BY <2>1, <2>2, <2>3
<1>6. Elements(p) \subseteq S
  BY ElementOfSeq DEF Elements
<1>7. ASSUME Ordered(p \o q)
      PROVE  /\ Ordered(p) /\ Ordered(q)
             /\ \A a \in Elements(p), b \in Elements(q) : Follows(a, b)
  <2>1. Ordered(p)
    BY <1>2, <1>7 DEF Ordered
  <2>2. Ordered(q)
    <3> SUFFICES ASSUME NEW i \in 1 .. Len(q), NEW j \in 1 .. Len(q), i < j
                 PROVE  Follows(q[i], q[j])
      BY DEF Ordered
    <3>1. Len(p) + i < Len(p) + j
      BY <1>1
    <3> QED
      BY <1>3, <1>7, <3>1 DEF Ordered
  <2>3. ASSUME NEW i \in 1 .. Len(p), NEW j \in 1 .. Len(q) PROVE Follows(p[i], q[j])
    <3>1. i < Len(p) + j
      BY <1>1
    <3> QED
      BY <1>2, <1>3, <1>7, <3>1 DEF Ordered
  <2> QED
    BY <2>1, <2>2, <2>3 DEF Elements
<1>8. ASSUME Ordered(p), Ordered(q), \A a \in Elements(p), b \in Elements(q) : Follows(a, b)
      PROVE  Ordered(p \o q)
  <2> SUFFICES ASSUME NEW i \in 1 .. Len(p \o q), NEW j \in 1 .. Len(p \o q), i < j
               PROVE  Follows((p \o q)[i], (p \o q)[j])
    BY DEF Ordered
  <2>1. CASE i \in 1 .. Len(p) /\ j \in 1 .. Len(p)
    BY <1>2, <1>8, <2>1 DEF Ordered
  <2>2. ASSUME i \in 1 .. Len(p), NEW l \in 1 .. Len(q), j = Len(p) + l
        PROVE  Follows((p \o q)[i], (p \o q)[j])
    BY <1>2, <1>3, <1>8, <2>2 DEF Elements
  <2>3. ASSUME NEW k \in 1 .. Len(q), NEW l \in 1 .. Len(q), i = Len(p) + k, j = Len(p) + l
        PROVE  Follows((p \o q)[i], (p \o q)[j])
    <3>1. k < l
      BY <1>1, <2>3
    <3> QED
      BY <1>3, <1>8, <2>3, <3>1 DEF Ordered
  <2>4. ~(j \in 1 .. Len(p) /\ \E k \in 1 .. Len(q) : i = Len(p) + k)
    BY <1>1
  <2> QED
    BY <1>4, <2>1, <2>2, <2>3, <2>4
<1> QED
  BY <1>5, <1>6, <1>7, <1>8

\* A queue without its first message.
LEMMA TailElements ==
    ASSUME NEW S, NEW q \in Seq(S), q # <<>>
    PROVE  /\ Head(q) \in Elements(q) /\ Elements(Tail(q)) \subseteq Elements(q)
           /\ Ordered(q) => /\ Ordered(Tail(q))
                            /\ \A m \in Elements(Tail(q)) : Follows(Head(q), m)
<1>1. Len(q) \in Nat \ {0}
  BY EmptySeq
<1>2. /\ Len(Tail(q)) = Len(q) - 1
      /\ \A i \in 1 .. Len(Tail(q)) : Tail(q)[i] = q[i + 1]
  BY HeadTailProperties
<1>3. Head(q) = q[1]
  BY <1>1
<1>4. \A i \in 1 .. Len(Tail(q)) : i + 1 \in 1 .. Len(q) /\ 1 < i + 1
  BY <1>1, <1>2
<1>5. Head(q) \in Elements(q) /\ Elements(Tail(q)) \subseteq Elements(q)
  BY <1>1, <1>2, <1>3, <1>4 DEF Elements
<1>6. ASSUME Ordered(q) PROVE Ordered(Tail(q))
  <2> SUFFICES ASSUME NEW i \in 1 .. Len(Tail(q)), NEW j \in 1 .. Len(Tail(q)), i < j
               PROVE  Follows(Tail(q)[i], Tail(q)[j])
    BY DEF Ordered
  <2>1. i + 1 < j + 1
    BY <1>1, <1>2
  <2> QED
    BY <1>2, <1>4, <1>6, <2>1 DEF Ordered
<1>7. ASSUME Ordered(q), NEW m \in Elements(Tail(q)) PROVE Follows(Head(q), m)
  <2>1. PICK i \in 1 .. Len(Tail(q)) : m = q[i + 1]
    BY <1>2 DEF Elements
  <2> QED
    BY <1>1, <1>3, <1>4, <1>7, <2>1 DEF Ordered
<1> QED
  BY <1>5, <1>6, <1>7

\* Short queues.
LEMMA ShortElements ==
    /\ Elements(<<>>) = {} /\ Ordered(<<>>)
    /\ \A m : Elements(<<m>>) = {m} /\ Ordered(<<m>>)
<1>1. Elements(<<>>) = {} /\ Ordered(<<>>)
  BY DEF Elements, Ordered
<1>2. ASSUME NEW m PROVE Elements(<<m>>) = {m} /\ Ordered(<<m>>)
  <2>1. Len(<<m>>) = 1 /\ <<m>>[1] = m /\ 1 .. 1 = {1}
    OBVIOUS
  <2> QED
    BY <2>1 DEF Elements, Ordered
<1> QED
  BY <1>1, <1>2

-----------------------------------------------------------------------------
(* The grid is a hub.                                                      *)

\* What a message of each kind carries (device-controller.ts, node-controller.ts
\* and session-controller.ts of the hub).
LEMMA MessageParts ==
    ASSUME NEW m \in Message
    PROVE  /\ m.type = "register" => m.devices \subseteq Devices /\ m.blocked \subseteq Devices
           /\ m.type \in {"connected", "block"} => m.device \in Devices
           /\ m.type = "unblock" => m.device = NoDevice
           /\ m.type = "session" => m.session \in Requests /\ m.device \in Devices
           /\ m.type = "created" => m.session \in Requests /\ m.success \in BOOLEAN
           /\ m.type = "deleted" => m.delete \in Deletes \X Requests \X Conns
  BY DEF Message

\* The messages of a connection and of the buffer are on the wire.
LEMMA WireElements ==
    ASSUME GridTypeOK, NEW n \in Nodes, NEW g \in Conns
    PROVE  /\ toHub[n][g] \in Seq(Message) /\ buffer[n] \in Seq(Message)
           /\ Wire(n, g) \in Seq(Message)
           /\ Elements(Wire(n, g)) = Elements(toHub[n][g]) \cup Elements(buffer[n])
           /\ Elements(Wire(n, g)) \subseteq Message
           /\ toHub[n][g] # <<>> => Head(toHub[n][g]) \in Elements(Wire(n, g)) \cap Message
<1>1. toHub[n][g] \in Seq(Message) /\ buffer[n] \in Seq(Message)
  BY DEF GridTypeOK
<1>2. /\ Wire(n, g) \in Seq(Message)
      /\ Elements(Wire(n, g)) = Elements(toHub[n][g]) \cup Elements(buffer[n])
  BY <1>1, ConcatElements, ConcatProperties DEF Wire
<1>3. Elements(Wire(n, g)) \subseteq Message
  BY <1>2, ElementOfSeq DEF Elements
<1>4. toHub[n][g] # <<>> => Head(toHub[n][g]) \in Elements(toHub[n][g])
  BY <1>1, TailElements
<1> QED
  BY <1>1, <1>2, <1>3, <1>4

\* A message that the hub handles is one the open hub takes.
LEMMA DeliverIsNodeMessage ==
    ASSUME IInv, GridTypeOK, NEW n \in Nodes, NEW g \in Conns, Wired(n), Deliver(n, g)
    PROVE  Next \/ UNCHANGED vars
<1> DEFINE m == Head(toHub[n][g])
<1>1. m \in Message /\ Proper(n, m)
  BY WireElements DEF Deliver, Wired
<1> HIDE DEF m
<1>2. CASE UNCHANGED vars
  BY <1>2
<1>3. CASE Handle(n, g, m)
  <2>1. ASSUME m.type = "register", RegisterNewNode(n, g, m.devices, m.blocked)
        PROVE  NodeMessage(n, g)
    <3>1. m.devices \in SUBSET DevicesOf(n) /\ m.blocked \in SUBSET m.devices
      BY <1>1, <2>1 DEF Proper, Registers
    <3> QED
      BY <2>1, <3>1 DEF NodeMessage
  <2>2. ASSUME m.type = "connected", OnNewDeviceConnected(n, g, m.device, FALSE)
        PROVE  NodeMessage(n, g)
    BY <1>1, <2>2, MessageParts DEF NodeMessage
  <2>3. ASSUME m.type = "block", BlockDevice(n, g, m.device) PROVE NodeMessage(n, g)
    BY <1>1, <2>3, MessageParts DEF NodeMessage
  <2>4. ASSUME m.type = "unblock", UnblockDevice(n, g, m.device) PROVE NodeMessage(n, g)
    BY <1>1, <2>4, MessageParts DEF NodeMessage
  <2>5. ASSUME m.type = "session", OnNewSession(n, g, m.session, m.device) PROVE NodeMessage(n, g)
    BY <1>1, <2>5, MessageParts DEF NodeMessage
  <2>6. ASSUME m.type = "created", CreateSessionResponse(m.session, m.success)
        PROVE  m.session \in Requests /\ RequestStep(m.session)
    BY <1>1, <2>6, MessageParts DEF RequestStep
  <2>7. ASSUME m.type = "deleted", m.delete \in deletes, DeleteResponse(m.delete)
        PROVE  DeleteStep
    BY <2>7 DEF DeleteStep
  <2> QED
    BY <1>3, <2>1, <2>2, <2>3, <2>4, <2>5, <2>6, <2>7 DEF Handle, Next
<1>4. UNCHANGED vars \/ Handle(n, g, m)
  BY DEF Deliver, m
<1> QED
  BY <1>2, <1>3, <1>4

\* Nothing happens, but that a call may end the hub.
OnlyTime == OtherCallTimesOut \/ UNCHANGED gridVars

LEMMA OnlyTimeFrame ==
    ASSUME OnlyTime
    PROVE  UNCHANGED <<connVars, deviceVars, pool, requestVars, session, deleteVars,
                       wireVars, pluginVars, historyVars>>
  BY DEF OnlyTime, OtherCallTimesOut, CommandTimeout, gridVars, vars

\* Every step of the grid is one of the open hub or leaves it alone.
LEMMA StepIsHubStep ==
    ASSUME IInv, GridTypeOK, \A n \in Nodes : Wired(n), [GridNext]_gridVars
    PROVE  [Next]_vars
<1>1. ASSUME NEW n \in Nodes, ConnectToSocketServer(n) \/ LoseConnection(n) PROVE [Next]_vars
  BY <1>1 DEF ConnectToSocketServer, LoseConnection, Next, NodeMessage
<1>2. ASSUME NEW n \in Nodes, NEW g \in Conns, HubDisconnect(n, g) PROVE [Next]_vars
  BY <1>2 DEF HubDisconnect, Next, NodeMessage
<1>3. ASSUME NEW n \in Nodes, NEW g \in Conns, Deliver(n, g) PROVE [Next]_vars
  BY <1>3, DeliverIsNodeMessage
<1>4. ASSUME NEW r \in Requests, Distribute(r) \/ SendCreateSession(r) PROVE [Next]_vars
  BY <1>4 DEF Distribute, SendCreateSession, Next, RequestStep
<1>5. ASSUME NEW k \in Deletes, NEW r \in Requests, SendDelete(k, r) PROVE [Next]_vars
  BY <1>5 DEF SendDelete, Next, DeleteStep
<1>6. ASSUME NEW k \in deletes, GiveUpDelete(k) PROVE [Next]_vars
  BY <1>6 DEF GiveUpDelete, Next, DeleteStep
<1>7. ASSUME \/ \E d \in Devices : OnDeviceAdded(d)
             \/ \E r \in Requests : ExecuteCommand(r) \/ OnCreateSession(r)
             \/ \E r \in Requests : OnSessionCreated(r) \/ OnSessionRefused(r)
             \/ \E k \in removals, success \in BOOLEAN : OnDeleteSession(k, success)
      PROVE  UNCHANGED vars
  BY <1>7 DEF OnDeviceAdded, ExecuteCommand, OnCreateSession, OnSessionCreated, OnSessionRefused,
      OnDeleteSession
<1>8. CASE UNCHANGED gridVars
  BY <1>8 DEF gridVars
<1>9. CASE OtherCallTimesOut
  BY <1>9 DEF OtherCallTimesOut, Next
<1> QED
  BY <1>1, <1>2, <1>3, <1>4, <1>5, <1>6, <1>7, <1>8, <1>9 DEF GridNext

-----------------------------------------------------------------------------
(* Types.                                                                  *)

WireTypes ==
    /\ toHub \in [Nodes -> [Conns -> Seq(Message)]]
    /\ buffer \in [Nodes -> Seq(Message)]

\* What is emitted is one or two messages (plugin/index.ts:64-90).
LEMMA EmitType ==
    ASSUME GridTypeOK, NEW n \in Nodes, NEW messages \in Seq(Message), Emit(n, messages)
    PROVE  WireTypes'
<1>1. CASE link[n] # 0
  <2>1. link[n] \in Conns /\ toHub[n][link[n]] \o messages \in Seq(Message)
    <3>1. link[n] \in Conns /\ toHub[n][link[n]] \in Seq(Message)
      BY <1>1 DEF GridTypeOK
    <3> QED
      BY <3>1, ConcatProperties
  <2>2. toHub' = [toHub EXCEPT ![n][link[n]] = @ \o messages] /\ buffer' = buffer
    BY <1>1 DEF Emit
  <2> QED
    BY <2>1, <2>2 DEF GridTypeOK, WireTypes
<1>2. CASE link[n] = 0
  <2>1. buffer[n] \o messages \in Seq(Message)
    <3>1. buffer[n] \in Seq(Message)
      BY DEF GridTypeOK
    <3> QED
      BY <3>1, ConcatProperties
  <2>2. buffer' = [buffer EXCEPT ![n] = @ \o messages] /\ toHub' = toHub
    BY <1>2 DEF Emit
  <2> QED
    BY <2>1, <2>2 DEF GridTypeOK, WireTypes
<1> QED
  BY <1>1, <1>2

\* A message that the plugin's handling of a session emits.
About(r, m) == m.type \in {"block", "unblock", "deleted"} \/ (m.type \in {"session", "created"} /\ m.session = r)

\* A message, if any, and the answer that follows it if its connection lives.
LEMMA WithAck ==
    ASSUME NEW r, NEW n, NEW g, NEW a \in Message, NEW b \in Message, About(r, a), About(r, b)
    PROVE  /\ <<a>> \in Seq(Message) /\ \A m \in Elements(<<a>>) : About(r, m)
           /\ Ack(n, g, b) \in Seq(Message) /\ \A m \in Elements(Ack(n, g, b)) : About(r, m)
           /\ <<a>> \o Ack(n, g, b) \in Seq(Message)
           /\ \A m \in Elements(<<a>> \o Ack(n, g, b)) : About(r, m)
<1> DEFINE p == <<a>>
           q == Ack(n, g, b)
<1>1. q \in {<<>>, <<b>>}
  BY DEF Ack
<1>2. <<>> \in Seq(Message) /\ p \in Seq(Message) /\ <<b>> \in Seq(Message)
  OBVIOUS
<1>3. q \in Seq(Message)
  BY <1>1, <1>2
<1>4. Elements(q) \subseteq {b} /\ Elements(p) = {a}
  BY <1>1, ShortElements
<1> HIDE DEF p, q
<1>5. p \o q \in Seq(Message)
  BY <1>2, <1>3, ConcatProperties
<1>6. Elements(p \o q) = Elements(p) \cup Elements(q)
  BY <1>2, <1>3, ConcatElements
<1> QED
  BY <1>2, <1>3, <1>4, <1>5, <1>6 DEF p, q

\* What the plugin emits in the course of a session (plugin/index.ts:56-91).
LEMMA SessionEmits ==
    ASSUME GridInv, NEW r \in Requests,
           \/ OnCreateSession(r) \/ OnSessionCreated(r) \/ OnSessionRefused(r)
           \/ \E k \in removals, success \in BOOLEAN : k[2] = r /\ OnDeleteSession(k, success)
    PROVE  \E n \in Nodes, q \in Seq(Message) : Emit(n, q) /\ \A m \in Elements(q) : About(r, m)
<1>1. r \in received \/ app[r] # "none" => dev[r] \in Devices /\ HostOf[dev[r]] \in Nodes
  BY HubAssumption DEF GridInv, Requested
<1>2. CASE OnCreateSession(r)
  <2> DEFINE a == [type |-> "block", device |-> dev[r]]
  <2>1. HostOf[dev[r]] \in Nodes /\ Emit(HostOf[dev[r]], <<a>>)
    BY <1>1, <1>2 DEF OnCreateSession
  <2>2. a \in Message /\ About(r, a)
    BY <1>1, <1>2 DEF OnCreateSession, Message, About
  <2> HIDE DEF a
  <2>3. <<a>> \in Seq(Message) /\ \A m \in Elements(<<a>>) : About(r, m)
    BY <2>2, WithAck
  <2> QED
    BY <2>1, <2>3
<1>3. CASE OnSessionCreated(r)
  <2> DEFINE a == [type |-> "session", session |-> r, device |-> dev[r]]
             b == [type |-> "created", session |-> r, success |-> TRUE]
             q == <<a>> \o Ack(HostOf[dev[r]], via[r], b)
  <2>1. HostOf[dev[r]] \in Nodes /\ Emit(HostOf[dev[r]], q)
    BY <1>1, <1>3 DEF OnSessionCreated
  <2>2. a \in Message /\ About(r, a) /\ b \in Message /\ About(r, b)
    BY <1>1, <1>3 DEF OnSessionCreated, Message, About
  <2> HIDE DEF a, b
  <2>3. q \in Seq(Message) /\ \A m \in Elements(q) : About(r, m)
    BY <2>2, WithAck
  <2> QED
    BY <2>1, <2>3
<1>4. CASE OnSessionRefused(r)
  <2> DEFINE a == [type |-> "unblock", device |-> NoDevice]
             b == [type |-> "created", session |-> r, success |-> FALSE]
             q == <<a>> \o Ack(HostOf[dev[r]], via[r], b)
  <2>1. HostOf[dev[r]] \in Nodes /\ Emit(HostOf[dev[r]], q)
    BY <1>1, <1>4 DEF OnSessionRefused
  <2>2. a \in Message /\ About(r, a) /\ b \in Message /\ About(r, b)
    BY DEF Message, About
  <2> HIDE DEF a, b
  <2>3. q \in Seq(Message) /\ \A m \in Elements(q) : About(r, m)
    BY <2>2, WithAck
  <2> QED
    BY <2>1, <2>3
<1>5. ASSUME NEW k \in removals, NEW success \in BOOLEAN, k[2] = r, OnDeleteSession(k, success)
      PROVE  \E n \in Nodes, q \in Seq(Message) : Emit(n, q) /\ \A m \in Elements(q) : About(r, m)
  <2> DEFINE n == HostOf[session[k[2]]]
             b == [type |-> "deleted", delete |-> k, success |-> success]
             q == Ack(n, k[3], b)
  <2>1. session[k[2]] \in Devices /\ k \in Deletes \X Requests \X Conns
    BY DEF GridInv, GridTypeOK, IInv, TypeOK
  <2>2. n \in Nodes /\ Emit(n, q)
    BY <1>5, <2>1, HubAssumption DEF OnDeleteSession
  <2>3. b \in Message /\ About(r, b)
    BY <2>1 DEF Message, About
  <2> HIDE DEF n, b
  <2>4. q \in Seq(Message) /\ \A m \in Elements(q) : About(r, m)
    BY <2>3, WithAck
  <2> QED
    BY <2>2, <2>4
<1> QED
  BY <1>2, <1>3, <1>4, <1>5

\* A device that a DELETE wrongly unblocks is one that a request has.
LEMMA RecordType ==
    ASSUME IInv, GridTypeOK, NEW ks, ks \subseteq deletes, RecordUnblock(ks),
           \A k \in deletes : session[k[2]] # NoDevice
    PROVE  misfreed' \subseteq Devices
<1>1. \A k \in deletes : session[k[2]] \in Devices
  BY DEF IInv, TypeOK
<1> QED
  BY <1>1 DEF RecordUnblock, GridTypeOK

\* The types of what connects and registers (client.ts:36-76).
LEMMA ConnectType ==
    ASSUME IInv, GridTypeOK, NEW n \in Nodes, ConnectToSocketServer(n)
    PROVE  GridTypeOK'
<1>1. PICK g \in Conns :
        /\ link' = [link EXCEPT ![n] = g]
        /\ toHub' = [toHub EXCEPT ![n] = [h \in Conns |->
                        IF h = g THEN Append(buffer[n], RegisterMessage(n)) ELSE <<>>]]
  BY DEF ConnectToSocketServer
<1>2. buffer' = [buffer EXCEPT ![n] = <<>>] /\ UNCHANGED <<creates, removals, pluginVars, historyVars>>
  BY DEF ConnectToSocketServer
<1>3. RegisterMessage(n) \in Message
  BY DEF GridTypeOK, RegisterMessage, Message
<1>4. Append(buffer[n], RegisterMessage(n)) \in Seq(Message)
  <2>1. buffer[n] \in Seq(Message)
    BY DEF GridTypeOK
  <2> QED
    BY <1>3, <2>1, AppendProperties
<1>5. <<>> \in Seq(Message)
  OBVIOUS
<1> QED
  BY <1>1, <1>2, <1>4, <1>5 DEF GridTypeOK, pluginVars, historyVars

\* Every step keeps the types of the plugin's state and of the wire
\* (device-manager.ts:20-106, socket/client.ts:36-76).
LEMMA GridTypeStep == GridInv /\ [GridNext]_gridVars => GridTypeOK'
<1> SUFFICES ASSUME GridInv, [GridNext]_gridVars PROVE GridTypeOK'
  OBVIOUS
<1>a. IInv /\ GridTypeOK /\ TypeOK /\ \A k \in deletes : session[k[2]] # NoDevice
  BY DEF GridInv, IInv
<1>e. <<>> \in Seq(Message)
  OBVIOUS
<1>1. ASSUME NEW n \in Nodes, ConnectToSocketServer(n) PROVE GridTypeOK'
  BY <1>a, <1>1, ConnectType
<1>2. ASSUME NEW n \in Nodes, LoseConnection(n) PROVE GridTypeOK'
  BY <1>a, <1>2 DEF LoseConnection, GridTypeOK, pluginVars, historyVars
<1>3. ASSUME NEW n \in Nodes, NEW g \in Conns, HubDisconnect(n, g) PROVE GridTypeOK'
  <2>1. QueuedDeletes(n, g) \subseteq deletes /\ RecordUnblock(QueuedDeletes(n, g))
    BY <1>3 DEF HubDisconnect, QueuedDeletes
  <2>2. misfreed' \subseteq Devices
    BY <1>a, <2>1, RecordType
  <2>3. toHub' \in [Nodes -> [Conns -> Seq(Message)]]
    BY <1>a, <1>e, <1>3 DEF HubDisconnect, GridTypeOK
  <2> QED
    BY <1>a, <1>3, <2>2, <2>3 DEF HubDisconnect, GridTypeOK, pluginVars
<1>4. ASSUME NEW n \in Nodes, NEW g \in Conns, Deliver(n, g) PROVE GridTypeOK'
  <2> DEFINE m == Head(toHub[n][g])
  <2>1. m \in Message /\ toHub[n][g] \in Seq(Message) /\ toHub[n][g] # <<>>
    BY <1>a, <1>4, WireElements DEF Deliver
  <2>2. toHub' \in [Nodes -> [Conns -> Seq(Message)]]
    <3>1. Tail(toHub[n][g]) \in Seq(Message)
      BY <2>1, HeadTailProperties
    <3> QED
      BY <1>a, <1>4, <3>1 DEF Deliver, GridTypeOK
  <2>3. UNCHANGED historyVars \/ Handle(n, g, m)
    BY <1>4 DEF Deliver
  <2> HIDE DEF m
  <2>4. completed' \subseteq Requests /\ misfreed' \subseteq Devices /\ orphaned' \subseteq Devices
    <3>1. CASE UNCHANGED historyVars
      BY <1>a, <3>1 DEF historyVars, GridTypeOK
    <3>2. CASE /\ m.type = "deleted" /\ m.delete \in deletes /\ RecordUnblock({m.delete})
               /\ completed' = IF m.success THEN completed \cup {m.delete[2]} ELSE completed
               /\ UNCHANGED orphaned
      <4>1. misfreed' \subseteq Devices
        BY <1>a, <3>2, RecordType
      <4>2. m.delete[2] \in Requests
        BY <2>1, <3>2, MessageParts
      <4> QED
        BY <1>a, <3>2, <4>1, <4>2 DEF GridTypeOK
    <3> QED
      BY <2>3, <3>1, <3>2 DEF Handle
  <2> QED
    BY <1>a, <1>4, <2>2, <2>4 DEF Deliver, GridTypeOK, pluginVars
<1>5. ASSUME NEW r \in Requests, Distribute(r) PROVE GridTypeOK'
  BY <1>a, <1>5 DEF Distribute, GridTypeOK, wireVars, pluginVars, historyVars
<1>6. ASSUME NEW r \in Requests, SendCreateSession(r) PROVE GridTypeOK'
  BY <1>a, <1>6 DEF SendCreateSession, GridTypeOK, pluginVars, historyVars
<1>7. ASSUME NEW k \in Deletes, NEW r \in Requests, SendDelete(k, r) PROVE GridTypeOK'
  <2>1. deletes' \subseteq Deletes \X Requests \X Conns
    <3>1. nodeMap[HostOf[session[r]]] \in Conns
      BY <1>a, <1>7, HubAssumption DEF SendDelete, ProxyDelete, TypeOK
    <3> QED
      BY <1>a, <1>7, <3>1 DEF SendDelete, ProxyDelete, TypeOK
  <2> QED
    BY <1>a, <1>7, <2>1 DEF SendDelete, GridTypeOK, pluginVars, historyVars
<1>8. ASSUME NEW k \in deletes, GiveUpDelete(k) PROVE GridTypeOK'
  <2>1. {k} \subseteq deletes /\ RecordUnblock({k})
    BY <1>8 DEF GiveUpDelete
  <2>2. misfreed' \subseteq Devices
    BY <1>a, <2>1, RecordType
  <2> QED
    BY <1>a, <1>8, <2>2 DEF GiveUpDelete, GridTypeOK, wireVars, pluginVars
<1>9. ASSUME NEW d \in Devices, OnDeviceAdded(d) PROVE GridTypeOK'
  <2>1. [type |-> "connected", device |-> d] \in Message
    BY DEF Message
  <2>2. <<[type |-> "connected", device |-> d]>> \in Seq(Message) /\ HostOf[d] \in Nodes
    BY <2>1, HubAssumption
  <2>3. WireTypes'
    BY <1>a, <1>9, <2>2, EmitType DEF OnDeviceAdded
  <2> QED
    BY <1>a, <1>9, <2>3 DEF OnDeviceAdded, GridTypeOK, WireTypes, historyVars
<1>10. ASSUME NEW r \in Requests, ExecuteCommand(r) PROVE GridTypeOK'
  BY <1>a, <1>10 DEF ExecuteCommand, GridTypeOK, historyVars
<1>11. ASSUME NEW r \in Requests, OnCreateSession(r) PROVE GridTypeOK'
  <2>1. WireTypes'
    BY <1>a, <1>11, SessionEmits, EmitType
  <2>2. app' \in [Requests -> App]
    BY <1>a, <1>11 DEF OnCreateSession, GridTypeOK, App
  <2>3. orphaned' \subseteq Devices
    <3>1. dev[r] \in Devices
      BY <1>11 DEF OnCreateSession, GridInv, Requested
    <3> QED
      BY <1>a, <1>11, <3>1 DEF OnCreateSession, GridTypeOK
  <2> QED
    BY <1>a, <1>11, <2>1, <2>2, <2>3 DEF OnCreateSession, GridTypeOK, WireTypes
<1>12. ASSUME NEW r \in Requests, OnSessionCreated(r) \/ OnSessionRefused(r) PROVE GridTypeOK'
  <2>1. WireTypes'
    BY <1>a, <1>12, SessionEmits, EmitType
  <2>2. app' \in [Requests -> App]
    BY <1>a, <1>12 DEF OnSessionCreated, OnSessionRefused, GridTypeOK, App
  <2> QED
    BY <1>a, <1>12, <2>1, <2>2
       DEF OnSessionCreated, OnSessionRefused, GridTypeOK, WireTypes, historyVars
<1>13. ASSUME NEW k \in removals, NEW success \in BOOLEAN, OnDeleteSession(k, success)
       PROVE  GridTypeOK'
  <2>1. k[2] \in Requests
    BY <1>a DEF GridTypeOK
  <2>2. WireTypes'
    BY <1>a, <1>13, <2>1, SessionEmits, EmitType
  <2>3. app' \in [Requests -> App]
    BY <1>a, <1>13 DEF OnDeleteSession, GridTypeOK, App
  <2> QED
    BY <1>a, <1>13, <2>2, <2>3 DEF OnDeleteSession, GridTypeOK, WireTypes, historyVars
<1>14. CASE OnlyTime
  BY <1>a, <1>14, OnlyTimeFrame DEF wireVars, pluginVars, historyVars, GridTypeOK
<1> QED
  BY <1>1, <1>2, <1>3, <1>4, <1>5, <1>6, <1>7, <1>8, <1>9, <1>10, <1>11, <1>12, <1>13, <1>14
     DEF GridNext, OnlyTime

-----------------------------------------------------------------------------
(* What steps do to the wire.                                              *)

\* What is emitted comes last on the connection that is used, or in the buffer
\* (socket/client.ts:36-76).
LEMMA EmitEffect ==
    ASSUME GridTypeOK, NEW n \in Nodes, Linked(n), NEW q \in Seq(Message), Emit(n, q)
    PROVE  /\ \A p \in Nodes \ {n} : toHub'[p] = toHub[p] /\ buffer'[p] = buffer[p]
           /\ link[n] # 0 => buffer' = buffer
           /\ Elements(buffer'[n]) \subseteq Elements(buffer[n]) \cup Elements(q)
           /\ \A g \in Conns :
                /\ Wire(n, g)' \in {Wire(n, g), Wire(n, g) \o q}
                /\ Elements(toHub'[n][g]) \subseteq Elements(toHub[n][g]) \cup Elements(q)
                /\ g # link[n] => toHub'[n][g] = toHub[n][g]
<1>1. buffer[n] \in Seq(Message) /\ \A g \in Conns : toHub[n][g] \in Seq(Message)
  BY DEF GridTypeOK
<1>2. CASE link[n] # 0
  <2>1. /\ link[n] \in Conns /\ toHub' = [toHub EXCEPT ![n][link[n]] = @ \o q]
        /\ buffer' = buffer /\ buffer[n] = <<>>
    BY <1>2 DEF Emit, GridTypeOK, Linked
  <2>2. /\ \A p \in Nodes \ {n} : toHub'[p] = toHub[p]
        /\ \A g \in Conns : g # link[n] => toHub'[n][g] = toHub[n][g]
        /\ toHub'[n][link[n]] = toHub[n][link[n]] \o q
    BY <2>1 DEF GridTypeOK
  <2>3. Elements(toHub[n][link[n]] \o q) = Elements(toHub[n][link[n]]) \cup Elements(q)
    BY <1>1, <2>1, ConcatElements
  <2>4. ASSUME NEW g \in Conns PROVE Wire(n, g)' \in {Wire(n, g), Wire(n, g) \o q}
    <3>1. CASE g # link[n]
      BY <2>1, <2>2, <3>1 DEF Wire
    <3>2. CASE g = link[n]
      <4>1. Wire(n, g) = toHub[n][g] /\ toHub'[n][g] \in Seq(Message)
        <5>1. toHub[n][g] \in Seq(Message) /\ toHub[n][g] \o q \in Seq(Message)
          BY <1>1, ConcatProperties
        <5> QED
          BY <2>1, <2>2, <3>2, <5>1, ConcatEmptySeq DEF Wire
      <4>2. Wire(n, g)' = toHub'[n][g]
        BY <2>1, <4>1, ConcatEmptySeq DEF Wire
      <4> QED
        BY <2>2, <3>2, <4>1, <4>2
    <3> QED
      BY <3>1, <3>2
  <2> QED
    BY <1>2, <2>1, <2>2, <2>3, <2>4
<1>3. CASE link[n] = 0
  <2>1. buffer' = [buffer EXCEPT ![n] = @ \o q] /\ toHub' = toHub
    BY <1>3 DEF Emit
  <2>2. /\ \A p \in Nodes \ {n} : buffer'[p] = buffer[p]
        /\ buffer'[n] = buffer[n] \o q
    BY <2>1 DEF GridTypeOK
  <2>3. Elements(buffer[n] \o q) = Elements(buffer[n]) \cup Elements(q)
    BY <1>1, ConcatElements
  <2>4. ASSUME NEW g \in Conns PROVE Wire(n, g)' = Wire(n, g) \o q
    <3> DEFINE t == toHub[n][g]
               b == buffer[n]
    <3>1. t \in Seq(Message) /\ b \in Seq(Message)
      BY <1>1
    <3>2. Wire(n, g)' = t \o (b \o q) /\ Wire(n, g) = t \o b
      BY <2>1, <2>2 DEF Wire
    <3> HIDE DEF t, b
    <3>3. (t \o b) \o q = t \o (b \o q)
      BY <3>1, ConcatAssociative
    <3> QED
      BY <3>2, <3>3
  <2> QED
    BY <1>3, <2>1, <2>2, <2>3, <2>4
<1> QED
  BY <1>2, <1>3

\* The hub takes the first message of a connection: what is left of it may follow
\* that message, and other connections hold nothing (socket.io's order).
LEMMA DeliverWire ==
    ASSUME GridTypeOK, NEW n \in Nodes, NEW g \in Conns, Linked(n), Wired(n),
           toHub[n][g] # <<>>, toHub' = [toHub EXCEPT ![n][g] = Tail(@)], buffer' = buffer
    PROVE  /\ \A p \in Nodes \ {n} : toHub'[p] = toHub[p]
           /\ \A h \in Conns :
                /\ Ordered(Wire(n, h)')
                /\ Elements(toHub'[n][h]) \subseteq Elements(toHub[n][h])
                /\ toHub'[n][h] # <<>> => toHub[n][h] # <<>>
                /\ \A x \in Elements(Wire(n, h)') :
                    x \in Elements(Wire(n, g)) /\ Follows(Head(toHub[n][g]), x)
           /\ \A x \in Elements(toHub'[n][g]) : Follows(Head(toHub[n][g]), x)
<1> DEFINE q == toHub[n][g]
           b == buffer[n]
<1>1. q \in Seq(Message) /\ b \in Seq(Message) /\ q # <<>>
  BY DEF GridTypeOK
<1>2. /\ \A p \in Nodes \ {n} : toHub'[p] = toHub[p]
      /\ \A h \in Conns \ {g} : toHub'[n][h] = toHub[n][h]
      /\ toHub'[n][g] = Tail(q)
  BY DEF GridTypeOK
<1>3. \A h \in Conns \ {g} : toHub[n][h] = <<>>
  BY DEF Linked
<1>4. /\ Ordered(q) /\ Ordered(b)
      /\ \A x \in Elements(q), y \in Elements(b) : Follows(x, y)
      /\ Elements(Wire(n, g)) = Elements(q) \cup Elements(b)
  <2>1. Ordered(q \o b)
    BY DEF Wired, Wire
  <2> HIDE DEF q, b
  <2>2. Elements(q \o b) = Elements(q) \cup Elements(b)
    BY <1>1, ConcatElements
  <2>3. Ordered(q) /\ Ordered(b) /\ \A x \in Elements(q), y \in Elements(b) : Follows(x, y)
    BY <1>1, <2>1, ConcatElements
  <2> QED
    BY <2>2, <2>3 DEF Wire, q, b
<1>5. /\ Tail(q) \in Seq(Message) /\ Head(q) \in Elements(q) /\ Elements(Tail(q)) \subseteq Elements(q)
      /\ Ordered(Tail(q)) /\ \A x \in Elements(Tail(q)) : Follows(Head(q), x)
  <2> HIDE DEF q, b
  <2> QED
    BY <1>1, <1>4, TailElements, HeadTailProperties
<1>6. ASSUME NEW h \in Conns
      PROVE  /\ Ordered(Wire(n, h)')
             /\ \A x \in Elements(Wire(n, h)') : x \in Elements(Wire(n, g)) /\ Follows(Head(q), x)
  <2>1. CASE h = g
    <3>1. Wire(n, h)' = Tail(q) \o b
      BY <1>2, <2>1 DEF Wire
    <3> HIDE DEF q, b
    <3> DEFINE t == Tail(q)
    <3>2. /\ t \in Seq(Message) /\ Ordered(t) /\ Elements(t) \subseteq Elements(q)
          /\ \A x \in Elements(t) : Follows(Head(q), x)
      BY <1>5
    <3> HIDE DEF t
    <3>3. Elements(t \o b) = Elements(t) \cup Elements(b)
      BY <1>1, <3>2, ConcatElements
    <3>4. Ordered(t \o b)
      BY <1>1, <1>4, <3>2, ConcatElements
    <3>5. Wire(n, h)' = t \o b
      BY <3>1 DEF t
    <3> QED
      BY <1>4, <1>5, <3>2, <3>3, <3>4, <3>5
  <2>2. CASE h # g
    <3>1. Wire(n, h)' = b
      <4>1. Wire(n, h)' = <<>> \o b
        BY <1>2, <1>3, <2>2 DEF Wire
      <4> HIDE DEF b
      <4> QED
        BY <1>1, <4>1, ConcatEmptySeq
    <3> HIDE DEF q, b
    <3> QED
      BY <1>4, <1>5, <3>1
  <2> QED
    BY <2>1, <2>2
<1>7. ASSUME NEW h \in Conns
      PROVE  /\ Elements(toHub'[n][h]) \subseteq Elements(toHub[n][h])
             /\ toHub'[n][h] # <<>> => toHub[n][h] # <<>>
  BY <1>2, <1>5
<1> QED
  BY <1>2, <1>5, <1>6, <1>7

\* What is under way on a connection that the hub gives up is lost
\* (node-controller.ts:27).
LEMMA DropWire ==
    ASSUME GridTypeOK, NEW n \in Nodes, NEW g \in Conns, Wired(n),
           toHub' = [toHub EXCEPT ![n][g] = <<>>], buffer' = buffer
    PROVE  /\ \A p \in Nodes \ {n} : toHub'[p] = toHub[p]
           /\ toHub'[n][g] = <<>> /\ \A h \in Conns \ {g} : toHub'[n][h] = toHub[n][h]
           /\ \A h \in Conns :
                /\ Ordered(Wire(n, h)')
                /\ Elements(Wire(n, h)') \subseteq Elements(Wire(n, h))
<1>1. /\ \A p \in Nodes \ {n} : toHub'[p] = toHub[p]
      /\ \A h \in Conns \ {g} : toHub'[n][h] = toHub[n][h]
      /\ toHub'[n][g] = <<>>
  BY DEF GridTypeOK
<1>2. toHub[n][g] \in Seq(Message) /\ buffer[n] \in Seq(Message)
  BY DEF GridTypeOK
<1>3. Wire(n, g)' = buffer[n]
  <2>1. Wire(n, g)' = <<>> \o buffer[n]
    BY <1>1 DEF Wire
  <2> QED
    BY <1>2, <2>1, ConcatEmptySeq
<1>4. Ordered(buffer[n]) /\ Elements(buffer[n]) \subseteq Elements(Wire(n, g))
  BY <1>2, ConcatElements DEF Wired, Wire
<1>5. \A h \in Conns \ {g} : Wire(n, h)' = Wire(n, h) /\ Ordered(Wire(n, h))
  BY <1>1 DEF Wire, Wired
<1> QED
  BY <1>1, <1>3, <1>4, <1>5

\* First the buffer, then the registration (client.ts:45-70).
LEMMA ConnectWire ==
    ASSUME GridTypeOK, NEW n \in Nodes, Linked(n), Wired(n), ConnectToSocketServer(n)
    PROVE  /\ link[n] = 0
           /\ \A p \in Nodes \ {n} : toHub'[p] = toHub[p] /\ buffer'[p] = buffer[p] /\ link'[p] = link[p]
           /\ buffer'[n] = <<>>
           /\ \E g \in Conns :
                /\ Connect(n, g) /\ link'[n] = g
                /\ \A h \in Conns \ {g} : toHub'[n][h] = <<>> /\ Wire(n, h)' = <<>>
                /\ Ordered(Wire(n, g)')
                /\ \A x \in Elements(Wire(n, g)') :
                    x = RegisterMessage(n) \/ (x \in Elements(Wire(n, g)) /\ ~Registers(x))
<1>1. PICK g \in Conns :
        /\ Connect(n, g)
        /\ link' = [link EXCEPT ![n] = g]
        /\ toHub' = [toHub EXCEPT ![n] = [h \in Conns |->
                        IF h = g THEN Append(buffer[n], RegisterMessage(n)) ELSE <<>>]]
  BY DEF ConnectToSocketServer
<1>2. link[n] = 0 /\ buffer' = [buffer EXCEPT ![n] = <<>>]
  BY DEF ConnectToSocketServer
<1>3. /\ \A p \in Nodes \ {n} : toHub'[p] = toHub[p] /\ buffer'[p] = buffer[p] /\ link'[p] = link[p]
      /\ buffer'[n] = <<>> /\ link'[n] = g
      /\ \A h \in Conns \ {g} : toHub'[n][h] = <<>>
      /\ toHub'[n][g] = Append(buffer[n], RegisterMessage(n))
  BY <1>1, <1>2 DEF GridTypeOK
<1> DEFINE r == RegisterMessage(n)
           b == buffer[n]
<1>4. /\ b \in Seq(Message) /\ Ordered(b) /\ Elements(b) \subseteq Elements(Wire(n, g))
      /\ \A x \in Elements(b) : ~Registers(x)
  <2>1. toHub[n][g] \in Seq(Message) /\ buffer[n] \in Seq(Message)
    BY DEF GridTypeOK
  <2> QED
    BY <2>1, ConcatElements DEF Wired, Wire
<1>5. r \in Message /\ Registers(r) /\ r.type = "register"
  BY DEF GridTypeOK, RegisterMessage, Message, Registers
<1>6. \A x \in Elements(b) : Follows(x, r)
  BY <1>4, <1>5 DEF Follows, Announces
<1> HIDE DEF r, b
<1>7. Append(b, r) = b \o <<r>> /\ Append(b, r) \in Seq(Message) /\ <<r>> \in Seq(Message)
  BY <1>4, <1>5, AppendIsConcat, AppendProperties
<1>8. Elements(b \o <<r>>) = Elements(b) \cup {r} /\ Ordered(b \o <<r>>)
  <2>1. Elements(<<r>>) = {r} /\ Ordered(<<r>>)
    BY ShortElements
  <2> DEFINE s == <<r>>
  <2>2. s \in Seq(Message) /\ Elements(s) = {r} /\ Ordered(s)
    BY <1>7, <2>1
  <2> HIDE DEF s
  <2>3. Elements(b \o s) = Elements(b) \cup Elements(s)
    BY <1>4, <2>2, ConcatElements
  <2>4. Ordered(b \o s)
    BY <1>4, <1>6, <2>2, ConcatElements
  <2> QED
    BY <2>2, <2>3, <2>4 DEF s
<1>9. Wire(n, g)' = Append(b, r)
  BY <1>3, <1>7, ConcatEmptySeq DEF Wire, r, b
<1>10. \A h \in Conns \ {g} : Wire(n, h)' = <<>>
  <2>1. <<>> \in Seq(Message)
    OBVIOUS
  <2> QED
    BY <1>3, <2>1, ConcatEmptySeq DEF Wire
<1>11. Ordered(Wire(n, g)') /\ \A x \in Elements(Wire(n, g)') :
                    x = r \/ (x \in Elements(Wire(n, g)) /\ ~Registers(x))
  BY <1>4, <1>7, <1>8, <1>9
<1> QED
  BY <1>1, <1>2, <1>3, <1>10, <1>11 DEF r

-----------------------------------------------------------------------------
(* What steps do to the hub.                                               *)

\* What the handler of a message does to the devices of the hub.
Handled(n, g, m) ==
    \/ /\ Registers(m)
       /\ nodeMap' = [nodeMap EXCEPT ![n] = g] /\ active' = active \cup {n}
       /\ device' = (device \ DevicesOf(n)) \cup m.devices
       /\ busy' = (busy \ DevicesOf(n)) \cup m.blocked
    \/ /\ m.type = "connected" /\ UNCHANGED <<nodeMap, active>>
       /\ device' \subseteq device \cup {m.device} /\ busy \ {m.device} \subseteq busy'
    \/ UNCHANGED <<nodeMap, active, device>> /\ busy \subseteq busy'
    \/ /\ UNCHANGED <<nodeMap, active, device>>
       /\ \E k \in deletes : busy' = busy \ {session[k[2]]} /\ RecordUnblock({k})

\* Requests go on as they were, or end their call.
RequestsGoOn ==
    /\ \A r \in Requests : pc'[r] = pc[r] \/ (pc[r] = "calling" /\ pc'[r] = "done")
    /\ \A r \in Requests :
        /\ session[r] # NoDevice => session'[r] = session[r]
        /\ session'[r] # NoDevice => session[r] # NoDevice \/ pc[r] \in {"calling", "done"}
    /\ UNCHANGED <<dev, via>>

\* One message is handled (node-controller.ts, device-controller.ts,
\* session-controller.ts, execution-controller.ts).
LEMMA DeliverEffect ==
    ASSUME GridInv, NEW n \in Nodes, NEW g \in Conns, Deliver(n, g)
    PROVE  /\ NewTurn /\ RequestsGoOn /\ deletes' \subseteq deletes
           /\ conn[n][g] = "open" /\ toHub[n][g] # <<>>
           /\ toHub' = [toHub EXCEPT ![n][g] = Tail(@)]
           /\ UNCHANGED <<conn, link, buffer, creates, removals, pluginVars>>
           /\ misfreed \subseteq misfreed' /\ orphaned' = orphaned
           /\ Handled(n, g, Head(toHub[n][g]))
<1> DEFINE m == Head(toHub[n][g])
<1>a. IInv /\ GridTypeOK /\ TypeOK /\ Wired(n)
  BY DEF GridInv, IInv
<1>1. m \in Message /\ Proper(n, m)
  BY <1>a, WireElements DEF Deliver, Wired
<1>2. /\ conn[n][g] = "open" /\ toHub[n][g] # <<>>
      /\ toHub' = [toHub EXCEPT ![n][g] = Tail(@)]
      /\ UNCHANGED <<link, buffer, creates, removals, pluginVars>>
      /\ (NewTurn /\ UNCHANGED <<vars, historyVars>>) \/ Handle(n, g, m)
  BY DEF Deliver
<1> HIDE DEF m
<1> DEFINE Goal == /\ NewTurn /\ RequestsGoOn /\ deletes' \subseteq deletes
                   /\ conn' = conn /\ misfreed \subseteq misfreed' /\ orphaned' = orphaned
                   /\ Handled(n, g, m)
<1>f. ASSUME UNCHANGED <<requestVars, session>> PROVE RequestsGoOn
  BY <1>f DEF RequestsGoOn, requestVars
<1>3. ASSUME NewTurn /\ UNCHANGED <<vars, historyVars>> PROVE Goal
  <2>1. UNCHANGED <<requestVars, session, deletes, conn, misfreed, orphaned, nodeMap, active, device, busy>>
    BY <1>3 DEF vars, connVars, deviceVars, deleteVars, historyVars
  <2> QED
    BY <1>3, <1>f, <2>1 DEF Handled
<1>4. ASSUME m.type = "register", RegisterNewNode(n, g, m.devices, m.blocked), UNCHANGED historyVars
      PROVE  Goal
  BY <1>4, <1>f DEF RegisterNewNode, Registers, Handled, historyVars, deleteVars
<1>5. ASSUME m.type = "connected", OnNewDeviceConnected(n, g, m.device, FALSE), UNCHANGED historyVars
      PROVE  Goal
  BY <1>5, <1>f DEF OnNewDeviceConnected, Handled, historyVars, deleteVars, deviceVars, connVars
<1>6. ASSUME m.type = "block", BlockDevice(n, g, m.device), UNCHANGED historyVars
      PROVE  Goal
  BY <1>6, <1>f DEF BlockDevice, Handled, historyVars, deleteVars, connVars
<1>7. ASSUME m.type = "unblock", UnblockDevice(n, g, m.device), UNCHANGED historyVars
      PROVE  Goal
  <2>1. busy' = busy
    BY <1>1, <1>7, <1>a, MessageParts, HubAssumption DEF UnblockDevice, TypeOK
  <2> QED
    BY <1>7, <1>f, <2>1 DEF UnblockDevice, Handled, historyVars, deleteVars, connVars
<1>8. ASSUME m.type = "session", OnNewSession(n, g, m.session, m.device), UNCHANGED historyVars
      PROVE  Goal
  <2>1. /\ m.session \in Requests /\ pc[m.session] \in {"calling", "done"}
        /\ AddSession(m.session, m.device) /\ UNCHANGED requestVars
    BY <1>1, <1>8, MessageParts DEF Proper, OnNewSession
  <2>2. RequestsGoOn
    BY <1>a, <2>1 DEF AddSession, RequestsGoOn, requestVars, TypeOK
  <2> QED
    BY <1>8, <2>2 DEF OnNewSession, Handled, historyVars, deleteVars, connVars
<1>9. ASSUME m.type = "created", CreateSessionResponse(m.session, m.success), UNCHANGED historyVars
      PROVE  Goal
  <2>1. /\ m.session \in Requests /\ pc[m.session] = "calling"
        /\ AddSession(m.session, dev[m.session]) \/ UNCHANGED session
        /\ pc' = [pc EXCEPT ![m.session] = "done"] /\ UNCHANGED <<dev, via>>
    BY <1>1, <1>9, MessageParts DEF CreateSessionResponse
  <2>2. RequestsGoOn
    BY <1>a, <2>1 DEF AddSession, RequestsGoOn, TypeOK
  <2> QED
    BY <1>9, <2>2 DEF CreateSessionResponse, Handled, historyVars, deleteVars, connVars, deviceVars
<1>10. ASSUME m.type = "deleted", m.delete \in deletes, DeleteResponse(m.delete),
              RecordUnblock({m.delete}), UNCHANGED orphaned
       PROVE  Goal
  <2>1. misfreed \subseteq misfreed'
    BY <1>10 DEF RecordUnblock
  <2> QED
    BY <1>10, <1>f, <2>1 DEF DeleteResponse, FinishDelete, Handled, connVars
<1>11. Goal
  <2> HIDE DEF Goal
  <2> QED
    BY <1>2, <1>3, <1>4, <1>5, <1>6, <1>7, <1>8, <1>9, <1>10 DEF Handle
<1> QED
  BY <1>2, <1>11 DEF m

\* A disconnection ends calls and unblocks what the DELETEs among them had
\* (node-controller.ts:27-36, execution-controller.ts:34-60).
LEMMA DisconnectEffect ==
    ASSUME GridInv, NEW n \in Nodes, NEW g \in Conns, HubDisconnect(n, g)
    PROVE  /\ NewTurn /\ RequestsGoOn /\ deletes' \subseteq deletes /\ link[n] # g
           /\ conn' = [conn EXCEPT ![n][g] = "closed"] /\ active' = active \ {n}
           /\ toHub' = [toHub EXCEPT ![n][g] = <<>>]
           /\ UNCHANGED <<nodeMap, device, link, buffer, creates, removals, pluginVars, orphaned>>
           /\ busy' = busy \ {session[k[2]] : k \in QueuedDeletes(n, g)}
           /\ RecordUnblock(QueuedDeletes(n, g)) /\ misfreed \subseteq misfreed'
<1>1. RequestsGoOn
  BY DEF HubDisconnect, Disconnect, RequestsGoOn, QueuedRequests, GridInv, IInv, TypeOK
<1> QED
  BY <1>1 DEF HubDisconnect, Disconnect, RecordUnblock

\* An unblocked device of a request or session that has it is recorded: the
\* request of the DELETE's session is not one that is still about to send its
\* command (wd-controller.ts:107-112).
LEMMA UnblockRecorded ==
    ASSUME GridInv, NewTurn, NEW r \in Requests, NEW ks, ks \subseteq deletes, RecordUnblock(ks),
           busy' = busy \ {session[k[2]] : k \in ks}, orphaned' = orphaned,
           Pending(r) \/ Running(r), dev[r] \in busy
    PROVE  dev[r] \in busy' \cup Exposed'
<1> SUFFICES ASSUME NEW k \in ks, session[k[2]] = dev[r] PROVE dev[r] \in misfreed'
  BY DEF Exposed
<1>1. k[2] \in Requests /\ session[k[2]] # NoDevice
  BY DEF GridInv, IInv, TypeOK
<1>2. pc[k[2]] \in {"calling", "done"}
  BY <1>1 DEF GridInv, Requested
<1>3. app[r] \in {"creating", "live"} \/ r \in creates \cup received \/ (pc[r] = "pooled" /\ r # k[2])
  BY <1>2 DEF Pending, Running, NewTurn
<1>4. OwnedByOther(k[2])
  BY <1>3 DEF OwnedByOther, Holds, InPool
<1> QED
  BY <1>4 DEF RecordUnblock

-----------------------------------------------------------------------------
(* Requests.                                                               *)

\* Who is about to use a device has one, of a node, and a connection to it.
LEMMA UserHasDevice ==
    ASSUME GridInv, NEW r \in Requests, Pending(r) \/ Running(r)
    PROVE  /\ dev[r] \in Devices /\ HostOf[dev[r]] \in Nodes
           /\ Pending(r) => via[r] \in Conns /\ via[r] # 0
<1>1. dev[r] \in Devices
  BY DEF GridInv, Requested, Pending, Running, IInv, SafetyInv, Placed, Holds, InPool
<1>2. Pending(r) => via[r] \in Conns
  BY DEF GridInv, Requested
<1> QED
  BY <1>1, <1>2, HubAssumption DEF Conns

\* A step that neither gives the request a connection or a session, nor takes
\* its device, keeps what is known of it.
LEMMA RequestedKept ==
    ASSUME GridInv, NEW r \in Requests,
           dev'[r] = dev[r], via'[r] = via[r],
           r \in creates' \cup received' \/ app'[r] # "none" =>
             \/ r \in creates \cup received \/ app[r] # "none"
             \/ pc'[r] \in {"calling", "done"} /\ dev[r] \in Devices,
           pc[r] \in {"calling", "done"} => pc'[r] \in {"calling", "done"},
           session'[r] # NoDevice => session[r] # NoDevice \/ pc[r] \in {"calling", "done"},
           r \in creates' => link'[HostOf[dev[r]]] = via[r],
           Pending(r)' => Pending(r) /\ conn'[HostOf[dev[r]]][via[r]] # "none",
           Pending(r)' /\ Direct(r)' =>
             Direct(r) /\ nodeMap'[HostOf[dev[r]]] = nodeMap[HostOf[dev[r]]],
           Running(r)' => Running(r),
           Exposed \subseteq Exposed', pbusy \subseteq pbusy',
           dev[r] \in busy /\ ((Pending(r)' /\ Direct(r)') \/ Protected(r)') =>
             dev[r] \in busy' \cup Exposed'
    PROVE  Requested(r)'
<1>1. Requested(r)
  BY DEF GridInv
<1>2. r \in creates' \cup received' \/ app'[r] # "none" =>
        pc'[r] \in {"calling", "done"} /\ dev'[r] \in Devices
  BY <1>1 DEF Requested
<1>3. session'[r] # NoDevice => pc'[r] \in {"calling", "done"}
  BY <1>1 DEF Requested
<1>4. Pending(r)' => via[r] \in Conns
  BY <1>1 DEF Requested
<1>5. Pending(r)' /\ Direct(r)' => nodeMap'[HostOf[dev[r]]] = via[r] /\ dev[r] \in busy' \cup Exposed'
  BY <1>1 DEF Requested
<1>6. Protected(r)' => dev[r] \in busy' \cap pbusy'
  <2>1. Protected(r)' => Protected(r) /\ dev[r] \notin Exposed'
    BY DEF Protected
  <2> QED
    BY <1>1, <2>1 DEF Requested
<1>7. r \in creates' => Direct(r)'
  BY DEF Direct
<1> QED
  BY <1>2, <1>3, <1>4, <1>5, <1>6, <1>7 DEF Requested

\* A new connection is not one that a request was given before, and a lost one
\* takes the commands on it along (client.ts:36-76).
LEMMA LinkChange ==
    ASSUME GridInv, NEW n \in Nodes, ConnectToSocketServer(n) \/ LoseConnection(n),
           NEW r \in Requests, Pending(r)
    PROVE  /\ conn'[HostOf[dev[r]]][via[r]] # "none"
           /\ Direct(r)' => Direct(r)
           /\ r \in creates' => link'[HostOf[dev[r]]] = via[r]
<1> DEFINE h == HostOf[dev[r]]
<1>a. GridTypeOK /\ IInv /\ TypeOK /\ Requested(r)
  BY DEF GridInv, IInv
<1>1. /\ h \in Nodes /\ via[r] \in Conns /\ via[r] # 0 /\ conn[h][via[r]] # "none"
      /\ r \in creates => link[h] = via[r]
  BY <1>a, UserHasDevice DEF Requested, Direct
<1>2. UNCHANGED <<dev, via>>
  BY DEF ConnectToSocketServer, Connect, LoseConnection, vars, requestVars
<1>3. CASE ConnectToSocketServer(n)
  <2>1. PICK g \in Conns :
          /\ conn[n][g] = "none" /\ conn' = [conn EXCEPT ![n][g] = "open"]
          /\ link[n] = 0 /\ link' = [link EXCEPT ![n] = g] /\ creates' = creates
    BY <1>3 DEF ConnectToSocketServer, Connect
  <2> HIDE DEF h
  <2>2. /\ conn'[h][via[r]] # "none"
        /\ link'[h] = via[r] <=> link[h] = via[r]
    BY <1>a, <1>1, <2>1 DEF TypeOK, GridTypeOK
  <2> QED
    BY <1>1, <1>2, <2>1, <2>2 DEF Direct, h
<1>4. CASE LoseConnection(n)
  <2>1. /\ link' = [link EXCEPT ![n] = 0] /\ conn' = conn
        /\ r \in creates' => r \in creates /\ h # n
    BY <1>4 DEF LoseConnection, vars, connVars
  <2> HIDE DEF h
  <2>2. /\ link'[h] = via[r] => link[h] = via[r]
        /\ r \in creates' => link'[h] = via[r]
    BY <1>a, <1>1, <2>1 DEF GridTypeOK
  <2> QED
    BY <1>1, <1>2, <2>1, <2>2 DEF Direct, h
<1> QED
  BY <1>3, <1>4

\* Steps of the wire.
LEMMA RequestedLinks ==
    ASSUME GridInv, NEW n \in Nodes, ConnectToSocketServer(n) \/ LoseConnection(n),
           NEW r \in Requests
    PROVE  Requested(r)'
<1>1. /\ UNCHANGED <<session, received, app, nodeMap, busy, pbusy, misfreed, orphaned>>
      /\ UNCHANGED <<pc, dev, via>> /\ creates' \subseteq creates
  BY DEF ConnectToSocketServer, Connect, LoseConnection, vars, connVars, deviceVars, requestVars,
     pluginVars, historyVars
<1>2. /\ Pending(r)' => Pending(r)
      /\ Running(r)' <=> Running(r)
      /\ Exposed' = Exposed
  BY <1>1 DEF Pending, Running, Exposed
<1>3. r \in creates' => link'[HostOf[dev[r]]] = via[r]
  BY <1>1, LinkChange DEF Pending
<1>4. Pending(r)' => Pending(r) /\ conn'[HostOf[dev[r]]][via[r]] # "none"
  BY <1>2, LinkChange
<1>5. Pending(r)' /\ Direct(r)' => Direct(r)
  BY <1>2, LinkChange
<1> QED
  BY <1>1, <1>2, <1>3, <1>4, <1>5, RequestedKept

\* A step of the hub that leaves the wire and the plugin alone and in which
\* requests at most end their calls.
LEMMA RequestedGoesOn ==
    ASSUME GridInv, NewTurn, RequestsGoOn, NEW r \in Requests,
           UNCHANGED <<link, creates, pluginVars, orphaned>>, misfreed \subseteq misfreed',
           Pending(r) => conn'[HostOf[dev[r]]][via[r]] # "none",
           Pending(r) /\ Direct(r) => nodeMap'[HostOf[dev[r]]] = nodeMap[HostOf[dev[r]]],
           dev[r] \in busy /\ ((Pending(r) /\ Direct(r)) \/ Protected(r)) =>
             dev[r] \in busy' \cup Exposed'
    PROVE  Requested(r)'
<1>1. /\ UNCHANGED <<dev, via, creates, received, app, link, pbusy>>
      /\ Exposed \subseteq Exposed'
      /\ pc'[r] = pc[r] \/ (pc[r] = "calling" /\ pc'[r] = "done")
      /\ session'[r] # NoDevice => session[r] # NoDevice \/ pc[r] \in {"calling", "done"}
  BY DEF RequestsGoOn, pluginVars, Exposed
<1>2. /\ Pending(r)' => Pending(r) /\ (Direct(r)' <=> Direct(r)) /\ (Running(r)' <=> Running(r))
      /\ Protected(r)' => Protected(r)
  BY <1>1 DEF Pending, Direct, Running, Protected
<1>3. r \in creates' => link'[HostOf[dev[r]]] = via[r]
  BY <1>1 DEF GridInv, Requested, Direct
<1>4. pc[r] \in {"calling", "done"} => pc'[r] \in {"calling", "done"}
  BY <1>1
<1>5. dev'[r] = dev[r] /\ via'[r] = via[r]
  BY <1>1
<1>6. Running(r)' => Running(r)
  BY <1>1 DEF Running
<1>7. Pending(r)' /\ Direct(r)' => Pending(r) /\ Direct(r)
  BY <1>1 DEF Pending, Direct
<1> QED
  BY <1>1, <1>2, <1>3, <1>4, <1>5, <1>6, <1>7, RequestedKept

\* A message of the node: a registration cannot come on the connection of a
\* command, and lists every device in use; an announcement is of a device that
\* the hub does not have (node-controller.ts:18-25, device-controller.ts:18-62).
LEMMA RequestedDelivered ==
    ASSUME GridInv, NEW n \in Nodes, NEW g \in Conns, Deliver(n, g), NEW r \in Requests
    PROVE  Requested(r)'
<1> DEFINE m == Head(toHub[n][g])
           h == HostOf[dev[r]]
<1>a. GridTypeOK /\ IInv /\ TypeOK /\ Requested(r) /\ Linked(n) /\ Wired(n)
  BY DEF GridInv, IInv
<1>1. m \in Message /\ Proper(n, m) /\ m \in Elements(toHub[n][g])
  <2>1. toHub[n][g] # <<>> /\ toHub[n][g] \in Seq(Message)
    BY <1>a, DeliverEffect, WireElements
  <2> QED
    BY <1>a, <2>1, WireElements, TailElements DEF Wired
<1>2. /\ NewTurn /\ RequestsGoOn /\ toHub[n][g] # <<>> /\ misfreed \subseteq misfreed'
      /\ UNCHANGED <<conn, link, creates, pluginVars, orphaned>>
      /\ Handled(n, g, m)
  BY DeliverEffect
<1> HIDE DEF m
<1>3. UNCHANGED <<dev, conn>> /\ Exposed \subseteq Exposed'
  BY <1>2 DEF RequestsGoOn, Exposed
<1>4. Pending(r) => conn'[h][via[r]] # "none"
  BY <1>a, <1>3 DEF Requested
<1>5. ASSUME Pending(r), Direct(r) PROVE nodeMap[h] = via[r] /\ link[h] = via[r] /\ via[r] # 0
  BY <1>a, <1>5, UserHasDevice DEF Requested, Direct
<1>6. Pending(r) \/ Protected(r) => dev[r] \in Devices /\ h \in Nodes
  BY UserHasDevice DEF Protected
<1>7. ASSUME Registers(m), nodeMap' = [nodeMap EXCEPT ![n] = g],
             busy' = (busy \ DevicesOf(n)) \cup m.blocked
      PROVE  Requested(r)'
  <2>1. ASSUME Pending(r), Direct(r) PROVE h # n
    <3>1. CASE h = n
      <4>1. link[n] # 0 /\ nodeMap[n] = link[n] /\ nodeMap[n] # 0
        BY <1>5, <2>1, <3>1
      <4>2. g = link[n]
        BY <1>a, <1>2, <4>1 DEF Linked
      <4> QED
        BY <1>a, <1>1, <1>7, <4>1, <4>2 DEF Linked
    <3> QED
      BY <3>1
  <2>2. ASSUME Pending(r), Direct(r)
        PROVE  nodeMap'[h] = nodeMap[h] /\ (dev[r] \in busy => dev[r] \in busy')
    <3>1. h # n /\ h \in Nodes
      BY <1>6, <2>1, <2>2
    <3>2. nodeMap'[h] = nodeMap[h]
      <4> HIDE DEF h
      <4> QED
        BY <1>a, <1>7, <3>1 DEF TypeOK
    <3> QED
      BY <1>7, <3>1, <3>2 DEF DevicesOf
  <2>3. ASSUME Protected(r) PROVE dev[r] \in busy => dev[r] \in busy'
    BY <1>1, <1>7, <2>3 DEF Proper, DevicesOf
  <2> QED
    BY <1>2, <1>4, <2>2, <2>3, RequestedGoesOn
<1>8. ASSUME m.type = "connected", UNCHANGED nodeMap, busy \ {m.device} \subseteq busy'
      PROVE  Requested(r)'
  <2>1. m.device \notin busy
    BY <1>1, <1>8, <1>a DEF Proper, TypeOK
  <2> QED
    BY <1>2, <1>4, <1>8, <2>1, RequestedGoesOn
<1>9. ASSUME UNCHANGED nodeMap, busy \subseteq busy' PROVE Requested(r)'
  BY <1>2, <1>4, <1>9, RequestedGoesOn
<1>10. ASSUME UNCHANGED nodeMap, NEW k \in deletes, busy' = busy \ {session[k[2]]}, RecordUnblock({k})
       PROVE  Requested(r)'
  <2>1. busy' = busy \ {session[x[2]] : x \in {k}}
    BY <1>10
  <2>2. dev[r] \in busy /\ (Pending(r) \/ Running(r)) => dev[r] \in busy' \cup Exposed'
    BY <1>2, <1>10, <2>1, UnblockRecorded
  <2> QED
    BY <1>2, <1>4, <1>10, <2>2, RequestedGoesOn DEF Protected
<1> QED
  BY <1>2, <1>7, <1>8, <1>9, <1>10 DEF Handled

\* A disconnection or a DELETE that ends unblocks devices that are recorded if
\* they are in use (execution-controller.ts:34-60, wd-controller.ts:107-112).
LEMMA RequestedUnblocks ==
    ASSUME GridInv, NEW r \in Requests,
           \/ \E n \in Nodes, g \in Conns : HubDisconnect(n, g)
           \/ \E k \in deletes : GiveUpDelete(k)
    PROVE  Requested(r)'
<1>a. GridTypeOK /\ IInv /\ TypeOK /\ Requested(r)
  BY DEF GridInv, IInv
<1>1. ASSUME NEW n \in Nodes, NEW g \in Conns, HubDisconnect(n, g) PROVE Requested(r)'
  <2> DEFINE ks == QueuedDeletes(n, g)
             h == HostOf[dev[r]]
  <2>1. /\ NewTurn /\ RequestsGoOn
        /\ conn' = [conn EXCEPT ![n][g] = "closed"]
        /\ UNCHANGED <<nodeMap, link, creates, pluginVars, orphaned>>
        /\ busy' = busy \ {session[k[2]] : k \in ks} /\ RecordUnblock(ks) /\ misfreed \subseteq misfreed'
    BY <1>1, DisconnectEffect
  <2>2. ks \subseteq deletes
    BY DEF QueuedDeletes
  <2> HIDE DEF ks
  <2>3. dev[r] \in busy /\ (Pending(r) \/ Running(r)) => dev[r] \in busy' \cup Exposed'
    BY <2>1, <2>2, UnblockRecorded
  <2>4. Pending(r) => conn'[h][via[r]] # "none"
    <3>1. Pending(r) => h \in Nodes /\ via[r] \in Conns /\ conn[h][via[r]] # "none"
      BY <1>a, UserHasDevice DEF Requested
    <3> HIDE DEF h
    <3> QED
      BY <1>a, <2>1, <3>1 DEF TypeOK
  <2> QED
    BY <2>1, <2>3, <2>4, RequestedGoesOn DEF Protected
<1>2. ASSUME NEW k \in deletes, GiveUpDelete(k) PROVE Requested(r)'
  <2>1. /\ NewTurn /\ busy' = busy \ {session[k[2]]} /\ RecordUnblock({k})
        /\ UNCHANGED <<conn, nodeMap, requestVars, session, wireVars, pluginVars, orphaned>>
    BY <1>2 DEF GiveUpDelete, DeleteTimeout, FinishDelete, connVars
  <2>2. busy' = busy \ {session[x[2]] : x \in {k}} /\ misfreed \subseteq misfreed'
    BY <2>1 DEF RecordUnblock
  <2>3. dev[r] \in busy /\ (Pending(r) \/ Running(r)) => dev[r] \in busy' \cup Exposed'
    BY <2>1, <2>2, UnblockRecorded
  <2>4. RequestsGoOn
    BY <2>1 DEF RequestsGoOn, requestVars
  <2>5. Pending(r) => conn'[HostOf[dev[r]]][via[r]] # "none"
    BY <1>a, <2>1 DEF Requested
  <2> QED
    BY <2>1, <2>2, <2>3, <2>4, <2>5, RequestedGoesOn DEF Protected, wireVars
<1> QED
  BY <1>1, <1>2

\* The distributor's own steps: a device is given together with the connection
\* that is registered then (distributor.ts:36-155).
LEMMA RequestedDistributes ==
    ASSUME GridInv, NEW q \in Requests, Distribute(q), NEW r \in Requests
    PROVE  Requested(r)'
<1>a. GridTypeOK /\ IInv /\ TypeOK /\ Requested(r)
  BY DEF GridInv, IInv
<1>1. /\ UNCHANGED <<link, creates, received, app, pbusy, misfreed, orphaned>>
      /\ UNCHANGED <<conn, nodeMap, session>>
  BY DEF Distribute, wireVars, pluginVars, historyVars, connVars, HandleNewSession, OnRequestClosed,
     Attempt, FindNodeForCapability, FindNoNode, AddDeviceToPool, FindTimeout, CreateSessionTimeout
<1>2. Exposed' = Exposed /\ (Running(r)' <=> Running(r))
  BY <1>1 DEF Exposed, Running
<1>3. CASE FindNodeForCapability(q) /\ r = q
  <2>1. PICK d \in FreeDevicesFor(r) :
          /\ pc[r] = "queued" /\ pc'[r] = "matched" /\ dev'[r] = d /\ via'[r] = nodeMap[HostOf[d]]
          /\ d \in busy'
    BY <1>3, <1>a DEF FindNodeForCapability, SetPC, TypeOK
  <2> DEFINE h == HostOf[d]
  <2>2. d \in Devices /\ h \in Nodes /\ h \in active
    BY <1>a, HubAssumption DEF FreeDevicesFor, TypeOK
  <2>3. Linked(h) /\ nodeMap[h] \in {0} \cup Conns
    BY <1>a, <2>2 DEF GridInv, TypeOK
  <2>4. nodeMap[h] \in Conns /\ conn[h][nodeMap[h]] # "none"
    BY <2>2, <2>3 DEF Linked
  <2>5. r \notin creates \cup received /\ app[r] = "none" /\ session[r] = NoDevice
    BY <1>a, <2>1 DEF Requested
  <2>6. ~Protected(r)'
    BY <1>1, <2>5 DEF Protected, Running
  <2> QED
    BY <1>1, <2>1, <2>4, <2>5, <2>6 DEF Requested, Direct
<1>4. ASSUME dev'[r] = dev[r], via'[r] = via[r], busy \subseteq busy',
             pc[r] \in {"calling", "done"} => pc'[r] \in {"calling", "done"},
             pc'[r] \in {"matched", "pooled"} => pc[r] \in {"matched", "pooled"}
      PROVE  Requested(r)'
  <2>1. /\ Pending(r)' => Pending(r) /\ conn'[HostOf[dev[r]]][via[r]] # "none"
        /\ Direct(r)' <=> Direct(r)
    BY <1>a, <1>1, <1>4 DEF Pending, Direct, Requested
  <2>2. r \in creates' => link'[HostOf[dev[r]]] = via[r]
    BY <1>a, <1>1 DEF Requested, Direct
  <2> QED
    BY <1>1, <1>2, <1>4, <2>1, <2>2, RequestedKept
<1>5. CASE FindNodeForCapability(q) /\ r # q
  BY <1>a, <1>4, <1>5 DEF FindNodeForCapability, SetPC, TypeOK
<1>6. CASE ~FindNodeForCapability(q)
  <2>1. /\ UNCHANGED <<dev, via, busy>>
        /\ pc' = pc \/ \E to \in PC : /\ pc' = [pc EXCEPT ![q] = to]
                                      /\ pc[q] \in {"calling", "done"} => to \in {"calling", "done"}
                                      /\ to \in {"matched", "pooled"} => pc[q] \in {"matched", "pooled"}
    BY <1>6, <1>a DEF Distribute, HandleNewSession, OnRequestClosed, Attempt, FindNoNode,
       AddDeviceToPool, FindTimeout, CreateSessionTimeout, SetPC, deviceVars, PC
  <2> QED
    BY <1>a, <1>4, <2>1 DEF TypeOK
<1> QED
  BY <1>3, <1>5, <1>6

\* A command is sent on the connection that the request was given, if the node
\* still uses it (execution-controller.ts:23-62).
LEMMA RequestedSends ==
    ASSUME GridInv, NEW r \in Requests,
           \/ \E q \in Requests : SendCreateSession(q)
           \/ \E k \in Deletes, q \in Requests : SendDelete(k, q)
    PROVE  Requested(r)'
<1>a. GridTypeOK /\ IInv /\ TypeOK /\ Requested(r)
  BY DEF GridInv, IInv
<1>1. ASSUME NEW q \in Requests, SendCreateSession(q) PROVE Requested(r)'
  <2>1. /\ pc[q] = "pooled" /\ pc' = [pc EXCEPT ![q] = IF q \in closed THEN "done" ELSE "calling"]
        /\ creates' = IF q \notin closed /\ link[HostOf[dev[q]]] = via[q] THEN creates \cup {q} ELSE creates
        /\ UNCHANGED <<conn, nodeMap, busy, dev, via, session, link, received, app, pbusy, misfreed, orphaned>>
    BY <1>1 DEF SendCreateSession, ProxyCreateSession, SetPC, connVars, deviceVars, pluginVars, historyVars
  <2>2. /\ Exposed' = Exposed /\ (Running(r)' <=> Running(r)) /\ (Direct(r)' <=> Direct(r))
        /\ r \in creates' => r \in creates \/ (r = q /\ Direct(r))
    BY <2>1 DEF Exposed, Running, Direct
  <2>3. pc[r] \in {"calling", "done"} => pc'[r] \in {"calling", "done"}
    BY <1>a, <2>1 DEF TypeOK
  <2>4. Pending(q) /\ Pending(r)' => Pending(r)
    <3>1. pc'[r] \in {"matched", "pooled"} => pc[r] \in {"matched", "pooled"}
      BY <1>a, <2>1 DEF TypeOK
    <3> QED
      BY <2>1, <3>1 DEF Pending
  <2>5. Pending(q) /\ dev[q] \in Devices /\ pc'[q] \in {"calling", "done"}
    <3>1. Pending(q)
      BY <2>1 DEF Pending
    <3> QED
      BY <1>a, <2>1, <3>1, UserHasDevice DEF TypeOK
  <2>6. Pending(r)' => Pending(r) /\ conn'[HostOf[dev[r]]][via[r]] # "none"
    BY <1>a, <2>1, <2>4, <2>5 DEF Requested
  <2>7. r \in creates' => link'[HostOf[dev[r]]] = via[r]
    BY <1>a, <2>1, <2>2 DEF Requested, Direct
  <2>8. r \in creates' \cup received' \/ app'[r] # "none" =>
             \/ r \in creates \cup received \/ app[r] # "none"
             \/ pc'[r] \in {"calling", "done"} /\ dev[r] \in Devices
    BY <2>1, <2>2, <2>5
  <2> QED
    BY <2>1, <2>2, <2>3, <2>6, <2>7, <2>8, RequestedKept
<1>2. ASSUME NEW k \in Deletes, NEW q \in Requests, SendDelete(k, q) PROVE Requested(r)'
  <2>1. /\ UNCHANGED <<conn, nodeMap, busy, session, creates, received, app, pbusy, misfreed, orphaned>>
        /\ UNCHANGED <<pc, dev, via, link>>
    BY <1>2 DEF SendDelete, ProxyDelete, connVars, deviceVars, requestVars, pluginVars, historyVars
  <2> QED
    BY <1>a, <2>1 DEF Requested, Pending, Direct, Protected, Running, Exposed
<1> QED
  BY <1>1, <1>2

\* The plugin's steps: a command blocks its device before it goes to the
\* driver, and was outlived by its connection otherwise (plugin/index.ts:56-91).
LEMMA RequestedRuns ==
    ASSUME GridInv, NEW r \in Requests,
           \/ \E d \in Devices : OnDeviceAdded(d)
           \/ \E q \in Requests : ExecuteCommand(q) \/ OnCreateSession(q)
           \/ \E q \in Requests : OnSessionCreated(q) \/ OnSessionRefused(q)
           \/ \E k \in removals, success \in BOOLEAN : OnDeleteSession(k, success)
    PROVE  Requested(r)'
<1>a. GridTypeOK /\ IInv /\ TypeOK /\ Requested(r)
  BY DEF GridInv, IInv
<1>1. ASSUME UNCHANGED <<vars, link, misfreed>>, orphaned \subseteq orphaned', pbusy \subseteq pbusy',
             creates' \subseteq creates, r \in received' => r \in creates \cup received,
             app'[r] # "none" => r \in received \/ app[r] # "none", Running(r)' => Running(r)
      PROVE  Requested(r)'
  <2>1. /\ UNCHANGED <<conn, nodeMap, busy, session, pc, dev, via>>
        /\ Exposed \subseteq Exposed'
    BY <1>1 DEF vars, connVars, deviceVars, requestVars, Exposed
  <2>2. /\ (Direct(r)' <=> Direct(r))
        /\ Pending(r)' => Pending(r) /\ conn'[HostOf[dev[r]]][via[r]] # "none"
    BY <1>a, <1>1, <2>1 DEF Direct, Pending, Requested
  <2>3. r \in creates' => link'[HostOf[dev[r]]] = via[r]
    BY <1>a, <1>1 DEF Requested, Direct
  <2> QED
    BY <1>1, <2>1, <2>2, <2>3, RequestedKept
<1>2. ASSUME NEW d \in Devices, OnDeviceAdded(d) PROVE Requested(r)'
  BY <1>1, <1>2 DEF OnDeviceAdded, historyVars, Running
<1>3. ASSUME NEW q \in Requests, ExecuteCommand(q) PROVE Requested(r)'
  BY <1>1, <1>3 DEF ExecuteCommand, historyVars, Running
<1>4. ASSUME NEW q \in Requests, OnCreateSession(q), r # q PROVE Requested(r)'
  <2>1. app'[r] = app[r]
    BY <1>a, <1>4 DEF OnCreateSession, GridTypeOK
  <2> QED
    BY <1>1, <1>4, <2>1 DEF OnCreateSession, Running
<1>5. CASE OnCreateSession(r)
  <2>1. /\ r \in received /\ app'[r] = "creating" /\ creates' = creates
        /\ pbusy' = pbusy \cup ({dev[r]} \cap pdevice)
        /\ orphaned' = IF link[HostOf[dev[r]]] = via[r] THEN orphaned ELSE orphaned \cup {dev[r]}
        /\ UNCHANGED <<conn, nodeMap, busy, session, pc, dev, via, link, misfreed>> /\ received' \subseteq received
    BY <1>5, <1>a DEF OnCreateSession, GridTypeOK, vars, connVars, deviceVars, requestVars
  <2>2. Pending(r) /\ (Direct(r)' <=> Direct(r)) /\ Exposed \subseteq Exposed'
    BY <2>1 DEF Pending, Direct, Exposed
  <2>3. Protected(r)' => dev[r] \in busy' \cap pbusy'
    <3>1. ASSUME ~Direct(r) PROVE dev[r] \in Exposed'
      BY <2>1, <3>1 DEF Direct, Exposed
    <3>2. ASSUME Direct(r) PROVE dev[r] \in busy \cup Exposed
      BY <1>a, <2>2, <3>2 DEF Requested
    <3>3. busy \subseteq pdevice
      BY <1>a DEF GridInv, TypeOK
    <3> QED
      BY <2>1, <2>2, <3>1, <3>2, <3>3 DEF Protected
  <2>4. Pending(r)' => /\ via'[r] \in Conns /\ conn'[HostOf[dev'[r]]][via'[r]] # "none"
                       /\ Direct(r)' => /\ nodeMap'[HostOf[dev'[r]]] = via'[r]
                                        /\ dev'[r] \in busy' \cup Exposed'
    BY <1>a, <2>1, <2>2 DEF Requested
  <2>5. r \in creates' => Direct(r)'
    BY <1>a, <2>1, <2>2 DEF Requested
  <2>6. pc'[r] \in {"calling", "done"} /\ dev'[r] \in Devices
    BY <1>a, <2>1 DEF Requested
  <2> QED
    BY <2>1, <2>3, <2>4, <2>5, <2>6 DEF Requested
<1>6. ASSUME NEW q \in Requests, OnSessionCreated(q) \/ OnSessionRefused(q) PROVE Requested(r)'
  <2>1. /\ app'[r] = app[r] \/ (app[r] = "creating" /\ app'[r] \in {"live", "failed"})
        /\ UNCHANGED <<vars, link, creates, pbusy, received, historyVars>>
    BY <1>a, <1>6 DEF OnSessionCreated, OnSessionRefused, GridTypeOK
  <2> QED
    BY <1>1, <2>1 DEF historyVars, Running
<1>7. ASSUME NEW k \in removals, NEW success \in BOOLEAN, OnDeleteSession(k, success)
      PROVE  Requested(r)'
  <2>1. /\ app'[r] = app[r] \/ (app[r] = "live" /\ app'[r] = "gone")
        /\ UNCHANGED <<vars, link, creates, pbusy, received, historyVars>>
    BY <1>a, <1>7 DEF OnDeleteSession, GridTypeOK
  <2> QED
    BY <1>1, <2>1 DEF historyVars, Running
<1> QED
  BY <1>2, <1>3, <1>4, <1>5, <1>6, <1>7

\* Every step keeps what is known of a request.
LEMMA RequestedStep ==
    ASSUME GridInv, [GridNext]_gridVars, NEW r \in Requests
    PROVE  Requested(r)'
<1>1. CASE OnlyTime
  <2>1. /\ UNCHANGED <<conn, nodeMap, busy, session, pc, dev, via>>
        /\ UNCHANGED <<link, creates, received, app, pbusy, misfreed, orphaned>>
    BY <1>1, OnlyTimeFrame DEF connVars, deviceVars, requestVars, wireVars, pluginVars, historyVars
  <2> QED
    BY <2>1 DEF GridInv, Requested, Pending, Direct, Protected, Running, Exposed
<1>2. CASE GridNext /\ ~OnlyTime
  BY <1>2, RequestedLinks, RequestedDelivered, RequestedUnblocks, RequestedDistributes,
     RequestedSends, RequestedRuns DEF GridNext, OnlyTime
<1> QED
  BY <1>1, <1>2 DEF OnlyTime

-----------------------------------------------------------------------------
(* The wire.                                                               *)

\* No device of node n begins to be in use.
UsesKept(n) ==
    \A r \in Requests : Protected(r)' /\ HostOf[dev'[r]] = n => Protected(r) /\ dev'[r] = dev[r]

CallsKept == \A r \in Requests : pc[r] \in {"calling", "done"} => pc'[r] \in {"calling", "done"}

\* What makes a message right stays so.
LEMMA ProperKept ==
    ASSUME NEW n \in Nodes, NEW m \in Message, Proper(n, m),
           pdevice \subseteq pdevice', CallsKept, Registers(m) => UsesKept(n),
           m.type = "connected" => m.device \notin device'
    PROVE  Proper(n, m)'
<1>1. Registers(m) =>
        /\ m.devices \subseteq pdevice' \cap DevicesOf(n) /\ m.blocked \subseteq m.devices
        /\ \A r \in Requests : Protected(r)' /\ HostOf[dev'[r]] = n => dev'[r] \in m.blocked
  BY DEF Proper, UsesKept
<1>2. m.type = "connected" => m.device \in (pdevice' \cap DevicesOf(n)) \ device'
  BY DEF Proper
<1>3. m.type \in {"session", "created"} => pc'[m.session] \in {"calling", "done"}
  BY MessageParts DEF Proper, CallsKept
<1> QED
  BY <1>1, <1>2, <1>3 DEF Proper, Registers, DevicesOf

\* A wire that got no message.
LEMMA WiredKept ==
    ASSUME GridInv, NEW n \in Nodes, pdevice \subseteq pdevice', CallsKept, UsesKept(n),
           \A x \in Elements(buffer'[n]) : ~Registers(x),
           \A g \in Conns : Ordered(Wire(n, g)'),
           \A g \in Conns : \A x \in Elements(Wire(n, g)') :
             /\ \E h \in Conns : x \in Elements(Wire(n, h))
             /\ x.type = "connected" => x.device \notin device'
    PROVE  Wired(n)'
<1>1. ASSUME NEW g \in Conns, NEW x \in Elements(Wire(n, g)') PROVE Proper(n, x)'
  <2>1. PICK h \in Conns : x \in Elements(Wire(n, h))
    OBVIOUS
  <2>2. GridTypeOK /\ Wired(n)
    BY DEF GridInv
  <2>3. x \in Message /\ Proper(n, x)
    BY <2>1, <2>2, WireElements DEF Wired
  <2> QED
    BY <2>3, ProperKept
<1> QED
  BY <1>1 DEF Wired

\* The same for the wire of a node that the step does not touch.
LEMMA WiredUntouched ==
    ASSUME GridInv, NEW n \in Nodes, pdevice \subseteq pdevice', CallsKept, UsesKept(n),
           toHub'[n] = toHub[n], buffer'[n] = buffer[n],
           device' \cap DevicesOf(n) \subseteq device
    PROVE  Wired(n)'
<1>1. GridTypeOK /\ Wired(n)
  BY DEF GridInv
<1>2. \A g \in Conns : Wire(n, g)' = Wire(n, g)
  BY DEF Wire
<1>3. \A g \in Conns : \A x \in Elements(Wire(n, g)) : x.type = "connected" => x.device \notin device'
  BY <1>1 DEF Wired, Proper
<1>4. \A x \in Elements(buffer'[n]) : ~Registers(x)
  BY <1>1 DEF Wired
<1>5. \A g \in Conns : Ordered(Wire(n, g)')
  BY <1>1, <1>2 DEF Wired
<1>6. \A g \in Conns : \A x \in Elements(Wire(n, g)') :
             /\ \E h \in Conns : x \in Elements(Wire(n, h))
             /\ x.type = "connected" => x.device \notin device'
  BY <1>2, <1>3
<1> QED
  BY <1>4, <1>5, <1>6, WiredKept

\* A message that comes last on the wire.
LEMMA WiredEmits ==
    ASSUME GridInv, NEW n \in Nodes, NEW q \in Seq(Message), Emit(n, q),
           pdevice \subseteq pdevice', device' = device, CallsKept,
           \A g \in Conns : \A x \in Elements(Wire(n, g)) : Registers(x) => UsesKept(n),
           Ordered(q),
           \A x \in Elements(q) : ~Registers(x) /\ Proper(n, x)',
           \A g \in Conns : \A x \in Elements(Wire(n, g)), y \in Elements(q) : Follows(x, y)
    PROVE  Wired(n)'
<1>1. GridTypeOK /\ Wired(n) /\ Linked(n)
  BY DEF GridInv
<1>2. \A x \in Elements(buffer'[n]) : ~Registers(x)
  BY <1>1, EmitEffect DEF Wired
<1>3. ASSUME NEW g \in Conns
      PROVE  Ordered(Wire(n, g)') /\ \A x \in Elements(Wire(n, g)') : Proper(n, x)'
  <2> DEFINE w == Wire(n, g)
             v == Wire(n, g)'
  <2>1. w \in Seq(Message) /\ Ordered(w) /\ \A x \in Elements(w) : x \in Message /\ Proper(n, x)
    BY <1>1, WireElements DEF Wired
  <2>2. \A x \in Elements(w) : Proper(n, x)'
    <3> SUFFICES ASSUME NEW x \in Elements(w) PROVE Proper(n, x)'
      OBVIOUS
    <3>1. x \in Message /\ Proper(n, x) /\ (Registers(x) => UsesKept(n))
      BY <2>1
    <3>2. x.type = "connected" => x.device \notin device'
      BY <3>1 DEF Proper
    <3> QED
      BY <3>1, <3>2, ProperKept
  <2>3. v = w \/ v = w \o q
    BY <1>1, EmitEffect
  <2>4. \A x \in Elements(w), y \in Elements(q) : Follows(x, y)
    OBVIOUS
  <2> HIDE DEF w, v
  <2>5. Ordered(w \o q) /\ Elements(w \o q) = Elements(w) \cup Elements(q)
    BY <2>1, <2>4, ConcatElements
  <2>6. Ordered(v) /\ Elements(v) \subseteq Elements(w) \cup Elements(q)
    BY <2>1, <2>3, <2>5
  <2>7. \A x \in Elements(v) : Proper(n, x)'
    BY <2>2, <2>6
  <2> QED
    BY <2>6, <2>7 DEF v
<1> QED
  BY <1>2, <1>3 DEF Wired

\* Steps in which no session begins.
LEMMA NoNewUse ==
    ASSUME \A r \in Requests : Running(r)' => Running(r) /\ dev'[r] = dev[r],
           Exposed \subseteq Exposed'
    PROVE  \A n \in Nodes : UsesKept(n)
  BY DEF UsesKept, Protected

\* Connecting: the registration says what the plugin has and what is in use
\* (client.ts:45-76).
LEMMA WiredConnects ==
    ASSUME GridInv, NEW p \in Nodes, ConnectToSocketServer(p), NEW n \in Nodes
    PROVE  Wired(n)'
<1>a. GridTypeOK /\ Linked(p) /\ Wired(p) /\ Wired(n) /\ \A r \in Requests : Requested(r)
  BY DEF GridInv
<1>1. UNCHANGED <<pc, dev, device, app, pdevice, pbusy, misfreed, orphaned>>
  BY DEF ConnectToSocketServer, Connect, deviceVars, requestVars, pluginVars, historyVars
<1>2. UsesKept(n) /\ CallsKept
  BY <1>1, NoNewUse DEF CallsKept, Running, Exposed
<1>3. CASE n # p
  BY <1>a, <1>1, <1>2, <1>3, ConnectWire, WiredUntouched
<1>4. CASE n = p
  <2> DEFINE m == RegisterMessage(n)
  <2>1. PICK g \in Conns :
          /\ \A h \in Conns \ {g} : Wire(n, h)' = <<>>
          /\ Ordered(Wire(n, g)')
          /\ \A x \in Elements(Wire(n, g)') : x = m \/ (x \in Elements(Wire(n, g)) /\ ~Registers(x))
    BY <1>a, <1>4, ConnectWire
  <2>2. ASSUME NEW x, x = m PROVE Proper(n, x)'
    <3>1. /\ x.type = "register" /\ x.devices = pdevice \cap DevicesOf(n)
          /\ x.blocked = pbusy \cap DevicesOf(n)
      BY <2>2 DEF RegisterMessage
    <3>2. ASSUME NEW r \in Requests, Protected(r)' PROVE dev'[r] \in pbusy /\ dev'[r] \in Devices
      <4>1. Protected(r)
        BY <1>1, <3>2 DEF Protected, Running, Exposed
      <4> QED
        BY <1>a, <1>1, <4>1, UserHasDevice DEF Requested, Protected
    <3>3. pbusy \subseteq pdevice
      BY <1>a DEF GridTypeOK
    <3> QED
      BY <1>1, <3>1, <3>2, <3>3 DEF Proper, DevicesOf, Registers
  <2> HIDE DEF m
  <2>3. ASSUME NEW x \in Elements(Wire(n, g)') PROVE Proper(n, x)'
    <3>1. CASE x = m
      BY <2>2, <3>1
    <3>2. CASE x # m
      <4>1. x \in Message /\ Proper(n, x) /\ ~Registers(x)
        BY <1>a, <2>1, <3>2, WireElements DEF Wired
      <4>2. x.type = "connected" => x.device \notin device'
        BY <1>1, <4>1 DEF Proper
      <4> QED
        BY <1>1, <1>2, <4>1, <4>2, ProperKept
    <3> QED
      BY <3>1, <3>2
  <2>4. \A h \in Conns \ {g} : Ordered(Wire(n, h)') /\ Elements(Wire(n, h)') = {}
    BY <2>1, ShortElements
  <2>5. Elements(buffer'[n]) = {}
    BY <1>a, <1>4, ConnectWire, ShortElements
  <2> QED
    BY <2>1, <2>3, <2>4, <2>5 DEF Wired
<1> QED
  BY <1>3, <1>4

\* A message is taken from the wire: what may follow it does not mention what it
\* made known (node-controller.ts:18-25, device-controller.ts:18-36).
LEMMA WiredDelivers ==
    ASSUME GridInv, NEW p \in Nodes, NEW g \in Conns, Deliver(p, g), NEW n \in Nodes
    PROVE  Wired(n)'
<1> DEFINE m == Head(toHub[p][g])
<1>a. GridTypeOK /\ Linked(p) /\ Wired(p) /\ Wired(n)
  BY DEF GridInv
<1>1. m \in Message /\ Proper(p, m)
  BY <1>a, DeliverEffect, WireElements DEF Wired
<1>2. /\ RequestsGoOn /\ toHub[p][g] # <<>> /\ toHub' = [toHub EXCEPT ![p][g] = Tail(@)]
      /\ UNCHANGED <<buffer, pdevice, app, orphaned, dev>> /\ misfreed \subseteq misfreed'
      /\ Handled(p, g, m)
  BY DeliverEffect DEF RequestsGoOn, pluginVars
<1>3. /\ \A q \in Nodes \ {p} : toHub'[q] = toHub[q]
      /\ \A h \in Conns :
           /\ Ordered(Wire(p, h)')
           /\ \A x \in Elements(Wire(p, h)') : x \in Elements(Wire(p, g)) /\ Follows(m, x)
  BY <1>a, <1>2, DeliverWire
<1> HIDE DEF m
<1>4. UsesKept(n) /\ CallsKept
  <2>1. Exposed \subseteq Exposed' /\ \A r \in Requests : Running(r)' => Running(r) /\ dev'[r] = dev[r]
    BY <1>2 DEF Exposed, Running
  <2> QED
    BY <1>2, <2>1, NoNewUse DEF CallsKept, RequestsGoOn
<1>5. \/ Registers(m) /\ device' = (device \ DevicesOf(p)) \cup m.devices
      \/ m.type = "connected" /\ device' \subseteq device \cup {m.device}
      \/ device' = device
  BY <1>2 DEF Handled
<1>6. CASE n # p
  <2>1. device' \cap DevicesOf(n) \subseteq device
    BY <1>1, <1>5, <1>6 DEF Proper, DevicesOf
  <2> QED
    BY <1>2, <1>3, <1>4, <1>6, <2>1, WiredUntouched
<1>7. CASE n = p
  <2>1. ASSUME NEW x \in Elements(Wire(n, g)), Follows(m, x), x.type = "connected"
        PROVE  x.device \notin device'
    <3>1. Proper(n, x)
      BY <1>a, <2>1 DEF Wired
    <3>2. x.device \in Devices \ device /\ Announces(x, x.device)
      BY <2>1, <3>1 DEF Proper, DevicesOf, Announces
    <3>3. ~Mentions(m, x.device)
      BY <2>1, <3>2 DEF Follows
    <3> QED
      BY <1>5, <3>2, <3>3 DEF Mentions, Announces
  <2>2. \A x \in Elements(buffer'[n]) : ~Registers(x)
    BY <1>a, <1>2 DEF Wired
  <2>3. \A h \in Conns : Ordered(Wire(n, h)')
    BY <1>3, <1>7
  <2>4. \A h \in Conns : \A x \in Elements(Wire(n, h)') :
             /\ \E k \in Conns : x \in Elements(Wire(n, k))
             /\ x.type = "connected" => x.device \notin device'
    BY <1>3, <1>7, <2>1
  <2> QED
    BY <1>2, <1>4, <2>2, <2>3, <2>4, WiredKept
<1> QED
  BY <1>6, <1>7

\* A disconnection empties a connection (node-controller.ts:27).
LEMMA WiredDrops ==
    ASSUME GridInv, NEW p \in Nodes, NEW g \in Conns, HubDisconnect(p, g), NEW n \in Nodes
    PROVE  Wired(n)'
<1>a. GridTypeOK /\ Wired(p) /\ Wired(n)
  BY DEF GridInv
<1>1. /\ RequestsGoOn /\ toHub' = [toHub EXCEPT ![p][g] = <<>>]
      /\ UNCHANGED <<buffer, device, pdevice, app, orphaned, dev>> /\ misfreed \subseteq misfreed'
  BY DisconnectEffect DEF RequestsGoOn, pluginVars
<1>2. UsesKept(n) /\ CallsKept
  <2>1. Exposed \subseteq Exposed' /\ \A r \in Requests : Running(r)' => Running(r) /\ dev'[r] = dev[r]
    BY <1>1 DEF Exposed, Running
  <2> QED
    BY <1>1, <2>1, NoNewUse DEF CallsKept, RequestsGoOn
<1>3. CASE n # p
  BY <1>a, <1>1, <1>2, <1>3, DropWire, WiredUntouched
<1>4. CASE n = p
  <2>1. \A h \in Conns : Ordered(Wire(n, h)') /\ Elements(Wire(n, h)') \subseteq Elements(Wire(n, h))
    BY <1>a, <1>1, <1>4, DropWire
  <2>2. \A h \in Conns : \A x \in Elements(Wire(n, h)') :
             /\ \E k \in Conns : x \in Elements(Wire(n, k))
             /\ x.type = "connected" => x.device \notin device'
    BY <1>a, <1>1, <2>1 DEF Wired, Proper
  <2>3. \A x \in Elements(buffer'[n]) : ~Registers(x)
    BY <1>a, <1>1 DEF Wired
  <2> QED
    BY <1>1, <1>2, <2>1, <2>2, <2>3, WiredKept
<1> QED
  BY <1>3, <1>4

\* A device the tracker finds is announced once, and nothing under way mentions
\* it (device-manager.ts:20-106).
LEMMA WiredAdds ==
    ASSUME GridInv, NEW d \in Devices, OnDeviceAdded(d), NEW n \in Nodes
    PROVE  Wired(n)'
<1> DEFINE p == HostOf[d]
           m == [type |-> "connected", device |-> d]
           q == <<m>>
<1>a. GridTypeOK /\ Wired(n) /\ Linked(p) /\ Wired(p) /\ device \subseteq pdevice /\ p \in Nodes
  BY HubAssumption DEF GridInv
<1>1. /\ d \notin pdevice /\ pdevice' = pdevice \cup {d} /\ Emit(p, q)
      /\ UNCHANGED <<device, pc, dev, app, misfreed, orphaned>>
  BY DEF OnDeviceAdded, historyVars, vars, deviceVars, requestVars
<1>2. UsesKept(n) /\ CallsKept
  BY <1>1, NoNewUse DEF CallsKept, Running, Exposed
<1>3. m \in Message /\ q \in Seq(Message) /\ Elements(q) = {m} /\ Ordered(q)
  <2>1. m \in Message
    BY DEF Message
  <2> QED
    BY <2>1, ShortElements
<1>4. CASE n # p
  <2>1. toHub'[n] = toHub[n] /\ buffer'[n] = buffer[n]
    BY <1>a, <1>1, <1>3, <1>4, EmitEffect
  <2> QED
    BY <1>1, <1>2, <2>1, WiredUntouched
<1>5. CASE n = p
  <2>1. ~Registers(m) /\ Proper(n, m)'
    BY <1>a, <1>1, <1>5 DEF Proper, Registers, DevicesOf
  <2>2. ASSUME NEW g \in Conns, NEW x \in Elements(Wire(n, g)) PROVE Follows(x, m)
    <3>1. Proper(n, x)
      BY <1>a, <2>2 DEF Wired
    <3>2. ~Mentions(x, d)
      BY <1>1, <3>1 DEF Mentions, Announces, Proper, Registers
    <3> QED
      BY <2>1, <3>2 DEF Follows, Announces
  <2>3. Emit(n, q)
    BY <1>1, <1>5
  <2> HIDE DEF m, q
  <2>4. \A x \in Elements(q) : ~Registers(x) /\ Proper(n, x)'
    <3> SUFFICES ASSUME NEW x \in Elements(q) PROVE ~Registers(x) /\ Proper(n, x)'
      OBVIOUS
    <3>1. x = m
      BY <1>3
    <3> QED
      BY <2>1, <3>1
  <2>5. \A g \in Conns : \A x \in Elements(Wire(n, g)), y \in Elements(q) : Follows(x, y)
    BY <1>3, <2>2
  <2> QED
    BY <1>1, <1>2, <1>3, <2>3, <2>4, <2>5, WiredEmits
<1> QED
  BY <1>4, <1>5

\* A session is a use from the block on.  If its command did not outlive its
\* connection the hub is registered on that, so that no registration is under
\* way (plugin/index.ts:56-71).
LEMMA WiredUses ==
    ASSUME GridInv, NEW r \in Requests, OnCreateSession(r), NEW n \in Nodes,
           NEW g \in Conns, NEW x \in Elements(Wire(n, g)), Registers(x)
    PROVE  UsesKept(n)
<1>a. GridTypeOK /\ Requested(r) /\ Linked(n) /\ Wired(n) /\ dev' = dev
  BY DEF GridInv, OnCreateSession, vars, requestVars
<1>1. /\ r \in received /\ app' = [app EXCEPT ![r] = "creating"]
      /\ orphaned' = IF link[HostOf[dev[r]]] = via[r] THEN orphaned ELSE orphaned \cup {dev[r]}
      /\ misfreed' = misfreed
  BY DEF OnCreateSession
<1>2. Pending(r) /\ via[r] # 0
  BY <1>1, UserHasDevice DEF Pending
<1>3. ASSUME Direct(r) PROVE HostOf[dev[r]] # n
  <2>1. nodeMap[HostOf[dev[r]]] = via[r] /\ link[HostOf[dev[r]]] = via[r]
    BY <1>a, <1>2, <1>3 DEF Requested, Direct
  <2>2. CASE HostOf[dev[r]] = n
    <3>1. link[n] # 0 /\ nodeMap[n] = link[n]
      BY <1>2, <2>1, <2>2
    <3>2. x \in Elements(toHub[n][g])
      BY <1>a, WireElements DEF Wired
    <3>3. g = link[n]
      BY <1>a, <3>1, <3>2, ShortElements DEF Linked
    <3> QED
      BY <1>a, <3>1, <3>2, <3>3 DEF Linked
  <2> QED
    BY <2>2
<1>4. ~Direct(r) => dev[r] \in Exposed'
  BY <1>1 DEF Direct, Exposed
<1>5. Exposed \subseteq Exposed' /\ \A s \in Requests \ {r} : Running(s)' => Running(s)
  BY <1>a, <1>1 DEF Exposed, Running, GridTypeOK
<1> QED
  BY <1>a, <1>3, <1>4, <1>5 DEF UsesKept, Protected

\* What a session makes the plugin emit may follow anything (plugin/index.ts:56-91).
LEMMA WiredSessions ==
    ASSUME GridInv, NEW r \in Requests, NEW n \in Nodes,
           \/ OnCreateSession(r) \/ OnSessionCreated(r) \/ OnSessionRefused(r)
           \/ \E k \in removals, success \in BOOLEAN : k[2] = r /\ OnDeleteSession(k, success)
    PROVE  Wired(n)'
<1>a. GridTypeOK /\ Wired(n) /\ Requested(r)
  BY DEF GridInv
<1>1. PICK p \in Nodes, q \in Seq(Message) : Emit(p, q) /\ \A x \in Elements(q) : About(r, x)
  BY SessionEmits
<1>2. UNCHANGED <<device, pc, dev, session, pdevice>>
  BY DEF OnCreateSession, OnSessionCreated, OnSessionRefused, OnDeleteSession, vars, deviceVars, requestVars
<1>3. pc[r] \in {"calling", "done"}
  BY <1>a DEF OnCreateSession, OnSessionCreated, OnSessionRefused, OnDeleteSession, Requested, GridInv
<1>4. CallsKept
  BY <1>2 DEF CallsKept
<1>5. OnCreateSession(r) \/ UsesKept(n)
  <2>1. ASSUME OnSessionCreated(r) \/ OnSessionRefused(r) PROVE UsesKept(n)
    <3>1. /\ UNCHANGED historyVars
          /\ app' = [app EXCEPT ![r] = "live"] \/ app' = [app EXCEPT ![r] = "failed"]
          /\ app[r] = "creating"
      BY <2>1 DEF OnSessionCreated, OnSessionRefused
    <3> QED
      BY <1>a, <1>2, <3>1, NoNewUse DEF historyVars, Running, Exposed, GridTypeOK
  <2>2. ASSUME NEW k \in removals, NEW success \in BOOLEAN, k[2] = r, OnDeleteSession(k, success)
        PROVE  UsesKept(n)
    <3>1. UNCHANGED historyVars /\ (app' = app \/ app' = [app EXCEPT ![r] = "gone"])
      BY <2>2 DEF OnDeleteSession
    <3> QED
      BY <1>a, <1>2, <3>1, NoNewUse DEF historyVars, Running, Exposed, GridTypeOK
  <2> QED
    BY <2>1, <2>2
<1>6. \A g \in Conns : \A x \in Elements(Wire(n, g)) : Registers(x) => UsesKept(n)
  BY <1>5, WiredUses
<1>7. ASSUME NEW x \in Elements(q)
      PROVE  ~Registers(x) /\ Proper(n, x)' /\ \A a : Follows(a, x)
  <2>1. /\ x.type \notin {"register", "connected"}
        /\ x.type \in {"session", "created"} => x.session = r
    BY <1>1 DEF About
  <2> QED
    BY <1>2, <1>3, <2>1 DEF Proper, Registers, Follows, Announces
<1>8. Ordered(q)
  BY <1>7 DEF Ordered, Elements
<1>9. CASE n = p
  BY <1>1, <1>2, <1>4, <1>6, <1>7, <1>8, <1>9, WiredEmits
<1>10. CASE n # p
  <2>1. Linked(p) /\ p \in Nodes
    BY DEF GridInv
  <2>2. toHub'[n] = toHub[n] /\ buffer'[n] = buffer[n]
    BY <1>a, <1>1, <1>10, <2>1, EmitEffect
  <2>3. \A g \in Conns : Wire(n, g)' = Wire(n, g)
    BY <2>2 DEF Wire
  <2>4. ASSUME NEW g \in Conns, NEW x \in Elements(Wire(n, g)) PROVE Proper(n, x)'
    <3>1. x \in Message /\ Proper(n, x)
      BY <1>a, <2>4, WireElements DEF Wired
    <3>2. x.type = "connected" => x.device \notin device'
      BY <1>2, <3>1 DEF Proper
    <3> QED
      BY <1>2, <1>4, <1>6, <2>4, <3>1, <3>2, ProperKept
  <2> QED
    BY <1>a, <2>2, <2>3, <2>4 DEF Wired
<1> QED
  BY <1>9, <1>10

\* Every step keeps the wire in order.
LEMMA WiredStep ==
    ASSUME GridInv, [GridNext]_gridVars, NEW n \in Nodes
    PROVE  Wired(n)'
<1>a. GridTypeOK /\ IInv /\ TypeOK /\ Wired(n) /\ \A r \in Requests : Requested(r)
  BY DEF GridInv, IInv
<1>1. ASSUME UNCHANGED <<toHub, buffer, device, pdevice, app, orphaned>>, misfreed \subseteq misfreed', CallsKept,
             \A r \in Requests : app[r] # "none" => dev'[r] = dev[r]
      PROVE  Wired(n)'
  <2>1. UsesKept(n)
    BY <1>1, NoNewUse DEF Running, Exposed
  <2> QED
    BY <1>1, <2>1, WiredUntouched
<1>2. ASSUME NEW p \in Nodes, LoseConnection(p) PROVE Wired(n)'
  BY <1>1, <1>2 DEF LoseConnection, CallsKept, vars, deviceVars, requestVars, pluginVars, historyVars
<1>3. ASSUME NEW r \in Requests, Distribute(r) PROVE Wired(n)'
  <2>1. UNCHANGED <<toHub, buffer, device, pdevice, app, orphaned, misfreed>>
    BY <1>3 DEF Distribute, wireVars, pluginVars, historyVars, deviceVars, HandleNewSession, OnRequestClosed,
     Attempt, FindNodeForCapability, FindNoNode, AddDeviceToPool, FindTimeout, CreateSessionTimeout
  <2>2. /\ pc' = pc \/ \E to \in PC : /\ pc' = [pc EXCEPT ![r] = to]
                                      /\ pc[r] \in {"calling", "done"} => to \in {"calling", "done"}
        /\ dev' = dev \/ (pc[r] = "queued" /\ \E d \in Devices : dev' = [dev EXCEPT ![r] = d])
    BY <1>3, <1>a DEF Distribute, HandleNewSession, OnRequestClosed, Attempt, FindNoNode,
       AddDeviceToPool, FindTimeout, CreateSessionTimeout, FindNodeForCapability, FreeDevicesFor, SetPC,
       TypeOK, PC
  <2>3. CallsKept
    BY <1>a, <2>2 DEF TypeOK, CallsKept
  <2>4. \A s \in Requests : app[s] # "none" => dev'[s] = dev[s]
    BY <1>a, <2>2 DEF TypeOK, Requested
  <2> QED
    BY <1>1, <2>1, <2>3, <2>4
<1>4. ASSUME NEW r \in Requests, SendCreateSession(r) PROVE Wired(n)'
  <2>1. /\ UNCHANGED <<toHub, buffer, device, pdevice, app, orphaned, misfreed, dev>>
        /\ pc[r] = "pooled" /\ pc' = [pc EXCEPT ![r] = IF r \in closed THEN "done" ELSE "calling"]
    BY <1>4 DEF SendCreateSession, ProxyCreateSession, SetPC, deviceVars, pluginVars, historyVars
  <2>2. CallsKept
    BY <1>a, <2>1 DEF CallsKept, TypeOK
  <2> QED
    BY <1>1, <2>1, <2>2
<1>5. ASSUME NEW k \in Deletes, NEW r \in Requests, SendDelete(k, r) PROVE Wired(n)'
  BY <1>1, <1>5 DEF SendDelete, ProxyDelete, CallsKept, deviceVars, requestVars, pluginVars, historyVars
<1>6. ASSUME NEW k \in deletes, GiveUpDelete(k) PROVE Wired(n)'
  BY <1>1, <1>6 DEF GiveUpDelete, DeleteTimeout, FinishDelete, RecordUnblock, CallsKept, requestVars,
     wireVars, pluginVars
<1>7. ASSUME NEW r \in Requests, ExecuteCommand(r) PROVE Wired(n)'
  BY <1>1, <1>7 DEF ExecuteCommand, CallsKept, vars, deviceVars, requestVars, historyVars
<1>8. CASE OnlyTime
  BY <1>1, <1>8, OnlyTimeFrame DEF CallsKept, deviceVars, requestVars, wireVars, pluginVars, historyVars
<1>9. ASSUME NEW k \in removals, NEW success \in BOOLEAN, OnDeleteSession(k, success) PROVE Wired(n)'
  <2>1. k[2] \in Requests
    BY <1>a DEF GridTypeOK
  <2> QED
    BY <1>9, <2>1, WiredSessions
<1> QED
  BY <1>2, <1>3, <1>4, <1>5, <1>6, <1>7, <1>8, <1>9, WiredConnects, WiredDrops, WiredDelivers, WiredAdds,
     WiredSessions DEF GridNext, OnlyTime

-----------------------------------------------------------------------------
(* Connections.                                                            *)

\* A step in which a node neither connects nor registers.
LEMMA LinkedKept ==
    ASSUME GridInv, NEW n \in Nodes,
           link'[n] \in {0, link[n]},
           link'[n] # 0 => conn'[n][link[n]] = "open" /\ buffer'[n] = buffer[n],
           \A g \in Conns : conn[n][g] # "none" => conn'[n][g] # "none",
           nodeMap'[n] = nodeMap[n], n \in active' => n \in active,
           \A g \in Conns : toHub'[n][g] # <<>> => toHub[n][g] # <<>> \/ g = link[n],
           \A g \in Conns : \A x \in Elements(toHub'[n][g]) :
             Registers(x) => x \in Elements(toHub[n][g])
    PROVE  Linked(n)'
<1>1. Linked(n) /\ link[n] \in {0} \cup Conns /\ nodeMap[n] \in {0} \cup Conns /\ 0 \notin Conns
  BY DEF GridInv, GridTypeOK, IInv, TypeOK, Conns
<1>2. link'[n] # 0 => /\ link'[n] = link[n] /\ conn'[n][link'[n]] = "open" /\ buffer'[n] = <<>>
                      /\ \A g \in Conns : g # link'[n] => toHub'[n][g] = <<>>
  BY <1>1 DEF Linked
<1>3. \A g, h \in Conns : toHub'[n][g] # <<>> /\ toHub'[n][h] # <<>> => g = h
  <2>1. CASE link[n] # 0
    <3>1. \A g \in Conns : toHub'[n][g] # <<>> => g = link[n]
      BY <1>1, <2>1 DEF Linked
    <3> QED
      BY <3>1
  <2>2. CASE link[n] = 0
    <3>1. \A g \in Conns : toHub'[n][g] # <<>> => toHub[n][g] # <<>>
      BY <1>1, <2>2
    <3> QED
      BY <1>1, <3>1 DEF Linked
  <2> QED
    BY <2>1, <2>2
<1>4. n \in active' => nodeMap'[n] # 0
  BY <1>1 DEF Linked
<1>5. nodeMap'[n] # 0 => /\ conn'[n][nodeMap'[n]] # "none"
                         /\ \A x \in Elements(toHub'[n][nodeMap'[n]]) : ~Registers(x)
  BY <1>1 DEF Linked
<1> QED
  BY <1>2, <1>3, <1>4, <1>5 DEF Linked

\* A node that connects is registered on another connection, if at all
\* (client.ts:36-76).
LEMMA LinkedConnects ==
    ASSUME GridInv, NEW p \in Nodes, ConnectToSocketServer(p), NEW n \in Nodes
    PROVE  Linked(n)'
<1>a. GridTypeOK /\ TypeOK /\ Linked(n) /\ Wired(n) /\ 0 \notin Conns
  BY DEF GridInv, IInv, Conns
<1>1. UNCHANGED <<nodeMap, active>>
  BY DEF ConnectToSocketServer, Connect
<1>2. CASE n # p
  <2>1. conn'[n] = conn[n]
    BY <1>a, <1>2 DEF ConnectToSocketServer, Connect, TypeOK
  <2>2. toHub'[n] = toHub[n] /\ buffer'[n] = buffer[n] /\ link'[n] = link[n]
    <3>1. Linked(p) /\ Wired(p)
      BY DEF GridInv
    <3> QED
      BY <1>a, <1>2, <3>1, ConnectWire
  <2> QED
    BY <1>a, <1>1, <2>1, <2>2, LinkedKept DEF Linked
<1>3. CASE n = p
  <2>1. PICK g \in Conns :
          /\ conn[n][g] = "none" /\ conn' = [conn EXCEPT ![n][g] = "open"] /\ link'[n] = g
          /\ \A h \in Conns \ {g} : toHub'[n][h] = <<>>
    BY <1>a, <1>3, ConnectWire DEF Connect
  <2>2. buffer'[n] = <<>>
    BY <1>a, <1>3, ConnectWire
  <2>3. /\ conn'[n][g] = "open" /\ \A h \in Conns \ {g} : conn'[n][h] = conn[n][h]
    BY <1>a, <2>1 DEF TypeOK
  <2>4. nodeMap[n] # 0 => nodeMap[n] # g /\ nodeMap[n] \in Conns \ {g}
    BY <1>a, <2>1 DEF Linked, TypeOK
  <2>5. nodeMap'[n] # 0 => /\ conn'[n][nodeMap'[n]] # "none"
                           /\ Elements(toHub'[n][nodeMap'[n]]) = {}
    BY <1>a, <1>1, <2>1, <2>3, <2>4, ShortElements DEF Linked
  <2>6. n \in active' => nodeMap'[n] # 0
    BY <1>a, <1>1 DEF Linked
  <2> QED
    BY <2>1, <2>2, <2>3, <2>5, <2>6 DEF Linked
<1> QED
  BY <1>2, <1>3

\* A registration makes the node active on the connection it came on, behind
\* which no other is under way (node-controller.ts:18-25).
LEMMA LinkedDelivers ==
    ASSUME GridInv, NEW p \in Nodes, NEW g \in Conns, Deliver(p, g), NEW n \in Nodes
    PROVE  Linked(n)'
<1> DEFINE m == Head(toHub[p][g])
<1>a. GridTypeOK /\ TypeOK /\ Linked(n) /\ Linked(p) /\ Wired(p) /\ 0 \notin Conns
  BY DEF GridInv, IInv, Conns
<1>1. /\ toHub[p][g] # <<>> /\ toHub' = [toHub EXCEPT ![p][g] = Tail(@)] /\ conn[p][g] = "open"
      /\ UNCHANGED <<conn, link, buffer>> /\ Handled(p, g, m)
  BY DeliverEffect
<1>2. /\ \A q \in Nodes \ {p} : toHub'[q] = toHub[q]
      /\ \A h \in Conns : /\ Elements(toHub'[p][h]) \subseteq Elements(toHub[p][h])
                          /\ toHub'[p][h] # <<>> => toHub[p][h] # <<>>
      /\ \A x \in Elements(toHub'[p][g]) : Follows(m, x)
  BY <1>a, <1>1, DeliverWire
<1> HIDE DEF m
<1>3. \A h \in Conns : /\ Elements(toHub'[n][h]) \subseteq Elements(toHub[n][h])
                       /\ toHub'[n][h] # <<>> => toHub[n][h] # <<>>
  BY <1>2
<1>4. ASSUME nodeMap'[n] = nodeMap[n], n \in active' => n \in active PROVE Linked(n)'
  <2>1. link'[n] # 0 => conn'[n][link[n]] = "open"
    BY <1>a, <1>1 DEF Linked
  <2> QED
    BY <1>1, <1>3, <1>4, <2>1, LinkedKept
<1>5. ASSUME n = p, Registers(m), nodeMap' = [nodeMap EXCEPT ![p] = g] PROVE Linked(n)'
  <2>1. nodeMap'[n] = g
    BY <1>a, <1>5 DEF TypeOK
  <2>2. \A x \in Elements(toHub'[n][g]) : ~Registers(x)
    BY <1>2, <1>5 DEF Follows
  <2>3. link'[n] # 0 => /\ conn'[n][link'[n]] = "open" /\ buffer'[n] = <<>>
                        /\ \A h \in Conns : h # link'[n] => toHub'[n][h] = <<>>
    BY <1>a, <1>1, <1>3 DEF Linked
  <2>4. \A h, k \in Conns : toHub'[n][h] # <<>> /\ toHub'[n][k] # <<>> => h = k
    BY <1>a, <1>3 DEF Linked
  <2>5. conn'[n][g] # "none" /\ g # 0
    BY <1>a, <1>1, <1>5
  <2> QED
    BY <2>1, <2>2, <2>3, <2>4, <2>5 DEF Linked
<1>6. CASE Registers(m) /\ nodeMap' = [nodeMap EXCEPT ![p] = g] /\ active' = active \cup {p} /\ n # p
  <2>1. nodeMap'[n] = nodeMap[n]
    BY <1>a, <1>6 DEF TypeOK
  <2> QED
    BY <1>4, <1>6, <2>1
<1>7. CASE UNCHANGED <<nodeMap, active>>
  BY <1>4, <1>7
<1> QED
  BY <1>1, <1>5, <1>6, <1>7 DEF Handled

\* Every step keeps the order of connections.
LEMMA LinkedStep ==
    ASSUME GridInv, [GridNext]_gridVars, NEW n \in Nodes
    PROVE  Linked(n)'
<1>a. GridTypeOK /\ TypeOK /\ Linked(n) /\ 0 \notin Conns
  BY DEF GridInv, IInv, Conns
<1>1. ASSUME UNCHANGED <<conn, nodeMap, toHub, buffer>>, active' \subseteq active,
             link'[n] \in {0, link[n]}
      PROVE  Linked(n)'
  BY <1>a, <1>1, LinkedKept DEF Linked
<1>2. ASSUME NEW p \in Nodes, LoseConnection(p) PROVE Linked(n)'
  <2>1. link'[n] \in {0, link[n]}
    BY <1>a, <1>2 DEF LoseConnection, GridTypeOK
  <2> QED
    BY <1>1, <1>2, <2>1 DEF LoseConnection, vars, connVars
<1>3. ASSUME NEW p \in Nodes, NEW g \in Conns, HubDisconnect(p, g) PROVE Linked(n)'
  <2>1. /\ conn' = [conn EXCEPT ![p][g] = "closed"] /\ active' \subseteq active /\ link[p] # g
        /\ toHub' = [toHub EXCEPT ![p][g] = <<>>] /\ UNCHANGED <<nodeMap, link, buffer>>
    BY <1>3, DisconnectEffect
  <2>2. \A h \in Conns : toHub'[n][h] = toHub[n][h] \/ toHub'[n][h] = <<>>
    BY <1>a, <2>1 DEF GridTypeOK
  <2>3. \A h \in Conns : /\ conn'[n][h] = conn[n][h] \/ conn'[n][h] = "closed"
                         /\ h = link[n] => conn'[n][h] = conn[n][h]
    BY <1>a, <2>1 DEF TypeOK
  <2>4. \A h \in Conns : toHub'[n][h] # <<>> => toHub[n][h] # <<>>
    BY <2>2
  <2>5. \A h \in Conns : \A x \in Elements(toHub'[n][h]) : x \in Elements(toHub[n][h])
    BY <2>2, ShortElements
  <2>6. link'[n] # 0 => conn'[n][link[n]] = "open" /\ buffer'[n] = buffer[n]
    <3>1. link[n] # 0 => link[n] \in Conns /\ conn[n][link[n]] = "open"
      BY <1>a DEF Linked, GridTypeOK
    <3> QED
      BY <2>1, <2>3, <3>1
  <2>7. \A h \in Conns : conn[n][h] # "none" => conn'[n][h] # "none"
    BY <2>3
  <2> QED
    BY <2>1, <2>4, <2>5, <2>6, <2>7, LinkedKept
<1>4. ASSUME NEW r \in Requests, Distribute(r) PROVE Linked(n)'
  <2>1. UNCHANGED <<conn, nodeMap, active, toHub, buffer, link>>
    BY <1>4 DEF Distribute, wireVars, connVars, HandleNewSession, OnRequestClosed,
     Attempt, FindNodeForCapability, FindNoNode, AddDeviceToPool, FindTimeout, CreateSessionTimeout
  <2> QED
    BY <1>1, <2>1
<1>5. ASSUME \/ \E r \in Requests : SendCreateSession(r)
             \/ \E k \in Deletes, r \in Requests : SendDelete(k, r)
             \/ \E k \in deletes : GiveUpDelete(k)
             \/ \E r \in Requests : ExecuteCommand(r)
      PROVE  Linked(n)'
  <2>1. UNCHANGED <<conn, nodeMap, active, toHub, buffer, link>>
    BY <1>5 DEF SendCreateSession, ProxyCreateSession, SendDelete, ProxyDelete, GiveUpDelete,
       DeleteTimeout, FinishDelete, ExecuteCommand, vars, connVars, wireVars
  <2> QED
    BY <1>1, <2>1
<1>6. CASE OnlyTime
  BY <1>1, <1>6, OnlyTimeFrame DEF connVars, wireVars
<1>7. ASSUME NEW p \in Nodes, NEW q \in Seq(Message), Emit(p, q), \A x \in Elements(q) : ~Registers(x),
             UNCHANGED <<vars, link>>
      PROVE  Linked(n)'
  <2>1. UNCHANGED <<conn, nodeMap, active, link>>
    BY <1>7 DEF vars, connVars
  <2>2. Linked(p)
    BY DEF GridInv
  <2>3. /\ link[n] # 0 => buffer'[n] = buffer[n]
        /\ \A g \in Conns :
             /\ Elements(toHub'[n][g]) \subseteq Elements(toHub[n][g]) \cup Elements(q)
             /\ g # link[n] => toHub'[n][g] = toHub[n][g]
    BY <1>a, <1>7, <2>2, EmitEffect
  <2>4. \A g \in Conns : \A x \in Elements(toHub'[n][g]) : Registers(x) => x \in Elements(toHub[n][g])
    BY <1>7, <2>3
  <2>5. link[n] # 0 => conn[n][link[n]] = "open"
    BY <1>a DEF Linked
  <2> QED
    BY <2>1, <2>3, <2>4, <2>5, LinkedKept
<1>8. ASSUME NEW d \in Devices, OnDeviceAdded(d) PROVE Linked(n)'
  <2> DEFINE m == [type |-> "connected", device |-> d]
  <2>1. m \in Message /\ HostOf[d] \in Nodes /\ ~Registers(m)
    BY HubAssumption DEF Message, Registers
  <2>2. Emit(HostOf[d], <<m>>) /\ UNCHANGED <<vars, link>>
    BY <1>8 DEF OnDeviceAdded
  <2> HIDE DEF m
  <2>3. <<m>> \in Seq(Message) /\ Elements(<<m>>) = {m}
    BY <2>1, ShortElements
  <2> QED
    BY <1>7, <2>1, <2>2, <2>3
<1>9. ASSUME NEW r \in Requests,
             \/ OnCreateSession(r) \/ OnSessionCreated(r) \/ OnSessionRefused(r)
             \/ \E k \in removals, success \in BOOLEAN : k[2] = r /\ OnDeleteSession(k, success)
      PROVE  Linked(n)'
  <2>1. PICK p \in Nodes, q \in Seq(Message) : Emit(p, q) /\ \A x \in Elements(q) : About(r, x)
    BY <1>9, SessionEmits
  <2>2. \A x \in Elements(q) : ~Registers(x)
    BY <2>1 DEF About, Registers
  <2>3. UNCHANGED <<vars, link>>
    BY <1>9 DEF OnCreateSession, OnSessionCreated, OnSessionRefused, OnDeleteSession
  <2> QED
    BY <1>7, <2>1, <2>2, <2>3
<1>10. ASSUME NEW k \in removals, NEW success \in BOOLEAN, OnDeleteSession(k, success) PROVE Linked(n)'
  <2>1. k[2] \in Requests
    BY <1>a DEF GridTypeOK
  <2> QED
    BY <1>9, <1>10, <2>1
<1> QED
  BY <1>2, <1>3, <1>4, <1>5, <1>6, <1>8, <1>9, <1>10, LinkedConnects, LinkedDelivers DEF GridNext, OnlyTime

-----------------------------------------------------------------------------
(* Owners.                                                                 *)

\* A step in which nobody gets a claim, but on a device that has lost its
\* protection.
LEMMA OwnersKept ==
    ASSUME GridInv, Exposed \subseteq Exposed',
           \A r \in Requests : Owns(r)' => (Owns(r) /\ dev'[r] = dev[r]) \/ dev'[r] \in Exposed'
    PROVE  OwnersExclusive'
<1> SUFFICES ASSUME NEW r \in Requests, NEW s \in Requests, r # s, Owns(r)', Owns(s)', dev'[r] = dev'[s]
             PROVE  dev'[r] \in Exposed'
  BY DEF OwnersExclusive
<1> QED
  BY DEF GridInv, OwnersExclusive

\* The lock gives a device only if it is neither held nor blocked, and what has
\* not lost its protection is (distributor.ts:133-155).
LEMMA OwnersMatch ==
    ASSUME GridInv, NEW q \in Requests, FindNodeForCapability(q),
           UNCHANGED <<link, creates, received, app, misfreed, orphaned>>
    PROVE  OwnersExclusive'
<1>a. IInv /\ TypeOK /\ SafetyInv /\ \A s \in Requests : Requested(s)
  BY DEF GridInv, IInv
<1>1. PICK d \in FreeDevicesFor(q) :
        /\ pc[q] = "queued" /\ pc' = [pc EXCEPT ![q] = "matched"]
        /\ dev' = [dev EXCEPT ![q] = d] /\ via' = [via EXCEPT ![q] = nodeMap[HostOf[d]]]
  BY DEF FindNodeForCapability, SetPC
<1>2. dev'[q] = d /\ d \in Devices /\ d \notin busy
  BY <1>a, <1>1 DEF TypeOK, FreeDevicesFor
<1>3. ASSUME NEW s \in Requests, s # q, Owns(s)' PROVE Owns(s) /\ dev'[s] = dev[s]
  <2>1. pc'[s] = pc[s] /\ dev'[s] = dev[s] /\ via'[s] = via[s]
    BY <1>a, <1>1, <1>3 DEF TypeOK
  <2> QED
    BY <1>3, <2>1 DEF Owns, Holds, InPool, Direct, Running
<1>4. ASSUME NEW s \in Requests, s # q, Owns(s), dev[s] = d PROVE d \in Exposed
  <2>1. ~Holds(s)
    BY <1>a, <1>4, FreeIsUnheld
  <2>2. CASE s \in creates \cup received /\ Direct(s)
    BY <1>a, <1>2, <1>4, <2>2 DEF Requested, Pending
  <2>3. CASE Running(s)
    BY <1>a, <1>2, <1>4, <2>3 DEF Requested, Protected
  <2> QED
    BY <1>4, <2>1, <2>2, <2>3 DEF Owns
<1>5. Exposed' = Exposed
  BY DEF Exposed
<1> SUFFICES ASSUME NEW r \in Requests, NEW s \in Requests, r # s, Owns(r)', Owns(s)', dev'[r] = dev'[s]
             PROVE  dev'[r] \in Exposed
  BY <1>5 DEF OwnersExclusive
<1>6. CASE r # q /\ s # q
  BY <1>3, <1>6 DEF GridInv, OwnersExclusive
<1>7. CASE r = q
  BY <1>2, <1>3, <1>4, <1>7
<1>8. CASE s = q
  BY <1>2, <1>3, <1>4, <1>8
<1> QED
  BY <1>6, <1>7, <1>8

\* Every step keeps owners apart.
LEMMA OwnersStep ==
    ASSUME GridInv, [GridNext]_gridVars
    PROVE  OwnersExclusive'
<1>a. GridTypeOK /\ IInv /\ TypeOK /\ \A r \in Requests : Requested(r)
  BY DEF GridInv, IInv
<1>1. ASSUME UNCHANGED <<link, dev, via, orphaned>>, misfreed \subseteq misfreed',
             creates' \cup received' \subseteq creates \cup received,
             \A r \in Requests : /\ Holds(r)' => Holds(r)
                                 /\ Running(r)' => Running(r)
      PROVE  OwnersExclusive'
  BY <1>1, OwnersKept DEF Owns, Direct, Exposed
<1>2. ASSUME NEW n \in Nodes, ConnectToSocketServer(n) \/ LoseConnection(n) PROVE OwnersExclusive'
  <2>1. /\ UNCHANGED <<pc, dev, received, app, misfreed, orphaned>> /\ creates' \subseteq creates
    BY <1>2 DEF ConnectToSocketServer, Connect, LoseConnection, vars, requestVars, pluginVars, historyVars
  <2>2. \A r \in Requests : r \in creates' \cup received' /\ Direct(r)' =>
          r \in creates \cup received /\ Direct(r)
    BY <1>2, <2>1, LinkChange DEF Pending
  <2> QED
    BY <2>1, <2>2, OwnersKept DEF Owns, Holds, InPool, Running, Exposed
<1>3. ASSUME NEW n \in Nodes, NEW g \in Conns, HubDisconnect(n, g) \/ Deliver(n, g) PROVE OwnersExclusive'
  <2>1. /\ RequestsGoOn /\ UNCHANGED <<link, creates, received, app, orphaned>> /\ misfreed \subseteq misfreed'
    BY <1>3, DeliverEffect, DisconnectEffect DEF pluginVars
  <2> QED
    BY <1>1, <2>1 DEF RequestsGoOn, Holds, InPool, Running
<1>4. ASSUME NEW q \in Requests, Distribute(q) PROVE OwnersExclusive'
  <2>1. UNCHANGED <<link, creates, received, app, misfreed, orphaned>>
    BY <1>4 DEF Distribute, wireVars, pluginVars, historyVars
  <2>2. CASE FindNodeForCapability(q)
    BY <2>1, <2>2, OwnersMatch
  <2>3. CASE ~FindNodeForCapability(q)
    <3>1. /\ UNCHANGED <<dev, via>>
          /\ pc' = pc \/ \E to \in PC : /\ pc' = [pc EXCEPT ![q] = to]
                                        /\ to \in {"matched", "pooled", "calling", "abandoned"} => Holds(q)
      BY <1>a, <1>4, <2>3 DEF Distribute, HandleNewSession, OnRequestClosed, Attempt, FindNoNode,
         AddDeviceToPool, FindTimeout, CreateSessionTimeout, SetPC, PC, Holds
    <3>2. \A r \in Requests : Holds(r)' => Holds(r)
      BY <1>a, <3>1 DEF TypeOK, Holds, InPool
    <3> QED
      BY <1>1, <2>1, <3>1, <3>2 DEF Running
  <2> QED
    BY <2>2, <2>3
<1>5. ASSUME NEW q \in Requests, SendCreateSession(q) PROVE OwnersExclusive'
  <2>1. /\ pc[q] = "pooled" /\ pc' = [pc EXCEPT ![q] = IF q \in closed THEN "done" ELSE "calling"]
        /\ creates' \subseteq creates \cup {q}
        /\ UNCHANGED <<dev, via, link, received, app, misfreed, orphaned>>
    BY <1>5 DEF SendCreateSession, ProxyCreateSession, SetPC, pluginVars, historyVars
  <2>2. \A r \in Requests : Holds(r)' => Holds(r)
    BY <1>a, <2>1 DEF TypeOK, Holds, InPool
  <2>3. Owns(q)
    BY <2>1 DEF Owns, Holds, InPool
  <2> QED
    BY <2>1, <2>2, <2>3, OwnersKept DEF Owns, Direct, Running, Exposed
<1>6. ASSUME \/ \E k \in Deletes, r \in Requests : SendDelete(k, r)
             \/ \E k \in deletes : GiveUpDelete(k)
             \/ \E d \in Devices : OnDeviceAdded(d)
             \/ \E r \in Requests : ExecuteCommand(r)
             \/ OnlyTime
      PROVE  OwnersExclusive'
  <2>1. /\ UNCHANGED <<link, dev, via, pc, orphaned, app>>
    BY <1>6, OnlyTimeFrame DEF SendDelete, ProxyDelete, GiveUpDelete, DeleteTimeout, FinishDelete, OnDeviceAdded,
       ExecuteCommand, vars, wireVars, pluginVars, historyVars, requestVars
  <2>2. misfreed \subseteq misfreed' /\ creates' \cup received' \subseteq creates \cup received
    BY <1>6, OnlyTimeFrame DEF SendDelete, GiveUpDelete, RecordUnblock, OnDeviceAdded,
       ExecuteCommand, wireVars, pluginVars, historyVars
  <2> QED
    BY <1>1, <2>1, <2>2 DEF Holds, InPool, Running
<1>7. ASSUME NEW q \in Requests, OnCreateSession(q) PROVE OwnersExclusive'
  <2>1. /\ q \in received /\ received' = received \ {q} /\ app' = [app EXCEPT ![q] = "creating"]
        /\ orphaned' = IF link[HostOf[dev[q]]] = via[q] THEN orphaned ELSE orphaned \cup {dev[q]}
        /\ UNCHANGED <<link, dev, via, pc, creates, misfreed>>
    BY <1>7 DEF OnCreateSession, vars, requestVars
  <2>2. Exposed \subseteq Exposed' /\ (Owns(q) \/ dev[q] \in Exposed')
    BY <2>1 DEF Exposed, Owns, Direct
  <2>3. \A r \in Requests \ {q} : Running(r)' => Running(r)
    BY <1>a, <2>1 DEF Running, GridTypeOK
  <2>4. \A r \in Requests \ {q} : Owns(r)' => Owns(r)
    BY <2>1, <2>3 DEF Owns, Holds, InPool, Direct
  <2> QED
    BY <2>1, <2>2, <2>4, OwnersKept
<1>8. ASSUME \/ \E r \in Requests : OnSessionCreated(r) \/ OnSessionRefused(r)
             \/ \E k \in removals, success \in BOOLEAN : OnDeleteSession(k, success)
      PROVE  OwnersExclusive'
  <2>1. UNCHANGED <<vars, link, creates, received, historyVars>>
    BY <1>8 DEF OnSessionCreated, OnSessionRefused, OnDeleteSession
  <2>2. \A r \in Requests : Running(r)' => Running(r)
    BY <1>a, <1>8 DEF OnSessionCreated, OnSessionRefused, OnDeleteSession, Running, GridTypeOK
  <2> QED
    BY <1>1, <2>1, <2>2 DEF vars, requestVars, historyVars, Holds, InPool
<1> QED
  BY <1>2, <1>3, <1>4, <1>5, <1>6, <1>7, <1>8 DEF GridNext, OnlyTime

-----------------------------------------------------------------------------
(* The rest of the invariant.                                              *)

\* The hub has only devices that the plugin has told it of.
LEMMA DevicesStep ==
    ASSUME GridInv, [GridNext]_gridVars
    PROVE  device' \subseteq pdevice'
<1>a. GridTypeOK /\ device \subseteq pdevice /\ \A n \in Nodes : Wired(n)
  BY DEF GridInv
<1>1. ASSUME NEW n \in Nodes, NEW g \in Conns, Deliver(n, g) PROVE device' \subseteq pdevice'
  <2> DEFINE m == Head(toHub[n][g])
  <2>1. m \in Message /\ Proper(n, m)
    BY <1>a, <1>1, DeliverEffect, WireElements DEF Wired
  <2>2. pdevice' = pdevice /\ Handled(n, g, m)
    BY <1>1, DeliverEffect DEF pluginVars
  <2> HIDE DEF m
  <2> QED
    BY <1>a, <2>1, <2>2 DEF Handled, Proper
<1>2. ASSUME NEW n \in Nodes, NEW g \in Conns, HubDisconnect(n, g) PROVE device' \subseteq pdevice'
  BY <1>a, <1>2, DisconnectEffect DEF pluginVars
<1>3. ASSUME device' = device, pdevice \subseteq pdevice' PROVE device' \subseteq pdevice'
  BY <1>a, <1>3
<1>4. ASSUME NEW r \in Requests, Distribute(r) PROVE device' = device /\ pdevice' = pdevice
  BY <1>4 DEF Distribute, wireVars, pluginVars, deviceVars, HandleNewSession, OnRequestClosed,
     Attempt, FindNodeForCapability, FindNoNode, AddDeviceToPool, FindTimeout, CreateSessionTimeout
<1>5. ASSUME \/ \E n \in Nodes : ConnectToSocketServer(n) \/ LoseConnection(n)
             \/ \E r \in Requests : SendCreateSession(r)
             \/ \E k \in Deletes, r \in Requests : SendDelete(k, r)
             \/ \E k \in deletes : GiveUpDelete(k)
             \/ OnlyTime
      PROVE  device' = device /\ pdevice' = pdevice
  BY <1>5, OnlyTimeFrame DEF ConnectToSocketServer, Connect, LoseConnection, SendCreateSession, ProxyCreateSession,
     SendDelete, ProxyDelete, GiveUpDelete, DeleteTimeout, FinishDelete, vars, deviceVars, pluginVars
<1>6. ASSUME \/ \E d \in Devices : OnDeviceAdded(d)
             \/ \E r \in Requests : ExecuteCommand(r) \/ OnCreateSession(r)
             \/ \E r \in Requests : OnSessionCreated(r) \/ OnSessionRefused(r)
             \/ \E k \in removals, success \in BOOLEAN : OnDeleteSession(k, success)
      PROVE  device' = device /\ pdevice \subseteq pdevice'
  BY <1>6 DEF OnDeviceAdded, ExecuteCommand, OnCreateSession, OnSessionCreated, OnSessionRefused,
     OnDeleteSession, vars, deviceVars
<1> QED
  BY <1>1, <1>2, <1>3, <1>4, <1>5, <1>6 DEF GridNext, OnlyTime

\* A DELETE is always of a session that the hub has.
LEMMA DeletesStep ==
    ASSUME GridInv, [GridNext]_gridVars
    PROVE  \A k \in deletes' \cup removals' : session'[k[2]] # NoDevice
<1>a. GridTypeOK /\ TypeOK /\ \A k \in deletes \cup removals : k[2] \in Requests /\ session[k[2]] # NoDevice
  BY DEF GridInv, IInv, TypeOK, GridTypeOK
<1>1. ASSUME NEW n \in Nodes, NEW g \in Conns, HubDisconnect(n, g) \/ Deliver(n, g)
      PROVE  \A k \in deletes' \cup removals' : session'[k[2]] # NoDevice
  <2>1. RequestsGoOn /\ deletes' \subseteq deletes /\ removals' = removals
    BY <1>1, DeliverEffect, DisconnectEffect
  <2> QED
    BY <1>a, <2>1 DEF RequestsGoOn
<1>2. ASSUME NEW q \in Deletes, NEW r \in Requests, SendDelete(q, r)
      PROVE  \A k \in deletes' \cup removals' : session'[k[2]] # NoDevice
  <2>1. /\ session[r] # NoDevice /\ session' = session
        /\ deletes' = deletes \cup {<<q, r, nodeMap[HostOf[session[r]]]>>}
        /\ removals' \subseteq removals \cup deletes'
    BY <1>2 DEF SendDelete, ProxyDelete
  <2> QED
    BY <1>a, <2>1
<1>3. ASSUME session' = session, deletes' \cup removals' \subseteq deletes \cup removals
      PROVE  \A k \in deletes' \cup removals' : session'[k[2]] # NoDevice
  BY <1>a, <1>3
<1>4. ASSUME NEW r \in Requests, Distribute(r)
      PROVE  session' = session /\ deletes' \cup removals' \subseteq deletes \cup removals
  BY <1>4 DEF Distribute, wireVars, deleteVars, HandleNewSession, OnRequestClosed,
     Attempt, FindNodeForCapability, FindNoNode, AddDeviceToPool, FindTimeout, CreateSessionTimeout
<1>5. ASSUME \/ \E n \in Nodes : ConnectToSocketServer(n) \/ LoseConnection(n)
             \/ \E r \in Requests : SendCreateSession(r)
             \/ \E k \in deletes : GiveUpDelete(k)
             \/ OnlyTime
      PROVE  session' = session /\ deletes' \cup removals' \subseteq deletes \cup removals
  BY <1>5, OnlyTimeFrame DEF ConnectToSocketServer, Connect, LoseConnection, SendCreateSession, ProxyCreateSession,
     GiveUpDelete, DeleteTimeout, FinishDelete, vars, wireVars, deleteVars
<1>6. ASSUME \/ \E d \in Devices : OnDeviceAdded(d)
             \/ \E r \in Requests : ExecuteCommand(r) \/ OnCreateSession(r)
             \/ \E r \in Requests : OnSessionCreated(r) \/ OnSessionRefused(r)
             \/ \E k \in removals, success \in BOOLEAN : OnDeleteSession(k, success)
      PROVE  session' = session /\ deletes' \cup removals' \subseteq deletes \cup removals
  BY <1>6 DEF OnDeviceAdded, ExecuteCommand, OnCreateSession, OnSessionCreated, OnSessionRefused,
     OnDeleteSession, vars, deleteVars
<1> QED
  BY <1>1, <1>2, <1>3, <1>4, <1>5, <1>6 DEF GridNext, OnlyTime

\* Nothing is connected, known or asked for at first.
LEMMA GridInitInv == GridInit => GridInv
<1> SUFFICES ASSUME GridInit PROVE GridInv
  OBVIOUS
<1>1. IInv
  BY InitType, InitSafety DEF GridInit, IInv
<1>2. <<>> \in Seq(Message) /\ <<>> \o <<>> = <<>> /\ Elements(<<>>) = {} /\ Ordered(<<>>)
  <2>1. <<>> \in Seq(Message)
    OBVIOUS
  <2> QED
    BY <2>1, ShortElements, ConcatEmptySeq
<1>3. GridTypeOK
  BY <1>2 DEF GridInit, GridTypeOK, App
<1>4. ASSUME NEW n \in Nodes PROVE Linked(n) /\ Wired(n)
  <2>1. /\ link[n] = 0 /\ nodeMap[n] = 0 /\ active = {} /\ buffer[n] = <<>>
        /\ \A g \in Conns : toHub[n][g] = <<>>
    BY DEF GridInit, Init
  <2>2. \A g \in Conns : Ordered(Wire(n, g)) /\ Elements(Wire(n, g)) = {}
    BY <1>2, <2>1 DEF Wire
  <2>3. Elements(buffer[n]) = {}
    BY <1>2, <2>1
  <2> QED
    BY <2>1, <2>2, <2>3 DEF Linked, Wired
<1>5. /\ \A r \in Requests : pc[r] = "idle" /\ session[r] = NoDevice /\ app[r] = "none"
      /\ creates = {} /\ received = {} /\ deletes = {} /\ removals = {} /\ device = {}
  BY DEF GridInit, Init
<1>6. \A r \in Requests : Requested(r) /\ ~Owns(r)
  BY <1>5 DEF Requested, Pending, Protected, Running, Owns, Holds, InPool
<1> QED
  BY <1>1, <1>3, <1>4, <1>5, <1>6 DEF GridInv, OwnersExclusive

-----------------------------------------------------------------------------
(* Theorems.                                                               *)

LEMMA GridInductive == GridSpec => []GridInv
<1>1. ASSUME GridInv, [GridNext]_gridVars PROVE GridInv'
  <2>1. IInv /\ GridTypeOK /\ \A n \in Nodes : Wired(n)
    BY <1>1 DEF GridInv
  <2>2. [Next]_vars
    BY <1>1, <2>1, StepIsHubStep
  <2>3. IInv'
    BY <2>1, <2>2, StepType, StepSafety DEF IInv, SafetyInv
  <2>4. GridTypeOK' /\ device' \subseteq pdevice' /\ OwnersExclusive'
    BY <1>1, GridTypeStep, DevicesStep, OwnersStep
  <2>5. \A n \in Nodes : Linked(n)' /\ Wired(n)'
    BY <1>1, LinkedStep, WiredStep
  <2>6. \A r \in Requests : Requested(r)'
    BY <1>1, RequestedStep
  <2>7. \A k \in deletes' \cup removals' : session'[k[2]] # NoDevice
    BY <1>1, DeletesStep
  <2> QED
    BY <2>3, <2>4, <2>5, <2>6, <2>7 DEF GridInv
<1> QED
  BY <1>1, GridInitInv, PTL DEF GridSpec

\* The grid is a hub whose nodes behave in one of the ways that Hub.tla allows:
\* what HubProofs has of the hub holds in the grid (hub-socket.ts, client.ts).
THEOREM GridImplementsHub == GridSpec => Spec
<1>1. GridInit => Init
  BY DEF GridInit
<1>2. GridInv /\ [GridNext]_gridVars => [Next]_vars
  BY StepIsHubStep DEF GridInv
<1> QED
  BY <1>1, <1>2, GridInductive, PTL DEF GridSpec, Spec

\* The variables of plugin and wire keep their types.
THEOREM GridTypeCorrect == GridSpec => []GridTypeOK
<1>1. GridInv => GridTypeOK
  BY DEF GridInv
<1> QED
  BY <1>1, GridInductive, PTL

\* For any numbers of nodes, devices, requests and connections: two sessions
\* share a device only if it had lost its protection (distributor.ts:133-155,
\* plugin/index.ts:56-91, wd-controller.ts:107-112).
THEOREM SessionsExclusive == GridSpec => []SessionExclusive
<1>1. GridInv => SessionExclusive
  BY DEF GridInv, OwnersExclusive, SessionExclusive, Owns
<1> QED
  BY <1>1, GridInductive, PTL

\* For any numbers of nodes, devices, requests and connections: a device on which
\* a session runs is found free only if it had lost its protection.
THEOREM RunningNeverFree == GridSpec => []RunningIsNotFree
<1>1. GridInv => RunningIsNotFree
  BY DEF GridInv, Requested, Protected, RunningIsNotFree, FreeDevicesFor
<1> QED
  BY <1>1, GridInductive, PTL
=============================================================================
