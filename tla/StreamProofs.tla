---------------------------- MODULE StreamProofs ----------------------------
(***************************************************************************)
(* Proofs about the stream endpoint, for any number of clients, users and  *)
(* devices, and any number of registrations and replugs.                   *)
(*                                                                         *)
(* What makes both safety invariants inductive is the lock: between the    *)
(* count of the sockets in a room and the end of the handler the room      *)
(* stays empty (RoomStaysEmpty).  The rest of IInv says that what a start  *)
(* has read is not newer than what is registered (Past), that a GridDevice *)
(* that is still to come is controlled by nobody (NewIsFree), and that who *)
(* is in a room is connected or a ghost (Known).                           *)
(***************************************************************************)
EXTENDS StreamHub, TLAPS

Past ==
    /\ isActive \subseteq 1 .. node
    /\ \A c \in Clients : via[c] <= node
    /\ \A t \in starting : t.node <= node
    /\ \A d \in Devices : \A c \in room[d] : DeviceOf[c] = d /\ via[c] # 0

NewIsFree ==
    \A d \in Devices : \A o \in Objects : o > object[d] => owner[d][o] = Nobody

RoomStaysEmpty == holder # Nobody => room[DeviceOf[holder]] = {}

Known ==
    /\ \A t \in starting : sock[t.client] # "new"
    /\ \A d \in Devices : \A c \in room[d] : sock[c] = "open" \/ c \in ghosts

IInv ==
    /\ TypeOK /\ Past /\ NewIsFree /\ RoomStaysEmpty /\ Known
    /\ ViewersAreServed /\ ControlIsWatched

LEMMA InitInv == Init => IInv
  BY StreamAssumption
     DEF Init, IInv, TypeOK, Past, NewIsFree, RoomStaysEmpty, Known, ViewersAreServed,
         ControlIsWatched, ControlOf, NodeObjects, Objects, StartTask

-----------------------------------------------------------------------------
(* Ranges, and the table of owners.                                        *)

LEMMA Ranges ==
    ASSUME TypeOK, Past
    PROVE  /\ node \in Nat /\ node <= MaxNodes
           /\ \A n \in isActive : n \in Nat /\ n <= node
           /\ \A c \in Clients : via[c] \in Nat /\ via[c] <= node
           /\ \A d \in Devices : object[d] \in Nat /\ object[d] <= MaxObjects
           /\ \A d \in present : d \in Devices /\ object[d] \in Objects
           /\ \A t \in starting : /\ t.client \in Clients
                                  /\ t.node \in Nat /\ t.node <= node
<1> USE StreamAssumption DEF TypeOK, NodeObjects, Objects
<1>1. \A t \in starting : t.client \in Clients /\ t.node \in {0} \cup NodeObjects
  BY DEF StartTask
<1>2. \A t \in starting : t.node \in Nat /\ t.node <= node
  BY <1>1 DEF Past
<1>3. \A c \in Clients : via[c] \in {0} \cup NodeObjects
  OBVIOUS
<1>4. \A d \in Devices : object[d] \in {0} \cup Objects
  OBVIOUS
<1> QED
  BY <1>1, <1>2, <1>3, <1>4 DEF Past

\* What SetOwner does to the table of owners.
LEMMA OwnerAfter ==
    ASSUME TypeOK, NEW d \in Devices, NEW user \in Users \cup {Nobody}, SetOwner(d, user)
    PROVE  /\ owner' \in [Devices -> [Objects -> Users \cup {Nobody}]]
           /\ \A e \in Devices, o \in Objects :
                 owner'[e][o] = IF d \in present /\ e = d /\ o = object[d]
                                THEN user ELSE owner[e][o]
<1>1. CASE d \notin present
  BY <1>1 DEF SetOwner, TypeOK
<1>2. CASE d \in present
  <2> DEFINE row == [owner[d] EXCEPT ![object[d]] = user]
  <2>1. object[d] \in Objects /\ owner \in [Devices -> [Objects -> Users \cup {Nobody}]]
    BY <1>2 DEF TypeOK
  <2>2. owner[d] \in [Objects -> Users \cup {Nobody}]
    BY <2>1
  <2>3. row \in [Objects -> Users \cup {Nobody}]
    BY <2>1, <2>2
  <2>4. \A o \in Objects : row[o] = IF o = object[d] THEN user ELSE owner[d][o]
    BY <2>2
  <2>5. owner' = [owner EXCEPT ![d] = row]
    BY <1>2 DEF SetOwner
  <2> HIDE DEF row
  <2> QED
    BY <1>2, <2>1, <2>3, <2>4, <2>5
<1> QED
  BY <1>1, <1>2

-----------------------------------------------------------------------------
(* The node's messages.                                                    *)

LEMMA NodeStepInv ==
    ASSUME IInv, NodeStep
    PROVE  IInv'
<1> USE StreamAssumption DEF IInv, clientVars, lockVars
<1>1. ASSUME NEW devices \in SUBSET Devices, RegisterNewNode(devices) PROVE IInv'
  <2>1. /\ node' = node + 1 /\ node' \in NodeObjects /\ node \in Nat
        /\ isActive' = isActive \cup {node'}
        /\ present' = devices
        /\ UNCHANGED <<sock, room, via, ghosts, owner, starting, leaving, holder, stage, told>>
    BY <1>1, Ranges DEF RegisterNewNode, NodeObjects
  <2>2. /\ object' \in [Devices -> {0} \cup Objects]
        /\ \A e \in Devices : object'[e] >= object[e]
        /\ \A e \in devices : object'[e] \in Objects /\ object'[e] > object[e]
    BY <1>1, Ranges DEF RegisterNewNode, Objects
  <2>3. TypeOK'
    <3>1. \A e \in devices : object'[e] # 0
      BY <2>2 DEF Objects
    <3> QED
      BY <2>1, <2>2, <3>1 DEF TypeOK
  <2>4. Past'
    BY <2>1, Ranges DEF Past
  <2>5. NewIsFree'
    <3>1. \A e \in Devices : object[e] \in Nat /\ object'[e] \in Nat
      BY <2>2, Ranges DEF Objects
    <3>2. \A e \in Devices, o \in Objects : o > object'[e] => o > object[e]
      BY <2>2, <3>1 DEF Objects
    <3> QED
      BY <2>1, <3>2 DEF NewIsFree
  <2>6. RoomStaysEmpty' /\ Known'
    BY <2>1 DEF RoomStaysEmpty, Known
  <2>7. ViewersAreServed'
    <3>1. \A c \in Clients : via'[c] # node'
      BY <2>1, Ranges
    <3> QED
      BY <3>1 DEF ViewersAreServed
  <2>8. ControlIsWatched'
    <3>1. \A e \in Devices : ControlOf(e)' = Nobody
      BY <2>1, <2>2 DEF ControlOf, NewIsFree
    <3> QED
      BY <3>1 DEF ControlIsWatched
  <2> QED
    BY <2>3, <2>4, <2>5, <2>6, <2>7, <2>8
<1>2. ASSUME MakeNodeInactive PROVE IInv'
  BY <1>2 DEF MakeNodeInactive, TypeOK, Past, NewIsFree, RoomStaysEmpty, Known,
         ViewersAreServed, ControlIsWatched, ControlOf, Viewers, Haunted
<1>3. ASSUME NEW d \in Devices, OnNewDeviceConnected(d) PROVE IInv'
  <2>1. /\ present' = present \cup {d}
        /\ UNCHANGED <<node, isActive, sock, room, via, ghosts, owner, starting, leaving,
                       holder, stage, told>>
    BY <1>3 DEF OnNewDeviceConnected
  <2>2. /\ object' \in [Devices -> {0} \cup Objects]
        /\ \A e \in Devices : object'[e] >= object[e] /\ (e # d => object'[e] = object[e])
        /\ object'[d] \in Objects /\ object'[d] > object[d]
    BY <1>3, Ranges DEF OnNewDeviceConnected, Objects, TypeOK
  <2>3. TypeOK'
    <3>1. \A e \in present' : object'[e] # 0
      BY <2>1, <2>2 DEF Objects, TypeOK
    <3> QED
      BY <2>1, <2>2, <3>1 DEF TypeOK
  <2>4. Past' /\ RoomStaysEmpty' /\ Known' /\ ViewersAreServed'
    BY <2>1 DEF Past, RoomStaysEmpty, Known, ViewersAreServed
  <2>5. NewIsFree'
    <3>1. \A e \in Devices : object[e] \in Nat /\ object'[e] \in Nat
      BY <2>2, Ranges DEF Objects
    <3>2. \A e \in Devices, o \in Objects : o > object'[e] => o > object[e]
      BY <2>2, <3>1 DEF Objects
    <3> QED
      BY <2>1, <3>2 DEF NewIsFree
  <2>6. ControlIsWatched'
    <3>1. ControlOf(d)' = Nobody
      BY <2>1, <2>2 DEF ControlOf, NewIsFree
    <3>2. \A e \in Devices \ {d} : ControlOf(e)' = ControlOf(e)
      BY <2>1, <2>2 DEF ControlOf
    <3> QED
      BY <2>1, <3>1, <3>2 DEF ControlIsWatched, Viewers, Haunted
  <2> QED
    BY <2>3, <2>4, <2>5, <2>6
<1>4. ASSUME NEW d \in Devices, OnDeviceDisconnected(d) PROVE IInv'
  <2>1. /\ present' = present \ {d}
        /\ UNCHANGED <<node, isActive, object, sock, room, via, ghosts, owner, starting,
                       leaving, holder, stage, told>>
    BY <1>4 DEF OnDeviceDisconnected
  <2>2. TypeOK'
    BY <2>1 DEF TypeOK
  <2>3. Past' /\ NewIsFree' /\ RoomStaysEmpty' /\ Known' /\ ViewersAreServed'
    BY <2>1 DEF Past, NewIsFree, RoomStaysEmpty, Known, ViewersAreServed
  <2>4. ControlIsWatched'
    BY <2>1 DEF ControlIsWatched, ControlOf, Viewers, Haunted
  <2> QED
    BY <2>2, <2>3, <2>4
<1> QED
  BY <1>1, <1>2, <1>3, <1>4 DEF NodeStep

-----------------------------------------------------------------------------
(* The clients.                                                            *)

LEMMA ClientStepInv ==
    ASSUME IInv, ClientStep
    PROVE  IInv'
<1> USE StreamAssumption DEF IInv, nodeVars
<1>1. ASSUME NEW c \in Clients, OnConnection(c) PROVE IInv'
  <2>1. /\ sock[c] = "new" /\ sock' = [sock EXCEPT ![c] = "open"]
        /\ UNCHANGED <<room, via, ghosts, node, isActive, present, object, owner, starting,
                       leaving, holder, stage, told>>
    BY <1>1 DEF OnConnection, lockVars
  <2>2. TypeOK' /\ Past' /\ NewIsFree' /\ RoomStaysEmpty' /\ ViewersAreServed'
    BY <2>1 DEF TypeOK, Past, NewIsFree, RoomStaysEmpty, ViewersAreServed
  <2>3. \A x \in Clients : (sock[x] = "open" => sock'[x] = "open") /\ (sock[x] # "new" => sock'[x] # "new")
    BY <2>1 DEF TypeOK
  <2>4. Known'
    BY <2>1, <2>3, Ranges DEF TypeOK, Known
  <2>5. ControlIsWatched'
    <3>1. \A d \in Devices : Viewers(d) \subseteq Viewers(d)' /\ Haunted(d)' = Haunted(d) /\ ControlOf(d)' = ControlOf(d)
      BY <2>1, <2>3 DEF TypeOK, ControlOf, Viewers, Haunted
    <3> QED
      BY <2>1, <3>1 DEF ControlIsWatched
  <2> QED
    BY <2>2, <2>4, <2>5
<1>2. ASSUME NEW c \in Clients, NEW control \in BOOLEAN, OnStartStream(c, control) PROVE IInv'
  <2>1. TypeOK'
    BY <1>2 DEF OnStartStream, clientVars, TypeOK, StartTask
  <2>2. Past'
    BY <1>2 DEF OnStartStream, clientVars, TypeOK, Past, NodeObjects
  <2>3. Known'
    BY <1>2 DEF OnStartStream, clientVars, Known
  <2> QED
    BY <1>2, <2>1, <2>2, <2>3 DEF OnStartStream, clientVars, NewIsFree, RoomStaysEmpty,
         ViewersAreServed, ControlIsWatched, ControlOf, Viewers, Haunted
<1>3. ASSUME NEW c \in Clients, OnDisconnect(c) PROVE IInv'
  <2>1. TypeOK'
    BY <1>3 DEF OnDisconnect, TypeOK
  <2>2. Past' /\ NewIsFree'
    BY <1>3 DEF OnDisconnect, TypeOK, Past, NewIsFree
  <2>3. RoomStaysEmpty'
    BY <1>3 DEF OnDisconnect, TypeOK, RoomStaysEmpty
  <2>4. ViewersAreServed'
    BY <1>3 DEF OnDisconnect, TypeOK, ViewersAreServed
  <2>5. Known'
    <3>1. \A x \in Clients : x # c => sock'[x] = sock[x]
      BY <1>3 DEF OnDisconnect, TypeOK
    <3>2. sock'[c] = "closed" /\ starting' = starting /\ ghosts' = ghosts
      BY <1>3 DEF OnDisconnect, TypeOK
    <3>3. \A d \in Devices : room'[d] \subseteq room[d] \ {c}
      BY <1>3 DEF OnDisconnect, TypeOK, Past
    <3> QED
      BY <3>1, <3>2, <3>3, Ranges DEF TypeOK, Known
  <2>6. ControlIsWatched'
    <3> SUFFICES ASSUME NEW d \in Devices, (node \in isActive)', ControlOf(d)' # Nobody, d # DeviceOf[c]
                 PROVE  Viewers(d)' # {} \/ (\E x \in leaving' : DeviceOf[x] = d) \/ Haunted(d)'
      BY <1>3 DEF ControlIsWatched, OnDisconnect
    <3>1. /\ room'[d] = room[d] /\ ControlOf(d)' = ControlOf(d) /\ leaving \subseteq leaving'
          /\ ghosts' = ghosts /\ node' = node /\ isActive' = isActive
      BY <1>3 DEF OnDisconnect, TypeOK, ControlOf
    <3>2. \A x \in room[d] : sock'[x] = sock[x]
      BY <1>3 DEF OnDisconnect, TypeOK, Past
    <3> QED
      BY <3>1, <3>2 DEF ControlIsWatched, Viewers, Haunted
  <2> QED
    BY <2>1, <2>2, <2>3, <2>4, <2>5, <2>6
<1> QED
  BY <1>1, <1>2, <1>3 DEF ClientStep

-----------------------------------------------------------------------------
(* Inside the lock.                                                        *)

LEMMA StartStreamInv ==
    ASSUME IInv, NEW t \in starting, StartStream(t)
    PROVE  IInv'
<1> USE StreamAssumption DEF IInv
<1> DEFINE d == DeviceOf[t.client]
<1>1. t.client \in Clients /\ d \in Devices /\ UserOf[t.client] \in Users
  BY Ranges
<1>0. t.node \in NodeObjects /\ t.node # 0 /\ t.node <= node /\ node \in Nat
  BY Ranges DEF StartStream, IsAvailable, TypeOK, Past, NodeObjects
<1>2. /\ \/ room' = [room EXCEPT ![d] = @ \cup {t.client}]
         \/ sock[t.client] = "closed" /\ room' = room
      /\ ghosts' = IF sock[t.client] = "closed" /\ (t.client \in room'[d] \/ t.client \notin leaving)
                   THEN ghosts \cup {t.client} ELSE ghosts
      /\ told' = [told EXCEPT ![t.node][d] = "start"]
      /\ via' = [via EXCEPT ![t.client] = t.node]
      /\ starting' = starting \ {t}
      /\ UNCHANGED <<sock, node, isActive, present, object, leaving, holder, stage>>
  BY DEF StartStream, StartStreaming, nodeVars
<1>3. owner' = owner \/ SetOwner(d, UserOf[t.client])
  BY DEF StartStream
<1>4. /\ owner' \in [Devices -> [Objects -> Users \cup {Nobody}]]
      /\ \A e \in Devices, o \in Objects :
            owner'[e][o] # owner[e][o] => d \in present /\ e = d /\ o = object[d]
  <2>1. CASE owner' = owner
    BY <2>1 DEF TypeOK
  <2>2. CASE SetOwner(d, UserOf[t.client])
    <3> HIDE DEF d
    <3> QED
      BY <1>1, <2>2, OwnerAfter
  <2> QED
    BY <1>3, <2>1, <2>2
<1>5. TypeOK'
  <2>1. room' \in [Devices -> SUBSET Clients] /\ via' \in [Clients -> {0} \cup NodeObjects]
    BY <1>1, <1>0, <1>2 DEF TypeOK
  <2>2. ghosts' \subseteq Clients /\ starting' \subseteq StartTask
    BY <1>1, <1>2 DEF TypeOK
  <2>3. told' \in [NodeObjects -> [Devices -> {"none", "start", "stop"}]]
    BY <1>1, <1>0, <1>2 DEF TypeOK
  <2> QED
    BY <1>2, <1>4, <2>1, <2>2, <2>3 DEF TypeOK
<1>12. \A e \in Devices : room'[e] \subseteq IF e = d THEN room[e] \cup {t.client} ELSE room[e]
  BY <1>1, <1>2 DEF TypeOK
<1>13. via' \in [Clients -> {0} \cup NodeObjects] /\ via'[t.client] = t.node
       /\ \A c \in Clients \ {t.client} : via'[c] = via[c]
  BY <1>1, <1>0, <1>2 DEF TypeOK
<1>6. Past'
  BY <1>1, <1>0, <1>2, <1>12, <1>13 DEF TypeOK, Past
<1>7. NewIsFree'
  <2>1. \A e \in Devices : object[e] \in Nat
    BY Ranges
  <2> QED
    BY <1>2, <1>4, <2>1 DEF NewIsFree, Objects
<1>8. RoomStaysEmpty'
  BY <1>2 DEF StartStream, LockIsFree, TypeOK, RoomStaysEmpty
<1>9. ViewersAreServed'
  <2>1. told'[t.node][d] = "start"
    BY <1>1, <1>0, <1>2 DEF TypeOK
  <2>2. \A n \in NodeObjects, e \in Devices : told'[n][e] = told[n][e] \/ told'[n][e] = "start"
    BY <1>1, <1>0, <1>2 DEF TypeOK
  <2>3. \A c \in Clients \ {t.client}, e \in Devices : c \in room'[e] => c \in room[e]
    BY <1>12
  <2>4. SUFFICES ASSUME NEW c \in Clients, c \in room'[DeviceOf[c]], via'[c] = node'
                 PROVE  told'[node'][DeviceOf[c]] = "start"
    BY DEF ViewersAreServed
  <2>5. CASE c = t.client
    BY <1>2, <1>13, <2>1, <2>4, <2>5
  <2>6. CASE c # t.client
    <3>1. DeviceOf[c] \in Devices /\ c \in room[DeviceOf[c]] /\ via[c] = node /\ node' = node
      BY <1>2, <1>13, <2>3, <2>4, <2>6
    <3>2. told[node][DeviceOf[c]] = "start" /\ via[c] # 0
      BY <3>1 DEF ViewersAreServed, Past
    <3>3. node \in NodeObjects
      BY <3>1, <3>2 DEF TypeOK
    <3> QED
      BY <2>2, <3>1, <3>2, <3>3
  <2> QED
    BY <2>5, <2>6
<1>10. Known'
  <2>1. \A e \in Devices : room'[e] \subseteq room[e] \cup {t.client}
    BY <1>1, <1>2 DEF TypeOK
  <2>2. t.client \in room'[d] => sock[t.client] = "open" \/ t.client \in ghosts'
    BY <1>1, <1>2 DEF TypeOK, Known
  <2>3. \A e \in Devices \ {d} : room'[e] = room[e]
    BY <1>1, <1>2 DEF TypeOK
  <2> QED
    BY <1>2, <2>1, <2>2, <2>3 DEF Known
<1>11. ControlIsWatched'
  <2> SUFFICES ASSUME NEW e \in Devices, (node \in isActive)', ControlOf(e)' # Nobody
               PROVE  Viewers(e)' # {} \/ (\E c \in leaving' : DeviceOf[c] = e) \/ Haunted(e)'
    BY DEF ControlIsWatched
  <2>1. CASE e = d
    <3>1. CASE sock[t.client] = "open"
      BY <1>1, <1>2, <2>1, <3>1 DEF TypeOK, Viewers
    <3>2. CASE sock[t.client] = "closed"
      BY <1>2, <2>1, <3>2 DEF Haunted
    <3> QED
      BY <1>1, <3>1, <3>2 DEF TypeOK, Known
  <2>2. CASE e # d
    <3>1. ControlOf(e)' = ControlOf(e) /\ room'[e] = room[e]
      BY <1>1, <1>2, <1>4, <2>2, Ranges DEF TypeOK, ControlOf
    <3> QED
      BY <1>2, <3>1 DEF ControlIsWatched, Viewers, Haunted
  <2> QED
    BY <2>1, <2>2
<1> QED
  BY <1>5, <1>6, <1>7, <1>8, <1>9, <1>10, <1>11

LEMMA LeaveInv ==
    ASSUME IInv, NEW c \in Clients, KeepStream(c) \/ LeaveEmptyRoom(c)
    PROVE  IInv'
<1> USE StreamAssumption DEF IInv, clientVars, nodeVars
<1>1. ASSUME KeepStream(c) PROVE IInv'
  <2>1. TypeOK' /\ Past' /\ NewIsFree' /\ RoomStaysEmpty' /\ Known' /\ ViewersAreServed'
    BY <1>1 DEF KeepStream, LockIsFree, TypeOK, Past, NewIsFree, RoomStaysEmpty, Known,
         ViewersAreServed
  <2>2. \A d \in Devices : room[d] # {} => Viewers(d) # {} \/ Haunted(d)
    BY DEF Known, Past, Viewers, Haunted
  <2>3. ControlIsWatched'
    BY <1>1, <2>2 DEF KeepStream, ControlIsWatched, ControlOf, Viewers, Haunted
  <2> QED
    BY <2>1, <2>3
<1>2. ASSUME LeaveEmptyRoom(c) PROVE IInv'
  <2>1. TypeOK' /\ Past' /\ NewIsFree' /\ RoomStaysEmpty' /\ Known' /\ ViewersAreServed'
    BY <1>2 DEF LeaveEmptyRoom, LockIsFree, TypeOK, Past, NewIsFree, RoomStaysEmpty, Known,
         ViewersAreServed
  <2>2. ControlIsWatched'
    BY <1>2 DEF LeaveEmptyRoom, ControlIsWatched, ControlOf, Viewers, Haunted
  <2> QED
    BY <2>1, <2>2
<1> QED
  BY <1>1, <1>2

LEMMA StopInv ==
    ASSUME IInv, StopStream
    PROVE  IInv'
<1> USE StreamAssumption DEF IInv, clientVars, nodeVars
<1>1. holder \in Clients /\ DeviceOf[holder] \in Devices /\ room[DeviceOf[holder]] = {}
  BY DEF StopStream, TypeOK, RoomStaysEmpty
<1>2. CASE node \in isActive
  <2>1. ViewersAreServed'
    BY <1>1, <1>2 DEF StopStream, StopStreaming, TypeOK, ViewersAreServed
  <2>2. TypeOK'
    <3> DEFINE row == [told[node] EXCEPT ![DeviceOf[holder]] = "stop"]
    <3>0. node \in NodeObjects /\ told[node] \in [Devices -> {"none", "start", "stop"}]
      BY <1>2 DEF TypeOK
    <3>1. told' \in [NodeObjects -> [Devices -> {"none", "start", "stop"}]]
      <4>1. row \in [Devices -> {"none", "start", "stop"}]
        BY <3>0
      <4>2. told' = [told EXCEPT ![node] = row]
        BY <1>2 DEF StopStream, StopStreaming
      <4> HIDE DEF row
      <4> QED
        BY <4>1, <4>2 DEF TypeOK
    <3> QED
      BY <1>2, <3>1 DEF StopStream, TypeOK
  <2> QED
    BY <1>2, <2>1, <2>2 DEF StopStream, Past, NewIsFree, RoomStaysEmpty, Known,
         ControlIsWatched, ControlOf, Viewers, Haunted
<1>3. CASE node \notin isActive
  BY <1>3 DEF StopStream, ReleaseLock, TypeOK, Past, NewIsFree, RoomStaysEmpty, Known,
         ViewersAreServed, ControlIsWatched, ControlOf
<1> QED
  BY <1>2, <1>3

LEMMA ControlStoppedInv ==
    ASSUME IInv, DeviceControlStopped
    PROVE  IInv'
<1> USE StreamAssumption DEF IInv, clientVars, nodeVars
<1>0. holder \in Clients /\ DeviceOf[holder] \in Devices
  BY DEF DeviceControlStopped, TypeOK
<1>1. PICK d \in Devices : d = DeviceOf[holder]
  BY <1>0
<1>2. /\ UNCHANGED <<sock, room, via, node, isActive, present, object, starting, told>>
      /\ leaving' = leaving \ {holder} /\ holder' = Nobody /\ stage' = "free"
      /\ ghosts' = {c \in ghosts : DeviceOf[c] # d}
  BY <1>1 DEF DeviceControlStopped, ReleaseLock, ForgetGhosts
<1>3. /\ owner' \in [Devices -> [Objects -> Users \cup {Nobody}]]
      /\ \A e \in Devices, o \in Objects :
            owner'[e][o] = IF d \in present /\ e = d /\ o = object[d]
                           THEN Nobody ELSE owner[e][o]
  <2>1. SetOwner(d, Nobody)
    BY <1>1 DEF DeviceControlStopped
  <2> QED
    BY <1>1, <2>1, OwnerAfter
<1>4. \A e \in present : e \in Devices /\ object[e] \in Objects
  BY Ranges
<1>5. TypeOK'
  BY <1>2, <1>3 DEF TypeOK
<1>6. Past' /\ RoomStaysEmpty' /\ ViewersAreServed'
  BY <1>2 DEF Past, RoomStaysEmpty, ViewersAreServed
<1>9. Known'
  <2>1. room[d] = {}
    BY <1>0, <1>1, StreamAssumption DEF RoomStaysEmpty
  <2> QED
    BY <1>2, <2>1 DEF Known, Past
<1>7. NewIsFree'
  BY <1>2, <1>3 DEF NewIsFree
<1>8. ControlIsWatched'
  <2>1. ControlOf(d)' = Nobody
    BY <1>1, <1>2, <1>3, <1>4 DEF ControlOf
  <2>2. \A e \in Devices \ {d} : ControlOf(e)' = ControlOf(e)
    BY <1>2, <1>3, <1>4 DEF ControlOf
  <2>3. \A e \in Devices \ {d}, c \in leaving : DeviceOf[c] = e => c \in leaving'
    BY <1>1, <1>2
  <2> QED
    BY <1>2, <2>1, <2>2, <2>3 DEF ControlIsWatched, Viewers, Haunted
<1> QED
  BY <1>5, <1>6, <1>7, <1>8, <1>9

LEMMA LockStepInv ==
    ASSUME IInv, LockStep
    PROVE  IInv'
<1>1. ASSUME NEW t \in starting, RefuseStream(t) PROVE IInv'
  BY <1>1 DEF RefuseStream, clientVars, nodeVars, IInv, TypeOK, Past, NewIsFree, Known,
         RoomStaysEmpty, ViewersAreServed, ControlIsWatched, ControlOf, Viewers, Haunted
<1> QED
  BY <1>1, StartStreamInv, LeaveInv, StopInv, ControlStoppedInv DEF LockStep

LEMMA StepInv == IInv /\ [Next]_vars => IInv'
<1>1. ASSUME IInv, UNCHANGED vars PROVE IInv'
  BY <1>1 DEF vars, clientVars, nodeVars, lockVars, IInv, TypeOK, Past, NewIsFree, Known,
         RoomStaysEmpty, ViewersAreServed, ControlIsWatched, ControlOf, Viewers, Haunted
<1> QED
  BY <1>1, NodeStepInv, ClientStepInv, LockStepInv DEF Next

LEMMA Inductive == Spec => []IInv
  BY InitInv, StepInv, PTL DEF Spec

\* Only a start that asks for control and the end of the last viewer's handler
\* change who controls a device.
LEMMA OwnerChanges ==
    ASSUME IInv, Next, NEW d \in Devices, object'[d] = object[d], d \in present, d \in present',
           ControlOf(d)' # ControlOf(d)
    PROVE  \/ \E t \in starting : /\ StartStream(t) /\ t.control /\ DeviceOf[t.client] = d
                                  /\ ControlOf(d)' = UserOf[t.client]
           \/ DeviceControlStopped /\ DeviceOf[holder] = d /\ ControlOf(d)' = Nobody
<1> USE DEF IInv
<1>1. owner'[d][object[d]] # owner[d][object[d]] /\ object[d] \in Objects
  BY Ranges DEF ControlOf
<1>2. ~NodeStep /\ ~ClientStep
  BY <1>1 DEF NodeStep, RegisterNewNode, MakeNodeInactive, OnNewDeviceConnected,
         OnDeviceDisconnected, ClientStep, OnConnection, OnStartStream, OnDisconnect
<1>3. ASSUME NEW t \in starting, StartStream(t)
      PROVE  /\ t.control /\ DeviceOf[t.client] = d
             /\ ControlOf(d)' = UserOf[t.client]
  <2>1. t.control /\ SetOwner(DeviceOf[t.client], UserOf[t.client])
    BY <1>1, <1>3 DEF StartStream
  <2>2. DeviceOf[t.client] \in Devices /\ UserOf[t.client] \in Users
    BY StreamAssumption, Ranges
  <2>3. owner'[d][object[d]] = UserOf[t.client] /\ DeviceOf[t.client] = d
    BY <1>1, <2>1, <2>2, OwnerAfter
  <2> QED
    BY <2>1, <2>3 DEF ControlOf
<1>4. ASSUME DeviceControlStopped
      PROVE  DeviceOf[holder] = d /\ ControlOf(d)' = Nobody
  <2>1. SetOwner(DeviceOf[holder], Nobody) /\ holder \in Clients
    BY <1>4 DEF DeviceControlStopped, TypeOK
  <2>2. DeviceOf[holder] \in Devices
    BY <2>1, StreamAssumption
  <2>3. owner'[d][object[d]] = Nobody /\ DeviceOf[holder] = d
    BY <1>1, <2>1, <2>2, OwnerAfter
  <2> QED
    BY <2>3 DEF ControlOf
<1>5. CASE LockStep
  BY <1>1, <1>3, <1>4, <1>5 DEF LockStep, RefuseStream, KeepStream, LeaveEmptyRoom, StopStream
<1> QED
  BY <1>2, <1>5 DEF Next

-----------------------------------------------------------------------------
(* Theorems.                                                               *)

\* Every variable of the stream endpoint keeps its type; a GridDevice that is
\* held is one that was made (stream-controller.ts, node-manager.ts:29-87).
THEOREM StreamTypeCorrect == Spec => []TypeOK
<1>1. IInv => TypeOK
  BY DEF IInv
<1> QED
  BY <1>1, Inductive, PTL

\* However clients come and go, a viewer of the node registered now is never
\* left without the stream it asked for (stream-controller.ts:45-56, 69-88).
THEOREM Served == Spec => []ViewersAreServed
<1>1. IInv => ViewersAreServed
  BY DEF IInv
<1> QED
  BY <1>1, Inductive, PTL

\* A device of an active node is left under control with no connected client
\* and no handler to come only after a start was granted to a client that had
\* disconnected (stream-controller.ts:45-56, 69-88, 91-101).
THEOREM Watched == Spec => []ControlIsWatched
<1>1. IInv => ControlIsWatched
  BY DEF IInv
<1> QED
  BY <1>1, Inductive, PTL

\* Control of a GridDevice ends only in an empty room: the handler of the last
\* viewer never takes it from one who came since (stream-controller.ts:46-53).
THEOREM EndsInEmptyRoom == Spec => ControlEndsInEmptyRoom
<1>1. ASSUME IInv, Next, NEW d \in Devices, object'[d] = object[d], d \in present,
             d \in present', ControlOf(d) # Nobody, ControlOf(d)' = Nobody
      PROVE  room[d] = {}
  <2>1. CASE \E t \in starting : StartStream(t) /\ ControlOf(d)' = UserOf[t.client]
    BY <1>1, <2>1, Ranges, StreamAssumption DEF IInv
  <2>2. CASE DeviceControlStopped /\ DeviceOf[holder] = d
    BY <2>2, <1>1 DEF DeviceControlStopped, IInv, TypeOK, RoomStaysEmpty
  <2> QED
    BY <1>1, <2>1, <2>2, OwnerChanges
<1>2. IInv /\ [Next]_vars => [\A d \in Devices :
        object'[d] = object[d] /\ d \in present /\ d \in present'
            /\ ControlOf(d) # Nobody /\ ControlOf(d)' = Nobody => room[d] = {}]_vars
  BY <1>1
<1> QED
  BY <1>2, Inductive, PTL DEF Spec, ControlEndsInEmptyRoom

\* No user loses control to another, but to a start that read a GridDevice
\* replaced since (stream-controller.ts:64-65, 78-79).
THEOREM NotTakenOver == Spec => ControlIsNotTakenOver
<1>1. ASSUME IInv, Next, NEW d \in Devices, object'[d] = object[d], d \in present,
             d \in present', ControlOf(d) # Nobody, ControlOf(d)' \notin {ControlOf(d), Nobody}
      PROVE  \E t \in starting \ starting' : DeviceOf[t.client] = d /\ t.object # object[d]
  <2>1. PICK t \in starting : StartStream(t) /\ t.control /\ DeviceOf[t.client] = d
    BY <1>1, OwnerChanges
  <2>2. t \notin starting' /\ ~IsControlled(t)
    BY <2>1 DEF StartStream
  <2>3. t.object # object[d]
    BY <1>1, <2>1, <2>2 DEF IsControlled, ControlOf
  <2> QED
    BY <2>1, <2>2, <2>3
<1>2. IInv /\ [Next]_vars => [\A d \in Devices :
        /\ object'[d] = object[d] /\ d \in present /\ d \in present'
        /\ ControlOf(d) # Nobody /\ ControlOf(d)' \notin {ControlOf(d), Nobody}
        => \E t \in starting \ starting' : DeviceOf[t.client] = d /\ t.object # object[d]]_vars
  BY <1>1
<1> QED
  BY <1>2, Inductive, PTL DEF Spec, ControlIsNotTakenOver
=============================================================================
