----------------------------- MODULE HubProofs -----------------------------
(***************************************************************************)
(* Proofs about the open hub, for any number of requests, nodes, devices   *)
(* and connections and for every behaviour of nodes and clients.           *)
(*                                                                         *)
(* Neither exclusivity nor the accounting of the pool is inductive alone:  *)
(* the pool lets a second request in only if it lists the devices of all   *)
(* the others, and removing an entry from it is harmless only if no other  *)
(* request has the same device.  IInv joins them, together with what       *)
(* bridges the gap between block() and addDevice(): a device on its way    *)
(* out of the lock is still blocked.                                       *)
(***************************************************************************)
EXTENDS Hub, TLAPS

\* A request has a device from the match on, and none before.
Placed ==
    \A r \in Requests :
        /\ pc[r] \in {"idle", "polling", "queued"} => dev[r] = NoDevice
        /\ Holds(r) => dev[r] \in Devices

SafetyInv == Placed /\ MatchedIsBusy /\ PoolAccounted /\ AllocationExclusive

IInv == TypeOK /\ SafetyInv

-----------------------------------------------------------------------------
(* Type correctness: the blocked and the controlled devices are always     *)
(* devices the registered Node objects hold.                               *)

LEMMA InitType == Init => TypeOK
  BY HubAssumption DEF Init, TypeOK, Conns, PC

LEMMA NodeMessageType ==
    ASSUME TypeOK, NEW n \in Nodes, NEW g \in Conns, NodeMessage(n, g)
    PROVE  TypeOK'
<1> USE HubAssumption DEF DevicesOf
<1>1. ASSUME Connect(n, g) PROVE TypeOK'
  BY <1>1 DEF TypeOK, Connect, connVars, deviceVars, requestVars, deleteVars
<1>2. ASSUME NEW devices \in SUBSET DevicesOf(n), NEW blocked \in SUBSET devices,
             RegisterNewNode(n, g, devices, blocked)
      PROVE  TypeOK'
  BY <1>2 DEF TypeOK, RegisterNewNode, requestVars, deleteVars
<1>3. ASSUME Disconnect(n, g) PROVE TypeOK'
  BY <1>3 DEF TypeOK, Disconnect, PC
<1>4. ASSUME NEW d \in Devices, NEW blocked \in BOOLEAN, OnNewDeviceConnected(n, g, d, blocked)
      PROVE  TypeOK'
  BY <1>4 DEF TypeOK, OnNewDeviceConnected, connVars, deviceVars, requestVars, deleteVars
<1>5. ASSUME NEW d \in Devices, OnDeviceDisconnected(n, g, d)
      PROVE  TypeOK'
  BY <1>5 DEF TypeOK, OnDeviceDisconnected, connVars, requestVars, deleteVars
<1>6. ASSUME NEW d \in Devices, BlockDevice(n, g, d)
      PROVE  TypeOK'
  BY <1>6 DEF TypeOK, BlockDevice, connVars, requestVars, deleteVars
<1>7. ASSUME NEW key \in Devices \cup {NoDevice}, UnblockDevice(n, g, key)
      PROVE  TypeOK'
  BY <1>7 DEF TypeOK, UnblockDevice, connVars, requestVars, deleteVars
<1>8. ASSUME NEW r \in Requests, NEW d \in Devices, OnNewSession(n, g, r, d)
      PROVE  TypeOK'
  BY <1>8 DEF TypeOK, OnNewSession, AddSession, connVars, requestVars, deleteVars
<1> QED
  BY <1>1, <1>2, <1>3, <1>4, <1>5, <1>6, <1>7, <1>8 DEF NodeMessage

LEMMA RequestStepType ==
    ASSUME TypeOK, Placed, NEW r \in Requests, RequestStep(r)
    PROVE  TypeOK'
<1> USE HubAssumption DEF PC, SetPC
<1>1. ASSUME HandleNewSession(r) PROVE TypeOK'
  BY <1>1 DEF TypeOK, HandleNewSession, connVars, deviceVars, deleteVars
<1>2. ASSUME OnRequestClosed(r) PROVE TypeOK'
  BY <1>2 DEF TypeOK, OnRequestClosed, connVars, deviceVars, deleteVars
<1>3. ASSUME Attempt(r) PROVE TypeOK'
  BY <1>3 DEF TypeOK, Attempt, connVars, deviceVars, deleteVars
<1>4. ASSUME FindNodeForCapability(r) PROVE TypeOK'
  BY <1>4 DEF TypeOK, FindNodeForCapability, FreeDevicesFor, connVars, deleteVars
<1>5. ASSUME FindNoNode(r) PROVE TypeOK'
  BY <1>5 DEF TypeOK, FindNoNode, connVars, deviceVars, deleteVars
<1>6. ASSUME AddDeviceToPool(r) PROVE TypeOK'
  BY <1>6 DEF TypeOK, Placed, Holds, AddDeviceToPool, connVars, deviceVars, deleteVars
<1>7. ASSUME FindTimeout(r) PROVE TypeOK'
  BY <1>7 DEF TypeOK, FindTimeout, connVars, deviceVars, deleteVars
<1>8. ASSUME ProxyCreateSession(r) PROVE TypeOK'
  BY <1>8 DEF TypeOK, ProxyCreateSession, connVars, deviceVars, deleteVars
<1>9. ASSUME NEW success \in BOOLEAN, CreateSessionResponse(r, success) PROVE TypeOK'
  BY <1>9 DEF TypeOK, CreateSessionResponse, AddSession, connVars, deviceVars, deleteVars
<1>10. ASSUME CreateSessionTimeout(r) PROVE TypeOK'
  BY <1>10 DEF TypeOK, CreateSessionTimeout, connVars, deviceVars, deleteVars
<1> QED
  BY <1>1, <1>2, <1>3, <1>4, <1>5, <1>6, <1>7, <1>8, <1>9, <1>10 DEF RequestStep

LEMMA OtherStepType ==
    ASSUME TypeOK, DeleteStep \/ ControlStep \/ CommandTimeout \/ UNCHANGED vars
    PROVE  TypeOK'
<1> USE HubAssumption
<1>1. ASSUME NEW k \in Deletes, NEW r \in Requests, ProxyDelete(k, r) PROVE TypeOK'
  <2>1. nodeMap[HostOf[session[r]]] \in Conns
    BY <1>1 DEF TypeOK, ProxyDelete
  <2> QED
    BY <1>1, <2>1 DEF TypeOK, ProxyDelete, connVars, deviceVars, requestVars
<1>2. ASSUME NEW k \in deletes, DeleteResponse(k) \/ DeleteTimeout(k) PROVE TypeOK'
  BY <1>2 DEF TypeOK, DeleteResponse, DeleteTimeout, FinishDelete, connVars, requestVars
<1>3. ASSUME NEW d \in Devices, DeviceControlStarted(d) \/ DeviceControlStopped(d) PROVE TypeOK'
  BY <1>3 DEF TypeOK, DeviceControlStarted, DeviceControlStopped, connVars, requestVars, deleteVars
<1>4. ASSUME UNCHANGED vars PROVE TypeOK'
  BY <1>4 DEF TypeOK, vars, connVars, deviceVars, requestVars, deleteVars
<1>5. ASSUME CommandTimeout PROVE TypeOK'
  BY <1>5 DEF TypeOK, CommandTimeout, connVars, deviceVars, requestVars, deleteVars
<1> QED
  BY <1>1, <1>2, <1>3, <1>4, <1>5 DEF DeleteStep, ControlStep

LEMMA StepType == TypeOK /\ Placed /\ [Next]_vars => TypeOK'
  BY NodeMessageType, RequestStepType, OtherStepType DEF Next

-----------------------------------------------------------------------------
(* Exclusivity.                                                            *)

LEMMA InitSafety == Init => SafetyInv
  BY DEF Init, SafetyInv, Placed, MatchedIsBusy, PoolAccounted, AllocationExclusive,
         Holds, InPool

\* Messages other than a disconnection, DELETEs and manual control leave the
\* requests and the pool alone and never come between a match and its entry
\* in the pool.
LEMMA FrameSafety ==
    ASSUME SafetyInv, UNCHANGED <<pc, dev, pool>>, NewTurn \/ UNCHANGED busy
    PROVE  SafetyInv'
  BY DEF SafetyInv, Placed, MatchedIsBusy, PoolAccounted, AllocationExclusive,
         Holds, InPool, NewTurn

LEMMA NodeMessageFrame ==
    ASSUME NEW n \in Nodes, NEW g \in Conns, NodeMessage(n, g)
    PROVE  NewTurn /\ (Disconnect(n, g) \/ UNCHANGED <<pc, dev, pool>>)
  BY DEF NodeMessage, Connect, RegisterNewNode, Disconnect, OnNewDeviceConnected,
         OnDeviceDisconnected, BlockDevice, UnblockDevice, OnNewSession, requestVars

LEMMA OtherStepFrame ==
    ASSUME DeleteStep \/ ControlStep \/ CommandTimeout \/ UNCHANGED vars
    PROVE  (NewTurn \/ UNCHANGED busy) /\ UNCHANGED <<pc, dev, pool>>
  BY DEF DeleteStep, ControlStep, CommandTimeout, ProxyDelete, DeleteResponse, DeleteTimeout, FinishDelete,
         DeviceControlStarted, DeviceControlStopped, vars, deviceVars, requestVars

\* The end of a set of calls takes exactly their devices out of the pool:
\* nobody else has one of them.
LEMMA EndCallsSafety ==
    ASSUME TypeOK, SafetyInv, NewTurn,
           NEW ended \in SUBSET {r \in Requests : pc[r] \in {"pooled", "calling"}},
           pc' = [r \in Requests |-> IF r \in ended THEN "done" ELSE pc[r]],
           pool' = pool \ {dev[r] : r \in ended},
           dev' = dev
    PROVE  SafetyInv'
<1> USE DEF SafetyInv
<1>1. Placed'
  BY DEF TypeOK, Placed, Holds, InPool
<1>2. MatchedIsBusy'
  BY DEF TypeOK, MatchedIsBusy, NewTurn
<1>3. AllocationExclusive'
  BY DEF TypeOK, AllocationExclusive, Holds, InPool
<1>4. PoolAccounted'
  <2>1. \A r \in Requests : InPool(r)' <=> InPool(r) /\ r \notin ended
    BY DEF TypeOK, InPool
  <2>2. \A r, s \in Requests : InPool(r) /\ s \in ended /\ r # s => dev[r] # dev[s]
    BY DEF AllocationExclusive, Holds, InPool
  <2> QED
    BY <2>1, <2>2 DEF PoolAccounted
<1> QED
  BY <1>1, <1>2, <1>3, <1>4

\* The steps of a request before its match and after its answer.
LEMMA WaitSafety ==
    ASSUME TypeOK, SafetyInv, UNCHANGED <<dev, pool, busy>>,
           NEW r \in Requests, NEW to \in {"polling", "queued", "done"},
           pc[r] \in {"idle", "polling", "queued"},
           pc' = [pc EXCEPT ![r] = to]
    PROVE  SafetyInv'
<1>1. \A s \in Requests : /\ (pc'[s] = "matched") <=> (pc[s] = "matched")
                          /\ InPool(s)' <=> InPool(s)
                          /\ Holds(s)' <=> Holds(s)
  BY DEF TypeOK, InPool, Holds
<1>2. Placed'
  BY <1>1 DEF TypeOK, SafetyInv, Placed
<1>3. MatchedIsBusy' /\ AllocationExclusive'
  BY <1>1 DEF SafetyInv, MatchedIsBusy, AllocationExclusive
<1>4. PoolAccounted'
  BY <1>1 DEF SafetyInv, PoolAccounted
<1> QED
  BY <1>2, <1>3, <1>4 DEF SafetyInv

\* A device that is neither busy nor in the pool belongs to nobody.
LEMMA FreeIsUnheld ==
    ASSUME SafetyInv, NEW r \in Requests, NEW d \in FreeDevicesFor(r), NEW s \in Requests, Holds(s)
    PROVE  dev[s] # d
  BY DEF SafetyInv, MatchedIsBusy, PoolAccounted, Holds, FreeDevicesFor

LEMMA MatchSafety ==
    ASSUME TypeOK, SafetyInv, NEW r \in Requests, FindNodeForCapability(r)
    PROVE  SafetyInv'
<1>1. PICK d \in FreeDevicesFor(r) :
        /\ pc[r] = "queued" /\ pc' = [pc EXCEPT ![r] = "matched"]
        /\ dev' = [dev EXCEPT ![r] = d]
        /\ busy' = busy \cup {d}
        /\ pool' = pool
  BY DEF FindNodeForCapability, SetPC
<1>2. d \in Devices
  BY <1>1, HubAssumption DEF TypeOK, FreeDevicesFor
<1>3. \A s \in Requests : /\ InPool(s)' <=> InPool(s)
                          /\ Holds(s)' <=> (s = r \/ Holds(s))
                          /\ s # r => dev'[s] = dev[s]
  BY <1>1 DEF TypeOK, InPool, Holds
<1>4. dev'[r] = d /\ ~InPool(r)
  BY <1>1 DEF TypeOK, InPool
<1>5. Placed'
  BY <1>1, <1>2, <1>3, <1>4 DEF TypeOK, SafetyInv, Placed
<1>6. MatchedIsBusy'
  BY <1>1, <1>3, <1>4 DEF TypeOK, SafetyInv, MatchedIsBusy
<1>7. AllocationExclusive'
  BY <1>1, <1>3, <1>4, FreeIsUnheld DEF SafetyInv, AllocationExclusive
<1>8. PoolAccounted'
  BY <1>1, <1>3, <1>4 DEF SafetyInv, PoolAccounted
<1> QED
  BY <1>5, <1>6, <1>7, <1>8 DEF SafetyInv

LEMMA AddToPoolSafety ==
    ASSUME TypeOK, SafetyInv, NEW r \in Requests, AddDeviceToPool(r)
    PROVE  SafetyInv'
<1>1. /\ pc[r] = "matched" /\ dev' = dev /\ busy' = busy /\ pool' = pool \cup {dev[r]}
      /\ pc' = [pc EXCEPT ![r] = "abandoned"] \/ pc' = [pc EXCEPT ![r] = "pooled"]
  BY DEF AddDeviceToPool, SetPC, deviceVars
<1>2. \A s \in Requests : /\ InPool(s)' <=> (s = r \/ InPool(s))
                          /\ Holds(s)' <=> Holds(s)
                          /\ pc'[s] = "matched" => pc[s] = "matched"
  BY <1>1 DEF TypeOK, InPool, Holds
<1>3. Placed'
  BY <1>1, <1>2 DEF TypeOK, SafetyInv, Placed
<1>4. MatchedIsBusy' /\ AllocationExclusive'
  BY <1>1, <1>2 DEF SafetyInv, MatchedIsBusy, AllocationExclusive
<1>5. PoolAccounted'
  BY <1>1, <1>2 DEF SafetyInv, PoolAccounted
<1> QED
  BY <1>3, <1>4, <1>5 DEF SafetyInv

LEMMA RequestStepSafety ==
    ASSUME TypeOK, SafetyInv, NEW r \in Requests, RequestStep(r)
    PROVE  SafetyInv'
<1>1. ASSUME HandleNewSession(r) \/ Attempt(r) \/ FindNoNode(r) PROVE SafetyInv'
  BY <1>1, WaitSafety DEF HandleNewSession, Attempt, FindNoNode, SetPC, deviceVars
<1>2. ASSUME OnRequestClosed(r) PROVE SafetyInv'
  BY <1>2, FrameSafety DEF OnRequestClosed
<1>3. ASSUME FindNodeForCapability(r) PROVE SafetyInv'
  BY <1>3, MatchSafety
<1>4. ASSUME AddDeviceToPool(r) PROVE SafetyInv'
  BY <1>4, AddToPoolSafety
<1>5. ASSUME FindTimeout(r) PROVE SafetyInv'
  BY <1>5, WaitSafety DEF FindTimeout, deviceVars
<1>6. ASSUME ProxyCreateSession(r) PROVE SafetyInv'
  <2>1. CASE r \in closed
    <3> DEFINE ended == {r}
    <3>1. /\ pc' = [s \in Requests |-> IF s \in ended THEN "done" ELSE pc[s]]
          /\ pool' = pool \ {dev[s] : s \in ended}
      BY <1>6, <2>1 DEF ProxyCreateSession, SetPC, TypeOK
    <3>2. NewTurn /\ dev' = dev /\ ended \subseteq {s \in Requests : pc[s] \in {"pooled", "calling"}}
      BY <1>6 DEF ProxyCreateSession, SetPC
    <3> QED
      BY <3>1, <3>2, EndCallsSafety
  <2>2. CASE r \notin closed
    <3>1. /\ pc[r] = "pooled" /\ pc' = [pc EXCEPT ![r] = "calling"]
          /\ UNCHANGED <<dev, pool, busy>>
      BY <1>6, <2>2 DEF ProxyCreateSession, SetPC, deviceVars
    <3>2. \A s \in Requests : /\ (pc'[s] = "matched") <=> (pc[s] = "matched")
                              /\ InPool(s)' <=> InPool(s)
                              /\ Holds(s)' <=> Holds(s)
                              /\ pc'[s] \in {"idle", "polling", "queued"} => pc'[s] = pc[s]
      BY <3>1 DEF TypeOK, InPool, Holds
    <3>3. Placed' /\ MatchedIsBusy' /\ AllocationExclusive'
      BY <3>1, <3>2 DEF SafetyInv, Placed, MatchedIsBusy, AllocationExclusive
    <3>4. PoolAccounted'
      BY <3>1, <3>2 DEF SafetyInv, PoolAccounted
    <3> QED
      BY <3>3, <3>4 DEF SafetyInv
  <2> QED
    BY <2>1, <2>2
<1>7. ASSUME (\E success \in BOOLEAN : CreateSessionResponse(r, success)) \/ CreateSessionTimeout(r)
      PROVE  SafetyInv'
  <2> DEFINE ended == {r}
  <2>1. /\ pc' = [s \in Requests |-> IF s \in ended THEN "done" ELSE pc[s]]
        /\ pool' = pool \ {dev[s] : s \in ended}
    BY <1>7 DEF CreateSessionResponse, CreateSessionTimeout, SetPC, TypeOK
  <2>2. NewTurn /\ dev' = dev /\ ended \subseteq {s \in Requests : pc[s] \in {"pooled", "calling"}}
    BY <1>7 DEF CreateSessionResponse, CreateSessionTimeout, SetPC
  <2> QED
    BY <2>1, <2>2, EndCallsSafety
<1> QED
  BY <1>1, <1>2, <1>3, <1>4, <1>5, <1>6, <1>7 DEF RequestStep

LEMMA StepSafety == IInv /\ [Next]_vars => SafetyInv'
<1> SUFFICES ASSUME IInv, [Next]_vars PROVE SafetyInv'
  OBVIOUS
<1>1. ASSUME NEW n \in Nodes, NEW g \in Conns, NodeMessage(n, g) PROVE SafetyInv'
  <2>1. CASE Disconnect(n, g)
    <3>1. /\ NewTurn /\ dev' = dev
          /\ QueuedRequests(n, g) \subseteq {r \in Requests : pc[r] \in {"pooled", "calling"}}
          /\ pc' = [r \in Requests |-> IF r \in QueuedRequests(n, g) THEN "done" ELSE pc[r]]
          /\ pool' = pool \ {dev[r] : r \in QueuedRequests(n, g)}
      BY <2>1 DEF Disconnect, QueuedRequests
    <3> QED
      BY <3>1, EndCallsSafety DEF IInv
  <2>2. CASE ~Disconnect(n, g)
    BY <1>1, <2>2, NodeMessageFrame, FrameSafety DEF IInv
  <2> QED
    BY <2>1, <2>2
<1>2. ASSUME NEW r \in Requests, RequestStep(r) PROVE SafetyInv'
  BY <1>2, RequestStepSafety DEF IInv
<1>3. ASSUME DeleteStep \/ ControlStep \/ CommandTimeout \/ UNCHANGED vars PROVE SafetyInv'
  BY <1>3, OtherStepFrame, FrameSafety DEF IInv
<1> QED
  BY <1>1, <1>2, <1>3 DEF Next

-----------------------------------------------------------------------------
(* The theorems.                                                           *)

LEMMA Inductive == Spec => []IInv
<1>1. Init => IInv
  BY InitType, InitSafety DEF IInv
<1>2. IInv /\ [Next]_vars => IInv'
  BY StepType, StepSafety DEF IInv, SafetyInv
<1> QED
  BY <1>1, <1>2, PTL DEF Spec

\* The state keeps its shape: in particular a blocked or controlled device is
\* always one a registered Node object holds (node.ts:108-122).
THEOREM TypeCorrect == Spec => []TypeOK
<1>1. IInv => TypeOK
  BY DEF IInv
<1> QED
  BY <1>1, Inductive, PTL

\* No two new-session requests ever hold the same device, in any deployment
\* and whatever nodes and clients do (distributor.ts:34-155).
THEOREM Exclusive == Spec => []AllocationExclusive
<1>1. IInv => AllocationExclusive
  BY DEF IInv, SafetyInv
<1> QED
  BY <1>1, Inductive, PTL

\* The pool is exactly the set of devices whose requests are between
\* addDevice and their answer (distributor.ts:59-95).
THEOREM PoolExact == Spec => []PoolAccounted
<1>1. IInv => PoolAccounted
  BY DEF IInv, SafetyInv
<1> QED
  BY <1>1, Inductive, PTL

\* A device leaves the pool only with the answer of the request it was taken
\* for, never because another request, a DELETE or a node said so
\* (distributor.ts:71, 95).
LEMMA StepKeepsPlace ==
    ASSUME TypeOK, [Next]_vars, NEW r \in Requests, InPool(r)
    PROVE  pc'[r] = "done" \/ (InPool(r)' /\ dev'[r] = dev[r])
<1>1. ASSUME NEW n \in Nodes, NEW g \in Conns, Disconnect(n, g)
      PROVE  pc'[r] = "done" \/ (InPool(r)' /\ dev'[r] = dev[r])
  BY <1>1 DEF Disconnect, InPool, TypeOK
<1>2. ASSUME UNCHANGED <<pc, dev, pool>>
      PROVE  pc'[r] = "done" \/ (InPool(r)' /\ dev'[r] = dev[r])
  BY <1>2 DEF InPool
<1>3. ASSUME NEW s \in Requests, RequestStep(s)
      PROVE  pc'[r] = "done" \/ (InPool(r)' /\ dev'[r] = dev[r])
  BY <1>3 DEF RequestStep, HandleNewSession, OnRequestClosed, Attempt, FindNodeForCapability,
         FindNoNode, AddDeviceToPool, FindTimeout, ProxyCreateSession, CreateSessionResponse,
         CreateSessionTimeout, SetPC, InPool, TypeOK
<1> QED
  BY <1>1, <1>2, <1>3, NodeMessageFrame, OtherStepFrame DEF Next

THEOREM PoolLeaves == Spec => PoolLeavesWithAnswer
<1>1. IInv /\ IInv' /\ [Next]_vars
        => [\A r \in Requests : InPool(r) /\ dev[r] \notin pool' => pc'[r] = "done"]_vars
  BY StepKeepsPlace DEF IInv, SafetyInv, PoolAccounted
<1> QED
  BY <1>1, Inductive, PTL DEF Spec, PoolLeavesWithAnswer

-----------------------------------------------------------------------------
(* Refinement.                                                             *)

\* A step that gives nobody a device and under which nobody starts to hold
\* one ends leases or stutters.
LEMMA EndsLeases ==
    ASSUME dev' = dev, \A r \in Requests : Holds(r)' => Holds(r)
    PROVE  L!Next
<1>1. Leases' \subseteq Leases /\ Served' = Served
  BY DEF Leases, Served
<1>2. L!Release(Leases \ Leases')
  BY <1>1 DEF L!Release
<1> QED
  BY <1>2 DEF L!Next

LEMMA GrantsLease ==
    ASSUME IInv, NEW r \in Requests, FindNodeForCapability(r)
    PROVE  L!Next
<1>1. PICK d \in FreeDevicesFor(r) :
        /\ pc[r] = "queued" /\ pc' = [pc EXCEPT ![r] = "matched"]
        /\ dev' = [dev EXCEPT ![r] = d]
  BY DEF FindNodeForCapability, SetPC
<1>2. d \in Devices
  BY HubAssumption DEF IInv, TypeOK, FreeDevicesFor
<1>3. r \notin Served
  BY <1>1 DEF IInv, SafetyInv, Placed, Served
<1>4. \A l \in Leases : l[2] # d
  BY FreeIsUnheld DEF IInv, Leases
<1>5. Leases' = Leases \cup {<<r, d>>}
  <2>1. \A s \in Requests : /\ Holds(s)' <=> (s = r \/ Holds(s))
                            /\ s # r => dev'[s] = dev[s]
    BY <1>1 DEF IInv, TypeOK, Holds, InPool
  <2>2. dev'[r] = d /\ ~Holds(r)
    BY <1>1 DEF IInv, TypeOK, Holds, InPool
  <2> QED
    BY <2>1, <2>2 DEF Leases
<1>6. Served' = Served \cup {r}
  BY <1>1, <1>2, HubAssumption DEF IInv, TypeOK, Served
<1> QED
  BY <1>2, <1>3, <1>4, <1>5, <1>6 DEF L!Next, L!Grant

\* The hub implements the lease of a device to one request at a time: it
\* grants only what nobody has and only once per request.
THEOREM Implements == Spec => ImplementsLease
<1>1. Init => L!Init
  BY DEF Init, L!Init, Leases, Served, Holds, InPool
<1>2. IInv /\ [Next]_vars => [L!Next]_L!vars
  <2> SUFFICES ASSUME IInv, [Next]_vars PROVE L!Next
    OBVIOUS
  <2>1. ASSUME NEW n \in Nodes, NEW g \in Conns, Disconnect(n, g) PROVE L!Next
    BY <2>1, EndsLeases DEF Disconnect, Holds, InPool
  <2>2. ASSUME UNCHANGED <<pc, dev, pool>> PROVE L!Next
    BY <2>2, EndsLeases DEF Holds, InPool
  <2>3. ASSUME NEW r \in Requests, RequestStep(r) PROVE L!Next
    <3>1. CASE FindNodeForCapability(r)
      BY <3>1, GrantsLease
    <3>2. CASE ~FindNodeForCapability(r)
      BY <2>3, <3>2, EndsLeases DEF RequestStep, HandleNewSession, OnRequestClosed, Attempt,
         FindNoNode, AddDeviceToPool, FindTimeout, ProxyCreateSession, CreateSessionResponse,
         CreateSessionTimeout, SetPC, Holds, InPool, IInv, TypeOK
    <3> QED
      BY <3>1, <3>2
  <2> QED
    BY <2>1, <2>2, <2>3, NodeMessageFrame, OtherStepFrame DEF Next
<1> QED
  BY <1>1, <1>2, Inductive, PTL DEF Spec, ImplementsLease, L!Spec
=============================================================================
