------------------------------- MODULE Lease -------------------------------
(***************************************************************************)
(* What the distributor promises the clients of the grid, without nodes,   *)
(* sockets, locks or pools: a device is leased to one new-session request  *)
(* at a time, a request is given one device once, and the lease ends when  *)
(* the request does.  Leases may end together: the loss of a node ends     *)
(* those of all its requests.                                              *)
(***************************************************************************)
CONSTANTS Requests, Devices

VARIABLES
    lease,    \* the pairs <<request, device>> in force
    served    \* the requests that were ever given a device

vars == <<lease, served>>

TypeOK ==
    /\ lease \subseteq Requests \X Devices
    /\ served \subseteq Requests

Init == lease = {} /\ served = {}

Grant(r, d) ==
    /\ r \notin served
    /\ \A l \in lease : l[2] # d
    /\ lease' = lease \cup {<<r, d>>}
    /\ served' = served \cup {r}

Release(ended) ==
    /\ lease' = lease \ ended
    /\ UNCHANGED served

Next ==
    \/ \E r \in Requests, d \in Devices : Grant(r, d)
    \/ \E ended \in SUBSET lease : Release(ended)

Spec == Init /\ [][Next]_vars
=============================================================================
