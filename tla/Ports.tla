------------------------------- MODULE Ports -------------------------------
(***************************************************************************)
(* getFreePort (utils/common): local ports for the scrcpy server of an     *)
(* Android device and for WDA and its MJPEG stream.  A port is found free  *)
(* long before its caller binds it, so the ports handed out are kept in    *)
(* BLOCKED_PORTS, and a search that finds one of them goes on behind the   *)
(* last of these.  Port 0 stands for the first port portfinder tries.      *)
(***************************************************************************)
EXTENDS Naturals, Sequences

CONSTANTS
    Calls,
    MaxPort         \* the highest port there is

ASSUME PortsAssumption == MaxPort \in Nat

Port == 0 .. MaxPort
NoPort == MaxPort + 1

VARIABLES
    BLOCKED_PORTS,
    bound,          \* ports that some process listens at
    probe,          \* the port that the search under way tries next, else 0
    call,           \* how far a call of getFreePort is
    port            \* what it returned

portVars == <<BLOCKED_PORTS, bound, probe, call, port>>

BlockedPorts == {BLOCKED_PORTS[i] : i \in 1 .. Len(BLOCKED_PORTS)}

PortsTypeOK ==
    /\ BLOCKED_PORTS \in Seq(Port)
    /\ bound \subseteq Port
    /\ probe \in 0 .. NoPort
    /\ call \in [Calls -> {"waiting", "searching", "done", "failed"}]
    /\ port \in [Calls -> Port \cup {NoPort}]

PortsInit ==
    /\ BLOCKED_PORTS = <<>>
    /\ bound = {}
    /\ probe = 0
    /\ call = [c \in Calls |-> "waiting"]
    /\ port = [c \in Calls |-> NoPort]

-----------------------------------------------------------------------------

\* Other processes, and the callers themselves, bind ports and release them.
Bind(p) ==
    /\ bound' = IF p \in bound THEN bound \ {p} ELSE bound \cup {p}
    /\ UNCHANGED <<BLOCKED_PORTS, probe, call, port>>

\* The lock is granted and the first search begins.
Search(c) ==
    /\ call[c] = "waiting"
    /\ \A d \in Calls : call[d] # "searching"
    /\ call' = [call EXCEPT ![c] = "searching"]
    /\ UNCHANGED <<BLOCKED_PORTS, bound, probe, port>>

\* portfinder tries one port after the other.
TryNext(c) ==
    /\ call[c] = "searching"
    /\ probe \in bound
    /\ probe' = probe + 1
    /\ UNCHANGED <<BLOCKED_PORTS, bound, call, port>>

\* Faulty variant: the next search begins at the last port.
SearchOnAtLast(c) ==
    /\ call[c] = "searching"
    /\ probe \in BlockedPorts \ bound
    /\ probe' = BLOCKED_PORTS[Len(BLOCKED_PORTS)]
    /\ UNCHANGED <<BLOCKED_PORTS, bound, call, port>>

\* It has found a port that was handed out before: a new search behind the last.
SearchOn(c) ==
    /\ call[c] = "searching"
    /\ probe \in BlockedPorts \ bound
    /\ probe' = BLOCKED_PORTS[Len(BLOCKED_PORTS)] + 1
    /\ UNCHANGED <<BLOCKED_PORTS, bound, call, port>>

\* Faulty variant: the port is not kept.
TakeUnkept(c) ==
    /\ call[c] = "searching"
    /\ probe \in Port \ (bound \cup BlockedPorts)
    /\ port' = [port EXCEPT ![c] = probe]
    /\ call' = [call EXCEPT ![c] = "done"]
    /\ probe' = 0
    /\ UNCHANGED <<BLOCKED_PORTS, bound>>

Take(c) ==
    /\ call[c] = "searching"
    /\ probe \in Port \ (bound \cup BlockedPorts)
    /\ BLOCKED_PORTS' = Append(BLOCKED_PORTS, probe)
    /\ port' = [port EXCEPT ![c] = probe]
    /\ call' = [call EXCEPT ![c] = "done"]
    /\ probe' = 0
    /\ UNCHANGED bound

\* There is no free port: the call is rejected.
RunOut(c) ==
    /\ call[c] = "searching"
    /\ probe > MaxPort
    /\ call' = [call EXCEPT ![c] = "failed"]
    /\ probe' = 0
    /\ UNCHANGED <<BLOCKED_PORTS, bound, port>>

SearchStep == \E c \in Calls : TryNext(c) \/ SearchOn(c) \/ Take(c) \/ RunOut(c)

PortsNext ==
    \/ \E p \in Port : Bind(p)
    \/ \E c \in Calls : Search(c)
    \/ SearchStep

PortsSpec == PortsInit /\ [][PortsNext]_portVars

-----------------------------------------------------------------------------
(* Properties.                                                             *)

\* No two calls get the same port, although what they were told of stays
\* unbound for a while: the scrcpy servers and the WDAs of all devices keep
\* apart (utils/common.ts:20-29).
PortsAreDistinct ==
    \A c, d \in Calls : c # d /\ port[c] # NoPort => port[c] # port[d]

\* The ports were handed out in rising order.
Rising ==
    \A i, j \in 1 .. Len(BLOCKED_PORTS) : i < j => BLOCKED_PORTS[i] < BLOCKED_PORTS[j]

\* A search ends, and the lock with it, as long as the ports were handed out in
\* rising order.  Once a lower one was (it was bound at an earlier search and
\* free at a later one), the search behind the last port may find the same
\* blocked port for ever, and no call gets the lock again (utils/common.ts:23-25).
SearchEnds ==
    \A c \in Calls : call[c] = "searching" /\ Rising ~> call[c] # "searching"
=============================================================================
