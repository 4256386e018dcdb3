------------------------------ MODULE MCParts ------------------------------
(***************************************************************************)
(* Five parts of the plugin that share no state: port allocation, the      *)
(* start of the scrcpy server, the installation of apps, the MJPEG decoder *)
(* and the tracker of iOS devices.  One of them steps in a behaviour: the  *)
(* steps of different parts commute, so nothing is lost.                   *)
(***************************************************************************)
EXTENDS Ports, ScrcpyServer, ApkInstaller, MjpegDecoder, IosTracker

CONSTANT NeverUnlocked      \* bound: real devices that stay locked, if they are there

VARIABLES
    part,       \* the part that steps
    may         \* bound: the states that each iOS device takes

mcVars == <<part, may>>
vars == <<portVars, serverVars, installVars, decoderVars, iosVars, mcVars>>

\* Two real devices of which one stays locked, or a real one and the simulators.
Phones ==
    [d \in IosDevices |->
        CASE d \in NeverUnlocked -> {"absent", "locked"}
          [] d \in Reals \ NeverUnlocked -> {"absent", "locked", "booted"}
          [] OTHER -> {"absent"}]

PhoneAndSimulators ==
    [d \in IosDevices |->
        CASE d \in NeverUnlocked -> {"absent"}
          [] d \in Reals \ NeverUnlocked -> {"absent", "booted"}
          [] OTHER -> {"absent", "shutdown", "booted"}]

Init ==
    /\ PortsInit /\ ScrcpyInit /\ InstallInit /\ DecoderInit /\ IosInit
    /\ part \in {"ports", "scrcpy", "apk", "decoder", "ios"}
    /\ may \in {PhoneAndSimulators} \cup (IF part = "ios" THEN {Phones} ELSE {})

PortsStep ==
    /\ part = "ports"
    /\ PortsNext
    /\ UNCHANGED <<serverVars, installVars, decoderVars, iosVars, mcVars>>

ScrcpyStep ==
    /\ part = "scrcpy"
    /\ ScrcpyNext
    /\ UNCHANGED <<portVars, installVars, decoderVars, iosVars, mcVars>>

InstallStep ==
    /\ part = "apk"
    /\ InstallNext
    /\ UNCHANGED <<portVars, serverVars, decoderVars, iosVars, mcVars>>

DecoderStep ==
    /\ part = "decoder"
    /\ DecoderNext
    /\ UNCHANGED <<portVars, serverVars, installVars, iosVars, mcVars>>

IosStep ==
    /\ part = "ios"
    /\ IosNext
    /\ \A d \in IosDevices : state'[d] \in may[d]
    /\ UNCHANGED <<portVars, serverVars, installVars, decoderVars, mcVars>>

Next == PortsStep \/ ScrcpyStep \/ InstallStep \/ DecoderStep \/ IosStep

Spec == Init /\ [][Next]_vars

\* portfinder answers: a search that is under way goes on.
FairSpec ==
    /\ Spec
    /\ WF_portVars(SearchStep)
    /\ part = "ios" => IosFairness
=============================================================================
