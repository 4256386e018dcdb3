----------------------------- MODULE IosTracker -----------------------------
(***************************************************************************)
(* The tracker of iOS devices (device/trackers/ios) on a Mac.  A poll asks *)
(* for the simulators and for the real devices at the same time, compares  *)
(* each answer with the devices it knows when the answer comes, and when   *)
(* both are there announces what is new and then withdraws what has gone.  *)
(* A poll begins every ten seconds, whether or not the last one has ended. *)
(***************************************************************************)
EXTENDS Naturals, FiniteSets

CONSTANTS
    Reals,
    Simulators,
    Polls           \* bound: polls under way at the same time

ASSUME IosTrackerAssumption == Reals \cap Simulators = {}

IosDevices == Reals \cup Simulators

VARIABLES
    state,          \* of a device; a locked one is connected and does not answer
    pollingTimer,   \* whether the interval is set
    first,          \* polls that initialize() made
    simulators,     \* how far a poll is with the simulators
    reals,          \* and with the list of the real devices
    toRead,         \* those whose properties it still reads
    added, removed, \* what a poll has found so far
    known           \* deviceCache, and the devices that the hub was told of

pollVars == <<pollingTimer, first, simulators, reals, toRead, added, removed>>
iosVars == <<state, pollVars, known>>

IosTypeOK ==
    /\ state \in [IosDevices -> {"absent", "shutdown", "booted", "locked"}]
    /\ pollingTimer \in BOOLEAN
    /\ first \subseteq Polls
    /\ simulators \in [Polls -> {"none", "asking", "done"}]
    /\ reals \in [Polls -> {"none", "asking", "done"}]
    /\ toRead \in [Polls -> SUBSET Reals]
    /\ added \in [Polls -> SUBSET IosDevices]
    /\ removed \in [Polls -> SUBSET IosDevices]
    /\ known \subseteq IosDevices
    /\ \A p \in Polls :
        /\ simulators[p] = "none" <=> reals[p] = "none"
        /\ toRead[p] # {} => reals[p] = "done"

IosInit ==
    /\ state = [d \in IosDevices |-> "absent"]
    /\ pollingTimer = FALSE /\ first = {}
    /\ simulators = [p \in Polls |-> "none"] /\ reals = [p \in Polls |-> "none"]
    /\ toRead = [p \in Polls |-> {}]
    /\ added = [p \in Polls |-> {}] /\ removed = [p \in Polls |-> {}]
    /\ known = {}

-----------------------------------------------------------------------------
(* Devices.                                                                *)

Become(d, s) ==
    /\ state[d] # s
    /\ state' = [state EXCEPT ![d] = s]
    /\ UNCHANGED <<pollVars, known>>

\* A real device is plugged in, is unlocked or goes.
RealChanges(d) ==
    \E s \in {"absent", "locked", "booted"} : Become(d, s)

\* A simulator is created or shut down, boots, or is erased.
SimulatorChanges(d) ==
    \E s \in {"absent", "shutdown", "booted"} : Become(d, s)

-----------------------------------------------------------------------------
(* A poll.                                                                 *)

Begin(p) ==
    /\ reals[p] = "none"
    /\ simulators' = [simulators EXCEPT ![p] = "asking"]
    /\ reals' = [reals EXCEPT ![p] = "asking"]
    /\ UNCHANGED <<state, pollingTimer, toRead, added, removed, known>>

\* initialize(): another registration calls it again as long as no first poll
\* has ended.
Initialize(p) ==
    /\ ~pollingTimer
    /\ first' = first \cup {p}
    /\ Begin(p)

Interval(p) ==
    /\ pollingTimer
    /\ Begin(p)
    /\ UNCHANGED first

Finds(p, new, gone) ==
    /\ added' = [added EXCEPT ![p] = @ \cup new]
    /\ removed' = [removed EXCEPT ![p] = @ \cup gone]

\* getSimulators: one that is known and not listed any more stays.
SimulatorsAnswer(p) ==
    /\ simulators[p] = "asking"
    /\ simulators' = [simulators EXCEPT ![p] = "done"]
    /\ Finds(p, {d \in Simulators \ known : state[d] = "booted"},
                {d \in Simulators \cap known : state[d] = "shutdown"})
    /\ UNCHANGED <<state, pollingTimer, first, reals, toRead, known>>

SimulatorsFail(p) ==
    /\ simulators[p] = "asking"
    /\ simulators' = [simulators EXCEPT ![p] = "done"]
    /\ UNCHANGED <<state, pollingTimer, first, reals, toRead, added, removed, known>>

\* Faulty variant: nothing is compared when no unknown device is connected.
RealsAnswerIfNew(p) ==
    /\ reals[p] = "asking"
    /\ LET connected == {d \in Reals : state[d] # "absent"}
       IN  /\ toRead' = [toRead EXCEPT ![p] = connected \ known]
           /\ Finds(p, {}, IF connected \subseteq known THEN {} ELSE (Reals \cap known) \ connected)
    /\ reals' = [reals EXCEPT ![p] = "done"]
    /\ UNCHANGED <<state, pollingTimer, first, simulators, known>>

\* getRealDevices: the connected devices are listed, and the unknown ones are
\* asked for their properties.
RealsAnswer(p) ==
    /\ reals[p] = "asking"
    /\ LET connected == {d \in Reals : state[d] # "absent"}
       IN  /\ toRead' = [toRead EXCEPT ![p] = connected \ known]
           /\ Finds(p, {}, (Reals \cap known) \ connected)
    /\ reals' = [reals EXCEPT ![p] = "done"]
    /\ UNCHANGED <<state, pollingTimer, first, simulators, known>>

GetDeviceInfo(p) ==
    /\ \E d \in toRead[p] :
        /\ state[d] = "booted"
        /\ toRead' = [toRead EXCEPT ![p] = @ \ {d}]
        /\ Finds(p, {d}, {})
    /\ UNCHANGED <<state, pollingTimer, first, simulators, reals, known>>

\* One question without an answer, from whichever device, and nothing is said of
\* any real device.
RealsFail(p) ==
    /\ reals[p] = "asking" \/ toRead[p] # {}
    /\ reals' = [reals EXCEPT ![p] = "done"]
    /\ toRead' = [toRead EXCEPT ![p] = {}]
    /\ added' = [added EXCEPT ![p] = @ \ Reals]
    /\ removed' = [removed EXCEPT ![p] = @ \ Reals]
    /\ UNCHANGED <<state, pollingTimer, first, simulators, known>>

\* device_connected for the new devices, then device_removed; the interval is
\* set when the poll was that of initialize().
End(p) ==
    /\ simulators[p] = "done" /\ reals[p] = "done" /\ toRead[p] = {}
    /\ known' = (known \cup added[p]) \ removed[p]
    /\ simulators' = [simulators EXCEPT ![p] = "none"]
    /\ reals' = [reals EXCEPT ![p] = "none"]
    /\ added' = [added EXCEPT ![p] = {}] /\ removed' = [removed EXCEPT ![p] = {}]
    /\ pollingTimer' = (pollingTimer \/ p \in first)
    /\ first' = first \ {p}
    /\ UNCHANGED <<state, toRead>>

-----------------------------------------------------------------------------

DeviceStep ==
    \/ \E d \in Reals : RealChanges(d)
    \/ \E d \in Simulators : SimulatorChanges(d)

PollStep(p) ==
    \/ SimulatorsAnswer(p) \/ SimulatorsFail(p)
    \/ RealsAnswer(p) \/ GetDeviceInfo(p) \/ RealsFail(p)
    \/ End(p)

IosNext ==
    \/ DeviceStep
    \/ \E p \in Polls : Initialize(p) \/ Interval(p) \/ PollStep(p)

\* The hub confirms the registration, time passes, and every question is answered
\* or fails.  The lists of the devices do not fail for ever, nor does the question
\* to an unlocked device, be it the last of a poll or one with others behind it.
IosFairness ==
    /\ WF_iosVars(\E p \in Polls : Initialize(p) \/ Interval(p))
    /\ \A p \in Polls : WF_iosVars(PollStep(p))
    /\ SF_iosVars(\E p \in Polls : SimulatorsAnswer(p))
    /\ SF_iosVars(\E p \in Polls : RealsAnswer(p))
    /\ \A n \in 1 .. Cardinality(Reals) :
        SF_iosVars(\E p \in Polls : GetDeviceInfo(p) /\ Cardinality(toRead[p]) = n)

-----------------------------------------------------------------------------
(* Properties.                                                             *)

Settled(d, states) == \E s \in states : <>[](state[d] = s)

\* The hub and the tracker end up with the devices that are there, although
\* overlapping polls announce a device twice or withdraw one that is back: a
\* simulator that stays booted or shut down (one that is erased while it is known
\* stays known), and a real device once all of them stay connected and unlocked,
\* or away: one locked device that is not known yet keeps every other from being
\* announced and withdrawn (ios.ts:28-122).
KnownInTheEnd ==
    /\ \A d \in Simulators :
        /\ <>[](state[d] = "booted") => <>[](d \in known)
        /\ <>[](state[d] = "shutdown") => <>[](d \notin known)
    /\ (\A e \in Reals : Settled(e, {"booted", "absent"})) =>
        \A d \in Reals :
            /\ <>[](state[d] = "booted") => <>[](d \in known)
            /\ <>[](state[d] = "absent") => <>[](d \notin known)
=============================================================================
