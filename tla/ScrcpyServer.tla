---------------------------- MODULE ScrcpyServer ----------------------------
(***************************************************************************)
(* The start of the scrcpy server on one Android device, which is what     *)
(* initialize() of its remote controller does.  Every announcement of the  *)
(* device makes a controller with a ScrcpyServer of its own, so two run()s *)
(* may overlap.  A run also stands for the process on the device that it   *)
(* starts; Old is one that was left there.                                 *)
(***************************************************************************)
EXTENDS Naturals

CONSTANTS
    Runs,
    Old

ASSUME ScrcpyAssumption == Old \notin Runs

Servers == Runs \cup {Old}

VARIABLES
    run,            \* how far a run is
    server,         \* what has become of its process
    streamAvailable,    \* what run() returned to the controller
    during,         \* history: <<q, r>> if run q was under way when r killed the servers
    unseen          \* history: runs whose own process was not there when their wait ended

serverVars == <<run, server, streamAvailable, during, unseen>>

ScrcpyTypeOK ==
    /\ run \in [Runs -> {"idle", "listing", "killing", "copying", "racing", "port", "done"}]
    /\ server \in [Servers -> {"none", "pending", "running", "dying", "ended"}]
    /\ streamAvailable \subseteq Runs
    /\ during \subseteq Runs \X Runs
    /\ unseen \subseteq Runs
    /\ \A r \in Runs : run[r] \in {"idle", "listing", "killing", "copying"} => server[r] = "none"
    /\ \A r \in streamAvailable : run[r] = "done" /\ server[r] # "none"

ScrcpyInit ==
    /\ run = [r \in Runs |-> "idle"]
    /\ server = [s \in Servers |-> IF s = Old THEN "running" ELSE "none"]
    /\ streamAvailable = {}
    /\ during = {} /\ unseen = {}

-----------------------------------------------------------------------------

\* getServerPids finds a process that is killed until it has ended.
ServerPids == {s \in Servers : server[s] \in {"running", "dying"}}

Go(r, from, to) ==
    /\ run[r] = from
    /\ run' = [run EXCEPT ![r] = to]

\* What run r finds of the others when it is done with killing.
Look(r) == during' = during \cup {<<q, r>> : q \in {p \in Runs : run[p] # "idle" /\ run[p] # "done"}}

Run(r) ==
    /\ Go(r, "idle", "listing")
    /\ UNCHANGED <<server, streamAvailable, during, unseen>>

List(r) ==
    /\ IF ServerPids = {}
       THEN Go(r, "listing", "copying") /\ Look(r)
       ELSE Go(r, "listing", "killing") /\ UNCHANGED during
    /\ UNCHANGED <<server, streamAvailable, unseen>>

\* Faulty variant: the processes that the first list has are not killed.
KillNone(r) ==
    /\ Go(r, "killing", "copying")
    /\ Look(r)
    /\ UNCHANGED <<server, streamAvailable, unseen>>

\* killServer lists the processes anew; a kill does not wait for their end.
KillServer(r) ==
    /\ Go(r, "killing", "copying")
    /\ server' = [s \in Servers |-> IF server[s] = "running" THEN "dying" ELSE server[s]]
    /\ Look(r)
    /\ UNCHANGED <<streamAvailable, unseen>>

\* A process ends while it is looked at, or the server cannot be copied: the
\* run fails.
RunFails(r) ==
    /\ \E from \in {"listing", "killing", "copying"} : Go(r, from, "done")
    /\ UNCHANGED <<server, streamAvailable, during, unseen>>

\* The server is started, and waited for at the same time.
CopyServer(r) ==
    /\ Go(r, "copying", "racing")
    /\ server' = [server EXCEPT ![r] = "pending"]
    /\ UNCHANGED <<streamAvailable, during, unseen>>

ServerAppears(s) ==
    /\ server[s] = "pending"
    /\ server' = [server EXCEPT ![s] = "running"]
    /\ UNCHANGED <<run, streamAvailable, during, unseen>>

ServerEnds(s) ==
    /\ server[s] \in {"pending", "running", "dying"}
    /\ server' = [server EXCEPT ![s] = "ended"]
    /\ UNCHANGED <<run, streamAvailable, during, unseen>>

\* The race is over when the command has ended, when any server is found, or
\* after a minute; whichever it was, a port is asked for.
RaceEnds(r) ==
    /\ Go(r, "racing", "port")
    /\ unseen' = IF server[r] = "running" THEN unseen ELSE unseen \cup {r}
    /\ UNCHANGED <<server, streamAvailable, during>>

\* The port is forwarded to the device, which is not waited for; without one the
\* run fails and its process stays.
ForwardPort(r) ==
    /\ Go(r, "port", "done")
    /\ streamAvailable' \in {streamAvailable, streamAvailable \cup {r}}
    /\ UNCHANGED <<server, during, unseen>>

ScrcpyNext ==
    \/ \E r \in Runs :
        \/ Run(r) \/ List(r) \/ KillServer(r) \/ RunFails(r) \/ CopyServer(r)
        \/ RaceEnds(r) \/ ForwardPort(r)
    \/ \E s \in Servers : ServerAppears(s) \/ ServerEnds(s)

ScrcpySpec == ScrcpyInit /\ [][ScrcpyNext]_serverVars

-----------------------------------------------------------------------------
(* Properties.                                                             *)

\* One server at most streams from the device: a run ends those of the runs
\* before it, but for one that was under way when it looked, and one whose run
\* had ended without its server: after a minute, with the command, or because
\* the process found was another, maybe one that was being killed
\* (scrcpy-server.ts:48-102).
OneServer ==
    \A q, r \in Servers :
        server[q] = "running" /\ server[r] = "running" /\ q # r =>
            {<<q, r>>, <<r, q>>} \cap during # {} \/ {q, r} \cap unseen # {}
=============================================================================
