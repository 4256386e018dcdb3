---------------------------- MODULE PartsProofs ----------------------------
(***************************************************************************)
(* Proofs about three parts of the plugin that share no state: the ports,  *)
(* the scrcpy server and the installation of apps, for any number of calls *)
(* and ports, of runs of the server and of requests.                       *)
(***************************************************************************)
EXTENDS Ports, ScrcpyServer, ApkInstaller, TLAPS

-----------------------------------------------------------------------------
(* Ports.  A port is handed out once: a port that a call returned stays in *)
(* BLOCKED_PORTS, and a search only takes a port that is not in it.        *)

PortsInv ==
    /\ PortsTypeOK
    /\ \A c \in Calls : port[c] # NoPort => port[c] \in BlockedPorts
    /\ PortsAreDistinct

\* A port that is taken is kept behind those handed out before (utils/common.ts:26).
LEMMA AppendKeeps ==
    ASSUME NEW p, BLOCKED_PORTS \in Seq(Port), BLOCKED_PORTS' = Append(BLOCKED_PORTS, p)
    PROVE  BlockedPorts' = BlockedPorts \cup {p}
<1>1. Len(BLOCKED_PORTS') = Len(BLOCKED_PORTS) + 1
  OBVIOUS
<1>2. \A i \in 1 .. Len(BLOCKED_PORTS) : BLOCKED_PORTS'[i] = BLOCKED_PORTS[i]
  OBVIOUS
<1>3. BLOCKED_PORTS'[Len(BLOCKED_PORTS) + 1] = p
  OBVIOUS
<1>4. Len(BLOCKED_PORTS) \in Nat
  OBVIOUS
<1> QED
  BY <1>1, <1>2, <1>3, <1>4 DEF BlockedPorts

\* Before the first call nothing is handed out (utils/common.ts:5-6).
LEMMA PortsInitInv == PortsInit => PortsInv
  BY PortsAssumption DEF PortsInit, PortsInv, PortsTypeOK, PortsAreDistinct, Port, NoPort

\* Every step of the search, and every process that binds a port, keeps the
\* invariant (utils/common.ts:20-29).
LEMMA PortsStepInv == PortsInv /\ [PortsNext]_portVars => PortsInv'
<1> SUFFICES ASSUME PortsInv, [PortsNext]_portVars
             PROVE  PortsInv'
  OBVIOUS
<1> USE PortsAssumption
<1>1. PortsTypeOK
  BY DEF PortsInv
<1>2. ASSUME UNCHANGED <<BLOCKED_PORTS, port>>, PortsTypeOK'
      PROVE  PortsInv'
  BY <1>2 DEF PortsInv, PortsAreDistinct, BlockedPorts, NoPort
<1>3. CASE UNCHANGED portVars
  BY <1>1, <1>2, <1>3 DEF PortsTypeOK, portVars, Port, NoPort
<1>4. ASSUME NEW p \in Port, Bind(p)
      PROVE  PortsInv'
  BY <1>1, <1>2, <1>4 DEF PortsTypeOK, Bind, Port, NoPort
<1>5. ASSUME NEW c \in Calls, Search(c)
      PROVE  PortsInv'
  BY <1>1, <1>2, <1>5 DEF PortsTypeOK, Search, Port, NoPort
<1>6. ASSUME NEW c \in Calls, TryNext(c)
      PROVE  PortsInv'
  BY <1>1, <1>2, <1>6 DEF PortsTypeOK, TryNext, Port, NoPort
<1>7. ASSUME NEW c \in Calls, SearchOn(c)
      PROVE  PortsInv'
  <2>1. PICK i \in 1 .. Len(BLOCKED_PORTS) : BLOCKED_PORTS[i] = probe
    BY <1>7 DEF SearchOn, BlockedPorts
  <2>2. BLOCKED_PORTS[Len(BLOCKED_PORTS)] \in Port
    BY <1>1, <2>1 DEF PortsTypeOK
  <2>3. probe' \in 0 .. NoPort
    BY <1>7, <2>2 DEF SearchOn, Port, NoPort
  <2> QED
    BY <1>1, <1>2, <1>7, <2>3 DEF PortsTypeOK, SearchOn
<1>8. ASSUME NEW c \in Calls, Take(c)
      PROVE  PortsInv'
  <2>1. /\ probe \in Port \ BlockedPorts
        /\ BLOCKED_PORTS' = Append(BLOCKED_PORTS, probe)
        /\ port' = [port EXCEPT ![c] = probe]
    BY <1>8 DEF Take
  <2>2. PortsTypeOK'
    BY <1>1, <1>8, <2>1 DEF PortsTypeOK, Take, Port, NoPort
  <2>3. BlockedPorts' = BlockedPorts \cup {probe}
    BY <1>1, <2>1, AppendKeeps DEF PortsTypeOK
  <2>4. \A d \in Calls : port'[d] = IF d = c THEN probe ELSE port[d]
    BY <1>1, <2>1 DEF PortsTypeOK
  <2>5. \A d \in Calls : port'[d] # NoPort => port'[d] \in BlockedPorts'
    BY <2>3, <2>4 DEF PortsInv
  <2>6. PortsAreDistinct'
    BY <2>1, <2>4 DEF PortsInv, PortsAreDistinct, NoPort
  <2> QED
    BY <2>2, <2>5, <2>6 DEF PortsInv, NoPort
<1>9. ASSUME NEW c \in Calls, RunOut(c)
      PROVE  PortsInv'
  BY <1>1, <1>2, <1>9 DEF PortsTypeOK, RunOut, Port, NoPort
<1> QED
  BY <1>3, <1>4, <1>5, <1>6, <1>7, <1>8, <1>9 DEF PortsNext, SearchStep

\* The scrcpy servers and the WDAs of all devices get ports of their own, in a
\* plugin with any number of devices (utils/common.ts:20-29).
THEOREM PortsAlwaysDistinct == PortsSpec => []PortsAreDistinct
<1>1. PortsInv => PortsAreDistinct
  BY DEF PortsInv
<1> QED
  BY <1>1, PortsInitInv, PortsStepInv, PTL DEF PortsSpec

-----------------------------------------------------------------------------
(* The scrcpy server.  Two servers run only as OneServer says.  The        *)
(* property is carried from the moment a run has killed the servers it     *)
(* found, by which each of the others is either gone, or belongs to a run  *)
(* that was under way, or to one that had ended without it.                *)

\* A server that may still come, is coming or is there.
Lives(s) ==
    \/ s \in Runs /\ run[s] = "copying"
    \/ server[s] \in {"pending", "running"}

Excused(q, r) ==
    <<q, r>> \in during \/ <<r, q>> \in during \/ q \in unseen \/ r \in unseen

\* A process that has not appeared belongs to a run that waits for it, or that
\* has gone on without it; a run that has started one keeps it, whatever its state.
PendingHasRun ==
    /\ \A s \in Servers : server[s] = "pending" => s \in Runs /\ (run[s] = "racing" \/ s \in unseen)
    /\ \A r \in Runs : run[r] \in {"racing", "port"} => server[r] # "none"

LivesAlone == \A q, r \in Servers : q # r /\ Lives(q) /\ Lives(r) => Excused(q, r)

ScrcpyInv == ScrcpyTypeOK /\ PendingHasRun /\ LivesAlone

\* One server was left on the device, by nobody (scrcpy-server.ts:36-54).
LEMMA ScrcpyInitInv == ScrcpyInit => ScrcpyInv
  BY ScrcpyAssumption
  DEF ScrcpyInit, ScrcpyInv, ScrcpyTypeOK, PendingHasRun, LivesAlone, Lives, Servers

\* Nothing new lives, and what was excused stays excused.
LEMMA NothingComes ==
    ASSUME LivesAlone, during \subseteq during', unseen \subseteq unseen',
           \A s \in Servers : Lives(s)' => Lives(s)
    PROVE  LivesAlone'
  BY DEF LivesAlone, Excused

\* When run r has killed the servers, whatever lives beside it is excused.
LEMMA KillerIsAlone ==
    ASSUME ScrcpyInv, NEW r \in Runs, Look(r), UNCHANGED unseen,
           run[r] \in {"listing", "killing"}, run' = [run EXCEPT ![r] = "copying"],
           \A s \in Servers : server'[s] # "running",
           \A s \in Servers : server'[s] = "pending" => server[s] = "pending"
    PROVE  LivesAlone'
<1>1. during' = during \cup {<<q, r>> : q \in {p \in Runs : run[p] # "idle" /\ run[p] # "done"}}
  BY DEF Look
<1>2. \A q \in Runs : run[q] # "idle" /\ run[q] # "done" => <<q, r>> \in during'
  BY <1>1
<1>3. r \in Servers
  BY DEF Servers
<1>4. ASSUME NEW s \in Servers, s # r, Lives(s)'
      PROVE  Excused(s, r)' /\ Lives(s)
  <2>1. CASE s \in Runs /\ run'[s] = "copying"
    <3>1. run[s] = "copying"
      BY <1>4, <2>1 DEF ScrcpyInv, ScrcpyTypeOK
    <3> QED
      BY <1>2, <2>1, <3>1 DEF Excused, Lives
  <2>2. CASE server'[s] = "pending"
    <3>1. server[s] = "pending" /\ s \in Runs /\ (run[s] = "racing" \/ s \in unseen)
      BY <2>2 DEF ScrcpyInv, PendingHasRun
    <3> QED
      BY <1>2, <3>1 DEF Excused, Lives
  <2> QED
    BY <1>4, <2>1, <2>2 DEF Lives
<1>5. ASSUME NEW s \in Servers, NEW t \in Servers, s # t, s # r, t # r, Lives(s)', Lives(t)'
      PROVE  Excused(s, t)'
  <2>1. Excused(s, t)
    BY <1>4, <1>5 DEF ScrcpyInv, LivesAlone
  <2> QED
    BY <1>1, <2>1 DEF Excused
<1> QED
  BY <1>3, <1>4, <1>5 DEF LivesAlone, Excused

\* Every step of a run and of a server keeps the invariant (scrcpy-server.ts:36-111).
LEMMA ScrcpyStepInv == ScrcpyInv /\ [ScrcpyNext]_serverVars => ScrcpyInv'
<1> SUFFICES ASSUME ScrcpyInv, [ScrcpyNext]_serverVars
             PROVE  ScrcpyInv'
  OBVIOUS
<1> USE ScrcpyAssumption
<1>1. CASE UNCHANGED serverVars
  BY <1>1 DEF ScrcpyInv, ScrcpyTypeOK, PendingHasRun, LivesAlone, Lives, Excused, serverVars
<1>2. ASSUME NEW r \in Runs, Run(r)
      PROVE  ScrcpyInv'
  <2>1. ScrcpyTypeOK'
    BY <1>2 DEF ScrcpyInv, ScrcpyTypeOK, Run, Go, Servers
  <2>2. PendingHasRun'
    BY <1>2 DEF ScrcpyInv, ScrcpyTypeOK, PendingHasRun, Run, Go, Servers
  <2>3. LivesAlone'
    BY <1>2, NothingComes DEF ScrcpyInv, ScrcpyTypeOK, Lives, Run, Go
  <2> QED
    BY <2>1, <2>2, <2>3 DEF ScrcpyInv
<1>3. ASSUME NEW r \in Runs, List(r)
      PROVE  ScrcpyInv'
  <2>1. ScrcpyTypeOK'
    BY <1>3 DEF ScrcpyInv, ScrcpyTypeOK, List, Look, Go, Servers
  <2>2. PendingHasRun'
    BY <1>3 DEF ScrcpyInv, ScrcpyTypeOK, PendingHasRun, List, Go, Servers
  <2>3. CASE ServerPids = {}
    <3>1. Look(r) /\ Go(r, "listing", "copying") /\ UNCHANGED <<server, unseen>>
      BY <1>3, <2>3 DEF List
    <3>2. \A s \in Servers : server'[s] # "running"
      BY <2>3, <3>1 DEF ServerPids
    <3>3. LivesAlone'
      BY <3>1, <3>2, KillerIsAlone DEF Go
    <3> QED
      BY <2>1, <2>2, <3>3 DEF ScrcpyInv
  <2>4. CASE ServerPids # {}
    <3>1. Go(r, "listing", "killing") /\ UNCHANGED <<server, during, unseen>>
      BY <1>3, <2>4 DEF List
    <3>2. LivesAlone'
      BY <3>1, NothingComes DEF ScrcpyInv, ScrcpyTypeOK, Lives, Go
    <3> QED
      BY <2>1, <2>2, <3>2 DEF ScrcpyInv
  <2> QED
    BY <2>3, <2>4
<1>4. ASSUME NEW r \in Runs, KillServer(r)
      PROVE  ScrcpyInv'
  <2>1. ScrcpyTypeOK'
    BY <1>4 DEF ScrcpyInv, ScrcpyTypeOK, KillServer, Look, Go, Servers
  <2>2. PendingHasRun'
    BY <1>4 DEF ScrcpyInv, ScrcpyTypeOK, PendingHasRun, KillServer, Go, Servers
  <2>3. \A s \in Servers : server'[s] = IF server[s] = "running" THEN "dying" ELSE server[s]
    BY <1>4 DEF KillServer
  <2>4. LivesAlone'
    BY <1>4, <2>3, KillerIsAlone DEF KillServer, Go
  <2> QED
    BY <2>1, <2>2, <2>4 DEF ScrcpyInv
<1>5. ASSUME NEW r \in Runs, RunFails(r)
      PROVE  ScrcpyInv'
  <2>1. ScrcpyTypeOK'
    BY <1>5 DEF ScrcpyInv, ScrcpyTypeOK, RunFails, Go, Servers
  <2>2. PendingHasRun'
    BY <1>5 DEF ScrcpyInv, ScrcpyTypeOK, PendingHasRun, RunFails, Go, Servers
  <2>3. LivesAlone'
    BY <1>5, NothingComes DEF ScrcpyInv, ScrcpyTypeOK, Lives, RunFails, Go
  <2> QED
    BY <2>1, <2>2, <2>3 DEF ScrcpyInv
<1>6. ASSUME NEW r \in Runs, CopyServer(r)
      PROVE  ScrcpyInv'
  <2>1. ScrcpyTypeOK'
    BY <1>6 DEF ScrcpyInv, ScrcpyTypeOK, CopyServer, Go, Servers
  <2>2. PendingHasRun'
    BY <1>6 DEF ScrcpyInv, ScrcpyTypeOK, PendingHasRun, CopyServer, Go, Servers
  <2>3. \A s \in Servers : Lives(s)' => Lives(s)
    BY <1>6 DEF ScrcpyInv, ScrcpyTypeOK, Lives, CopyServer, Go, Servers
  <2>4. LivesAlone'
    BY <1>6, <2>3, NothingComes DEF ScrcpyInv, CopyServer
  <2> QED
    BY <2>1, <2>2, <2>4 DEF ScrcpyInv
<1>7. ASSUME NEW r \in Runs, RaceEnds(r)
      PROVE  ScrcpyInv'
  <2>1. ScrcpyTypeOK'
    BY <1>7 DEF ScrcpyInv, ScrcpyTypeOK, RaceEnds, Go, Servers
  <2>2. PendingHasRun'
    BY <1>7 DEF ScrcpyInv, ScrcpyTypeOK, PendingHasRun, RaceEnds, Go, Servers
  <2>3. LivesAlone'
    BY <1>7, NothingComes DEF ScrcpyInv, ScrcpyTypeOK, Lives, RaceEnds, Go
  <2> QED
    BY <2>1, <2>2, <2>3 DEF ScrcpyInv
<1>8. ASSUME NEW r \in Runs, ForwardPort(r)
      PROVE  ScrcpyInv'
  <2>1. ScrcpyTypeOK'
    BY <1>8 DEF ScrcpyInv, ScrcpyTypeOK, PendingHasRun, ForwardPort, Go, Servers
  <2>2. PendingHasRun'
    BY <1>8 DEF ScrcpyInv, ScrcpyTypeOK, PendingHasRun, ForwardPort, Go, Servers
  <2>3. LivesAlone'
    BY <1>8, NothingComes DEF ScrcpyInv, ScrcpyTypeOK, Lives, ForwardPort, Go
  <2> QED
    BY <2>1, <2>2, <2>3 DEF ScrcpyInv
<1>9. ASSUME NEW s \in Servers, ServerAppears(s) \/ ServerEnds(s)
      PROVE  ScrcpyInv'
  <2>1. ScrcpyTypeOK'
    BY <1>9 DEF ScrcpyInv, ScrcpyTypeOK, ServerAppears, ServerEnds, Servers
  <2>2. PendingHasRun'
    BY <1>9 DEF ScrcpyInv, ScrcpyTypeOK, PendingHasRun, ServerAppears, ServerEnds, Servers
  <2>3. LivesAlone'
    BY <1>9, NothingComes DEF ScrcpyInv, ScrcpyTypeOK, Lives, ServerAppears, ServerEnds
  <2> QED
    BY <2>1, <2>2, <2>3 DEF ScrcpyInv
<1> QED
  BY <1>1, <1>2, <1>3, <1>4, <1>5, <1>6, <1>7, <1>8, <1>9 DEF ScrcpyNext

\* Where a run of the plugin and its process on the device can be
\* (scrcpy-server.ts:76-111).
THEOREM ScrcpyTypeCorrect == ScrcpySpec => []ScrcpyTypeOK
<1>1. ScrcpyInv => ScrcpyTypeOK
  BY DEF ScrcpyInv
<1> QED
  BY <1>1, ScrcpyInitInv, ScrcpyStepInv, PTL DEF ScrcpySpec

\* However many runs overlap on a device, one server streams from it, but for
\* the two exceptions of OneServer (scrcpy-server.ts:48-102).
THEOREM AlwaysOneServer == ScrcpySpec => []OneServer
<1>1. ScrcpyInv => OneServer
  <2> SUFFICES ASSUME ScrcpyInv, NEW q \in Servers, NEW r \in Servers,
                      server[q] = "running", server[r] = "running", q # r
               PROVE  {<<q, r>>, <<r, q>>} \cap during # {} \/ {q, r} \cap unseen # {}
    BY DEF OneServer
  <2>1. Excused(q, r)
    BY DEF ScrcpyInv, LivesAlone, Lives
  <2> QED
    BY <2>1 DEF Excused
<1> QED
  BY <1>1, ScrcpyInitInv, ScrcpyStepInv, PTL DEF ScrcpySpec

-----------------------------------------------------------------------------
(* The installation of apps: one at most runs on a device.                 *)

InstallInv ==
    /\ installation \in [Requests -> {"none", "reading", "installing", "unstarted", "completed", "lost"}]
    /\ isInstallationInProgress \in BOOLEAN
    /\ OneInstallation

\* Nothing is installed when the controller is made (apk-installer.ts:13-20).
LEMMA InstallInitInv == InstallInit => InstallInv
  BY DEF InstallInit, InstallInv, OneInstallation, Holders

\* The flag is looked at and set without an await in between, and only the end
\* of the process takes it back (apk-installer.ts:29-36, 54-55).
LEMMA InstallStepInv == InstallInv /\ [InstallNext]_installVars => InstallInv'
<1> SUFFICES ASSUME InstallInv, [InstallNext]_installVars
             PROVE  InstallInv'
  OBVIOUS
<1>1. CASE UNCHANGED installVars
  BY <1>1 DEF InstallInv, OneInstallation, Holders, installVars
<1>2. CASE ControlChanges
  BY <1>2 DEF InstallInv, OneInstallation, Holders, ControlChanges
<1>3. ASSUME NEW r \in Requests, InstallApp(r) \/ ReadFails(r)
      PROVE  InstallInv'
  <2>1. Holders' = Holders
    BY <1>3 DEF InstallInv, InstallApp, ReadFails, Moves, Holders
  <2> QED
    BY <1>3, <2>1 DEF InstallInv, OneInstallation, InstallApp, ReadFails, Moves
<1>4. ASSUME NEW r \in Requests, Install(r)
      PROVE  InstallInv'
  <2>1. CASE isInstallationInProgress
    <3>1. Holders' = Holders
      BY <1>4, <2>1 DEF InstallInv, Install, Moves, Holders
    <3> QED
      BY <1>4, <2>1, <3>1 DEF InstallInv, OneInstallation, Install, Moves
  <2>2. CASE ~isInstallationInProgress
    <3>1. Holders = {}
      BY <2>2 DEF InstallInv, OneInstallation
    <3>2. Holders' = {r}
      BY <1>4, <2>2, <3>1 DEF InstallInv, Install, Moves, Holders
    <3> QED
      BY <1>4, <2>2, <3>2 DEF InstallInv, OneInstallation, Install, Moves
  <2> QED
    BY <2>1, <2>2
<1>5. ASSUME NEW r \in Requests, Exit(r)
      PROVE  InstallInv'
  <2>1. Holders = {r}
    BY <1>5 DEF InstallInv, OneInstallation, Exit, Moves, Holders
  <2>2. Holders' = {}
    BY <1>5, <2>1 DEF InstallInv, Exit, Moves, Holders
  <2> QED
    BY <1>5, <2>2 DEF InstallInv, OneInstallation, Exit, Moves
<1> QED
  BY <1>1, <1>2, <1>3, <1>4, <1>5 DEF InstallNext

\* One adb process at most installs, however many requests there are, and the
\* flag is set just as long as there is one (apk-installer.ts:22-68).
THEOREM AlwaysOneInstallation == InstallSpec => []OneInstallation
<1>1. InstallInv => OneInstallation
  BY DEF InstallInv
<1> QED
  BY <1>1, InstallInitInv, InstallStepInv, PTL DEF InstallSpec
=============================================================================
