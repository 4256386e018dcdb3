---------------------------- MODULE RemoteProofs ----------------------------
(***************************************************************************)
(* Proofs about the remote control of an Android device, for any number of *)
(* web sockets.                                                            *)
(*                                                                         *)
(* Two facts make the properties inductive.  Between the listeners of who  *)
(* controls and the flag controlStarted lies a restart of the stream, and  *)
(* nothing takes the listeners away meanwhile, because who stops control   *)
(* has the lock (ListensBeforeControl).  And no handler is under way for a *)
(* device that went while the lock was free (QuietLock).                   *)
(***************************************************************************)
EXTENDS RemoteControl, TLAPS

ListensBeforeControl ==
    stage \in {"reopening", "reopened"} => {"logs", "shell"} \subseteq listeners

QuietLock == registered = "gone" /\ ~interrupted => stage = "free"

IInv ==
    /\ TypeOK
    /\ StartedHasSocket /\ SocketsAreOwned
    /\ ControlIsHeard /\ ListensBeforeControl
    /\ GoneIsQuiet /\ QuietLock

LEMMA InitInv == Init => IInv
  BY RemoteAssumption
     DEF Init, IInv, TypeOK, StartedHasSocket, SocketsAreOwned, ControlIsHeard,
         ListensBeforeControl, GoneIsQuiet, QuietLock, Live, Sockets

\* What stopStream leaves: no socket in use, and no new one that lives.
LEMMA AfterStop ==
    ASSUME TypeOK, StopStream
    PROVE  /\ ws' \in {0, ws} /\ (ws' # 0 => sstate'[ws'] = "closed")
           /\ sstate' \in [Sockets -> {"none", "connecting", "open", "aborted", "closing", "closed"}]
           /\ \A s \in Sockets : Live(s)' => Live(s) /\ s # ws
           /\ ~streamStarted'
<1>1. CASE ws # 0 /\ sstate[ws] # "closed"
  BY <1>1 DEF StopStream, Closed, TypeOK, Live
<1>2. CASE ~(ws # 0 /\ sstate[ws] # "closed")
  <2>1. ws' = ws /\ sstate' = sstate /\ streamStarted' = FALSE
    BY <1>2 DEF StopStream
  <2> QED
    BY <1>2, <2>1 DEF TypeOK, Live, Sockets
<1> QED
  BY <1>1, <1>2

-----------------------------------------------------------------------------

LEMMA DeviceStepInv == ASSUME IInv, DeviceStep PROVE IInv'
<1>0. ended' = ended
  BY DEF DeviceStep
<1> USE DEF IInv, lockVars
<1>1. ASSUME NEW available \in BOOLEAN, OnNewDeviceConnected(available) PROVE IInv'
  BY <1>0, <1>1 DEF OnNewDeviceConnected, streamVars, toolVars, TypeOK, StartedHasSocket,
         SocketsAreOwned, ControlIsHeard, ListensBeforeControl, GoneIsQuiet, QuietLock, Live
<1>2. ASSUME OnDeviceDisconnected PROVE IInv'
  <2>1. /\ StopStream
        /\ logsStarted' = FALSE /\ shellStarted' = FALSE /\ shell' \in BOOLEAN
        /\ controlStarted' = FALSE
    BY <1>2 DEF OnDeviceDisconnected, StopControl, StopLogs, StopShell, TypeOK
  <2>2. /\ registered' = "gone" /\ interrupted' = (stage # "free")
        /\ UNCHANGED <<streamAvailable, replaced, listeners, stage, control>>
    BY <1>2 DEF OnDeviceDisconnected
  <2>0. /\ ws' \in {0, ws} /\ (ws' # 0 => sstate'[ws'] = "closed")
        /\ sstate' \in [Sockets -> {"none", "connecting", "open", "aborted", "closing", "closed"}]
        /\ streamStarted' = FALSE
    BY <2>1, AfterStop DEF StopStream
  <2>3. TypeOK'
    BY <1>0, <2>0, <2>1, <2>2 DEF TypeOK
  <2>4. StartedHasSocket' /\ ControlIsHeard' /\ ListensBeforeControl' /\ QuietLock'
    BY <2>1, <2>2, AfterStop DEF StartedHasSocket, ControlIsHeard, ListensBeforeControl, QuietLock
  <2>5. SocketsAreOwned' /\ GoneIsQuiet'
    BY <2>1, <2>2, AfterStop DEF SocketsAreOwned, GoneIsQuiet
  <2> QED
    BY <2>3, <2>4, <2>5
<1> QED
  BY <1>1, <1>2 DEF DeviceStep

LEMMA SocketStepInv == ASSUME IInv, SocketStep PROVE IInv'
<1> USE DEF IInv, deviceVars, toolVars, lockVars
<1>1. PICK s \in Sockets :
        SocketOpens(s) \/ ((SocketFails(s) \/ SocketCloses(s)) /\ UNCHANGED ended)
  BY DEF SocketStep
<1>2. /\ UNCHANGED <<registered, streamAvailable, interrupted, ws, replaced, controlStarted,
                     logsStarted, shellStarted, shell, stage, control>>
      /\ ended' \in BOOLEAN
      /\ \E state \in {"open", "closing", "closed"} : sstate' = [sstate EXCEPT ![s] = state]
      /\ streamStarted' = streamStarted \/ streamStarted' = FALSE
      /\ listeners' \in {listeners, listeners \ {"stream"}}
  BY <1>1 DEF SocketOpens, SocketFails, SocketCloses, OnScrcpyConnectionClosed, TypeOK
<1>3. \A t \in Sockets : Live(t)' => Live(t)
  BY <1>1 DEF SocketOpens, SocketFails, SocketCloses, TypeOK, Live
<1>4. TypeOK'
  <2>1. PICK state \in {"open", "closing", "closed"} : sstate' = [sstate EXCEPT ![s] = state]
    BY <1>2
  <2>2. /\ sstate' \in [Sockets -> {"none", "connecting", "open", "aborted", "closing", "closed"}]
        /\ \A t \in Sockets : sstate[t] # "none" => sstate'[t] # "none"
    BY <2>1 DEF TypeOK
  <2>3. ws' # 0 => sstate'[ws'] # "none"
    BY <1>2, <2>2 DEF TypeOK
  <2>4. streamStarted' \in BOOLEAN /\ listeners' \subseteq {"stream", "logs", "shell"}
    BY <1>2 DEF TypeOK
  <2> QED
    BY <1>2, <2>2, <2>3, <2>4 DEF TypeOK
<1>5. StartedHasSocket'
  BY <1>1, <1>2 DEF StartedHasSocket, TypeOK, Live, SocketOpens, SocketFails, SocketCloses,
         OnScrcpyConnectionClosed
<1>6. SocketsAreOwned' /\ GoneIsQuiet'
  BY <1>2, <1>3 DEF SocketsAreOwned, GoneIsQuiet
<1>7. ControlIsHeard' /\ ListensBeforeControl' /\ QuietLock'
  BY <1>2 DEF ControlIsHeard, ListensBeforeControl, QuietLock
<1> QED
  BY <1>4, <1>5, <1>6, <1>7

LEMMA OpenStreamInv == ASSUME IInv, OpenStream, UNCHANGED ended PROVE IInv'
<1> USE DEF IInv, deviceVars, toolVars
<1>1. /\ stage \in {"opening", "reopening"} /\ stage' \in {"opened", "reopened"}
      /\ stage' = "reopened" => stage = "reopening"
      /\ streamStarted' = TRUE
      /\ UNCHANGED <<registered, streamAvailable, interrupted, controlStarted, logsStarted,
                     shellStarted, shell, listeners, control>>
  BY DEF OpenStream
<1>2. interrupted \/ registered # "gone"
  BY <1>1 DEF QuietLock
<1>3. CASE ws # 0 /\ sstate[ws] = "open"
  BY <1>1, <1>2, <1>3 DEF OpenStream, TypeOK, StartedHasSocket, SocketsAreOwned, ControlIsHeard,
         ListensBeforeControl, GoneIsQuiet, QuietLock, Live
<1>4. CASE ~(ws # 0 /\ sstate[ws] = "open")
  <2>1. PICK s \in Sockets :
          /\ sstate[s] = "none" /\ ws' = s /\ sstate' = [sstate EXCEPT ![s] = "connecting"]
          /\ replaced' = IF ws # 0 /\ sstate[ws] = "connecting"
                         THEN replaced \cup {ws} ELSE replaced
    BY <1>4 DEF OpenStream
  <2>2. TypeOK'
    BY <1>1, <2>1 DEF TypeOK, Sockets
  <2>3. StartedHasSocket'
    BY <2>1 DEF StartedHasSocket, TypeOK, Live, Sockets
  <2>4. SocketsAreOwned'
    <3>1. \A t \in Sockets \ {s} : sstate'[t] = sstate[t]
      BY <2>1 DEF TypeOK
    <3>2. \A t \in Sockets \ {s} : Live(t) => t \in replaced'
      BY <1>4, <2>1 DEF SocketsAreOwned, Live, Sockets
    <3> QED
      BY <2>1, <3>1, <3>2 DEF SocketsAreOwned, Live
  <2> QED
    BY <1>1, <1>2, <2>2, <2>3, <2>4
       DEF ControlIsHeard, ListensBeforeControl, GoneIsQuiet, QuietLock
<1> QED
  BY <1>3, <1>4

LEMMA HandleStopInv == ASSUME IInv, HandleStop, UNCHANGED ended PROVE IInv'
<1> USE DEF IInv, deviceVars, toolVars, lockVars
<1>1. /\ stage = "free" /\ registered = "yes"
      /\ UNCHANGED <<registered, streamAvailable, interrupted, replaced, stage, control>>
  BY DEF HandleStop, Handle
<1>2. /\ controlStarted' = FALSE
      /\ logsStarted' \in BOOLEAN /\ shellStarted' \in BOOLEAN /\ shell' \in BOOLEAN
      /\ listeners' \subseteq listeners
      /\ StopStream \/ UNCHANGED <<ws, sstate, streamStarted>>
  BY DEF HandleStop, StopControl, StopLogs, StopShell, TypeOK
<1>3. ASSUME StopStream PROVE IInv'
  <2>1. /\ ws' \in {0, ws} /\ (ws' # 0 => sstate'[ws'] = "closed")
        /\ sstate' \in [Sockets -> {"none", "connecting", "open", "aborted", "closing", "closed"}]
        /\ \A s \in Sockets : Live(s)' => Live(s) /\ s # ws
        /\ streamStarted' = FALSE
    BY <1>3, AfterStop DEF StopStream
  <2>2. TypeOK'
    BY <1>1, <1>2, <2>1 DEF TypeOK
  <2>3. SocketsAreOwned'
    BY <1>1, <2>1 DEF SocketsAreOwned
  <2> QED
    BY <1>1, <1>2, <2>1, <2>2, <2>3
       DEF StartedHasSocket, ControlIsHeard, ListensBeforeControl, GoneIsQuiet, QuietLock
<1>4. ASSUME UNCHANGED <<ws, sstate, streamStarted>> PROVE IInv'
  <2>1. TypeOK'
    BY <1>1, <1>2, <1>4 DEF TypeOK
  <2> QED
    BY <1>1, <1>2, <1>4, <2>1 DEF StartedHasSocket, SocketsAreOwned, ControlIsHeard,
       ListensBeforeControl, GoneIsQuiet, QuietLock, Live
<1> QED
  BY <1>2, <1>3, <1>4

LEMMA HandlerStepInv == ASSUME IInv, HandlerStep PROVE IInv'
<1> USE DEF IInv, deviceVars, streamVars, toolVars, lockVars, TypeOK, StartedHasSocket,
        SocketsAreOwned, ControlIsHeard, ListensBeforeControl, GoneIsQuiet, QuietLock, Live
<1>0. ended' = ended
  BY DEF HandlerStep
<1>1. ASSUME NEW withControl \in BOOLEAN, BeginStart(withControl) PROVE IInv'
  BY <1>0, <1>1 DEF BeginStart, Handle
<1>2. ASSUME JoinStream PROVE IInv'
  BY <1>0, <1>2 DEF JoinStream, Handle, Listen
<1>3. ASSUME ContinueStart PROVE IInv'
  <2>1. TypeOK'
    BY <1>0, <1>3 DEF ContinueStart, Listen
  <2>2. StartedHasSocket' /\ SocketsAreOwned' /\ ControlIsHeard' /\ ListensBeforeControl'
    BY <1>3 DEF ContinueStart, Listen
  <2>3. GoneIsQuiet' /\ QuietLock'
    BY <1>3 DEF ContinueStart, Listen
  <2> QED
    BY <2>1, <2>2, <2>3
<1>4. ASSUME FinishControl PROVE IInv'
  BY <1>0, <1>4 DEF FinishControl
<1>5. ASSUME HandleTool PROVE IInv'
  <2>1. TypeOK'
    BY <1>0, <1>5 DEF HandleTool, Handle, StopLogs, StopShell
  <2>2. /\ StartedHasSocket' /\ SocketsAreOwned' /\ ControlIsHeard' /\ ListensBeforeControl'
        /\ GoneIsQuiet' /\ QuietLock'
    BY <1>5 DEF HandleTool, Handle, StopLogs, StopShell
  <2> QED
    BY <2>1, <2>2
<1> QED
  BY <1>0, <1>1, <1>2, <1>3, <1>4, <1>5, OpenStreamInv, HandleStopInv DEF HandlerStep

LEMMA StepInv == IInv /\ [Next]_vars => IInv'
<1>1. ASSUME IInv, UNCHANGED vars PROVE IInv'
  BY <1>1 DEF vars, deviceVars, streamVars, toolVars, lockVars, IInv, TypeOK, StartedHasSocket,
         SocketsAreOwned, ControlIsHeard, ListensBeforeControl, GoneIsQuiet, QuietLock, Live
<1> QED
  BY <1>1, DeviceStepInv, SocketStepInv, HandlerStepInv DEF Next

LEMMA Inductive == Spec => []IInv
  BY InitInv, StepInv, PTL DEF Spec

-----------------------------------------------------------------------------

\* The flags, the lock and the sockets keep their types, for any number of
\* sockets (android-remote-controller.ts:31-60).
THEOREM RemoteTypeCorrect == Spec => []TypeOK
<1>1. IInv => TypeOK
  BY DEF IInv
<1> QED
  BY <1>1, Inductive, PTL

\* A stream that counts as started has a web socket that connects or is open
\* (android-remote-controller.ts:151-182, 284-287).
THEOREM StreamHasSocket == Spec => []StartedHasSocket
<1>1. IInv => StartedHasSocket
  BY DEF IInv
<1> QED
  BY <1>1, Inductive, PTL

\* Every connection that lives is in use or was replaced while it connected
\* (android-remote-controller.ts:156-157, 177-180).
THEOREM Owned == Spec => []SocketsAreOwned
<1>1. IInv => SocketsAreOwned
  BY DEF IInv
<1> QED
  BY <1>1, Inductive, PTL

\* Who controls the device hears its logs and its shell
\* (stream-controller.ts:115-119, 137-141).
THEOREM Heard == Spec => []ControlIsHeard
<1>1. IInv => ControlIsHeard
  BY DEF IInv
<1> QED
  BY <1>1, Inductive, PTL

\* Nothing of a controller runs once its device has gone, unless a start had
\* the lock just then (remote-control/index.ts:37-43).
THEOREM Quiet == Spec => []GoneIsQuiet
<1>1. IInv => GoneIsQuiet
  BY DEF IInv
<1> QED
  BY <1>1, Inductive, PTL
=============================================================================
