--------------------------- MODULE RemoteControl ---------------------------
(***************************************************************************)
(* Remote control of one Android device in the plugin: the handlers of the *)
(* hub's stream messages (socket/controllers/stream-controller), the con-  *)
(* troller of the device (android-remote-controller) with its web socket   *)
(* to the scrcpy server, the logcat and shell processes, and the entry of  *)
(* the controller in RemoteDeviceControlManager.                           *)
(*                                                                         *)
(* One lock serves all handlers, but the end of the device and the events  *)
(* of the web sockets come without it.  Awaits of what is resolved at once *)
(* take no turn of the event loop; waiting for a lock, the controller's    *)
(* own as well, may take any number.  The hub may send every message at    *)
(* every time and the lock is granted in any order, so the messages that   *)
(* wait are no state: a handler may run whenever the lock is free.         *)
(***************************************************************************)
EXTENDS Naturals

CONSTANT MaxSockets      \* bound: web sockets opened to the scrcpy server

ASSUME RemoteAssumption == MaxSockets \in Nat

VARIABLES
    registered,      \* the controller in the manager's map: "no", "yes" or "gone"
    streamAvailable, \* what initialize() found
    ws,              \* the web socket in use, 0 for undefined
    sstate,          \* readyState of each web socket, "none" before it is made
    streamStarted, controlStarted, logsStarted, shellStarted,
    shell,           \* is there a shell process
    listeners,       \* which of its listeners the hub's handler has added
    stage,           \* how far a STREAM_START is that has the lock
    control,         \* whether it asks for control
    replaced,        \* history: sockets that were replaced while they connected
    interrupted,     \* history: the device went while a start had the lock
    ended            \* the plugin, by an exception that nobody catches

Sockets == 1 .. MaxSockets

deviceVars == <<registered, streamAvailable, interrupted>>
streamVars == <<ws, sstate, streamStarted, replaced>>
toolVars == <<logsStarted, shellStarted, shell>>
lockVars == <<stage, control>>
vars == <<deviceVars, streamVars, controlStarted, toolVars, listeners, lockVars, ended>>

TypeOK ==
    /\ registered \in {"no", "yes", "gone"}
    /\ ws \in {0} \cup Sockets
    /\ sstate \in [Sockets -> {"none", "connecting", "open", "aborted", "closing", "closed"}]
    /\ streamAvailable \in BOOLEAN /\ streamStarted \in BOOLEAN /\ controlStarted \in BOOLEAN
    /\ logsStarted \in BOOLEAN /\ shellStarted \in BOOLEAN /\ shell \in BOOLEAN
    /\ control \in BOOLEAN /\ interrupted \in BOOLEAN /\ ended \in BOOLEAN
    /\ listeners \subseteq {"stream", "logs", "shell"}
    /\ stage \in {"free", "opening", "opened", "reopening", "reopened"}
    /\ replaced \subseteq Sockets
    /\ ws # 0 => sstate[ws] # "none"

Init ==
    /\ registered = "no" /\ streamAvailable = FALSE
    /\ ws = 0 /\ sstate = [s \in Sockets |-> "none"]
    /\ streamStarted = FALSE /\ controlStarted = FALSE
    /\ logsStarted = FALSE /\ shellStarted = FALSE
    /\ shell = FALSE
    /\ listeners = {}
    /\ stage = "free" /\ control = FALSE
    /\ replaced = {} /\ interrupted = FALSE
    /\ ended = FALSE

-----------------------------------------------------------------------------
(* The web sockets.                                                        *)

Live(s) == sstate[s] \in {"connecting", "open"}

\* What close() does: an open socket goes through the closing handshake, one that
\* still connects is given up; both have their close event later.
Closed(s) == [sstate EXCEPT ![s] = IF @ = "connecting" THEN "aborted" ELSE "closing"]

\* The close event of a connection that was given up comes at the next tick, be-
\* fore every other event.  Handlers that wait for the lock may come before it:
\* the lock is handed on without a turn of the event loop.
NoneAborted == \A s \in Sockets : sstate[s] # "aborted"

\* Faulty variant: the socket is dropped, not closed.
StopStreamDrops ==
    /\ ws' = 0
    /\ streamStarted' = FALSE
    /\ UNCHANGED sstate

\* stopStream of the controller.
StopStream ==
    /\ IF ws # 0 /\ sstate[ws] # "closed"
       THEN ws' = 0 /\ sstate' = Closed(ws)
       ELSE UNCHANGED <<ws, sstate>>
    /\ streamStarted' = FALSE

\* onScrcpyConnectionClosed is bound to the controller, not to the socket; the
\* hub's handler announces STREAM_CLOSED and takes its listener back, if it
\* finds the controller.
OnScrcpyConnectionClosed ==
    /\ streamStarted' = FALSE
    /\ listeners' = IF registered = "yes" THEN listeners \ {"stream"} ELSE listeners

\* The listener sends on the socket in use, which need not be the one that opens;
\* one that still connects throws.
SocketOpens(s) ==
    /\ NoneAborted
    /\ sstate[s] = "connecting"
    /\ sstate' = [sstate EXCEPT ![s] = "open"]
    /\ ended' = (ws # 0 /\ ws # s /\ sstate[ws] = "connecting")
    /\ UNCHANGED <<deviceVars, ws, streamStarted, replaced, controlStarted, toolVars,
                   listeners, lockVars>>

\* The error of a connection; the close event follows.
SocketFails(s) ==
    /\ NoneAborted
    /\ sstate[s] = "open"
    /\ sstate' = [sstate EXCEPT ![s] = "closing"]
    /\ OnScrcpyConnectionClosed
    /\ UNCHANGED <<deviceVars, ws, replaced, controlStarted, toolVars, lockVars>>

\* Faulty variant: the flag is not reset.
ClosesSilently(s) ==
    /\ sstate[s] \in {"connecting", "open", "aborted", "closing"}
    /\ NoneAborted \/ sstate[s] = "aborted"
    /\ sstate' = [sstate EXCEPT ![s] = "closed"]
    /\ UNCHANGED <<deviceVars, ws, streamStarted, replaced, controlStarted, toolVars,
                   listeners, lockVars>>

\* The close event: no connection, end of the server, end of the handshake.
SocketCloses(s) ==
    /\ sstate[s] \in {"connecting", "open", "aborted", "closing"}
    /\ NoneAborted \/ sstate[s] = "aborted"
    /\ sstate' = [sstate EXCEPT ![s] = "closed"]
    /\ OnScrcpyConnectionClosed
    /\ UNCHANGED <<deviceVars, ws, replaced, controlStarted, toolVars, lockVars>>

-----------------------------------------------------------------------------
(* Logcat, shell, and the end of control.                                  *)

\* The logcat process is there as long as the flag is set.
StopLogs == logsStarted' = FALSE

\* stopShell calls start(), which ends the old process and makes a new one, if
\* it can.
StopShell ==
    /\ shellStarted' = FALSE
    /\ IF shellStarted THEN shell' \in BOOLEAN ELSE UNCHANGED shell

\* Faulty variant: the flag is not reset.
StopAllButControl ==
    /\ StopStream
    /\ StopLogs
    /\ StopShell
    /\ UNCHANGED controlStarted

\* stopControl: stream, logs and shell end with it.
StopControl ==
    /\ StopStream
    /\ StopLogs
    /\ StopShell
    /\ controlStarted' = FALSE

-----------------------------------------------------------------------------
(* The device.                                                             *)

OnNewDeviceConnected(available) ==
    /\ NoneAborted
    /\ registered = "no"
    /\ registered' = "yes"
    /\ streamAvailable' = available
    /\ UNCHANGED <<interrupted, streamVars, controlStarted, toolVars, listeners, lockVars>>

\* stopAll; a start that has the lock keeps the controller and goes on.
OnDeviceDisconnected ==
    /\ NoneAborted
    /\ registered = "yes"
    /\ registered' = "gone"
    /\ StopControl
    /\ interrupted' = (stage # "free")
    /\ UNCHANGED <<streamAvailable, replaced, listeners, lockVars>>

-----------------------------------------------------------------------------
(* The handlers.                                                           *)

\* Faulty variant: the controller is looked up once and kept.
HandleCached ==
    /\ stage = "free"
    /\ registered # "no"

\* The handler has the lock and finds the controller.
Handle ==
    /\ stage = "free"
    /\ registered = "yes"

\* The listeners of one who controls.
Listen == listeners' = listeners \cup {"logs", "shell"}

\* STREAM_START, with control or without: the stream is available and is not
\* started.
BeginStart(withControl) ==
    /\ Handle
    /\ streamAvailable
    /\ ~streamStarted
    /\ listeners' = listeners \cup {"stream"}
    /\ control' = withControl
    /\ stage' = "opening"
    /\ UNCHANGED <<deviceVars, streamVars, controlStarted, toolVars>>


\* The stream runs; control is left to start.
JoinStream ==
    /\ Handle
    /\ streamAvailable
    /\ streamStarted
    /\ ~controlStarted
    /\ controlStarted' = TRUE
    /\ Listen
    /\ UNCHANGED <<deviceVars, streamVars, toolVars, lockVars>>

\* Faulty variant: the new socket is not noted.
OpenUnnoted ==
    /\ stage \in {"opening", "reopening"}
    /\ \E s \in Sockets : sstate[s] = "none" /\ ws' = s
    /\ streamStarted' = TRUE
    /\ stage' = IF stage = "opening" THEN "opened" ELSE "reopened"
    /\ UNCHANGED <<deviceVars, sstate, replaced, controlStarted, toolVars, listeners, control>>

\* startStream of the controller under its own lock: a socket that is not open
\* is replaced.
OpenStream ==
    /\ stage \in {"opening", "reopening"}
    /\ IF ws # 0 /\ sstate[ws] = "open"
       THEN UNCHANGED <<ws, sstate, replaced>>
       ELSE \E s \in Sockets :
                /\ sstate[s] = "none"
                /\ \A t \in Sockets : t < s => sstate[t] # "none"
                /\ ws' = s
                /\ sstate' = [sstate EXCEPT ![s] = "connecting"]
                /\ replaced' = IF ws # 0 /\ sstate[ws] = "connecting"
                               THEN replaced \cup {ws} ELSE replaced
    /\ streamStarted' = TRUE
    /\ stage' = IF stage = "opening" THEN "opened" ELSE "reopened"
    /\ UNCHANGED <<deviceVars, controlStarted, toolVars, listeners, control>>

\* Control follows; if the stream has been closed meanwhile, startControl
\* starts it again.
ContinueStart ==
    /\ stage = "opened"
    /\ IF control /\ ~controlStarted
       THEN /\ Listen
            /\ controlStarted' = streamStarted
            /\ stage' = IF streamStarted THEN "free" ELSE "reopening"
       ELSE /\ stage' = "free"
            /\ UNCHANGED <<listeners, controlStarted>>
    /\ UNCHANGED <<deviceVars, streamVars, toolVars, control>>

FinishControl ==
    /\ stage = "reopened"
    /\ controlStarted' = TRUE
    /\ stage' = "free"
    /\ UNCHANGED <<deviceVars, streamVars, toolVars, listeners, control>>

\* STREAM_STOP: the stream if it is started, control if it is.
HandleStop ==
    /\ Handle
    /\ listeners' = listeners \ ((IF streamStarted THEN {"stream"} ELSE {})
                                 \cup (IF controlStarted THEN {"logs", "shell"} ELSE {}))
    /\ IF controlStarted
       THEN StopControl
       ELSE /\ IF streamStarted THEN StopStream ELSE UNCHANGED <<ws, sstate, streamStarted>>
            /\ UNCHANGED <<controlStarted, toolVars>>
    /\ UNCHANGED <<deviceVars, replaced, lockVars>>

\* Messages for logs and shell.  A shell that cannot be spawned counts as
\* started.
HandleTool ==
    /\ Handle
    /\ \/ /\ logsStarted' = TRUE
          /\ UNCHANGED <<shell, shellStarted>>
       \/ /\ StopLogs
          /\ UNCHANGED <<shell, shellStarted>>
       \/ /\ ~shellStarted
          /\ shellStarted' = TRUE
          /\ shell' \in BOOLEAN
          /\ UNCHANGED logsStarted
       \/ /\ StopShell
          /\ UNCHANGED logsStarted
    /\ UNCHANGED <<deviceVars, streamVars, controlStarted, listeners, lockVars>>

-----------------------------------------------------------------------------

DeviceStep ==
    /\ \/ \E available \in BOOLEAN : OnNewDeviceConnected(available)
       \/ OnDeviceDisconnected
    /\ UNCHANGED ended

SocketStep ==
    \E s \in Sockets :
        \/ SocketOpens(s)
        \/ (SocketFails(s) \/ SocketCloses(s)) /\ UNCHANGED ended

HandlerStep ==
    /\ \/ \E withControl \in BOOLEAN : BeginStart(withControl)
       \/ JoinStream
       \/ OpenStream
       \/ ContinueStart
       \/ FinishControl
       \/ HandleStop
       \/ HandleTool
    /\ UNCHANGED ended

Next ==
    /\ ~ended
    /\ DeviceStep \/ SocketStep \/ HandlerStep

Spec == Init /\ [][Next]_vars

-----------------------------------------------------------------------------
(* Properties.                                                             *)

\* A stream that counts as started has its web socket: whatever starts, stops,
\* closes late or fails, a later STREAM_START finds the flag true only if frames
\* can come (android-remote-controller.ts:151-182, 284-287).
StartedHasSocket == streamStarted => ws # 0 /\ Live(ws)

\* No connection to the scrcpy server is left behind: each one that lives is
\* the one in use, which stopStream will close, or was replaced while it still
\* connected (android-remote-controller.ts:156-157, 177-180).
SocketsAreOwned == \A s \in Sockets : Live(s) => s = ws \/ s \in replaced

\* Who controls a device gets its logs and the output of its shell: the two
\* listeners are there as long as control is, through stops, starts and the
\* restart of a stream that closed while control was starting
\* (stream-controller.ts:115-119, 137-141).
ControlIsHeard == controlStarted => {"logs", "shell"} \subseteq listeners

\* After the device has gone nothing of its controller runs, unless a start had
\* the lock just then (remote-control/index.ts:37-43).
GoneIsQuiet ==
    registered = "gone" /\ ~interrupted =>
        /\ ~streamStarted /\ ~controlStarted /\ ~logsStarted
        /\ \A s \in Sockets : Live(s) => s \in replaced

\* "Stream closed for device" (stream-controller.ts:250): when the hub is told
\* so because a connection that was open has closed, there is none left.
StreamClosedIsTrue ==
    [][(\E s \in Sockets :
            sstate[s] \in {"open", "closing"} /\ (SocketFails(s) \/ SocketCloses(s)))
            /\ listeners' # listeners
        => \A s \in Sockets : ~Live(s)']_vars
=============================================================================
