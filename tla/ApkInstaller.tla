---------------------------- MODULE ApkInstaller ----------------------------
(***************************************************************************)
(* Installation of apps on one Android device: the hub's message finds the *)
(* controller without taking a lock, the apk is written and read, and one  *)
(* adb process installs it.  The hub is told when it starts and when it    *)
(* has ended.  Two requests may read their apks at the same time.          *)
(***************************************************************************)
EXTENDS Naturals

CONSTANT Requests

VARIABLES
    controlled,     \* whether the device has a controller and control is started
    installation,   \* how far a request is
    isInstallationInProgress

installVars == <<controlled, installation, isInstallationInProgress>>

InstallInit ==
    /\ controlled = FALSE
    /\ installation = [r \in Requests |-> "none"]
    /\ isInstallationInProgress = FALSE

Moves(r, from, to) ==
    /\ installation[r] = from
    /\ installation' = [installation EXCEPT ![r] = to]

\* Control starts and ends, whatever is installed.
ControlChanges ==
    /\ controlled' = ~controlled
    /\ UNCHANGED <<installation, isInstallationInProgress>>

\* A request without control ends at once.
InstallApp(r) ==
    /\ controlled
    /\ Moves(r, "none", "reading")
    /\ UNCHANGED <<controlled, isInstallationInProgress>>

\* An apk that cannot be read: nobody hears of it.
ReadFails(r) ==
    /\ Moves(r, "reading", "lost")
    /\ UNCHANGED <<controlled, isInstallationInProgress>>

\* Faulty variant: the flag is looked at before the apk is read.
InstallUnchecked(r) ==
    /\ Moves(r, "reading", "installing")
    /\ isInstallationInProgress' = TRUE
    /\ UNCHANGED controlled

\* The apk is read.  During another installation the request ends without a
\* word; otherwise the hub is told, the flag is set and the process starts.  One
\* that cannot be started has no exit event, and nobody looks at its error.
Install(r) ==
    /\ \E started \in {"installing", "unstarted"} :
        Moves(r, "reading", IF isInstallationInProgress THEN "lost" ELSE started)
    /\ isInstallationInProgress' = TRUE
    /\ UNCHANGED controlled

\* The process ends, the app installed or not: the hub is told of success.
Exit(r) ==
    /\ Moves(r, "installing", "completed")
    /\ isInstallationInProgress' = FALSE
    /\ UNCHANGED controlled

InstallNext ==
    \/ ControlChanges
    \/ \E r \in Requests : InstallApp(r) \/ ReadFails(r) \/ Install(r) \/ Exit(r)

InstallSpec == InstallInit /\ [][InstallNext]_installVars

-----------------------------------------------------------------------------
(* Properties.                                                             *)

Holders == {r \in Requests : installation[r] \in {"installing", "unstarted"}}

\* One adb process at most installs on the device, however many requests read
\* their apks when it started.  The flag keeps requests out just as long as there
\* is one, or for good once a process could not be started
\* (apk-installer.ts:22-68).
OneInstallation ==
    /\ \A q, r \in Holders : q = r
    /\ isInstallationInProgress <=> Holders # {}
=============================================================================
