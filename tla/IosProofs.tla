----------------------------- MODULE IosProofs -----------------------------
(***************************************************************************)
(* For any number of announcements, of stopAll()s at a time, of creations  *)
(* of sessions and of tests: the invariants of IosControl.  Each has a     *)
(* group of facts of its own.  A creation that has the proxy's lock is     *)
(* known by what it has done so far (CreationFacts), a handler by what it  *)
(* has read (TestFacts and ControlFacts), a stopAll() by the announcement  *)
(* that met it (ManagerFacts).                                             *)
(***************************************************************************)
EXTENDS IosControl, TLAPS

Ids == {None, Test} \cup Creations

Flags ==
    /\ plugged \in BOOLEAN /\ known \in BOOLEAN /\ wdaUp \in BOOLEAN /\ entry \in BOOLEAN
    /\ started \in BOOLEAN /\ sessionActive \in BOOLEAN /\ driverWda \in BOOLEAN
    /\ streamStarted \in BOOLEAN /\ controlStarted \in BOOLEAN /\ listener \in BOOLEAN
    /\ control \in BOOLEAN /\ free \in BOOLEAN

HistoryFlags ==
    /\ unawareLook \in BOOLEAN /\ unstopped \in BOOLEAN /\ hasty \in BOOLEAN
    /\ refused \in BOOLEAN /\ overlapped \in BOOLEAN /\ snatched \in BOOLEAN

Fields ==
    /\ announced \in 0 .. MaxAnnouncements /\ tests \in 0 .. MaxTests
    /\ active \in Ids /\ sid \in Ids /\ sessionId \in Ids
    /\ driver \in {None} \cup Creations
    /\ init \in [Announcements -> {"none", "lookup", "creating", "window", "done"}]
    /\ stopping \in 0 .. MaxStops
    /\ phase \in [Creations -> {"none", "queued", "starting", "driving", "reading", "done"}]
    /\ streamDecoder \in {"none", "live", "aborted"}
    /\ stage \in {"free", "has0", "act1", "has2", "act3", "has4", "act5"}
    /\ unaware \subseteq Creations /\ repeated \subseteq Announcements

HasLock(c) == phase[c] \in {"starting", "driving", "reading"}

Relations ==
    /\ streamStarted <=> streamDecoder # "none"
    /\ \A c, d \in Creations : HasLock(c) /\ HasLock(d) => c = d
    /\ active # None => plugged /\ wdaUp
    /\ wdaUp => plugged
    /\ \A n \in Announcements : n > announced => init[n] = "none"
    /\ \A n \in Announcements : init[n] \in {"none", "lookup"} => phase[n] = "none"

\* A creation starts WDA only if it does not count as started, and the driver
\* is its own from there on.  The session it has made is replaced by a test only.
CreationFacts ==
    /\ started => driver # None
    /\ \A c \in Creations :
        /\ phase[c] = "starting" => ~started
        /\ phase[c] \in {"driving", "reading"} => driver = c
        /\ phase[c] = "reading" => active \in {None, Test, c} /\ driverWda
    /\ started => driverWda \/ \E c \in Creations : HasLock(c)
    /\ started /\ active \in Creations => driver = active \/ \E c \in Creations : HasLock(c)

\* A stream is only started with a driver, without which an end of the device
\* would not stop it.
StreamFacts ==
    /\ streamDecoder = "live" => driver # None
    /\ StreamIsReachable

\* A stopAll() that goes on while the device is known was met by its announcement.
ManagerFacts ==
    /\ known => announced \in Announcements
    /\ known => hasty \/ stopping = 0
    /\ KnownHasController

\* What still goes on although a test has the session was decided upon before
\* the test began, or by a driver that had nothing to ask, or belongs to an
\* announcement that came meanwhile.
TestFacts ==
    /\ active = Test =>
        /\ \A c \in Creations :
            phase[c] \in {"queued", "starting", "driving"} => c \in unaware \cup repeated
        /\ \A n \in Announcements : init[n] = "lookup" => n \in unaware \cup repeated
        /\ free => unawareLook
        /\ \A c \in Creations : phase[c] = "reading" => snatched
    /\ KnowsItsSession

\* A session that runs with the id that counts is known to be active, unless the
\* last look at it compared with another id.
ControlFacts ==
    started /\ active \in Creations /\ active = sessionId =>
        sessionActive \/ overlapped \/ \E c \in Creations : HasLock(c)

IosInv ==
    /\ Flags /\ HistoryFlags /\ Fields /\ Relations
    /\ CreationFacts /\ StreamFacts /\ ManagerFacts /\ StartedIsUp /\ TestFacts /\ ControlFacts

\* None and Test are no creations; the creations of initialize() are (wda-proxy.ts:38).
LEMMA Identities ==
    /\ Announcements \subseteq Creations
    /\ None \notin Creations /\ Test \notin Creations /\ None # Test
  BY IosAssumption DEF Announcements, Creations, None, Test

\* The type invariant in three parts.
LEMMA TypeParts == Flags /\ HistoryFlags /\ Fields /\ Relations => TypeOK
  BY DEF TypeOK, Flags, HistoryFlags, Fields, Relations, Ids, HasLock, InLock

\* Nothing is plugged in, started or asked for (wda-proxy.ts:17-32, index.ts:16).
LEMMA IosInitInv == Init => IosInv
<1> SUFFICES ASSUME Init
             PROVE  IosInv
  OBVIOUS
<1> USE IosAssumption, Identities
<1>1. Flags /\ HistoryFlags
  BY DEF Init, Flags, HistoryFlags
<1>2. Fields
  BY DEF Init, Fields, Ids
<1>3. Relations
  BY DEF Init, Relations, HasLock
<1>4. CreationFacts
  BY DEF Init, CreationFacts
<1>5. StreamFacts /\ StartedIsUp
  BY DEF Init, StreamFacts, StreamIsReachable, StartedIsUp
<1>6. ManagerFacts
  BY DEF Init, ManagerFacts, KnownHasController
<1>7. TestFacts /\ ControlFacts
  BY DEF Init, TestFacts, KnowsItsSession, ControlFacts
<1> QED
  BY <1>1, <1>2, <1>3, <1>4, <1>5, <1>6, <1>7 DEF IosInv

\* Every flag stays one (wda-proxy.ts:17-28, ios/index.ts:28-32).
LEMMA FlagsStep ==
    ASSUME Flags, [Next]_vars
    PROVE  Flags'
<1> USE IosAssumption, Identities
      DEF vars, deviceVars, trackerVars, managerVars, proxyVars, streamVars, handlerVars,
          historyVars
<1>1. CASE UNCHANGED vars
    BY <1>1 DEF Flags
<1>2. CASE Plug
    BY <1>2 DEF Flags, Plug
<1>3. CASE Unplug
    BY <1>3 DEF Flags, Unplug, NoTestNow
<1>4. CASE DeviceConnected
    BY <1>4 DEF Flags, DeviceConnected
<1>5. CASE DeviceRemoved
    BY <1>5 DEF Flags, DeviceRemoved
<1>6. CASE DecoderAborts
    BY <1>6 DEF Flags, DecoderAborts, AbortDecoder
<1>7. CASE TestBegins
    BY <1>7 DEF Flags, TestBegins
<1>8. CASE TestEnds
    BY <1>8 DEF Flags, TestEnds, NoTestNow
<1>9. CASE QuitEnds
    BY <1>9 DEF Flags, QuitEnds, StopAll, StopStream, AbortDecoder, DriverStop, NoTestNow
<1>10. CASE QuitFails
    BY <1>10 DEF Flags, QuitFails, StopAll, StopStream, AbortDecoder, DriverStop, NoTestNow
<1>11. ASSUME NEW n \in Announcements, LookupBundleId(n)
      PROVE  Flags'
    <2>1. entry' \in BOOLEAN
    BY <1>11 DEF Flags, LookupBundleId
  <2>2. UNCHANGED <<plugged, known, wdaUp, started, sessionActive, driverWda, streamStarted,
                    controlStarted, listener, control, free>>
    BY <1>11 DEF LookupBundleId
  <2> QED
    BY <2>1, <2>2 DEF Flags
<1>12. ASSUME NEW n \in Announcements, Initialized(n)
      PROVE  Flags'
    BY <1>12 DEF Flags, Initialized
<1>13. ASSUME NEW c \in Creations, BeginCreation(c)
      PROVE  Flags'
    BY <1>13 DEF Flags, BeginCreation, NewDriver
<1>14. ASSUME NEW c \in Creations, WdaStarted(c)
      PROVE  Flags'
    BY <1>14 DEF Flags, WdaStarted, NewDriver
<1>15. ASSUME NEW c \in Creations, WdaNotStarted(c)
      PROVE  Flags'
    BY <1>15 DEF Flags, WdaNotStarted, End
<1>16. ASSUME NEW c \in Creations, ConnectionRefused(c)
      PROVE  Flags'
    BY <1>16 DEF Flags, ConnectionRefused
<1>17. ASSUME NEW c \in Creations, DriverFindsWda(c)
      PROVE  Flags'
    BY <1>17 DEF Flags, DriverFindsWda
<1>18. ASSUME NEW c \in Creations, SessionCreated(c)
      PROVE  Flags'
    BY <1>18 DEF Flags, SessionCreated, NoTestNow
<1>19. ASSUME NEW c \in Creations, SessionRead(c)
      PROVE  Flags'
    BY <1>19 DEF Flags, SessionRead, End
<1>20. ASSUME NEW c \in Creations, CreationFails(c)
      PROVE  Flags'
    BY <1>20 DEF Flags, CreationFails, End
<1>21. CASE HandleInfo
    BY <1>21 DEF Flags, HandleInfo, Handle, Ask
<1>22. ASSUME NEW b \in BOOLEAN, HandleStart(b)
      PROVE  Flags'
    BY <1>22 DEF Flags, HandleStart, Handle
<1>23. CASE HandleStop
    BY <1>23 DEF Flags, HandleStop, Handle
<1>24. CASE AnswerSupported
  <2>1. UNCHANGED <<plugged, known, wdaUp, entry, started, driverWda, streamStarted,
                    controlStarted, listener>>
    BY <1>24 DEF AnswerSupported
  <2>2. sessionActive' \in BOOLEAN
    BY <1>24 DEF Flags, AnswerSupported, IsSessionActive, LookEnds
  <2>3. control' \in BOOLEAN /\ free' \in BOOLEAN
    BY <1>24 DEF Flags, AnswerSupported, Ask, Supported, Release
  <2> QED
    BY <2>1, <2>2, <2>3 DEF Flags
<1>25. CASE AnswerHasSession
    BY <1>25 DEF Flags, AnswerHasSession, Ask, ActiveSessionId
<1>26. CASE AnswerSessionActive
    BY <1>26 DEF Flags, AnswerSessionActive, CreateNewSession, Release, IsSessionActive,
      LookEnds, ActiveSessionId
<1>27. CASE RequestFails
    BY <1>27 DEF Flags, RequestFails, Release
<1> QED
  BY <1>1, <1>2, <1>3, <1>4, <1>5, <1>6, <1>7, <1>8, <1>9, <1>10, <1>11, <1>12, <1>13, <1>14,
     <1>15, <1>16, <1>17, <1>18, <1>19, <1>20, <1>21, <1>22, <1>23, <1>24, <1>25, <1>26,
     <1>27
  DEF Next, DeviceStep, ManagerStep, CreationStep, HandlerStep

\* So does every flag of the history (wda-proxy.ts:38-144).
LEMMA HistoryFlagsStep ==
    ASSUME Flags, HistoryFlags, [Next]_vars
    PROVE  HistoryFlags'
<1> USE IosAssumption, Identities
      DEF vars, deviceVars, trackerVars, managerVars, proxyVars, streamVars, handlerVars,
          historyVars
<1>1. CASE UNCHANGED vars
    BY <1>1 DEF HistoryFlags
<1>2. CASE Plug
    BY <1>2 DEF HistoryFlags, Plug
<1>3. CASE Unplug
  <2>1. unstopped' = started /\ UNCHANGED <<unawareLook, hasty, refused, overlapped, snatched>>
    BY <1>3 DEF Unplug
  <2> QED
    BY <2>1 DEF Flags, HistoryFlags
<1>4. CASE DeviceConnected
  <2>1. UNCHANGED <<unawareLook, unstopped, overlapped, snatched>>
        /\ hasty' = (stopping > 0) /\ refused' = FALSE
    BY <1>4 DEF DeviceConnected
  <2>2. hasty' \in BOOLEAN
    BY <2>1
  <2> QED
    BY <2>1, <2>2 DEF HistoryFlags
<1>5. CASE DeviceRemoved
    BY <1>5 DEF HistoryFlags, DeviceRemoved
<1>6. CASE DecoderAborts
    BY <1>6 DEF HistoryFlags, DecoderAborts, AbortDecoder
<1>7. CASE TestBegins
    BY <1>7 DEF HistoryFlags, TestBegins
<1>8. CASE TestEnds
    BY <1>8 DEF HistoryFlags, TestEnds, NoTestNow
<1>9. CASE QuitEnds
    BY <1>9 DEF HistoryFlags, QuitEnds, StopAll, StopStream, AbortDecoder, DriverStop, NoTestNow
<1>10. CASE QuitFails
  <2>1. unstopped' = started /\ UNCHANGED <<unawareLook, hasty, refused, overlapped, snatched>>
    BY <1>10 DEF QuitFails, StopAll
  <2> QED
    BY <2>1 DEF Flags, HistoryFlags
<1>11. ASSUME NEW n \in Announcements, LookupBundleId(n)
      PROVE  HistoryFlags'
    BY <1>11 DEF HistoryFlags, LookupBundleId
<1>12. ASSUME NEW n \in Announcements, Initialized(n)
      PROVE  HistoryFlags'
    BY <1>12 DEF HistoryFlags, Initialized
<1>13. ASSUME NEW c \in Creations, BeginCreation(c)
      PROVE  HistoryFlags'
    BY <1>13 DEF HistoryFlags, BeginCreation, NewDriver
<1>14. ASSUME NEW c \in Creations, WdaStarted(c)
      PROVE  HistoryFlags'
    BY <1>14 DEF HistoryFlags, WdaStarted, NewDriver
<1>15. ASSUME NEW c \in Creations, WdaNotStarted(c)
      PROVE  HistoryFlags'
    BY <1>15 DEF HistoryFlags, WdaNotStarted, End
<1>16. ASSUME NEW c \in Creations, ConnectionRefused(c)
      PROVE  HistoryFlags'
    BY <1>16 DEF HistoryFlags, ConnectionRefused
<1>17. ASSUME NEW c \in Creations, DriverFindsWda(c)
      PROVE  HistoryFlags'
    BY <1>17 DEF HistoryFlags, DriverFindsWda
<1>18. ASSUME NEW c \in Creations, SessionCreated(c)
      PROVE  HistoryFlags'
    BY <1>18 DEF HistoryFlags, SessionCreated, NoTestNow
<1>19. ASSUME NEW c \in Creations, SessionRead(c)
      PROVE  HistoryFlags'
    BY <1>19 DEF HistoryFlags, SessionRead, End
<1>20. ASSUME NEW c \in Creations, CreationFails(c)
      PROVE  HistoryFlags'
    BY <1>20 DEF HistoryFlags, CreationFails, End
<1>21. CASE HandleInfo
    BY <1>21 DEF HistoryFlags, HandleInfo, Handle, Ask
<1>22. ASSUME NEW b \in BOOLEAN, HandleStart(b)
      PROVE  HistoryFlags'
    BY <1>22 DEF HistoryFlags, HandleStart, Handle
<1>23. CASE HandleStop
    BY <1>23 DEF HistoryFlags, HandleStop, Handle
<1>24. CASE AnswerSupported
    BY <1>24 DEF HistoryFlags, AnswerSupported, Ask, Supported, Release, IsSessionActive,
      LookEnds, ActiveSessionId
<1>25. CASE AnswerHasSession
    BY <1>25 DEF HistoryFlags, AnswerHasSession, Ask, ActiveSessionId
<1>26. CASE AnswerSessionActive
    BY <1>26 DEF HistoryFlags, AnswerSessionActive, CreateNewSession, Release,
      IsSessionActive, LookEnds, ActiveSessionId
<1>27. CASE RequestFails
    BY <1>27 DEF HistoryFlags, RequestFails, Release
<1> QED
  BY <1>1, <1>2, <1>3, <1>4, <1>5, <1>6, <1>7, <1>8, <1>9, <1>10, <1>11, <1>12, <1>13, <1>14,
     <1>15, <1>16, <1>17, <1>18, <1>19, <1>20, <1>21, <1>22, <1>23, <1>24, <1>25, <1>26,
     <1>27
  DEF Next, DeviceStep, ManagerStep, CreationStep, HandlerStep

\* Every field keeps its type (wda-proxy.ts:17-28, index.ts:16).
LEMMA FieldsStep ==
    ASSUME Flags, Fields, [Next]_vars
    PROVE  Fields'
<1> USE IosAssumption, Identities
      DEF vars, deviceVars, trackerVars, managerVars, proxyVars, streamVars, handlerVars,
          historyVars
<1>1. CASE UNCHANGED vars
  BY <1>1 DEF Fields, Ids
<1>2. CASE Plug
  BY <1>2 DEF Fields, Ids, Plug, Announcements
<1>3. CASE Unplug
  BY <1>3 DEF Fields, Ids, Unplug, NoTestNow
<1>4. CASE TestBegins
  BY <1>4 DEF Fields, Ids, TestBegins
<1>5. ASSUME NEW c \in Creations, WdaStarted(c)
      PROVE  Fields'
  BY <1>5 DEF Fields, Ids, WdaStarted, NewDriver
<1>6. ASSUME NEW c \in Creations, ConnectionRefused(c)
      PROVE  Fields'
  BY <1>6 DEF Fields, Ids, ConnectionRefused
<1>7. CASE AnswerSupported
  BY <1>7 DEF Fields, Ids, AnswerSupported, Ask, Supported, Release, IsSessionActive, LookEnds,
      ActiveSessionId
<1>8. CASE AnswerHasSession
  BY <1>8 DEF Fields, Ids, AnswerHasSession, Ask, ActiveSessionId
<1>9. CASE AnswerSessionActive
  BY <1>9 DEF Fields, Ids, AnswerSessionActive, CreateNewSession, Release, IsSessionActive,
      LookEnds,
      ActiveSessionId
<1>10. CASE RequestFails
  BY <1>10 DEF Fields, Ids, RequestFails, Release
<1>11. CASE DecoderAborts \/ TestEnds \/ HandleInfo \/ HandleStop
  BY <1>11 DEF Fields, Ids, DecoderAborts, AbortDecoder, TestEnds, NoTestNow, HandleInfo, Handle, Ask,
      HandleStop
<1>12. ASSUME NEW n \in Announcements, LookupBundleId(n) \/ Initialized(n)
      PROVE  Fields'
  BY <1>12 DEF Fields, Ids, LookupBundleId, Initialized
<1>13. ASSUME NEW c \in Creations,
        \/ BeginCreation(c)
        \/ WdaNotStarted(c)
        \/ DriverFindsWda(c)
        \/ SessionCreated(c)
        \/ SessionRead(c)
        \/ CreationFails(c)
      PROVE  Fields'
  BY <1>13 DEF Fields, Ids, BeginCreation, NewDriver, WdaNotStarted, End, DriverFindsWda,
      SessionCreated, NoTestNow, SessionRead, CreationFails
<1>14. ASSUME NEW b \in BOOLEAN, HandleStart(b)
      PROVE  Fields'
  BY <1>14 DEF Fields, Ids, HandleStart, Handle
<1>c. CASE DeviceConnected
  BY <1>c DEF Fields, Ids, DeviceConnected, Announcements
<1>r. CASE DeviceRemoved
  BY <1>r DEF Fields, Ids, DeviceRemoved
<1>q. CASE QuitEnds
  BY <1>q DEF Fields, Ids, QuitEnds, StopAll, StopStream, AbortDecoder, DriverStop, NoTestNow
<1>f. CASE QuitFails
  BY <1>f DEF Fields, Ids, QuitFails, StopAll, StopStream, AbortDecoder, DriverStop, NoTestNow
<1> QED
  BY <1>1, <1>2, <1>3, <1>4, <1>5, <1>6, <1>7, <1>8, <1>9, <1>10, <1>11, <1>12, <1>13,
     <1>14, <1>c, <1>r, <1>q, <1>f
  DEF Next, DeviceStep, ManagerStep, CreationStep, HandlerStep

\* One creation has the lock, and a session needs a WDA (wda-proxy.ts:38-39).
LEMMA RelationsStep ==
    ASSUME Flags, Fields, Relations, [Next]_vars
    PROVE  Relations'
<1> USE IosAssumption, Identities
      DEF vars, deviceVars, trackerVars, managerVars, proxyVars, streamVars, handlerVars,
          historyVars
<1>1. CASE UNCHANGED vars
  BY <1>1 DEF Fields, Relations, HasLock, InLock
<1>2. CASE Plug
  BY <1>2 DEF Fields, Relations, HasLock, Plug, Announcements
<1>3. ASSUME NEW n \in Announcements, LookupBundleId(n)
      PROVE  Relations'
  BY <1>3 DEF Fields, Relations, HasLock, InLock, LookupBundleId
<1>4. ASSUME NEW c \in Creations, BeginCreation(c)
      PROVE  Relations'
  BY <1>4 DEF Fields, Relations, HasLock, InLock, BeginCreation, NewDriver
<1>5. ASSUME NEW c \in Creations, WdaStarted(c)
      PROVE  Relations'
  BY <1>5 DEF Fields, Relations, HasLock, InLock, WdaStarted, NewDriver
<1>6. ASSUME NEW c \in Creations, SessionCreated(c)
      PROVE  Relations'
  BY <1>6 DEF Fields, Relations, HasLock, InLock, SessionCreated, NoTestNow
<1>7. ASSUME NEW c \in Creations, SessionRead(c)
      PROVE  Relations'
  BY <1>7 DEF Fields, Relations, HasLock, InLock, SessionRead, End
<1>8. CASE AnswerSupported
  BY <1>8 DEF Fields, Relations, HasLock, InLock, AnswerSupported, Ask, Supported, Release,
      IsSessionActive, LookEnds, ActiveSessionId
<1>9. CASE AnswerSessionActive
  BY <1>9 DEF Fields, Relations, HasLock, InLock, AnswerSessionActive, CreateNewSession,
      Release, IsSessionActive, LookEnds, ActiveSessionId
<1>10. CASE HandleStop
  BY <1>10 DEF Fields, Relations, HasLock, InLock, HandleStop, Handle
<1>11. CASE Unplug
  BY <1>11 DEF Fields, Relations, HasLock, InLock, Unplug, NoTestNow
<1>12. CASE
        \/ DecoderAborts
        \/ TestBegins
        \/ TestEnds
        \/ HandleInfo
        \/ AnswerHasSession
        \/ RequestFails
  BY <1>12 DEF Fields, Relations, HasLock, InLock, DecoderAborts, AbortDecoder, TestBegins,
      TestEnds, NoTestNow, HandleInfo, Handle, Ask, AnswerHasSession, ActiveSessionId,
      RequestFails, Release
<1>13. ASSUME NEW n \in Announcements, Initialized(n)
      PROVE  Relations'
  BY <1>13 DEF Fields, Relations, HasLock, InLock, Initialized
<1>14. ASSUME NEW c \in Creations,
        \/ WdaNotStarted(c)
        \/ ConnectionRefused(c)
        \/ DriverFindsWda(c)
        \/ CreationFails(c)
      PROVE  Relations'
  BY <1>14 DEF Fields, Relations, HasLock, InLock, WdaNotStarted, End, ConnectionRefused,
      DriverFindsWda, CreationFails
<1>15. ASSUME NEW b \in BOOLEAN, HandleStart(b)
      PROVE  Relations'
  BY <1>15 DEF Fields, Relations, HasLock, InLock, HandleStart, Handle
<1>c. CASE DeviceConnected
  BY <1>c DEF Fields, Relations, HasLock, InLock, DeviceConnected, Announcements
<1>r. CASE DeviceRemoved
  BY <1>r DEF Fields, Relations, HasLock, InLock, DeviceRemoved
<1>q. CASE QuitEnds
  BY <1>q DEF Fields, Relations, HasLock, InLock, QuitEnds, StopAll, StopStream, AbortDecoder,
      DriverStop, NoTestNow
<1>f. CASE QuitFails
  BY <1>f DEF Fields, Relations, HasLock, InLock, QuitFails, StopAll, StopStream, AbortDecoder,
      DriverStop, NoTestNow
<1> QED
  BY <1>1, <1>2, <1>3, <1>4, <1>5, <1>6, <1>7, <1>8, <1>9, <1>10, <1>11, <1>12, <1>13,
     <1>14, <1>15, <1>c, <1>r, <1>q, <1>f
  DEF Next, DeviceStep, ManagerStep, CreationStep, HandlerStep

\* Creations (wda-proxy.ts:38-139).
LEMMA CreationFactsStep ==
    ASSUME Flags, Fields, Relations, CreationFacts, [Next]_vars
    PROVE  CreationFacts'
<1> USE IosAssumption, Identities
      DEF vars, deviceVars, trackerVars, managerVars, proxyVars, streamVars, handlerVars,
          historyVars
<1>1. CASE UNCHANGED vars
  BY <1>1 DEF Fields, Relations, CreationFacts, HasLock
<1>2. CASE Plug
  BY <1>2 DEF Fields, Relations, CreationFacts, HasLock, Plug
<1>3. CASE Unplug
  BY <1>3 DEF Fields, Relations, CreationFacts, HasLock, Unplug, NoTestNow
<1>4. CASE TestBegins
  BY <1>4 DEF Fields, Relations, CreationFacts, HasLock, TestBegins
<1>5. CASE TestEnds
  BY <1>5 DEF Fields, Relations, CreationFacts, HasLock, TestEnds, NoTestNow
<1>6. ASSUME NEW n \in Announcements, LookupBundleId(n)
      PROVE  CreationFacts'
  BY <1>6 DEF Fields, Relations, CreationFacts, HasLock, LookupBundleId
<1>7. ASSUME NEW c \in Creations, BeginCreation(c)
      PROVE  CreationFacts'
  <2> USE DEF Fields, Relations, CreationFacts, HasLock
  <2>1. \A d \in Creations : ~HasLock(d)
    BY <1>7 DEF BeginCreation, InLock
  <2>2. CASE started
    <3>1. phase' = [phase EXCEPT ![c] = "driving"] /\ driver' = c
      BY <1>7, <2>2 DEF BeginCreation, NewDriver
    <3>2. HasLock(c)'
      BY <3>1
    <3>3. started' = started /\ active' = active
      BY <1>7 DEF BeginCreation
    <3> QED
      BY <1>7, <2>1, <2>2, <3>1, <3>2, <3>3
  <2>3. CASE ~started
    BY <1>7, <2>1, <2>3 DEF BeginCreation
  <2> QED
    BY <2>2, <2>3
<1>8. ASSUME NEW c \in Creations, WdaStarted(c)
      PROVE  CreationFacts'
  BY <1>8 DEF Fields, Relations, CreationFacts, HasLock, WdaStarted, NewDriver
<1>9. ASSUME NEW c \in Creations, WdaNotStarted(c)
      PROVE  CreationFacts'
  BY <1>9 DEF Fields, Relations, CreationFacts, HasLock, WdaNotStarted, End
<1>10. ASSUME NEW c \in Creations, ConnectionRefused(c)
      PROVE  CreationFacts'
  BY <1>10 DEF Fields, Relations, CreationFacts, HasLock, ConnectionRefused
<1>11. ASSUME NEW c \in Creations, DriverFindsWda(c)
      PROVE  CreationFacts'
  BY <1>11 DEF Fields, Relations, CreationFacts, HasLock, DriverFindsWda
<1>12. ASSUME NEW c \in Creations, SessionCreated(c)
      PROVE  CreationFacts'
  BY <1>12 DEF Fields, Relations, CreationFacts, HasLock, SessionCreated, NoTestNow
<1>13. ASSUME NEW c \in Creations, SessionRead(c)
      PROVE  CreationFacts'
  BY <1>13 DEF Fields, Relations, CreationFacts, HasLock, SessionRead, End
<1>14. ASSUME NEW c \in Creations, CreationFails(c)
      PROVE  CreationFacts'
  BY <1>14 DEF Fields, Relations, CreationFacts, HasLock, CreationFails, End
<1>15. CASE AnswerSupported
  BY <1>15 DEF Fields, Relations, CreationFacts, HasLock, AnswerSupported, Ask, Supported,
      Release, IsSessionActive, LookEnds, ActiveSessionId
<1>16. CASE AnswerSessionActive
  BY <1>16 DEF Fields, Relations, CreationFacts, HasLock, AnswerSessionActive, CreateNewSession,
      Release, IsSessionActive, LookEnds, ActiveSessionId
<1>17. CASE
        \/ DecoderAborts
        \/ HandleInfo
        \/ HandleStop
        \/ AnswerHasSession
        \/ RequestFails
  BY <1>17 DEF Fields, Relations, CreationFacts, HasLock, DecoderAborts, AbortDecoder,
      HandleInfo, Handle, Ask, HandleStop, AnswerHasSession, ActiveSessionId,
      RequestFails, Release
<1>18. ASSUME NEW n \in Announcements, Initialized(n)
      PROVE  CreationFacts'
  BY <1>18 DEF Fields, Relations, CreationFacts, HasLock, Initialized
<1>19. ASSUME NEW b \in BOOLEAN, HandleStart(b)
      PROVE  CreationFacts'
  BY <1>19 DEF Fields, Relations, CreationFacts, HasLock, HandleStart, Handle
<1>c. CASE DeviceConnected
  BY <1>c DEF Fields, Relations, CreationFacts, HasLock, DeviceConnected, Announcements
<1>r. CASE DeviceRemoved
  BY <1>r DEF Fields, Relations, CreationFacts, HasLock, DeviceRemoved
<1>q. CASE QuitEnds
  BY <1>q DEF Fields, Relations, CreationFacts, HasLock, QuitEnds, StopAll, StopStream,
      AbortDecoder, DriverStop, NoTestNow
<1>f. CASE QuitFails
  BY <1>f DEF Fields, Relations, CreationFacts, HasLock, QuitFails, StopAll, StopStream,
      AbortDecoder, DriverStop, NoTestNow
<1> QED
  BY <1>1, <1>2, <1>3, <1>4, <1>5, <1>6, <1>7, <1>8, <1>9, <1>10, <1>11, <1>12, <1>13,
     <1>14, <1>15, <1>16, <1>17, <1>18, <1>19, <1>c, <1>r, <1>q, <1>f
  DEF Next, DeviceStep, ManagerStep, CreationStep, HandlerStep

\* The stream (ios/index.ts:134-202).
LEMMA StreamStep ==
    ASSUME Flags, Fields, Relations, CreationFacts, StreamFacts, [Next]_vars
    PROVE  StreamFacts'
<1> USE IosAssumption, Identities
      DEF vars, deviceVars, trackerVars, managerVars, proxyVars, streamVars, handlerVars,
          historyVars
<1>1. CASE UNCHANGED vars
  BY <1>1 DEF Fields, Relations, StreamFacts, StreamIsReachable
<1>2. CASE Unplug
  BY <1>2 DEF Fields, Relations, StreamFacts, StreamIsReachable, Unplug, NoTestNow
<1>3. ASSUME NEW b \in BOOLEAN, HandleStart(b)
      PROVE  StreamFacts'
  BY <1>3 DEF CreationFacts, Relations, StreamFacts, StreamIsReachable, HandleStart, Handle
<1>4. CASE
        \/ Plug
        \/ DecoderAborts
        \/ TestBegins
        \/ TestEnds
        \/ HandleInfo
        \/ HandleStop
        \/ AnswerSupported
        \/ AnswerHasSession
        \/ AnswerSessionActive
        \/ RequestFails
  BY <1>4 DEF Fields, Relations, StreamFacts, StreamIsReachable, Plug, DecoderAborts,
      AbortDecoder, TestBegins, TestEnds, NoTestNow, HandleInfo, Handle, Ask, HandleStop,
      AnswerSupported, Supported, Release, IsSessionActive, LookEnds, ActiveSessionId,
      AnswerHasSession, AnswerSessionActive, CreateNewSession, RequestFails
<1>5. ASSUME NEW n \in Announcements, LookupBundleId(n) \/ Initialized(n)
      PROVE  StreamFacts'
  BY <1>5 DEF Fields, Relations, StreamFacts, StreamIsReachable, LookupBundleId, Initialized
<1>6. ASSUME NEW c \in Creations,
        \/ BeginCreation(c)
        \/ WdaStarted(c)
        \/ WdaNotStarted(c)
        \/ ConnectionRefused(c)
        \/ DriverFindsWda(c)
        \/ SessionCreated(c)
        \/ SessionRead(c)
        \/ CreationFails(c)
      PROVE  StreamFacts'
  BY <1>6 DEF Fields, Relations, StreamFacts, StreamIsReachable, BeginCreation, NewDriver,
      WdaStarted, WdaNotStarted, End, ConnectionRefused, DriverFindsWda,
      SessionCreated, NoTestNow, SessionRead, CreationFails
<1>c. CASE DeviceConnected
  BY <1>c DEF Fields, Relations, StreamFacts, StreamIsReachable, DeviceConnected, Announcements
<1>r. CASE DeviceRemoved
  BY <1>r DEF Fields, Relations, StreamFacts, StreamIsReachable, DeviceRemoved
<1>q. CASE QuitEnds
  BY <1>q DEF Fields, Relations, StreamFacts, StreamIsReachable, QuitEnds, StopAll, StopStream,
      AbortDecoder, DriverStop, NoTestNow
<1>f. CASE QuitFails
  BY <1>f DEF Fields, Relations, StreamFacts, StreamIsReachable, QuitFails, StopAll,
      StopStream, AbortDecoder, DriverStop, NoTestNow
<1> QED
  BY <1>1, <1>2, <1>3, <1>4, <1>5, <1>6, <1>c, <1>r, <1>q, <1>f
  DEF Next, DeviceStep, ManagerStep, CreationStep, HandlerStep

\* The entry of the controller (index.ts:25-43).
LEMMA ManagerFactsStep ==
    ASSUME Flags, Fields, CreationFacts, ManagerFacts, [Next]_vars
    PROVE  ManagerFacts'
<1> USE IosAssumption, Identities
      DEF vars, deviceVars, trackerVars, managerVars, proxyVars, streamVars, handlerVars,
          historyVars
<1>1. CASE UNCHANGED vars
  BY <1>1 DEF Flags, Fields, ManagerFacts, KnownHasController, Announcements
<1>2. CASE Plug
  BY <1>2 DEF Flags, Fields, ManagerFacts, KnownHasController, Announcements, Plug
<1>3. CASE Unplug
  BY <1>3 DEF Flags, Fields, ManagerFacts, KnownHasController, Announcements, Unplug, NoTestNow
<1>5. ASSUME NEW c \in Creations, ConnectionRefused(c)
      PROVE  ManagerFacts'
  BY <1>5 DEF Flags, Fields, ManagerFacts, KnownHasController, Announcements, ConnectionRefused
<1>6. ASSUME NEW c \in Creations, WdaNotStarted(c) \/ SessionRead(c) \/ CreationFails(c)
      PROVE  ManagerFacts'
  BY <1>6 DEF Flags, Fields, ManagerFacts, KnownHasController, Announcements, WdaNotStarted, End,
      SessionRead, CreationFails
<1>7. CASE
        \/ DecoderAborts
        \/ TestBegins
        \/ TestEnds
        \/ HandleInfo
        \/ HandleStop
        \/ AnswerSupported
        \/ AnswerHasSession
        \/ AnswerSessionActive
        \/ RequestFails
  BY <1>7 DEF Flags, Fields, ManagerFacts, KnownHasController, Announcements, DecoderAborts,
      AbortDecoder, TestBegins, TestEnds, NoTestNow, HandleInfo, Handle, Ask, HandleStop,
      AnswerSupported, Supported, Release, IsSessionActive, LookEnds, ActiveSessionId,
      AnswerHasSession, AnswerSessionActive, CreateNewSession, RequestFails
<1>8. ASSUME NEW n \in Announcements, LookupBundleId(n) \/ Initialized(n)
      PROVE  ManagerFacts'
  BY <1>8 DEF Flags, Fields, ManagerFacts, KnownHasController, Announcements, LookupBundleId,
      Initialized
<1>9. ASSUME NEW c \in Creations,
        \/ BeginCreation(c)
        \/ WdaStarted(c)
        \/ DriverFindsWda(c)
        \/ SessionCreated(c)
      PROVE  ManagerFacts'
  BY <1>9 DEF Flags, Fields, ManagerFacts, KnownHasController, Announcements, BeginCreation,
      NewDriver, WdaStarted, DriverFindsWda, SessionCreated, NoTestNow
<1>10. ASSUME NEW b \in BOOLEAN, HandleStart(b)
      PROVE  ManagerFacts'
  BY <1>10 DEF Flags, Fields, ManagerFacts, KnownHasController, Announcements, HandleStart, Handle
<1>c. CASE DeviceConnected
  <2>1. /\ announced' = announced + 1 /\ announced < MaxAnnouncements
        /\ init' = [init EXCEPT ![announced'] = "lookup"]
        /\ hasty' = (stopping > 0) /\ stopping' = stopping
    BY <1>c DEF DeviceConnected
  <2>2. announced' \in Announcements
    BY <2>1 DEF Fields, Announcements
  <2>3. init'[announced'] = "lookup"
    BY <2>1, <2>2 DEF Fields
  <2>4. hasty' \/ stopping' = 0
    <3>1. stopping > 0 \/ stopping = 0
      BY DEF Fields
    <3> QED
      BY <2>1, <3>1
  <2> QED
    BY <2>2, <2>3, <2>4 DEF ManagerFacts, KnownHasController
<1>r. CASE DeviceRemoved
  BY <1>r DEF Flags, Fields, ManagerFacts, KnownHasController, Announcements, DeviceRemoved
<1>q. CASE QuitEnds
  BY <1>q DEF Flags, Fields, ManagerFacts, KnownHasController, Announcements, QuitEnds,
      StopAll, StopStream, AbortDecoder, DriverStop, NoTestNow
<1>f. CASE QuitFails
  BY <1>f DEF Flags, Fields, ManagerFacts, KnownHasController, Announcements, QuitFails,
      StopAll, StopStream, AbortDecoder, DriverStop, NoTestNow
<1> QED
  BY <1>1, <1>2, <1>3, <1>5, <1>6, <1>7, <1>8, <1>9, <1>10, <1>c, <1>r, <1>q, <1>f
  DEF Next, DeviceStep, ManagerStep, CreationStep, HandlerStep

\* The flag of WDA (wda-proxy.ts:40-50, 166-169).
LEMMA EndStep ==
    ASSUME Flags, Fields, CreationFacts, StartedIsUp, [Next]_vars
    PROVE  StartedIsUp'
<1> USE IosAssumption, Identities
      DEF vars, deviceVars, trackerVars, managerVars, proxyVars, streamVars, handlerVars,
          historyVars
<1>1. CASE UNCHANGED vars
  BY <1>1 DEF Flags, Fields, CreationFacts, StartedIsUp
<1>2. CASE Plug
  BY <1>2 DEF Flags, Fields, CreationFacts, StartedIsUp, Plug
<1>3. CASE Unplug
  BY <1>3 DEF Flags, Fields, CreationFacts, StartedIsUp, Unplug, NoTestNow
<1>6. ASSUME NEW c \in Creations, WdaStarted(c)
      PROVE  StartedIsUp'
  BY <1>6 DEF Flags, Fields, CreationFacts, StartedIsUp, WdaStarted, NewDriver
<1>7. CASE
        \/ DecoderAborts
        \/ TestBegins
        \/ TestEnds
        \/ HandleInfo
        \/ HandleStop
        \/ AnswerSupported
        \/ AnswerHasSession
        \/ AnswerSessionActive
        \/ RequestFails
  BY <1>7 DEF Flags, Fields, CreationFacts, StartedIsUp, DecoderAborts, AbortDecoder,
      TestBegins, TestEnds, NoTestNow, HandleInfo, Handle, Ask, HandleStop, AnswerSupported,
      Supported, Release, IsSessionActive, LookEnds, ActiveSessionId, AnswerHasSession,
      AnswerSessionActive, CreateNewSession, RequestFails
<1>8. ASSUME NEW n \in Announcements, LookupBundleId(n) \/ Initialized(n)
      PROVE  StartedIsUp'
  BY <1>8 DEF Flags, Fields, CreationFacts, StartedIsUp, LookupBundleId, Initialized
<1>9. ASSUME NEW c \in Creations,
        \/ BeginCreation(c)
        \/ WdaNotStarted(c)
        \/ ConnectionRefused(c)
        \/ DriverFindsWda(c)
        \/ SessionCreated(c)
        \/ SessionRead(c)
        \/ CreationFails(c)
      PROVE  StartedIsUp'
  BY <1>9 DEF Flags, Fields, CreationFacts, StartedIsUp, BeginCreation, NewDriver,
      WdaNotStarted, End, ConnectionRefused, DriverFindsWda, SessionCreated, NoTestNow,
      SessionRead, CreationFails
<1>10. ASSUME NEW b \in BOOLEAN, HandleStart(b)
      PROVE  StartedIsUp'
  BY <1>10 DEF Flags, Fields, CreationFacts, StartedIsUp, HandleStart, Handle
<1>c. CASE DeviceConnected
  BY <1>c DEF Flags, Fields, CreationFacts, StartedIsUp, DeviceConnected, Announcements
<1>r. CASE DeviceRemoved
  BY <1>r DEF Flags, Fields, CreationFacts, StartedIsUp, DeviceRemoved
<1>q. CASE QuitEnds
  BY <1>q DEF Flags, Fields, CreationFacts, StartedIsUp, QuitEnds, StopAll, StopStream,
      AbortDecoder, DriverStop, NoTestNow
<1>f. CASE QuitFails
  BY <1>f DEF Flags, Fields, CreationFacts, StartedIsUp, QuitFails, StopAll, StopStream,
      AbortDecoder, DriverStop, NoTestNow
<1> QED
  BY <1>1, <1>2, <1>3, <1>6, <1>7, <1>8, <1>9, <1>10, <1>c, <1>r, <1>q, <1>f
  DEF Next, DeviceStep, ManagerStep, CreationStep, HandlerStep

\* Tests (ios/index.ts:174-187, wda-proxy.ts:82-93).
LEMMA TestStep ==
    ASSUME Flags, Fields, Relations, TestFacts, [Next]_vars
    PROVE  TestFacts'
<1> USE IosAssumption, Identities
      DEF vars, deviceVars, trackerVars, managerVars, proxyVars, streamVars, handlerVars,
          historyVars
<1>1. CASE UNCHANGED vars
  BY <1>1 DEF Flags, Fields, Relations, TestFacts, KnowsItsSession
<1>2. CASE Plug
  BY <1>2 DEF Flags, Fields, Relations, TestFacts, KnowsItsSession, Plug
<1>3. CASE Unplug
  BY <1>3 DEF Flags, Fields, Relations, TestFacts, KnowsItsSession, Unplug, NoTestNow
<1>4. CASE TestBegins
  BY <1>4 DEF Flags, Fields, Relations, TestFacts, KnowsItsSession, TestBegins
<1>5. ASSUME NEW n \in Announcements, LookupBundleId(n)
      PROVE  TestFacts'
  BY <1>5 DEF Flags, Fields, Relations, TestFacts, KnowsItsSession, LookupBundleId
<1>6. ASSUME NEW c \in Creations, BeginCreation(c)
      PROVE  TestFacts'
  BY <1>6 DEF Flags, Fields, Relations, TestFacts, KnowsItsSession, BeginCreation, NewDriver
<1>7. ASSUME NEW c \in Creations, SessionCreated(c)
      PROVE  TestFacts'
  BY <1>7 DEF Flags, Fields, Relations, TestFacts, KnowsItsSession, SessionCreated, NoTestNow
<1>8. ASSUME NEW c \in Creations, SessionRead(c)
      PROVE  TestFacts'
  BY <1>8 DEF Flags, Fields, Relations, TestFacts, KnowsItsSession, SessionRead, End
<1>9. CASE AnswerSupported
  BY <1>9 DEF Flags, Fields, Relations, TestFacts, KnowsItsSession, AnswerSupported, Ask,
      Supported, Release, IsSessionActive, LookEnds, ActiveSessionId
<1>10. CASE AnswerHasSession
  BY <1>10 DEF Flags, Fields, Relations, TestFacts, KnowsItsSession, AnswerHasSession, Ask,
      ActiveSessionId
<1>11. CASE AnswerSessionActive
  BY <1>11 DEF Flags, Fields, Relations, TestFacts, KnowsItsSession, AnswerSessionActive,
      CreateNewSession, Release, IsSessionActive, LookEnds, ActiveSessionId
<1>12. CASE DecoderAborts \/ TestEnds \/ HandleInfo \/ HandleStop \/ RequestFails
  BY <1>12 DEF Flags, Fields, Relations, TestFacts, KnowsItsSession, DecoderAborts,
      AbortDecoder, TestEnds, NoTestNow, HandleInfo, Handle, Ask, HandleStop, RequestFails,
      Release
<1>13. ASSUME NEW n \in Announcements, Initialized(n)
      PROVE  TestFacts'
  BY <1>13 DEF Flags, Fields, Relations, TestFacts, KnowsItsSession, Initialized
<1>14. ASSUME NEW c \in Creations,
        \/ WdaStarted(c)
        \/ WdaNotStarted(c)
        \/ ConnectionRefused(c)
        \/ DriverFindsWda(c)
        \/ CreationFails(c)
      PROVE  TestFacts'
  BY <1>14 DEF Flags, Fields, Relations, TestFacts, KnowsItsSession, WdaStarted, NewDriver,
      WdaNotStarted, End, ConnectionRefused, DriverFindsWda, CreationFails
<1>15. ASSUME NEW b \in BOOLEAN, HandleStart(b)
      PROVE  TestFacts'
  BY <1>15 DEF Flags, Fields, Relations, TestFacts, KnowsItsSession, HandleStart, Handle
<1>c. CASE DeviceConnected
  BY <1>c DEF Flags, Fields, Relations, TestFacts, KnowsItsSession, DeviceConnected, Announcements
<1>r. CASE DeviceRemoved
  BY <1>r DEF Flags, Fields, Relations, TestFacts, KnowsItsSession, DeviceRemoved
<1>q. CASE QuitEnds
  BY <1>q DEF Flags, Fields, Relations, TestFacts, KnowsItsSession, QuitEnds, StopAll,
      StopStream, AbortDecoder, DriverStop, NoTestNow
<1>f. CASE QuitFails
  BY <1>f DEF Flags, Fields, Relations, TestFacts, KnowsItsSession, QuitFails, StopAll,
      StopStream, AbortDecoder, DriverStop, NoTestNow
<1> QED
  BY <1>1, <1>2, <1>3, <1>4, <1>5, <1>6, <1>7, <1>8, <1>9, <1>10, <1>11, <1>12, <1>13,
     <1>14, <1>15, <1>c, <1>r, <1>q, <1>f
  DEF Next, DeviceStep, ManagerStep, CreationStep, HandlerStep

\* A look that compares with the id that counts finds the session that runs; a
\* driver without driver.wda has a creation under way (wda-proxy.ts:141-164).
LEMMA LookShows ==
    ASSUME CreationFacts, LookEnds, started, active \in Creations, active = sessionId
    PROVE  sessionActive' \/ overlapped' \/ \E c \in Creations : HasLock(c)
<1>1. CASE ~driverWda
  BY <1>1 DEF CreationFacts
<1>2. CASE driverWda
  BY <1>2 DEF LookEnds, IsSessionActive, ActiveSessionId
<1> QED
  BY <1>1, <1>2

\* Who has the session (wda-proxy.ts:92-95, 141-144).
LEMMA ControlStep ==
    ASSUME Flags, Fields, Relations, CreationFacts, ControlFacts, [Next]_vars
    PROVE  ControlFacts'
<1> USE IosAssumption, Identities
      DEF vars, deviceVars, trackerVars, managerVars, proxyVars, streamVars, handlerVars,
          historyVars
<1>1. CASE UNCHANGED vars
  BY <1>1 DEF Fields, Relations, CreationFacts, ControlFacts, LookEnds, HasLock
<1>2. CASE Plug
  BY <1>2 DEF Fields, Relations, CreationFacts, ControlFacts, LookEnds, HasLock, Plug
<1>3. CASE Unplug
  BY <1>3 DEF Fields, Relations, CreationFacts, ControlFacts, LookEnds, HasLock, Unplug, NoTestNow
<1>4. ASSUME NEW n \in Announcements, LookupBundleId(n)
      PROVE  ControlFacts'
  BY <1>4 DEF Fields, Relations, CreationFacts, ControlFacts, LookEnds, HasLock,
      LookupBundleId
<1>5. ASSUME NEW c \in Creations, BeginCreation(c)
      PROVE  ControlFacts'
  BY <1>5 DEF Fields, Relations, CreationFacts, ControlFacts, LookEnds, HasLock,
      BeginCreation, NewDriver
<1>6. ASSUME NEW c \in Creations, WdaStarted(c)
      PROVE  ControlFacts'
  BY <1>6 DEF Fields, Relations, CreationFacts, ControlFacts, LookEnds, HasLock, WdaStarted,
      NewDriver
<1>7. ASSUME NEW c \in Creations, DriverFindsWda(c)
      PROVE  ControlFacts'
  BY <1>7 DEF Fields, Relations, CreationFacts, ControlFacts, LookEnds, HasLock,
      DriverFindsWda
<1>8. ASSUME NEW c \in Creations, SessionCreated(c)
      PROVE  ControlFacts'
  BY <1>8 DEF Fields, Relations, CreationFacts, ControlFacts, LookEnds, HasLock,
      SessionCreated, NoTestNow
<1>9. ASSUME NEW c \in Creations, SessionRead(c)
      PROVE  ControlFacts'
  BY <1>9 DEF Fields, Relations, CreationFacts, ControlFacts, LookEnds, HasLock,
      SessionRead, End
<1>10. ASSUME NEW c \in Creations, WdaNotStarted(c)
      PROVE  ControlFacts'
  BY <1>10 DEF Fields, Relations, CreationFacts, ControlFacts, LookEnds, HasLock,
      WdaNotStarted, End
<1>11. ASSUME NEW c \in Creations, ConnectionRefused(c)
      PROVE  ControlFacts'
  BY <1>11 DEF Fields, Relations, CreationFacts, ControlFacts, LookEnds, HasLock,
      ConnectionRefused
<1>12. ASSUME NEW c \in Creations, CreationFails(c)
      PROVE  ControlFacts'
  BY <1>12 DEF Fields, Relations, CreationFacts, ControlFacts, LookEnds, HasLock,
      CreationFails, End
<1>13. CASE AnswerSupported
  <2>1. UNCHANGED <<active, phase, started, sessionId, driver, driverWda>>
    BY <1>13 DEF AnswerSupported
  <2>2. UNCHANGED <<sessionActive, overlapped>> \/ LookEnds
    BY <1>13 DEF AnswerSupported
  <2>3. CASE UNCHANGED <<sessionActive, overlapped>>
    BY <2>1, <2>3 DEF ControlFacts, HasLock
  <2>4. CASE LookEnds
    <3>1. \A c \in Creations : HasLock(c) <=> HasLock(c)'
      BY <2>1 DEF HasLock
    <3> QED
      BY <2>1, <2>4, <3>1, LookShows DEF ControlFacts
  <2> QED
    BY <2>2, <2>3, <2>4
<1>14. CASE AnswerHasSession
  BY <1>14 DEF Fields, Relations, CreationFacts, ControlFacts, LookEnds, HasLock,
      AnswerHasSession, Ask, ActiveSessionId
<1>15. CASE AnswerSessionActive
  <2>1. UNCHANGED <<active, started, sessionId, driver, driverWda>> /\ LookEnds
    BY <1>15 DEF AnswerSessionActive
  <2>2. \A c \in Creations : HasLock(c) <=> HasLock(c)'
    BY <1>15 DEF AnswerSessionActive, CreateNewSession, Fields, HasLock
  <2> QED
    BY <2>1, <2>2, LookShows DEF ControlFacts
<1>16. CASE TestBegins
  BY <1>16 DEF Fields, Relations, CreationFacts, ControlFacts, LookEnds, HasLock, TestBegins
<1>17. CASE TestEnds
  BY <1>17 DEF Fields, Relations, CreationFacts, ControlFacts, LookEnds, HasLock, TestEnds, NoTestNow
<1>18. CASE DecoderAborts \/ HandleInfo \/ HandleStop \/ RequestFails
  BY <1>18 DEF Fields, Relations, CreationFacts, ControlFacts, LookEnds, HasLock,
      DecoderAborts, AbortDecoder, HandleInfo, Handle, Ask, HandleStop, RequestFails,
      Release
<1>19. ASSUME NEW n \in Announcements, Initialized(n)
      PROVE  ControlFacts'
  BY <1>19 DEF Fields, Relations, CreationFacts, ControlFacts, LookEnds, HasLock, Initialized
<1>20. ASSUME NEW b \in BOOLEAN, HandleStart(b)
      PROVE  ControlFacts'
  BY <1>20 DEF Fields, Relations, CreationFacts, ControlFacts, LookEnds, HasLock,
      HandleStart, Handle
<1>c. CASE DeviceConnected
  BY <1>c DEF Fields, Relations, CreationFacts, ControlFacts, HasLock, DeviceConnected,
      Announcements
<1>r. CASE DeviceRemoved
  BY <1>r DEF Fields, Relations, CreationFacts, ControlFacts, HasLock, DeviceRemoved
<1>q. CASE QuitEnds
  BY <1>q DEF Fields, Relations, CreationFacts, ControlFacts, HasLock, QuitEnds, StopAll,
      StopStream, AbortDecoder, DriverStop, NoTestNow
<1>f. CASE QuitFails
  BY <1>f DEF Fields, Relations, CreationFacts, ControlFacts, HasLock, QuitFails, StopAll,
      StopStream, AbortDecoder, DriverStop, NoTestNow
<1> QED
  BY <1>1, <1>2, <1>3, <1>4, <1>5, <1>6, <1>7, <1>8, <1>9, <1>10, <1>11, <1>12, <1>13,
     <1>14, <1>15, <1>16, <1>17, <1>18, <1>19, <1>20, <1>c, <1>r, <1>q, <1>f
  DEF Next, DeviceStep, ManagerStep, CreationStep, HandlerStep


\* Every step of the device, of the proxy and of the handlers keeps all of it
\* (ios/index.ts:49-202, wda-proxy.ts:38-139).
LEMMA IosStepInv == IosInv /\ [Next]_vars => IosInv'
  BY FlagsStep, HistoryFlagsStep, FieldsStep, RelationsStep, CreationFactsStep, StreamStep,
      ManagerFactsStep,
     EndStep, TestStep, ControlStep
  DEF IosInv

\* IosInv holds for any number of announcements, stops, creations and tests
\* (ios/index.ts:49-202, wda-proxy.ts:38-139).
LEMMA IosAlways == Spec => []IosInv
<1>1. IosInv /\ [Next]_vars => IosInv'
  BY IosStepInv
<1> QED
  BY IosInitInv, <1>1, PTL DEF Spec

-----------------------------------------------------------------------------

\* What the fields hold, that one creation has the lock, and that a session of
\* WDA needs a WDA that answers (wda-proxy.ts:17-39).
THEOREM IosTypeCorrect == Spec => []TypeOK
<1>1. IosInv => TypeOK
  BY TypeParts DEF IosInv
<1> QED
  BY IosAlways, <1>1, PTL

\* A stream that is decoded has its controller in the map and a listener, so
\* that it reaches the hub and can be stopped (ios/index.ts:134-172, 194-202,
\* index.ts:37-43).
THEOREM AlwaysStreamIsReachable == Spec => []StreamIsReachable
<1>1. IosInv => StreamIsReachable
  BY DEF IosInv, StreamFacts
<1> QED
  BY IosAlways, <1>1, PTL

\* The session of a test is taken for the own one only if it began between the
\* creation of that and the look at its id (wda-proxy.ts:82-93).
THEOREM AlwaysKnowsItsSession == Spec => []KnowsItsSession
<1>1. IosInv => KnowsItsSession
  BY DEF IosInv, TestFacts
<1> QED
  BY IosAlways, <1>1, PTL

\* A device that was announced and not withdrawn has its controller once
\* initialize() has ended, but for a rejection or a stopAll() that was under way at
\* the announcement (index.ts:25-43).
THEOREM AlwaysKnownHasController == Spec => []KnownHasController
<1>1. IosInv => KnownHasController
  BY DEF IosInv, ManagerFacts
<1> QED
  BY IosAlways, <1>1, PTL

\* A creation skips the start of WDA only if WDA is up or the end of WDA has not
\* got through to the flag (wda-proxy.ts:40-50, 166-169).
THEOREM AlwaysStartedIsUp == Spec => []StartedIsUp
<1>1. IosInv => StartedIsUp
  BY DEF IosInv
<1> QED
  BY IosAlways, <1>1, PTL

\* Who controls can act while the session of the remote control is the one that
\* runs, unless the last look at it has overlapped the end of a creation
\* (wda-proxy.ts:141-144, 183-218).
THEOREM AlwaysControlWorks == Spec => []ControlWorks
<1>1. IosInv => ControlWorks
  BY DEF IosInv, ControlFacts, ControlWorks, Performs, InLock, HasLock
<1> QED
  BY IosAlways, <1>1, PTL

\* The commands go to the session that runs: the driver is its own
\* (wda-proxy.ts:51-99).
THEOREM AlwaysSessionIsDrivers == Spec => []SessionIsDrivers
<1>1. IosInv => SessionIsDrivers
  BY DEF IosInv, CreationFacts, SessionIsDrivers, InLock, HasLock
<1> QED
  BY IosAlways, <1>1, PTL

\* WDA is taken from a test only by a creation that was decided upon before the
\* test began, by a driver that had nothing to ask, or by an announcement that
\* came while the test ran (ios/index.ts:84, 174-187).
THEOREM NoTestLosesItsSession == Spec => TestKeepsSession
<1>1. IosInv /\ [Next]_vars =>
        [active = Test /\ active' \in Creations => active' \in unaware \cup repeated]_vars
  <2> SUFFICES ASSUME IosInv, Next, active = Test, active' \in Creations
               PROVE  active' \in unaware \cup repeated
    OBVIOUS
  <2> USE Identities DEF deviceVars
  <2>0. None \notin Creations /\ Test \notin Creations /\ active \notin Creations
    OBVIOUS
  <2>1. CASE DeviceStep
    <3>1. active' \in {active, None, Test}
      BY <2>1 DEF DeviceStep, Plug, Unplug, NoTestNow, DeviceConnected, DeviceRemoved, DecoderAborts,
          TestBegins, TestEnds
    <3> QED
      BY <2>0, <3>1
  <2>2. CASE ManagerStep
    <3>1. active' \in {active, None}
      BY <2>2 DEF ManagerStep, QuitEnds, QuitFails, StopAll, DriverStop, NoTestNow, LookupBundleId,
          Initialized
    <3> QED
      BY <2>0, <3>1
  <2>3. ASSUME NEW c \in Creations, SessionCreated(c)
        PROVE  active' \in unaware \cup repeated
    <3>1. phase[c] = "driving" /\ active' = c
      BY <2>3 DEF SessionCreated, NoTestNow
    <3> QED
      BY <3>1 DEF IosInv, TestFacts
  <2>4. ASSUME NEW c \in Creations,
            \/ BeginCreation(c) \/ WdaStarted(c) \/ WdaNotStarted(c) \/ ConnectionRefused(c)
            \/ DriverFindsWda(c) \/ SessionRead(c) \/ CreationFails(c)
        PROVE  active' \in unaware \cup repeated
    BY <2>4 DEF BeginCreation, WdaStarted, WdaNotStarted, ConnectionRefused, DriverFindsWda,
        SessionRead, CreationFails
  <2>5. CASE CreationStep
    BY <2>3, <2>4, <2>5 DEF CreationStep
  <2>6. CASE HandlerStep
    BY <2>6 DEF HandlerStep, HandleInfo, HandleStart, HandleStop, AnswerSupported,
        AnswerHasSession, AnswerSessionActive, RequestFails
  <2> QED
    BY <2>1, <2>2, <2>5, <2>6 DEF Next
<1> QED
  BY IosAlways, <1>1, PTL DEF Spec, TestKeepsSession
=============================================================================
