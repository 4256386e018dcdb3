---------------------------- MODULE TrackerProofs ----------------------------
(***************************************************************************)
(* Proofs about the Android tracker, for any devices and any number of     *)
(* reports of adb.                                                         *)
(*                                                                         *)
(* Types: that there are never more calls than reports needs an account of *)
(* the reports that have not made their call yet, in adb's events and in   *)
(* the list (Accounted).                                                   *)
(*                                                                         *)
(* GoneIsForgotten: when the last event of a device that is not there has  *)
(* been handled, every lookup of it is dead, or has not asked adb          *)
(* since and will not, or was past the look at its signal (GoneIsDead).    *)
(***************************************************************************)
EXTENDS AndroidTracker, FiniteSetTheorems, SequenceTheorems, TLAPS

\* The add events that the tracker has not seen.
Adds == UNION {{d} \X {i \in 1 .. Len(events[d]) : events[d][i] = "add"} : d \in Devices}

\* The devices of the list it has not gone through.
Listed == IF toList = Unread THEN {} ELSE toList

Shape ==
    /\ events \in [Devices -> Seq({"add", "remove"})]
    /\ device \in [Calls -> Devices \cup {"none"}]
    /\ cache \in [Devices -> Nat] /\ sent = cache /\ controllers \in [Devices -> Nat]
    /\ \A c \in init : phase[c] = "done"

Accounted ==
    /\ IsFiniteSet(plugged) /\ IsFiniteSet(Adds) /\ IsFiniteSet(Listed)
    /\ calls + Cardinality(Adds) + Cardinality(Listed) <= reports

\* The last event of a device says whether it is there.
EventsAgree ==
    \A d \in Devices : events[d] # <<>> => (events[d][Len(events[d])] = "add" <=> d \in plugged)

GoneIsDead ==
    \A d \in Devices : d \notin plugged /\ events[d] = <<>> /\ d \notin dropped =>
        /\ sent[d] # 0 => sent[d] \in unheard
        /\ \A c \in Running(d) : c \in unheard \/ phase[c] = "waiting"

\* A controller that is being initialized is the one of a device that is there,
\* or has been overtaken.
InitHasDevice == \A c \in init : cache[device[c]] = 0 => c \in overtaken

IInv ==
    /\ TypeOK /\ Shape /\ Accounted
    /\ EventsAgree /\ GoneIsDead
    /\ InitHasDevice /\ ControllerHasDevice

-----------------------------------------------------------------------------
(* The account of reports.                                                 *)

\* An add event is a device and a place among its events (android.ts:19-27).
LEMMA AddsAre ==
    /\ \A d, i : <<d, i>> \in Adds <=>
            d \in Devices /\ i \in 1 .. Len(events[d]) /\ events[d][i] = "add"
    /\ \A p \in Adds : p = <<p[1], p[2]>>
  BY DEF Adds

\* One more event of a device: at most one more add (android.ts:19-27).
LEMMA OneMoreEvent ==
    ASSUME Shape, IsFiniteSet(Adds), NEW d \in Devices, NEW e \in {"add", "remove"},
           events' = [events EXCEPT ![d] = Append(@, e)]
    PROVE  /\ IsFiniteSet(Adds')
           /\ Cardinality(Adds') <= Cardinality(Adds) + (IF e = "add" THEN 1 ELSE 0)
<1> DEFINE more == IF e = "add" THEN Adds \cup {<<d, Len(events[d]) + 1>>} ELSE Adds
<1>1. events[d] \in Seq({"add", "remove"})
  BY DEF Shape
<1>2. /\ events'[d] = Append(events[d], e)
      /\ \A f \in Devices : f # d => events'[f] = events[f]
  BY DEF Shape
<1>3. /\ Len(events'[d]) = Len(events[d]) + 1
      /\ \A i \in 1 .. Len(events[d]) : events'[d][i] = events[d][i]
      /\ events'[d][Len(events[d]) + 1] = e
      /\ Len(events[d]) \in Nat
  BY <1>1, <1>2, AppendProperties, LenProperties
<1>4. ASSUME NEW f, NEW i, <<f, i>> \in Adds' PROVE <<f, i>> \in more
  <2>1. f \in Devices /\ i \in 1 .. Len(events'[f]) /\ events'[f][i] = "add"
    BY <1>4 DEF Adds
  <2>2. CASE f # d
    BY <1>2, <2>1, <2>2, AddsAre
  <2>3. CASE f = d
    <3>1. i \in 1 .. Len(events[d]) \/ i = Len(events[d]) + 1
      BY <1>3, <2>1, <2>3
    <3> QED
      BY <1>3, <2>1, <2>3, <3>1, AddsAre
  <2> QED
    BY <2>2, <2>3
<1>5. Adds' \subseteq more
  <2>1. \A p \in Adds' : p = <<p[1], p[2]>>
    BY DEF Adds
  <2> QED
    BY <1>4, <2>1
<1>6. IsFiniteSet(more) /\ Cardinality(more) <= Cardinality(Adds) + (IF e = "add" THEN 1 ELSE 0)
  <2>1. Cardinality(Adds) \in Nat
    BY FS_CardinalityType
  <2> DEFINE wider == Adds \cup {<<d, Len(events[d]) + 1>>}
  <2>2. IsFiniteSet(wider) /\ Cardinality(wider) \in {Cardinality(Adds), Cardinality(Adds) + 1}
    BY <2>1, FS_AddElement
  <2> HIDE DEF wider
  <2>3. more = IF e = "add" THEN wider ELSE Adds
    BY DEF wider
  <2> QED
    BY <2>1, <2>2, <2>3
<1>7. IsFiniteSet(Adds') /\ Cardinality(Adds') <= Cardinality(more)
  BY <1>5, <1>6, FS_Subset
<1> QED
  BY <1>6, <1>7, FS_CardinalityType

\* The tracker has seen the first event of a device (android.ts:19-27).
LEMMA FirstEventGone ==
    ASSUME Shape, IsFiniteSet(Adds), NEW d \in Devices, events[d] # <<>>,
           events' = [events EXCEPT ![d] = Tail(@)]
    PROVE  /\ IsFiniteSet(Adds')
           /\ Cardinality(Adds') <= Cardinality(Adds) - (IF Head(events[d]) = "add" THEN 1 ELSE 0)
<1> DEFINE first == <<d, 1>>
           rest == Adds \ {first}
           f == [p \in Adds' |-> IF p[1] = d THEN <<d, p[2] + 1>> ELSE p]
<1>1. events[d] \in Seq({"add", "remove"})
  BY DEF Shape
<1>2. /\ events'[d] = Tail(events[d])
      /\ \A e \in Devices : e # d => events'[e] = events[e]
  BY DEF Shape
<1>3. /\ Len(events'[d]) = Len(events[d]) - 1
      /\ \A i \in 1 .. Len(events'[d]) : events'[d][i] = events[d][i + 1]
      /\ Len(events[d]) \in Nat /\ Len(events[d]) >= 1
      /\ Head(events[d]) = events[d][1]
  <2>1. events[d] # <<>>
    OBVIOUS
  <2>2. Len(events[d]) \in Nat /\ Len(events[d]) # 0
    BY <1>1, <2>1, LenProperties, EmptySeq
  <2>3. /\ Len(Tail(events[d])) = Len(events[d]) - 1
        /\ \A i \in 1 .. Len(Tail(events[d])) : Tail(events[d])[i] = events[d][i + 1]
    BY <1>1, <2>1, HeadTailProperties
  <2>4. Head(events[d]) = events[d][1]
    BY <1>1, <2>2
  <2>5. /\ Len(events'[d]) = Len(events[d]) - 1
        /\ \A i \in 1 .. Len(events'[d]) : events'[d][i] = events[d][i + 1]
    BY <1>2, <2>3, Zenon
  <2>6. Len(events[d]) \in Nat /\ Len(events[d]) >= 1
    BY <2>2
  <2> QED
    BY <2>4, <2>5, <2>6
<1>4. \A e, i : <<e, i>> \in Adds' <=>
            e \in Devices /\ i \in 1 .. Len(events'[e]) /\ events'[e][i] = "add"
  BY DEF Adds
<1>5. \A p \in Adds' : p = <<p[1], p[2]>>
  BY DEF Adds
<1>6. ASSUME NEW p \in Adds' PROVE f[p] \in rest
  <2>1. p[1] \in Devices /\ p[2] \in 1 .. Len(events'[p[1]]) /\ events'[p[1]][p[2]] = "add"
    BY <1>4, <1>5
  <2>2. CASE p[1] = d
    <3>1. /\ p[2] \in 1 .. Len(events'[d]) /\ p[2] + 1 \in 1 .. Len(events[d])
          /\ events[d][p[2] + 1] = "add" /\ p[2] + 1 # 1
      BY <1>3, <2>1, <2>2
    <3>2. <<d, p[2] + 1>> \in Adds
      BY <3>1, AddsAre
    <3> QED
      BY <2>2, <3>1, <3>2
  <2>3. CASE p[1] # d
    <3>1. <<p[1], p[2]>> \in Adds
      BY <1>2, <2>1, <2>3, AddsAre
    <3> QED
      BY <1>5, <2>3, <3>1
  <2> QED
    BY <2>2, <2>3
<1>7. ASSUME NEW p \in Adds', NEW q \in Adds', f[p] = f[q] PROVE p = q
  <2>1. /\ p = <<p[1], p[2]>> /\ q = <<q[1], q[2]>>
        /\ p[2] \in 1 .. Len(events'[p[1]]) /\ q[2] \in 1 .. Len(events'[q[1]])
    BY <1>4, <1>5
  <2>2. p[2] \in Int /\ q[2] \in Int
    BY <2>1
  <2> QED
    BY <1>7, <2>1, <2>2
<1>8. f \in Injection(Adds', rest)
  BY <1>6, <1>7 DEF Injection, IsInjective
<1>9. /\ IsFiniteSet(rest)
      /\ Cardinality(rest) = Cardinality(Adds) - (IF Head(events[d]) = "add" THEN 1 ELSE 0)
  <2>1. first \in Adds <=> Head(events[d]) = "add"
    BY <1>3, AddsAre
  <2>2. Cardinality(Adds) \in Nat
    BY FS_CardinalityType
  <2>3. CASE first \in Adds
    <3>1. IsFiniteSet(rest) /\ Cardinality(rest) = Cardinality(Adds) - 1
      BY <2>3, FS_RemoveElement
    <3> QED
      BY <2>1, <2>3, <3>1
  <2>4. CASE first \notin Adds
    <3>1. rest = Adds
      BY <2>4
    <3> HIDE DEF rest
    <3> QED
      BY <2>1, <2>2, <2>4, <3>1
  <2> QED
    BY <2>3, <2>4
<1> QED
  BY <1>8, <1>9, FS_Injection

\* A tracker that starts reports every device that is there (android.ts:19-27).
LEMMA AllReportedAnew ==
    ASSUME Shape, IsFiniteSet(plugged),
           events' = [d \in Devices |-> IF d \in plugged THEN <<"add">> ELSE <<>>]
    PROVE  IsFiniteSet(Adds') /\ Cardinality(Adds') <= Cardinality(plugged)
<1> DEFINE f == [p \in Adds' |-> p[1]]
<1>1. ASSUME NEW p \in Adds' PROVE p[1] \in plugged /\ p = <<p[1], 1>>
  <2>1. /\ p = <<p[1], p[2]>>
        /\ p[1] \in Devices /\ p[2] \in 1 .. Len(events'[p[1]]) /\ events'[p[1]][p[2]] = "add"
    BY DEF Adds
  <2>2. events'[p[1]] = IF p[1] \in plugged THEN <<"add">> ELSE <<>>
    BY <2>1
  <2> QED
    BY <2>1, <2>2
<1>2. f \in Injection(Adds', plugged)
  BY <1>1 DEF Injection, IsInjective
<1> QED
  BY <1>2, FS_Injection

-----------------------------------------------------------------------------
(* Steps.                                                                  *)

\* At the start nothing was reported (android.ts:19-43).
LEMMA InitInv == Init => IInv
<1> SUFFICES ASSUME Init PROVE IInv
  OBVIOUS
<1>1. Adds = {} /\ Listed = {}
  BY DEF Init, Adds, Listed
<1>0. ended \in BOOLEAN
  BY DEF Init
<1>2. TypeOK
  BY <1>0, TrackerAssumption DEF Init, TypeOK, Calls
<1>3. Shape
  BY DEF Init, Shape
<1>4. Accounted
  <2>1. /\ IsFiniteSet({}) /\ Cardinality({}) = 0
        /\ plugged = {} /\ calls = 0 /\ reports = 0
    BY FS_EmptySet DEF Init
  <2> QED
    BY <1>1, <2>1 DEF Accounted
<1>5. EventsAgree /\ GoneIsDead
  BY DEF Init, EventsAgree, GoneIsDead, Running
<1>6. InitHasDevice /\ ControllerHasDevice
  BY DEF Init, InitHasDevice, ControllerHasDevice
<1> QED
  BY <1>2, <1>3, <1>4, <1>5, <1>6 DEF IInv

\* The sums of the account are numbers, before a step and after it.
LEMMA Numbers ==
    ASSUME TypeOK, Accounted
    PROVE  /\ calls \in Nat /\ reports \in Nat /\ reports <= MaxReports
           /\ Cardinality(Adds) \in Nat /\ Cardinality(Listed) \in Nat
           /\ Cardinality(plugged) \in Nat
<1>1. calls \in Nat /\ reports \in Nat /\ reports <= MaxReports
  BY TrackerAssumption DEF TypeOK, Calls
<1> QED
  BY <1>1, FS_CardinalityType DEF Accounted

\* A call is made for an event or a listed device that is counted until then
\* (android.ts:19-43, 66-75).
LEMMA AccountStep == IInv /\ Work => Accounted'
<1> SUFFICES ASSUME IInv, Work PROVE Accounted'
  OBVIOUS
<1> DEFINE A == Cardinality(Adds)
           L == Cardinality(Listed)
           P == Cardinality(plugged)
<1>a. TypeOK /\ Shape /\ Accounted
  BY DEF IInv
<1>b. IsFiniteSet(plugged) /\ IsFiniteSet(Adds) /\ IsFiniteSet(Listed)
  BY <1>a DEF Accounted
<1>n. /\ calls \in Nat /\ reports \in Nat /\ A \in Nat /\ L \in Nat /\ P \in Nat
      /\ calls + A + L <= reports
  BY <1>a, Numbers DEF Accounted
<1>c. ASSUME events' = events PROVE Adds' = Adds
  BY <1>c DEF Adds
<1>d. ASSUME toList' = toList PROVE Listed' = Listed
  BY <1>d DEF Listed
<1>k. ASSUME IsFiniteSet(Adds') PROVE Cardinality(Adds') \in Nat
  BY <1>k, FS_CardinalityType
<1>1. ASSUME NEW d \in Devices, Plug(d) PROVE Accounted'
  <2>1. /\ plugged' = plugged \cup {d} /\ Listed' = Listed /\ calls' = calls
        /\ reports' = reports + 1
    BY <1>1, <1>d, FS_Singleton DEF Plug, Report, callVars, listVars
  <2>2. IsFiniteSet(plugged')
    BY <1>b, <2>1, FS_AddElement
  <2>3. events' = [events EXCEPT ![d] = Append(@, "add")]
    BY <1>1 DEF Plug
  <2>4. IsFiniteSet(Adds') /\ Cardinality(Adds') <= A + 1
    BY <1>a, <1>b, <2>3, OneMoreEvent
  <2> HIDE DEF A, L, P
  <2> QED
    BY <1>b, <1>n, <1>k, <2>1, <2>2, <2>4 DEF Accounted, L
<1>2. ASSUME NEW d \in Devices, Unplug(d) PROVE Accounted'
  <2>1. /\ plugged' = plugged \ {d} /\ Listed' = Listed /\ calls' = calls
        /\ reports' = reports
    BY <1>2, <1>d DEF Unplug, callVars, listVars
  <2>2. IsFiniteSet(plugged')
    BY <1>b, <2>1, FS_RemoveElement
  <2>3. events' = [events EXCEPT ![d] = Append(@, "remove")]
    BY <1>2 DEF Unplug
  <2>4. IsFiniteSet(Adds') /\ Cardinality(Adds') <= A
    <3>1. /\ IsFiniteSet(Adds')
          /\ Cardinality(Adds') <= A + (IF "remove" = "add" THEN 1 ELSE 0)
      BY <1>a, <1>b, <2>3, OneMoreEvent
    <3> HIDE DEF A
    <3> QED
      BY <1>n, <3>1
  <2> HIDE DEF A, L, P
  <2> QED
    BY <1>b, <1>n, <1>k, <2>1, <2>2, <2>4 DEF Accounted, L
<1>3. ASSUME StartTracker PROVE Accounted'
  <2>1. /\ plugged' = plugged /\ Listed' = Listed /\ calls' = calls
        /\ reports' = reports + P
    BY <1>3, <1>d DEF StartTracker, Report, callVars, listVars
  <2>2. events' = [d \in Devices |-> IF d \in plugged THEN <<"add">> ELSE <<>>]
    BY <1>3 DEF StartTracker
  <2>3. IsFiniteSet(Adds') /\ Cardinality(Adds') <= P
    BY <1>a, <1>b, <2>2, AllReportedAnew
  <2> HIDE DEF A, L, P
  <2> QED
    BY <1>b, <1>n, <1>k, <2>1, <2>3 DEF Accounted, L
<1>4. ASSUME ListDevices PROVE Accounted'
  <2>1. /\ plugged' = plugged /\ Adds' = Adds /\ calls' = calls
        /\ reports' = reports + P /\ toList' = plugged
    BY <1>4, <1>c DEF ListDevices, Report, callVars
  <2>2. Listed' = plugged
    BY <1>a, <2>1, TrackerAssumption DEF Listed, Unread, TypeOK
  <2> HIDE DEF A, L
  <2> QED
    BY <1>b, <1>n, <2>1, <2>2 DEF Accounted, A
<1>5. ASSUME NEW d \in Devices, OnAdd(d) PROVE Accounted'
  <2>1. /\ plugged' = plugged /\ Listed' = Listed /\ reports' = reports
        /\ events[d] # <<>> /\ Head(events[d]) = "add"
        /\ events' = [events EXCEPT ![d] = Tail(@)]
        /\ calls' \in {calls, calls + 1}
    BY <1>5, <1>d DEF OnAdd, NewDeviceConnected, callVars, listVars
  <2>2. IsFiniteSet(Adds') /\ Cardinality(Adds') <= A - 1
    BY <1>a, <1>b, <2>1, FirstEventGone
  <2> HIDE DEF A, L, P
  <2> QED
    BY <1>b, <1>n, <1>k, <2>1, <2>2 DEF Accounted, L
<1>6. ASSUME NEW d \in Devices, OnRemove(d) PROVE Accounted'
  <2>1. /\ plugged' = plugged /\ Listed' = Listed /\ reports' = reports
        /\ events[d] # <<>> /\ Head(events[d]) = "remove"
        /\ events' = [events EXCEPT ![d] = Tail(@)]
        /\ calls' = calls
    BY <1>6, <1>d DEF OnRemove, listVars
  <2>2. IsFiniteSet(Adds') /\ Cardinality(Adds') <= A
    <3>1. /\ IsFiniteSet(Adds')
          /\ Cardinality(Adds') <= A - (IF Head(events[d]) = "add" THEN 1 ELSE 0)
      BY <1>a, <1>b, <2>1, FirstEventGone
    <3> HIDE DEF A
    <3> QED
      BY <1>n, <2>1, <3>1
  <2> HIDE DEF A, L, P
  <2> QED
    BY <1>b, <1>n, <1>k, <2>1, <2>2 DEF Accounted, L
<1>7. ASSUME NEW d \in Devices, LoadDevice(d) PROVE Accounted'
  <2>1. /\ plugged' = plugged /\ Adds' = Adds /\ reports' = reports
        /\ toList' = toList \ {d} /\ toList # Unread /\ d \in toList
        /\ calls' \in {calls, calls + 1}
    BY <1>7, <1>c DEF LoadDevice, NewDeviceConnected, callVars, adbVars
  <2>2. Listed = toList /\ Listed' = Listed \ {d} /\ d \in Listed
    BY <1>a, <2>1, TrackerAssumption DEF Listed, Unread, TypeOK
  <2>3. IsFiniteSet(Listed') /\ Cardinality(Listed') = L - 1
    BY <1>b, <2>2, FS_RemoveElement
  <2> HIDE DEF A, L, P
  <2> QED
    BY <1>b, <1>n, <2>1, <2>3 DEF Accounted, A
<1>8. ASSUME CallStep PROVE Accounted'
  <2>1. UNCHANGED <<plugged, reports, events, toList, calls>>
    BY <1>8 DEF CallStep, Attempt, NotBooted, Booted, GiveUp, ReadProperties, ReadFails, Announce,
        Initialized, adbVars, listVars, callVars
  <2> QED
    BY <1>a, <1>c, <1>d, <2>1 DEF Accounted
<1> QED
  BY <1>1, <1>2, <1>3, <1>4, <1>5, <1>6, <1>7, <1>8 DEF Work, AdbStep, EventStep

\* The head of the events is seen (android.ts:19-27).
LEMMA SeenTypes ==
    ASSUME TypeOK, Shape, NEW d \in Devices, events[d] # <<>>,
           events' = [events EXCEPT ![d] = Tail(@)]
    PROVE  /\ events' \in [Devices -> Seq({"add", "remove"})]
           /\ \A e \in Devices : e # d => events'[e] = events[e]
           /\ events'[d] = Tail(events[d])
           /\ events'[d] # <<>> =>
                  events'[d][Len(events'[d])] = events[d][Len(events[d])]
           /\ events'[d] = <<>> => Head(events[d]) = events[d][Len(events[d])]
<1> DEFINE S == {"add", "remove"}
<1>1. /\ events \in [Devices -> Seq(S)] /\ events[d] \in Seq(S) /\ events[d] # <<>>
      /\ Len(events[d]) \in Nat \ {0}
  BY EmptySeq DEF Shape
<1>2. /\ Tail(events[d]) \in Seq(S) /\ Len(Tail(events[d])) = Len(events[d]) - 1
      /\ \A i \in 1 .. Len(Tail(events[d])) : Tail(events[d])[i] = events[d][i + 1]
  BY <1>1, HeadTailProperties
<1> HIDE DEF S
<1>3. /\ events'[d] = Tail(events[d])
      /\ \A e \in Devices : e # d => events'[e] = events[e]
      /\ events' \in [Devices -> Seq(S)]
  BY <1>1, <1>2
<1>4. Tail(events[d]) # <<>> =>
          Tail(events[d])[Len(Tail(events[d]))] = events[d][Len(events[d])]
  <2>1. Tail(events[d]) # <<>> => Len(Tail(events[d])) \in Nat \ {0}
    BY <1>2, EmptySeq
  <2> QED
    BY <1>1, <1>2, <2>1
<1>5. Tail(events[d]) = <<>> => Head(events[d]) = events[d][Len(events[d])]
  <2>1. SUFFICES ASSUME Tail(events[d]) = <<>> PROVE Head(events[d]) = events[d][Len(events[d])]
    OBVIOUS
  <2>2. Len(Tail(events[d])) = 0
    BY <2>1, EmptySeq
  <2>3. Len(events[d]) = 1
    BY <1>1, <1>2, <2>2
  <2> QED
    BY <1>1, <2>3
<1> QED
  BY <1>3, <1>4, <1>5 DEF S

\* One more event (android.ts:19-27).
LEMMA HeardTypes ==
    ASSUME TypeOK, Shape, NEW d \in Devices, NEW e \in {"add", "remove"},
           events' = [events EXCEPT ![d] = Append(@, e)]
    PROVE  /\ events' \in [Devices -> Seq({"add", "remove"})]
           /\ \A f \in Devices : f # d => events'[f] = events[f]
           /\ events'[d] # <<>> /\ events'[d][Len(events'[d])] = e
<1> DEFINE S == {"add", "remove"}
<1>1. events \in [Devices -> Seq(S)] /\ events[d] \in Seq(S)
  BY DEF Shape
<1>2. /\ Append(events[d], e) \in Seq(S) /\ Append(events[d], e) # <<>>
      /\ Append(events[d], e)[Len(Append(events[d], e))] = e
  BY <1>1, AppendProperties
<1> HIDE DEF S
<1> QED
  <2>1. /\ events'[d] = Append(events[d], e)
        /\ \A f \in Devices : f # d => events'[f] = events[f]
        /\ events' \in [Devices -> Seq(S)]
    BY <1>1, <1>2
  <2> QED
    BY <1>2, <2>1 DEF S

\* What a run of newDeviceConnected leaves as it should be, where there is room
\* for the call it makes (android.ts:66-75).
LEMMA NewCallTypes ==
    ASSUME TypeOK, Shape, NEW d \in Devices, NewDeviceConnected(d),
           calls' <= MaxReports, UNCHANGED <<deviceVars, unheard>>
    PROVE  /\ calls \in Nat /\ calls' \in Nat /\ calls' <= calls + 1 /\ calls <= calls'
           /\ \A c \in 1 .. calls : device'[c] = device[c] /\ phase'[c] = phase[c]
           /\ \A c \in Calls : c <= calls' => device'[c] \in Devices
           /\ device' \in [Calls -> Devices \cup {"none"}]
           /\ phase' \in [Calls -> {"none", "waiting", "asking", "reading", "read", "done"}]
           /\ \A c \in Calls : phase'[c] = "none" <=> c > calls'
           /\ abortControl' \in [Devices -> 0 .. calls'] /\ aborted' \subseteq 1 .. calls'
           /\ calls' # calls => phase'[calls'] = "waiting" /\ calls' \in Calls
<1>1. calls \in Nat /\ MaxReports \in Nat /\ calls <= MaxReports
  BY TrackerAssumption DEF TypeOK, Calls
<1>2. CASE cache[d] # 0
  <2>1. UNCHANGED <<calls, device, phase, abortControl, aborted>>
    BY <1>2 DEF NewDeviceConnected, callVars
  <2>2. /\ \A c \in Calls : c <= calls => device[c] \in Devices
        /\ device \in [Calls -> Devices \cup {"none"}]
        /\ phase \in [Calls -> {"none", "waiting", "asking", "reading", "read", "done"}]
        /\ \A c \in Calls : phase[c] = "none" <=> c > calls
        /\ abortControl \in [Devices -> 0 .. calls] /\ aborted \subseteq 1 .. calls
    BY DEF TypeOK, Shape
  <2> QED
    BY <1>1, <2>1, <2>2
<1>3. CASE cache[d] = 0
  <2>1. /\ calls' = calls + 1
        /\ device' = [device EXCEPT ![calls + 1] = d]
        /\ phase' = [phase EXCEPT ![calls + 1] = "waiting"]
        /\ abortControl' = [abortControl EXCEPT ![d] = calls + 1] /\ aborted' = aborted
    BY <1>3 DEF NewDeviceConnected, InitiateAbortControl
  <2>2. calls + 1 \in Calls
    BY <1>1, <2>1 DEF Calls
  <2>3. /\ \A c \in 1 .. calls : device'[c] = device[c] /\ phase'[c] = phase[c]
        /\ \A c \in Calls : c <= calls' => device'[c] \in Devices
        /\ device' \in [Calls -> Devices \cup {"none"}]
    BY <1>1, <2>1, <2>2 DEF TypeOK, Shape, Calls
  <2>4. /\ phase' \in [Calls -> {"none", "waiting", "asking", "reading", "read", "done"}]
        /\ \A c \in Calls : phase'[c] = "none" <=> c > calls'
        /\ phase'[calls'] = "waiting"
    BY <1>1, <2>1, <2>2 DEF TypeOK, Calls
  <2>5. abortControl' \in [Devices -> 0 .. calls'] /\ aborted' \subseteq 1 .. calls'
    BY <1>1, <2>1 DEF TypeOK
  <2> QED
    BY <1>1, <2>1, <2>2, <2>3, <2>4, <2>5
<1> QED
  BY <1>2, <1>3

\* The parts of the types.
AdbTypes ==
    /\ plugged \subseteq Devices /\ reports \in 0 .. MaxReports
    /\ events \in [Devices -> Seq({"add", "remove"})]

CallTypes ==
    /\ calls \in Nat /\ calls <= MaxReports
    /\ toList = Unread \/ toList \subseteq Devices
    /\ lister \in 0 .. calls
    /\ device \in [Calls -> Devices \cup {"none"}]
    /\ \A c \in Calls : c <= calls => device[c] \in Devices
    /\ phase \in [Calls -> {"none", "waiting", "asking", "reading", "read", "done"}]
    /\ \A c \in Calls : phase[c] = "none" <=> c > calls
    /\ abortControl \in [Devices -> 0 .. calls]
    /\ aborted \subseteq 1 .. calls

Announced(d, c) == c # 0 => c \in 1 .. calls /\ device[c] = d /\ phase[c] = "done"

DeviceTypes ==
    /\ cache \in [Devices -> Nat] /\ sent = cache /\ controllers \in [Devices -> Nat]
    /\ \A d \in Devices : Announced(d, cache[d]) /\ Announced(d, controllers[d])
    /\ init \subseteq 1 .. calls /\ \A c \in init : phase[c] = "done"

\* The parts make the whole (android.ts:10-17).
LEMMA TypesAre ==
    TypeOK /\ Shape <=> AdbTypes /\ CallTypes /\ DeviceTypes /\ ended \in BOOLEAN
<1>1. calls \in {0} \cup Calls <=> calls \in Nat /\ calls <= MaxReports
  BY TrackerAssumption DEF Calls
<1>2. ASSUME TypeOK, Shape PROVE AdbTypes /\ CallTypes
  BY <1>1, <1>2 DEF TypeOK, Shape, AdbTypes, CallTypes
<1>3. ASSUME TypeOK, Shape PROVE DeviceTypes
  <2>1. \A d \in Devices : cache[d] \in {0} \cup {c \in 1 .. calls : device[c] = d /\ phase[c] = "done"}
    BY <1>3 DEF TypeOK
  <2>2. \A d \in Devices : controllers[d] \in {0} \cup {c \in 1 .. calls : device[c] = d /\ phase[c] = "done"}
    BY <1>3 DEF TypeOK
  <2> QED
    BY <1>3, <2>1, <2>2 DEF TypeOK, Shape, DeviceTypes, Announced
<1>4. ASSUME AdbTypes, CallTypes, DeviceTypes, ended \in BOOLEAN PROVE TypeOK
  <2>1. ASSUME NEW d \in Devices
        PROVE  {cache[d], sent[d], controllers[d]} \subseteq
                   {0} \cup {c \in 1 .. calls : device[c] = d /\ phase[c] = "done"}
    <3>1. Announced(d, cache[d]) /\ Announced(d, controllers[d]) /\ sent[d] = cache[d]
      BY <1>4 DEF DeviceTypes
    <3> QED
      BY <3>1 DEF Announced
  <2>2. \A d \in Devices : events[d] \in Seq({"add", "remove"})
    BY <1>4 DEF AdbTypes
  <2> QED
    BY <1>1, <1>4, <2>1, <2>2 DEF TypeOK, AdbTypes, CallTypes, DeviceTypes
<1>5. ASSUME AdbTypes, CallTypes, DeviceTypes PROVE Shape
  BY <1>5 DEF Shape, AdbTypes, CallTypes, DeviceTypes
<1>6. TypeOK => ended \in BOOLEAN
  BY DEF TypeOK
<1> QED
  BY <1>2, <1>3, <1>4, <1>5, <1>6

\* What a call that has been announced was, it stays (android.ts:80-110).
LEMMA AnnouncedStays ==
    ASSUME CallTypes, DeviceTypes, calls' \in Nat, calls <= calls',
           \A c \in 1 .. calls : device'[c] = device[c] /\ (phase[c] = "done" => phase'[c] = "done"),
           UNCHANGED deviceVars
    PROVE  DeviceTypes'
<1>1. cache' = cache /\ sent' = sent /\ controllers' = controllers /\ init' = init
  BY DEF deviceVars
<1>2. \A d \in Devices : \A c : Announced(d, c) => Announced(d, c)'
  BY DEF Announced, CallTypes
<1>3. \A d \in Devices : Announced(d, cache[d])' /\ Announced(d, controllers[d])'
  BY <1>1, <1>2 DEF DeviceTypes, Announced
<1> QED
  BY <1>1, <1>3 DEF DeviceTypes, CallTypes

\* Every step keeps the types, as there is a report for every call
\* (android.ts:19-124).
LEMMA TypeStep == IInv /\ Work => TypeOK' /\ Shape'
<1>e. IInv /\ Work => ended' \in BOOLEAN
  BY DEF IInv, TypeOK, Work
<1> SUFFICES ASSUME IInv, Work PROVE AdbTypes' /\ CallTypes' /\ DeviceTypes'
  <2>1. (TypeOK /\ Shape)' <=> (AdbTypes /\ CallTypes /\ DeviceTypes /\ ended \in BOOLEAN)'
    BY TypesAre, PTL
  <2> QED
    BY <2>1, <1>e
<1>a. TypeOK /\ Shape /\ AdbTypes /\ CallTypes /\ DeviceTypes
  BY TypesAre DEF IInv
<1>r. reports' \in 0 .. MaxReports
  <2>1. reports \in 0 .. MaxReports
    BY <1>a DEF AdbTypes
  <2>2. ASSUME NEW S, IsFiniteSet(S), Report(S) PROVE reports' \in 0 .. MaxReports
    BY <2>1, <2>2, FS_CardinalityType, TrackerAssumption DEF Report
  <2>3. IsFiniteSet(plugged) /\ \A d : IsFiniteSet({d})
    BY FS_Singleton DEF IInv, Accounted
  <2>4. reports' = reports \/ \E S : IsFiniteSet(S) /\ Report(S)
    <3>1. CASE AdbStep
      BY <2>3, <3>1 DEF AdbStep, Plug, Unplug, StartTracker
    <3>2. CASE ListDevices
      BY <2>3, <3>2 DEF ListDevices
    <3>3. CASE EventStep
      BY <3>3 DEF EventStep, OnAdd, OnRemove, LoadDevice, adbVars
    <3>4. CASE CallStep
      BY <3>4 DEF CallStep, Attempt, NotBooted, Booted, GiveUp, ReadProperties, ReadFails, Announce,
          Initialized, adbVars
    <3> QED
      BY <3>1, <3>2, <3>3, <3>4 DEF Work
  <2> QED
    BY <2>1, <2>2, <2>4
<1>m. calls' \in Nat => calls' <= MaxReports
  <2>1. Accounted'
    BY AccountStep
  <2>2. Cardinality(Adds') \in Nat /\ Cardinality(Listed') \in Nat
    BY <2>1, FS_CardinalityType DEF Accounted
  <2>3. calls' + Cardinality(Adds') + Cardinality(Listed') <= reports'
    BY <2>1 DEF Accounted
  <2> QED
    BY <1>r, <2>2, <2>3, TrackerAssumption
<1>1. CASE AdbStep
  <2>1. UNCHANGED <<callVars, listVars, deviceVars>>
    BY <1>1 DEF AdbStep, Plug, Unplug, StartTracker
  <2>2. CallTypes' /\ DeviceTypes'
    BY <1>a, <2>1 DEF CallTypes, DeviceTypes, Announced, callVars, listVars, deviceVars
  <2>4. plugged' \subseteq Devices
    BY <1>a, <1>1 DEF AdbTypes, AdbStep, Plug, Unplug, StartTracker
  <2>5. events' \in [Devices -> Seq({"add", "remove"})]
    <3>1. CASE \E d \in Devices : Plug(d) \/ Unplug(d)
      BY <1>a, <3>1, HeardTypes DEF Plug, Unplug
    <3>2. CASE StartTracker
      <4>1. <<>> \in Seq({"add", "remove"}) /\ <<"add">> \in Seq({"add", "remove"})
        OBVIOUS
      <4> QED
        BY <3>2, <4>1 DEF StartTracker
    <3> QED
      BY <1>1, <3>1, <3>2 DEF AdbStep
  <2> QED
    BY <1>r, <2>2, <2>4, <2>5 DEF AdbTypes
<1>2. CASE ListDevices
  <2>1. /\ UNCHANGED <<plugged, events, lister, callVars, deviceVars>> /\ toList' = plugged
    BY <1>2 DEF ListDevices
  <2>2. CallTypes' /\ DeviceTypes'
    BY <1>a, <2>1 DEF AdbTypes, CallTypes, DeviceTypes, Announced, callVars, deviceVars
  <2> QED
    BY <1>a, <1>r, <2>1, <2>2 DEF AdbTypes
<1>3. ASSUME NEW d \in Devices, OnAdd(d) PROVE AdbTypes' /\ CallTypes' /\ DeviceTypes'
  <2>1. /\ events[d] # <<>> /\ events' = [events EXCEPT ![d] = Tail(@)]
        /\ NewDeviceConnected(d) /\ UNCHANGED <<plugged, reports, listVars, deviceVars, unheard>>
    BY <1>3 DEF OnAdd, historyVars
  <2>2. calls' \in Nat
    BY <1>a, <2>1 DEF NewDeviceConnected, callVars, CallTypes
  <2>3. AdbTypes'
    BY <1>a, <2>1, SeenTypes DEF AdbTypes
  <2>4. CallTypes'
    BY <1>a, <1>m, <2>1, <2>2, NewCallTypes DEF CallTypes, listVars
  <2>5. DeviceTypes'
    BY <1>a, <1>m, <2>1, <2>2, NewCallTypes, AnnouncedStays
  <2> QED
    BY <2>3, <2>4, <2>5
<1>4. ASSUME NEW d \in Devices, LoadDevice(d) PROVE AdbTypes' /\ CallTypes' /\ DeviceTypes'
  <2>1. /\ NewDeviceConnected(d) /\ UNCHANGED <<adbVars, deviceVars, unheard>>
        /\ toList # Unread /\ toList' = toList \ {d} /\ lister' \in {lister, calls'}
    BY <1>4 DEF LoadDevice, historyVars
  <2>2. calls' \in Nat
    BY <1>a, <2>1 DEF NewDeviceConnected, callVars, CallTypes
  <2>3. AdbTypes'
    BY <1>a, <2>1 DEF AdbTypes, adbVars
  <2>4. CallTypes'
    BY <1>a, <1>m, <2>1, <2>2, NewCallTypes DEF CallTypes
  <2>5. DeviceTypes'
    BY <1>a, <1>m, <2>1, <2>2, NewCallTypes, AnnouncedStays
  <2> QED
    BY <2>3, <2>4, <2>5
<1>5. ASSUME NEW d \in Devices, OnRemove(d) PROVE AdbTypes' /\ CallTypes' /\ DeviceTypes'
  <2>1. /\ events[d] # <<>> /\ events' = [events EXCEPT ![d] = Tail(@)]
        /\ UNCHANGED <<plugged, reports, calls, device, phase, abortControl, listVars>>
        /\ IF cache[d] = 0 THEN Abort(d) ELSE Remove(d)
    BY <1>5 DEF OnRemove
  <2>2. AdbTypes'
    BY <1>a, <2>1, SeenTypes DEF AdbTypes
  <2>3. aborted' \subseteq 1 .. calls
    <3>1. abortControl[d] \in 0 .. calls /\ aborted \subseteq 1 .. calls
      BY <1>a DEF CallTypes
    <3>2. aborted' \subseteq aborted \cup ({abortControl[d]} \ {0})
      BY <2>1 DEF Abort, Remove
    <3> QED
      BY <3>1, <3>2
  <2>4. CallTypes'
    BY <1>a, <2>1, <2>3 DEF CallTypes, listVars
  <2>5. DeviceTypes'
    <3>1. CASE Abort(d)
      BY <1>a, <2>1, <3>1 DEF Abort, deviceVars, DeviceTypes, Announced
    <3>2. CASE Remove(d)
      BY <1>a, <2>1, <3>2 DEF Remove, DeviceTypes, Announced
    <3> QED
      BY <2>1, <3>1, <3>2
  <2> QED
    BY <2>2, <2>4, <2>5
<1>6. ASSUME NEW c \in Calls, UNCHANGED <<adbVars, calls, device, listVars>>,
             abortControl' \in [Devices -> 0 .. calls], aborted' \subseteq aborted,
             NEW from \in {"waiting", "asking", "reading", "read"},
             NEW to \in {"waiting", "asking", "reading", "read", "done"}, Step(c, from, to)
      PROVE  /\ AdbTypes' /\ CallTypes'
             /\ \A i \in 1 .. calls : phase[i] = "done" => phase'[i] = "done"
             /\ phase' = [phase EXCEPT ![c] = to]
             /\ c \in 1 .. calls /\ device[c] \in Devices /\ phase'[c] = to
  <2>1. AdbTypes'
    BY <1>a, <1>6 DEF AdbTypes, adbVars
  <2>2. c \in 1 .. calls /\ device[c] \in Devices
    BY <1>a, <1>6 DEF CallTypes, Step, Calls
  <2>3. /\ phase' \in [Calls -> {"none", "waiting", "asking", "reading", "read", "done"}]
        /\ \A i \in Calls : phase'[i] = "none" <=> i > calls
        /\ \A i \in Calls : phase[i] = "done" => phase'[i] = "done"
        /\ phase' = [phase EXCEPT ![c] = to] /\ phase'[c] = to
    BY <1>a, <1>6 DEF CallTypes, Step
  <2>4. \A i \in 1 .. calls : i \in Calls
    BY <1>a, TrackerAssumption DEF CallTypes, Calls
  <2>5. CallTypes'
    BY <1>a, <1>6, <2>3 DEF CallTypes, listVars
  <2> QED
    BY <2>1, <2>2, <2>3, <2>4, <2>5
<1>7. ASSUME NEW c \in Calls,
             Attempt(c) \/ NotBooted(c) \/ Booted(c) \/ GiveUp(c) \/ ReadProperties(c) \/ ReadFails(c)
      PROVE  AdbTypes' /\ CallTypes' /\ DeviceTypes'
  <2>1. /\ UNCHANGED <<adbVars, calls, device, listVars, deviceVars>>
        /\ abortControl' \in [Devices -> 0 .. calls] /\ aborted' \subseteq aborted
    BY <1>a, <1>7 DEF Attempt, NotBooted, Booted, GiveUp, ReadProperties, ReadFails, CallTypes
  <2>2. \E from \in {"waiting", "asking", "reading", "read"} :
            \E to \in {"waiting", "asking", "reading", "read", "done"} : Step(c, from, to)
    BY <1>7 DEF Attempt, NotBooted, Booted, GiveUp, ReadProperties, ReadFails
  <2>3. /\ AdbTypes' /\ CallTypes'
        /\ \A i \in 1 .. calls : phase[i] = "done" => phase'[i] = "done"
    BY <1>6, <2>1, <2>2
  <2>4. calls' \in Nat /\ calls <= calls'
    BY <1>a, <2>1 DEF CallTypes
  <2> QED
    BY <1>a, <2>1, <2>3, <2>4, AnnouncedStays
<1>8. ASSUME NEW c \in Calls, Announce(c) PROVE AdbTypes' /\ CallTypes' /\ DeviceTypes'
  <2>1. /\ UNCHANGED <<adbVars, calls, device, abortControl, aborted, listVars, controllers>>
        /\ Step(c, "read", "done") /\ cache' = [cache EXCEPT ![device[c]] = c]
        /\ sent' = [sent EXCEPT ![device[c]] = c] /\ init' = init \cup {c}
    BY <1>8 DEF Announce
  <2>2. /\ AdbTypes' /\ CallTypes'
        /\ \A i \in 1 .. calls : phase[i] = "done" => phase'[i] = "done"
        /\ c \in 1 .. calls /\ device[c] \in Devices /\ phase'[c] = "done"
    <3>1. abortControl' \in [Devices -> 0 .. calls] /\ aborted' \subseteq aborted
      BY <1>a, <2>1 DEF CallTypes
    <3> QED
      BY <1>6, <2>1, <3>1
  <2>3. \A d \in Devices : \A i : Announced(d, i) => Announced(d, i)'
    BY <2>1, <2>2 DEF Announced
  <2>4. Announced(device[c], c)'
    BY <2>1, <2>2 DEF Announced
  <2>5. \A d \in Devices : Announced(d, cache[d])' /\ Announced(d, controllers[d])'
    BY <1>a, <2>1, <2>2, <2>3, <2>4 DEF DeviceTypes, Announced
  <2> QED
    BY <1>a, <2>1, <2>2, <2>5 DEF DeviceTypes
<1>9. ASSUME NEW c \in Calls, Initialized(c) PROVE AdbTypes' /\ CallTypes' /\ DeviceTypes'
  <2>1. /\ UNCHANGED <<adbVars, callVars, listVars, cache, sent>>
        /\ c \in init /\ init' = init \ {c}
        /\ controllers' = [controllers EXCEPT ![device[c]] = c]
    BY <1>9 DEF Initialized
  <2>2. AdbTypes' /\ CallTypes'
    BY <1>a, <2>1 DEF AdbTypes, CallTypes, adbVars, callVars, listVars
  <2>3. Announced(device[c], c) /\ device[c] \in Devices /\ c \in Nat
    BY <1>a, <2>1 DEF Announced, DeviceTypes, CallTypes
  <2>4. \A d \in Devices : Announced(d, cache[d])' /\ Announced(d, controllers[d])'
    BY <1>a, <2>1, <2>3 DEF DeviceTypes, Announced, callVars
  <2> QED
    BY <1>a, <2>1, <2>2, <2>3, <2>4 DEF DeviceTypes, callVars
<1> QED
  BY <1>1, <1>2, <1>3, <1>4, <1>5, <1>7, <1>8, <1>9 DEF Work, EventStep, CallStep

\* The last event of a device is what last became of it (android.ts:19-27).
LEMMA EventsStep == IInv /\ Work => EventsAgree'
<1> SUFFICES ASSUME IInv, Work PROVE EventsAgree'
  OBVIOUS
<1>a. TypeOK /\ Shape /\ EventsAgree
  BY DEF IInv
<1>1. ASSUME NEW d \in Devices, Plug(d) PROVE EventsAgree'
  <2>1. events' = [events EXCEPT ![d] = Append(@, "add")] /\ plugged' = plugged \cup {d}
    BY <1>1 DEF Plug
  <2>2. /\ \A f \in Devices : f # d => events'[f] = events[f]
        /\ events'[d][Len(events'[d])] = "add"
    BY <1>a, <2>1, HeardTypes
  <2> QED
    BY <1>a, <2>1, <2>2 DEF EventsAgree
<1>2. ASSUME NEW d \in Devices, Unplug(d) PROVE EventsAgree'
  <2>1. events' = [events EXCEPT ![d] = Append(@, "remove")] /\ plugged' = plugged \ {d}
    BY <1>2 DEF Unplug
  <2>2. /\ \A f \in Devices : f # d => events'[f] = events[f]
        /\ events'[d][Len(events'[d])] = "remove"
    BY <1>a, <2>1, HeardTypes
  <2> QED
    BY <1>a, <2>1, <2>2 DEF EventsAgree
<1>3. CASE StartTracker
  <2>1. ASSUME NEW d \in Devices, events'[d] # <<>>
        PROVE  events'[d][Len(events'[d])] = "add" /\ d \in plugged'
    <3>1. events'[d] = <<"add">> /\ d \in plugged'
      BY <1>3, <2>1 DEF StartTracker
    <3> QED
      BY <3>1
  <2> QED
    BY <2>1 DEF EventsAgree
<1>4. ASSUME NEW d \in Devices, OnAdd(d) \/ OnRemove(d) PROVE EventsAgree'
  <2>1. /\ events[d] # <<>> /\ events' = [events EXCEPT ![d] = Tail(@)] /\ plugged' = plugged
    BY <1>4 DEF OnAdd, OnRemove
  <2>2. /\ \A f \in Devices : f # d => events'[f] = events[f]
        /\ events'[d] # <<>> => events'[d][Len(events'[d])] = events[d][Len(events[d])]
    BY <1>a, <2>1, SeenTypes
  <2> QED
    BY <1>a, <2>1, <2>2 DEF EventsAgree
<1>5. ASSUME UNCHANGED <<plugged, events>> PROVE EventsAgree'
  BY <1>a, <1>5 DEF EventsAgree
<1>6. CASE ListDevices \/ (\E d \in Devices : LoadDevice(d)) \/ CallStep
  <2>1. UNCHANGED <<plugged, events>>
    BY <1>6 DEF ListDevices, LoadDevice, CallStep, Attempt, NotBooted, Booted, GiveUp,
        ReadProperties, ReadFails, Announce, Initialized, adbVars
  <2> QED
    BY <1>5, <2>1
<1> QED
  BY <1>1, <1>2, <1>3, <1>4, <1>6 DEF Work, AdbStep, EventStep

\* What is known of the lookups of a device that is gone.
Gone(d) == d \notin plugged /\ events[d] = <<>> /\ d \notin dropped

Dead(d) ==
    /\ sent[d] # 0 => sent[d] \in unheard
    /\ \A c \in Running(d) : c \in unheard \/ phase[c] = "waiting"

\* No step revives the lookups of a device that is gone, and the removal that is
\* handled last kills all of them that it can reach (android.ts:45-64, 77-124).
LEMMA GoneStep == IInv /\ Work => GoneIsDead'
<1> SUFFICES ASSUME IInv, Work, NEW d \in Devices, Gone(d)' PROVE Dead(d)'
  BY DEF GoneIsDead, Gone, Dead
<1>a. /\ TypeOK /\ Shape /\ EventsAgree /\ CallTypes /\ DeviceTypes /\ (Gone(d) => Dead(d))
  BY TypesAre DEF IInv, GoneIsDead, Gone, Dead
<1>t. CallTypes'
  <2>1. (TypeOK /\ Shape)' <=> (AdbTypes /\ CallTypes /\ DeviceTypes /\ ended \in BOOLEAN)'
    BY TypesAre, PTL
  <2> QED
    BY <2>1, TypeStep
<1>1. CASE \E e \in Devices : Plug(e) \/ Unplug(e)
  <2>1. PICK e \in Devices : Plug(e) \/ Unplug(e)
    BY <1>1
  <2>2. /\ e # d /\ events'[d] = events[d]
        /\ UNCHANGED <<callVars, deviceVars, historyVars>>
        /\ d \notin plugged
    BY <1>a, <2>1, HeardTypes DEF Plug, Unplug, Gone
  <2> QED
    BY <1>a, <2>2 DEF Gone, Dead, Running, callVars, deviceVars, historyVars
<1>2. CASE StartTracker
  <2>1. /\ sent'[d] = 0 /\ Running(d)' = {}
    BY <1>2, <1>a DEF StartTracker, Gone, Shape, Running, callVars, deviceVars
  <2> QED
    BY <2>1 DEF Dead
<1>3. CASE ListDevices
  BY <1>a, <1>3 DEF ListDevices, Gone, Dead, Running, callVars, deviceVars, historyVars
<1>4. ASSUME NEW e \in Devices, NewDeviceConnected(e), UNCHANGED <<deviceVars, historyVars>>, Gone(d)
      PROVE  Dead(d)'
  <2>1. /\ \A c \in 1 .. calls : device'[c] = device[c] /\ phase'[c] = phase[c]
        /\ calls' # calls => phase'[calls'] = "waiting"
        /\ calls \in Nat /\ calls' \in Nat /\ calls' <= calls + 1 /\ calls <= calls'
    BY <1>a, <1>4, <1>t, NewCallTypes DEF CallTypes, historyVars
  <2>2. ASSUME NEW c \in Running(d)' PROVE c \in unheard' \/ phase'[c] = "waiting"
    <3>1. c \in Calls /\ c \in Nat /\ c > 0 /\ phase'[c] # "none"
      BY TrackerAssumption DEF Running, Calls
    <3>2. c <= calls'
      BY <1>t, <2>1, <3>1 DEF CallTypes
    <3>3. CASE c = calls' /\ calls' # calls
      BY <2>1, <3>3
    <3>4. CASE c \in 1 .. calls
      BY <1>a, <1>4, <2>1, <3>4 DEF Dead, Running, historyVars
    <3> QED
      BY <2>1, <3>1, <3>2, <3>3, <3>4
  <2> QED
    BY <1>a, <1>4, <2>2 DEF Dead, deviceVars, historyVars
<1>5. CASE \E e \in Devices : OnAdd(e)
  <2>1. PICK e \in Devices : OnAdd(e)
    BY <1>5
  <2>2. /\ events[e] # <<>> /\ events' = [events EXCEPT ![e] = Tail(@)] /\ Head(events[e]) = "add"
        /\ NewDeviceConnected(e) /\ UNCHANGED <<plugged, deviceVars, historyVars>>
    BY <2>1 DEF OnAdd
  <2>3. CASE e = d
    <3>1. events[d][Len(events[d])] = "add"
      BY <1>a, <2>2, <2>3, SeenTypes DEF Gone
    <3> QED
      BY <1>a, <2>2, <2>3, <3>1 DEF EventsAgree, Gone
  <2>4. CASE e # d
    <3>1. events'[d] = events[d]
      BY <1>a, <2>2, <2>4, SeenTypes
    <3> QED
      BY <1>4, <2>2, <3>1 DEF Gone, historyVars
  <2> QED
    BY <2>3, <2>4
<1>6. CASE \E e \in Devices : LoadDevice(e)
  <2>1. PICK e \in Devices : LoadDevice(e)
    BY <1>6
  <2>2. NewDeviceConnected(e) /\ UNCHANGED <<adbVars, deviceVars, historyVars>>
    BY <2>1 DEF LoadDevice
  <2> QED
    BY <1>4, <2>2 DEF Gone, adbVars, historyVars
<1>7. CASE \E e \in Devices : OnRemove(e)
  <2>1. PICK e \in Devices : OnRemove(e)
    BY <1>7
  <2>2. /\ events[e] # <<>> /\ events' = [events EXCEPT ![e] = Tail(@)]
        /\ IF cache[e] = 0 THEN Abort(e) ELSE Remove(e)
        /\ dropped' = dropped \ {e}
        /\ UNCHANGED <<plugged, calls, device, phase>>
    BY <2>1 DEF OnRemove
  <2>3. unheard \subseteq unheard' /\ Running(d)' = Running(d)
    BY <2>2 DEF Abort, Remove, Running
  <2>4. CASE e = d
    <3>1. sent'[d] = 0
      BY <1>a, <2>2, <2>4 DEF Abort, Remove, Shape, deviceVars
    <3>2. ASSUME NEW c \in Running(d) PROVE c \in unheard' \/ phase'[c] = "waiting"
      BY <2>2, <2>4 DEF Abort, Remove
    <3> QED
      BY <2>3, <3>1, <3>2 DEF Dead
  <2>5. CASE e # d
    <3>1. sent'[d] = sent[d]
      BY <1>a, <2>2, <2>5 DEF Abort, Remove, Shape, deviceVars
    <3>2. events'[d] = events[d]
      BY <1>a, <2>2, <2>5, SeenTypes
    <3> QED
      BY <1>a, <2>2, <2>3, <2>5, <3>1, <3>2 DEF Gone, Dead
  <2> QED
    BY <2>4, <2>5
<1>8. ASSUME NEW c \in Calls,
             \/ Attempt(c) \/ NotBooted(c) \/ Booted(c) \/ GiveUp(c)
             \/ ReadProperties(c) \/ ReadFails(c) \/ Announce(c) \/ Initialized(c)
      PROVE  Dead(d)'
  <2>1. Gone(d)
    BY <1>8 DEF Attempt, NotBooted, Booted, GiveUp, ReadProperties, ReadFails, Announce, Initialized, Gone,
        adbVars, historyVars
  <2>2. Dead(d) /\ device' = device /\ d \notin plugged
    BY <1>a, <1>8, <2>1 DEF Attempt, NotBooted, Booted, GiveUp, ReadProperties, ReadFails, Announce,
        Initialized, callVars, Gone
  <2>3. phase \in [Calls -> {"none", "waiting", "asking", "reading", "read", "done"}]
    BY <1>a DEF CallTypes
  <2>4. CASE Attempt(c) \/ NotBooted(c) \/ Booted(c) \/ ReadProperties(c) \/ ReadFails(c)
    <3>1. sent' = sent /\ unheard' = unheard
      BY <2>4 DEF Attempt, NotBooted, Booted, ReadProperties, ReadFails, deviceVars, historyVars
    <3>2. ASSUME NEW i \in Running(d)' PROVE i \in unheard \/ phase'[i] = "waiting"
      <4>1. \E from \in {"waiting", "asking", "reading", "read"} : \E to : Step(c, from, to)
        BY <2>4 DEF Attempt, NotBooted, Booted, ReadProperties, ReadFails
      <4>2. i \in Running(d) /\ (i # c => phase'[i] = phase[i])
        BY <2>2, <2>3, <4>1 DEF Running, Step
      <4>3. CASE Attempt(c)
        BY <2>2, <4>2, <4>3 DEF Attempt, Dead, Running
      <4>4. CASE NotBooted(c)
        BY <2>2, <2>3, <4>2, <4>4 DEF NotBooted, Step, Dead
      <4>5. CASE Booted(c) \/ ReadProperties(c) \/ ReadFails(c)
        BY <2>2, <4>2, <4>5 DEF Booted, ReadProperties, ReadFails, Step, Dead
      <4> QED
        BY <2>4, <4>3, <4>4, <4>5
    <3> QED
      BY <2>2, <3>1, <3>2 DEF Dead
  <2>5. CASE GiveUp(c)
    <3>1. /\ sent' = sent /\ unheard' = unheard \ {c}
          /\ phase[c] \in {"waiting", "asking"} /\ phase' = [phase EXCEPT ![c] = "done"]
      BY <2>5 DEF GiveUp, Step, deviceVars
    <3>2. sent[d] # c
      BY <1>a, <3>1, TrackerAssumption DEF DeviceTypes, Announced, Calls
    <3> QED
      BY <2>2, <2>3, <3>1, <3>2 DEF Dead, Running
  <2>6. CASE Announce(c)
    <3>1. /\ sent' = [sent EXCEPT ![device[c]] = c] /\ unheard' = unheard
          /\ phase[c] = "read" /\ phase' = [phase EXCEPT ![c] = "done"]
      BY <2>6 DEF Announce, Step, historyVars
    <3>2. device[c] = d => c \in unheard
      BY <2>2, <3>1 DEF Dead, Running
    <3>3. sent'[d] # 0 => sent'[d] \in unheard
      BY <1>a, <2>2, <3>1, <3>2 DEF Dead, DeviceTypes
    <3> QED
      BY <2>2, <2>3, <3>1, <3>3 DEF Dead, Running
  <2>7. CASE Initialized(c)
    BY <2>2, <2>7 DEF Initialized, Dead, Running, callVars, historyVars
  <2> QED
    BY <1>8, <2>4, <2>5, <2>6, <2>7
<1> QED
  BY <1>1, <1>2, <1>3, <1>5, <1>6, <1>7, <1>8 DEF Work, AdbStep, EventStep, CallStep

\* A controller that is put into the map without its device was overtaken
\* (remote-control/index.ts:25-43).
LEMMA ControllerStep == IInv /\ Work => InitHasDevice' /\ ControllerHasDevice'
<1> SUFFICES ASSUME IInv, Work PROVE InitHasDevice' /\ ControllerHasDevice'
  OBVIOUS
<1>a. CallTypes /\ DeviceTypes /\ InitHasDevice /\ ControllerHasDevice
  BY TypesAre DEF IInv
<1>b. calls \in Nat /\ \A c \in 1 .. calls : c \in Calls /\ c <= calls /\ c # 0
  <2>1. calls \in Nat /\ calls <= MaxReports /\ MaxReports \in Nat
    BY <1>a, TrackerAssumption DEF CallTypes
  <2> QED
    BY <2>1 DEF Calls
<1>i. \A c \in init : c \in 1 .. calls /\ c \in Calls /\ device[c] \in Devices /\ c # 0
  <2>1. init \subseteq 1 .. calls /\ \A c \in Calls : c <= calls => device[c] \in Devices
    BY <1>a DEF CallTypes, DeviceTypes
  <2> QED
    BY <1>b, <2>1
<1>1. ASSUME UNCHANGED <<deviceVars, overtaken>>, \A c \in 1 .. calls : device'[c] = device[c]
      PROVE  InitHasDevice' /\ ControllerHasDevice'
  BY <1>a, <1>i, <1>1 DEF InitHasDevice, ControllerHasDevice, deviceVars
<1>2. CASE AdbStep \/ ListDevices
  <2>1. UNCHANGED <<deviceVars, overtaken, callVars>>
    BY <1>2 DEF AdbStep, Plug, Unplug, StartTracker, ListDevices, historyVars
  <2> QED
    BY <1>1, <2>1 DEF callVars
<1>3. CASE \E d \in Devices : OnAdd(d) \/ LoadDevice(d)
  <2>1. PICK d \in Devices : NewDeviceConnected(d) /\ UNCHANGED <<deviceVars, historyVars>>
    BY <1>3 DEF OnAdd, LoadDevice
  <2>2. \A c \in 1 .. calls : device'[c] = device[c]
    <3>1. device \in [Calls -> Devices \cup {"none"}]
      BY <1>a DEF CallTypes
    <3>2. device' = device \/ device' = [device EXCEPT ![calls + 1] = d]
      BY <2>1 DEF NewDeviceConnected, callVars
    <3>3. device' = [device EXCEPT ![calls + 1] = d] => \A c \in Calls : c # calls + 1 => device'[c] = device[c]
      BY <3>1
    <3>4. \A c \in 1 .. calls : c \in Calls /\ c # calls + 1
      BY <1>b
    <3> QED
      BY <3>2, <3>3, <3>4
  <2> QED
    BY <1>1, <2>1, <2>2 DEF historyVars
<1>4. ASSUME NEW d \in Devices, OnRemove(d) PROVE InitHasDevice' /\ ControllerHasDevice'
  <2>1. device' = device /\ IF cache[d] = 0 THEN Abort(d) ELSE Remove(d)
    BY <1>4 DEF OnRemove
  <2>2. CASE Abort(d)
    BY <1>1, <2>1, <2>2 DEF Abort
  <2>3. CASE Remove(d)
    BY <1>a, <1>i, <2>1, <2>3 DEF Remove, DeviceTypes, InitHasDevice, ControllerHasDevice
  <2> QED
    BY <2>1, <2>2, <2>3
<1>5. ASSUME NEW c \in Calls,
             Attempt(c) \/ NotBooted(c) \/ Booted(c) \/ GiveUp(c) \/ ReadProperties(c) \/ ReadFails(c)
      PROVE  InitHasDevice' /\ ControllerHasDevice'
  <2>1. UNCHANGED <<deviceVars, overtaken, device>>
    BY <1>5 DEF Attempt, NotBooted, Booted, GiveUp, ReadProperties, ReadFails, historyVars
  <2> QED
    BY <1>1, <2>1
<1>6. ASSUME NEW c \in Calls, Announce(c) PROVE InitHasDevice' /\ ControllerHasDevice'
  <2>1. /\ cache' = [cache EXCEPT ![device[c]] = c] /\ init' = init \cup {c}
        /\ UNCHANGED <<device, controllers, overtaken>> /\ phase[c] = "read"
    BY <1>6 DEF Announce, historyVars, Step
  <2>2. c # 0 /\ device[c] \in Devices
    BY <1>a, <2>1, TrackerAssumption DEF CallTypes, Calls
  <2>3. \A d \in Devices : cache'[d] = 0 => cache[d] = 0 /\ d # device[c]
    BY <1>a, <2>1, <2>2 DEF DeviceTypes
  <2> QED
    BY <1>a, <1>i, <2>1, <2>2, <2>3 DEF InitHasDevice, ControllerHasDevice
<1>7. ASSUME NEW c \in Calls, Initialized(c) PROVE InitHasDevice' /\ ControllerHasDevice'
  <2>1. /\ controllers' = [controllers EXCEPT ![device[c]] = c] /\ init' = init \ {c} /\ c \in init
        /\ UNCHANGED <<device, cache, overtaken>>
    BY <1>7 DEF Initialized, historyVars, callVars
  <2> QED
    BY <1>a, <1>i, <2>1 DEF InitHasDevice, ControllerHasDevice, DeviceTypes
<1> QED
  BY <1>2, <1>3, <1>4, <1>5, <1>6, <1>7 DEF Work, EventStep, CallStep

-----------------------------------------------------------------------------
(* Theorems.                                                               *)

\* The invariant is inductive (android.ts:19-124).
LEMMA Inductive == Spec => []IInv
<1>1. IInv /\ (NoTracker \/ UNCHANGED vars) => IInv'
  <2> SUFFICES ASSUME IInv, NoTracker \/ UNCHANGED vars PROVE IInv'
    OBVIOUS
  <2>1. /\ UNCHANGED <<plugged, reports, events, calls, device, phase, abortControl, aborted, toList,
                       lister, cache, sent, init, controllers, unheard, dropped, overtaken>>
        /\ ended' = TRUE \/ ended' = ended
    BY DEF NoTracker, vars, adbVars, callVars, listVars, deviceVars, historyVars
  <2>2. Adds' = Adds /\ Listed' = Listed
    BY <2>1 DEF Adds, Listed
  <2>7. ended' \in BOOLEAN
    BY <2>1 DEF IInv, TypeOK
  <2>3. TypeOK' /\ Shape'
    BY <2>1, <2>7 DEF IInv, TypeOK, Shape
  <2>4. Accounted'
    BY <2>1, <2>2 DEF IInv, Accounted
  <2>5. EventsAgree' /\ GoneIsDead'
    BY <2>1 DEF IInv, EventsAgree, GoneIsDead, Running
  <2>6. InitHasDevice' /\ ControllerHasDevice'
    BY <2>1 DEF IInv, InitHasDevice, ControllerHasDevice
  <2> QED
    BY <2>3, <2>4, <2>5, <2>6 DEF IInv
<1>2. IInv /\ [Next]_vars => IInv'
  BY <1>1, AccountStep, TypeStep, EventsStep, GoneStep, ControllerStep DEF IInv, Next
<1> QED
  BY <1>2, InitInv, PTL DEF Spec

\* No lookup ever runs without a report of its own, and what the tracker, the
\* hub and the map of controllers keep of a device is a call for it that has
\* ended (android.ts:66-112, remote-control/index.ts:25-43).
THEOREM TrackerTypeCorrect == Spec => []TypeOK
<1>1. IInv => TypeOK
  BY DEF IInv
<1> QED
  BY <1>1, Inductive, PTL

\* For any devices and reports: a device that is gone, whose removal was handled
\* and not lost, is announced only by a lookup the abort could not reach
\* (android.ts:45-64, 77-80, 114-124).
THEOREM GoneDevicesAreForgotten == Spec => []GoneIsForgotten
<1>1. IInv => GoneIsForgotten
  BY DEF IInv, GoneIsDead, GoneIsForgotten
<1> QED
  BY <1>1, Inductive, PTL

\* For any devices and reports: a controller without its device is one that was
\* overtaken while it was initialized (remote-control/index.ts:25-43).
THEOREM ControllersHaveDevices == Spec => []ControllerHasDevice
<1>1. IInv => ControllerHasDevice
  BY DEF IInv
<1> QED
  BY <1>1, Inductive, PTL
=============================================================================
