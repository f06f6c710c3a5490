------------------------- MODULE DeviceHandlingProofs -------------------------
(***************************************************************************)
(* What holds of DeviceHandling for any devices, lists, senders, buffers   *)
(* and delays.                                                             *)
(***************************************************************************)
EXTENDS DeviceHandling, TLAPS

USE ListsAssumption, BoundsAssumption, DelaysAssumption

\* A device is at hand exactly while it is worked on, and a round fails it once.
AtHand ==
    /\ device \in Devices <=> phase \in {"creating", "storing", "setting"}
    /\ phase = "creating" => device \notin types
    /\ newFailed \cap (todo \cup {device}) = {}
    /\ phase = "setting" => devicestate[device] = getDeviceState(list, device)

TypeInv == TypeOK /\ AtHand

Known(d) ==
    /\ devicestate[d] = getDeviceState(list, d)
    /\ mgwState[d] = getDeviceState(list, d)

\* A round leaves each usable device for later, or has found its place for it.
RoundInv ==
    phase \notin {"idle", "stopped"} =>
        \A d \in Devices : isValidDevice(list, d) =>
            \/ d \in todo \/ d = device
            \/ d \in newFailed \/ Known(d) \/ d \notin types \/ d \in refused

ForgetInv == NothingForgotten /\ RoundInv

\* A device whose type could not be read is retried until it is registered or let go.
UnreadInv ==
    \A d \in unread \ lapsed :
        IF phase \in {"idle", "stopped"}
        THEN d \in failed
        ELSE d \in newFailed \/ (d \in failed /\ (d \in todo \/ d = device))

\* Whoever is registered after a failed read, and was not let go, is refreshed at
\* the end of the round.
RefreshInv ==
    /\ unrefreshed \ lapsed \subseteq recovered
    /\ phase \in {"idle", "stopped"} => unrefreshed \subseteq lapsed

\* A device is worked on, failed or retried in one place only, with its type, and
\* only if the list in force has it.
PlaceInv ==
    /\ device \notin todo
    /\ device \in Devices => isValidDevice(list, device)
    /\ phase \in {"storing", "setting"} => device \in types
    /\ \A d \in newFailed : isValidDevice(list, d)
    /\ phase \in {"idle", "stopped"} =>
          newFailed = {} /\ \A d \in failed : isValidDevice(list, d)

-------------------------------------------------------------------------------
\* Every variable keeps its kind, and the delay its bounds.
LEMMA TypeStep == TypeInv /\ [Next]_vars => TypeInv'
<1> SUFFICES ASSUME TypeInv, [Next]_vars
             PROVE  TypeInv'
    OBVIOUS
<1> USE DEF TypeInv, TypeOK, AtHand, getDeviceState, States, Infos,
            listVars, roundVars, retryVars, repoVars,
            stateVars, valueVars, stopVars, historyVars
<1>1. ASSUME NEW s \in Senders, NEW l \in Lists, deviceInfoHandler(s, l)
      PROVE  TypeInv'
    BY <1>1 DEF deviceInfoHandler
<1>2. ASSUME NEW s \in Senders, NotifyRefresh(s)
      PROVE  TypeInv'
    BY <1>2 DEF NotifyRefresh
<1>3. ASSUME NEW s \in Senders, DeviceInfoUpdate(s)
      PROVE  TypeInv'
    BY <1>3 DEF DeviceInfoUpdate
<1>4. CASE TakeList
    BY <1>4 DEF TakeList, devicesOf, isValidDevice, letGo
<1>5. CASE Retry
    BY <1>5 DEF Retry, doubled
<1>6. ASSUME NEW d \in Devices, Skip(d)
      PROVE  TypeInv'
    BY <1>6 DEF Skip, nowRecovered, isValidDevice, letGo
<1>7. ASSUME NEW d \in Devices, LookUp(d)
      PROVE  TypeInv'
    BY <1>7 DEF LookUp, isValidDevice, letGo
<1>8. CASE Create
    BY <1>8 DEF Create, letGo
<1>9. CASE storeDeviceState
    BY <1>9 DEF storeDeviceState
<1>10. CASE SetDevice
    BY <1>10 DEF SetDevice, nowRecovered, letGo
<1>11. CASE EndRound
    BY <1>11 DEF EndRound, retryWhile
<1>12. CASE Stop
    BY <1>12 DEF Stop
<1>13. ASSUME NEW d \in Devices, RefreshDeviceEventValues(d)
      PROVE  TypeInv'
    BY <1>13 DEF RefreshDeviceEventValues
<1>14. ASSUME NEW d \in Devices, Event(d)
      PROVE  TypeInv'
    BY <1>14 DEF Event
<1>15. CASE RefreshEventValues
    BY <1>15 DEF RefreshEventValues
<1>16. ASSUME NEW e \in events, handleEvent(e)
      PROVE  TypeInv'
    BY <1>16 DEF handleEvent
<1>17. CASE RepoChanges
    BY <1>17 DEF RepoChanges
<1>18. CASE Shutdown
    BY <1>18 DEF Shutdown
<1>19. CASE MgwDisconnect
    BY <1>19 DEF MgwDisconnect
<1>20. CASE UNCHANGED vars
    BY <1>20 DEF vars
<1>21. QED
    BY <1>1, <1>2, <1>3, <1>4, <1>5, <1>6, <1>7, <1>8, <1>9, <1>10, <1>11, <1>12,
       <1>13, <1>14, <1>15, <1>16, <1>17, <1>18, <1>19, <1>20
       DEF Next, Round

-------------------------------------------------------------------------------
\* No step of a round drops a usable device.
LEMMA ForgetStep == TypeInv /\ ForgetInv /\ [Next]_vars => ForgetInv'
<1> SUFFICES ASSUME TypeInv, ForgetInv, [Next]_vars
             PROVE  ForgetInv'
    OBVIOUS
<1> USE DEF TypeInv, TypeOK, AtHand, ForgetInv, NothingForgotten, RoundInv, Known,
            isValidDevice, getDeviceState, listVars, roundVars,
            retryVars, repoVars, stateVars, valueVars, stopVars, historyVars
<1>1. ASSUME NEW s \in Senders, NEW l \in Lists, deviceInfoHandler(s, l)
      PROVE  ForgetInv'
    BY <1>1 DEF deviceInfoHandler
<1>2. ASSUME NEW s \in Senders, NotifyRefresh(s)
      PROVE  ForgetInv'
    BY <1>2 DEF NotifyRefresh
<1>3. ASSUME NEW s \in Senders, DeviceInfoUpdate(s)
      PROVE  ForgetInv'
    BY <1>3 DEF DeviceInfoUpdate
<1>4. CASE TakeList
    BY <1>4 DEF TakeList, devicesOf, letGo
<1>5. CASE Retry
    BY <1>5 DEF Retry, doubled
<1>6. ASSUME NEW d \in Devices, Skip(d)
      PROVE  ForgetInv'
    BY <1>6 DEF Skip, nowRecovered, letGo
<1>7. ASSUME NEW d \in Devices, LookUp(d)
      PROVE  ForgetInv'
    BY <1>7 DEF LookUp, letGo
<1>8. CASE Create
    BY <1>8 DEF Create, letGo
<1>9. CASE storeDeviceState
    BY <1>9 DEF storeDeviceState
<1>10. CASE SetDevice
    BY <1>10 DEF SetDevice, nowRecovered, letGo
<1>11. CASE EndRound
    BY <1>11 DEF EndRound, retryWhile
<1>12. CASE Stop
    BY <1>12 DEF Stop
<1>13. ASSUME NEW d \in Devices, RefreshDeviceEventValues(d)
      PROVE  ForgetInv'
    BY <1>13 DEF RefreshDeviceEventValues
<1>14. ASSUME NEW d \in Devices, Event(d)
      PROVE  ForgetInv'
    BY <1>14 DEF Event
<1>15. CASE RefreshEventValues
    BY <1>15 DEF RefreshEventValues
<1>16. ASSUME NEW e \in events, handleEvent(e)
      PROVE  ForgetInv'
    BY <1>16 DEF handleEvent
<1>17. CASE RepoChanges
    BY <1>17 DEF RepoChanges
<1>18. CASE Shutdown
    BY <1>18 DEF Shutdown
<1>19. CASE MgwDisconnect
    BY <1>19 DEF MgwDisconnect
<1>20. CASE UNCHANGED vars
    BY <1>20 DEF vars
<1>21. QED
    BY <1>1, <1>2, <1>3, <1>4, <1>5, <1>6, <1>7, <1>8, <1>9, <1>10, <1>11, <1>12,
       <1>13, <1>14, <1>15, <1>16, <1>17, <1>18, <1>19, <1>20
       DEF Next, Round

\* No step works on a device the list in force does not have.
LEMMA PlaceStep == TypeInv /\ PlaceInv /\ [Next]_vars => PlaceInv'
<1> SUFFICES ASSUME TypeInv, PlaceInv, [Next]_vars
             PROVE  PlaceInv'
    OBVIOUS
<1> USE DEF TypeInv, TypeOK, AtHand, PlaceInv, isValidDevice,
            listVars, roundVars, retryVars, repoVars,
            stateVars, valueVars, stopVars, historyVars
<1>1. ASSUME NEW s \in Senders, NEW l \in Lists, deviceInfoHandler(s, l)
      PROVE  PlaceInv'
    BY <1>1 DEF deviceInfoHandler
<1>2. ASSUME NEW s \in Senders, NotifyRefresh(s)
      PROVE  PlaceInv'
    BY <1>2 DEF NotifyRefresh
<1>3. ASSUME NEW s \in Senders, DeviceInfoUpdate(s)
      PROVE  PlaceInv'
    BY <1>3 DEF DeviceInfoUpdate
<1>4. CASE TakeList
    BY <1>4 DEF TakeList, devicesOf, letGo
<1>5. CASE Retry
    BY <1>5 DEF Retry, doubled
<1>6. ASSUME NEW d \in Devices, Skip(d)
      PROVE  PlaceInv'
    BY <1>6 DEF Skip, nowRecovered, letGo
<1>7. ASSUME NEW d \in Devices, LookUp(d)
      PROVE  PlaceInv'
    BY <1>7 DEF LookUp, letGo
<1>8. CASE Create
    BY <1>8 DEF Create, letGo
<1>9. CASE storeDeviceState
    BY <1>9 DEF storeDeviceState
<1>10. CASE SetDevice
    BY <1>10 DEF SetDevice, nowRecovered, letGo
<1>11. CASE EndRound
    BY <1>11 DEF EndRound, retryWhile
<1>12. CASE Stop
    BY <1>12 DEF Stop
<1>13. ASSUME NEW d \in Devices, RefreshDeviceEventValues(d)
      PROVE  PlaceInv'
    BY <1>13 DEF RefreshDeviceEventValues
<1>14. ASSUME NEW d \in Devices, Event(d)
      PROVE  PlaceInv'
    BY <1>14 DEF Event
<1>15. CASE RefreshEventValues
    BY <1>15 DEF RefreshEventValues
<1>16. ASSUME NEW e \in events, handleEvent(e)
      PROVE  PlaceInv'
    BY <1>16 DEF handleEvent
<1>17. CASE RepoChanges
    BY <1>17 DEF RepoChanges
<1>18. CASE Shutdown
    BY <1>18 DEF Shutdown
<1>19. CASE MgwDisconnect
    BY <1>19 DEF MgwDisconnect
<1>20. CASE UNCHANGED vars
    BY <1>20 DEF vars
<1>21. QED
    BY <1>1, <1>2, <1>3, <1>4, <1>5, <1>6, <1>7, <1>8, <1>9, <1>10, <1>11, <1>12,
       <1>13, <1>14, <1>15, <1>16, <1>17, <1>18, <1>19, <1>20
       DEF Next, Round

\* No step leaves a device that failed out of the devices to be retried and
\* refreshed, unless it lets it go.
LEMMA UnreadStep == TypeInv /\ UnreadInv /\ RefreshInv /\ [Next]_vars => UnreadInv' /\ RefreshInv'
<1> SUFFICES ASSUME TypeInv, UnreadInv, RefreshInv, [Next]_vars
             PROVE  UnreadInv' /\ RefreshInv'
    OBVIOUS
<1> USE DEF TypeInv, TypeOK, AtHand, UnreadInv, RefreshInv, isValidDevice,
            listVars, roundVars, retryVars, repoVars,
            stateVars, valueVars, stopVars, historyVars
<1>1. ASSUME NEW s \in Senders, NEW l \in Lists, deviceInfoHandler(s, l)
      PROVE  UnreadInv' /\ RefreshInv'
    BY <1>1 DEF deviceInfoHandler
<1>2. ASSUME NEW s \in Senders, NotifyRefresh(s)
      PROVE  UnreadInv' /\ RefreshInv'
    BY <1>2 DEF NotifyRefresh
<1>3. ASSUME NEW s \in Senders, DeviceInfoUpdate(s)
      PROVE  UnreadInv' /\ RefreshInv'
    BY <1>3 DEF DeviceInfoUpdate
<1>4. CASE TakeList
    BY <1>4 DEF TakeList, devicesOf, letGo
<1>5. CASE Retry
    BY <1>5 DEF Retry, doubled
<1>6. ASSUME NEW d \in Devices, Skip(d)
      PROVE  UnreadInv' /\ RefreshInv'
    BY <1>6 DEF Skip, nowRecovered, letGo
<1>7. ASSUME NEW d \in Devices, LookUp(d)
      PROVE  UnreadInv' /\ RefreshInv'
    <2>1. /\ phase = "choosing" /\ device \notin Devices /\ d \in todo /\ todo' = todo \ {d}
          /\ failed' = failed /\ recovered' = recovered
        BY <1>7 DEF LookUp
    <2>2. CASE phase' = "storing" /\ device' = d /\ UNCHANGED <<newFailed, historyVars>>
        BY <2>1, <2>2
    <2>3. CASE /\ CreateMissingDeviceTypes
               /\ phase' = "creating" /\ device' = d
               /\ letGo({}) /\ UNCHANGED <<newFailed, unread, unrefreshed>>
        BY <2>1, <2>3 DEF letGo
    <2>4. CASE /\ ~CreateMissingDeviceTypes
               /\ phase' = "choosing" /\ device' = NoDevice
               /\ letGo({d}) /\ UNCHANGED <<newFailed, unread, unrefreshed>>
        BY <2>1, <2>4 DEF letGo
    <2>5. CASE /\ newFailed' = newFailed \cup {d} /\ unread' = unread \cup {d}
               /\ lapsed' = lapsed \ {d} /\ unrefreshed' = unrefreshed \ {d}
               /\ UNCHANGED <<phase, device>>
        BY <2>1, <2>5
    <2>6. QED
        BY <1>7, <2>2, <2>3, <2>4, <2>5 DEF LookUp
<1>8. CASE Create
    BY <1>8 DEF Create, letGo
<1>9. CASE storeDeviceState
    BY <1>9 DEF storeDeviceState
<1>10. CASE SetDevice
    <2>1. /\ phase = "setting" /\ device \in Devices /\ phase' = "choosing" /\ device' = NoDevice
          /\ device \notin newFailed /\ UNCHANGED <<todo, failed, newFailed>>
        BY <1>10 DEF SetDevice
    <2>2. CASE /\ list[device] = "enabled" /\ recovered' = nowRecovered(device)
               /\ unread' = unread \ {device}
               /\ unrefreshed' = unrefreshed \cup (unread \cap {device})
               /\ UNCHANGED lapsed
        <3>1. UnreadInv'
            BY <2>1, <2>2
        <3>2. ASSUME device \in unread \ lapsed
              PROVE  device \in recovered'
            BY <2>1, <2>2, <3>2 DEF nowRecovered
        <3>3. recovered \subseteq recovered'
            BY <2>2 DEF nowRecovered
        <3>4. RefreshInv'
            BY <2>1, <2>2, <3>2, <3>3
        <3>5. QED
            BY <3>1, <3>4
    <2>3. CASE /\ recovered \subseteq recovered'
               /\ letGo({device}) /\ UNCHANGED <<unread, unrefreshed>>
        BY <2>1, <2>3 DEF letGo
    <2>4. recovered \subseteq nowRecovered(device)
        BY DEF nowRecovered
    <2>5. QED
        BY <1>10, <2>2, <2>3, <2>4 DEF SetDevice
<1>11. CASE EndRound
    BY <1>11 DEF EndRound, retryWhile
<1>12. CASE Stop
    BY <1>12 DEF Stop
<1>13. ASSUME NEW d \in Devices, RefreshDeviceEventValues(d)
      PROVE  UnreadInv' /\ RefreshInv'
    BY <1>13 DEF RefreshDeviceEventValues
<1>14. ASSUME NEW d \in Devices, Event(d)
      PROVE  UnreadInv' /\ RefreshInv'
    BY <1>14 DEF Event
<1>15. CASE RefreshEventValues
    BY <1>15 DEF RefreshEventValues
<1>16. ASSUME NEW e \in events, handleEvent(e)
      PROVE  UnreadInv' /\ RefreshInv'
    BY <1>16 DEF handleEvent
<1>17. CASE RepoChanges
    BY <1>17 DEF RepoChanges
<1>18. CASE Shutdown
    BY <1>18 DEF Shutdown
<1>19. CASE MgwDisconnect
    BY <1>19 DEF MgwDisconnect
<1>20. CASE UNCHANGED vars
    BY <1>20 DEF vars
<1>21. QED
    BY <1>1, <1>2, <1>3, <1>4, <1>5, <1>6, <1>7, <1>8, <1>9, <1>10, <1>11, <1>12,
       <1>13, <1>14, <1>15, <1>16, <1>17, <1>18, <1>19, <1>20
       DEF Next, Round

-------------------------------------------------------------------------------
\* The refinement.

\* A step that changes none of what the promise is about.
LEMMA SameBook ==
    ASSUME UNCHANGED <<phase, list, todo, device, failed, newFailed, devicestate, mgwState,
                       types, mgwConnected>>
    PROVE  [Promise!Next]_(Promise!vars)
<1>1. UNCHANGED outstanding
    BY DEF outstanding, isValidDevice
<1>2. QED
    BY <1>1 DEF Promise!vars

\* What the list says is what the promise reads in it.
LEMMA SameReading ==
    ASSUME NEW l, NEW d \in Devices, isValidDevice(l, d)
    PROVE  getDeviceState(l, d) = Promise!stateIn(l, d)
BY DEF isValidDevice, getDeviceState, Promise!stateIn

\* The device at hand is outstanding, and is not when it was dealt with.
LEMMA AtHandOutstanding ==
    ASSUME TypeInv, PlaceInv, device \in Devices
    PROVE  /\ device \in outstanding
           /\ phase' = "choosing" /\ device' = NoDevice /\ UNCHANGED <<list, todo, newFailed>>
                 => outstanding' = outstanding \ {device}
           /\ phase' \in {"storing", "setting"} /\ UNCHANGED <<list, todo, device, newFailed>>
                 => outstanding' = outstanding
BY DEF TypeInv, AtHand, PlaceInv, outstanding, isValidDevice

\* A list, a device's answer or an entry in the event filter is a step of the
\* promise; where a round begins and ends, and what is retried, is not.
LEMMA PromiseStep == TypeInv /\ PlaceInv /\ [Next]_vars => [Promise!Next]_(Promise!vars)
<1> SUFFICES ASSUME TypeInv, PlaceInv, [Next]_vars
             PROVE  [Promise!Next]_(Promise!vars)
    OBVIOUS
<1> USE DEF listVars, roundVars, retryVars, repoVars, stateVars, valueVars, stopVars, historyVars
<1>1. ASSUME NEW s \in Senders, NEW l \in Lists, deviceInfoHandler(s, l)
      PROVE  [Promise!Next]_(Promise!vars)
    BY <1>1, SameBook DEF deviceInfoHandler
<1>2. ASSUME NEW s \in Senders, NotifyRefresh(s)
      PROVE  [Promise!Next]_(Promise!vars)
    BY <1>2, SameBook DEF NotifyRefresh
<1>3. ASSUME NEW s \in Senders, DeviceInfoUpdate(s)
      PROVE  [Promise!Next]_(Promise!vars)
    BY <1>3, SameBook DEF DeviceInfoUpdate
<1>4. CASE TakeList
    <2>1. deviceupdatebuffer \in Seq(Lists) /\ deviceupdatebuffer # <<>>
        BY <1>4 DEF TakeList, TypeInv, TypeOK
    <2>2. /\ list' \in Lists /\ todo' = devicesOf(list') /\ newFailed' = {}
          /\ phase' = "choosing" /\ device' = NoDevice
          /\ UNCHANGED <<devicestate, mgwState, types, mgwConnected>>
        BY <1>4, <2>1 DEF TakeList, TypeInv, TypeOK, AtHand
    <2>3. outstanding' = Promise!usable(list')
        BY <2>2 DEF outstanding, devicesOf, isValidDevice, Promise!usable
    <2>4. QED
        BY <2>2, <2>3 DEF Promise!Next, Promise!NewList
<1>5. CASE Retry
    <2>1. outstanding = failed
        BY <1>5 DEF Retry, outstanding
    <2>2. outstanding' = failed
        BY <1>5 DEF Retry, outstanding, PlaceInv, TypeInv, TypeOK, AtHand, isValidDevice
    <2>3. QED
        BY <1>5, <2>1, <2>2 DEF Retry, Promise!vars
<1>6. ASSUME NEW d \in Devices, Skip(d)
      PROVE  [Promise!Next]_(Promise!vars)
    <2>1. outstanding' = outstanding
        BY <1>6 DEF Skip, outstanding, isValidDevice
    <2>2. QED
        BY <1>6, <2>1 DEF Skip, Promise!vars
<1>7. ASSUME NEW d \in Devices, LookUp(d)
      PROVE  [Promise!Next]_(Promise!vars)
    <2>1. /\ phase = "choosing" /\ d \in todo /\ isValidDevice(list, d) /\ device \notin Devices
          /\ todo' = todo \ {d} /\ d \notin newFailed
          /\ UNCHANGED <<list, types, devicestate, mgwState, mgwConnected>>
        BY <1>7 DEF LookUp, TypeInv, TypeOK, AtHand
    <2>2. CASE phase' \in {"storing", "creating"} /\ device' = d /\ newFailed' = newFailed
        <3>1. outstanding' = outstanding
            BY <2>1, <2>2 DEF outstanding, isValidDevice
        <3>2. QED
            BY <2>1, <3>1 DEF Promise!vars
    <2>3. CASE d \notin types /\ phase' = "choosing" /\ device' = NoDevice /\ newFailed' = newFailed
        <3>1. d \in outstanding /\ outstanding' = outstanding \ {d}
            BY <2>1, <2>3 DEF outstanding, isValidDevice
        <3>2. QED
            BY <2>1, <2>3, <3>1 DEF Promise!Next, Promise!GiveUp
    <2>4. CASE newFailed' = newFailed \cup {d} /\ UNCHANGED <<phase, device>>
        <3>1. outstanding' = outstanding
            BY <2>1, <2>4 DEF outstanding, isValidDevice
        <3>2. QED
            BY <2>1, <3>1 DEF Promise!vars
    <2>5. QED
        BY <1>7, <2>2, <2>3, <2>4 DEF LookUp
<1>8. CASE Create
    <2>1. /\ phase = "creating" /\ device \in Devices /\ device \notin types
          /\ UNCHANGED <<list, todo, newFailed, devicestate, mgwState, mgwConnected>>
        BY <1>8 DEF Create, TypeInv, AtHand
    <2>2. CASE types' = types \cup {device} /\ phase' = "storing" /\ UNCHANGED device
        <3>1. device \in outstanding /\ outstanding' = outstanding
            BY <2>1, <2>2, AtHandOutstanding
        <3>2. QED
            BY <2>1, <2>2, <3>1 DEF Promise!Next, Promise!AddType
    <2>3. CASE phase' = "choosing" /\ device' = NoDevice /\ UNCHANGED types
        <3>1. device \in outstanding /\ outstanding' = outstanding \ {device}
            BY <2>1, <2>3, AtHandOutstanding
        <3>2. QED
            BY <2>1, <2>3, <3>1 DEF Promise!Next, Promise!GiveUp
    <2>4. QED
        BY <1>8, <2>2, <2>3 DEF Create
<1>9. CASE storeDeviceState
    <2>1. /\ phase = "storing" /\ phase' = "setting" /\ device \in Devices /\ device \in types
          /\ isValidDevice(list, device)
          /\ UNCHANGED <<list, todo, device, newFailed, types, mgwState, mgwConnected>>
        BY <1>9 DEF storeDeviceState, TypeInv, AtHand, PlaceInv
    <2>2. device \in outstanding /\ outstanding' = outstanding
        BY <2>1, AtHandOutstanding
    <2>3. devicestate' = [devicestate EXCEPT ![device] = Promise!stateIn(list, device)]
        BY <1>9, <2>1, SameReading DEF storeDeviceState
    <2>4. QED
        BY <2>1, <2>2, <2>3 DEF Promise!Next, Promise!Filter
<1>10. CASE SetDevice
    <2>1. /\ phase = "setting" /\ phase' = "choosing" /\ device' = NoDevice
          /\ device \in Devices /\ device \in types /\ isValidDevice(list, device)
          /\ devicestate[device] = getDeviceState(list, device)
          /\ UNCHANGED <<list, todo, newFailed, types, devicestate, mgwConnected>>
        BY <1>10 DEF SetDevice, TypeInv, AtHand, PlaceInv
    <2>2. device \in outstanding /\ outstanding' = outstanding \ {device}
        BY <2>1, AtHandOutstanding
    <2>3. getDeviceState(list, device) = Promise!stateIn(list, device)
        BY <2>1, SameReading
    <2>4. CASE mgwConnected /\ mgwState' = [mgwState EXCEPT ![device] = getDeviceState(list, device)]
        <3>1. Promise!Register(device)
            BY <2>1, <2>2, <2>3, <2>4 DEF Promise!Register, TypeInv, TypeOK
        <3>2. QED
            BY <2>1, <3>1 DEF Promise!Next
    <2>5. CASE (mgwConnected => SetDeviceErrors) /\ UNCHANGED mgwState
        BY <2>1, <2>2, <2>5 DEF Promise!Next, Promise!GiveUp
    <2>6. QED
        BY <1>10, <2>4, <2>5 DEF SetDevice
<1>11. CASE EndRound
    <2>1. outstanding = newFailed
        BY <1>11 DEF EndRound, outstanding, TypeInv, AtHand
    <2>2. outstanding' = newFailed
        BY <1>11 DEF EndRound, outstanding
    <2>3. QED
        BY <1>11, <2>1, <2>2 DEF EndRound, Promise!vars
<1>12. CASE Stop
    BY <1>12 DEF Stop, outstanding, Promise!vars
<1>13. ASSUME NEW d \in Devices, RefreshDeviceEventValues(d)
      PROVE  [Promise!Next]_(Promise!vars)
    BY <1>13, SameBook DEF RefreshDeviceEventValues
<1>14. ASSUME NEW d \in Devices, Event(d)
      PROVE  [Promise!Next]_(Promise!vars)
    BY <1>14, SameBook DEF Event
<1>15. CASE RefreshEventValues
    BY <1>15, SameBook DEF RefreshEventValues
<1>16. ASSUME NEW e \in events, handleEvent(e)
      PROVE  [Promise!Next]_(Promise!vars)
    BY <1>16, SameBook DEF handleEvent
<1>17. CASE RepoChanges
    BY <1>17, SameBook DEF RepoChanges
<1>18. CASE Shutdown
    BY <1>18, SameBook DEF Shutdown
<1>19. CASE MgwDisconnect
    <2>1. outstanding' = outstanding
        BY <1>19 DEF MgwDisconnect, outstanding, isValidDevice
    <2>2. QED
        BY <1>19, <2>1 DEF MgwDisconnect, Promise!Next, Promise!Disconnect, TypeInv, TypeOK
<1>20. CASE UNCHANGED vars
    BY <1>20, SameBook DEF vars
<1>21. QED
    BY <1>1, <1>2, <1>3, <1>4, <1>5, <1>6, <1>7, <1>8, <1>9, <1>10, <1>11, <1>12,
       <1>13, <1>14, <1>15, <1>16, <1>17, <1>18, <1>19, <1>20
       DEF Next, Round

-------------------------------------------------------------------------------
LEMMA InitInv == Init => TypeInv /\ ForgetInv /\ UnreadInv /\ RefreshInv /\ PlaceInv
<1> SUFFICES ASSUME Init
             PROVE  TypeInv /\ ForgetInv /\ UnreadInv /\ RefreshInv /\ PlaceInv
    OBVIOUS
<1>1. Empty \in [Devices -> Infos] /\ \A d \in Devices : ~isValidDevice(Empty, d)
    BY DEF Empty, Infos, isValidDevice
<1>2. TypeOK
    <2>1. deviceupdatebuffer \in Seq(Lists)
        BY DEF Init
    <2>2. devicestate \in [Devices -> States] /\ mgwState \in [Devices -> States]
        BY DEF Init, States
    <2>3. sending \in [Senders -> Lists \cup {NoList}]
        BY DEF Init
    <2>4. delay \in deviceRetryMinDelay .. deviceRetryMaxDelay
        BY DEF Init
    <2>5. events \subseteq [device : Devices, usable : BOOLEAN]
        BY DEF Init
    <2>6. /\ register \in Lists \cup {NoList} /\ received \in 0 .. MaxMessages
          /\ list \in [Devices -> Infos] /\ types \subseteq Devices /\ repoUp \in BOOLEAN
        BY <1>1 DEF Init
    <2>7. /\ phase = "idle" /\ initial = "none" /\ ctxDone = FALSE /\ mgwConnected = TRUE
          /\ retry = FALSE /\ device = NoDevice
          /\ firstOf = {} /\ todo = {} /\ failed = {} /\ newFailed = {} /\ recovered = {}
          /\ refreshing = {} /\ requested = {}
          /\ refused = {} /\ unread = {} /\ lapsed = {} /\ unrefreshed = {} /\ unheard = {}
        BY DEF Init
    <2>8. QED
        BY <2>1, <2>2, <2>3, <2>4, <2>5, <2>6, <2>7 DEF TypeOK
<1>3. AtHand
    BY DEF Init, AtHand
<1>4. ForgetInv
    BY <1>1 DEF Init, ForgetInv, NothingForgotten, RoundInv
<1>5. UnreadInv /\ RefreshInv
    BY DEF Init, UnreadInv, RefreshInv
<1>6. PlaceInv
    BY DEF Init, PlaceInv
<1>7. QED
    BY <1>2, <1>3, <1>4, <1>5, <1>6 DEF TypeInv

\* Every variable keeps its kind, and the retry delay stays between its bounds
\* however often it is doubled and reset (startDeviceHandling).
THEOREM TypeCorrect == Safety => []TypeOK
<1>1. TypeInv => TypeOK
    BY DEF TypeInv
<1>2. QED
    BY <1>1, InitInv, TypeStep, PTL DEF Safety

\* Whatever fails in a round, no usable device is forgotten by it: it is
\* registered, waits for an armed retry, has no type or could not be published
\* (handleDevices, handleDevice).
THEOREM NothingForgottenHolds == Safety => []NothingForgotten
<1>1. ForgetInv => NothingForgotten
    BY DEF ForgetInv
<1>2. QED
    BY <1>1, InitInv, TypeStep, ForgetStep, PTL DEF Safety

\* Whatever fails, a device that is registered after its type could not be read
\* is asked for its values, unless the loop had let it go since the last read that
\* failed (handleDeviceInfoUpdates, refreshEventValues).
THEOREM RefreshedUnlessLapsedHolds == Safety => []RefreshedUnlessLapsed
<1>1. RefreshInv => RefreshedUnlessLapsed
    BY DEF RefreshInv, RefreshedUnlessLapsed
<1>2. QED
    BY <1>1, InitInv, TypeStep, UnreadStep, PTL DEF Safety

\* For any lists, devices and outages the device loop implements DevicePromise:
\* over all rounds and retries of a list, each usable device of it is published
\* at most once, as the list says, behind its type and the event filter
\* (startDeviceHandling, handleDeviceInfoUpdates, handleDeviceInfoUpdate).
THEOREM PublishesListsHolds == Safety => PublishesLists
<1>1. Init => Promise!Init
    BY DEF Init, Empty, Promise!Init, outstanding
<1>2. QED
    BY <1>1, InitInv, TypeStep, PlaceStep, PromiseStep, PTL
       DEF Safety, PublishesLists, Promise!Spec

===============================================================================
