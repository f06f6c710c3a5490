-------------------------- MODULE ZigbeeClientProofs --------------------------
(***************************************************************************)
(* What holds of ZigbeeClient for any devices, lists, buffer size and      *)
(* number of eventHandlers.                                                *)
(***************************************************************************)
EXTENDS ZigbeeClient, SequenceTheorems, TLAPS

USE ListsAssumption, BoundsAssumption

\* An eventHandler that stores or hands over a state knows its device.
Found == \A h \in Handlers : hAt[h] \in {"storing", "sending"} => hDevice[h] \in Devices

TypeInv == TypeOK /\ Found

\* Only the device whose state is being handed over may be ahead of its events.
Handing(d) == \E h \in Handlers : valueMux = h /\ hDevice[h] = d

FollowInv ==
    /\ \A h \in Handlers : valueMux = h => values[hDevice[h]] = hState[h]
    /\ \A d \in Devices : Handing(d) \/ lastEvent(d, values[d])

-------------------------------------------------------------------------------
LEMMA TailTyped ==
    ASSUME NEW S, NEW s \in Seq(S), s # <<>>
    PROVE  /\ Head(s) \in S /\ Tail(s) \in Seq(S)
           /\ Len(s) \in Nat \ {0} /\ Len(Tail(s)) = Len(s) - 1
           /\ \A i \in 1 .. Len(s) - 1 : Tail(s)[i] = s[i + 1]
           /\ Head(s) = s[1]
           /\ \A i \in 1 .. Len(s) : s[i] \in S
<1>1. Len(s) \in Nat \ {0} /\ Head(s) \in S /\ Tail(s) \in Seq(S)
    OBVIOUS
<1>2. Len(Tail(s)) = Len(s) - 1 /\ Head(s) = s[1]
    BY <1>1
<1>3. \A i \in 1 .. Len(s) : s[i] \in S
    BY <1>1
<1>4. \A i \in 1 .. Len(s) - 1 : Tail(s)[i] = s[i + 1]
    BY <1>1, <1>2
<1>5. QED
    BY <1>1, <1>2, <1>3, <1>4

LEMMA PublishTyped ==
    ASSUME TypeOK, NEW d \in Devices, \E n \in States : Publish(d, n)
    PROVE  /\ hAt' \in [Handlers -> {"idle", "looking", "storing", "sending"}]
           /\ hTopic' \in [Handlers -> Names \cup {NoName}] /\ hState' \in [Handlers -> States]
           /\ hDevice' = hDevice
           /\ changes' \in 0 .. MaxChanges
           /\ \A h \in Handlers : hAt'[h] = hAt[h] \/ (hAt[h] = "idle" /\ hAt'[h] = "looking")
<1>1. zigbeeList \in Lists /\ zigbeeList[d] \in Names
    BY DEF TypeOK, Publish, listed
<1>2. PICK n \in States : Publish(d, n)
    OBVIOUS
<1>3. CASE listener # "on"
    BY <1>2, <1>3 DEF TypeOK, Publish
<1>4. CASE listener = "on"
    <2>1. PICK h \in Handlers :
              /\ hAt[h] = "idle" /\ hAt' = [hAt EXCEPT ![h] = "looking"]
              /\ hTopic' = [hTopic EXCEPT ![h] = zigbeeList[d]]
              /\ hState' = [hState EXCEPT ![h] = n]
        BY <1>2, <1>4 DEF Publish
    <2>2. hDevice' = hDevice /\ changes' \in 0 .. MaxChanges
        BY <1>2, <1>4 DEF Publish, TypeOK
    <2>3. QED
        BY <1>1, <2>1, <2>2 DEF TypeOK
<1>5. QED
    BY <1>3, <1>4

\* Every variable keeps its kind, and the mutex its holder.
LEMMA TypeStep == TypeInv /\ [Next]_vars => TypeInv'
<1> SUFFICES ASSUME TypeInv, [Next]_vars
             PROVE  TypeInv'
    OBVIOUS
<1> USE DEF TypeInv, TypeOK, Found, States, Refreshers,
            brokerVars, linkVars, handlerVars, valueVars, loopVars, refreshVars, stopVars
<1>1. CASE ConnectionLost
    <2>1. lists' \subseteq Lists
        BY <1>1 DEF ConnectionLost
    <2>2. exited' \in BOOLEAN
        BY <1>1 DEF ConnectionLost
    <2>3. changes' \in 0 .. MaxChanges /\ listener' = "off"
        BY <1>1 DEF ConnectionLost
    <2>4. UNCHANGED <<zigbeeList, newest, requested, register, handlerVars, valueVars, loopVars,
                      refreshVars, ctxDone>>
        BY <1>1 DEF ConnectionLost
    <2>5. QED
        BY <2>1, <2>2, <2>3, <2>4
<1>2. CASE Reconnect
    BY <1>2 DEF Reconnect
<1>3. CASE startDeviceInfoListener
    BY <1>3 DEF startDeviceInfoListener
<1>4. CASE startEventListener
    BY <1>4 DEF startEventListener
<1>5. ASSUME NEW l \in Lists, ListPublished(l)
      PROVE  TypeInv'
    BY <1>5 DEF ListPublished
<1>6. ASSUME NEW l \in Lists, deviceInfoHandler(l)
      PROVE  TypeInv'
    BY <1>6 DEF deviceInfoHandler, initialized
<1>7. ASSUME NEW d \in Devices, StateChanged(d)
      PROVE  TypeInv'
    <2>1. newest' \in [Devices -> 1 .. MaxStates] /\ requested' \subseteq Devices
        BY <1>7 DEF StateChanged
    <2>2. \E n \in States : Publish(d, n)
        BY <1>7 DEF StateChanged
    <2>3. UNCHANGED <<zigbeeList, linkVars, valueVars, loopVars, refreshVars, stopVars>>
        BY <1>7 DEF StateChanged
    <2>4. /\ hAt' \in [Handlers -> {"idle", "looking", "storing", "sending"}]
          /\ hTopic' \in [Handlers -> Names \cup {NoName}] /\ hState' \in [Handlers -> States]
          /\ hDevice' = hDevice /\ changes' \in 0 .. MaxChanges
          /\ \A h \in Handlers : hAt'[h] = hAt[h] \/ (hAt[h] = "idle" /\ hAt'[h] = "looking")
        BY <2>2, PublishTyped
    <2>5. \A h \in Handlers : valueMux' = h <=> hAt'[h] = "sending"
        <3>1. valueMux' = valueMux
            BY <2>3
        <3>2. \A h \in Handlers : valueMux = h <=> hAt[h] = "sending"
            OBVIOUS
        <3>3. QED
            BY ONLY <2>4, <3>1, <3>2
    <2>6. Found'
        BY <2>4
    <2>7. TypeOK'
        <3>1. /\ zigbeeList' \in Lists \cup {NoList}
              /\ listener' \in {"off", "devices", "events", "on", "closed"}
              /\ lists' \subseteq Lists /\ register' \in Lists \cup {NoList}
            BY <2>3
        <3>2. /\ values' \in [Devices -> States] /\ valueMux' \in Handlers \cup {Free}
              /\ eventbuffer' \in Seq([device : Devices, state : States])
              /\ Len(eventbuffer') <= EventBufferSize
            BY <2>3
        <3>3. /\ eAt' \in {"running", "stopped"} /\ handled' \in [Devices -> States]
              /\ cAt' \in {"idle", "looking", "getting", "sending", "unsent", "stopped"}
              /\ cDevice' \in Devices \cup {NoDevice}
            BY <2>3
        <3>4. /\ sleeping' \in BOOLEAN /\ rTodo' \in [Refreshers -> SUBSET Names]
              /\ ctxDone' \in BOOLEAN /\ exited' \in BOOLEAN
            BY <2>3
        <3>5. hDevice' \in [Handlers -> Devices \cup {NoDevice}]
            BY <2>4
        <3>6. QED
            BY ONLY <2>1, <2>4, <2>5, <3>1, <3>2, <3>3, <3>4, <3>5 DEF TypeOK
    <2>8. QED
        BY <2>6, <2>7
<1>8. ASSUME NEW d \in Devices, StateAnswered(d)
      PROVE  TypeInv'
    <2>1. newest' \in [Devices -> 1 .. MaxStates] /\ requested' \subseteq Devices
        BY <1>8 DEF StateAnswered
    <2>2. \E n \in States : Publish(d, n)
        BY <1>8 DEF StateAnswered
    <2>3. UNCHANGED <<zigbeeList, linkVars, valueVars, loopVars, refreshVars, stopVars>>
        BY <1>8 DEF StateAnswered
    <2>4. /\ hAt' \in [Handlers -> {"idle", "looking", "storing", "sending"}]
          /\ hTopic' \in [Handlers -> Names \cup {NoName}] /\ hState' \in [Handlers -> States]
          /\ hDevice' = hDevice /\ changes' \in 0 .. MaxChanges
          /\ \A h \in Handlers : hAt'[h] = hAt[h] \/ (hAt[h] = "idle" /\ hAt'[h] = "looking")
        BY <2>2, PublishTyped
    <2>5. \A h \in Handlers : valueMux' = h <=> hAt'[h] = "sending"
        <3>1. valueMux' = valueMux
            BY <2>3
        <3>2. \A h \in Handlers : valueMux = h <=> hAt[h] = "sending"
            OBVIOUS
        <3>3. QED
            BY ONLY <2>4, <3>1, <3>2
    <2>6. Found'
        BY <2>4
    <2>7. TypeOK'
        <3>1. /\ zigbeeList' \in Lists \cup {NoList}
              /\ listener' \in {"off", "devices", "events", "on", "closed"}
              /\ lists' \subseteq Lists /\ register' \in Lists \cup {NoList}
            BY <2>3
        <3>2. /\ values' \in [Devices -> States] /\ valueMux' \in Handlers \cup {Free}
              /\ eventbuffer' \in Seq([device : Devices, state : States])
              /\ Len(eventbuffer') <= EventBufferSize
            BY <2>3
        <3>3. /\ eAt' \in {"running", "stopped"} /\ handled' \in [Devices -> States]
              /\ cAt' \in {"idle", "looking", "getting", "sending", "unsent", "stopped"}
              /\ cDevice' \in Devices \cup {NoDevice}
            BY <2>3
        <3>4. /\ sleeping' \in BOOLEAN /\ rTodo' \in [Refreshers -> SUBSET Names]
              /\ ctxDone' \in BOOLEAN /\ exited' \in BOOLEAN
            BY <2>3
        <3>5. hDevice' \in [Handlers -> Devices \cup {NoDevice}]
            BY <2>4
        <3>6. QED
            BY ONLY <2>1, <2>4, <2>5, <3>1, <3>2, <3>3, <3>4, <3>5 DEF TypeOK
    <2>8. QED
        BY <2>6, <2>7
<1>9. ASSUME NEW d \in Devices, Call(d)
      PROVE  TypeInv'
    BY <1>9 DEF Call
<1>10. ASSUME NEW h \in Handlers, GetByFriendlyName(h)
      PROVE  TypeInv'
    <2>1. UNCHANGED <<brokerVars, linkVars, valueVars, loopVars, refreshVars, stopVars>>
        BY <1>10 DEF GetByFriendlyName
    <2>2. CASE Return(h)
        BY <1>10, <2>1, <2>2 DEF GetByFriendlyName, Return
    <2>3. CASE \E d \in Devices : /\ hAt' = [hAt EXCEPT ![h] = "storing"]
                                 /\ hDevice' = [hDevice EXCEPT ![h] = d]
                                 /\ UNCHANGED <<hTopic, hState>>
        BY <1>10, <2>1, <2>3 DEF GetByFriendlyName
    <2>4. QED
        BY <1>10, <2>2, <2>3 DEF GetByFriendlyName, named
<1>11. ASSUME NEW h \in Handlers, Store(h)
      PROVE  TypeInv'
    BY <1>11 DEF Store, lockOf
<1>12. ASSUME NEW h \in Handlers, Event(h)
      PROVE  TypeInv'
    <2>1. /\ eventbuffer' \in Seq([device : Devices, state : States])
          /\ Len(eventbuffer') <= EventBufferSize
        <3>1. [device |-> hDevice[h], state |-> hState[h]]
                  \in [device : Devices, state : States]
            BY <1>12 DEF Event
        <3>2. QED
            BY <1>12, <3>1 DEF Event
    <2>2. valueMux' = Free /\ Return(h) /\ hAt[h] = "sending"
        BY <1>12 DEF Event
    <2>3. UNCHANGED <<brokerVars, linkVars, values, loopVars, refreshVars, stopVars>>
        BY <1>12 DEF Event
    <2>4. QED
        BY <2>1, <2>2, <2>3 DEF Return
<1>13. CASE TakeEvent
    <2>1. /\ eventbuffer' \in Seq([device : Devices, state : States])
          /\ Len(eventbuffer') <= EventBufferSize
          /\ Head(eventbuffer) \in [device : Devices, state : States]
        <3>1. /\ eventbuffer # <<>> /\ eventbuffer' = Tail(eventbuffer)
              /\ eventbuffer \in Seq([device : Devices, state : States])
              /\ Len(eventbuffer) <= EventBufferSize /\ EventBufferSize \in Nat
            BY <1>13 DEF TakeEvent
        <3>2. /\ Head(eventbuffer) \in [device : Devices, state : States]
              /\ Tail(eventbuffer) \in Seq([device : Devices, state : States])
              /\ Len(eventbuffer) \in Nat \ {0} /\ Len(Tail(eventbuffer)) = Len(eventbuffer) - 1
            BY ONLY <3>1, TailTyped, Zenon
        <3>3. QED
            BY ONLY <3>1, <3>2
    <2>2. handled' \in [Devices -> States]
        BY <1>13, <2>1 DEF TakeEvent
    <2>3. UNCHANGED <<brokerVars, linkVars, handlerVars, values, valueMux, eAt, cAt, cDevice,
                      refreshVars, stopVars>>
        BY <1>13 DEF TakeEvent
    <2>4. Found'
        BY <2>3
    <2>5. TypeOK'
        <3>1. /\ zigbeeList' \in Lists \cup {NoList} /\ changes' \in 0 .. MaxChanges
              /\ newest' \in [Devices -> 1 .. MaxStates] /\ requested' \subseteq Devices
              /\ listener' \in {"off", "devices", "events", "on", "closed"}
              /\ lists' \subseteq Lists /\ register' \in Lists \cup {NoList}
            BY <2>3
        <3>2. /\ hAt' \in [Handlers -> {"idle", "looking", "storing", "sending"}]
              /\ hTopic' \in [Handlers -> Names \cup {NoName}]
              /\ hState' \in [Handlers -> States]
              /\ hDevice' \in [Handlers -> Devices \cup {NoDevice}]
              /\ values' \in [Devices -> States] /\ valueMux' \in Handlers \cup {Free}
              /\ \A h \in Handlers : valueMux' = h <=> hAt'[h] = "sending"
            BY <2>3
        <3>3. /\ eAt' \in {"running", "stopped"}
              /\ cAt' \in {"idle", "looking", "getting", "sending", "unsent", "stopped"}
              /\ cDevice' \in Devices \cup {NoDevice}
            BY <2>3
        <3>4. /\ sleeping' \in BOOLEAN /\ rTodo' \in [Refreshers -> SUBSET Names]
              /\ ctxDone' \in BOOLEAN /\ exited' \in BOOLEAN
            BY <2>3
        <3>5. QED
            BY ONLY <2>1, <2>2, <3>1, <3>2, <3>3, <3>4 DEF TypeOK
    <2>6. QED
        BY <2>4, <2>5
<1>14. CASE StopEvents
    BY <1>14 DEF StopEvents
<1>15. CASE GetByIeee
    BY <1>15 DEF GetByIeee, CallReturns
<1>16. CASE Get
    BY <1>16 DEF Get, CallReturns
<1>17. CASE StopCommands
    BY <1>17 DEF StopCommands
<1>18. CASE initialEventRefresh
    <2>1. rTodo' \in [Refreshers -> SUBSET Names]
        BY <1>18 DEF initialEventRefresh, ListDevices, refreshed, listed, initialized
    <2>2. sleeping' = FALSE
        BY <1>18 DEF initialEventRefresh
    <2>3. UNCHANGED <<brokerVars, linkVars, handlerVars, valueVars, loopVars, stopVars>>
        BY <1>18 DEF initialEventRefresh
    <2>4. Found'
        BY <2>3
    <2>5. TypeOK'
        <3>1. /\ zigbeeList' \in Lists \cup {NoList} /\ changes' \in 0 .. MaxChanges
              /\ newest' \in [Devices -> 1 .. MaxStates] /\ requested' \subseteq Devices
              /\ listener' \in {"off", "devices", "events", "on", "closed"}
              /\ lists' \subseteq Lists /\ register' \in Lists \cup {NoList}
            BY <2>3
        <3>2. /\ hAt' \in [Handlers -> {"idle", "looking", "storing", "sending"}]
              /\ hTopic' \in [Handlers -> Names \cup {NoName}]
              /\ hState' \in [Handlers -> States]
              /\ hDevice' \in [Handlers -> Devices \cup {NoDevice}]
              /\ values' \in [Devices -> States] /\ valueMux' \in Handlers \cup {Free}
              /\ \A h \in Handlers : valueMux' = h <=> hAt'[h] = "sending"
            BY <2>3
        <3>3. /\ eventbuffer' \in Seq([device : Devices, state : States])
              /\ Len(eventbuffer') <= EventBufferSize
              /\ eAt' \in {"running", "stopped"} /\ handled' \in [Devices -> States]
              /\ cAt' \in {"idle", "looking", "getting", "sending", "unsent", "stopped"}
              /\ cDevice' \in Devices \cup {NoDevice}
            BY <2>3
        <3>4. sleeping' \in BOOLEAN /\ ctxDone' \in BOOLEAN /\ exited' \in BOOLEAN
            BY <2>2, <2>3
        <3>5. QED
            BY ONLY <2>1, <3>1, <3>2, <3>3, <3>4 DEF TypeOK
    <2>6. QED
        BY <2>4, <2>5
<1>19. CASE Tick
    BY <1>19 DEF Tick, ListDevices, refreshed, listed, initialized
<1>20. ASSUME NEW r \in Refreshers, RefreshDeviceEventValues(r)
      PROVE  TypeInv'
    <2>1. requested' \subseteq Devices /\ rTodo' \in [Refreshers -> SUBSET Names]
        BY <1>20 DEF RefreshDeviceEventValues, named
    <2>2. UNCHANGED <<zigbeeList, newest, changes, linkVars, handlerVars, valueVars, loopVars,
                      sleeping, stopVars>>
        BY <1>20 DEF RefreshDeviceEventValues
    <2>3. QED
        BY <2>1, <2>2
<1>21. CASE Shutdown
    BY <1>21 DEF Shutdown
<1>22. CASE Disconnect
    BY <1>22 DEF Disconnect
<1>23. CASE Exit
    BY <1>23 DEF Exit
<1>24. CASE UNCHANGED vars
    BY <1>24 DEF vars
<1>25. CASE send
    BY <1>25 DEF send, CallReturns
<1>26. QED
    BY <1>1, <1>2, <1>3, <1>4, <1>5, <1>6, <1>7, <1>8, <1>9, <1>10, <1>11, <1>12,
       <1>13, <1>14, <1>15, <1>16, <1>17, <1>18, <1>19, <1>20, <1>21, <1>22, <1>23,
       <1>24, <1>25
       DEF Next, startListener, Handler

-------------------------------------------------------------------------------
\* The event loop's next event, and an event that is handed over.

LEMMA TakeKeepsLast ==
    ASSUME TypeOK, TakeEvent, NEW d \in Devices, NEW s \in States, lastEvent(d, s)
    PROVE  lastEvent(d, s)'
<1> DEFINE e == Head(eventbuffer)
<1>1. /\ eventbuffer \in Seq([device : Devices, state : States]) /\ eventbuffer # <<>>
      /\ eventbuffer' = Tail(eventbuffer)
      /\ handled' = [handled EXCEPT ![e.device] = e.state]
      /\ handled \in [Devices -> States]
    BY DEF TypeOK, TakeEvent
<1>2. /\ Len(eventbuffer) \in Nat \ {0} /\ Len(eventbuffer') = Len(eventbuffer) - 1
      /\ \A i \in 1 .. Len(eventbuffer') : eventbuffer'[i] = eventbuffer[i + 1]
      /\ e = eventbuffer[1]
      /\ \A i \in 1 .. Len(eventbuffer) : eventbuffer[i] \in [device : Devices, state : States]
    BY <1>1, TailTyped
<1>3. eventsOf(d)' = { i \in 1 .. Len(eventbuffer') : i + 1 \in eventsOf(d) }
    BY <1>2 DEF eventsOf
<1>4. CASE \E j \in eventsOf(d) : j # 1
    <2>1. PICK i \in eventsOf(d) : /\ \A j \in eventsOf(d) : j <= i
                                   /\ eventbuffer[i].state = s
        BY <1>4 DEF lastEvent
    <2>2. i - 1 \in eventsOf(d)' /\ \A j \in eventsOf(d)' : j <= i - 1
        BY <1>2, <1>3, <1>4, <2>1 DEF eventsOf
    <2>3. eventbuffer'[i - 1].state = s
        BY <1>2, <1>3, <2>1, <2>2 DEF eventsOf
    <2>4. QED
        BY <2>2, <2>3 DEF lastEvent
<1>5. CASE eventsOf(d) = {1}
    <2>1. eventsOf(d)' = {}
        BY <1>2, <1>3, <1>5 DEF eventsOf
    <2>2. e.device = d /\ e.state = s
        BY <1>2, <1>5 DEF eventsOf, lastEvent
    <2>3. QED
        BY <1>1, <2>1, <2>2 DEF lastEvent
<1>6. CASE eventsOf(d) = {}
    <2>1. eventsOf(d)' = {} /\ e.device # d
        BY <1>2, <1>3, <1>6 DEF eventsOf
    <2>2. QED
        BY <1>1, <1>2, <1>6, <2>1 DEF lastEvent
<1>7. QED
    BY <1>4, <1>5, <1>6

LEMMA EventIsLast ==
    ASSUME TypeInv, NEW h \in Handlers, Event(h), NEW d \in Devices, NEW s \in States,
           IF d = hDevice[h] THEN s = hState[h] ELSE lastEvent(d, s)
    PROVE  lastEvent(d, s)'
<1> DEFINE e == [device |-> hDevice[h], state |-> hState[h]]
           n == Len(eventbuffer)
<1>1. /\ eventbuffer \in Seq([device : Devices, state : States])
      /\ eventbuffer' = Append(eventbuffer, e) /\ e \in [device : Devices, state : States]
      /\ handled' = handled
    BY DEF TypeInv, TypeOK, Found, Event, loopVars
<1>2. /\ n \in Nat /\ Len(eventbuffer') = n + 1 /\ eventbuffer'[n + 1] = e
      /\ \A i \in 1 .. n : eventbuffer'[i] = eventbuffer[i]
    BY <1>1
<1>3. CASE d = hDevice[h]
    <2>1. n + 1 \in eventsOf(d)' /\ \A j \in eventsOf(d)' : j <= n + 1
        BY <1>2, <1>3 DEF eventsOf
    <2>2. eventbuffer'[n + 1].state = s
        BY <1>2, <1>3
    <2>3. QED
        BY <2>1, <2>2 DEF lastEvent
<1>4. CASE d # hDevice[h]
    <2>1. eventsOf(d)' = eventsOf(d)
        BY <1>2, <1>4 DEF eventsOf
    <2>2. \A i \in eventsOf(d) : eventbuffer'[i] = eventbuffer[i]
        BY <1>2 DEF eventsOf
    <2>3. QED
        BY <1>1, <1>4, <2>1, <2>2 DEF lastEvent
<1>5. QED
    BY <1>3, <1>4

\* A step that touches neither values nor events, nor the holder of valueMux.
LEMMA Untouched ==
    ASSUME FollowInv, UNCHANGED <<values, valueMux, eventbuffer, handled>>,
           \A h \in Handlers :
              valueMux = h => hDevice'[h] = hDevice[h] /\ hState'[h] = hState[h]
    PROVE  FollowInv'
BY DEF FollowInv, Handing, lastEvent, eventsOf

\* Storing and handing over are one critical section.
LEMMA FollowStep == TypeInv /\ FollowInv /\ [Next]_vars => FollowInv'
<1> SUFFICES ASSUME TypeInv, FollowInv, [Next]_vars
             PROVE  FollowInv'
    OBVIOUS
<1> USE DEF TypeInv, TypeOK, Found,
            brokerVars, linkVars, handlerVars, valueVars, loopVars, refreshVars, stopVars
<1>1. CASE ConnectionLost
    BY <1>1, Untouched DEF ConnectionLost, connected
<1>2. CASE Reconnect
    BY <1>2, Untouched DEF Reconnect
<1>3. CASE startDeviceInfoListener
    BY <1>3, Untouched DEF startDeviceInfoListener
<1>4. CASE startEventListener
    BY <1>4, Untouched DEF startEventListener
<1>5. ASSUME NEW l \in Lists, ListPublished(l)
      PROVE  FollowInv'
    BY <1>5, Untouched DEF ListPublished
<1>6. ASSUME NEW l \in Lists, deviceInfoHandler(l)
      PROVE  FollowInv'
    BY <1>6, Untouched DEF deviceInfoHandler, initialized
<1>7. ASSUME NEW d \in Devices, StateChanged(d)
      PROVE  FollowInv'
    <2>1. UNCHANGED <<values, valueMux, eventbuffer, handled>>
        BY <1>7 DEF StateChanged
    <2>2. \A k \in Handlers : valueMux = k => hDevice'[k] = hDevice[k] /\ hState'[k] = hState[k]
        BY <1>7 DEF StateChanged, Publish
    <2>3. QED
        BY <2>1, <2>2, Untouched
<1>8. ASSUME NEW d \in Devices, StateAnswered(d)
      PROVE  FollowInv'
    <2>1. UNCHANGED <<values, valueMux, eventbuffer, handled>>
        BY <1>8 DEF StateAnswered
    <2>2. \A k \in Handlers : valueMux = k => hDevice'[k] = hDevice[k] /\ hState'[k] = hState[k]
        BY <1>8 DEF StateAnswered, Publish
    <2>3. QED
        BY <2>1, <2>2, Untouched
<1>9. ASSUME NEW d \in Devices, Call(d)
      PROVE  FollowInv'
    BY <1>9, Untouched DEF Call
<1>10. ASSUME NEW h \in Handlers, GetByFriendlyName(h)
      PROVE  FollowInv'
    <2>1. UNCHANGED <<values, valueMux, eventbuffer, handled>>
        BY <1>10 DEF GetByFriendlyName
    <2>2. \A k \in Handlers : valueMux = k => hDevice'[k] = hDevice[k] /\ hState'[k] = hState[k]
        BY <1>10 DEF GetByFriendlyName, Return
    <2>3. QED
        BY <2>1, <2>2, Untouched
<1>11. ASSUME NEW h \in Handlers, Store(h)
      PROVE  FollowInv'
    <2>1. /\ valueMux = Free /\ valueMux' = h /\ hDevice[h] \in Devices
          /\ values' = [values EXCEPT ![hDevice[h]] = hState[h]]
          /\ UNCHANGED <<hDevice, hState, eventbuffer, handled>>
        BY <1>11 DEF Store, lockOf
    <2>2. \A d \in Devices : lastEvent(d, values[d])
        BY <2>1 DEF FollowInv, Handing
    <2>3. \A d \in Devices : d # hDevice[h] => values'[d] = values[d]
        BY <2>1
    <2>4. ASSUME NEW d \in Devices
          PROVE  Handing(d)' \/ lastEvent(d, values[d])'
        <3>1. CASE d = hDevice[h]
            BY <2>1, <3>1 DEF Handing
        <3>2. CASE d # hDevice[h]
            <4>1. values'[d] = values[d] /\ lastEvent(d, values[d])
                BY <2>2, <2>3, <3>2
            <4>2. eventsOf(d)' = eventsOf(d) /\ eventbuffer' = eventbuffer /\ handled' = handled
                BY <2>1 DEF eventsOf
            <4>3. QED
                BY ONLY <4>1, <4>2 DEF lastEvent
        <3>3. QED
            BY <3>1, <3>2
    <2>5. QED
        BY <2>1, <2>4 DEF FollowInv
<1>12. ASSUME NEW h \in Handlers, Event(h)
      PROVE  FollowInv'
    <2>1. /\ valueMux = h /\ valueMux' = Free /\ UNCHANGED values
          /\ values[hDevice[h]] = hState[h]
        BY <1>12 DEF Event, FollowInv
    <2>2. ASSUME NEW d \in Devices
          PROVE  lastEvent(d, values[d])'
        <3>1. values[d] \in States /\ values'[d] = values[d]
            BY <2>1 DEF TypeOK
        <3>2. IF d = hDevice[h] THEN values[d] = hState[h] ELSE lastEvent(d, values[d])
            BY <2>1 DEF FollowInv, Handing
        <3>3. QED
            BY <1>12, <3>1, <3>2, EventIsLast
    <2>3. QED
        BY <2>1, <2>2 DEF FollowInv
<1>13. CASE TakeEvent
    <2>1. UNCHANGED <<hDevice, hState, values, valueMux>>
        BY <1>13 DEF TakeEvent
    <2>2. ASSUME NEW d \in Devices, lastEvent(d, values[d])
          PROVE  lastEvent(d, values[d])'
        BY <1>13, <2>1, <2>2, TakeKeepsLast
    <2>3. QED
        BY <2>1, <2>2 DEF FollowInv, Handing
<1>14. CASE StopEvents
    BY <1>14, Untouched DEF StopEvents
<1>15. CASE GetByIeee
    BY <1>15, Untouched DEF GetByIeee, CallReturns
<1>16. CASE Get
    BY <1>16, Untouched DEF Get, CallReturns
<1>17. CASE StopCommands
    BY <1>17, Untouched DEF StopCommands
<1>18. CASE initialEventRefresh
    BY <1>18, Untouched DEF initialEventRefresh, ListDevices, refreshed, listed, initialized
<1>19. CASE Tick
    BY <1>19, Untouched DEF Tick, ListDevices, refreshed, listed, initialized
<1>20. ASSUME NEW r \in Refreshers, RefreshDeviceEventValues(r)
      PROVE  FollowInv'
    BY <1>20, Untouched DEF RefreshDeviceEventValues, connected, named
<1>21. CASE Shutdown
    BY <1>21, Untouched DEF Shutdown
<1>22. CASE Disconnect
    BY <1>22, Untouched DEF Disconnect
<1>23. CASE Exit
    BY <1>23, Untouched DEF Exit
<1>24. CASE UNCHANGED vars
    BY <1>24, Untouched DEF vars
<1>25. CASE send
    BY <1>25, Untouched DEF send, CallReturns
<1>26. QED
    BY <1>1, <1>2, <1>3, <1>4, <1>5, <1>6, <1>7, <1>8, <1>9, <1>10, <1>11, <1>12,
       <1>13, <1>14, <1>15, <1>16, <1>17, <1>18, <1>19, <1>20, <1>21, <1>22, <1>23,
       <1>24, <1>25
       DEF Next, startListener, Handler

-------------------------------------------------------------------------------
\* The refinement.

\* A step that touches neither the values nor the events, nor the holder of
\* valueMux, does not touch the feed.
LEMMA SameQueue ==
    ASSUME TypeInv, UNCHANGED <<values, valueMux, eventbuffer, handled>>,
           \A h \in Handlers :
              valueMux = h => hDevice'[h] = hDevice[h] /\ hState'[h] = hState[h]
    PROVE  [Feed!Next]_(Feed!vars)
<1>1. valueMux = Free \/ valueMux \in Handlers
    BY DEF TypeInv, TypeOK
<1>2. CASE valueMux = Free
    BY <1>2 DEF accepted, Feed!vars
<1>3. CASE valueMux \in Handlers
    BY <1>3 DEF accepted, Feed!vars
<1>4. QED
    BY <1>1, <1>2, <1>3

\* Each step accepts a state (Store), takes one (TakeEvent), or is none of the feed.
LEMMA FeedStep == TypeInv /\ [Next]_vars => [Feed!Next]_(Feed!vars)
<1> SUFFICES ASSUME TypeInv, [Next]_vars
             PROVE  [Feed!Next]_(Feed!vars)
    OBVIOUS
<1> USE DEF brokerVars, linkVars, handlerVars, valueVars, loopVars, refreshVars, stopVars
<1>1. CASE ConnectionLost
    BY <1>1, SameQueue DEF ConnectionLost, connected
<1>2. CASE Reconnect
    BY <1>2, SameQueue DEF Reconnect
<1>3. CASE startDeviceInfoListener
    BY <1>3, SameQueue DEF startDeviceInfoListener
<1>4. CASE startEventListener
    BY <1>4, SameQueue DEF startEventListener
<1>5. ASSUME NEW l \in Lists, ListPublished(l)
      PROVE  [Feed!Next]_(Feed!vars)
    BY <1>5, SameQueue DEF ListPublished
<1>6. ASSUME NEW l \in Lists, deviceInfoHandler(l)
      PROVE  [Feed!Next]_(Feed!vars)
    BY <1>6, SameQueue DEF deviceInfoHandler
<1>7. ASSUME NEW d \in Devices, StateChanged(d)
      PROVE  [Feed!Next]_(Feed!vars)
    <2>1. UNCHANGED <<values, valueMux, eventbuffer, handled>>
        BY <1>7 DEF StateChanged
    <2>2. \A k \in Handlers : valueMux = k => hDevice'[k] = hDevice[k] /\ hState'[k] = hState[k]
        BY <1>7 DEF StateChanged, Publish, TypeInv, TypeOK
    <2>3. QED
        BY <2>1, <2>2, SameQueue
<1>8. ASSUME NEW d \in Devices, StateAnswered(d)
      PROVE  [Feed!Next]_(Feed!vars)
    <2>1. UNCHANGED <<values, valueMux, eventbuffer, handled>>
        BY <1>8 DEF StateAnswered
    <2>2. \A k \in Handlers : valueMux = k => hDevice'[k] = hDevice[k] /\ hState'[k] = hState[k]
        BY <1>8 DEF StateAnswered, Publish, TypeInv, TypeOK
    <2>3. QED
        BY <2>1, <2>2, SameQueue
<1>9. ASSUME NEW d \in Devices, Call(d)
      PROVE  [Feed!Next]_(Feed!vars)
    BY <1>9, SameQueue DEF Call
<1>10. ASSUME NEW h \in Handlers, GetByFriendlyName(h)
      PROVE  [Feed!Next]_(Feed!vars)
    <2>1. UNCHANGED <<values, valueMux, eventbuffer, handled>>
        BY <1>10 DEF GetByFriendlyName
    <2>2. \A k \in Handlers : valueMux = k => hDevice'[k] = hDevice[k] /\ hState'[k] = hState[k]
        BY <1>10 DEF GetByFriendlyName, Return, TypeInv, TypeOK
    <2>3. QED
        BY <2>1, <2>2, SameQueue
<1>11. ASSUME NEW h \in Handlers, Store(h)
      PROVE  [Feed!Next]_(Feed!vars)
    <2>1. /\ hDevice[h] \in Devices /\ hState[h] \in States /\ h # Free
          /\ eventbuffer \in Seq([device : Devices, state : States])
          /\ Len(eventbuffer) <= EventBufferSize
        BY <1>11 DEF Store, TypeInv, TypeOK, Found
    <2>2. /\ valueMux = Free /\ valueMux' = h
          /\ values' = [values EXCEPT ![hDevice[h]] = hState[h]]
          /\ UNCHANGED <<hDevice, hState, eventbuffer, handled>>
        BY <1>11 DEF Store, lockOf
    <2>3. /\ accepted = eventbuffer
          /\ accepted' = Append(eventbuffer, [device |-> hDevice[h], state |-> hState[h]])
        BY <2>1, <2>2 DEF accepted
    <2>4. Len(accepted) < EventBufferSize + 1
        BY <2>1, <2>3
    <2>5. Feed!Accept(hDevice[h], hState[h])
        BY <2>2, <2>3, <2>4 DEF Feed!Accept
    <2>6. QED
        BY <2>1, <2>5 DEF Feed!Next
<1>12. ASSUME NEW h \in Handlers, Event(h)
      PROVE  [Feed!Next]_(Feed!vars)
    <2>1. /\ valueMux = h /\ valueMux' = Free
          /\ eventbuffer' = Append(eventbuffer, [device |-> hDevice[h], state |-> hState[h]])
          /\ UNCHANGED <<values, handled>>
        BY <1>12 DEF Event, TypeInv, TypeOK
    <2>2. accepted' = accepted
        BY <2>1 DEF accepted
    <2>3. QED
        BY <2>1, <2>2 DEF Feed!vars
<1>13. CASE TakeEvent
    <2>1. /\ eventbuffer # <<>> /\ eventbuffer' = Tail(eventbuffer)
          /\ handled' = [handled EXCEPT ![Head(eventbuffer).device] = Head(eventbuffer).state]
          /\ UNCHANGED <<values, valueMux, hDevice, hState>>
        BY <1>13 DEF TakeEvent
    <2>2. CASE valueMux = Free
        BY <2>1, <2>2 DEF accepted, Feed!Next, Feed!Take
    <2>3. CASE valueMux \in Handlers
        <3> DEFINE e == [device |-> hDevice[valueMux], state |-> hState[valueMux]]
        <3>1. e \in [device : Devices, state : States] /\ valueMux # Free
            BY <2>3 DEF TypeInv, TypeOK, Found
        <3>2. eventbuffer \in Seq([device : Devices, state : States])
            BY DEF TypeInv, TypeOK
        <3>3. accepted = Append(eventbuffer, e) /\ accepted' = Append(Tail(eventbuffer), e)
            BY <2>1, <3>1 DEF accepted
        <3>4. accepted # <<>>
            BY <3>1, <3>2, <3>3
        <3>5. Head(accepted) = Head(eventbuffer) /\ accepted' = Tail(accepted)
            BY <2>1, <3>2, <3>3, HeadTailAppend
        <3>6. QED
            BY <2>1, <3>4, <3>5 DEF Feed!Next, Feed!Take
    <2>4. QED
        BY <2>2, <2>3 DEF TypeInv, TypeOK
<1>14. CASE StopEvents
    BY <1>14, SameQueue DEF StopEvents
<1>15. CASE GetByIeee
    BY <1>15, SameQueue DEF GetByIeee, CallReturns
<1>16. CASE Get
    BY <1>16, SameQueue DEF Get, CallReturns
<1>17. CASE StopCommands
    BY <1>17, SameQueue DEF StopCommands
<1>18. CASE initialEventRefresh
    BY <1>18, SameQueue DEF initialEventRefresh
<1>19. CASE Tick
    BY <1>19, SameQueue DEF Tick
<1>20. ASSUME NEW r \in Refreshers, RefreshDeviceEventValues(r)
      PROVE  [Feed!Next]_(Feed!vars)
    BY <1>20, SameQueue DEF RefreshDeviceEventValues
<1>21. CASE Shutdown
    BY <1>21, SameQueue DEF Shutdown
<1>22. CASE Disconnect
    BY <1>22, SameQueue DEF Disconnect
<1>23. CASE Exit
    BY <1>23, SameQueue DEF Exit
<1>24. CASE UNCHANGED vars
    BY <1>24, SameQueue DEF vars
<1>25. CASE send
    BY <1>25, SameQueue DEF send, CallReturns
<1>26. QED
    BY <1>1, <1>2, <1>3, <1>4, <1>5, <1>6, <1>7, <1>8, <1>9, <1>10, <1>11, <1>12,
       <1>13, <1>14, <1>15, <1>16, <1>17, <1>18, <1>19, <1>20, <1>21, <1>22, <1>23,
       <1>24, <1>25
       DEF Next, startListener, Handler

-------------------------------------------------------------------------------
LEMMA InitInv == Init => TypeInv /\ FollowInv
<1> SUFFICES ASSUME Init PROVE TypeInv /\ FollowInv
    OBVIOUS
<1>1. /\ zigbeeList \in Lists \cup {NoList}
      /\ eventbuffer \in Seq([device : Devices, state : States])
    BY DEF Init
<1>2. /\ newest \in [Devices -> 1 .. MaxStates] /\ handled \in [Devices -> States]
      /\ values \in [Devices -> States]
    BY DEF Init, States
<1>3. /\ hState \in [Handlers -> States] /\ hAt \in [Handlers -> {"idle"}]
      /\ hTopic \in [Handlers -> Names \cup {NoName}]
      /\ hDevice \in [Handlers -> Devices \cup {NoDevice}]
      /\ rTodo \in [Refreshers -> SUBSET Names]
    BY DEF Init, States
<1>4. TypeOK
    <2>1. /\ requested \subseteq Devices /\ changes \in 0 .. MaxChanges /\ lists \subseteq Lists
          /\ listener = "devices" /\ register = NoList /\ valueMux = Free
          /\ Len(eventbuffer) <= EventBufferSize
          /\ eAt = "running" /\ cAt = "idle" /\ cDevice = NoDevice
          /\ sleeping = FALSE /\ ctxDone = FALSE /\ exited = FALSE
        BY DEF Init
    <2>2. \A h \in Handlers : valueMux = h <=> hAt[h] = "sending"
        BY <1>3, <2>1
    <2>3. QED
        BY <1>1, <1>2, <1>3, <2>1, <2>2 DEF TypeOK
<1>5. Found
    BY DEF Init, Found
<1>6. FollowInv
    BY DEF Init, FollowInv, Handing, lastEvent, eventsOf
<1>7. QED
    BY <1>4, <1>5, <1>6 DEF TypeInv

\* Every variable keeps its kind, and valueMux is held exactly by the
\* eventHandler that hands over its state (eventHandler).
THEOREM TypeCorrect == Safety => []TypeOK
<1>1. TypeInv => TypeOK
    BY DEF TypeInv
<1>2. QED
    BY <1>1, InitInv, TypeStep, PTL DEF Safety

\* However many eventHandlers run at once, the last state of a device that goes
\* to the event loop is the one a get answers (eventHandler, GetByIeee).
THEOREM ValuesFollowEventsHolds == Safety => []ValuesFollowEvents
<1>1. TypeInv /\ FollowInv => ValuesFollowEvents
    BY DEF TypeInv, TypeOK, FollowInv, Handing, ValuesFollowEvents
<1>2. QED
    BY <1>1, InitInv, TypeStep, FollowStep, PTL DEF Safety

\* For any number of eventHandlers and any buffer, the client implements
\* StateFeed: every value a get answers is an event the event loop takes, none
\* is dropped, doubled or overtaken (eventHandler, Event, Get).
THEOREM FeedsStatesHolds == Safety => FeedsStates
<1>1. Init => Feed!Init
    BY DEF Init, Feed!Init, accepted
<1>2. QED
    BY <1>1, InitInv, TypeStep, FeedStep, PTL DEF Safety, FeedsStates, Feed!Spec

===============================================================================
