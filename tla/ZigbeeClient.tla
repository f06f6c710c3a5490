------------------------------ MODULE ZigbeeClient ------------------------------
(***************************************************************************)
(* The zigbee2mqtt client and the two loops of the connector it works for  *)
(* (pkg/zigbee2mqtt: client.go, register.go, devices.go, event.go,         *)
(* command.go; pkg/connector: event.go, command.go, connector.go):         *)
(* the register that callers wait for until the first device list, the     *)
(* last state of each device, and valueMux, under which a state is both    *)
(* stored and handed to the event loop.                                    *)
(*                                                                         *)
(* A device list gives each device of it its friendly name, the topic of   *)
(* its states; devices that are disabled or unreadable are left out.  The  *)
(* states of a device are numbered.  What the event loop does with an      *)
(* event is in DeviceHandling, what the command loop does with a command   *)
(* in CommandAck: here they take as long as they like.                     *)
(*                                                                         *)
(* The mqtt client hands messages to handlers of their own, in any order   *)
(* (SetOrderMatters(false)); a clean session forgets its subscriptions.    *)
(*                                                                         *)
(* A definition marked "mutant" is a faulty variant of the one after it    *)
(* that nothing uses; PROJECT.json names the property it would break.      *)
(***************************************************************************)
EXTENDS Integers, Sequences, FiniteSets

CONSTANTS
    Devices,            \* ieee addresses
    Names,              \* friendly names
    Lists,              \* the device lists zigbee2mqtt may publish
    FirstLists,         \* what it may have published before the client starts
    Handlers,           \* the eventHandlers that may run at once
    EventBufferSize,    \* capacity of eventbuffer, 100 in the code
    Refreshing,         \* EventRefreshInterval is set to a duration
    MaxStates,          \* bound on the states of a device
    MaxChanges,         \* bound on the device lists published, the connections
                        \* lost and the handlers that overlap, taken together
    NoName,             \* the device is not in the list
    NoList,             \* no list was published or received yet
    NoDevice,
    Free                \* nobody holds valueMux

ASSUME ListsAssumption ==
    /\ NoName \notin Names
    /\ Lists \subseteq [Devices -> Names \cup {NoName}]
    /\ FirstLists \subseteq Lists \cup {NoList}
    /\ NoList \notin Lists
    /\ \A l \in Lists, d, e \in Devices : l[d] = l[e] /\ l[d] # NoName => d = e

ASSUME BoundsAssumption ==
    /\ EventBufferSize \in Nat \ {0}
    /\ Refreshing \in BOOLEAN
    /\ MaxStates \in Nat \ {0} /\ MaxChanges \in Nat
    /\ NoDevice \notin Devices
    /\ Free \notin Handlers

\* The goroutines that ask the devices for their values: one after the first
\* list, one by the interval.
Refreshers == {"initial", "ticker"}

VARIABLES
    zigbeeList,     \* the list zigbee2mqtt works with
    newest,         \* the newest state of each device
    requested,      \* devices zigbee2mqtt was asked for the state of, and may
                    \* still answer
    changes,        \* what MaxChanges bounds, so far
    listener,       \* the connection, and what startListener subscribes to next
    lists,          \* device lists on their way through deviceInfoHandler
    register,       \* the list of the device register
    hAt,            \* where each eventHandler is
    hTopic,         \* the friendly name its message is about
    hDevice,        \* the device the register has for it
    hState,         \* the state it carries
    values,         \* the last state of each device, 0 if there is none
    valueMux,       \* the eventHandler that holds the mutex
    eventbuffer,    \* the channel to the event loop
    eAt,            \* the event loop runs or has stopped
    handled,        \* the last state of each device it took
    cAt,            \* where the command loop is in its call of the client
    cDevice,        \* the device of the call
    sleeping,       \* the first list was set and its refresh did not start yet
    rTodo,          \* the friendly names each refresher has not asked yet
    ctxDone,        \* the context is cancelled
    exited          \* the process is over

brokerVars  == <<zigbeeList, newest, requested, changes>>
linkVars    == <<listener, lists, register>>
handlerVars == <<hAt, hTopic, hDevice, hState>>
valueVars   == <<values, valueMux, eventbuffer>>
loopVars    == <<eAt, handled, cAt, cDevice>>
refreshVars == <<sleeping, rTodo>>
stopVars    == <<ctxDone, exited>>
vars == <<brokerVars, linkVars, handlerVars, valueVars, loopVars, refreshVars, stopVars>>

Init ==
    /\ zigbeeList \in FirstLists
    /\ newest = [d \in Devices |-> 1]
    /\ requested = {}
    /\ changes = 0
    /\ listener = "devices"
    /\ lists = {}
    /\ register = NoList
    /\ hAt = [h \in Handlers |-> "idle"]
    /\ hTopic = [h \in Handlers |-> NoName]
    /\ hDevice = [h \in Handlers |-> NoDevice]
    /\ hState = [h \in Handlers |-> 0]
    /\ values = [d \in Devices |-> 0]
    /\ valueMux = Free
    /\ eventbuffer = <<>>
    /\ eAt = "running"
    /\ handled = [d \in Devices |-> 0]
    /\ cAt = "idle"
    /\ cDevice = NoDevice
    /\ sleeping = FALSE
    /\ rTodo = [r \in Refreshers |-> {}]
    /\ ctxDone = FALSE
    /\ exited = FALSE

-------------------------------------------------------------------------------
\* The device register.

named(l, n) == { d \in Devices : l # NoList /\ l[d] = n }

listed(l) == { d \in Devices : l # NoList /\ l[d] # NoName }

\* waitForInit: a caller waits for the first list, and gives up after a minute
\* without one.
initialized == register # NoList
neverTimesOut == FALSE                                      \* mutant
timesOut == register = NoList

-------------------------------------------------------------------------------
\* The connection, and startListener, which the client calls on each one.

connected == listener \in {"devices", "events", "on"}

\* A Subscribe on a connection that is lost fails, which ends the process
\* (log.Fatal), or never returns (that it may be resumed by a later connection,
\* whose own handler subscribes to the same topics, is left out).
ConnectionLost ==
    /\ ~exited
    /\ connected
    /\ changes < MaxChanges
    /\ changes' = changes + 1
    /\ listener' = "off"
    /\ \E kept \in SUBSET lists : lists' = kept
    /\ \/ UNCHANGED exited
       \/ listener \in {"devices", "events"} /\ exited' = TRUE
    /\ UNCHANGED <<zigbeeList, newest, requested, register, handlerVars, valueVars,
                   loopVars, refreshVars, ctxDone>>

\* SetAutoReconnect, once the broker is back and until the client was told to
\* disconnect.
Reconnect ==
    /\ ~exited
    /\ listener = "off"
    /\ listener' = "devices"
    /\ UNCHANGED <<brokerVars, lists, register, handlerVars, valueVars, loopVars, refreshVars,
                   stopVars>>

\* The broker sends the list it retained, if zigbee2mqtt has published one.
startDeviceInfoListener ==
    /\ ~exited
    /\ listener = "devices"
    /\ listener' = "events"
    /\ lists' = lists \cup ({zigbeeList} \ {NoList})
    /\ UNCHANGED <<brokerVars, register, handlerVars, valueVars, loopVars,
                   refreshVars, stopVars>>

startEventListener ==
    /\ ~exited
    /\ listener = "events"
    /\ listener' = "on"
    /\ UNCHANGED <<brokerVars, lists, register, handlerVars, valueVars, loopVars,
                   refreshVars, stopVars>>

-------------------------------------------------------------------------------
\* zigbee2mqtt, as the client sees it: an external program.  What it does after
\* the client has disconnected is left out.

\* zigbee2mqtt starts; devices come, go and are renamed.
ListPublished(l) ==
    /\ ~exited
    /\ listener # "closed"
    /\ changes < MaxChanges
    /\ changes' = changes + 1
    /\ zigbeeList' = l
    /\ lists' = IF listener \in {"events", "on"} THEN lists \cup {l} ELSE lists
    /\ UNCHANGED <<newest, requested, listener, register, handlerVars,
                   valueVars, loopVars, refreshVars, stopVars>>

\* State n of device d reaches an eventHandler (which one makes no difference),
\* or no one if the client does not listen.
Publish(d, n) ==
    /\ d \in listed(zigbeeList)
    /\ \/ /\ listener = "on"
          /\ \E h \in Handlers :
                /\ hAt[h] = "idle"
                /\ h = CHOOSE i \in Handlers : hAt[i] = "idle"
                /\ hAt' = [hAt EXCEPT ![h] = "looking"]
                /\ hTopic' = [hTopic EXCEPT ![h] = zigbeeList[d]]
                /\ hState' = [hState EXCEPT ![h] = n]
          /\ changes' = IF \A h \in Handlers : hAt[h] = "idle" THEN changes ELSE changes + 1
          /\ changes' <= MaxChanges
       \/ /\ listener # "on"
          /\ UNCHANGED <<hAt, hTopic, hState, changes>>
    /\ UNCHANGED hDevice

StateChanged(d) ==
    /\ ~exited
    /\ listener # "closed"
    /\ newest[d] < MaxStates
    /\ newest' = [newest EXCEPT ![d] = @ + 1]
    /\ Publish(d, newest[d] + 1)
    /\ UNCHANGED <<zigbeeList, requested, linkVars, valueVars, loopVars, refreshVars, stopVars>>

StateAnswered(d) ==
    /\ ~exited
    /\ listener # "closed"
    /\ d \in requested
    /\ requested' = requested \ {d}
    /\ Publish(d, newest[d])
    /\ UNCHANGED <<zigbeeList, newest, linkVars, valueVars, loopVars, refreshVars, stopVars>>

-------------------------------------------------------------------------------
\* deviceInfoHandler: the first list is followed by a refresh.
deviceInfoHandler(l) ==
    /\ ~exited
    /\ l \in lists
    /\ lists' = lists \ {l}
    /\ register' = l
    /\ sleeping' = (sleeping \/ ~initialized)
    /\ UNCHANGED <<brokerVars, listener, handlerVars, valueVars, loopVars, rTodo,
                   stopVars>>

-------------------------------------------------------------------------------
\* eventHandler.

Return(h) ==
    /\ hAt' = [hAt EXCEPT ![h] = "idle"]
    /\ hTopic' = [hTopic EXCEPT ![h] = NoName]
    /\ hDevice' = [hDevice EXCEPT ![h] = NoDevice]
    /\ hState' = [hState EXCEPT ![h] = 0]

\* GetByFriendlyName: a message of an unknown name is dropped, and so is one
\* that waited in vain.  StateObserved, which follows, is in CommandAck.
GetByFriendlyName(h) ==
    /\ ~exited
    /\ hAt[h] = "looking"
    /\ \/ /\ initialized
          /\ \E d \in named(register, hTopic[h]) :
                /\ hAt' = [hAt EXCEPT ![h] = "storing"]
                /\ hDevice' = [hDevice EXCEPT ![h] = d]
          /\ UNCHANGED <<hTopic, hState>>
       \/ initialized /\ named(register, hTopic[h]) = {} /\ Return(h)
       \/ timesOut /\ Return(h)
    /\ UNCHANGED <<brokerVars, linkVars, valueVars, loopVars, refreshVars, stopVars>>

lockForgotten(h) == Free                                    \* mutant
lockOf(h) == h

\* valueMux.Lock() and the assignment.
Store(h) ==
    /\ ~exited
    /\ hAt[h] = "storing"
    /\ valueMux = Free
    /\ valueMux' = lockOf(h)
    /\ values' = [values EXCEPT ![hDevice[h]] = hState[h]]
    /\ hAt' = [hAt EXCEPT ![h] = "sending"]
    /\ UNCHANGED <<brokerVars, linkVars, hTopic, hDevice, hState, eventbuffer, loopVars,
                   refreshVars, stopVars>>

EventOrDrop(h) ==                                           \* mutant
    /\ ~exited
    /\ hAt[h] = "sending"
    /\ eventbuffer' = IF Len(eventbuffer) < EventBufferSize
                      THEN Append(eventbuffer, [device |-> hDevice[h], state |-> hState[h]])
                      ELSE eventbuffer
    /\ valueMux' = Free
    /\ Return(h)
    /\ UNCHANGED <<brokerVars, linkVars, values, loopVars, refreshVars, stopVars>>

\* Event: blocks while the buffer is full, still under valueMux.
Event(h) ==
    /\ ~exited
    /\ hAt[h] = "sending"
    /\ Len(eventbuffer) < EventBufferSize
    /\ eventbuffer' = Append(eventbuffer, [device |-> hDevice[h], state |-> hState[h]])
    /\ valueMux' = Free
    /\ Return(h)
    /\ UNCHANGED <<brokerVars, linkVars, values, loopVars, refreshVars, stopVars>>

-------------------------------------------------------------------------------
\* The event loop.

\* handleEvent takes as long as the repository and the mgw broker take: the
\* loop takes the next event when it likes.
TakeEvent ==
    /\ ~exited
    /\ eAt = "running"
    /\ eventbuffer # <<>>
    /\ handled' = [handled EXCEPT ![Head(eventbuffer).device] = Head(eventbuffer).state]
    /\ eventbuffer' = Tail(eventbuffer)
    /\ UNCHANGED <<brokerVars, linkVars, handlerVars, values, valueMux, eAt, cAt, cDevice,
                   refreshVars, stopVars>>

\* A select between a cancelled context and a filled buffer takes either.
StopEvents ==
    /\ ~exited
    /\ ctxDone
    /\ eAt = "running"
    /\ eAt' = "stopped"
    /\ UNCHANGED <<brokerVars, linkVars, handlerVars, valueVars, handled, cAt, cDevice,
                   refreshVars, stopVars>>

-------------------------------------------------------------------------------
\* The command loop's calls: GetByIeee, for a get and for the last state of a
\* set, and SetByIeee.

Call(d) ==
    /\ ~exited
    /\ cAt = "idle"
    /\ cAt' = "looking"
    /\ cDevice' = d
    /\ UNCHANGED <<brokerVars, linkVars, handlerVars, valueVars, eAt, handled, refreshVars,
                   stopVars>>

CallReturns ==
    /\ cAt' = "idle"
    /\ cDevice' = NoDevice

\* The register's GetByIeee, of either call; an unknown device and a timeout are
\* errors.
GetByIeee ==
    /\ ~exited
    /\ cAt = "looking"
    /\ \/ /\ initialized
          /\ cDevice \in listed(register)
          /\ cAt' \in {"getting", "sending"}
          /\ UNCHANGED cDevice
       \/ initialized /\ CallReturns
       \/ timesOut /\ CallReturns
    /\ UNCHANGED <<brokerVars, linkVars, handlerVars, valueVars, eAt, handled, refreshVars,
                   stopVars>>

\* Get locks and unlocks valueMux.
Get ==
    /\ ~exited
    /\ cAt = "getting"
    /\ valueMux = Free
    /\ CallReturns
    /\ UNCHANGED <<brokerVars, linkVars, handlerVars, valueVars, eAt, handled, refreshVars,
                   stopVars>>

\* The publish of a set, whose effect is a state of the device: its token is
\* complete once there is a connection, or with an error once it was closed.
send ==
    /\ ~exited
    /\ cAt = "sending"
    /\ connected \/ listener = "closed"
    /\ CallReturns
    /\ UNCHANGED <<brokerVars, linkVars, handlerVars, valueVars, eAt, handled, refreshVars,
                   stopVars>>

StopCommands ==
    /\ ~exited
    /\ ctxDone
    /\ cAt = "idle"
    /\ cAt' = "stopped"
    /\ UNCHANGED <<brokerVars, linkVars, handlerVars, valueVars, eAt, handled, cDevice,
                   refreshVars, stopVars>>

-------------------------------------------------------------------------------
\* RefreshEventValues.

refreshedNone(l) == {}                                      \* mutant
refreshed(l) == { l[d] : d \in listed(l) }

\* The register's List.  A refresh that waits in vain for the first list is
\* none.
ListDevices(r) ==
    /\ initialized
    /\ rTodo[r] = {}
    /\ rTodo' = [rTodo EXCEPT ![r] = refreshed(register)]

initialEventRefresh ==
    /\ ~exited
    /\ sleeping
    /\ sleeping' = FALSE
    /\ ListDevices("initial")
    /\ UNCHANGED <<brokerVars, linkVars, handlerVars, valueVars, loopVars, stopVars>>

\* A select between a tick and a cancelled context takes either.
Tick ==
    /\ ~exited
    /\ Refreshing
    /\ ListDevices("ticker")
    /\ UNCHANGED <<brokerVars, linkVars, handlerVars, valueVars, loopVars, sleeping, stopVars>>

\* A request goes to the name the list had, once there is a connection; a failed
\* one ends the refresh.
RefreshDeviceEventValues(r) ==
    /\ ~exited
    /\ \/ /\ connected
          /\ \E n \in rTodo[r] :
                /\ requested' = requested \cup named(zigbeeList, n)
                /\ rTodo' = [rTodo EXCEPT ![r] = @ \ {n}]
       \/ /\ listener = "closed"
          /\ rTodo[r] # {}
          /\ rTodo' = [rTodo EXCEPT ![r] = {}]
          /\ UNCHANGED requested
    /\ UNCHANGED <<zigbeeList, newest, changes, linkVars, handlerVars, valueVars, loopVars,
                   sleeping, stopVars>>

-------------------------------------------------------------------------------
\* The end of the process.

Shutdown ==
    /\ ~ctxDone
    /\ ~exited
    /\ ctxDone' = TRUE
    /\ UNCHANGED <<brokerVars, linkVars, handlerVars, valueVars, loopVars, refreshVars, exited>>

\* A Subscribe that is under way fails, which ends the process, and so does a
\* publish; but one that was to be sent by the next connection stays open.
Disconnect ==
    /\ ~exited
    /\ ctxDone
    /\ listener # "closed"
    /\ listener' = "closed"
    /\ requested' = {}
    /\ \/ UNCHANGED <<cAt, exited>>
       \/ listener \in {"devices", "events"} /\ exited' = TRUE /\ UNCHANGED cAt
       \/ listener = "off" /\ cAt = "sending" /\ cAt' = "unsent" /\ UNCHANGED exited
    /\ UNCHANGED <<zigbeeList, newest, changes, lists, register, handlerVars, valueVars, eAt,
                   handled, cDevice, refreshVars, ctxDone>>

\* wg.Wait() in main, for the goroutines of this module.
Exit ==
    /\ ~exited
    /\ ctxDone
    /\ eAt = "stopped" /\ cAt = "stopped" /\ listener = "closed"
    /\ exited' = TRUE
    /\ UNCHANGED <<brokerVars, linkVars, handlerVars, valueVars, loopVars, refreshVars, ctxDone>>

-------------------------------------------------------------------------------
startListener == startDeviceInfoListener \/ startEventListener

Handler(h) == GetByFriendlyName(h) \/ Store(h) \/ Event(h)

Next ==
    \/ startListener \/ ConnectionLost \/ Reconnect
    \/ \E l \in Lists : ListPublished(l) \/ deviceInfoHandler(l)
    \/ \E d \in Devices : StateChanged(d) \/ StateAnswered(d) \/ Call(d)
    \/ \E h \in Handlers : Handler(h)
    \/ TakeEvent \/ StopEvents
    \/ GetByIeee \/ Get \/ send \/ StopCommands
    \/ initialEventRefresh \/ Tick
    \/ \E r \in Refreshers : RefreshDeviceEventValues(r)
    \/ Shutdown \/ Disconnect \/ Exit

Safety == Init /\ [][Next]_vars

\* Goroutines run; Go hands a mutex to the one that waits longest, and so does
\* a channel with room; a select picks at random what is ready.  The ticker
\* ticks, and a publish is sent while there is a connection.  Lists, states,
\* answers of the devices, commands, losses, reconnects and the signal are free.
Fairness ==
    /\ WF_vars(startListener)
    /\ WF_vars(\E l \in Lists : deviceInfoHandler(l))
    /\ \A h \in Handlers : SF_vars(Handler(h))
    /\ WF_vars(TakeEvent \/ StopEvents)
    /\ SF_vars(GetByIeee \/ Get \/ send) /\ SF_vars(StopCommands)
    /\ WF_vars(initialEventRefresh \/ RefreshDeviceEventValues("initial"))
    /\ WF_vars((Tick /\ ~ctxDone) \/ RefreshDeviceEventValues("ticker"))
    /\ WF_vars(Disconnect) /\ WF_vars(Exit)

Spec == Safety /\ Fairness

-------------------------------------------------------------------------------
\* Properties.

States == 0 .. MaxStates

\* Every variable holds a value of its kind, and valueMux is held exactly by
\* the eventHandler that hands over its state.
TypeOK ==
    /\ zigbeeList \in Lists \cup {NoList}
    /\ newest \in [Devices -> 1 .. MaxStates]
    /\ requested \subseteq Devices
    /\ changes \in 0 .. MaxChanges
    /\ listener \in {"off", "devices", "events", "on", "closed"}
    /\ lists \subseteq Lists
    /\ register \in Lists \cup {NoList}
    /\ hAt \in [Handlers -> {"idle", "looking", "storing", "sending"}]
    /\ hTopic \in [Handlers -> Names \cup {NoName}]
    /\ hDevice \in [Handlers -> Devices \cup {NoDevice}]
    /\ hState \in [Handlers -> States]
    /\ values \in [Devices -> States]
    /\ valueMux \in Handlers \cup {Free}
    /\ eventbuffer \in Seq([device : Devices, state : States])
    /\ Len(eventbuffer) <= EventBufferSize
    /\ eAt \in {"running", "stopped"}
    /\ handled \in [Devices -> States]
    /\ cAt \in {"idle", "looking", "getting", "sending", "unsent", "stopped"}
    /\ cDevice \in Devices \cup {NoDevice}
    /\ sleeping \in BOOLEAN
    /\ rTodo \in [Refreshers -> SUBSET Names]
    /\ ctxDone \in BOOLEAN /\ exited \in BOOLEAN
    /\ \A h \in Handlers : valueMux = h <=> hAt[h] = "sending"

\* The places of device d in the buffer, and the state the event loop sees last.
eventsOf(d) == { i \in 1 .. Len(eventbuffer) : eventbuffer[i].device = d }
lastEvent(d, s) ==
    IF eventsOf(d) = {}
    THEN handled[d] = s
    ELSE \E i \in eventsOf(d) : /\ \A j \in eventsOf(d) : j <= i
                                /\ eventbuffer[i].state = s

\* Events and values agree: whatever order the eventHandlers run in, the last
\* state of a device that goes to the event loop is the one a get answers (both
\* happen under valueMux).
ValuesFollowEvents == valueMux = Free => \A d \in Devices : lastEvent(d, values[d])

\* The client implements StateFeed.  A state is accepted when it is stored; it is
\* in the queue from then on, although its eventHandler may still wait for room.
accepted ==
    IF valueMux = Free
    THEN eventbuffer
    ELSE Append(eventbuffer, [device |-> hDevice[valueMux], state |-> hState[valueMux]])

Feed == INSTANCE StateFeed
    WITH NoState <- 0, Room <- EventBufferSize + 1,
         current <- values, queue <- accepted, taken <- handled

\* Storing a value and handing it over look like one step to both loops, for
\* all the waiting in between: no state is dropped, doubled or overtaken on its
\* way from the values to the event loop (eventHandler, Event).
FeedsStates == Feed!Spec

\* A shutdown may leave the event loop stopped with a full buffer and the
\* command loop waiting for a value whose eventHandler waits for room.
Stuck == /\ eAt = "stopped" /\ Len(eventbuffer) = EventBufferSize
         /\ cAt = "getting" /\ valueMux # Free

\* A call of the command loop returns, although it may wait for the first list
\* and for a valueMux whose holder waits for the event loop, and a command loop
\* that has stopped is followed by the end of the process.  Excepted are the
\* valueMux that a shutdown leaves locked, the publish it leaves unsent, and a
\* broker that stays out of reach.
CallsReturn ==
    \/ cAt # "idle" ~> cAt = "idle" \/ exited \/ Stuck \/ cAt = "unsent"
    \/ <>[](listener = "off")

\* The client listens, and the register has what zigbee2mqtt works with.
Stable == listener = "on" /\ register = zigbeeList /\ lists = {} /\ ~ctxDone /\ ~exited

\* A state that was lost with a connection, dropped because its name was not in
\* the register, or stored over a newer one is not the last word: the refresh of
\* the interval brings the newest one, unless the device leaves the request
\* unanswered from then on (RefreshEventValues).
StaleValuesHeal ==
    <>[]Stable =>
        \A d \in Devices :
            \/ <>[](d \in listed(zigbeeList) => values[d] = newest[d])
            \/ <>[](d \in requested)

\* "give go routines time for cleanup and last messages": the wait of main for
\* its goroutines ends.
ShutdownCompletes == ctxDone ~> exited

===============================================================================
