---------------------------- MODULE DeviceHandling ----------------------------
(***************************************************************************)
(* How the devices of zigbee2mqtt become devices of the mgw: the device    *)
(* lists on their way to the device loop, the loop itself with its retries *)
(* of devices whose type cannot be read, the values it asks for afterwards *)
(* and the events the connector lets through meanwhile                     *)
(* (pkg/connector: device.go, connector.go, event.go; pkg/zigbee2mqtt:     *)
(* devices.go, register.go, event.go).                                     *)
(*                                                                         *)
(* A device list is a function from devices to what the list says of each: *)
(* "absent", "invalid" (isValidDevice is false), "disabled" or "enabled".  *)
(* The order of a list is abstracted: the loop takes any device next.      *)
(* Delays are in seconds.                                                  *)
(*                                                                         *)
(* The goroutines: the handlers of device list messages and the mgw        *)
(* client's refresh notifications (Senders, unordered), the device loop,   *)
(* the event loop, and those that ask zigbee2mqtt for values.              *)
(*                                                                         *)
(* A definition marked "mutant" is a faulty variant of the one after it    *)
(* that nothing uses; PROJECT.json names the property it would break.      *)
(***************************************************************************)
EXTENDS Integers, Sequences, FiniteSets

CONSTANTS
    Devices,                    \* ieee addresses
    Senders,                    \* the handlers that may run at once
    Lists,                      \* the device lists zigbee2mqtt may publish
    MaxMessages,                \* bound on the list messages of a behaviour
    MaxEvents,                  \* bound on the events on their way at a time
    DeviceUpdateBufferSize,     \* capacity of deviceupdatebuffer, 100 in the code
    deviceRetryMinDelay,        \* 1
    deviceRetryMaxDelay,        \* 60
    CreateMissingDeviceTypes,   \* the config flag
    SetDeviceErrors,            \* the mgw client may fail to publish a device
    NoList,                     \* no list yet
    NoDevice                    \* the loop is between two devices

Infos == {"absent", "invalid", "disabled", "enabled"}

ASSUME ListsAssumption == Lists \subseteq [Devices -> Infos] /\ NoList \notin Lists

ASSUME BoundsAssumption ==
    /\ MaxMessages \in Nat
    /\ MaxEvents \in Nat
    /\ DeviceUpdateBufferSize \in Nat \ {0}
    /\ CreateMissingDeviceTypes \in BOOLEAN
    /\ SetDeviceErrors \in BOOLEAN
    /\ NoDevice \notin Devices

ASSUME DelaysAssumption ==
    /\ deviceRetryMinDelay \in Nat \ {0}
    /\ deviceRetryMaxDelay \in Nat
    /\ deviceRetryMinDelay <= deviceRetryMaxDelay

VARIABLES
    register,           \* the list of the device register
    received,           \* the list messages so far
    sending,            \* the list each sender is about to hand over
    firstOf,            \* the sender of the first list, until it is handed over
    deviceupdatebuffer, \* the channel between the senders and the loop
    phase,              \* where the device loop is
    list,               \* the list it handles, or handled last
    todo,               \* the devices of the round not yet handled
    device,             \* the device at hand
    failed,             \* the loop's devices to be retried
    newFailed,          \* those of the round so far
    recovered,          \* devices of `failed` the round could handle
    retry,              \* the retry timer is armed
    delay,              \* the delay of the next retry
    repoUp,             \* the device repository answers
    types,              \* devices the repository has a matching type for
    devicestate,        \* the states that decide which events are allowed
    mgwState,           \* the state of each device the mgw was told last
    refreshing,         \* devices whose values a goroutine is about to request
    requested,          \* devices zigbee2mqtt was asked for the values of
    events,             \* device events on their way to the event loop
    initial,            \* the refresh after the first list
    ctxDone,            \* the context is cancelled
    mgwConnected,       \* the mgw client has not disconnected on it yet
    refused,            \* history: devices of the list the mgw client failed to publish
    unread,             \* history: devices whose type could not be read since
                        \* they were last registered as enabled
    lapsed,             \* history: let go since their last failed read
    unrefreshed,        \* history: registered after a failed read, not yet asked
    unheard             \* history: no event of theirs was let through since it

listVars  == <<register, received, sending, firstOf, deviceupdatebuffer>>
roundVars == <<phase, list, todo, device, failed, newFailed, recovered>>
retryVars == <<retry, delay>>
repoVars  == <<repoUp, types>>
stateVars == <<devicestate, mgwState>>
valueVars == <<refreshing, requested, events, initial>>
stopVars == <<ctxDone, mgwConnected>>
historyVars == <<refused, unread, lapsed, unrefreshed, unheard>>
vars == <<listVars, roundVars, retryVars, repoVars, stateVars, valueVars, stopVars, historyVars>>

-------------------------------------------------------------------------------
\* What a list says of the devices.

isValidDevice(l, d) == l[d] \in {"disabled", "enabled"}

devicesOf(l) == { d \in Devices : l[d] # "absent" }

getDeviceState(l, d) == IF l[d] = "disabled" THEN "offline" ELSE "online"

Empty == [d \in Devices |-> "absent"]

Init ==
    /\ register = NoList
    /\ received = 0
    /\ sending = [s \in Senders |-> NoList]
    /\ firstOf = {}
    /\ deviceupdatebuffer = <<>>
    /\ phase = "idle"
    /\ list = Empty
    /\ todo = {} /\ failed = {} /\ newFailed = {} /\ recovered = {}
    /\ device = NoDevice
    /\ retry = FALSE
    /\ delay = deviceRetryMinDelay
    /\ repoUp \in BOOLEAN
    /\ types \in SUBSET Devices
    /\ devicestate = [d \in Devices |-> "none"]
    /\ mgwState = [d \in Devices |-> "none"]
    /\ refreshing = {} /\ requested = {} /\ events = {}
    /\ initial = "none"
    /\ ctxDone = FALSE
    /\ mgwConnected = TRUE
    /\ refused = {} /\ unread = {} /\ lapsed = {} /\ unrefreshed = {} /\ unheard = {}

-------------------------------------------------------------------------------
\* The senders of device lists.

\* deviceInfoHandler puts the list into the register, then hands it over.
deviceInfoHandler(s, l) ==
    /\ sending[s] = NoList
    /\ received < MaxMessages
    /\ received' = received + 1
    /\ register' = l
    /\ sending' = [sending EXCEPT ![s] = l]
    /\ firstOf' = IF register = NoList THEN {s} ELSE firstOf
    /\ UNCHANGED <<deviceupdatebuffer, roundVars, retryVars, repoVars, stateVars, valueVars,
                   stopVars, historyVars>>

\* The mgw client (re)connected: the register's list, once there is one.
NotifyRefresh(s) ==
    /\ sending[s] = NoList
    /\ register # NoList
    /\ sending' = [sending EXCEPT ![s] = register]
    /\ UNCHANGED <<register, received, firstOf, deviceupdatebuffer, roundVars, retryVars, repoVars,
                   stateVars, valueVars, stopVars, historyVars>>

\* Blocks while the buffer is full.  The handler of the first list then starts
\* the initial refresh.
DeviceInfoUpdate(s) ==
    /\ sending[s] # NoList
    /\ Len(deviceupdatebuffer) < DeviceUpdateBufferSize
    /\ deviceupdatebuffer' = Append(deviceupdatebuffer, sending[s])
    /\ sending' = [sending EXCEPT ![s] = NoList]
    /\ firstOf' = firstOf \ {s}
    /\ initial' = IF s \in firstOf THEN "sleeping" ELSE initial
    /\ UNCHANGED <<register, received, roundVars, retryVars, repoVars, stateVars, refreshing,
                   requested, events, stopVars, historyVars>>

-------------------------------------------------------------------------------
\* The device loop.

\* The history of a device that failed, and that is neither registered as enabled
\* nor to be retried.
letGo(set) == lapsed' = lapsed \cup (unread \cap set)

\* A complete list replaces the devices still to be retried.
TakeList ==
    /\ phase = "idle"
    /\ deviceupdatebuffer # <<>>
    /\ list' = Head(deviceupdatebuffer)
    /\ deviceupdatebuffer' = Tail(deviceupdatebuffer)
    /\ todo' = devicesOf(list')
    /\ newFailed' = {} /\ recovered' = {}
    /\ phase' = "choosing"
    /\ delay' = deviceRetryMinDelay
    /\ letGo(Devices \ devicesOf(list'))
    /\ refused' = {}
    /\ UNCHANGED <<register, received, sending, firstOf, device, failed, retry, repoVars, stateVars,
                   valueVars, stopVars, unread, unrefreshed, unheard>>

doubledAlways(n) == 2 * n                                   \* mutant
doubled(n) == IF 2 * n < deviceRetryMaxDelay THEN 2 * n ELSE deviceRetryMaxDelay

\* The retry timer fired: only the failed devices, as their list described them.
Retry ==
    /\ phase = "idle"
    /\ retry
    /\ todo' = failed
    /\ newFailed' = {} /\ recovered' = {}
    /\ phase' = "choosing"
    /\ delay' = doubled(delay)
    /\ UNCHANGED <<listVars, list, device, failed, retry, repoVars, stateVars, valueVars,
                   stopVars, historyVars>>

\* The devices the round has handled without an error and that were failing.
nowRecoveredLate(d) ==                                      \* mutant
    IF d \in newFailed /\ list[d] # "disabled" THEN recovered \cup {d} ELSE recovered
nowRecovered(d) == IF d \in failed /\ list[d] # "disabled" THEN recovered \cup {d} ELSE recovered

\* An invalid device is skipped: neither registered nor an error.  It may be
\* disabled too.
Skip(d) ==
    /\ phase = "choosing"
    /\ d \in todo
    /\ ~isValidDevice(list, d)
    /\ todo' = todo \ {d}
    /\ recovered' \in {recovered, nowRecovered(d)}
    /\ letGo({d})
    /\ UNCHANGED <<listVars, phase, list, device, failed, newFailed, retryVars, repoVars,
                   stateVars, valueVars, stopVars, refused, unread, unrefreshed, unheard>>

\* getDeviceTypeId: what the device's caches hold may be read while the
\* repository is down; nothing else can.
LookUp(d) ==
    /\ phase = "choosing"
    /\ d \in todo
    /\ isValidDevice(list, d)
    /\ todo' = todo \ {d}
    /\ \/ /\ d \in types
          /\ phase' = "storing"
          /\ device' = d
          /\ UNCHANGED <<newFailed, historyVars>>
       \/ /\ d \notin types
          /\ phase' = IF CreateMissingDeviceTypes THEN "creating" ELSE "choosing"
          /\ device' = IF CreateMissingDeviceTypes THEN d ELSE NoDevice
          /\ letGo(IF CreateMissingDeviceTypes THEN {} ELSE {d})
          /\ UNCHANGED <<newFailed, refused, unread, unrefreshed, unheard>>
       \/ /\ ~repoUp
          /\ newFailed' = newFailed \cup {d}
          /\ unread' = unread \cup {d}
          /\ lapsed' = lapsed \ {d}
          /\ unrefreshed' = unrefreshed \ {d}
          /\ unheard' = unheard \cup {d}
          /\ UNCHANGED <<phase, device, refused>>
    /\ UNCHANGED <<listVars, list, failed, recovered, retryVars, repoVars, stateVars,
                   valueVars, stopVars>>

\* createDeviceType; a failed creation is an error without a retry.
Create ==
    /\ phase = "creating"
    /\ \/ /\ repoUp
          /\ types' = types \cup {device}
          /\ phase' = "storing"
          /\ UNCHANGED <<device, lapsed>>
       \/ /\ phase' = "choosing"
          /\ device' = NoDevice
          /\ letGo({device})
          /\ UNCHANGED types
    /\ UNCHANGED <<listVars, list, todo, failed, newFailed, recovered, retryVars, repoUp,
                   stateVars, valueVars, stopVars, refused, unread, unrefreshed, unheard>>

storeDeviceState ==
    /\ phase = "storing"
    /\ devicestate' = [devicestate EXCEPT ![device] = getDeviceState(list, device)]
    /\ phase' = "setting"
    /\ UNCHANGED <<listVars, list, todo, device, failed, newFailed, recovered, retryVars,
                   repoVars, mgwState, valueVars, stopVars, historyVars>>

\* A failed SetDevice is an error without a retry.
SetDevice ==
    /\ phase = "setting"
    /\ phase' = "choosing"
    /\ device' = NoDevice
    /\ \/ /\ mgwConnected
          /\ mgwState' = [mgwState EXCEPT ![device] = getDeviceState(list, device)]
          /\ recovered' = nowRecovered(device)
          /\ refused' = refused \ {device}
          /\ \/ /\ list[device] = "enabled"
                /\ unread' = unread \ {device}
                /\ unrefreshed' = unrefreshed \cup (unread \cap {device})
                /\ UNCHANGED lapsed
             \/ /\ list[device] = "disabled"
                /\ letGo({device})
                /\ UNCHANGED <<unread, unrefreshed>>
       \/ /\ mgwConnected => SetDeviceErrors
          /\ refused' = refused \cup {device}
          /\ letGo({device})
          /\ UNCHANGED <<mgwState, recovered, unread, unrefreshed>>
    /\ UNCHANGED <<listVars, list, todo, failed, newFailed, retryVars, repoVars, devicestate,
                   valueVars, stopVars, unheard>>

\* What the round leaves behind: the timer runs as long as devices fail.
retryOnce(set) == ~retry /\ set # {}                        \* mutant
retryWhile(set) == set # {}

EndRoundMerged ==                                           \* mutant
    /\ phase = "choosing"
    /\ todo = {}
    /\ phase' = "idle"
    /\ failed' = failed \cup newFailed
    /\ newFailed' = {} /\ recovered' = {}
    /\ retry' = retryWhile(failed')
    /\ refreshing' = refreshing \cup recovered
    /\ unrefreshed' = unrefreshed \ recovered
    /\ UNCHANGED <<listVars, list, todo, device, delay, repoVars, stateVars, requested, events,
                   initial, stopVars, refused, unread, lapsed, unheard>>

EndRound ==
    /\ phase = "choosing"
    /\ todo = {}
    /\ phase' = "idle"
    /\ failed' = newFailed
    /\ newFailed' = {} /\ recovered' = {}
    /\ retry' = retryWhile(newFailed)
    /\ refreshing' = refreshing \cup recovered
    /\ unrefreshed' = unrefreshed \ recovered
    /\ UNCHANGED <<listVars, list, todo, device, delay, repoVars, stateVars, requested, events,
                   initial, stopVars, refused, unread, lapsed, unheard>>

Stop ==
    /\ phase = "idle"
    /\ ctxDone
    /\ phase' = "stopped"
    /\ UNCHANGED <<listVars, list, todo, device, failed, newFailed, recovered, retryVars,
                   repoVars, stateVars, valueVars, stopVars, historyVars>>

-------------------------------------------------------------------------------
\* The values of the devices.

\* refreshEventValues of a recovered device; its publish fails only when the
\* zigbee client is disconnected, at the shutdown.
RefreshDeviceEventValues(d) ==
    /\ d \in refreshing
    /\ refreshing' = refreshing \ {d}
    /\ \/ requested' = requested \cup {d}
       \/ ctxDone /\ UNCHANGED requested
    /\ UNCHANGED <<listVars, roundVars, retryVars, repoVars, stateVars, events, initial,
                   stopVars, historyVars>>

\* The refresh 200ms after the first list.  An invalid device is asked too if
\* only its definition is incomplete.
RefreshEventValues ==
    /\ initial = "sleeping"
    /\ initial' = "done"
    /\ \/ \E incomplete \in SUBSET { d \in Devices : register[d] = "invalid" } :
             LET asked == incomplete \cup { d \in Devices : register[d] = "enabled" }
             IN  /\ requested' = requested \cup asked
                 /\ unrefreshed' = unrefreshed \ asked
       \/ ctxDone /\ UNCHANGED <<requested, unrefreshed>>
    /\ UNCHANGED <<listVars, roundVars, retryVars, repoVars, stateVars, refreshing, events,
                   stopVars, refused, unread, lapsed, unheard>>

\* zigbee2mqtt publishes a state, asked for or not; the event carries what the
\* register says of the device now.
Event(d) ==
    /\ register # NoList
    /\ register[d] # "absent"
    /\ Cardinality(events) < MaxEvents
    /\ \E usable \in { u \in BOOLEAN : /\ register[d] = "enabled"  => u
                                       /\ register[d] = "disabled" => ~u } :
          events' = events \cup {[device |-> d, usable |-> usable]}
    /\ requested' = requested \ {d}
    /\ UNCHANGED <<listVars, roundVars, retryVars, repoVars, stateVars, refreshing, initial,
                   stopVars, historyVars>>

eventIsAllowed(e) == e.usable /\ devicestate[e.device] = "online"

\* An event that is allowed goes on to the mgw, one that is not is dropped.  That
\* the reading of its device type or the mgw client may still fail is left out.
handleEvent(e) ==
    /\ e \in events
    /\ events' = events \ {e}
    /\ unheard' = IF eventIsAllowed(e) THEN unheard \ {e.device} ELSE unheard
    /\ UNCHANGED <<listVars, roundVars, retryVars, repoVars, stateVars, refreshing, requested,
                   initial, stopVars, refused, unread, lapsed, unrefreshed>>

-------------------------------------------------------------------------------
\* The device repository, and the shutdown.

RepoChanges ==
    /\ repoUp' = ~repoUp
    /\ UNCHANGED <<listVars, roundVars, retryVars, types, stateVars, valueVars, stopVars,
                   historyVars>>

Shutdown ==
    /\ ~ctxDone
    /\ ctxDone' = TRUE
    /\ UNCHANGED <<listVars, roundVars, retryVars, repoVars, stateVars, valueVars, mgwConnected,
                   historyVars>>

\* The mgw client disconnects on the same context as the device loop stops.
MgwDisconnect ==
    /\ ctxDone
    /\ mgwConnected
    /\ mgwConnected' = FALSE
    /\ UNCHANGED <<listVars, roundVars, retryVars, repoVars, stateVars, valueVars, ctxDone,
                   historyVars>>

-------------------------------------------------------------------------------
Round ==
    \/ TakeList \/ Retry
    \/ \E d \in Devices : Skip(d) \/ LookUp(d)
    \/ Create \/ storeDeviceState \/ SetDevice \/ EndRound

Next ==
    \/ \E s \in Senders, l \in Lists : deviceInfoHandler(s, l)
    \/ \E s \in Senders : NotifyRefresh(s) \/ DeviceInfoUpdate(s)
    \/ Round \/ Stop
    \/ \E d \in Devices : RefreshDeviceEventValues(d) \/ Event(d)
    \/ RefreshEventValues
    \/ \E e \in events : handleEvent(e)
    \/ RepoChanges \/ Shutdown \/ MgwDisconnect

Safety == Init /\ [][Next]_vars

\* The goroutines run and the retry timer fires; lists, refreshes, states of the
\* devices (asked for or not), outages and the shutdown are free.
Fairness ==
    /\ WF_vars(Round)
    /\ \A s \in Senders : WF_vars(DeviceInfoUpdate(s))
    /\ \A d \in Devices : WF_vars(RefreshDeviceEventValues(d))
    /\ \A e \in [device : Devices, usable : BOOLEAN] : WF_vars(handleEvent(e))

Spec == Safety /\ Fairness

-------------------------------------------------------------------------------
\* Properties.

States == {"none", "online", "offline"}

\* Every variable holds a value of its kind; the delay stays between its
\* bounds, however often it is doubled.
TypeOK ==
    /\ register \in Lists \cup {NoList}
    /\ received \in 0 .. MaxMessages
    /\ sending \in [Senders -> Lists \cup {NoList}]
    /\ firstOf \subseteq Senders
    /\ deviceupdatebuffer \in Seq(Lists)
    /\ phase \in {"idle", "choosing", "creating", "storing", "setting", "stopped"}
    /\ list \in [Devices -> Infos]
    /\ todo \subseteq Devices /\ failed \subseteq Devices
    /\ newFailed \subseteq Devices /\ recovered \subseteq Devices
    /\ device \in Devices \cup {NoDevice}
    /\ retry \in BOOLEAN
    /\ delay \in deviceRetryMinDelay .. deviceRetryMaxDelay
    /\ repoUp \in BOOLEAN /\ types \subseteq Devices
    /\ devicestate \in [Devices -> States] /\ mgwState \in [Devices -> States]
    /\ refreshing \subseteq Devices /\ requested \subseteq Devices
    /\ events \subseteq [device : Devices, usable : BOOLEAN]
    /\ initial \in {"none", "sleeping", "done"}
    /\ ctxDone \in BOOLEAN /\ mgwConnected \in BOOLEAN
    /\ refused \subseteq Devices /\ unread \subseteq Devices /\ lapsed \subseteq Devices
    /\ unrefreshed \subseteq Devices /\ unheard \subseteq Devices

\* Between two rounds every usable device of the list is where it should be:
\* the mgw and the event filter know its state, or it waits for an armed retry,
\* or it has no device type, or publishing it failed.
NothingForgotten ==
    phase = "idle" =>
        \A d \in Devices : isValidDevice(list, d) =>
            \/ d \in failed /\ retry
            \/ /\ devicestate[d] = getDeviceState(list, d)
               /\ mgwState[d] = getDeviceState(list, d)
            \/ d \notin types
            \/ d \in refused

\* "once registered, their current values are requested from zigbee2mqtt": no
\* round ends with an enabled device registered after a failed read whose
\* values nobody asks for.
RefreshedOnceRegistered == phase = "idle" => unrefreshed = {}

\* What holds of it: over all rounds, lists and failures, such a device is asked
\* for its values unless the loop had let it go in between, because a list left
\* it out or disabled it, or because its device type or the mgw refused it.
RefreshedUnlessLapsed == phase = "idle" => unrefreshed \subseteq lapsed

\* The loop implements DevicePromise.  The devices of its list that still need an
\* answer: between two rounds those to be retried, in a round also those to come.
outstanding ==
    IF phase \in {"idle", "stopped"}
    THEN failed
    ELSE { d \in Devices : (d \in todo \/ d = device) /\ isValidDevice(list, d) } \cup newFailed

Promise == INSTANCE DevicePromise
    WITH MayRefuse <- SetDeviceErrors, current <- list, open <- outstanding,
         gate <- devicestate, known <- mgwState, typed <- types, connected <- mgwConnected

\* Rounds, retries and lists that cut a retry short add up to one pass over each
\* list: no device is published twice for it, after it was given up, or before
\* its type and its state in the event filter are there, and none that has a type
\* is given up for an outage (startDeviceHandling, handleDeviceInfoUpdates).
PublishesLists == Promise!Spec

\* The lists have been handed over and the repository answers.
Settled ==
    /\ repoUp
    /\ ~ctxDone
    /\ deviceupdatebuffer = <<>>
    /\ \A s \in Senders : sending[s] = NoList

\* The retries end: when the repository stays readable and no list comes, every
\* usable device with a type is registered with the state its list gives it,
\* unless the mgw client failed to publish it.
EventuallyRegistered ==
    <>[]Settled => <>[](\A d \in Devices : isValidDevice(list, d) /\ d \in types =>
                            mgwState[d] = getDeviceState(list, d) \/ d \in refused)

\* A device that failed is heard of: the states dropped meanwhile are asked for
\* again after it was registered, late enough that the answer passes the event
\* filter, unless an outage, a list, the shutdown or the mgw client intervenes,
\* or the device does not answer.
EventuallyHeard ==
    \A d \in Devices :
        \/ d \in failed /\ d \in types /\ list[d] = "enabled"
              ~> d \notin unheard \/ ~Settled \/ register # list \/ d \in refused
        \/ <>[](d \in requested)

\* "handled again ... until the device-repository answers or a new device list
\* from zigbee2mqtt arrives": having handled the newest list, the loop does not
\* leave its failed devices for an older one.
RetriedUntilNewList == [][list = register /\ failed # {} => list' = register]_vars

===============================================================================
