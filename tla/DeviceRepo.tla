------------------------------- MODULE DeviceRepo -------------------------------
(***************************************************************************)
(* The device repository client that the device loop and the event loop    *)
(* share: its list of device types, reloaded by age, the device type ids   *)
(* of known devices, and the creation of missing device types              *)
(* (pkg/devicerepo; getDeviceTypeId and getEventDeviceType of              *)
(* pkg/connector).                                                         *)
(*                                                                         *)
(* A device type is a model value; what a device's vendor and model match  *)
(* is MatchOf.  The clock counts in units longer than a request, so that   *)
(* it stands still while one is on its way.  A request fails while the     *)
(* repository is down, a failed authorization included.                    *)
(*                                                                         *)
(* A definition marked "mutant" is a faulty variant of the one after it    *)
(* that nothing uses; PROJECT.json names the property it would break.      *)
(***************************************************************************)
EXTENDS Integers

CONSTANTS
    Types,              \* the device types with the zigbee attribute
    Devices,
    MatchOf,            \* the type a device's vendor and model belong to
    deviceLoop,         \* the goroutine of startDeviceHandling
    eventLoop,          \* the goroutine of startEventHandling
    minCacheDuration,
    maxCacheDuration,
    CreateMissingDeviceTypes,
    MaxTime,            \* bound on the clock
    Never,              \* the zero time
    Future,             \* a torn time later than the clock
    NoType,
    Free                \* nobody holds dtMux

Callers == {deviceLoop, eventLoop}

ASSUME TypesAssumption == MatchOf \in [Devices -> Types] /\ NoType \notin Types

ASSUME CallersAssumption == deviceLoop # eventLoop /\ Free \notin Callers

ASSUME TimesAssumption ==
    /\ minCacheDuration \in Nat
    /\ maxCacheDuration \in Nat
    /\ MaxTime \in Nat
    /\ Never \notin Int /\ Future \notin Int /\ Never # Future
    /\ CreateMissingDeviceTypes \in BOOLEAN

VARIABLES
    now,            \* the clock
    repoUp,         \* the repository answers
    repoTypes,      \* the device types it has
    repoDevices,    \* the type it has of each device, NoType if it knows none
    deviceTypes,    \* the list loaded last
    lastDtRefresh,  \* when that was; Never forces a request
    dtMux,          \* who holds the mutex of these two
    createdDt,      \* the types created by this process
    deviceDeviceTypeIdCache,
    pc,             \* where each caller is in its lookup
    device,         \* the device it looks up
    want,           \* the type it looks for
    byId,           \* which it has from the device's id
    reloaded,       \* the list was reloaded because the type was missing
    list,           \* the list it works on
    answer,         \* the outcome of its last lookup
    start,          \* history: when that lookup began
    changed,        \* history: when a type last came or went
    own,            \* history: types that are there and were answered as created
    ownAtStart,     \* history: those of them that were there at the start
    misread         \* history: the lookup took a torn time for one to come

repoVars   == <<repoUp, repoTypes, repoDevices>>
cacheVars  == <<deviceTypes, lastDtRefresh, dtMux, createdDt>>
lookupVars == <<pc, device, want, byId, reloaded, list, answer>>
historyVars == <<start, changed, own, ownAtStart, misread>>
vars == <<now, repoVars, cacheVars, deviceDeviceTypeIdCache, lookupVars, historyVars>>

Answers == {"none", "known", "found", "created", "missing", "error"}

Init ==
    /\ now = 0
    /\ repoUp = TRUE
    /\ repoTypes \in SUBSET Types
    /\ repoDevices \in [Devices -> repoTypes \cup {NoType}]
    /\ deviceTypes = {} /\ lastDtRefresh = Never /\ dtMux = Free /\ createdDt = {}
    /\ deviceDeviceTypeIdCache = [d \in Devices |-> NoType]
    /\ pc = [c \in Callers |-> "idle"]
    /\ device \in [Callers -> Devices]
    /\ want = [c \in Callers |-> NoType]
    /\ byId = [c \in Callers |-> FALSE]
    /\ reloaded = [c \in Callers |-> FALSE]
    /\ list = [c \in Callers |-> {}]
    /\ answer = [c \in Callers |-> "none"]
    /\ start = [c \in Callers |-> 0]
    /\ changed = [t \in Types |-> 0]
    /\ own = {} /\ ownAtStart = [c \in Callers |-> {}]
    /\ misread = [c \in Callers |-> FALSE]

-------------------------------------------------------------------------------
\* Where a lookup goes next.

At(c, p) == pc[c] = p

To(c, p) == pc' = [pc EXCEPT ![c] = p]

Answer(c, a) ==
    /\ To(c, "idle")
    /\ answer' = [answer EXCEPT ![c] = a]

\* Look for type t in the list of device types.
LookFor(c, t, id) ==
    /\ To(c, "aging")
    /\ want' = [want EXCEPT ![c] = t]
    /\ byId' = [byId EXCEPT ![c] = id]
    /\ reloaded' = [reloaded EXCEPT ![c] = FALSE]

\* Look for the type its vendor and model belong to.
FindDeviceType(c) == LookFor(c, MatchOf[device[c]], FALSE)

\* lastDtRefresh is read without dtMux: while its holder writes it, a torn value
\* may be read.  Two real times make one of the two, or one of long ago; the zero
\* time and a real one may also make one that is yet to come.
readings ==
    {lastDtRefresh}
        \cup (IF dtMux = Free THEN {} ELSE {Never})
        \cup (IF dtMux # Free /\ lastDtRefresh = Never THEN {Future} ELSE {})

neverOlder(t, duration) == t = Never                        \* mutant
olderThan(t, duration) == t = Never \/ (t # Future /\ now - t > duration)

Read(c, t) == misread' = [misread EXCEPT ![c] = @ \/ t = Future]

-------------------------------------------------------------------------------
\* A new device list or an event brings a device.
Start(c, d) ==
    /\ At(c, "idle")
    /\ To(c, "known")
    /\ device' = [device EXCEPT ![c] = d]
    /\ want' = [want EXCEPT ![c] = NoType]
    /\ answer' = [answer EXCEPT ![c] = "none"]
    /\ start' = [start EXCEPT ![c] = now]
    /\ ownAtStart' = [ownAtStart EXCEPT ![c] = own]
    /\ misread' = [misread EXCEPT ![c] = FALSE]
    /\ UNCHANGED <<now, repoVars, cacheVars, deviceDeviceTypeIdCache, byId, reloaded, list,
                   changed, own>>

\* The device loop takes the id of a known device for its answer; the event
\* loop needs the type.
Known(c, t) ==
    IF c = deviceLoop
    THEN Answer(c, "known") /\ UNCHANGED <<want, byId, reloaded>>
    ELSE LookFor(c, t, TRUE) /\ UNCHANGED answer

\* GetKnownDeviceDeviceTypeId: the cache, then the repository.  An error ends
\* the device loop's lookup; the event loop goes on by vendor and model.
GetKnownDeviceDeviceTypeId(c) ==
    LET d == device[c] IN
    /\ At(c, "known")
    /\ \/ /\ deviceDeviceTypeIdCache[d] # NoType
          /\ Known(c, deviceDeviceTypeIdCache[d])
          /\ UNCHANGED deviceDeviceTypeIdCache
       \/ /\ deviceDeviceTypeIdCache[d] = NoType
          /\ repoUp /\ repoDevices[d] # NoType
          /\ deviceDeviceTypeIdCache' = [deviceDeviceTypeIdCache EXCEPT ![d] = repoDevices[d]]
          /\ Known(c, repoDevices[d])
       \/ /\ deviceDeviceTypeIdCache[d] = NoType
          /\ ~repoUp \/ repoDevices[d] = NoType
          /\ IF c = deviceLoop /\ ~repoUp
             THEN Answer(c, "error") /\ UNCHANGED <<want, byId, reloaded>>
             ELSE FindDeviceType(c) /\ UNCHANGED answer
          /\ UNCHANGED deviceDeviceTypeIdCache
    /\ UNCHANGED <<now, repoVars, cacheVars, device, list, historyVars>>

\* ListZigbeeDeviceTypes: a list that is too old is loaded first.
ListZigbeeDeviceTypes(c) ==
    /\ At(c, "aging")
    /\ \E t \in readings :
          /\ To(c, IF olderThan(t, maxCacheDuration) THEN "refreshing" ELSE "listing")
          /\ Read(c, t)
    /\ UNCHANGED <<now, repoVars, cacheVars, deviceDeviceTypeIdCache, device, want, byId,
                   reloaded, list, answer, start, changed, own, ownAtStart>>

Refreshing == {"refreshing", "reloading"}

heldOnError(c) == c                                         \* mutant
releasedOnError(c) == Free

\* refreshDeviceTypeList under dtMux: the answer of the repository, or an error.
RequestTypes(c) ==
    /\ pc[c] \in Refreshing
    /\ dtMux = Free
    /\ \/ /\ repoUp
          /\ dtMux' = c
          /\ list' = [list EXCEPT ![c] = repoTypes]
          /\ To(c, IF At(c, "reloading") THEN "reloadLoaded" ELSE "refreshLoaded")
          /\ UNCHANGED answer
       \/ /\ ~repoUp
          /\ dtMux' = releasedOnError(c)
          /\ Answer(c, "error")
          /\ UNCHANGED list
    /\ UNCHANGED <<now, repoVars, deviceTypes, lastDtRefresh, createdDt,
                   deviceDeviceTypeIdCache, device, want, byId, reloaded, historyVars>>

\* The list is stored.  A reload is followed by another ListZigbeeDeviceTypes.
refreshDeviceTypeList(c) ==
    /\ pc[c] \in {"refreshLoaded", "reloadLoaded"}
    /\ deviceTypes' = list[c]
    /\ lastDtRefresh' = now
    /\ dtMux' = Free
    /\ To(c, IF At(c, "reloadLoaded") THEN "aging" ELSE "listing")
    /\ reloaded' = [reloaded EXCEPT ![c] = @ \/ At(c, "reloadLoaded")]
    /\ UNCHANGED <<now, repoVars, createdDt, deviceDeviceTypeIdCache, device, want, byId, list,
                   answer, historyVars>>

\* getDeviceTypeById, and getMatchingDeviceType by vendor and model.
inList(c, types) == want[c] \in types

\* NoMatchingDeviceTypeFound: by id, the vendor and model are tried; the device
\* loop may create the type.
Missing(c) ==
    IF byId[c]
    THEN FindDeviceType(c) /\ UNCHANGED answer
    ELSE /\ IF c = deviceLoop /\ CreateMissingDeviceTypes
            THEN To(c, "creating") /\ UNCHANGED answer
            ELSE Answer(c, "missing")
         /\ UNCHANGED <<want, byId, reloaded>>

\* getDeviceTypeList under dtMux, and the search in what it returns.
getDeviceTypeList(c) ==
    /\ At(c, "listing")
    /\ dtMux = Free
    /\ list' = [list EXCEPT ![c] = deviceTypes]
    /\ \/ /\ inList(c, deviceTypes)
          /\ Answer(c, "found")
          /\ UNCHANGED <<want, byId, reloaded>>
       \/ /\ ~inList(c, deviceTypes)
          /\ IF reloaded[c]
             THEN Missing(c)
             ELSE To(c, "checking") /\ UNCHANGED <<want, byId, reloaded, answer>>
    /\ UNCHANGED <<now, repoVars, cacheVars, deviceDeviceTypeIdCache, device, historyVars>>

\* A missing type is worth a reload, unless the list is young.
CheckAge(c) ==
    /\ At(c, "checking")
    /\ \E t \in readings :
          /\ IF olderThan(t, minCacheDuration)
             THEN To(c, "reloading") /\ UNCHANGED <<want, byId, reloaded, answer>>
             ELSE Missing(c)
          /\ Read(c, t)
    /\ UNCHANGED <<now, repoVars, cacheVars, deviceDeviceTypeIdCache, device, list, start,
                   changed, own, ownAtStart>>

-------------------------------------------------------------------------------
\* CreateDeviceTypeWithDistinctAttributes, under dtMux throughout.

keptUntilCreated == lastDtRefresh                           \* mutant
forcedRequest == Never

\* What this process created is not created again; otherwise the next lookup
\* loads the list, whatever becomes of the request.
BeginCreate ==
    LET c == deviceLoop IN
    /\ At(c, "creating")
    /\ dtMux = Free
    /\ \/ /\ want[c] \in createdDt
          /\ Answer(c, "created")
          /\ UNCHANGED <<dtMux, lastDtRefresh>>
       \/ /\ want[c] \notin createdDt
          /\ dtMux' = c
          /\ lastDtRefresh' = forcedRequest
          /\ To(c, "posting")
          /\ UNCHANGED answer
    /\ UNCHANGED <<now, repoVars, deviceTypes, createdDt, deviceDeviceTypeIdCache, device, want,
                   byId, reloaded, list, historyVars>>

\* The repository adds the type, unless it is down or has it already.  The list
\* has the type once the answer is there, which the code gives a second; if the
\* answer is an error or gets lost, the list may have it at once, later (that is
\* TypeAdded) or never.
CreateDeviceType ==
    LET c == deviceLoop
        t == want[deviceLoop]
        Added == /\ repoTypes' = repoTypes \cup {t}
                 /\ changed' = IF t \in repoTypes THEN changed ELSE [changed EXCEPT ![t] = now]
    IN
    /\ At(c, "posting")
    /\ dtMux' = Free
    /\ \/ /\ repoUp /\ Added
          /\ own' = own \cup {t}
          /\ createdDt' = createdDt \cup {t}
          /\ Answer(c, "created")
       \/ /\ repoUp /\ Added
          /\ Answer(c, "error")
          /\ UNCHANGED <<own, createdDt>>
       \/ /\ Answer(c, "error")
          /\ UNCHANGED <<repoTypes, changed, own, createdDt>>
    /\ UNCHANGED <<now, repoUp, repoDevices, deviceTypes, lastDtRefresh,
                   deviceDeviceTypeIdCache, device, want, byId, reloaded, list, start,
                   ownAtStart, misread>>

-------------------------------------------------------------------------------
\* The repository and the clock.

RepoChanges ==
    /\ repoUp' = ~repoUp
    /\ UNCHANGED <<now, repoTypes, repoDevices, cacheVars, deviceDeviceTypeIdCache, lookupVars,
                   historyVars>>

\* The users of the platform add and remove device types, and give a device one;
\* a created type whose answer was lost appears.
TypeAdded(t) ==
    /\ t \notin repoTypes
    /\ repoTypes' = repoTypes \cup {t}
    /\ changed' = [changed EXCEPT ![t] = now]
    /\ UNCHANGED <<now, repoUp, repoDevices, cacheVars, deviceDeviceTypeIdCache, lookupVars,
                   start, own, ownAtStart, misread>>

TypeRemoved(t) ==
    /\ t \in repoTypes
    /\ t \notin { repoDevices[d] : d \in Devices }
    /\ repoTypes' = repoTypes \ {t}
    /\ changed' = [changed EXCEPT ![t] = now]
    /\ own' = own \ {t}
    /\ ownAtStart' = [c \in Callers |-> ownAtStart[c] \ {t}]
    /\ UNCHANGED <<now, repoUp, repoDevices, cacheVars, deviceDeviceTypeIdCache, lookupVars,
                   start, misread>>

DeviceTyped(d, t) ==
    /\ t \in repoTypes
    /\ repoDevices' = [repoDevices EXCEPT ![d] = t]
    /\ UNCHANGED <<now, repoUp, repoTypes, cacheVars, deviceDeviceTypeIdCache, lookupVars,
                   historyVars>>

Tick ==
    /\ dtMux = Free
    /\ now < MaxTime
    /\ now' = now + 1
    /\ UNCHANGED <<repoVars, cacheVars, deviceDeviceTypeIdCache, lookupVars, historyVars>>

-------------------------------------------------------------------------------
Lookup(c) ==
    \/ GetKnownDeviceDeviceTypeId(c)
    \/ ListZigbeeDeviceTypes(c)
    \/ RequestTypes(c)
    \/ refreshDeviceTypeList(c)
    \/ getDeviceTypeList(c)
    \/ CheckAge(c)
    \/ c = deviceLoop /\ (BeginCreate \/ CreateDeviceType)

Next ==
    \/ \E c \in Callers : Lookup(c) \/ \E d \in Devices : Start(c, d)
    \/ RepoChanges
    \/ \E t \in Types : TypeAdded(t) \/ TypeRemoved(t) \/ \E d \in Devices : DeviceTyped(d, t)
    \/ Tick

Safety == Init /\ [][Next]_vars

\* Each goroutine runs, and gets a mutex that becomes free again and again.
Fairness == \A c \in Callers : SF_vars(Lookup(c))

Spec == Safety /\ Fairness

-------------------------------------------------------------------------------
\* Properties.

\* Every variable holds a value of its kind; the mutex is held exactly by the
\* caller that awaits an answer of the repository.
TypeOK ==
    /\ now \in 0 .. MaxTime
    /\ repoUp \in BOOLEAN /\ repoTypes \subseteq Types
    /\ repoDevices \in [Devices -> Types \cup {NoType}]
    /\ deviceTypes \subseteq Types /\ createdDt \subseteq Types
    /\ lastDtRefresh \in 0 .. MaxTime \cup {Never}
    /\ dtMux \in Callers \cup {Free}
    /\ deviceDeviceTypeIdCache \in [Devices -> Types \cup {NoType}]
    /\ pc \in [Callers -> {"idle", "known", "aging", "refreshing", "refreshLoaded", "listing",
                           "checking", "reloading", "reloadLoaded", "creating", "posting"}]
    /\ device \in [Callers -> Devices]
    /\ want \in [Callers -> Types \cup {NoType}]
    /\ byId \in [Callers -> BOOLEAN] /\ reloaded \in [Callers -> BOOLEAN]
    /\ list \in [Callers -> SUBSET Types]
    /\ answer \in [Callers -> Answers]
    /\ start \in [Callers -> 0 .. MaxTime] /\ changed \in [Types -> 0 .. MaxTime]
    /\ own \subseteq Types /\ ownAtStart \in [Callers -> SUBSET Types]
    /\ misread \in [Callers -> BOOLEAN]
    /\ \A c \in Callers :
          dtMux = c <=> pc[c] \in {"refreshLoaded", "reloadLoaded", "posting"}

\* An answer from the list is one the repository would have given no longer ago
\* than maxCacheDuration before the lookup began: neither is a type found that
\* went before that, nor one missing that came before that.  Excepted is a lookup
\* that took a torn lastDtRefresh for a time to come.
AnswersRecent ==
    \A c \in Callers :
        /\ ~misread[c]
        /\ \/ answer[c] = "found" /\ want[c] \notin repoTypes
           \/ answer[c] = "missing" /\ want[c] \in repoTypes
        => changed[want[c]] >= start[c] - maxCacheDuration

\* A lookup gives up on its type: it answers so, turns from the id to vendor and
\* model, or goes on to create the type.
GivesUp(c) ==
    \/ byId[c] /\ ~byId'[c]
    \/ answer'[c] = "missing" /\ answer[c] # "missing"
    \/ pc'[c] = "creating" /\ pc[c] # "creating"

\* "the list is reloaded once if the id is missing": a type that the repository
\* has is given up only if it came after the last minCacheDuration before the
\* lookup began; or, within maxCacheDuration, if the other goroutine brought it
\* into the list since this one searched it.  Excepted are torn times as above.
GivesUpOnlyRecent ==
    [][\A c \in Callers : GivesUp(c) /\ ~misread'[c] /\ want[c] \in repoTypes =>
          changed[want[c]] >= start[c] - (IF want[c] \in deviceTypes THEN maxCacheDuration
                                                                   ELSE minCacheDuration)]_vars

\* "force new http request on next FindDeviceTypeId() call": no lookup that began
\* after this process was told that it created a type misses it, and so none
\* creates it again.  Excepted are torn times as above.
CreatedIsFound ==
    \A c \in Callers :
        (answer[c] = "missing" \/ At(c, "posting")) /\ ~misread[c]
            => want[c] \notin ownAtStart[c]

\* A lookup ends, with an answer or an error.
LookupsEnd == \A c \in Callers : ~At(c, "idle") ~> At(c, "idle")

\* "vendor and model only decide for unknown devices, for a known device whose
\* type is not in the zigbee list, and while the repository cannot be read": the
\* event loop never turns from an id the list of device types has.
FallbackOnlyUnlisted ==
    [][\A c \in Callers : byId[c] /\ ~byId'[c] => want[c] \notin deviceTypes]_vars

===============================================================================
