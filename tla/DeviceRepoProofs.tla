--------------------------- MODULE DeviceRepoProofs ---------------------------
(***************************************************************************)
(* What holds of DeviceRepo for any device types, devices and cache        *)
(* durations.                                                              *)
(***************************************************************************)
EXTENDS DeviceRepo, TLAPS

USE TypesAssumption, CallersAssumption, TimesAssumption

\* A lookup knows its type, and nothing lies in the future.
Wanted ==
    /\ \A c \in Callers :
          pc[c] \notin {"idle", "known"} \/ answer[c] \in {"found", "missing"}
              => want[c] \in Types
    /\ \A c \in Callers : pc[c] # "idle" => answer[c] = "none"
    /\ \A c \in Callers : pc[c] \in {"creating", "posting"} => c = deviceLoop

Clocked ==
    /\ lastDtRefresh # Never => lastDtRefresh <= now
    /\ \A c \in Callers : start[c] <= now
    /\ \A t \in Types : changed[t] <= now

TypeInv == TypeOK /\ Wanted /\ Clocked

\* Where a lookup has a list that is young enough, and where it missed its type.
Searching == {"listing", "checking", "reloading", "reloadLoaded", "creating", "posting"}
Missed    == {"checking", "reloading", "creating", "posting"}
Loaded    == {"refreshLoaded", "reloadLoaded"}

\* The types of this process are in every list that is not marked as outdated, so
\* a lookup finds them unless a torn time kept it from loading the list; the
\* device loop's own lookup began after the last of them was created.
OwnInv ==
    /\ own \subseteq repoTypes
    /\ lastDtRefresh # Never => own \subseteq deviceTypes
    /\ pc[deviceLoop] = "posting" => lastDtRefresh = Never
    /\ pc[deviceLoop] # "idle" => own \subseteq ownAtStart[deviceLoop]
    /\ \A c \in Callers :
          /\ ownAtStart[c] \subseteq own
          /\ pc[c] \in Loaded => own \subseteq list[c]
          /\ pc[c] \in Searching /\ ~misread[c] => ownAtStart[c] \subseteq deviceTypes
          /\ (pc[c] \in Missed \/ answer[c] = "missing") /\ ~misread[c]
                => want[c] \notin ownAtStart[c]

\* A list differs from the repository by what changed after it was loaded.
Differs(types, t) == (t \in types) # (t \in repoTypes)

RecentInv ==
    /\ lastDtRefresh # Never =>
          \A t \in Types : Differs(deviceTypes, t) => changed[t] >= lastDtRefresh
    /\ \A c \in Callers :
          /\ pc[c] \in Loaded =>
                \A t \in Types : Differs(list[c], t) => changed[t] >= now
          /\ pc[c] \in Searching /\ ~misread[c] =>
                \A t \in Types : Differs(deviceTypes, t)
                    => changed[t] >= start[c] - maxCacheDuration
          /\ pc[c] \in Missed /\ want[c] \in repoTypes /\ ~misread[c] =>
                changed[want[c]] >= start[c] - maxCacheDuration
    /\ AnswersRecent

\* After a lookup's own reload the list differs from the repository only by what
\* changed since the lookup began.
Reloaded == {"aging", "refreshing", "refreshLoaded", "listing"}

ReloadInv ==
    \A c \in Callers :
        /\ pc[c] = "known" => want[c] = NoType
        /\ reloaded[c] /\ pc[c] \in Reloaded =>
              \A t \in Types : Differs(deviceTypes, t) => changed[t] >= start[c]

-------------------------------------------------------------------------------
\* Every variable keeps its kind, and the mutex its holder.
LEMMA BoolUpdate ==
    ASSUME NEW S, NEW f \in [S -> BOOLEAN], NEW x
    PROVE  /\ [f EXCEPT ![x] = TRUE] \in [S -> BOOLEAN]
           /\ [f EXCEPT ![x] = FALSE] \in [S -> BOOLEAN]
OBVIOUS

LEMMA ReadStep ==
    ASSUME misread \in [Callers -> BOOLEAN], NEW c \in Callers, NEW t, Read(c, t)
    PROVE  /\ misread' \in [Callers -> BOOLEAN]
           /\ misread'[c] <=> misread[c] \/ t = Future
           /\ \A o \in Callers \ {c} : misread'[o] = misread[o]
<1>1. misread' = [misread EXCEPT ![c] = misread[c] \/ t = Future]
    BY DEF Read
<1>2. (misread[c] \/ t = Future) \in BOOLEAN
    OBVIOUS
<1>3. misread' \in [Callers -> BOOLEAN] /\ misread'[c] = (misread[c] \/ t = Future)
    BY ONLY <1>1, <1>2, misread \in [Callers -> BOOLEAN], c \in Callers, Zenon
<1>4. \A o \in Callers \ {c} : misread'[o] = misread[o]
    BY ONLY <1>1, misread \in [Callers -> BOOLEAN], c \in Callers, Zenon
<1>5. QED
    BY <1>3, <1>4

LEMMA TypeStep == TypeInv /\ [Next]_vars => TypeInv'
<1> SUFFICES ASSUME TypeInv, [Next]_vars
             PROVE  TypeInv'
    OBVIOUS
<1> USE DEF TypeInv, TypeOK, Wanted, Clocked, Callers, Answers,
            repoVars, cacheVars, lookupVars, historyVars
<1>1. ASSUME NEW c \in Callers, GetKnownDeviceDeviceTypeId(c)
      PROVE  TypeInv'
    <2> USE DEF GetKnownDeviceDeviceTypeId, At, To, Answer, LookFor, FindDeviceType, Known
    <2>1. MatchOf[device[c]] \in Types
        OBVIOUS
    <2>2. /\ pc' \in [Callers -> {"idle", "known", "aging", "refreshing", "refreshLoaded", "listing",
                               "checking", "reloading", "reloadLoaded", "creating", "posting"}]
          /\ \A b \in Callers : pc'[b] \in {"refreshLoaded", "reloadLoaded", "posting"}
                                 <=> pc[b] \in {"refreshLoaded", "reloadLoaded", "posting"}
        BY <1>1
    <2>3. want' \in [Callers -> Types \cup {NoType}]
        BY <1>1, <2>1
    <2>4. /\ byId' \in [Callers -> BOOLEAN]
          /\ reloaded' \in [Callers -> BOOLEAN]
          /\ answer' \in [Callers -> Answers]
        <3>1. byId' \in [Callers -> BOOLEAN]
            <4>1. \/ byId' = byId
                  \/ byId' = [byId EXCEPT ![c] = TRUE]
                  \/ byId' = [byId EXCEPT ![c] = FALSE]
                BY <1>1
            <4>2. byId \in [Callers -> BOOLEAN]
                OBVIOUS
            <4>3. QED
                BY ONLY <4>1, <4>2, BoolUpdate, Zenon
        <3>2. reloaded' \in [Callers -> BOOLEAN]
            <4>1. \/ reloaded' = reloaded
                  \/ reloaded' = [reloaded EXCEPT ![c] = TRUE]
                  \/ reloaded' = [reloaded EXCEPT ![c] = FALSE]
                BY <1>1
            <4>2. reloaded \in [Callers -> BOOLEAN]
                OBVIOUS
            <4>3. QED
                BY ONLY <4>1, <4>2, BoolUpdate, Zenon
        <3>3. answer' \in [Callers -> Answers]
            BY <1>1
        <3>4. QED
            BY <3>1, <3>2, <3>3
    <2>5. /\ list' \in [Callers -> SUBSET Types]
          /\ deviceDeviceTypeIdCache' \in [Devices -> Types \cup {NoType}]
        BY <1>1
    <2>6. TypeOK'
        BY <1>1, <2>2, <2>3, <2>4, <2>5
    <2>7. Wanted'
        BY <1>1, <2>1
    <2>8. Clocked'
        BY <1>1
    <2>9. QED
        BY <2>6, <2>7, <2>8
<1>2. ASSUME NEW c \in Callers, ListZigbeeDeviceTypes(c)
      PROVE  TypeInv'
    <2>1. PICK t \in readings :
             /\ To(c, IF olderThan(t, maxCacheDuration) THEN "refreshing" ELSE "listing")
             /\ Read(c, t)
        BY <1>2 DEF ListZigbeeDeviceTypes
    <2>2. /\ misread' \in [Callers -> BOOLEAN]
          /\ misread'[c] <=> misread[c] \/ t = Future
          /\ \A o \in Callers \ {c} : misread'[o] = misread[o]
        BY <2>1, ReadStep
    <2>3. QED
        BY <1>2, <2>1, <2>2 DEF ListZigbeeDeviceTypes, At, To, readings, olderThan
<1>3. ASSUME NEW c \in Callers, RequestTypes(c)
      PROVE  TypeInv'
    BY <1>3 DEF RequestTypes, At, To, Answer, LookFor, FindDeviceType,
                  Refreshing, releasedOnError
<1>4. ASSUME NEW c \in Callers, refreshDeviceTypeList(c)
      PROVE  TypeInv'
    BY <1>4 DEF refreshDeviceTypeList, At, To, Answer, LookFor, FindDeviceType
<1>5. ASSUME NEW c \in Callers, getDeviceTypeList(c)
      PROVE  TypeInv'
    <2> USE DEF getDeviceTypeList, At, To, Answer, LookFor, FindDeviceType, inList,
                  Missing
    <2>1. MatchOf[device[c]] \in Types
        OBVIOUS
    <2>2. /\ pc' \in [Callers -> {"idle", "known", "aging", "refreshing", "refreshLoaded", "listing",
                               "checking", "reloading", "reloadLoaded", "creating", "posting"}]
          /\ \A b \in Callers : pc'[b] \in {"refreshLoaded", "reloadLoaded", "posting"}
                                 <=> pc[b] \in {"refreshLoaded", "reloadLoaded", "posting"}
        BY <1>5
    <2>3. want' \in [Callers -> Types \cup {NoType}]
        BY <1>5, <2>1
    <2>4. /\ byId' \in [Callers -> BOOLEAN]
          /\ reloaded' \in [Callers -> BOOLEAN]
          /\ answer' \in [Callers -> Answers]
        <3>1. byId' \in [Callers -> BOOLEAN]
            <4>1. \/ byId' = byId
                  \/ byId' = [byId EXCEPT ![c] = TRUE]
                  \/ byId' = [byId EXCEPT ![c] = FALSE]
                BY <1>5
            <4>2. byId \in [Callers -> BOOLEAN]
                OBVIOUS
            <4>3. QED
                BY ONLY <4>1, <4>2, BoolUpdate, Zenon
        <3>2. reloaded' \in [Callers -> BOOLEAN]
            <4>1. \/ reloaded' = reloaded
                  \/ reloaded' = [reloaded EXCEPT ![c] = TRUE]
                  \/ reloaded' = [reloaded EXCEPT ![c] = FALSE]
                BY <1>5
            <4>2. reloaded \in [Callers -> BOOLEAN]
                OBVIOUS
            <4>3. QED
                BY ONLY <4>1, <4>2, BoolUpdate, Zenon
        <3>3. answer' \in [Callers -> Answers]
            BY <1>5
        <3>4. QED
            BY <3>1, <3>2, <3>3
    <2>5. /\ list' \in [Callers -> SUBSET Types]
          /\ deviceDeviceTypeIdCache' \in [Devices -> Types \cup {NoType}]
        BY <1>5
    <2>6. TypeOK'
        BY <1>5, <2>2, <2>3, <2>4, <2>5
    <2>7. Wanted'
        BY <1>5, <2>1
    <2>8. Clocked'
        BY <1>5
    <2>9. QED
        BY <2>6, <2>7, <2>8
<1>6. ASSUME NEW c \in Callers, CheckAge(c)
      PROVE  TypeInv'
    <2> USE DEF CheckAge, At, To, Answer, LookFor, FindDeviceType,
                  Missing, readings, olderThan
    <2>1. MatchOf[device[c]] \in Types
        OBVIOUS
    <2>2. /\ pc' \in [Callers -> {"idle", "known", "aging", "refreshing", "refreshLoaded", "listing",
                               "checking", "reloading", "reloadLoaded", "creating", "posting"}]
          /\ \A b \in Callers : pc'[b] \in {"refreshLoaded", "reloadLoaded", "posting"}
                                 <=> pc[b] \in {"refreshLoaded", "reloadLoaded", "posting"}
        BY <1>6
    <2>3. want' \in [Callers -> Types \cup {NoType}]
        BY <1>6, <2>1
    <2>4. /\ byId' \in [Callers -> BOOLEAN]
          /\ reloaded' \in [Callers -> BOOLEAN]
          /\ answer' \in [Callers -> Answers]
        <3>1. byId' \in [Callers -> BOOLEAN]
            <4>1. \/ byId' = byId
                  \/ byId' = [byId EXCEPT ![c] = TRUE]
                  \/ byId' = [byId EXCEPT ![c] = FALSE]
                BY <1>6
            <4>2. byId \in [Callers -> BOOLEAN]
                OBVIOUS
            <4>3. QED
                BY ONLY <4>1, <4>2, BoolUpdate, Zenon
        <3>2. reloaded' \in [Callers -> BOOLEAN]
            <4>1. \/ reloaded' = reloaded
                  \/ reloaded' = [reloaded EXCEPT ![c] = TRUE]
                  \/ reloaded' = [reloaded EXCEPT ![c] = FALSE]
                BY <1>6
            <4>2. reloaded \in [Callers -> BOOLEAN]
                OBVIOUS
            <4>3. QED
                BY ONLY <4>1, <4>2, BoolUpdate, Zenon
        <3>3. answer' \in [Callers -> Answers]
            BY <1>6
        <3>4. QED
            BY <3>1, <3>2, <3>3
    <2>5. /\ list' \in [Callers -> SUBSET Types]
          /\ deviceDeviceTypeIdCache' \in [Devices -> Types \cup {NoType}]
        BY <1>6
    <2>a. misread' \in [Callers -> BOOLEAN]
        BY <1>6, ReadStep
    <2>6. TypeOK'
        BY <1>6, <2>2, <2>3, <2>4, <2>5, <2>a
    <2>7. Wanted'
        BY <1>6, <2>1
    <2>8. Clocked'
        BY <1>6
    <2>9. QED
        BY <2>6, <2>7, <2>8
<1>7. CASE BeginCreate
    BY <1>7 DEF BeginCreate, At, To, Answer, LookFor, FindDeviceType, forcedRequest
<1>8. CASE CreateDeviceType
    BY <1>8 DEF CreateDeviceType, At, To, Answer, LookFor, FindDeviceType
<1>9. ASSUME NEW c \in Callers, NEW d \in Devices, Start(c, d)
      PROVE  TypeInv'
    BY <1>9 DEF Start, At, To, Answer, LookFor, FindDeviceType
<1>10. CASE RepoChanges
    BY <1>10 DEF RepoChanges
<1>11. ASSUME NEW t \in Types, TypeAdded(t)
      PROVE  TypeInv'
    BY <1>11 DEF TypeAdded
<1>12. ASSUME NEW t \in Types, TypeRemoved(t)
      PROVE  TypeInv'
    BY <1>12 DEF TypeRemoved
<1>13. ASSUME NEW t \in Types, NEW d \in Devices, DeviceTyped(d, t)
      PROVE  TypeInv'
    BY <1>13 DEF DeviceTyped
<1>14. CASE Tick
    BY <1>14 DEF Tick
<1>15. CASE UNCHANGED vars
    BY <1>15 DEF vars
<1>16. QED
    BY <1>1, <1>2, <1>3, <1>4, <1>5, <1>6, <1>7, <1>8, <1>9, <1>10, <1>11, <1>12,
       <1>13, <1>14, <1>15
       DEF Next, Lookup

-------------------------------------------------------------------------------
\* The types this process created stay in sight.
LEMMA OwnStep == TypeInv /\ OwnInv /\ [Next]_vars => OwnInv'
<1> SUFFICES ASSUME TypeInv, OwnInv, [Next]_vars
             PROVE  OwnInv'
    OBVIOUS
<1> USE DEF TypeInv, TypeOK, Wanted, OwnInv, Callers, Searching, Missed, Loaded,
            repoVars, cacheVars, lookupVars, historyVars
<1>1. ASSUME NEW c \in Callers, GetKnownDeviceDeviceTypeId(c)
      PROVE  OwnInv'
    BY <1>1 DEF GetKnownDeviceDeviceTypeId, At, To, Answer, LookFor, FindDeviceType, Known
<1>2. ASSUME NEW c \in Callers, ListZigbeeDeviceTypes(c)
      PROVE  OwnInv'
    <2>1. PICK t \in readings :
             /\ To(c, IF olderThan(t, maxCacheDuration) THEN "refreshing" ELSE "listing")
             /\ Read(c, t)
        BY <1>2 DEF ListZigbeeDeviceTypes
    <2>2. /\ misread' \in [Callers -> BOOLEAN]
          /\ misread'[c] <=> misread[c] \/ t = Future
          /\ \A o \in Callers \ {c} : misread'[o] = misread[o]
        BY <2>1, ReadStep
    <2>3. QED
        BY <1>2, <2>1, <2>2 DEF ListZigbeeDeviceTypes, At, To, readings, olderThan
<1>3. ASSUME NEW c \in Callers, RequestTypes(c)
      PROVE  OwnInv'
    BY <1>3 DEF RequestTypes, At, To, Answer, LookFor, FindDeviceType,
                  Refreshing, releasedOnError
<1>4. ASSUME NEW c \in Callers, refreshDeviceTypeList(c)
      PROVE  OwnInv'
    BY <1>4 DEF refreshDeviceTypeList, At, To, Answer, LookFor, FindDeviceType
<1>5. ASSUME NEW c \in Callers, getDeviceTypeList(c)
      PROVE  OwnInv'
    BY <1>5 DEF getDeviceTypeList, At, To, Answer, LookFor, FindDeviceType, inList,
                  Missing
<1>6. ASSUME NEW c \in Callers, CheckAge(c)
      PROVE  OwnInv'
    <2>1. PICK t \in readings :
             /\ IF olderThan(t, minCacheDuration)
                THEN To(c, "reloading") /\ UNCHANGED <<want, byId, reloaded, answer>>
                ELSE Missing(c)
             /\ Read(c, t)
        BY <1>6 DEF CheckAge
    <2>2. /\ misread' \in [Callers -> BOOLEAN]
          /\ misread'[c] <=> misread[c] \/ t = Future
          /\ \A o \in Callers \ {c} : misread'[o] = misread[o]
        BY <2>1, ReadStep
    <2>3. CASE olderThan(t, minCacheDuration)
        BY <1>6, <2>1, <2>2, <2>3 DEF CheckAge, At, To
    <2>4. CASE ~olderThan(t, minCacheDuration)
        BY <1>6, <2>1, <2>2, <2>4
           DEF CheckAge, At, To, Answer, LookFor, FindDeviceType, Missing, readings, olderThan
    <2>5. QED
        BY <2>3, <2>4
<1>7. CASE BeginCreate
    BY <1>7 DEF BeginCreate, At, To, Answer, LookFor, FindDeviceType, forcedRequest
<1>8. CASE CreateDeviceType
    BY <1>8 DEF CreateDeviceType, At, To, Answer, LookFor, FindDeviceType
<1>9. ASSUME NEW c \in Callers, NEW d \in Devices, Start(c, d)
      PROVE  OwnInv'
    BY <1>9 DEF Start, At, To, Answer, LookFor, FindDeviceType
<1>10. CASE RepoChanges
    BY <1>10 DEF RepoChanges
<1>11. ASSUME NEW t \in Types, TypeAdded(t)
      PROVE  OwnInv'
    BY <1>11 DEF TypeAdded
<1>12. ASSUME NEW t \in Types, TypeRemoved(t)
      PROVE  OwnInv'
    BY <1>12 DEF TypeRemoved
<1>13. ASSUME NEW t \in Types, NEW d \in Devices, DeviceTyped(d, t)
      PROVE  OwnInv'
    BY <1>13 DEF DeviceTyped
<1>14. CASE Tick
    BY <1>14 DEF Tick
<1>15. CASE UNCHANGED vars
    BY <1>15 DEF vars
<1>16. QED
    BY <1>1, <1>2, <1>3, <1>4, <1>5, <1>6, <1>7, <1>8, <1>9, <1>10, <1>11, <1>12,
       <1>13, <1>14, <1>15
       DEF Next, Lookup

-------------------------------------------------------------------------------
\* No lookup works on a list that was outdated when it began.
LEMMA RecentStep == TypeInv /\ RecentInv /\ [Next]_vars => RecentInv'
<1> SUFFICES ASSUME TypeInv, RecentInv, [Next]_vars
             PROVE  RecentInv'
    OBVIOUS
<1> USE DEF TypeInv, TypeOK, Wanted, Clocked, RecentInv, AnswersRecent, Differs, Callers,
            Searching, Missed, Loaded, repoVars, cacheVars, lookupVars, historyVars
<1>1. ASSUME NEW c \in Callers, GetKnownDeviceDeviceTypeId(c)
      PROVE  RecentInv'
    BY <1>1 DEF GetKnownDeviceDeviceTypeId, At, To, Answer, LookFor, FindDeviceType, Known
<1>2. ASSUME NEW c \in Callers, ListZigbeeDeviceTypes(c)
      PROVE  RecentInv'
    <2>1. PICK t \in readings :
             /\ To(c, IF olderThan(t, maxCacheDuration) THEN "refreshing" ELSE "listing")
             /\ Read(c, t)
        BY <1>2 DEF ListZigbeeDeviceTypes
    <2>2. /\ misread' \in [Callers -> BOOLEAN]
          /\ misread'[c] <=> misread[c] \/ t = Future
          /\ \A o \in Callers \ {c} : misread'[o] = misread[o]
        BY <2>1, ReadStep
    <2>3. QED
        BY <1>2, <2>1, <2>2 DEF ListZigbeeDeviceTypes, At, To, readings, olderThan
<1>3. ASSUME NEW c \in Callers, RequestTypes(c)
      PROVE  RecentInv'
    BY <1>3 DEF RequestTypes, At, To, Answer, LookFor, FindDeviceType,
                  Refreshing, releasedOnError
<1>4. ASSUME NEW c \in Callers, refreshDeviceTypeList(c)
      PROVE  RecentInv'
    BY <1>4 DEF refreshDeviceTypeList, At, To, Answer, LookFor, FindDeviceType
<1>5. ASSUME NEW c \in Callers, getDeviceTypeList(c)
      PROVE  RecentInv'
    BY <1>5 DEF getDeviceTypeList, At, To, Answer, LookFor, FindDeviceType, inList,
                  Missing
<1>6. ASSUME NEW c \in Callers, CheckAge(c)
      PROVE  RecentInv'
    <2>1. PICK t \in readings :
             /\ IF olderThan(t, minCacheDuration)
                THEN To(c, "reloading") /\ UNCHANGED <<want, byId, reloaded, answer>>
                ELSE Missing(c)
             /\ Read(c, t)
        BY <1>6 DEF CheckAge
    <2>2. /\ misread' \in [Callers -> BOOLEAN]
          /\ misread'[c] <=> misread[c] \/ t = Future
          /\ \A o \in Callers \ {c} : misread'[o] = misread[o]
        BY <2>1, ReadStep
    <2>3. CASE olderThan(t, minCacheDuration)
        BY <1>6, <2>1, <2>2, <2>3 DEF CheckAge, At, To
    <2>4. CASE ~olderThan(t, minCacheDuration)
        BY <1>6, <2>1, <2>2, <2>4
           DEF CheckAge, At, To, Answer, LookFor, FindDeviceType, Missing, readings, olderThan
    <2>5. QED
        BY <2>3, <2>4
<1>7. CASE BeginCreate
    BY <1>7 DEF BeginCreate, At, To, Answer, LookFor, FindDeviceType, forcedRequest
<1>8. CASE CreateDeviceType
    BY <1>8 DEF CreateDeviceType, At, To, Answer, LookFor, FindDeviceType
<1>9. ASSUME NEW c \in Callers, NEW d \in Devices, Start(c, d)
      PROVE  RecentInv'
    BY <1>9 DEF Start, At, To, Answer, LookFor, FindDeviceType
<1>10. CASE RepoChanges
    BY <1>10 DEF RepoChanges
<1>11. ASSUME NEW t \in Types, TypeAdded(t)
      PROVE  RecentInv'
    BY <1>11 DEF TypeAdded
<1>12. ASSUME NEW t \in Types, TypeRemoved(t)
      PROVE  RecentInv'
    BY <1>12 DEF TypeRemoved
<1>13. ASSUME NEW t \in Types, NEW d \in Devices, DeviceTyped(d, t)
      PROVE  RecentInv'
    BY <1>13 DEF DeviceTyped
<1>14. CASE Tick
    BY <1>14 DEF Tick
<1>15. CASE UNCHANGED vars
    BY <1>15 DEF vars
<1>16. QED
    BY <1>1, <1>2, <1>3, <1>4, <1>5, <1>6, <1>7, <1>8, <1>9, <1>10, <1>11, <1>12,
       <1>13, <1>14, <1>15
       DEF Next, Lookup

-------------------------------------------------------------------------------
\* No list is loaded that is older than the one before.
LEMMA ReloadStep == TypeInv /\ RecentInv /\ ReloadInv /\ [Next]_vars => ReloadInv'
<1> SUFFICES ASSUME TypeInv, RecentInv, ReloadInv, [Next]_vars
             PROVE  ReloadInv'
    OBVIOUS
<1> USE DEF TypeInv, TypeOK, Wanted, Clocked, RecentInv, ReloadInv, Differs, Callers,
            Reloaded, Loaded, repoVars, cacheVars, lookupVars, historyVars
<1>1. ASSUME NEW c \in Callers, GetKnownDeviceDeviceTypeId(c)
      PROVE  ReloadInv'
    BY <1>1 DEF GetKnownDeviceDeviceTypeId, At, To, Answer, LookFor, FindDeviceType, Known
<1>2. ASSUME NEW c \in Callers, ListZigbeeDeviceTypes(c)
      PROVE  ReloadInv'
    BY <1>2 DEF ListZigbeeDeviceTypes, At, To, Answer, LookFor, FindDeviceType,
                  readings, olderThan
<1>3. ASSUME NEW c \in Callers, RequestTypes(c)
      PROVE  ReloadInv'
    BY <1>3 DEF RequestTypes, At, To, Answer, LookFor, FindDeviceType,
                  Refreshing, releasedOnError
<1>4. ASSUME NEW c \in Callers, refreshDeviceTypeList(c)
      PROVE  ReloadInv'
    BY <1>4 DEF refreshDeviceTypeList, At, To, Answer, LookFor, FindDeviceType
<1>5. ASSUME NEW c \in Callers, getDeviceTypeList(c)
      PROVE  ReloadInv'
    BY <1>5 DEF getDeviceTypeList, At, To, Answer, LookFor, FindDeviceType, inList,
                  Missing
<1>6. ASSUME NEW c \in Callers, CheckAge(c)
      PROVE  ReloadInv'
    BY <1>6 DEF CheckAge, At, To, Answer, LookFor, FindDeviceType,
                  Missing, readings, olderThan
<1>7. CASE BeginCreate
    BY <1>7 DEF BeginCreate, At, To, Answer, LookFor, FindDeviceType, forcedRequest
<1>8. CASE CreateDeviceType
    BY <1>8 DEF CreateDeviceType, At, To, Answer, LookFor, FindDeviceType
<1>9. ASSUME NEW c \in Callers, NEW d \in Devices, Start(c, d)
      PROVE  ReloadInv'
    BY <1>9 DEF Start, At, To, Answer, LookFor, FindDeviceType
<1>10. CASE RepoChanges
    BY <1>10 DEF RepoChanges
<1>11. ASSUME NEW t \in Types, TypeAdded(t)
      PROVE  ReloadInv'
    BY <1>11 DEF TypeAdded
<1>12. ASSUME NEW t \in Types, TypeRemoved(t)
      PROVE  ReloadInv'
    BY <1>12 DEF TypeRemoved
<1>13. ASSUME NEW t \in Types, NEW d \in Devices, DeviceTyped(d, t)
      PROVE  ReloadInv'
    BY <1>13 DEF DeviceTyped
<1>14. CASE Tick
    BY <1>14 DEF Tick
<1>15. CASE UNCHANGED vars
    BY <1>15 DEF vars
<1>16. QED
    BY <1>1, <1>2, <1>3, <1>4, <1>5, <1>6, <1>7, <1>8, <1>9, <1>10, <1>11, <1>12,
       <1>13, <1>14, <1>15
       DEF Next, Lookup

\* A lookup that gives up has searched a list of its own reload, or a list that
\* was young.
LEMMA GivesUpStep ==
    ASSUME TypeInv, RecentInv, ReloadInv, [Next]_vars,
           NEW b \in Callers, GivesUp(b), ~misread'[b], want[b] \in repoTypes
    PROVE  changed[want[b]] >= start[b] - (IF want[b] \in deviceTypes THEN maxCacheDuration
                                                                   ELSE minCacheDuration)
<1> DEFINE Gives == changed[want[b]] >= start[b] - (IF want[b] \in deviceTypes
                                                    THEN maxCacheDuration
                                                    ELSE minCacheDuration)
<1> USE DEF TypeInv, TypeOK, Wanted, Callers, GivesUp, repoVars, cacheVars, lookupVars,
            historyVars
<1>a. want[b] \in Types
    BY DEF Callers
<1>1. ASSUME NEW c \in Callers, GetKnownDeviceDeviceTypeId(c)
      PROVE  Gives
    BY <1>1 DEF GetKnownDeviceDeviceTypeId, Known, ReloadInv, At, To, Answer, LookFor, FindDeviceType
<1>2. ASSUME NEW c \in Callers, ListZigbeeDeviceTypes(c)
      PROVE  Gives
    BY <1>2 DEF ListZigbeeDeviceTypes, At, To, Answer, LookFor, FindDeviceType
<1>3. ASSUME NEW c \in Callers, RequestTypes(c)
      PROVE  Gives
    BY <1>3 DEF RequestTypes, At, To, Answer, LookFor, FindDeviceType
<1>4. ASSUME NEW c \in Callers, refreshDeviceTypeList(c)
      PROVE  Gives
    BY <1>4 DEF refreshDeviceTypeList, At, To, Answer, LookFor, FindDeviceType
<1>5. ASSUME NEW c \in Callers, getDeviceTypeList(c)
      PROVE  Gives
    <2>1. c = b /\ reloaded[b] /\ pc[b] = "listing" /\ want[b] \notin deviceTypes
        BY <1>5 DEF getDeviceTypeList, inList, Missing, At, To, Answer, LookFor, FindDeviceType
    <2>2. changed[want[b]] >= start[b]
        BY <1>a, <2>1 DEF ReloadInv, Reloaded, Differs
    <2>3. QED
        BY <1>a, <2>1, <2>2
<1>6. ASSUME NEW c \in Callers, CheckAge(c)
      PROVE  Gives
    <2>1. PICK t \in readings : /\ ~olderThan(t, minCacheDuration) /\ Read(c, t)
                                /\ c = b /\ pc[b] = "checking"
        BY <1>6 DEF CheckAge, Missing, At, To, Answer, LookFor, FindDeviceType
    <2>2. /\ lastDtRefresh # Never /\ now - lastDtRefresh <= minCacheDuration
          /\ ~misread[b]
        BY <2>1, ReadStep DEF readings, olderThan
    <2>3. CASE want[b] \in deviceTypes
        BY <2>1, <2>2, <2>3 DEF RecentInv, Missed
    <2>4. CASE want[b] \notin deviceTypes
        <3>1. changed[want[b]] >= lastDtRefresh
            BY <1>a, <2>2, <2>4 DEF RecentInv, Differs
        <3>2. QED
            BY <1>a, <2>2, <2>4, <3>1 DEF Clocked
    <2>5. QED
        BY <2>3, <2>4
<1>7. CASE BeginCreate
    BY <1>7 DEF BeginCreate, At, To, Answer, LookFor, FindDeviceType
<1>8. CASE CreateDeviceType
    BY <1>8 DEF CreateDeviceType, At, To, Answer, LookFor, FindDeviceType
<1>9. ASSUME NEW c \in Callers, NEW d \in Devices, Start(c, d)
      PROVE  Gives
    BY <1>9 DEF Start, At, To, Answer, LookFor, FindDeviceType
<1>10. CASE RepoChanges
    BY <1>10 DEF RepoChanges
<1>11. ASSUME NEW t \in Types, TypeAdded(t)
      PROVE  Gives
    BY <1>11 DEF TypeAdded
<1>12. ASSUME NEW t \in Types, TypeRemoved(t)
      PROVE  Gives
    BY <1>12 DEF TypeRemoved
<1>13. ASSUME NEW t \in Types, NEW d \in Devices, DeviceTyped(d, t)
      PROVE  Gives
    BY <1>13 DEF DeviceTyped
<1>14. CASE Tick
    BY <1>14 DEF Tick
<1>15. CASE UNCHANGED vars
    BY <1>15 DEF vars
<1>16. QED
    BY <1>1, <1>2, <1>3, <1>4, <1>5, <1>6, <1>7, <1>8, <1>9, <1>10, <1>11, <1>12,
       <1>13, <1>14, <1>15
       DEF Next, Lookup

-------------------------------------------------------------------------------
LEMMA InitInv == Init => TypeInv /\ OwnInv /\ RecentInv /\ ReloadInv
<1> SUFFICES ASSUME Init PROVE TypeInv /\ OwnInv /\ RecentInv /\ ReloadInv
    OBVIOUS
<1>1. TypeOK
    BY DEF Init, TypeOK, Callers, Answers
<1>2. Wanted /\ Clocked
    BY DEF Init, Wanted, Clocked, Callers
<1>3. OwnInv
    BY DEF Init, OwnInv, Callers, Searching, Missed, Loaded
<1>4. RecentInv
    BY DEF Init, RecentInv, AnswersRecent, Callers, Searching, Missed, Loaded
<1>5. ReloadInv
    BY DEF Init, ReloadInv, Callers
<1>6. QED
    BY <1>1, <1>2, <1>3, <1>4, <1>5 DEF TypeInv

\* Every variable keeps its kind; dtMux is held exactly by the caller that
\* awaits an answer of the repository (refreshDeviceTypeList,
\* CreateDeviceTypeWithDistinctAttributes).
THEOREM TypeCorrect == Safety => []TypeOK
<1>1. TypeInv => TypeOK
    BY DEF TypeInv
<1>2. QED
    BY <1>1, InitInv, TypeStep, PTL DEF Safety

\* No lookup that began after this process was told that it created a type
\* misses it or creates it again, whatever the other goroutine reloads meanwhile,
\* unless it took a torn time for one to come (ListZigbeeDeviceTypes).
THEOREM CreatedIsFoundHolds == Safety => []CreatedIsFound
<1>1. OwnInv => CreatedIsFound
    BY DEF OwnInv, CreatedIsFound, At, Missed
<1>2. QED
    BY <1>1, InitInv, TypeStep, OwnStep, PTL DEF Safety

\* What a lookup answers was true no longer than maxCacheDuration before it
\* began, torn times excepted (FindDeviceTypeId).
THEOREM AnswersRecentHolds == Safety => []AnswersRecent
<1>1. RecentInv => AnswersRecent
    BY DEF RecentInv
<1>2. QED
    BY <1>1, InitInv, TypeStep, RecentStep, PTL DEF Safety

\* A type that the repository has is given up only if it came after the last
\* minCacheDuration before the lookup, or, within maxCacheDuration, was brought
\* by the other goroutine meanwhile; torn times excepted (FindDeviceTypeId,
\* GetDeviceType).
THEOREM GivesUpOnlyRecentHolds == Safety => GivesUpOnlyRecent
<1>1. TypeInv /\ RecentInv /\ ReloadInv /\ [Next]_vars =>
          [\A c \in Callers : GivesUp(c) /\ ~misread'[c] /\ want[c] \in repoTypes =>
              changed[want[c]] >= start[c] - (IF want[c] \in deviceTypes THEN maxCacheDuration
                                                                       ELSE minCacheDuration)]_vars
    BY GivesUpStep
<1>2. QED
    BY <1>1, InitInv, TypeStep, RecentStep, ReloadStep, PTL DEF Safety, GivesUpOnlyRecent

===============================================================================
