------------------------- MODULE MgwSubscriptionsProofs -------------------------
(***************************************************************************)
(* What holds of MgwSubscriptions however often the connection is lost.    *)
(***************************************************************************)
EXTENDS MgwSubscriptions, TLAPS

USE MaxConnectionsAssumption

\* Where the handler of the present connection has read the registry, and where
\* it has subscribed to what it read.
Read       == {"resubscribing", "confirming", "listening", "waiting", "notifying", "done"}
Subscribed == {"listening", "waiting", "notifying", "done"}

\* Whoever confirmed or registered the topic did so before it was listening.
ListenInv ==
    /\ lAt \in {"calling", "waiting"} => confirmedIn = 0
    /\ lAt # "listening" => registeredIn = 0
    /\ lAt = "listening" => subscriptions = {"commands"}

\* A live connection has the topic that was confirmed on it, and the one that
\* was registered before it.
HeardInv ==
    /\ status = "up" /\ confirmedIn = session => "commands" \in brokerSubs
    /\ status = "up" /\ lAt = "listening" /\ registeredIn < session =>
          /\ hAt[session] \in Read => "commands" \in brokerSubs \cup hTodo[session]
          /\ hAt[session] \in Subscribed => "commands" \in brokerSubs
    /\ RefreshHeard

\* A connection that is lost is not the last one.
TypeInv == TypeOK /\ (status = "lost" => session < MaxConnections)

IInv == TypeInv /\ ListenInv /\ HeardInv

-------------------------------------------------------------------------------
\* Every variable keeps its kind.
LEMMA TypeStep == TypeInv /\ [Next]_vars => TypeInv'
<1> SUFFICES ASSUME TypeInv, [Next]_vars
             PROVE  TypeInv'
    OBVIOUS
<1> USE DEF TypeInv, TypeOK, Connections, Topics, linkVars, listenVars, initVars
<1>1. CASE ConnectionLost
    BY <1>1 DEF ConnectionLost
<1>2. CASE Reconnect
    BY <1>2 DEF Reconnect
<1>3. CASE Disconnect
    BY <1>3 DEF Disconnect
<1>4. CASE Listen
    BY <1>4 DEF Listen, Accepted, Refused
<1>5. CASE ListenConfirmed
    <2>1. brokerSubs' \subseteq Topics
        BY <1>5 DEF ListenConfirmed, Confirmed, Broken
    <2>2. exited' \in BOOLEAN
        BY <1>5 DEF ListenConfirmed
    <2>3. UNCHANGED <<linkVars, subscriptions, registeredIn, notified>>
        BY <1>5 DEF ListenConfirmed
    <2>4. /\ lAt' \in {"waiting", "registering"} /\ confirmedIn' \in 0 .. session
          /\ UNCHANGED initVars
        BY <1>5 DEF ListenConfirmed
    <2>5. QED
        BY <2>1, <2>2, <2>3, <2>4
<1>6. CASE registerSubscription
    BY <1>6 DEF registerSubscription, registered
<1>7. ASSUME NEW n \in Connections, InitSubscriptions(n)
      PROVE  TypeInv'
    <2>1. /\ \A k \in Connections : hAt'[k] = hAt[k] \/ (k = n /\ hAt'[k] = "resubscribing")
          /\ hAt' \in [Connections -> {"off", "loading", "resubscribing", "confirming",
                                      "listening", "waiting", "notifying", "done"}]
          /\ hAt[n] = "loading"
        BY <1>7 DEF InitSubscriptions
    <2>2. hTodo' \in [Connections -> SUBSET subscriptions]
        BY <1>7 DEF InitSubscriptions, loadOldSubscriptions
    <2>3. exited' \in BOOLEAN
        BY <1>7 DEF InitSubscriptions
    <2>4. UNCHANGED <<linkVars, brokerSubs, listenVars, notified>>
        BY <1>7 DEF InitSubscriptions
    <2>5. QED
        BY <2>1, <2>2, <2>3, <2>4
<1>8. ASSUME NEW n \in Connections, Resubscribe(n)
      PROVE  TypeInv'
    BY <1>8 DEF Resubscribe, Accepted, Refused
<1>9. ASSUME NEW n \in Connections, ResubscribeConfirmed(n)
      PROVE  TypeInv'
    <2>1. brokerSubs' \subseteq Topics
        BY <1>9 DEF ResubscribeConfirmed, Confirmed, Broken
    <2>2. exited' \in BOOLEAN
        BY <1>9 DEF ResubscribeConfirmed
    <2>3. UNCHANGED <<linkVars, subscriptions, registeredIn, notified>>
        BY <1>9 DEF ResubscribeConfirmed
    <2>4. /\ \A k \in Connections : hAt'[k] = hAt[k] \/ (k = n /\ hAt'[k] = "resubscribing")
          /\ hAt' \in [Connections -> {"off", "loading", "resubscribing", "confirming",
                                      "listening", "waiting", "notifying", "done"}]
          /\ hAt[n] = "confirming"
        BY <1>9 DEF ResubscribeConfirmed
    <2>5. hTodo' \in [Connections -> SUBSET subscriptions] /\ UNCHANGED <<lAt, confirmedIn>>
        BY <1>9 DEF ResubscribeConfirmed
    <2>6. QED
        BY <2>1, <2>2, <2>3, <2>4, <2>5
<1>10. ASSUME NEW n \in Connections, ListenToRefresh(n)
      PROVE  TypeInv'
    BY <1>10 DEF ListenToRefresh, Accepted, Refused, afterAccepted
<1>11. ASSUME NEW n \in Connections, RefreshConfirmed(n)
      PROVE  TypeInv'
    BY <1>11 DEF RefreshConfirmed, Confirmed, Broken
<1>12. ASSUME NEW n \in Connections, Notify(n)
      PROVE  TypeInv'
    BY <1>12 DEF Notify, notifiedBy
<1>13. CASE Exit
    BY <1>13 DEF Exit
<1>14. CASE Terminated
    BY <1>14 DEF Terminated, vars
<1>15. CASE UNCHANGED vars
    BY <1>15 DEF vars
<1>16. QED
    BY <1>1, <1>2, <1>3, <1>4, <1>5, <1>6, <1>7, <1>8, <1>9, <1>10, <1>11, <1>12,
       <1>13, <1>14, <1>15
       DEF Next, ListenToCommands, OnConnect

\* The stages of ListenToCommands.
LEMMA ListenStep == TypeInv /\ ListenInv /\ [Next]_vars => ListenInv'
<1> SUFFICES ASSUME TypeInv, ListenInv, [Next]_vars
             PROVE  ListenInv'
    OBVIOUS
<1> USE DEF TypeInv, TypeOK, ListenInv, Connections, linkVars, listenVars, initVars
<1>1. CASE ConnectionLost
    BY <1>1 DEF ConnectionLost
<1>2. CASE Reconnect
    BY <1>2 DEF Reconnect
<1>3. CASE Disconnect
    BY <1>3 DEF Disconnect
<1>4. CASE Listen
    BY <1>4 DEF Listen, Accepted, Refused
<1>5. CASE ListenConfirmed
    BY <1>5 DEF ListenConfirmed, Confirmed, Broken
<1>6. CASE registerSubscription
    BY <1>6 DEF registerSubscription, registered
<1>7. ASSUME NEW n \in Connections, InitSubscriptions(n)
      PROVE  ListenInv'
    BY <1>7 DEF InitSubscriptions, loadOldSubscriptions
<1>8. ASSUME NEW n \in Connections, Resubscribe(n)
      PROVE  ListenInv'
    BY <1>8 DEF Resubscribe, Accepted, Refused
<1>9. ASSUME NEW n \in Connections, ResubscribeConfirmed(n)
      PROVE  ListenInv'
    BY <1>9 DEF ResubscribeConfirmed, Confirmed, Broken
<1>10. ASSUME NEW n \in Connections, ListenToRefresh(n)
      PROVE  ListenInv'
    BY <1>10 DEF ListenToRefresh, Accepted, Refused, afterAccepted
<1>11. ASSUME NEW n \in Connections, RefreshConfirmed(n)
      PROVE  ListenInv'
    BY <1>11 DEF RefreshConfirmed, Confirmed, Broken
<1>12. ASSUME NEW n \in Connections, Notify(n)
      PROVE  ListenInv'
    BY <1>12 DEF Notify, notifiedBy
<1>13. CASE Exit
    BY <1>13 DEF Exit
<1>14. CASE Terminated
    BY <1>14 DEF Terminated, vars
<1>15. CASE UNCHANGED vars
    BY <1>15 DEF vars
<1>16. QED
    BY <1>1, <1>2, <1>3, <1>4, <1>5, <1>6, <1>7, <1>8, <1>9, <1>10, <1>11, <1>12,
       <1>13, <1>14, <1>15
       DEF Next, ListenToCommands, OnConnect

\* The registry and the broker of a connection.
LEMMA HeardStep == IInv /\ [Next]_vars => HeardInv'
<1> SUFFICES ASSUME IInv, [Next]_vars
             PROVE  HeardInv'
    OBVIOUS
<1> USE DEF IInv, TypeInv, TypeOK, ListenInv, HeardInv, RefreshHeard, Ready, Read, Subscribed,
            Connections, Topics, linkVars, listenVars, initVars
<1>1. CASE ConnectionLost
    BY <1>1 DEF ConnectionLost
<1>2. CASE Reconnect
    BY <1>2 DEF Reconnect
<1>3. CASE Disconnect
    BY <1>3 DEF Disconnect
<1>4. CASE Listen
    BY <1>4 DEF Listen, Accepted, Refused
<1>5. CASE ListenConfirmed
    BY <1>5 DEF ListenConfirmed, Confirmed, Broken
<1>6. CASE registerSubscription
    BY <1>6 DEF registerSubscription, registered
<1>7. ASSUME NEW n \in Connections, InitSubscriptions(n)
      PROVE  HeardInv'
    BY <1>7 DEF InitSubscriptions, loadOldSubscriptions
<1>8. ASSUME NEW n \in Connections, Resubscribe(n)
      PROVE  HeardInv'
    BY <1>8 DEF Resubscribe, Accepted, Refused
<1>9. ASSUME NEW n \in Connections, ResubscribeConfirmed(n)
      PROVE  HeardInv'
    BY <1>9 DEF ResubscribeConfirmed, Confirmed, Broken
<1>10. ASSUME NEW n \in Connections, ListenToRefresh(n)
      PROVE  HeardInv'
    BY <1>10 DEF ListenToRefresh, Accepted, Refused, afterAccepted
<1>11. ASSUME NEW n \in Connections, RefreshConfirmed(n)
      PROVE  HeardInv'
    BY <1>11 DEF RefreshConfirmed, Confirmed, Broken
<1>12. ASSUME NEW n \in Connections, Notify(n)
      PROVE  HeardInv'
    BY <1>12 DEF Notify, notifiedBy
<1>13. CASE Exit
    BY <1>13 DEF Exit
<1>14. CASE Terminated
    BY <1>14 DEF Terminated, vars
<1>15. CASE UNCHANGED vars
    BY <1>15 DEF vars
<1>16. QED
    BY <1>1, <1>2, <1>3, <1>4, <1>5, <1>6, <1>7, <1>8, <1>9, <1>10, <1>11, <1>12,
       <1>13, <1>14, <1>15
       DEF Next, ListenToCommands, OnConnect

-------------------------------------------------------------------------------
LEMMA InitInv == Init => IInv
<1> SUFFICES ASSUME Init PROVE IInv
    OBVIOUS
<1>1. TypeInv
    <2>1. /\ session \in Connections /\ status = "up" /\ exited = FALSE
          /\ confirmedIn \in 0 .. session /\ registeredIn \in 0 .. session
        BY DEF Init, Connections
    <2>2. /\ hAt \in [Connections -> {"off", "loading"}]
          /\ \A n \in Connections : n > session => hAt[n] = "off"
        BY DEF Init, Connections
    <2>3. hTodo \in [Connections -> SUBSET subscriptions]
        BY DEF Init
    <2>4. /\ brokerSubs \subseteq Topics /\ subscriptions \subseteq {"commands"}
          /\ notified \subseteq 1 .. session /\ lAt = "calling"
        BY DEF Init
    <2>5. QED
        BY <2>1, <2>2, <2>3, <2>4 DEF TypeInv, TypeOK
<1>2. ListenInv
    BY DEF Init, ListenInv
<1>3. HeardInv
    BY DEF Init, HeardInv, RefreshHeard, Ready, Connections
<1>4. QED
    BY <1>1, <1>2, <1>3 DEF IInv

LEMMA Invariance == Safety => []IInv
<1>1. IInv /\ [Next]_vars => IInv'
    BY TypeStep, ListenStep, HeardStep DEF IInv
<1>2. QED
    BY <1>1, InitInv, PTL DEF Safety

\* Every variable keeps its kind, and a handler subscribes again only to what
\* was registered (initSubscriptions).
THEOREM TypeCorrect == Safety => []TypeOK
BY Invariance, PTL DEF IInv, TypeInv

\* The commands are heard on every connection whose handler has run, except on
\* one that came between the confirmation of the topic and its registration
\* (ListenToCommands, loadOldSubscriptions).
THEOREM CommandsHeardHolds == Safety => []CommandsHeard
<1>1. IInv => CommandsHeard
    BY DEF IInv, TypeInv, TypeOK, HeardInv, CommandsHeard, Ready, Subscribed, Connections
<1>2. QED
    BY <1>1, Invariance, PTL

\* So is the refresh of the device manager (listenToDeviceManagementRefresh).
THEOREM RefreshHeardHolds == Safety => []RefreshHeard
<1>1. IInv => RefreshHeard
    BY DEF IInv, HeardInv
<1>2. QED
    BY <1>1, Invariance, PTL

===============================================================================
