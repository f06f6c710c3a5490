--------------------------- MODULE MgwSubscriptions ----------------------------
(***************************************************************************)
(* The subscriptions of the mgw client over lost connections (pkg/mgw:     *)
(* client.go, subscriptions.go, command.go; pkg/connector: connector.go).  *)
(*                                                                         *)
(* The session is clean, so the broker forgets the subscriptions with each *)
(* connection.  On each new one the mqtt client starts the OnConnect       *)
(* handler in a goroutine of its own: it subscribes to the topics of the   *)
(* client's registry and to the refresh topic, and notifies the connector, *)
(* which handles its devices again.  The start of the connector subscribes *)
(* to the commands and registers that topic, next to the first handler     *)
(* and, if the connection is lost early, next to later ones.               *)
(*                                                                         *)
(* The mqtt client (external) fails a Subscribe that begins while it       *)
(* reconnects, keeps one that the loss of the connection interrupts and    *)
(* sends it again on the next connection (SetResumeSubs), and fails it     *)
(* when it is told to disconnect.                                          *)
(*                                                                         *)
(* A definition marked "mutant" is a faulty variant of the one after it    *)
(* that nothing uses; PROJECT.json names the property it would break.      *)
(***************************************************************************)
EXTENDS Integers

CONSTANTS MaxConnections    \* bound on the connections

ASSUME MaxConnectionsAssumption == MaxConnections \in Nat \ {0}

Connections == 1 .. MaxConnections

\* The topics command/+/+ and device-manager/refresh.
Topics == {"commands", "refresh"}

VARIABLES
    status,         \* the mqtt client is "up", "lost" or "closed"
    session,        \* the number of the last connection
    brokerSubs,     \* what the broker sends, or was asked to send, on it
    subscriptions,  \* the registry of the mgw client
    lAt,            \* where ListenToCommands is
    confirmedIn,    \* history: the session that confirmed its topic
    registeredIn,   \* history: the session in which it was registered
    hAt,            \* where the OnConnect handler of each connection is
    hTodo,          \* the topics it has read and not subscribed to yet
    notified,       \* the connections whose handler notified the connector
    exited          \* the process is over

linkVars   == <<status, session>>
listenVars == <<subscriptions, lAt, confirmedIn, registeredIn>>
initVars   == <<hAt, hTodo, notified>>
vars == <<linkVars, brokerSubs, listenVars, initVars, exited>>

\* New has connected, Start goes on with ListenToCommands.
Init ==
    /\ status = "up"
    /\ session = 1
    /\ brokerSubs = {}
    /\ subscriptions = {}
    /\ lAt = "calling"
    /\ confirmedIn = 0
    /\ registeredIn = 0
    /\ hAt = [n \in Connections |-> IF n = 1 THEN "loading" ELSE "off"]
    /\ hTodo = [n \in Connections |-> {}]
    /\ notified = {}
    /\ exited = FALSE

-------------------------------------------------------------------------------
\* The mqtt client.

ConnectionLost ==
    /\ ~exited
    /\ status = "up"
    /\ session < MaxConnections
    /\ status' = "lost"
    /\ brokerSubs' = {}
    /\ UNCHANGED <<session, listenVars, initVars, exited>>

Reconnect ==
    /\ ~exited
    /\ status = "lost"
    /\ status' = "up"
    /\ session' = session + 1
    /\ hAt' = [hAt EXCEPT ![session'] = "loading"]
    /\ UNCHANGED <<brokerSubs, listenVars, hTodo, notified, exited>>

\* The context is cancelled.
Disconnect ==
    /\ ~exited
    /\ status # "closed"
    /\ status' = "closed"
    /\ brokerSubs' = {}
    /\ UNCHANGED <<session, listenVars, initVars, exited>>

\* A Subscribe begins, and its token completes.  The token of one that was
\* interrupted completes when it is sent again, before the broker confirms it, so
\* a topic counts as heard once the broker was asked for it; that it refuses a
\* topic is left out.
Accepted == status = "up"
Confirmed(topic) == status = "up" /\ brokerSubs' = brokerSubs \cup {topic}

\* It fails at its begin, or while its token is waited for.
Refused == status # "up"
Broken == status = "closed" /\ UNCHANGED brokerSubs

-------------------------------------------------------------------------------
\* ListenToCommands, which Start calls once; its error ends the process.

Listen ==
    /\ ~exited
    /\ lAt = "calling"
    /\ UNCHANGED brokerSubs
    /\ \/ Accepted /\ lAt' = "waiting" /\ UNCHANGED exited
       \/ Refused /\ exited' = TRUE /\ UNCHANGED lAt
    /\ UNCHANGED <<linkVars, subscriptions, confirmedIn, registeredIn, initVars>>

ListenConfirmed ==
    /\ ~exited
    /\ lAt = "waiting"
    /\ \/ /\ Confirmed("commands")
          /\ lAt' = "registering"
          /\ confirmedIn' = session
          /\ UNCHANGED exited
       \/ Broken /\ exited' = TRUE /\ UNCHANGED <<lAt, confirmedIn>>
    /\ UNCHANGED <<linkVars, subscriptions, registeredIn, initVars>>

registeredNot == subscriptions                              \* mutant
registered == subscriptions \cup {"commands"}

registerSubscription ==
    /\ ~exited
    /\ lAt = "registering"
    /\ lAt' = "listening"
    /\ subscriptions' = registered
    /\ registeredIn' = session
    /\ UNCHANGED <<linkVars, brokerSubs, confirmedIn, initVars, exited>>

-------------------------------------------------------------------------------
\* initSubscriptions, in the OnConnect handler of connection n.

\* What loadOldSubscriptions reads from the registry.
everyTopic == {"commands"}                                  \* mutant
loadOldSubscriptions == subscriptions

\* The error of its first Subscribe, or of a later one, ends the process.
InitSubscriptions(n) ==
    /\ ~exited
    /\ hAt[n] = "loading"
    /\ \/ /\ status # "closed"
          /\ hTodo' = [hTodo EXCEPT ![n] = loadOldSubscriptions]
          /\ hAt' = [hAt EXCEPT ![n] = "resubscribing"]
          /\ UNCHANGED exited
       \/ status = "closed" /\ exited' = TRUE /\ UNCHANGED <<hAt, hTodo>>
    /\ UNCHANGED <<linkVars, brokerSubs, listenVars, notified>>

Resubscribe(n) ==
    /\ ~exited
    /\ hAt[n] = "resubscribing"
    /\ UNCHANGED brokerSubs
    /\ \/ /\ hTodo[n] = {}
          /\ hAt' = [hAt EXCEPT ![n] = "listening"]
          /\ UNCHANGED exited
       \/ /\ hTodo[n] # {}
          /\ Accepted
          /\ hAt' = [hAt EXCEPT ![n] = "confirming"]
          /\ UNCHANGED exited
       \/ hTodo[n] # {} /\ Refused /\ exited' = TRUE /\ UNCHANGED hAt
    /\ UNCHANGED <<linkVars, listenVars, hTodo, notified>>

ResubscribeConfirmed(n) ==
    /\ ~exited
    /\ hAt[n] = "confirming"
    /\ \/ \E topic \in hTodo[n] :
             /\ Confirmed(topic)
             /\ hTodo' = [hTodo EXCEPT ![n] = @ \ {topic}]
             /\ hAt' = [hAt EXCEPT ![n] = "resubscribing"]
             /\ UNCHANGED exited
       \/ Broken /\ exited' = TRUE /\ UNCHANGED <<hAt, hTodo>>
    /\ UNCHANGED <<linkVars, listenVars, notified>>

\* listenToDeviceManagementRefresh, whose error is dropped.
listensOnce(n) == IF n = 1 THEN "waiting" ELSE "notifying"  \* mutant
afterAccepted(n) == "waiting"

ListenToRefresh(n) ==
    /\ ~exited
    /\ hAt[n] = "listening"
    /\ UNCHANGED brokerSubs
    /\ \/ Accepted /\ hAt' = [hAt EXCEPT ![n] = afterAccepted(n)]
       \/ Refused /\ hAt' = [hAt EXCEPT ![n] = "notifying"]
    /\ UNCHANGED <<linkVars, listenVars, hTodo, notified, exited>>

RefreshConfirmed(n) ==
    /\ ~exited
    /\ hAt[n] = "waiting"
    /\ Confirmed("refresh") \/ Broken
    /\ hAt' = [hAt EXCEPT ![n] = "notifying"]
    /\ UNCHANGED <<linkVars, listenVars, hTodo, notified, exited>>

notifiedFirst(n) == IF n = 1 THEN notified \cup {n} ELSE notified   \* mutant
notifiedBy(n) == notified \cup {n}

\* deviceManagerRefreshNotifier, the connector's NotifyRefresh.
Notify(n) ==
    /\ ~exited
    /\ hAt[n] = "notifying"
    /\ hAt' = [hAt EXCEPT ![n] = "done"]
    /\ notified' = notifiedBy(n)
    /\ UNCHANGED <<linkVars, brokerSubs, listenVars, hTodo, exited>>

\* main returns.
Exit ==
    /\ ~exited
    /\ status = "closed"
    /\ exited' = TRUE
    /\ UNCHANGED <<linkVars, brokerSubs, listenVars, initVars>>

Terminated == exited /\ UNCHANGED vars

-------------------------------------------------------------------------------
ListenToCommands == Listen \/ ListenConfirmed \/ registerSubscription

OnConnect(n) ==
    \/ InitSubscriptions(n) \/ Resubscribe(n) \/ ResubscribeConfirmed(n)
    \/ ListenToRefresh(n) \/ RefreshConfirmed(n) \/ Notify(n)

Next ==
    \/ ConnectionLost \/ Reconnect \/ Disconnect
    \/ ListenToCommands
    \/ \E n \in Connections : OnConnect(n)
    \/ Exit \/ Terminated

Safety == Init /\ [][Next]_vars

\* Goroutines run, the client reconnects, and a live broker confirms.
Fairness ==
    /\ WF_vars(Reconnect)
    /\ WF_vars(ListenToCommands)
    /\ \A n \in Connections : WF_vars(OnConnect(n))

Spec == Safety /\ Fairness

-------------------------------------------------------------------------------
\* Properties.

\* Every variable holds a value of its kind; nothing happens on a connection
\* that was not made yet, and only what was registered is subscribed to again.
TypeOK ==
    /\ status \in {"up", "lost", "closed"}
    /\ session \in Connections
    /\ brokerSubs \subseteq Topics
    /\ subscriptions \subseteq {"commands"}
    /\ lAt \in {"calling", "waiting", "registering", "listening"}
    /\ confirmedIn \in 0 .. session /\ registeredIn \in 0 .. session
    /\ hAt \in [Connections -> {"off", "loading", "resubscribing", "confirming",
                                "listening", "waiting", "notifying", "done"}]
    /\ \A n \in Connections : n > session => hAt[n] = "off"
    /\ hTodo \in [Connections -> SUBSET subscriptions]
    /\ notified \subseteq 1 .. session
    /\ exited \in BOOLEAN

\* The OnConnect handler of the present connection is done with the broker.
Ready == status = "up" /\ hAt[session] \in {"notifying", "done"}

\* After any number of lost connections the commands arrive again, as soon as
\* the handler of the new connection has run: the topic was registered before
\* the handler read the registry.  The exception is the connection in which a
\* topic that an earlier one confirmed was registered.
CommandsHeard ==
    /\ Ready
    /\ lAt = "listening"
    /\ registeredIn = confirmedIn \/ registeredIn < session
    => "commands" \in brokerSubs

\* So does the refresh of the device manager, although the error of its
\* subscription is dropped: only a connection that is gone makes it fail.
RefreshHeard == Ready => "refresh" \in brokerSubs

\* A connection that lasts is followed by a refresh of the devices, whatever
\* handlers of earlier connections still wait for.
ConnectionsNotified ==
    \A n \in Connections :
        session = n /\ status = "up" ~> n \in notified \/ status # "up" \/ exited

===============================================================================
