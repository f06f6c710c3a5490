----------------------------- MODULE DevicePromise -----------------------------
(***************************************************************************)
(* What the device loop promises the mgw about the devices of zigbee2mqtt, *)
(* whatever fails and however often it retries: the mgw is only ever told  *)
(* of usable devices of the list in force, each at most once per list, in  *)
(* the state that list gives it, when its device type is there and the     *)
(* event filter knows the state already.  A device is given up before the  *)
(* next list only without a type, or if the mgw client refuses it.         *)
(***************************************************************************)
CONSTANTS
    Devices,
    Lists,
    MayRefuse   \* the mgw client may refuse a device while it is connected

VARIABLES
    current,    \* the list in force
    open,       \* its devices that are neither registered nor given up
    gate,       \* the state of each device in the event filter
    known,      \* the state of each device the mgw was told last
    typed,      \* the devices with a device type
    connected   \* the mgw client has not been disconnected

vars == <<current, open, gate, known, typed, connected>>

usable(l) == { d \in Devices : l[d] \in {"disabled", "enabled"} }

stateIn(l, d) == IF l[d] = "enabled" THEN "online" ELSE "offline"

Init ==
    /\ current = [d \in Devices |-> "absent"]
    /\ open = {}
    /\ gate = [d \in Devices |-> "none"]
    /\ known = [d \in Devices |-> "none"]
    /\ typed \subseteq Devices
    /\ connected = TRUE

NewList(l) ==
    /\ current' = l
    /\ open' = usable(l)
    /\ UNCHANGED <<gate, known, typed, connected>>

AddType(d) ==
    /\ d \in open \ typed
    /\ typed' = typed \cup {d}
    /\ UNCHANGED <<current, open, gate, known, connected>>

Filter(d) ==
    /\ d \in open \cap typed
    /\ gate' = [gate EXCEPT ![d] = stateIn(current, d)]
    /\ UNCHANGED <<current, open, known, typed, connected>>

Register(d) ==
    /\ d \in open \cap typed
    /\ connected
    /\ gate[d] = stateIn(current, d)
    /\ known' = [known EXCEPT ![d] = stateIn(current, d)]
    /\ open' = open \ {d}
    /\ UNCHANGED <<current, gate, typed, connected>>

GiveUp(d) ==
    /\ d \in open
    /\ d \notin typed \/ MayRefuse \/ ~connected
    /\ open' = open \ {d}
    /\ UNCHANGED <<current, gate, known, typed, connected>>

Disconnect ==
    /\ connected
    /\ connected' = FALSE
    /\ UNCHANGED <<current, open, gate, known, typed>>

Next ==
    \/ \E l \in Lists : NewList(l)
    \/ \E d \in Devices : AddType(d) \/ Filter(d) \/ Register(d) \/ GiveUp(d)
    \/ Disconnect

Spec == Init /\ [][Next]_vars

===============================================================================
