------------------------------- MODULE StateFeed -------------------------------
(***************************************************************************)
(* What the zigbee2mqtt client promises the two loops of the connector     *)
(* about the states of the devices, whatever its handlers do: the states   *)
(* are accepted one after the other.  Each becomes, in one step, the value *)
(* a get answers and the last event in a bounded queue; the event loop     *)
(* takes every one of them, in the order in which they were accepted.      *)
(***************************************************************************)
EXTENDS Naturals, Sequences

CONSTANTS
    Devices,
    States,
    NoState,    \* the value of a device before its first state
    Room        \* how many accepted states may wait for the event loop

VARIABLES
    current,    \* the value of each device
    queue,      \* the states accepted and not taken
    taken       \* the last state of each device the event loop took

vars == <<current, queue, taken>>

Init ==
    /\ current = [d \in Devices |-> NoState]
    /\ queue = <<>>
    /\ taken = [d \in Devices |-> NoState]

Accept(d, s) ==
    /\ Len(queue) < Room
    /\ current' = [current EXCEPT ![d] = s]
    /\ queue' = Append(queue, [device |-> d, state |-> s])
    /\ UNCHANGED taken

Take ==
    /\ queue # <<>>
    /\ taken' = [taken EXCEPT ![Head(queue).device] = Head(queue).state]
    /\ queue' = Tail(queue)
    /\ UNCHANGED current

Next == Take \/ \E d \in Devices, s \in States : Accept(d, s)

Spec == Init /\ [][Next]_vars

===============================================================================
