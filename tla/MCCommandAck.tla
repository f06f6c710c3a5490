---------------------------- MODULE MCCommandAck ------------------------------
(***************************************************************************)
(* Values for the constants of CommandAck: a lamp whose definition exposes *)
(* its state, and a sensor threshold that can be set but is not published. *)
(***************************************************************************)
EXTENDS CommandAck

CONSTANTS c1, h1, h2, lamp

On  == [type |-> "string", v |-> "on"]
Off == [type |-> "string", v |-> "off"]

LampExposes == { [property |-> "state", access |-> 7],
                 [property |-> "threshold", access |-> 2] }

MCOneCommand == {c1}
MCOneHandler == {h1}
MCTwoHandlers == {h1, h2}
MCOneDevice == {lamp}
MCExposes == [d \in Devices |-> LampExposes]

\* With a fade, which no state shows.
SetOn == [state |-> On, transition |-> [type |-> "number", v |-> 2]]
SetThreshold == [threshold |-> On]
NoPayload == NoExpectation

aRequest(service, own, payload, d) ==
    [service |-> service, own |-> own, payload |-> payload, device |-> d]

\* Every way the loop can take: acknowledged, not acknowledged, get, unknown
\* service, foreign device.
MCRequests ==
    { aRequest("set", TRUE, SetOn, lamp),
      aRequest("set", TRUE, SetThreshold, lamp),
      aRequest("get", TRUE, NoPayload, lamp),
      aRequest("other", TRUE, NoPayload, lamp),
      aRequest("set", FALSE, SetOn, lamp) }

\* What the registry tells apart: a set it tracks, one it does not.
MCSets == { aRequest("set", TRUE, p, lamp) : p \in {SetOn, SetThreshold} }

\* A state that confirms SetOn, and one that does not.
MCStates == { [state |-> On], [state |-> Off] }
===============================================================================
