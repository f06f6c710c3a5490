------------------------------- MODULE AckMatch -------------------------------
(***************************************************************************)
(* The pure half of the command acknowledgement (pkg/connector/ack.go):    *)
(* which keys of a set payload a published device state has to show, and   *)
(* when it shows them.                                                     *)
(*                                                                         *)
(* A payload, a state and an expectation are functions from property names *)
(* to JSON values.  A text that is not a JSON object, or is null, is the   *)
(* function with the empty domain: the code treats the two alike.          *)
(*                                                                         *)
(* A JSON value is a record [type, v] with type one of "string", "number", *)
(* "bool", "null" and "container" (object or array).  The v of a string is *)
(* its case-folded form, because strings.EqualFold is the only comparison  *)
(* the code makes of strings.                                              *)
(*                                                                         *)
(* The exposes of a device definition are the set of its features, nested  *)
(* ones included, each a record [property, access]; the empty set is the   *)
(* definition that is not available.                                       *)
(***************************************************************************)
EXTENDS Integers

zigbeeSetTransitionKey == "transition"

\* A property is published when any of its occurrences has no access
\* information or has the published bit, the lowest one, set; a feature that
\* only groups others has no property.
collectPublishedProperties(features) ==
    { f.property : f \in { g \in features : /\ g.property # ""
                                            /\ g.access = 0 \/ g.access % 2 = 1 } }

ackExpectationTransition(payload, exposes, lastState) ==      \* mutant
    LET comparable ==
            { key \in DOMAIN payload :
                /\ exposes # {} => key \in collectPublishedProperties(exposes)
                /\ DOMAIN lastState # {} => key \in DOMAIN lastState }
    IN  [ key \in comparable |-> payload[key] ]

ackExpectation(payload, exposes, lastState) ==
    LET comparable ==
            { key \in DOMAIN payload \ {zigbeeSetTransitionKey} :
                /\ exposes # {} => key \in collectPublishedProperties(exposes)
                /\ DOMAIN lastState # {} => key \in DOMAIN lastState }
    IN  [ key \in comparable |-> payload[key] ]

\* The second result of ackExpectation: some key can be compared.
isAcknowledgeable(expected) == DOMAIN expected # {}

Toggle == [type |-> "string", v |-> "toggle"]

ackValueMatches(expected, got) ==
    \/ expected.type = "container"
    \/ got.type = "container"
    \/ expected = Toggle
    \/ expected = got

ackMatches(expected, state) ==
    \A key \in DOMAIN expected :
        /\ key \in DOMAIN state
        /\ ackValueMatches(expected[key], state[key])

\* For properties: the state shows what the payload asks for.
echoes(state, payload) ==
    \A key \in DOMAIN payload \ {zigbeeSetTransitionKey} :
        key \in DOMAIN state /\ state[key] = payload[key]

===============================================================================
