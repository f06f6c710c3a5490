---------------------------- MODULE MCZigbeeClient ----------------------------
(***************************************************************************)
(* Values for the constants of ZigbeeClient: a lamp that may leave the     *)
(* list and come back.                                                     *)
(***************************************************************************)
EXTENDS ZigbeeClient

CONSTANTS lamp, h1, h2, lampName

MCOneHandler == {h1}
MCTwoHandlers == {h1, h2}

\* The lamp is in the list or not; zigbee2mqtt may not have started yet.
MCPresentOrAbsent == [{lamp} -> {lampName, NoName}]
MCFirst == [{lamp} -> {lampName}] \cup {NoList}
===============================================================================
