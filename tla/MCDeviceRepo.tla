----------------------------- MODULE MCDeviceRepo -----------------------------
(***************************************************************************)
(* Values for the constants of DeviceRepo: the lamp and, where a run has   *)
(* it, the plug, each with the device type its vendor and model match.     *)
(***************************************************************************)
EXTENDS DeviceRepo

CONSTANTS lamp, plug, lampType, plugType

MCMatchOf == [d \in Devices |-> IF d = lamp THEN lampType ELSE plugType]
===============================================================================
