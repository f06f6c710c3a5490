-------------------------- MODULE MCDeviceHandling ----------------------------
(***************************************************************************)
(* Values for the constants of DeviceHandling: a device that may be       *)
(* absent, not interviewed yet, disabled or enabled.                       *)
(***************************************************************************)
EXTENDS DeviceHandling

CONSTANTS lamp, s1, s2

MCOneDevice == {lamp}
MCOneSender == {s1}
MCTwoSenders == {s1, s2}

\* Everything a list can say of a device.
MCAllLists == [Devices -> Infos]

\* Every device in every list, as enabled.
MCEnabledList == [Devices -> {"enabled"}]
===============================================================================
