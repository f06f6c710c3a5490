-------------------------------- MODULE MCAuth --------------------------------
(***************************************************************************)
(* The callers of Auth.  They are interchangeable.                         *)
(***************************************************************************)
EXTENDS Auth, TLC

CONSTANTS deviceLoop, eventLoop

MCSymmetry == Permutations({deviceLoop, eventLoop})
===============================================================================
