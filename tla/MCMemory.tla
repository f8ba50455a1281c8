------------------------------- MODULE MCMemory -------------------------------
(***************************************************************************)
(* Memory with an array of bytes, whose first capacities fit in the arena, *)
(* one of values, whose first capacity does not, and a block of any        *)
(* size up to one more than a small one.                                   *)
(***************************************************************************)
EXTENDS Memory

CONSTANTS bytes, rodata

MCElemSize == [a \in Array |-> IF a = bytes THEN 1 ELSE 2]
===============================================================================
