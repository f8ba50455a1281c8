-------------------------------- MODULE MCMothVM --------------------------------
(***************************************************************************)
(* MothVM with three addresses, so that the registry (capacity 1, then 4)  *)
(* fills, is collected from inside a registration, grows, and is swept     *)
(* with garbage before, between and after live objects.  Addresses are     *)
(* interchangeable: nothing orders them.                                   *)
(***************************************************************************)
EXTENDS MothVM

Addresses == Permutations(Object)
===============================================================================
