-------------------------------- MODULE ValueMap --------------------------------
(***************************************************************************)
(* What a dictionary promises to the program: a map from keys to values in *)
(* which a key without an entry has the value void.  Dictionary,           *)
(* translated from source/moth/object.c, implements it until the program   *)
(* stores void under the key void: a call ends in the step here that it    *)
(* asks for.                                                               *)
(***************************************************************************)
CONSTANTS Key, Value, Void

VARIABLES
  map,    \* map[k] is the value of k
  ret     \* what the last call that returns a value returned

vars == <<map, ret>>

Init == map = [k \in Key |-> Void] /\ ret = Void

Set(k, v) == map' = [map EXCEPT ![k] = v] /\ UNCHANGED ret

Get(k) == ret' = map[k] /\ UNCHANGED map

Delete(k) == ret' = map[k] /\ map' = [map EXCEPT ![k] = Void]

(* Calls with the key void, and only those: any answer, no key is touched. *)
WithVoid == ret' \in Value /\ UNCHANGED map

Next ==
  \/ \E k \in Key : Get(k) \/ Delete(k) \/ \E v \in Value : Set(k, v)
  \/ WithVoid

Spec == Init /\ [][Next]_vars
===============================================================================
