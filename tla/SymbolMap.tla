------------------------------- MODULE SymbolMap -------------------------------
(***************************************************************************)
(* What the global environment promises to the VM: a partial map from      *)
(* symbols to values.  DEFINE_SYMBOL, ASSIGN_SYMBOL and LOAD_SYMBOL are    *)
(* one step each here; Environment, translated from source/moth/env.c,     *)
(* implements them with a hash table as long as nothing is deleted.        *)
(***************************************************************************)
CONSTANTS Symbol, Value, None

VARIABLES
  map,    \* map[s] is the value of s, or None
  ret     \* what the last call returned

vars == <<map, ret>>

Init == map = [s \in Symbol |-> None] /\ ret = None

Set(s, v) == map' = [map EXCEPT ![s] = v] /\ ret' = v

SetExisting(s, v) ==
  \/ map[s] # None /\ Set(s, v)
  \/ map[s] = None /\ ret' = None /\ UNCHANGED map

Get(s) == ret' = map[s] /\ UNCHANGED map

Next ==
  \E s \in Symbol : Get(s) \/ \E v \in Value : Set(s, v) \/ SetExisting(s, v)

Spec == Init /\ [][Next]_vars
===============================================================================
