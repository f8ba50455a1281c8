----------------------------- MODULE MCEnvironment -----------------------------
(***************************************************************************)
(* Environment with more symbols than the four buckets it ever has; their  *)
(* hashes collide at the end of the table, so that probes wrap around.     *)
(***************************************************************************)
EXTENDS Environment

CONSTANTS a, b, c, d, e

MCHash == [s \in Symbol |-> CASE s \in {a, b, c} -> 7 [] s = d -> 4 [] s = e -> 2]
(* A host that deletes nothing, as the VM, and one that deletes a symbol others collide with. *)
MCHosts == {{}, {a}}
===============================================================================
