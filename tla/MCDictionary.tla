----------------------------- MODULE MCDictionary -----------------------------
(***************************************************************************)
(* Dictionary with three keys whose homes collide in a table of four       *)
(* buckets and part in one of eight, and merges of one and of two entries. *)
(***************************************************************************)
EXTENDS Dictionary

CONSTANTS a, b, c

MCHash == [k \in Key \cup {Void} |-> CASE k \in {a, b} -> 7 [] k = c -> 3 [] OTHER -> 0]
MCWith == {<< <<c, Tombstone>> >>, << <<b, Void>>, <<a, Tombstone>> >>}
===============================================================================
